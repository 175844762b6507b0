-------------------------- MODULE BuildPlanProofs --------------------------
(***************************************************************************)
(* What BuildPlan's run checks for settings at their limits, proved for    *)
(* every setting that InputsAssumption admits: lists of stacks, of values  *)
(* and of variables of any length, durations of any size.                  *)
(***************************************************************************)
EXTENDS BuildPlan, FiniteSetTheorems, WellFoundedInduction, TLAPS

-----------------------------------------------------------------------------
(* The operators that pick the first and the last place of a list.         *)

(* What a concatenation holds at its places. *)
LEMMA ConcatAt ==
  ASSUME NEW S, NEW s \in Seq(S), NEW t \in Seq(S)
  PROVE  /\ s \o t \in Seq(S)
         /\ Len(s) \in Nat /\ Len(t) \in Nat
         /\ Len(s \o t) = Len(s) + Len(t)
         /\ \A k \in 1 .. Len(s) : k \in 1 .. Len(s \o t) /\ (s \o t)[k] = s[k]
         /\ \A k \in 1 .. Len(t) : /\ Len(s) + k \in 1 .. Len(s \o t)
                                   /\ (s \o t)[Len(s) + k] = t[k]
         /\ \A k \in 1 .. Len(s \o t) : k \in 1 .. Len(s) \/ k - Len(s) \in 1 .. Len(t)
<1>1. s \o t \in Seq(S) /\ Len(s) \in Nat /\ Len(t) \in Nat /\ Len(s \o t) = Len(s) + Len(t)
  OBVIOUS
<1>2. \A k \in 1 .. Len(s) : k \in 1 .. Len(s \o t) /\ (s \o t)[k] = s[k]
  OBVIOUS
<1>3. \A k \in 1 .. Len(t) : Len(s) + k \in 1 .. Len(s \o t) /\ (s \o t)[Len(s) + k] = t[k]
  OBVIOUS
<1>4. \A k \in 1 .. Len(s \o t) : k \in 1 .. Len(s) \/ k - Len(s) \in 1 .. Len(t)
  BY <1>1
<1> QED BY <1>1, <1>2, <1>3, <1>4, Zenon

(* A set of numbers that is not empty has a least member. *)
LEMMA LeastExists ==
  ASSUME NEW T, T \subseteq Nat, T # {}
  PROVE  \E x \in T : \A y \in T : x <= y
<1> DEFINE R == OpToRel(<, Nat)
<1>1. IsWellFoundedOn(R, Nat)
  BY NatLessThanWellFounded, Zenon
<1>2. \A y \in T, x \in T : y < x => <<y, x>> \in R
  BY DEF OpToRel
<1> HIDE DEF R
<1>3. PICK x \in T : \A y \in T : ~ (<<y, x>> \in R)
  BY <1>1, WFMin, Zenon
<1>4. \A y \in T : ~ (y < x)
  BY <1>2, <1>3, Zenon
<1> QED BY <1>4

(* Min of a set of numbers, as Chosen uses it. *)
LEMMA MinIsLeast ==
  ASSUME NEW T, T \subseteq Nat, T # {}
  PROVE  Min(T) \in T /\ \A y \in T : Min(T) <= y
BY LeastExists, Zenon DEF Min

(* Max of a bounded set of numbers, as Effective uses it. *)
LEMMA MaxIsGreatest ==
  ASSUME NEW n \in Nat, NEW T, T \subseteq 1 .. n, T # {}
  PROVE  Max(T) \in T /\ \A y \in T : Max(T) >= y
<1> DEFINE D == {n - k : k \in T}
<1>0. \A k \in T : k \in Int /\ n - k \in Nat
  OBVIOUS
<1>1. D \subseteq Nat /\ D # {}
  BY <1>0, Zenon
<1>2. PICK d \in D : \A e \in D : d <= e
  BY <1>1, LeastExists, Zenon
<1>3. PICK x \in T : d = n - x
  BY <1>2
<1>4. \A y \in T : n - x <= n - y
  BY <1>2, <1>3, Zenon
<1>5. \A y \in T : x >= y
  <2> HIDE DEF D
  <2> QED BY <1>0, <1>3, <1>4
<1> QED BY <1>3, <1>5, Zenon DEF Max

(* An injection into a finite set of the same size reaches all of it. *)
LEMMA InjectionReachesAll ==
  ASSUME NEW n \in Nat, NEW S, IsFiniteSet(S), Cardinality(S) = n,
         NEW f \in Injection(S, 1 .. n)
  PROVE  \A i \in 1 .. n : \E s \in S : f[s] = i
<1>1. IsFiniteSet(1 .. n) /\ Cardinality(1 .. n) = n
  BY FS_Interval
<1>2. f \in Surjection(S, 1 .. n)
  BY <1>1, FS_Injection, Zenon
<1> QED BY <1>2, Zenon DEF Surjection

(* Keys lists every key of a finite map. *)
LEMMA KeysListAll ==
  ASSUME NEW m, IsFiniteSet(DOMAIN m)
  PROVE  /\ Cardinality(DOMAIN m) \in Nat
         /\ Keys(m) \in [1 .. Cardinality(DOMAIN m) -> DOMAIN m]
         /\ \A s \in DOMAIN m : \E k \in 1 .. Cardinality(DOMAIN m) : Keys(m)[k] = s
<1> DEFINE S == DOMAIN m
           n == Cardinality(S)
<1>1. n \in Nat /\ ExistsBijection(1 .. n, S)
  BY FS_CardinalityType, Zenon
<1>2. \E f \in [1 .. n -> S] : IsInjective(f)
  BY <1>1, Zenon DEF ExistsBijection, Bijection, Injection
<1>3. Keys(m) \in [1 .. n -> S] /\ IsInjective(Keys(m))
  BY <1>2, Zenon DEF Keys
<1>4. Keys(m) \in Injection(1 .. n, S)
  BY <1>3, Zenon DEF Injection
<1>5. Cardinality(1 .. n) = n
  BY <1>1, FS_Interval
<1>6. Keys(m) \in Surjection(1 .. n, S)
  BY <1>4, <1>5, FS_Injection, Zenon
<1> QED BY <1>1, <1>3, <1>6, Zenon DEF Surjection

(* GlobalAt(i) is the place of a global value: each place has its own      *)
(* number among them, so each number has its place.                        *)
LEMMA GlobalAtIsGlobal ==
  ASSUME NEW S, values \in Seq(S)
  PROVE  /\ Cardinality(Global) \in Nat
         /\ \A i \in 1 .. Cardinality(Global) : GlobalAt(i) \in Global
<1> DEFINE G == Global
           n == Cardinality(G)
           Upto(k) == {j \in G : j <= k}
           rank == [k \in G |-> Cardinality(Upto(k))]
<1>1. G \subseteq 1 .. Len(values) /\ Len(values) \in Nat
  BY DEF Global
<1>2. IsFiniteSet(G) /\ n \in Nat
  <2>1. IsFiniteSet(1 .. Len(values))
    BY <1>1, FS_Interval
  <2> QED BY <1>1, <2>1, FS_Subset, FS_CardinalityType, Zenon
<1>3. ASSUME NEW k \in G
      PROVE  IsFiniteSet(Upto(k)) /\ Cardinality(Upto(k)) \in 1 .. n
  <2>1. Upto(k) \in SUBSET G
    OBVIOUS
  <2>2. IsFiniteSet(Upto(k)) /\ Cardinality(Upto(k)) <= n
    BY <1>2, <2>1, FS_Subset, Zenon
  <2>3. Cardinality(Upto(k)) \in Nat
    BY <2>2, FS_CardinalityType, Zenon
  <2>4. k \in Upto(k)
    BY <1>1
  <2>5. Cardinality(Upto(k)) # 0
    BY <2>2, <2>4, FS_EmptySet, Zenon
  <2> HIDE DEF Upto, n
  <2> QED BY <1>2, <2>2, <2>3, <2>5
<1>4. ASSUME NEW k \in G, NEW l \in G, k < l
      PROVE  Cardinality(Upto(k)) # Cardinality(Upto(l))
  <2>1. \A j \in G : j <= k => j <= l
    BY <1>1, <1>4
  <2>2. Upto(k) \in SUBSET Upto(l)
    BY <2>1, Zenon
  <2>3. l \in Upto(l) /\ l \notin Upto(k)
    <3>1. l <= l /\ ~ (l <= k)
      BY <1>1, <1>4
    <3> QED BY <3>1, Zenon
  <2> HIDE DEF Upto
  <2> QED BY <1>3, <2>2, <2>3, FS_Subset, Zenon
<1> HIDE DEF Upto
<1>5. \A k, l \in G : rank[k] = rank[l] => k = l
  <2> SUFFICES ASSUME NEW k \in G, NEW l \in G, k # l
               PROVE  Cardinality(Upto(k)) # Cardinality(Upto(l))
    BY Zenon
  <2>1. k < l \/ l < k
    BY <1>1
  <2> QED BY <1>4, <2>1, Zenon
<1>6. rank \in Injection(G, 1 .. n)
  BY <1>3, <1>5, Zenon DEF Injection, IsInjective
<1>7. \A i \in 1 .. n : \E k \in G : rank[k] = i
  BY <1>2, <1>6, InjectionReachesAll, Zenon
<1>8. \A i \in 1 .. n : \E k \in Global : Cardinality({j \in Global : j <= k}) = i
  BY <1>7, Zenon DEF Upto
<1> QED BY <1>2, <1>8, Zenon DEF GlobalAt

-----------------------------------------------------------------------------
(* The stack.                                                              *)

(* The first place of a list where a test holds, as an index set. *)
LEMMA FirstPlace ==
  ASSUME NEW S, NEW s \in Seq(S), NEW I, I \subseteq 1 .. Len(s), I # {}
  PROVE  Min(I) \in I /\ \A k \in I : Min(I) <= k
<1>1. I \subseteq Nat
  OBVIOUS
<1> QED BY <1>1, MinIsLeast, Zenon

(* The names in Wanted, by the files of the commit. *)
LEMMA WantedByFiles ==
  LET D == "Dockerfile" \in files
      P == files \cap {"Procfile", "project.toml"} # {}
  IN  /\ Wanted \in Seq({strStack, "container", "buildpack"})
      /\ Len(Wanted) = IF D /\ P THEN 3 ELSE IF D \/ P THEN 2 ELSE 1
      /\ Wanted[1] = strStack
      /\ D => Wanted[2] = "container"
      /\ D /\ P => Wanted[3] = "buildpack"
      /\ ~ D /\ P => Wanted[2] = "buildpack"
<1> DEFINE N == {strStack, "container", "buildpack"}
           A == <<strStack>>
           B == IF "Dockerfile" \in files THEN <<"container">> ELSE <<>>
           C == IF files \cap {"Procfile", "project.toml"} # {} THEN <<"buildpack">> ELSE <<>>
<1>1. A \in Seq(N) /\ Len(A) = 1 /\ A[1] = strStack
  OBVIOUS
<1>2. /\ B \in Seq(N)
      /\ "Dockerfile" \in files => Len(B) = 1 /\ B[1] = "container"
      /\ "Dockerfile" \notin files => Len(B) = 0
  OBVIOUS
<1>3. /\ C \in Seq(N)
      /\ files \cap {"Procfile", "project.toml"} # {} => Len(C) = 1 /\ C[1] = "buildpack"
      /\ files \cap {"Procfile", "project.toml"} = {} => Len(C) = 0
  <2>1. <<"buildpack">> \in Seq(N) /\ Len(<<"buildpack">>) = 1 /\ <<"buildpack">>[1] = "buildpack"
    OBVIOUS
  <2>2. <<>> \in Seq(N) /\ Len(<<>>) = 0
    OBVIOUS
  <2> QED BY <2>1, <2>2, Zenon
<1>4. Wanted = (A \o B) \o C
  BY Zenon DEF Wanted
<1> HIDE DEF N, A, B, C
<1>5. /\ A \o B \in Seq(N) /\ Len(A \o B) = 1 + Len(B) /\ Len(B) \in Nat
      /\ (A \o B)[1] = strStack
      /\ Len(B) = 1 => (A \o B)[2] = B[1]
  <2>1. \A k \in 1 .. Len(B) : (A \o B)[1 + k] = B[k]
    BY <1>1, <1>2, ConcatAt
  <2>2. 1 + 1 = 2
    OBVIOUS
  <2> QED BY <1>1, <1>2, <2>1, <2>2, ConcatAt
<1>6. /\ Wanted \in Seq(N) /\ Len(Wanted) = 1 + Len(B) + Len(C)
      /\ Wanted[1] = strStack
      /\ Len(B) = 1 => Wanted[2] = (A \o B)[2]
      /\ Len(B) = 1 /\ Len(C) = 1 => Wanted[3] = C[1]
      /\ Len(B) = 0 /\ Len(C) = 1 => Wanted[2] = C[1]
  BY <1>2, <1>3, <1>4, <1>5
<1> QED BY <1>2, <1>3, <1>5, <1>6 DEF N

(* What getStack's loops leave: no wanted name is listed and the first     *)
(* stack is taken, or the first wanted name that is listed, at its first   *)
(* place.                                                                  *)
LEMMA ChosenIsFirst ==
  ASSUME NEW ss \in Seq(String), ss # <<>>
  PROVE  /\ Chosen(ss) \in 1 .. Len(ss)
         /\ \/ /\ Chosen(ss) = 1
               /\ \A v \in 1 .. Len(Wanted), k \in 1 .. Len(ss) : ss[k] # Wanted[v]
            \/ \E w \in 1 .. Len(Wanted) :
                  /\ ss[Chosen(ss)] = Wanted[w]
                  /\ \A v \in 1 .. Len(Wanted), k \in 1 .. Len(ss) : v < w => ss[k] # Wanted[v]
                  /\ \A k \in 1 .. Len(ss) : ss[k] = Wanted[w] => Chosen(ss) <= k
<1> DEFINE W == {i \in 1 .. Len(Wanted) : Wanted[i] \in Range(ss)}
           At1(w) == {i \in 1 .. Len(ss) : ss[i] = Wanted[w]}
           w1 == Min(W)
<1>2. Wanted \in Seq({strStack, "container", "buildpack"}) /\ Len(Wanted) \in Nat
  BY WantedByFiles
<1>0. DOMAIN Wanted = 1 .. Len(Wanted) /\ DOMAIN ss = 1 .. Len(ss)
  BY <1>2
<1>1. Chosen(ss) = IF W = {} THEN 1 ELSE Min(At1(w1))
  BY <1>0, Zenon DEF Chosen
<1>3. \A n : n \in Range(ss) <=> \E k \in 1 .. Len(ss) : ss[k] = n
  BY DEF Range
<1>4. Len(ss) \in Nat /\ Len(ss) >= 1
  OBVIOUS
<1>5. CASE W = {}
  <2>1. Chosen(ss) = 1
    BY <1>1, <1>5, Zenon
  <2>2. \A v \in 1 .. Len(Wanted), k \in 1 .. Len(ss) : ss[k] # Wanted[v]
    BY <1>3, <1>5, Zenon
  <2>3. 1 \in 1 .. Len(ss)
    BY <1>4
  <2> QED BY <2>1, <2>2, <2>3, Zenon
<1>6. CASE W # {}
  <2>1. W \subseteq 1 .. Len(Wanted)
    BY Zenon
  <2>2. Min(W) \in W /\ \A v \in W : Min(W) <= v
    BY <1>2, <1>6, <2>1, FirstPlace, Zenon
  <2>3. w1 \in W /\ \A v \in W : w1 <= v
    BY <2>2, Zenon
  <2>4. w1 \in 1 .. Len(Wanted)
    BY <2>1, <2>3, Zenon
  <2> HIDE DEF w1
  <2>5. At1(w1) # {} /\ At1(w1) \subseteq 1 .. Len(ss)
    BY <1>3, <2>3, Zenon
  <2>6. Min(At1(w1)) \in At1(w1) /\ \A k \in At1(w1) : Min(At1(w1)) <= k
    BY <2>5, FirstPlace, Zenon
  <2>7. Chosen(ss) = Min(At1(w1))
    BY <1>1, <1>6, Zenon
  <2>8. \A v \in 1 .. Len(Wanted) : v < w1 => v \notin W
    <3>1. \A v \in 1 .. Len(Wanted) : v < w1 => ~ (w1 <= v)
      BY <1>2, <2>4
    <3> QED BY <2>3, <3>1, Zenon
  <2>9. \A v \in 1 .. Len(Wanted), k \in 1 .. Len(ss) : v < w1 => ss[k] # Wanted[v]
    BY <1>3, <2>8, Zenon
  <2> QED BY <2>4, <2>6, <2>7, <2>9, Zenon
<1> QED BY <1>5, <1>6, Zenon

(* The choice of getStack's loops is one of the best rank, by the place of *)
(* its name in Wanted.                                                     *)
LEMMA ChosenHasBestRank ==
  ASSUME stacks \in Seq(String), stacks # <<>>, stack = Chosen(stacks)
  PROVE  StackOfBestRank
<1> DEFINE D == "Dockerfile" \in files
           P == files \cap {"Procfile", "project.toml"} # {}
           Rank(k) ==
             CASE stacks[k] = strStack -> 0
               [] stacks[k] # strStack /\ stacks[k] = "container" /\ D -> 1
               [] /\ stacks[k] # strStack /\ stacks[k] = "buildpack" /\ P -> 2
               [] OTHER -> 3
           I == 1 .. Len(stacks)
<1> SUFFICES \A k \in I : Rank(stack) < Rank(k) \/ (Rank(stack) = Rank(k) /\ stack <= k)
  <2>1. DOMAIN stacks = I
    OBVIOUS
  <2> QED BY <2>1, Zenon DEF StackOfBestRank
<1>1. \A k : /\ Rank(k) = 0 <=> stacks[k] = strStack
             /\ Rank(k) = 1 <=> stacks[k] # strStack /\ stacks[k] = "container" /\ D
             /\ Rank(k) = 2 <=> stacks[k] # strStack /\ stacks[k] = "buildpack" /\ P
             /\ Rank(k) \in 0 .. 3
  <2> HIDE DEF D, P
  <2> QED OBVIOUS
<1>2. /\ Len(Wanted) = IF D /\ P THEN 3 ELSE IF D \/ P THEN 2 ELSE 1
      /\ Wanted[1] = strStack
      /\ D => Wanted[2] = "container"
      /\ D /\ P => Wanted[3] = "buildpack"
      /\ ~ D /\ P => Wanted[2] = "buildpack"
  BY WantedByFiles, Zenon
<1>3. stack \in I /\ \A k \in I : k \in Nat /\ 1 <= k
  <2>1. Chosen(stacks) \in I
    BY ChosenIsFirst, Zenon
  <2> QED BY <2>1
<1> HIDE DEF D, P, Rank, I
<1>4. CASE stack = 1 /\ \A v \in 1 .. Len(Wanted), k \in I : stacks[k] # Wanted[v]
  <2>1. \A k \in I : /\ stacks[k] # strStack
                     /\ D => stacks[k] # "container"
                     /\ P => stacks[k] # "buildpack"
    BY <1>2, <1>4
  <2>2. \A k \in I : Rank(k) = 3
    BY <1>1, <2>1
  <2> QED BY <1>3, <1>4, <2>2
<1>5. ASSUME NEW w \in 1 .. Len(Wanted),
             stacks[stack] = Wanted[w],
             \A v \in 1 .. Len(Wanted), k \in I : v < w => stacks[k] # Wanted[v],
             \A k \in I : stacks[k] = Wanted[w] => stack <= k
      PROVE  \A k \in I : Rank(stack) < Rank(k) \/ (Rank(stack) = Rank(k) /\ stack <= k)
  <2>1. CASE w = 1
    BY <1>1, <1>2, <1>5, <2>1
  <2>2. CASE w # 1
    <3>1. \A k \in I : stacks[k] # strStack
      BY <1>2, <1>5, <2>2
    <3>2. CASE D /\ w = 2
      BY <1>1, <1>2, <1>3, <1>5, <3>1, <3>2
    <3>3. CASE ~ D /\ P /\ w = 2
      BY <1>1, <1>2, <1>3, <1>5, <3>1, <3>3
    <3>4. CASE D /\ P /\ w = 3
      <4>1. \A k \in I : stacks[k] # "container"
        BY <1>2, <1>5, <3>4
      <4> QED BY <1>1, <1>2, <1>3, <1>5, <3>1, <3>4, <4>1
    <3> QED BY <1>2, <2>2, <3>2, <3>3, <3>4
  <2> QED BY <2>1, <2>2, Zenon
<1> QED BY <1>4, <1>5, ChosenIsFirst, Zenon DEF I

-----------------------------------------------------------------------------
(* The job's environment.                                                  *)

(* A list of variables names n. *)
Names(t, n) == \E k \in 1 .. Len(t) : t[k].name = n

(* A list of variables gives n no value but v. *)
Gives(t, n, v) == \A k \in 1 .. Len(t) : t[k].name = n => t[k].value = v

(* Both over a concatenation. *)
LEMMA ConcatGives ==
  ASSUME NEW S, NEW s \in Seq(S), NEW t \in Seq(S), NEW n, NEW v
  PROVE  /\ Names(s, n) \/ Names(t, n) => Names(s \o t, n)
         /\ Gives(s, n, v) /\ Gives(t, n, v) => Gives(s \o t, n, v)
<1>0. /\ Len(s) \in Nat
      /\ \A k \in 1 .. Len(s) : k \in 1 .. Len(s \o t) /\ (s \o t)[k] = s[k]
      /\ \A k \in 1 .. Len(t) : /\ Len(s) + k \in 1 .. Len(s \o t)
                                /\ (s \o t)[Len(s) + k] = t[k]
      /\ \A k \in 1 .. Len(s \o t) : k \in 1 .. Len(s) \/ k - Len(s) \in 1 .. Len(t)
  BY ConcatAt
<1>1. Names(s, n) => Names(s \o t, n)
  BY <1>0, Zenon DEF Names
<1>2. Names(t, n) => Names(s \o t, n)
  BY <1>0, Zenon DEF Names
<1>3. ASSUME Gives(s, n, v), Gives(t, n, v), NEW k \in 1 .. Len(s \o t), (s \o t)[k].name = n
      PROVE  (s \o t)[k].value = v
  <2>1. CASE k \in 1 .. Len(s)
    <3>1. (s \o t)[k] = s[k]
      BY <1>0, <2>1, Zenon
    <3> QED BY <1>3, <2>1, <3>1, Zenon DEF Gives
  <2>2. CASE k - Len(s) \in 1 .. Len(t)
    <3>1. Len(s) + (k - Len(s)) = k
      BY <1>0, <2>2
    <3>2. (s \o t)[k] = t[k - Len(s)]
      BY <1>0, <2>2, <3>1, Zenon
    <3> QED BY <1>3, <2>2, <3>2, Zenon DEF Gives
  <2> QED BY <1>0, <1>3, <2>1, <2>2, Zenon
<1> QED BY <1>1, <1>2, <1>3, Zenon DEF Gives

(* What a container sees is what the later part of its list says, where    *)
(* that part names the variable.                                           *)
LEMMA LaterPartWins ==
  ASSUME NEW S, NEW s \in Seq(S), NEW t \in Seq(S), jobEnv = s \o t,
         NEW n, NEW v, Names(t, n), Gives(t, n, v)
  PROVE  Effective(n) = v
<1> DEFINE I == {k \in 1 .. Len(jobEnv) : jobEnv[k].name = n}
<1>1. Len(s) \in Nat /\ Len(t) \in Nat /\ Len(jobEnv) = Len(s) + Len(t)
  BY ConcatAt
<1>0. \A k \in 1 .. Len(t) : /\ Len(s) + k \in 1 .. Len(jobEnv)
                             /\ jobEnv[Len(s) + k] = t[k]
  BY ConcatAt
<1>2. PICK k \in 1 .. Len(t) : t[k].name = n
  BY Zenon DEF Names
<1>3. Len(s) + k \in I
  BY <1>0, <1>2, Zenon
<1>4. I \subseteq 1 .. Len(jobEnv) /\ Len(jobEnv) \in Nat
  BY <1>1
<1>5. Max(I) \in I /\ \A y \in I : Max(I) >= y
  BY <1>3, <1>4, MaxIsGreatest, Zenon
<1>6. Effective(n) = jobEnv[Max(I)].value
  <2>1. jobEnv \in Seq(S)
    BY ConcatAt, Zenon
  <2>2. DOMAIN jobEnv = 1 .. Len(jobEnv)
    BY <2>1
  <2> QED BY <2>2, Zenon DEF Effective
<1>7. Max(I) - Len(s) \in 1 .. Len(t) /\ Len(s) + (Max(I) - Len(s)) = Max(I)
  <2>1. Max(I) \in 1 .. Len(jobEnv) /\ Max(I) >= Len(s) + k
    BY <1>3, <1>5, Zenon
  <2> HIDE DEF I
  <2> QED BY <1>1, <1>2, <2>1
<1>8. jobEnv[Max(I)] = t[Max(I) - Len(s)]
  BY <1>0, <1>7, Zenon
<1>9. jobEnv[Max(I)].name = n
  BY <1>5, Zenon
<1> QED BY <1>6, <1>7, <1>8, <1>9, Zenon DEF Gives

-----------------------------------------------------------------------------
(* The inductive invariant.                                                *)

Value == [group : String, name : String, value : String]

(* The settings are as InputsAssumption says. *)
SettingsOK ==
    /\ conf.tick \in [Wait -> Int] /\ conf.wait \in [Wait -> Int] /\ conf.interval \in Int
    /\ images \in Seq(Seq(String)) /\ Len(images) <= 1
    /\ values \in Seq(Value)
    /\ environ \in [DOMAIN environ -> String]

(* build has its stack. *)
StackTaken == stacks = initStack /\ stacks # <<>> /\ stack = Chosen(stacks)

(* build has the builder's variables and the image's name, of what the     *)
(* hook was given. *)
EnvMade ==
    /\ checkImagebuilderRequiredEnv(Environ)
    /\ image = ImageIn(WithOrganization(Environ))
    /\ env = Put(WithOrganization(Environ), "DRYCC_STACK", stacks[stack])

(* How far the build is, and what it has by then. *)
PlanInv ==
    /\ SettingsOK
    /\ stage \in {"CheckDurations", "getStack", "nodeSelector", "pullPolicy", "env", "job",
                  "progress", "waiting", "err", "panic"}
    /\ tick \in [Wait -> Int]
    /\ stage = "CheckDurations" => tick = conf.tick
    /\ TicksFit
    /\ (stacks = <<>> /\ stack = 0) \/ StackTaken
    /\ stage \in {"nodeSelector", "pullPolicy", "env", "job", "progress", "waiting"} => StackTaken
    /\ stage \in {"job", "progress", "waiting"} => EnvMade
    /\ jobEnv = <<>> \/ (StackTaken /\ EnvMade /\ jobEnv = JobEnvironment)
    /\ stage \in {"progress", "waiting"} => jobEnv = JobEnvironment
    /\ stage \notin {"progress", "waiting", "panic"} => jobEnv = <<>>
    /\ stage = "panic" =>
         IF jobEnv # <<>> THEN ~(Duration(conf.interval) > 0)
         ELSE images = << <<>> >> \/ \E k \in stackValues : values[k].value = "notString"

(* A list of at most one entry. *)
LEMMA ShortSeq ==
  ASSUME NEW S, NEW s \in Seq(S), s # <<>>, Len(s) <= 1
  PROVE  Len(s) = 1 /\ s[1] \in S
OBVIOUS

(* The stacks are names, and there are some where images.json lists some.  *)
LEMMA InitStackType ==
  ASSUME SettingsOK
  PROVE  /\ initStack \in Seq(String)
         /\ initStack = <<>> => images = << <<>> >>
<1>1. CASE images = <<>>
  <2>1. initStack = <<"buildpack", "container">>
    BY <1>1, Zenon DEF initStack
  <2>2. <<"buildpack", "container">> \in Seq(String) /\ <<"buildpack", "container">> # <<>>
    <3>1. "buildpack" \in String /\ "container" \in String
      BY StringAssumption, Zenon
    <3> QED BY <3>1
  <2> QED BY <2>1, <2>2, Zenon
<1>2. CASE images # <<>>
  <2>1. initStack = images[1]
    BY <1>2, Zenon DEF initStack
  <2>2. images \in Seq(Seq(String)) /\ Len(images) = 1 /\ images[1] \in Seq(String)
    <3>1. images \in Seq(Seq(String)) /\ Len(images) <= 1
      BY Zenon DEF SettingsOK
    <3> QED BY <1>2, <3>1, ShortSeq, Zenon
  <2>3. ASSUME images[1] = <<>> PROVE images = << <<>> >>
    <3>1. << <<>> >> \in Seq(Seq(String)) /\ Len(<< <<>> >>) = 1 /\ << <<>> >>[1] = <<>>
      OBVIOUS
    <3> QED BY <2>2, <2>3, <3>1
  <2> QED BY <2>1, <2>2, <2>3, Zenon
<1> QED BY <1>1, <1>2, Zenon

(* The stack that is taken is one of the list. *)
LEMMA StackInList ==
  ASSUME SettingsOK, StackTaken
  PROVE  stacks \in Seq(String) /\ stack \in 1 .. Len(stacks) /\ stacks[stack] \in String
<1>1. stacks \in Seq(String) /\ stacks # <<>>
  BY InitStackType, Zenon DEF StackTaken
<1>2. stack \in 1 .. Len(stacks)
  BY <1>1, ChosenIsFirst, Zenon DEF StackTaken
<1> QED BY <1>1, <1>2

(* The names createBuilderJob can find in the builder's variables. *)
Known == Registry \cup {"DRYCC_STORAGE_BUCKET", "DRYCC_STACK"}

(* The builder's variables: the stack that was taken, and the registry's   *)
(* as the image's name has them.                                           *)
LEMMA EnvMadeFacts ==
  ASSUME SettingsOK, StackTaken, EnvMade
  PROVE  /\ DOMAIN env \subseteq Known
         /\ \A n \in DOMAIN env : env[n] \in String
         /\ "DRYCC_STACK" \in DOMAIN env /\ env["DRYCC_STACK"] = stacks[stack]
         /\ "DRYCC_REGISTRY_ORGANIZATION" \in DOMAIN env
         /\ image[2] = env["DRYCC_REGISTRY_ORGANIZATION"] /\ image[2] # ""
         /\ LET host == IF offCluster(env) THEN "DRYCC_REGISTRY_HOST"
                                           ELSE "DRYCC_REGISTRY_PROXY_HOST"
            IN  host \in DOMAIN env /\ image[1] = env[host]
         /\ ~ offCluster(env) => image[1] # ""
<1> DEFINE e == Environ
           m == WithOrganization(Environ)
           Org == "DRYCC_REGISTRY_ORGANIZATION"
           Loc == "DRYCC_REGISTRY_LOCATION"
           Hst == "DRYCC_REGISTRY_HOST"
           Prx == "DRYCC_REGISTRY_PROXY_HOST"
<1>1. DOMAIN e \subseteq Registry \cup {"DRYCC_STORAGE_BUCKET"} /\ \A n \in DOMAIN e : e[n] \in String
  BY Zenon DEF Environ, Restrict, SettingsOK
<1>2. /\ Hst \in DOMAIN e
      /\ IF offCluster(e) THEN Get(e, Org) # "" ELSE Get(e, Prx) # ""
      /\ image = ImageIn(m)
      /\ env = Put(m, "DRYCC_STACK", stacks[stack])
  BY Zenon DEF EnvMade, checkImagebuilderRequiredEnv
<1>3. "app" \in String /\ stacks[stack] \in String /\ "app" # ""
  BY StringAssumption, StackInList
<1> HIDE DEF e
<1>4. /\ DOMAIN m \subseteq Known
      /\ \A n \in DOMAIN m : m[n] \in String
      /\ Org \in DOMAIN m /\ m[Org] # "" /\ Hst \in DOMAIN m
      /\ offCluster(m) = offCluster(e)
      /\ ~ offCluster(m) => Prx \in DOMAIN m /\ m[Prx] # ""
  <2>1. CASE offCluster(e)
    <3>1. m = e
      BY <2>1, Zenon DEF WithOrganization, e
    <3>2. Org \in DOMAIN e /\ e[Org] # ""
      BY <1>2, <2>1, Zenon DEF Get
    <3>3. DOMAIN e \subseteq Known
      BY <1>1, Zenon DEF Known
    <3> HIDE DEF m
    <3> QED BY <1>1, <1>2, <2>1, <3>1, <3>2, <3>3, Zenon
  <2>2. CASE ~ offCluster(e)
    <3>1. m = [x \in DOMAIN e \cup {Org} |-> IF x = Org THEN "app" ELSE e[x]]
      BY <2>2, Zenon DEF WithOrganization, Put, e
    <3>2. Prx \in DOMAIN e /\ e[Prx] # ""
      BY <1>2, <2>2, Zenon DEF Get
    <3> HIDE DEF m
    <3>3. DOMAIN m = DOMAIN e \cup {Org} /\ m[Org] = "app" /\ \A x \in DOMAIN e : x # Org => m[x] = e[x]
      BY <3>1, Zenon
    <3>4. DOMAIN m \subseteq Known
      BY <1>1, <3>3 DEF Known, Registry
    <3>5. \A n \in DOMAIN m : m[n] \in String
      BY <1>1, <1>3, <3>3, Zenon
    <3>6. Loc # Org /\ Prx # Org
      OBVIOUS
    <3>7. Get(m, Loc) = Get(e, Loc)
      BY <3>3, <3>6, Zenon DEF Get
    <3>8. offCluster(m) = offCluster(e)
      BY <3>7, Zenon DEF offCluster
    <3> QED BY <1>2, <1>3, <2>2, <3>2, <3>3, <3>4, <3>5, <3>6, <3>8, Zenon
  <2> QED BY <2>1, <2>2, Zenon
<1> HIDE DEF m
<1>5. /\ DOMAIN env = DOMAIN m \cup {"DRYCC_STACK"} /\ env["DRYCC_STACK"] = stacks[stack]
      /\ \A x \in DOMAIN m : x # "DRYCC_STACK" => env[x] = m[x]
  BY <1>2, Zenon DEF Put
<1>6. Loc # "DRYCC_STACK" /\ Prx # "DRYCC_STACK" /\ Org # "DRYCC_STACK" /\ Hst # "DRYCC_STACK"
  OBVIOUS
<1>7. offCluster(env) = offCluster(m)
  <2>1. Get(env, Loc) = Get(m, Loc)
    BY <1>5, <1>6, Zenon DEF Get
  <2> QED BY <2>1, Zenon DEF offCluster
<1>8. image[1] = (IF offCluster(m) THEN m[Hst] ELSE m[Prx]) /\ image[2] = m[Org]
  <2>1. \A a, b : <<a, b>>[1] = a /\ <<a, b>>[2] = b
    OBVIOUS
  <2> QED BY <1>2, <2>1, Zenon DEF ImageIn
<1>9. DOMAIN env \subseteq Known /\ \A n \in DOMAIN env : env[n] \in String
  BY <1>3, <1>4, <1>5, Zenon DEF Known
<1> QED BY <1>4, <1>5, <1>6, <1>7, <1>8, <1>9, Zenon

(* createBuilderJob's part of the environment. *)
LEMMA BuildersFacts ==
  ASSUME SettingsOK, StackTaken, EnvMade
  PROVE  /\ builders \in Seq(EnvVar) /\ Len(builders) >= 3
         /\ Names(builders, "TAR_PATH") /\ Gives(builders, "TAR_PATH", "tarKey")
         /\ Names(builders, "SOURCE_VERSION") /\ Gives(builders, "SOURCE_VERSION", "sha")
         /\ Names(builders, "IMAGE_NAME") /\ Gives(builders, "IMAGE_NAME", "image")
         /\ conf.debug => Names(builders, "DRYCC_DEBUG") /\ Gives(builders, "DRYCC_DEBUG", "1")
         /\ \A n \in DOMAIN env : Names(builders, n) /\ Gives(builders, n, env[n])
<1> DEFINE d == IF conf.debug THEN <<Entry("DRYCC_DEBUG", "1")>> ELSE <<>>
           t == <<Entry("TAR_PATH", "tarKey"), Entry("SOURCE_VERSION", "sha"), Entry("IMAGE_NAME", "image")>>
           ns == Keys(env)
           l == [k \in DOMAIN ns |-> Entry(ns[k], env[ns[k]])]
           c == Cardinality(DOMAIN env)
<1>1. builders = (d \o t) \o l
  BY Zenon DEF builders
<1>2. \A n, v : /\ Entry(n, v).name = n /\ Entry(n, v).value = v
                /\ n \in String /\ v \in String => Entry(n, v) \in EnvVar
  BY DEF Entry, EnvVar
<1>3. DOMAIN env \subseteq Known /\ \A n \in DOMAIN env : env[n] \in String
  BY EnvMadeFacts, Zenon
<1>4. Known \subseteq String
  BY StringAssumption, Zenon DEF Known
<1>5. /\ d \in Seq(EnvVar)
      /\ \A k \in 1 .. Len(d) : d[k].name = "DRYCC_DEBUG" /\ d[k].value = "1"
      /\ conf.debug => Names(d, "DRYCC_DEBUG")
  <2>1. Entry("DRYCC_DEBUG", "1") \in EnvVar
    BY <1>2, StringAssumption, Zenon
  <2> DEFINE x == Entry("DRYCC_DEBUG", "1")
  <2>2. x.name = "DRYCC_DEBUG" /\ x.value = "1"
    BY <1>2, Zenon
  <2> HIDE DEF x
  <2>3. <<x>> \in Seq(EnvVar) /\ Len(<<x>>) = 1 /\ <<x>>[1] = x /\ \A k \in 1 .. 1 : k = 1
    BY <2>1 DEF x
  <2>4. <<>> \in Seq(EnvVar) /\ Len(<<>>) = 0 /\ ~ \E k \in 1 .. 0 : TRUE
    OBVIOUS
  <2>5. 1 \in 1 .. 1
    OBVIOUS
  <2>6. CASE conf.debug
    <3>1. d = <<x>>
      BY <2>6, Zenon DEF x
    <3> HIDE DEF d
    <3> QED BY <2>2, <2>3, <2>5, <3>1, Zenon DEF Names
  <2>7. CASE ~ conf.debug
    <3>1. d = <<>>
      BY <2>7, Zenon
    <3> HIDE DEF d
    <3> QED BY <2>4, <2>7, <3>1, Zenon
  <2> QED BY <2>6, <2>7, Zenon
<1>6. /\ t \in Seq(EnvVar) /\ Len(t) = 3
      /\ t[1] = Entry("TAR_PATH", "tarKey") /\ t[3] = Entry("IMAGE_NAME", "image")
      /\ t[2] = Entry("SOURCE_VERSION", "sha")
  <2>1. /\ Entry("TAR_PATH", "tarKey") \in EnvVar /\ Entry("SOURCE_VERSION", "sha") \in EnvVar
        /\ Entry("IMAGE_NAME", "image") \in EnvVar
    BY <1>2, StringAssumption, Zenon
  <2>2. ASSUME NEW x \in EnvVar, NEW y \in EnvVar, NEW z \in EnvVar
        PROVE  /\ <<x, y, z>> \in Seq(EnvVar) /\ Len(<<x, y, z>>) = 3
               /\ <<x, y, z>>[1] = x /\ <<x, y, z>>[2] = y /\ <<x, y, z>>[3] = z
    OBVIOUS
  <2> QED BY <2>1, <2>2, Zenon
<1>7. c \in Nat /\ ns \in [1 .. c -> DOMAIN env] /\ \A n \in DOMAIN env : \E k \in 1 .. c : ns[k] = n
  <2>1. IsFiniteSet(Known)
    <3>1. \A S, x : IsFiniteSet(S) => IsFiniteSet(S \cup {x})
      BY FS_AddElement, Zenon
    <3>2. \A x : IsFiniteSet({x})
      BY FS_Singleton, Zenon
    <3>3. IsFiniteSet((((({"DRYCC_REGISTRY_HOST"} \cup {"DRYCC_REGISTRY_ORGANIZATION"})
                          \cup {"DRYCC_REGISTRY_LOCATION"}) \cup {"DRYCC_REGISTRY_PROXY_HOST"})
                        \cup {"DRYCC_STORAGE_BUCKET"}) \cup {"DRYCC_STACK"})
      BY <3>1, <3>2, Zenon
    <3>4. Known = (((({"DRYCC_REGISTRY_HOST"} \cup {"DRYCC_REGISTRY_ORGANIZATION"})
                     \cup {"DRYCC_REGISTRY_LOCATION"}) \cup {"DRYCC_REGISTRY_PROXY_HOST"})
                   \cup {"DRYCC_STORAGE_BUCKET"}) \cup {"DRYCC_STACK"}
      BY DEF Known, Registry
    <3> QED BY <3>3, <3>4, Zenon
  <2>2. IsFiniteSet(DOMAIN env)
    BY <1>3, <2>1, FS_Subset, Zenon
  <2> QED BY <2>2, KeysListAll, Zenon
<1>8. /\ l \in Seq(EnvVar) /\ Len(l) = c
      /\ \A k \in 1 .. c : l[k] = Entry(ns[k], env[ns[k]]) /\ ns[k] \in DOMAIN env
  <2> HIDE DEF ns, c
  <2>1. l = [k \in 1 .. c |-> Entry(ns[k], env[ns[k]])] /\ \A k \in 1 .. c : ns[k] \in DOMAIN env
    BY <1>7, Zenon
  <2>2. \A k \in 1 .. c : Entry(ns[k], env[ns[k]]) \in EnvVar
    BY <1>2, <1>3, <1>4, <2>1, Zenon
  <2>3. l \in [1 .. c -> EnvVar] /\ \A k \in 1 .. c : l[k] = Entry(ns[k], env[ns[k]])
    BY <2>1, <2>2, Zenon
  <2> HIDE DEF l
  <2> QED BY <1>7, <2>1, <2>3
<1> HIDE DEF d, t, l, ns, c
<1>9. /\ d \o t \in Seq(EnvVar) /\ Len(d \o t) \in Nat /\ Len(d \o t) >= 3
      /\ builders \in Seq(EnvVar) /\ Len(builders) >= 3
  <2>1. d \o t \in Seq(EnvVar) /\ Len(d) \in Nat /\ Len(d \o t) = Len(d) + Len(t)
    BY <1>5, <1>6, ConcatAt, Zenon
  <2>2. builders \in Seq(EnvVar) /\ Len(builders) = Len(d \o t) + Len(l)
    BY <1>1, <1>8, <2>1, ConcatAt, Zenon
  <2> QED BY <1>6, <1>7, <1>8, <2>1, <2>2
<1>10. ASSUME NEW n, NEW v
       PROVE  /\ Names(d, n) \/ Names(t, n) \/ Names(l, n) => Names(builders, n)
              /\ Gives(d, n, v) /\ Gives(t, n, v) /\ Gives(l, n, v) => Gives(builders, n, v)
  BY <1>1, <1>5, <1>6, <1>8, <1>9, ConcatGives, Zenon
<1>11. \A n, v : n # "DRYCC_DEBUG" \/ v = "1" => Gives(d, n, v)
  BY <1>5, Zenon DEF Gives
<1>12. /\ Names(t, "TAR_PATH") /\ Gives(t, "TAR_PATH", "tarKey")
       /\ Names(t, "SOURCE_VERSION") /\ Gives(t, "SOURCE_VERSION", "sha")
       /\ Names(t, "IMAGE_NAME") /\ Gives(t, "IMAGE_NAME", "image")
       /\ \A n, v : n \notin {"TAR_PATH", "SOURCE_VERSION", "IMAGE_NAME"} => Gives(t, n, v)
  <2>1. \A k \in 1 .. Len(t) : k = 1 \/ k = 2 \/ k = 3
    BY <1>6
  <2>2. 1 \in 1 .. Len(t) /\ 2 \in 1 .. Len(t) /\ 3 \in 1 .. Len(t)
    BY <1>6
  <2>3. /\ t[1].name = "TAR_PATH" /\ t[1].value = "tarKey" /\ t[2].name = "SOURCE_VERSION"
        /\ t[2].value = "sha" /\ t[3].name = "IMAGE_NAME" /\ t[3].value = "image"
    <3>1. /\ Entry("TAR_PATH", "tarKey").name = "TAR_PATH" /\ Entry("TAR_PATH", "tarKey").value = "tarKey"
          /\ Entry("SOURCE_VERSION", "sha").name = "SOURCE_VERSION"
          /\ Entry("SOURCE_VERSION", "sha").value = "sha"
          /\ Entry("IMAGE_NAME", "image").name = "IMAGE_NAME" /\ Entry("IMAGE_NAME", "image").value = "image"
      BY <1>2, Zenon
    <3> QED BY <1>6, <3>1
  <2>4. "TAR_PATH" # "SOURCE_VERSION" /\ "TAR_PATH" # "IMAGE_NAME" /\ "IMAGE_NAME" # "SOURCE_VERSION"
    OBVIOUS
  <2>5. Names(t, "TAR_PATH") /\ Names(t, "SOURCE_VERSION") /\ Names(t, "IMAGE_NAME")
    BY <2>2, <2>3, Zenon DEF Names
  <2>6. /\ Gives(t, "TAR_PATH", "tarKey") /\ Gives(t, "SOURCE_VERSION", "sha")
        /\ Gives(t, "IMAGE_NAME", "image")
    BY <2>1, <2>3, <2>4, Zenon DEF Gives
  <2>7. \A n, v : n \notin {"TAR_PATH", "SOURCE_VERSION", "IMAGE_NAME"} => Gives(t, n, v)
    BY <2>1, <2>3, Zenon DEF Gives
  <2> QED BY <2>5, <2>6, <2>7, Zenon
<1>13. /\ \A n \in DOMAIN env : Names(l, n) /\ Gives(l, n, env[n])
       /\ \A n, v : n \notin DOMAIN env => Gives(l, n, v)
  <2>1. \A k \in 1 .. Len(l) : l[k].name = ns[k] /\ l[k].value = env[ns[k]] /\ ns[k] \in DOMAIN env
    <3> TAKE k \in 1 .. Len(l)
    <3>1. k \in 1 .. c
      BY <1>8, Zenon
    <3>2. l[k] = Entry(ns[k], env[ns[k]]) /\ ns[k] \in DOMAIN env
      BY <1>8, <3>1, Zenon
    <3>3. Entry(ns[k], env[ns[k]]).name = ns[k] /\ Entry(ns[k], env[ns[k]]).value = env[ns[k]]
      BY <1>2, Zenon
    <3> QED BY <3>2, <3>3, Zenon
  <2>2. \A n \in DOMAIN env : Names(l, n)
    <3> TAKE n \in DOMAIN env
    <3>1. PICK k \in 1 .. c : ns[k] = n
      BY <1>7, Zenon
    <3>2. k \in 1 .. Len(l)
      BY <1>8, <3>1, Zenon
    <3>3. l[k].name = n
      BY <2>1, <3>1, <3>2, Zenon
    <3> QED BY <3>2, <3>3, Zenon DEF Names
  <2> QED BY <2>1, <2>2, Zenon DEF Gives
<1>14. /\ "TAR_PATH" \notin Known /\ "IMAGE_NAME" \notin Known /\ "DRYCC_DEBUG" \notin Known
       /\ "SOURCE_VERSION" \notin Known
       /\ "TAR_PATH" # "DRYCC_DEBUG" /\ "IMAGE_NAME" # "DRYCC_DEBUG"
       /\ "SOURCE_VERSION" # "DRYCC_DEBUG"
       /\ "DRYCC_DEBUG" \notin {"TAR_PATH", "SOURCE_VERSION", "IMAGE_NAME"}
  BY DEF Known, Registry
<1>15. /\ Names(builders, "TAR_PATH") /\ Gives(builders, "TAR_PATH", "tarKey")
       /\ Names(builders, "SOURCE_VERSION") /\ Gives(builders, "SOURCE_VERSION", "sha")
       /\ Names(builders, "IMAGE_NAME") /\ Gives(builders, "IMAGE_NAME", "image")
  BY <1>3, <1>10, <1>11, <1>12, <1>13, <1>14, Zenon
<1>16. conf.debug => Names(builders, "DRYCC_DEBUG") /\ Gives(builders, "DRYCC_DEBUG", "1")
  BY <1>3, <1>5, <1>10, <1>11, <1>12, <1>13, <1>14, Zenon
<1>17. ASSUME NEW n \in DOMAIN env
       PROVE  Names(builders, n) /\ Gives(builders, n, env[n])
  <2>1. n # "DRYCC_DEBUG" /\ n \notin {"TAR_PATH", "SOURCE_VERSION", "IMAGE_NAME"}
    BY <1>3, <1>14, Zenon
  <2> QED BY <1>10, <1>11, <1>12, <1>13, <2>1, Zenon
<1> QED BY <1>9, <1>15, <1>16, <1>17, Zenon

(* buildJob's part of the environment. *)
LEMMA GlobalsType ==
  ASSUME SettingsOK
  PROVE  globals \in Seq(EnvVar)
<1>1. values \in Seq(Value)
  BY Zenon DEF SettingsOK
<1>2. /\ Cardinality(Global) \in Nat
      /\ \A i \in 1 .. Cardinality(Global) : GlobalAt(i) \in Global
  BY <1>1, GlobalAtIsGlobal, Zenon
<1>3. \A k \in Global : values[k] \in Value
  BY <1>1 DEF Global
<1>4. \A v \in Value : Entry(v.name, v.value) \in EnvVar
  BY DEF Value, Entry, EnvVar
<1>5. \A i \in 1 .. Cardinality(Global) :
         Entry(values[GlobalAt(i)].name, values[GlobalAt(i)].value) \in EnvVar
  BY <1>2, <1>3, <1>4, Zenon
<1>6. globals \in [1 .. Cardinality(Global) -> EnvVar]
  BY <1>5, Zenon DEF globals
<1> QED BY <1>2, <1>6

(* The whole environment. *)
LEMMA JobEnvironmentType ==
  ASSUME SettingsOK, StackTaken, EnvMade
  PROVE  JobEnvironment \in Seq(EnvVar) /\ JobEnvironment # <<>>
<1>1. globals \in Seq(EnvVar) /\ builders \in Seq(EnvVar) /\ Len(builders) >= 3
  BY GlobalsType, BuildersFacts, Zenon
<1>2. globals \o builders \in Seq(EnvVar) /\ globals \o builders # <<>>
  BY <1>1
<1> QED BY <1>2, Zenon DEF JobEnvironment

-----------------------------------------------------------------------------
(* Every step keeps the invariant.                                         *)

(* No step changes the settings, nor what is computed from them. *)
LEMMA SettingsStay ==
  ASSUME UNCHANGED inputs
  PROVE  /\ SettingsOK => SettingsOK'
         /\ initStack' = initStack /\ Environ' = Environ /\ globals' = globals
         /\ UNCHANGED <<stacks, stack>> => (StackTaken' <=> StackTaken)
         /\ UNCHANGED <<stacks, stack, env, image>> => (EnvMade' <=> EnvMade)
         /\ UNCHANGED env => JobEnvironment' = JobEnvironment
<1>1. conf' = conf /\ images' = images /\ files' = files /\ values' = values /\ environ' = environ
  BY DEF inputs
<1>2. SettingsOK => SettingsOK'
  BY <1>1, Zenon DEF SettingsOK
<1>3. initStack' = initStack /\ Environ' = Environ
  BY <1>1, Zenon DEF initStack, Environ
<1>4. globals' = globals
  <2>1. Global' = Global
    BY <1>1, Zenon DEF Global
  <2>2. \A i : GlobalAt(i)' = GlobalAt(i)
    BY <2>1, Zenon DEF GlobalAt
  <2> QED BY <1>1, <2>1, <2>2, Zenon DEF globals
<1>5. ASSUME UNCHANGED <<stacks, stack>> PROVE StackTaken' <=> StackTaken
  <2>1. stacks' = stacks /\ stack' = stack
    BY <1>5
  <2>2. Wanted' = Wanted
    BY <1>1, Zenon DEF Wanted, strStack, stackValues
  <2>3. Chosen(stacks)' = Chosen(stacks)
    BY <2>1, <2>2, Zenon DEF Chosen
  <2> QED BY <1>3, <2>1, <2>3, Zenon DEF StackTaken
<1>6. ASSUME UNCHANGED <<stacks, stack, env, image>> PROVE EnvMade' <=> EnvMade
  <2>1. stacks' = stacks /\ stack' = stack /\ env' = env /\ image' = image
    BY <1>6
  <2> QED BY <1>3, <2>1, Zenon DEF EnvMade, checkImagebuilderRequiredEnv, ImageIn, WithOrganization,
             offCluster, Put, Get
<1>7. ASSUME UNCHANGED env PROVE JobEnvironment' = JobEnvironment
  <2>1. builders' = builders
    BY <1>1, <1>7, Zenon DEF builders
  <2> QED BY <1>4, <2>1, Zenon DEF JobEnvironment
<1> QED BY <1>2, <1>3, <1>4, <1>5, <1>6, <1>7, Zenon

(* The choice of a stack depends on settings that no step changes. *)
LEMMA ChosenStays ==
  ASSUME UNCHANGED inputs, stacks' = initStack, stack' = Chosen(initStack), initStack # <<>>
  PROVE  StackTaken'
<1>1. conf' = conf /\ images' = images /\ files' = files /\ values' = values /\ environ' = environ
  BY DEF inputs
<1>2. initStack' = initStack
  BY <1>1, Zenon DEF initStack
<1>3. Chosen(initStack)' = Chosen(initStack)
  <2>1. Wanted' = Wanted
    BY <1>1, Zenon DEF Wanted, strStack, stackValues
  <2> QED BY <1>2, <2>1, Zenon DEF Chosen
<1> QED BY <1>2, <1>3, Zenon DEF StackTaken

(* The state of a new hook. *)
LEMMA PlanInit == Init => PlanInv
<1> SUFFICES ASSUME Init PROVE PlanInv
  OBVIOUS
<1>1. PICK k \in DOMAIN Inputs :
        /\ conf \in Inputs[k].conf /\ images \in Inputs[k].images
        /\ files \in Inputs[k].files /\ values \in Inputs[k].values
        /\ environ \in Inputs[k].environ
  BY Zenon DEF Init
<1>2. SettingsOK
  BY <1>1, InputsAssumption, Zenon DEF SettingsOK, Value
<1>3. stage = "CheckDurations" /\ tick = conf.tick /\ stacks = <<>> /\ stack = 0 /\ jobEnv = <<>>
  BY Zenon DEF Init
<1>4. TicksFit
  BY <1>3, Zenon DEF TicksFit
<1> QED BY <1>2, <1>3, <1>4 DEF PlanInv, SettingsOK

(* What becomes of a tick, through both ifs of CheckDurations. *)
LEMMA CheckedTickFits ==
  ASSUME SettingsOK, tick = conf.tick, NEW w \in Wait
  PROVE  /\ CheckedTick(w) \in Int
         /\ CheckedTick(w) = IF DefaultTick[w] <= conf.tick[w] /\ conf.tick[w] < conf.wait[w]
                             THEN conf.tick[w] ELSE DefaultTick[w]
<1>1. tick[w] \in Int /\ conf.wait[w] \in Int
  BY DEF SettingsOK
<1>2. DefaultTick[w] \in Int
  BY DEF DefaultTick
<1> QED BY <1>1, <1>2 DEF CheckedTick

(* TicksFit is about settings and ticks that stay. *)
LEMMA TicksStay ==
  ASSUME TicksFit, UNCHANGED inputs, tick' = tick, stage # "CheckDurations"
  PROVE  TicksFit'
<1>1. conf' = conf
  BY DEF inputs
<1> QED BY <1>1, Zenon DEF TicksFit

(* One step per action: CheckDurations sets the ticks, getStack the stack, *)
(* getImagebuilderEnv the variables, createBuilderJob the job; the others  *)
(* only move on, or stop. *)
LEMMA PlanStep == PlanInv /\ [Next]_vars => PlanInv'
<1> SUFFICES ASSUME PlanInv, [Next]_vars PROVE PlanInv'
  OBVIOUS
<1>1. CASE CheckDurations
  <2>1. /\ UNCHANGED inputs /\ UNCHANGED <<stacks, stack, env, image>>
        /\ stacks' = stacks /\ stack' = stack /\ jobEnv' = jobEnv /\ conf' = conf
        /\ stage = "CheckDurations" /\ stage' = "getStack"
        /\ tick' = [w \in Wait |-> CheckedTick(w)]
    BY <1>1 DEF CheckDurations, At, Goto, inputs
  <2>2. SettingsOK /\ tick = conf.tick /\ jobEnv = <<>>
    BY <2>1, Zenon DEF PlanInv
  <2>3. tick' \in [Wait -> Int]
    BY <2>1, <2>2, CheckedTickFits, Zenon
  <2>4. \A w \in Wait : tick'[w] = CheckedTick(w)
    BY <2>1, Zenon
  <2>5. TicksFit'
    BY <2>1, <2>2, <2>4, CheckedTickFits, Zenon DEF TicksFit
  <2>6. SettingsOK' /\ ((stacks = <<>> /\ stack = 0) \/ StackTaken)'
    BY <2>1, <2>2, SettingsStay, Zenon DEF PlanInv
  <2> QED BY <2>1, <2>2, <2>3, <2>5, <2>6, Zenon DEF PlanInv
<1>2. CASE getStack
  <2>1. /\ UNCHANGED inputs /\ env' = env /\ image' = image /\ jobEnv' = jobEnv /\ tick' = tick
        /\ images' = images /\ values' = values
        /\ stage = "getStack"
    BY <1>2 DEF getStack, At, inputs
  <2>2. SettingsOK /\ jobEnv = <<>> /\ TicksFit /\ tick \in [Wait -> Int]
    BY <2>1, Zenon DEF PlanInv
  <2>3. SettingsOK' /\ TicksFit'
    BY <2>1, <2>2, SettingsStay, TicksStay, Zenon
  <2>4. CASE (\E k \in stackValues : values[k].value = "notString") \/ initStack = <<>>
    <3>1. stage' = "panic" /\ UNCHANGED <<stacks, stack>>
      BY <1>2, <2>4, Zenon DEF getStack, Goto
    <3>2. images = << <<>> >> \/ \E k \in stackValues : values[k].value = "notString"
      BY <2>2, <2>4, InitStackType, Zenon
    <3>5. stackValues' = stackValues
      BY <2>1, Zenon DEF stackValues
    <3>3. stacks' = stacks /\ stack' = stack
      BY <3>1
    <3>4. ((stacks = <<>> /\ stack = 0) \/ StackTaken)'
      BY <2>1, <3>1, <3>3, SettingsStay, Zenon DEF PlanInv
    <3> QED BY <2>1, <2>2, <2>3, <3>1, <3>2, <3>4, <3>5, Zenon DEF PlanInv
  <2>5. CASE ~ ((\E k \in stackValues : values[k].value = "notString") \/ initStack = <<>>)
    <3>1. stacks' = initStack /\ stack' = Chosen(initStack) /\ stage' = "nodeSelector"
      BY <1>2, <2>5, Zenon DEF getStack, Goto
    <3>2. StackTaken'
      BY <2>1, <2>5, <3>1, ChosenStays, Zenon
    <3> QED BY <2>1, <2>2, <2>3, <3>1, <3>2, Zenon DEF PlanInv
  <2> QED BY <2>4, <2>5, Zenon
<1>3. CASE buildBuilderPodNodeSelector \/ PullPolicyFromString
  <2>1. /\ UNCHANGED inputs /\ UNCHANGED <<stacks, stack>> /\ jobEnv' = jobEnv /\ tick' = tick
        /\ stage \in {"nodeSelector", "pullPolicy"} /\ stage' \in {"pullPolicy", "env", "err"}
    BY <1>3 DEF buildBuilderPodNodeSelector, PullPolicyFromString, At, Goto
  <2>2. SettingsOK /\ StackTaken /\ jobEnv = <<>> /\ TicksFit /\ tick \in [Wait -> Int]
    BY <2>1, Zenon DEF PlanInv
  <2>3. SettingsOK' /\ TicksFit' /\ StackTaken'
    BY <2>1, <2>2, SettingsStay, TicksStay, Zenon
  <2> QED BY <2>1, <2>2, <2>3, Zenon DEF PlanInv
<1>4. CASE getImagebuilderEnv
  <2>1. /\ UNCHANGED inputs /\ UNCHANGED <<stacks, stack>> /\ jobEnv' = jobEnv /\ tick' = tick
        /\ stage = "env" /\ stage' \in {"job", "err"}
        /\ stacks' = stacks /\ stack' = stack
    BY <1>4 DEF getImagebuilderEnv, At, Goto
  <2>2. SettingsOK /\ StackTaken /\ jobEnv = <<>> /\ TicksFit /\ tick \in [Wait -> Int]
    BY <2>1, Zenon DEF PlanInv
  <2>3. SettingsOK' /\ TicksFit' /\ StackTaken'
    BY <2>1, <2>2, SettingsStay, TicksStay, Zenon
  <2>4. ASSUME stage' = "job" PROVE EnvMade'
    <3>1. checkImagebuilderRequiredEnv(Environ)
      BY <1>4, <2>4, Zenon DEF getImagebuilderEnv, Goto
    <3>2. /\ image' = ImageIn(WithOrganization(Environ))
          /\ env' = Put(WithOrganization(Environ), "DRYCC_STACK", stacks[stack])
      BY <1>4, <3>1, Zenon DEF getImagebuilderEnv
    <3>3. Environ' = Environ
      BY <2>1, SettingsStay, Zenon
    <3> QED BY <2>1, <3>1, <3>2, <3>3, Zenon DEF EnvMade, checkImagebuilderRequiredEnv, ImageIn,
               WithOrganization, offCluster, Put, Get
  <2> QED BY <2>1, <2>2, <2>3, <2>4, Zenon DEF PlanInv
<1>5. CASE createBuilderJob
  <2>1. /\ UNCHANGED inputs /\ UNCHANGED <<stacks, stack>> /\ UNCHANGED <<stacks, stack, env, image>>
        /\ env' = env /\ tick' = tick /\ stage = "job"
    BY <1>5 DEF createBuilderJob, At
  <2>2. \/ jobEnv' = JobEnvironment /\ stage' = "progress"
        \/ jobEnv' = jobEnv /\ stage' = "err"
    BY <1>5, Zenon DEF createBuilderJob, Goto
  <2>3. SettingsOK /\ StackTaken /\ EnvMade /\ jobEnv = <<>> /\ TicksFit /\ tick \in [Wait -> Int]
    BY <2>1, Zenon DEF PlanInv
  <2>4. SettingsOK' /\ TicksFit' /\ StackTaken' /\ EnvMade' /\ JobEnvironment' = JobEnvironment
    BY <2>1, <2>3, SettingsStay, TicksStay, Zenon
  <2> QED BY <2>1, <2>2, <2>3, <2>4, Zenon DEF PlanInv
<1>6. CASE progress
  <2>1. /\ UNCHANGED inputs /\ UNCHANGED <<stacks, stack>> /\ UNCHANGED <<stacks, stack, env, image>>
        /\ env' = env /\ tick' = tick /\ jobEnv' = jobEnv /\ stage = "progress"
        /\ conf' = conf
        /\ stage' = IF Duration(conf.interval) > 0 THEN "waiting" ELSE "panic"
    BY <1>6 DEF progress, SessionIdleInterval, At, Goto, inputs
  <2>2. /\ SettingsOK /\ StackTaken /\ EnvMade /\ jobEnv = JobEnvironment
        /\ TicksFit /\ tick \in [Wait -> Int]
    BY <2>1, Zenon DEF PlanInv
  <2>3. SettingsOK' /\ TicksFit' /\ StackTaken' /\ EnvMade' /\ JobEnvironment' = JobEnvironment
    BY <2>1, <2>2, SettingsStay, TicksStay, Zenon
  <2>4. jobEnv # <<>>
    BY <2>2, JobEnvironmentType, Zenon
  <2>5. stage' = "waiting" \/ (stage' = "panic" /\ ~(Duration(conf'.interval) > 0))
    BY <2>1, Zenon
  <2> QED BY <2>1, <2>2, <2>3, <2>4, <2>5, Zenon DEF PlanInv
<1>7. CASE UNCHANGED vars
  <2>1. /\ UNCHANGED inputs /\ UNCHANGED <<stacks, stack>> /\ UNCHANGED <<stacks, stack, env, image>>
        /\ env' = env /\ tick' = tick /\ jobEnv' = jobEnv /\ stage' = stage
        /\ stacks' = stacks /\ stack' = stack
        /\ conf' = conf /\ values' = values /\ images' = images /\ stackValues' = stackValues
    BY <1>7 DEF vars, inputs, stackValues
  <2>2. SettingsOK' /\ (StackTaken' <=> StackTaken) /\ (EnvMade' <=> EnvMade) /\ JobEnvironment' = JobEnvironment
    BY <2>1, SettingsStay, Zenon DEF PlanInv
  <2>3. TicksFit'
    BY <2>1, Zenon DEF PlanInv, TicksFit
  <2> QED BY <2>1, <2>2, <2>3, Zenon DEF PlanInv
<1> QED BY <1>1, <1>2, <1>3, <1>4, <1>5, <1>6, <1>7, Zenon DEF Next, Ended

-----------------------------------------------------------------------------
(* What the invariant says.                                                *)

LEMMA PlanTyped == PlanInv => TypeOK
<1> SUFFICES ASSUME PlanInv PROVE TypeOK
  OBVIOUS
<1>1. SettingsOK /\ tick \in [Wait -> Int] /\ ((stacks = <<>> /\ stack = 0) \/ StackTaken)
  BY Zenon DEF PlanInv
<1>2. stack \in 0 .. Len(stacks)
  <2>1. CASE stacks = <<>> /\ stack = 0
    BY <2>1
  <2>2. CASE StackTaken
    <3>1. stacks \in Seq(String) /\ stack \in 1 .. Len(stacks)
      BY <1>1, <2>2, StackInList, Zenon
    <3> QED BY <3>1
  <2> QED BY <1>1, <2>1, <2>2, Zenon
<1>3. jobEnv \in Seq(EnvVar)
  <2>1. <<>> \in Seq(EnvVar)
    OBVIOUS
  <2> QED BY <1>1, <2>1, JobEnvironmentType, Zenon DEF PlanInv
<1>4. \A k \in DOMAIN jobEnv : jobEnv[k] \in EnvVar
  BY <1>3
<1>5. DOMAIN tick = Wait /\ \A w \in Wait : tick[w] \in Int
  BY <1>1, Zenon
<1> QED BY <1>2, <1>4, <1>5, Zenon DEF TypeOK, PlanInv

(* A job that exists is the one JobEnvironment describes. *)
LEMMA CreatedJob ==
  ASSUME PlanInv, Created
  PROVE  SettingsOK /\ StackTaken /\ EnvMade /\ jobEnv = globals \o builders
         /\ globals \in Seq(EnvVar) /\ builders \in Seq(EnvVar)
<1>1. SettingsOK /\ StackTaken /\ EnvMade /\ jobEnv = JobEnvironment
  BY Zenon DEF PlanInv, Created
<1> QED BY <1>1, GlobalsType, BuildersFacts, Zenon DEF JobEnvironment

(* Every variable of the builder reaches the container with the builder's  *)
(* value. *)
LEMMA CreatedEffective ==
  ASSUME PlanInv, Created
  PROVE  /\ Effective("TAR_PATH") = "tarKey" /\ Effective("SOURCE_VERSION") = "sha"
         /\ Effective("IMAGE_NAME") = "image"
         /\ conf.debug => Effective("DRYCC_DEBUG") = "1"
         /\ \A n \in DOMAIN env : Effective(n) = env[n]
<1>1. SettingsOK /\ StackTaken /\ EnvMade
  BY CreatedJob, Zenon
<1>2. ASSUME NEW n, NEW v, Names(builders, n), Gives(builders, n, v)
      PROVE  Effective(n) = v
  BY <1>2, CreatedJob, LaterPartWins, Zenon
<1> QED BY <1>1, <1>2, BuildersFacts, Zenon

LEMMA PlanBuilderValuesWin == PlanInv => BuilderValuesWin
<1> SUFFICES ASSUME PlanInv, Created PROVE BuilderValuesWin
  BY Zenon DEF BuilderValuesWin
<1>1. "DRYCC_STACK" \in DOMAIN env /\ env["DRYCC_STACK"] = stacks[stack]
  BY CreatedJob, EnvMadeFacts, Zenon
<1> QED BY <1>1, CreatedEffective, Zenon DEF BuilderValuesWin

LEMMA PlanImageInItsRegistry == PlanInv => ImageInItsRegistry
<1> SUFFICES ASSUME PlanInv, Created PROVE ImageInItsRegistry
  BY Zenon DEF ImageInItsRegistry
<1> DEFINE host == IF offCluster(env) THEN "DRYCC_REGISTRY_HOST" ELSE "DRYCC_REGISTRY_PROXY_HOST"
<1>1. /\ "DRYCC_REGISTRY_ORGANIZATION" \in DOMAIN env
      /\ image[2] = env["DRYCC_REGISTRY_ORGANIZATION"] /\ image[2] # ""
      /\ host \in DOMAIN env /\ image[1] = env[host]
      /\ ~ offCluster(env) => image[1] # ""
  BY CreatedJob, EnvMadeFacts, Zenon
<1>2. \A n \in DOMAIN env : Effective(n) = env[n]
  BY CreatedEffective, Zenon
<1> HIDE DEF host
<1>3. /\ image[2] = Effective("DRYCC_REGISTRY_ORGANIZATION") /\ image[2] # ""
      /\ image[1] = Effective(host) /\ (~ offCluster(env) => image[1] # "")
  BY <1>1, <1>2, Zenon
<1> QED BY <1>3, Zenon DEF ImageInItsRegistry, host

LEMMA PlanStackOfBestRank == PlanInv => StackOfBestRank
<1> SUFFICES ASSUME PlanInv, stack # 0 PROVE StackOfBestRank
  BY Zenon DEF StackOfBestRank
<1>1. SettingsOK /\ StackTaken
  BY Zenon DEF PlanInv
<1>2. stacks \in Seq(String) /\ stacks # <<>> /\ stack = Chosen(stacks)
  BY <1>1, StackInList, Zenon DEF StackTaken
<1> QED BY <1>2, ChosenHasBestRank, Zenon

LEMMA PlanPanics == PlanInv => PanicsOnlyFor
BY Zenon DEF PlanInv, PanicsOnlyFor, Created

-----------------------------------------------------------------------------
(* PlanInv is an invariant of a build's settings. *)
LEMMA PlanInvariant == Spec => []PlanInv
BY PlanInit, PlanStep, PTL DEF Spec

(* The plan of a build stays within its types, the job's environment is a  *)
(* list of names and values, and the stack taken is one of the list, for   *)
(* every list of stacks (build_type.go:38-79, k8s_util.go:55-168).         *)
THEOREM PlanTypeCorrect == Spec => []TypeOK
BY PlanInvariant, PlanTyped, PTL

(* Whatever durations the hook is given, CheckDurations keeps a tick that  *)
(* lies between the default and the wait, and sets any other to the        *)
(* default (config.go:76-90).                                              *)
THEOREM TicksAlwaysFit == Spec => []TicksFit
<1>1. PlanInv => TicksFit
  BY Zenon DEF PlanInv
<1> QED BY <1>1, PlanInvariant, PTL

(* For lists of stacks and of values of any length, getStack takes a stack *)
(* of the best rank, and of several the first (build_type.go:38-79).       *)
THEOREM StackAlwaysOfBestRank == Spec => []StackOfBestRank
BY PlanInvariant, PlanStackOfBestRank, PTL

(* However many values the application sets, and whatever their names, the *)
(* container sees the builder's value of each variable the builder sets    *)
(* (k8s_util.go:55-66, 149-168).                                           *)
THEOREM BuilderValuesAlwaysWin == Spec => []BuilderValuesWin
BY PlanInvariant, PlanBuilderValuesWin, PTL

(* For every environment of the hook, the image's name and the job agree   *)
(* on the registry and on an organization that is not empty                *)
(* (imagebuilder.go:17-59).                                                *)
THEOREM ImageAlwaysInItsRegistry == Spec => []ImageInItsRegistry
BY PlanInvariant, PlanImageInItsRegistry, PTL

(* For all settings, a build panics only for a global DRYCC_STACK that is  *)
(* no string, an empty list of stacks, or an interval that is no positive  *)
(* duration, and only for the last with a job left behind                  *)
(* (build_type.go:47, 78, k8s_util.go:243).                                *)
THEOREM PanicsAlwaysOnlyFor == Spec => []PanicsOnlyFor
BY PlanInvariant, PlanPanics, PTL
=============================================================================
