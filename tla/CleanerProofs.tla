--------------------------- MODULE CleanerProofs ---------------------------
(***************************************************************************)
(* The cleaner, for every set of names, of commits and every lower-casing  *)
(* function: it spares the applications that have existed since it listed  *)
(* the namespaces, whatever happens between its calls.                     *)
(***************************************************************************)
EXTENDS Cleaner, TLAPS

(* The steps of Run that work on the lists it made, and on one entry. *)
Diffed == {"next", "removeDir", "listObjects", "deleteObjects"}
Working == {"removeDir", "listObjects", "deleteObjects"}

(* The inductive invariant: the applications that have existed since the   *)
(* listing are on the list, which is stale in the other direction only; no *)
(* entry of appsToDelete is on it; and what deleteFromStorage is about to  *)
(* delete belongs to the entry at work.                                    *)
SparedInv ==
    /\ live \subseteq App /\ nsList \subseteq App
    /\ pc # "listNamespaces" => live \ born \subseteq nsList
    /\ pc \in Diffed => todo \cap nsList = {}
    /\ pc \in Working => app \notin nsList
    /\ pc = "deleteObjects" => \A o \in objs : o[1] = app

(* No name getDiff returns is one of the namespaces it was given, whose    *)
(* names are lower-case (cleaner.go:48-67).                                *)
LEMMA DiffAvoidsNamespaces ==
    ASSUME NEW ns \in SUBSET App, NEW ds
    PROVE  getDiff(ns, ds) \cap ns = {}
<1>1. \A n \in ns : Lower[n] = n
  BY DEF App
<1> QED BY <1>1 DEF getDiff

(* What the controller and the pushes do preserves SparedInv. *)
LEMMA EnvironmentSparedInv == SparedInv /\ Environment => SparedInv'
<1> SUFFICES ASSUME SparedInv, NEW a \in App,
                    \/ CreateApp(a) \/ DeleteApp(a) \/ PushBegins(a) \/ PushMkdir(a) \/ PushEnds(a)
                    \/ \E s \in Sha : PushUploads(a, s)
             PROVE  SparedInv'
  BY DEF Environment
<1> USE DEF SparedInv, runVars
<1>1. CASE CreateApp(a)
  BY <1>1 DEF CreateApp
<1>2. CASE DeleteApp(a)
  BY <1>2 DEF DeleteApp
<1>3. CASE PushBegins(a) \/ PushMkdir(a) \/ PushEnds(a)
  BY <1>3 DEF PushBegins, PushMkdir, PushEnds
<1>4. CASE \E s \in Sha : PushUploads(a, s)
  BY <1>4 DEF PushUploads
<1> QED BY <1>1, <1>2, <1>3, <1>4

(* Every step of Run preserves SparedInv. *)
LEMMA RunSparedInv == SparedInv /\ Run => SparedInv'
<1> SUFFICES ASSUME SparedInv, Run PROVE SparedInv'
  OBVIOUS
<1> USE DEF SparedInv, Diffed, Working
<1>1. CASE ListNamespaces
  BY <1>1 DEF ListNamespaces
<1>2. CASE ListLocalDirs
  BY <1>2, DiffAvoidsNamespaces DEF ListLocalDirs
<1>3. ASSUME NEW a \in App, NextApp(a) PROVE SparedInv'
  BY <1>3 DEF NextApp
<1>4. CASE NoMoreApps \/ Sleep \/ ListLocalDirsFails
  BY <1>4 DEF NoMoreApps, Sleep, ListLocalDirsFails
<1>5. CASE RemoveDir \/ RemoveDirFails
  BY <1>5 DEF RemoveDir, RemoveDirFails
<1>6. CASE ListObjects
  BY <1>6 DEF ListObjects
<1>7. CASE DeleteObject
  BY <1>7 DEF DeleteObject
<1>8. CASE StorageDone \/ StorageFails
  BY <1>8 DEF StorageDone, StorageFails
<1> QED
  BY <1>1, <1>2, <1>3, <1>4, <1>5, <1>6, <1>7, <1>8 DEF Run, Succeeds, Fails

(* A step of Run takes nothing from an application that is not the entry   *)
(* at work: RemoveAll and Delete are the only calls that remove.           *)
LEMMA RunCleansOneApp ==
    ASSUME SparedInv, Run, NEW a \in App, Cleaned(a)
    PROVE  pc \in Working /\ a = app
<1>1. CASE RemoveDir
  BY <1>1, Zenon DEF RemoveDir, Cleaned, Working
<1>2. CASE DeleteObject
  <2>1. PICK o \in objs : store' = store \ {o}
    BY <1>2 DEF DeleteObject
  <2>2. PICK s \in Sha : <<a, s>> \in store \ store'
    BY <1>2, Zenon DEF DeleteObject, Cleaned
  <2>3. o = <<a, s>>
    BY <2>1, <2>2
  <2> QED BY <1>2, <2>3 DEF DeleteObject, SparedInv, Working
<1>3. CASE ~RemoveDir /\ ~DeleteObject
  BY <1>3, Zenon
     DEF Run, Succeeds, Fails, Cleaned, ListNamespaces, ListLocalDirs, NextApp, NoMoreApps,
         ListObjects, StorageDone, Sleep, ListLocalDirsFails, RemoveDirFails, StorageFails
<1> QED BY <1>1, <1>2, <1>3

(* An application that has existed since Run listed the namespaces loses   *)
(* nothing to the cleaner, for any names and commits (cleaner.go:111-142). *)
THEOREM SparesSettledAppsAlways == SafetySpec => SparesSettledApps
<1>1. Init => SparedInv
  BY DEF Init, SparedInv, Diffed, Working
<1>2. SparedInv /\ [Next]_vars => SparedInv'
  <2>1. CASE UNCHANGED vars
    BY <2>1 DEF vars, SparedInv
  <2> QED BY <2>1, EnvironmentSparedInv, RunSparedInv DEF Next
<1>3. SparedInv /\ [Next]_vars => [Run => \A a \in live \ born : ~Cleaned(a)]_vars
  <2> SUFFICES ASSUME SparedInv, Run, NEW a \in live \ born, Cleaned(a) PROVE FALSE
    OBVIOUS
  <2>1. a \in App
    BY DEF SparedInv
  <2>2. pc \in Working /\ a = app
    BY <2>1, RunCleansOneApp
  <2> QED BY <2>2 DEF SparedInv, Working
<1> QED
  BY <1>1, <1>2, <1>3, PTL DEF SafetySpec, SparesSettledApps

(* What the controller and the pushes do keeps the types.                  *)
LEMMA EnvironmentTyped == TypeOK /\ Environment => TypeOK'
<1> SUFFICES ASSUME TypeOK, NEW a \in App,
                    \/ CreateApp(a) \/ DeleteApp(a) \/ PushBegins(a) \/ PushMkdir(a) \/ PushEnds(a)
                    \/ \E s \in Sha : PushUploads(a, s)
             PROVE  TypeOK'
  BY DEF Environment
<1> USE DEF TypeOK, runVars
<1>1. CASE CreateApp(a) \/ DeleteApp(a)
  BY <1>1 DEF CreateApp, DeleteApp
<1>2. CASE PushBegins(a) \/ PushMkdir(a) \/ PushEnds(a)
  BY <1>2 DEF PushBegins, PushMkdir, PushEnds, App
<1>3. ASSUME NEW s \in Sha, PushUploads(a, s) PROVE TypeOK'
  BY <1>3 DEF PushUploads
<1> QED BY <1>1, <1>2, <1>3

(* Every step of Run keeps them: getDiff returns names of applications,    *)
(* whatever the directories are called (cleaner.go:48-67).                 *)
LEMMA RunTyped == TypeOK /\ Run => TypeOK'
<1> SUFFICES ASSUME TypeOK, Run PROVE TypeOK'
  OBVIOUS
<1>0. getDiff(nsList, dirs) \subseteq App
  BY LowerAssumption DEF TypeOK, getDiff
<1> USE DEF TypeOK
<1>1. CASE ListNamespaces \/ ListLocalDirs
  BY <1>0, <1>1 DEF ListNamespaces, ListLocalDirs
<1>2. ASSUME NEW a \in App, NextApp(a) PROVE TypeOK'
  BY <1>2 DEF NextApp
<1>3. CASE NoMoreApps \/ Sleep \/ ListLocalDirsFails
  BY <1>3 DEF NoMoreApps, Sleep, ListLocalDirsFails
<1>4. CASE RemoveDir \/ RemoveDirFails
  BY <1>4 DEF RemoveDir, RemoveDirFails
<1>5. CASE ListObjects
  BY <1>5 DEF ListObjects
<1>6. CASE DeleteObject
  BY <1>6 DEF DeleteObject
<1>7. CASE StorageDone \/ StorageFails
  BY <1>7 DEF StorageDone, StorageFails
<1> QED
  BY <1>1, <1>2, <1>3, <1>4, <1>5, <1>6, <1>7 DEF Run, Succeeds, Fails

(* Type correctness: whatever the directories are called, the loop works   *)
(* on names of applications only (cleaner.go:48-67, 111-142).              *)
THEOREM CleanerTypeCorrect == SafetySpec => []TypeOK
<1>1. Init => TypeOK
  BY DEF Init, TypeOK
<1>2. TypeOK /\ UNCHANGED vars => TypeOK'
  BY DEF TypeOK, vars
<1>3. TypeOK /\ [Next]_vars => TypeOK'
  BY <1>2, EnvironmentTyped, RunTyped DEF Next
<1> QED
  BY <1>1, <1>3, PTL DEF SafetySpec
=============================================================================
