----------------------------- MODULE BuildPlan -----------------------------
(***************************************************************************)
(* pkg/gitreceive: what one build makes of its settings, from              *)
(* Config.CheckDurations to the job it creates and the progress ticker it  *)
(* waits with: the durations, the stack, the node selector, the pull       *)
(* policy, the image's name and the job's environment.                     *)
(*                                                                         *)
(* The settings come from four hands: the hook's environment (conf,        *)
(* environ), the mounted list of stacks (images), the application's        *)
(* configuration (values) and the commit (files).  A name of a stack, of a *)
(* file or of a variable stands for itself; other strings are empty or     *)
(* not.  DRYCC_STORAGE_BUCKET stands for the three storage variables that  *)
(* are required.                                                           *)
(***************************************************************************)
EXTENDS Integers, Sequences, FiniteSets, FiniteSetsExt, Functions

CONSTANTS
    String,    \* the strings of Go
    Millisecond, MaxDuration,    \* of time.Duration, which holds -MaxDuration .. MaxDuration - 1
    Inputs     \* families of settings: for each of the first five variables a set

VARIABLES
    conf,      \* Config
    images,    \* images.json: <<its stacks>>, or <<>> where there is none
    files,     \* the unpacked commit
    values,    \* appConf.Values
    environ,   \* os.Environ
    stage,     \* the call that comes next, or how the build ended
    tick,      \* the tick durations
    stacks,    \* Stacks: the names
    stack,     \* the index of build's stack in Stacks
    env,       \* builderImageEnv
    image,     \* imageName: its registry and organization
    jobEnv     \* the environment of the job's container

vars == <<conf, images, files, values, environ, stage, tick, stacks, stack, env, image, jobEnv>>
inputs == <<conf, images, files, values, environ>>

Wait == {"builderPod", "objectStorage"}
DefaultTick == [w \in Wait |-> IF w = "builderPod" THEN 100 ELSE 500]
EnvVar == [name : String, value : String]

Registry == {"DRYCC_REGISTRY_HOST", "DRYCC_REGISTRY_ORGANIZATION",
             "DRYCC_REGISTRY_LOCATION", "DRYCC_REGISTRY_PROXY_HOST"}

ASSUME DurationAssumption == Millisecond \in Nat \ {0} /\ MaxDuration \in Nat \ {0}

(* The strings the builder puts into a job or a list of stacks itself. *)
ASSUME StringAssumption ==
    Registry \cup {"DRYCC_STORAGE_BUCKET", "DRYCC_STACK", "DRYCC_DEBUG", "TAR_PATH", "SOURCE_VERSION",
                   "IMAGE_NAME", "tarKey", "sha", "image", "app", "1", "buildpack", "container"}
        \subseteq String

(* What json, envconfig and the environment can hold. *)
ASSUME InputsAssumption ==
    \A k \in DOMAIN Inputs :
        /\ \A c \in Inputs[k].conf :
              c.tick \in [Wait -> Int] /\ c.wait \in [Wait -> Int] /\ c.interval \in Int
        /\ \A i \in Inputs[k].images : i \in Seq(Seq(String)) /\ Len(i) <= 1
        /\ \A vs \in Inputs[k].values : vs \in Seq([group : String, name : String, value : String])
        /\ \A e \in Inputs[k].environ : e \in [DOMAIN e -> String]

TypeOK ==
    /\ stage \in {"CheckDurations", "getStack", "nodeSelector", "pullPolicy", "env", "job",
                  "progress", "waiting", "err", "panic"}
    /\ DOMAIN tick = Wait /\ \A w \in Wait : tick[w] \in Int
    /\ stack \in 0 .. Len(stacks)
    /\ \A k \in DOMAIN jobEnv : jobEnv[k] \in EnvVar

Init ==
    /\ \E k \in DOMAIN Inputs :
          /\ conf \in Inputs[k].conf /\ images \in Inputs[k].images
          /\ files \in Inputs[k].files /\ values \in Inputs[k].values
          /\ environ \in Inputs[k].environ
    /\ stage = "CheckDurations"
    /\ tick = conf.tick
    /\ stacks = <<>> /\ stack = 0
    /\ env = <<>> /\ image = <<>> /\ jobEnv = <<>>

At(s) == stage = s
Goto(s) == stage' = s

-----------------------------------------------------------------------------
(* Mutation: a tick as long as the wait is let through. *)
CheckedTickInclusive(w) ==
    LET t == IF tick[w] > conf.wait[w] THEN DefaultTick[w] ELSE tick[w]
    IN  IF t < DefaultTick[w] THEN DefaultTick[w] ELSE t

(* The two ifs of CheckDurations, for either wait. *)
CheckedTick(w) ==
    LET t == IF tick[w] >= conf.wait[w] THEN DefaultTick[w] ELSE tick[w]
    IN  IF t < DefaultTick[w] THEN DefaultTick[w] ELSE t

CheckDurations ==
    /\ At("CheckDurations")
    /\ tick' = [w \in Wait |-> CheckedTick(w)]
    /\ Goto("getStack")
    /\ UNCHANGED <<inputs, stacks, stack, env, image, jobEnv>>

(* Mutation: there are no stacks without images.json. *)
initStackNoDefault == IF images = <<>> THEN <<>> ELSE images[1]

(* images.json, or defaultStacks without it.  What cannot be parsed is     *)
(* <<>>: getStack drops initStack's error.                                 *)
initStack == IF images = <<>> THEN <<"buildpack", "container">> ELSE images[1]

(* Where the application sets DRYCC_STACK; the loop keeps the last value. *)
stackValues == {k \in DOMAIN values : values[k].group = "global" /\ values[k].name = "DRYCC_STACK"}

strStack == IF stackValues = {} THEN "" ELSE values[Max(stackValues)].value

(* Mutation: the commit is looked at before the configuration. *)
WantedFilesFirst ==
    (IF "Dockerfile" \in files THEN <<"container">> ELSE <<>>)
    \o (IF files \cap {"Procfile", "project.toml"} # {} THEN <<"buildpack">> ELSE <<>>)
    \o <<strStack>>

(* The names getStack looks for, in its order. *)
Wanted ==
    <<strStack>>
    \o (IF "Dockerfile" \in files THEN <<"container">> ELSE <<>>)
    \o (IF files \cap {"Procfile", "project.toml"} # {} THEN <<"buildpack">> ELSE <<>>)

(* Mutation: without one, the end of the list. *)
ChosenPastEnd(ss) ==
    LET found == {w \in DOMAIN Wanted : Wanted[w] \in Range(ss)}
    IN  IF found = {} THEN Len(ss) + 1 ELSE Min({k \in DOMAIN ss : ss[k] = Wanted[Min(found)]})

(* The first wanted name that Stacks has, at its first place there;        *)
(* without one, Stacks[0].                                                 *)
Chosen(ss) ==
    LET found == {w \in DOMAIN Wanted : Wanted[w] \in Range(ss)}
    IN  IF found = {} THEN 1 ELSE Min({k \in DOMAIN ss : ss[k] = Wanted[Min(found)]})

(* A DRYCC_STACK that is no string fails the type assertion, and Stacks[0] *)
(* is not there in an empty list.                                          *)
getStack ==
    /\ At("getStack")
    /\ IF (\E k \in stackValues : values[k].value = "notString") \/ initStack = <<>>
       THEN Goto("panic") /\ UNCHANGED <<stacks, stack>>
       ELSE /\ stacks' = initStack
            /\ stack' = Chosen(initStack)
            /\ Goto("nodeSelector")
    /\ UNCHANGED <<inputs, tick, env, image, jobEnv>>

(* conf.selector: how many ':'-separated parts each line has. *)
buildBuilderPodNodeSelector ==
    /\ At("nodeSelector")
    /\ Goto(IF \A k \in DOMAIN conf.selector : conf.selector[k] = 2 THEN "pullPolicy" ELSE "err")
    /\ UNCHANGED <<inputs, tick, stacks, stack, env, image, jobEnv>>

PullPolicyFromString ==
    /\ At("pullPolicy")
    /\ Goto(IF conf.pullPolicy \in {"Always", "IfNotPresent", "Never"} THEN "env" ELSE "err")
    /\ UNCHANGED <<inputs, tick, stacks, stack, env, image, jobEnv>>

(* The variables with the prefixes of the registry and the storage. *)
Environ == Restrict(environ, DOMAIN environ \cap (Registry \cup {"DRYCC_STORAGE_BUCKET"}))

(* A Go map's value, "" for a key it has not. *)
Get(m, n) == IF n \in DOMAIN m THEN m[n] ELSE ""

offCluster(m) == Get(m, "DRYCC_REGISTRY_LOCATION") = "off-cluster"

checkImagebuilderRequiredEnv(m) ==
    /\ {"DRYCC_STORAGE_BUCKET", "DRYCC_REGISTRY_HOST"} \subseteq DOMAIN m
    /\ Get(m, IF offCluster(m) THEN "DRYCC_REGISTRY_ORGANIZATION"
                               ELSE "DRYCC_REGISTRY_PROXY_HOST") # ""

(* Set key n of a Go map. *)
Put(m, n, v) == [x \in DOMAIN m \cup {n} |-> IF x = n THEN v ELSE m[x]]

(* In a cluster the application's name is the organization. *)
WithOrganization(m) ==
    IF offCluster(m) THEN m ELSE Put(m, "DRYCC_REGISTRY_ORGANIZATION", "app")

(* Mutation: off the cluster, too, the image goes through the proxy. *)
ImageByProxy(m) ==
    <<Get(m, "DRYCC_REGISTRY_PROXY_HOST"), m["DRYCC_REGISTRY_ORGANIZATION"]>>

ImageIn(m) ==
    <<IF offCluster(m) THEN m["DRYCC_REGISTRY_HOST"] ELSE m["DRYCC_REGISTRY_PROXY_HOST"],
      m["DRYCC_REGISTRY_ORGANIZATION"]>>

(* getImagebuilderEnv, then the stack's name. *)
getImagebuilderEnv ==
    /\ At("env")
    /\ IF checkImagebuilderRequiredEnv(Environ)
       THEN /\ image' = ImageIn(WithOrganization(Environ))
            /\ env' = Put(WithOrganization(Environ), "DRYCC_STACK", stacks[stack])
            /\ Goto("job")
       ELSE Goto("err") /\ UNCHANGED <<image, env>>
    /\ UNCHANGED <<inputs, tick, stacks, stack, jobEnv>>

Entry(n, v) == [name |-> n, value |-> v]

Global == {k \in DOMAIN values : values[k].group = "global"}

(* Where the i-th of the application's global values is. *)
GlobalAt(i) == CHOOSE k \in Global : Cardinality({j \in Global : j <= k}) = i

(* buildJob's part of the environment: the application's global values,    *)
(* formatted.                                                              *)
globals ==
    [i \in 1 .. Cardinality(Global) |->
        Entry(values[GlobalAt(i)].name, values[GlobalAt(i)].value)]

(* The keys of a Go map, in an order of its range loop. *)
Keys(m) == CHOOSE ns \in [1 .. Cardinality(DOMAIN m) -> DOMAIN m] : IsInjective(ns)

(* buildJob's DRYCC_DEBUG, then createBuilderJob's variables (the order of *)
(* env's does not matter: no two have one name).                           *)
builders ==
    (IF conf.debug THEN <<Entry("DRYCC_DEBUG", "1")>> ELSE <<>>)
    \o <<Entry("TAR_PATH", "tarKey"), Entry("SOURCE_VERSION", "sha"), Entry("IMAGE_NAME", "image")>>
    \o LET ns == Keys(env) IN [k \in DOMAIN ns |-> Entry(ns[k], env[ns[k]])]

(* Mutation: the application's values are appended last. *)
JobEnvironmentReversed == builders \o globals

JobEnvironment == globals \o builders

(* The job is created, or the API server refuses it. *)
createBuilderJob ==
    /\ At("job")
    /\ \/ jobEnv' = JobEnvironment /\ Goto("progress")
       \/ Goto("err") /\ UNCHANGED jobEnv
    /\ UNCHANGED <<inputs, tick, stacks, stack, env, image>>

(* time.Duration(ms) * time.Millisecond, which wraps around. *)
Duration(ms) == ((ms * Millisecond + MaxDuration) % (2 * MaxDuration)) - MaxDuration

SessionIdleInterval == Duration(conf.interval)

(* time.NewTicker takes no interval that is not positive. *)
progress ==
    /\ At("progress")
    /\ Goto(IF SessionIdleInterval > 0 THEN "waiting" ELSE "panic")
    /\ UNCHANGED <<inputs, tick, stacks, stack, env, image, jobEnv>>

Ended == stage \in {"waiting", "err", "panic"} /\ UNCHANGED vars

Next ==
    \/ CheckDurations \/ getStack \/ buildBuilderPodNodeSelector \/ PullPolicyFromString
    \/ getImagebuilderEnv \/ createBuilderJob \/ progress \/ Ended

Spec == Init /\ [][Next]_vars

-----------------------------------------------------------------------------
(* The job exists. *)
Created == stage \in {"progress", "waiting"} \/ (stage = "panic" /\ jobEnv # <<>>)

(* What a container sees of a variable that is listed more than once. *)
Effective(n) == jobEnv[Max({k \in DOMAIN jobEnv : jobEnv[k].name = n})].value

(* A poll's interval is as it was set when that lies between the default   *)
(* and the wait, and the default otherwise, also where the default is no   *)
(* shorter than the wait: the two ifs of CheckDurations, the second of     *)
(* which sees what the first has set, come to this (config.go:76-90).      *)
TicksFit ==
    stage # "CheckDurations" =>
        \A w \in Wait :
            tick[w] = IF DefaultTick[w] <= conf.tick[w] /\ conf.tick[w] < conf.wait[w]
                      THEN conf.tick[w] ELSE DefaultTick[w]

(* getStack's loops pick a stack of the best rank: the one the application *)
(* names, else the one for a Dockerfile, else the one for a Procfile or a  *)
(* project.toml, else any; and of several the first in the list's order,   *)
(* which is the order of priority (build_type.go:12, 38-79).               *)
StackOfBestRank ==
    LET Rank(k) ==
          CASE stacks[k] = strStack -> 0
            [] stacks[k] # strStack /\ stacks[k] = "container" /\ "Dockerfile" \in files -> 1
            [] /\ stacks[k] # strStack /\ stacks[k] = "buildpack"
               /\ files \cap {"Procfile", "project.toml"} # {} -> 2
            [] OTHER -> 3
    IN  stack # 0 =>
          \A k \in DOMAIN stacks :
              Rank(stack) < Rank(k) \/ (Rank(stack) = Rank(k) /\ stack <= k)

(* Whatever the application's configuration holds, the container gets the  *)
(* builder's value of each variable the builder sets, the stack's among    *)
(* them: these come later in the job's environment (k8s_util.go:55-66,     *)
(* 149-168, build.go:148).                                                 *)
BuilderValuesWin ==
    Created =>
        /\ Effective("TAR_PATH") = "tarKey" /\ Effective("SOURCE_VERSION") = "sha"
        /\ Effective("IMAGE_NAME") = "image"
        /\ Effective("DRYCC_STACK") = stacks[stack]
        /\ conf.debug => Effective("DRYCC_DEBUG") = "1"
        /\ \A n \in DOMAIN env : Effective(n) = env[n]

(* The image's name and the environment of the job speak of one registry:  *)
(* the organization, which is never empty, and the host the location calls *)
(* for are the ones the container is given, across the check of the        *)
(* variables, their change and the job (imagebuilder.go:17-59).            *)
ImageInItsRegistry ==
    Created =>
        /\ image[2] = Effective("DRYCC_REGISTRY_ORGANIZATION") /\ image[2] # ""
        /\ image[1] = Effective(IF offCluster(env) THEN "DRYCC_REGISTRY_HOST"
                                                   ELSE "DRYCC_REGISTRY_PROXY_HOST")
        /\ ~offCluster(env) => image[1] # ""

(* Only three settings make a build panic: a global DRYCC_STACK that is no *)
(* string, a list of stacks that is empty or no list, and an interval that *)
(* is not positive as a time.Duration; only the last one leaves a job      *)
(* behind that nobody waits for (build_type.go:47, 78, k8s_util.go:243).   *)
PanicsOnlyFor ==
    stage = "panic" =>
        IF Created THEN ~(Duration(conf.interval) > 0)
        ELSE images = << <<>> >> \/ \E k \in stackValues : values[k].value = "notString"
=============================================================================
