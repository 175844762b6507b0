---------------------------- MODULE MCBuildPlan ----------------------------
(* Settings at their limits.  The parts of a build read settings of their  *)
(* own, so the settings of one part are varied at a time, in all their     *)
(* combinations, and the others are usual ones.                            *)
EXTENDS BuildPlan, SequencesExt

MCString == STRING

Confs(ticks, waits, intervals, selectors, policies, debugs) ==
    [tick : ticks, wait : waits, interval : intervals, selector : selectors,
     pullPolicy : policies, debug : debugs]

UsualWait == [w \in Wait |-> 900000]
UsualConf == Confs({DefaultTick}, {UsualWait}, {10000}, {<<>>}, {"Always"}, {FALSE})

EnvNames == Registry \cup {"DRYCC_STORAGE_BUCKET", "PATH"}
UsualEnviron == [n \in EnvNames |-> IF n = "DRYCC_REGISTRY_LOCATION" THEN "on-cluster" ELSE n]

Usual ==
    [conf |-> UsualConf, images |-> {<<>>}, files |-> {{"Procfile"}}, values |-> {<<>>},
     environ |-> {UsualEnviron}]

(* The durations around the defaults, and not positive. *)
Durations == [Wait -> {-1, 0, 99, 100, 101, 500, 501}]

(* The intervals of the ticker: around zero, and on either side of the     *)
(* limits of a duration, which here are nearer than Go's.                  *)
MCMaxDuration == 2 ^ 29
Intervals == {-1, 0, 1, 536870, 536871, 1073742}

(* How many parts each line of the node selector has. *)
Selectors == SeqOf({1, 2, 3}, 2)

(* Lists of stacks, with repeated and missing names, and values of         *)
(* DRYCC_STACK that name one, or none, or are no string.                   *)
StackLists == {<<>>} \cup {<<ss>> : ss \in SeqOf({"buildpack", "container", ""}, 3)}

StackValues ==
    SeqOf([group : {"global", "web"}, name : {"DRYCC_STACK"},
           value : {"container", "unknown", "notString"}], 2)

(* The variables, some missing, some empty, beside values of the           *)
(* application that have the builder's names.                              *)
Environs ==
    {[n \in set |-> CASE n = "DRYCC_REGISTRY_LOCATION" -> location
                      [] n \in empty -> ""
                      [] OTHER -> n] :
        set \in SUBSET EnvNames, empty \in SUBSET (EnvNames \ {"PATH"}),
        location \in {"off-cluster", "on-cluster"}}

AppValues ==
    SeqOf([group : {"global", "web"}, value : {"appValue"},
           name : {"TAR_PATH", "DRYCC_DEBUG", "DRYCC_STACK", "DRYCC_REGISTRY_ORGANIZATION"}], 1)

MCInputs ==
    << [Usual EXCEPT !.conf = Confs(Durations, Durations, {1}, {<<>>}, {"Always"}, {FALSE})],
       [Usual EXCEPT !.conf = Confs({DefaultTick}, {UsualWait}, Intervals, Selectors,
                                    {"", "Always", "Never", "Sometimes"}, {FALSE})],
       [Usual EXCEPT !.images = StackLists, !.values = StackValues,
                     !.files = SUBSET {"Dockerfile", "Procfile", "project.toml"}],
       [Usual EXCEPT !.environ = Environs, !.values = AppValues,
                     !.conf = Confs({DefaultTick}, {UsualWait}, {1}, {<<>>}, {"Always"}, BOOLEAN)] >>
=============================================================================
