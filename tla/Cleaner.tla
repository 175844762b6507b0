------------------------------ MODULE Cleaner ------------------------------
(***************************************************************************)
(* pkg/cleaner: the background loop that compares the Kubernetes           *)
(* namespaces with the directories of the git home and removes the         *)
(* directory and the stored archives of applications that are gone.  It    *)
(* runs beside the pushes (pkg/git, pkg/gitreceive), which make, fill and  *)
(* remove the same directories, and beside the controller, which creates   *)
(* and deletes namespaces.  Every call to the API server, the file system  *)
(* or the store can fail, and everything moves between two of them.        *)
(***************************************************************************)
CONSTANTS Name,     \* base names a directory of the git home can have
          Lower,    \* strings.ToLower on them
          Sha       \* abbreviated commits

(* The names a namespace, and so an application, can have. *)
App == {n \in Name : Lower[n] = n}

ASSUME LowerAssumption ==
    /\ Lower \in [Name -> Name]
    /\ \A n \in Name : Lower[n] \in App

VARIABLES
    live,      \* the namespaces that exist
    born,      \* the ones created since Run last listed them
    pushing,   \* the applications a push is in flight for
    dirs,      \* the directories <name>.git of the git home
    store,     \* the archives home/<app>:git-<sha>, as <<app, sha>>
    pc,        \* where Run is
    nsList,    \* nsList.Items
    todo,      \* the rest of appsToDelete
    app,       \* appToDelete
    objs       \* the matching objects deleteFromStorage has yet to delete

runVars == <<pc, nsList, todo, app, objs>>
vars == <<live, born, pushing, dirs, store, pc, nsList, todo, app, objs>>

TypeOK ==
    /\ live \subseteq App /\ born \subseteq App /\ pushing \subseteq App
    /\ dirs \subseteq Name
    /\ store \subseteq App \X Sha
    /\ pc \in {"listNamespaces", "localDirs", "next", "removeDir", "listObjects",
               "deleteObjects", "sleep"}
    /\ nsList \subseteq App /\ todo \subseteq App
    /\ app \in App \cup {"none"}
    /\ objs \subseteq App \X Sha

(* The git home may hold directories of an earlier run of the server.      *)
Init ==
    /\ live \in SUBSET App /\ born = {} /\ pushing = {}
    /\ dirs \in SUBSET Name
    /\ store = {}
    /\ pc = "listNamespaces"
    /\ nsList = {} /\ todo = {} /\ app = "none" /\ objs = {}

-----------------------------------------------------------------------------
(* The controller creates and deletes applications. *)
CreateApp(a) ==
    /\ a \notin live
    /\ live' = live \cup {a}
    /\ born' = born \cup {a}
    /\ UNCHANGED <<pushing, dirs, store, runVars>>

DeleteApp(a) ==
    /\ a \in live
    /\ live' = live \ {a}
    /\ UNCHANGED <<born, pushing, dirs, store, runVars>>

(* git.Receive makes the directory, or fails to.  What the user may push   *)
(* to was asked when the connection was made, so the application may be    *)
(* gone by now.                                                            *)
PushBegins(a) ==
    /\ a \notin pushing
    /\ pushing' = pushing \cup {a}
    /\ dirs' \in {dirs, dirs \cup {a}}
    /\ UNCHANGED <<live, born, store, runVars>>

(* gitreceive's build makes it again if need be. *)
PushMkdir(a) ==
    /\ a \in pushing
    /\ dirs' = dirs \cup {a}
    /\ UNCHANGED <<live, born, pushing, store, runVars>>

(* gitreceive's build uploads the archive of commit s. *)
PushUploads(a, s) ==
    /\ a \in pushing
    /\ store' = store \cup {<<a, s>>}
    /\ UNCHANGED <<live, born, pushing, dirs, runVars>>

(* git.Receive's deferred os.RemoveAll, whose error is dropped; a hook     *)
(* whose git died goes on after it.                                        *)
PushEnds(a) ==
    /\ a \in pushing
    /\ pushing' \in {pushing, pushing \ {a}}
    /\ dirs' \in {dirs, dirs \ {a}}
    /\ UNCHANGED <<live, born, store, runVars>>

Environment ==
    \E a \in App :
        \/ CreateApp(a) \/ DeleteApp(a) \/ PushBegins(a) \/ PushMkdir(a) \/ PushEnds(a)
        \/ \E s \in Sha : PushUploads(a, s)

-----------------------------------------------------------------------------
(* Run's nsLister.List.  When it fails, "continue" goes back to this very  *)
(* call, past the sleep: a stuttering step.                                *)
ListNamespaces ==
    /\ pc = "listNamespaces"
    /\ nsList' = live
    /\ born' = {}
    /\ pc' = "localDirs"
    /\ UNCHANGED <<live, pushing, dirs, store, todo, app, objs>>

(* Mutation: the directories' own names are returned. *)
getDiffOwnNames(namespaceList, ds) == {d \in ds : Lower[d] \notin namespaceList}

(* Mutation: directory names are compared as they are. *)
getDiffCaseSensitive(namespaceList, ds) ==
    {Lower[d] : d \in {e \in ds : e \notin namespaceList}}

(* The lower-cased names of the directories that are no namespace. *)
getDiff(namespaceList, ds) ==
    LET namespacesSet == {Lower[n] : n \in namespaceList}
    IN  {Lower[d] : d \in ds} \ namespacesSet

(* localDirs, stripSuffixes and getDiff. *)
ListLocalDirs ==
    /\ pc = "localDirs"
    /\ todo' = getDiff(nsList, dirs)
    /\ pc' = "next"
    /\ UNCHANGED <<live, born, pushing, dirs, store, nsList, app, objs>>

ListLocalDirsFails ==
    /\ pc = "localDirs"
    /\ pc' = "listNamespaces"
    /\ UNCHANGED <<live, born, pushing, dirs, store, nsList, todo, app, objs>>

(* The loop over appsToDelete, and the sleep after it. *)
NextApp(a) ==
    /\ pc = "next"
    /\ a \in todo
    /\ app' = a
    /\ todo' = todo \ {a}
    /\ pc' = "removeDir"
    /\ UNCHANGED <<live, born, pushing, dirs, store, nsList, objs>>

NoMoreApps ==
    /\ pc = "next"
    /\ todo = {}
    /\ app' = "none"
    /\ pc' = "sleep"
    /\ UNCHANGED <<live, born, pushing, dirs, store, nsList, todo, objs>>

Sleep ==
    /\ pc = "sleep"
    /\ pc' = "listNamespaces"
    /\ UNCHANGED <<live, born, pushing, dirs, store, nsList, todo, app, objs>>

(* Mutation: RemoveAll is given the name without its suffix. *)
RemoveDirWithoutSuffix ==
    /\ pc = "removeDir"
    /\ pc' = "listObjects"
    /\ UNCHANGED <<live, born, pushing, dirs, store, nsList, todo, app, objs>>

(* fs.RemoveAll; its error is logged. *)
RemoveDir ==
    /\ pc = "removeDir"
    /\ dirs' = dirs \ {app}
    /\ pc' = "listObjects"
    /\ UNCHANGED <<live, born, pushing, store, nsList, todo, app, objs>>

RemoveDirFails ==
    /\ pc = "removeDir"
    /\ pc' = "listObjects"
    /\ UNCHANGED <<live, born, pushing, dirs, store, nsList, todo, app, objs>>

(* deleteFromStorage: List("home") and the match against the application.  *)
(* A driver may refuse "home", a path without a leading slash, every time; *)
(* that is StorageFails for ever.                                          *)
ListObjects ==
    /\ pc = "listObjects"
    /\ objs' = {o \in store : o[1] = app}
    /\ pc' = "deleteObjects"
    /\ UNCHANGED <<live, born, pushing, dirs, store, nsList, todo, app>>

DeleteObject ==
    /\ pc = "deleteObjects"
    /\ \E o \in objs : store' = store \ {o} /\ objs' = objs \ {o}
    /\ UNCHANGED <<live, born, pushing, dirs, pc, nsList, todo, app>>

(* deleteFromStorage returns: done, or the first error of List, Compile or *)
(* Delete, which leaves the rest of the objects.                           *)
StorageDone ==
    /\ pc = "deleteObjects" /\ objs = {}
    /\ pc' = "next"
    /\ UNCHANGED <<live, born, pushing, dirs, store, nsList, todo, app, objs>>

StorageFails ==
    /\ \/ pc = "listObjects"
       \/ pc = "deleteObjects" /\ objs # {}
    /\ objs' = {}
    /\ pc' = "next"
    /\ UNCHANGED <<live, born, pushing, dirs, store, nsList, todo, app>>

Succeeds ==
    \/ ListNamespaces \/ ListLocalDirs \/ (\E a \in App : NextApp(a)) \/ NoMoreApps
    \/ RemoveDir \/ ListObjects \/ DeleteObject \/ StorageDone \/ Sleep

Fails == ListLocalDirsFails \/ RemoveDirFails \/ StorageFails

Run == Succeeds \/ Fails

Next == Run \/ Environment

SafetySpec == Init /\ [][Next]_vars

(* The loop runs, and no call fails for ever.  Nothing is assumed of the   *)
(* controller or of the pushes.                                            *)
Fairness ==
    /\ WF_vars(Run)
    /\ SF_vars(ListNamespaces) /\ SF_vars(ListLocalDirs)
    /\ \A a \in App : SF_vars(NextApp(a)) /\ SF_vars(RemoveDir /\ app = a)

Spec == SafetySpec /\ Fairness

-----------------------------------------------------------------------------
(* What the cleaner's next step takes away. *)
Cleaned(a) == (a \in dirs /\ a \notin dirs') \/ (\E s \in Sha : <<a, s>> \in store \ store')

(* An application that has existed since Run listed the namespaces loses   *)
(* neither its directory nor an archive to the cleaner, whatever the case  *)
(* of the directories around it (cleaner.go:48-67, 128-138).               *)
SparesSettledApps ==
    [][Run => \A a \in live \ born : ~Cleaned(a)]_vars

(* The directory of an application that stays deleted is removed however   *)
(* often a push brings it back (cleaner.go:113-141).                       *)
DeadDirsGoAway ==
    \A a \in App : <>[](a \notin live) => []<>(a \notin dirs)
=============================================================================
