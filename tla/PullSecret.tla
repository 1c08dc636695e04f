------------------------------ MODULE PullSecret ------------------------------
(***************************************************************************)
(* internal/pullSecret: the backup, replacement and restoration of the     *)
(* cluster-wide pull secret.  A spec says whether PullSecretRef is set.    *)
(***************************************************************************)
EXTENDS Stage

CONSTANT Initial    \* the pull secret the cluster was installed with

VARIABLE original   \* the pull secret the administrator last set

vars == <<lifecycle, objects, program, budgets, original>>

ASSUME ObjectsAssumption == Objects = {"pull", "backup", "user"}
ASSUME SpecsAssumption   == Specs \subseteq [pullSecretRef : BOOLEAN]
ASSUME TypedAssumption   == Typed \subseteq Data /\ Initial \in Typed
ASSUME NoneAssumption    == None \notin CRs /\ None \notin Kept /\ None \notin Data
ASSUME BoundsAssumption  == Lags \cup {MaxUID, MaxGeneration, MaxEdits, MaxFail} \subseteq Nat

\* A Secret as users write it.
Unowned(d) == [data |-> d, owner |-> 0]

TypeOK ==
    /\ {cr, known, pass} \subseteq CRs \cup {None}
    /\ uids \in Nat /\ queued \in BOOLEAN
    /\ store \in Stores /\ store["pull"] # None
    /\ behind \in Seq(Stores) /\ Len(behind) <= lag
    /\ todo # <<>> => pass # None
    /\ At("paste") => held \in Data
    /\ held \in Data \cup {None} /\ original \in Data

Init ==
    /\ \E u \in {None} \cup {Unowned(d) : d \in Data} :
          StageInit([pull |-> Unowned(Initial), backup |-> None, user |-> u], Objects)
    /\ original = Initial

-----------------------------------------------------------------------------
Plan(relocation) ==
    IF relocation.spec.pullSecretRef /\ ~relocation.deleting
    THEN <<Call("validate", "user", None), Call("backup", "backup", None),
           Call("own", "user", None), Call("paste", "pull", FALSE)>>
    ELSE <<Call("cleanup", "backup", None)>>

\* Mutant: a backup is taken in every pass.
Backup_Always ==
    /\ At("backup")
    /\ todo' = <<Call("read", "pull", None), Call("paste", "backup", TRUE)>> \o Tail(todo)
    /\ UNCHANGED <<lifecycle, objects, held, budgets>>

\* The pull secret is copied to the backup if there is none.
Backup ==
    /\ At("backup")
    /\ todo' = (IF cache["backup"] # None THEN <<>>
                ELSE <<Call("read", "pull", None), Call("paste", "backup", TRUE)>>) \o Tail(todo)
    /\ UNCHANGED <<lifecycle, objects, held, budgets>>

\* Mutant: the backup is copied nowhere before it is deleted.
Cleanup_NoRestore ==
    /\ At("cleanup")
    /\ todo' = (IF cache["backup"] = None THEN <<>>
                ELSE <<Call("read", "backup", None)>>) \o Tail(todo)
    /\ UNCHANGED <<lifecycle, objects, held, budgets>>

\* Mutant: the missing backup is an error, as the other failures of Get are.
Cleanup_NotFoundFails ==
    /\ At("cleanup")
    /\ IF cache["backup"] = None THEN Fails
       ELSE /\ todo' = <<Call("read", "backup", None), Call("paste", "pull", FALSE),
                         Call("erase", "backup", TRUE)>> \o Tail(todo)
            /\ UNCHANGED <<lifecycle, objects, held, budgets>>

\* The backup is copied to the pull secret and deleted, if there is one.
Cleanup ==
    /\ At("cleanup")
    /\ todo' = (IF cache["backup"] = None THEN <<>>
                ELSE <<Call("read", "backup", None), Call("paste", "pull", FALSE),
                       Call("erase", "backup", TRUE)>>) \o Tail(todo)
    /\ UNCHANGED <<lifecycle, objects, held, budgets>>

-----------------------------------------------------------------------------
\* The user creates, replaces or deletes the Secret the PullSecretRef names.
ChangeUserSecret ==
    \E u \in {None} \cup {Unowned(d) : d \in Data} : Change("user", u)

\* The administrator changes the pull secret while no relocation is under way.
ChangePullSecret ==
    /\ cr = None /\ pass = None /\ store["backup"] = None
    /\ \E d \in Typed : Change("pull", Unowned(d)) /\ original' = d

Start == StartPass /\ todo' = IF pass' = None THEN <<>> ELSE Plan(pass')

Worker == Start \/ Backup \/ Cleanup \/ Erase \/ Calls

Next ==
    \/ /\ \/ Worker \/ Users \/ DeliverCR \/ DeliverObjects
          \/ ChangeUserSecret \/ CallFails
          \/ Crash /\ UNCHANGED watched
          \/ Collect("backup") \/ Collect("user")
       /\ UNCHANGED original
    \/ ChangePullSecret

Spec == Init /\ [][Next]_vars

FairSpec == /\ Spec
            /\ WF_vars(Worker /\ UNCHANGED original)
            /\ WF_vars(DeliverCR /\ UNCHANGED original)
            /\ WF_vars(DeliverObjects /\ UNCHANGED original)

-----------------------------------------------------------------------------
(* The original pull secret is never lost: at every moment, and so after   *)
(* any failure or restart between two writes, it is the cluster's pull     *)
(* secret or it is in the backup.                                          *)
OriginalKept ==
    lag = 0 => \/ store["pull"].data = original
               \/ store["backup"] # None /\ store["backup"].data = original

(* Without a ClusterRelocation the cluster has its own pull secret: the    *)
(* finalizer never lets go of the object before Cleanup has restored it.   *)
RestoredWhenGone == lag = 0 /\ cr = None => store["pull"].data = original

(* A secret the user provides outlives the ClusterRelocation that used it. *)
UserSecretKept ==
    [][store["user"] # None /\ store'["user"] = None => edits' # edits]_store

(* The wanted pull secret arrives and stays, through conflicts, retries and *)
(* the replacement of the user's Secret under it: in the end the cluster has *)
(* what the user's Secret holds, unless the object no longer asks for it or *)
(* the Secret is unusable.                                                  *)
EventuallyReplaced ==
    <>[](/\ cr # None /\ ~cr.deleting /\ cr.spec.pullSecretRef
         /\ store["user"] # None /\ store["user"].data \in Typed
         => store["pull"].data = store["user"].data)

(* A pull secret whose object was deleted is restored, in the end.         *)
EventuallyRestored ==
    (lag = 0 /\ cr # None /\ cr.deleting) ~> (cr = None /\ store["pull"].data = original)
==============================================================================
