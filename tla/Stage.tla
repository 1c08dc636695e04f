-------------------------------- MODULE Stage --------------------------------
(***************************************************************************)
(* A pass of the controller as a program over objects of the cluster: the  *)
(* calls a sub-reconciler makes, one step each, against the API server and *)
(* the informers' copies.  The modules of the single stages say which      *)
(* calls, in which order (their Plan); this one says what each call does.  *)
(*                                                                         *)
(* Reads come from the informers, which trail the API server by up to lag  *)
(* writes.  A pass begins only on an event: of the ClusterRelocation, or   *)
(* of a watched object that it owns.  There is no periodic resync.         *)
(***************************************************************************)
EXTENDS Lifecycle, Sequences

CONSTANTS
    Objects,    \* the objects the stages read and write
    Data,       \* their contents
    Typed,      \* contents of Secrets that are of the type asked for
    Lags,       \* lags of the informers to consider
    MaxEdits,   \* bound: changes to objects by users
    MaxFail     \* bound: failing calls and restarts of the pod

Kept   == [data : Data, owner : Nat]
Stores == [Objects -> Kept \cup {None}]

VARIABLES
    store,      \* the objects in the API server
    behind,     \* the earlier stores the informers have yet to replace
    lag,        \* how long behind may be
    watched,    \* the objects whose events reach the queue
    todo,       \* the calls the pass has yet to make
    held,       \* what CopySecret has read from its source
    edits, fails

objects == <<store, behind, lag, watched>>
program == <<todo, held>>
budgets == <<edits, fails>>

StageInit(initial, watches) ==
    /\ LifecycleInit
    /\ store = initial /\ behind = <<>> /\ lag \in Lags /\ watched = watches
    /\ todo = <<>> /\ held = None
    /\ edits = 0 /\ fails = 0

-----------------------------------------------------------------------------
(* The API server and the informers.                                       *)

\* What the informers hold, and whether they have the last version of n.
cache == IF behind = <<>> THEN store ELSE Head(behind)
Latest(n) == \A i \in 1..Len(behind) : behind[i][n] = store[n]

\* EnqueueRequestForOwner looks at the owners before and after a change.
Event(old, new) ==
    \E n \in watched : /\ old[n] # new[n]
                       /\ \/ old[n] # None /\ old[n].owner # 0
                          \/ new[n] # None /\ new[n].owner # 0

Write(new) ==
    /\ store' = new
    /\ IF new = store THEN UNCHANGED <<behind, queued>>
       ELSE IF lag = 0 THEN queued' = (queued \/ Event(store, new)) /\ UNCHANGED behind
       ELSE /\ Len(behind) < lag
            /\ behind' = Append(behind, store)
            /\ UNCHANGED queued
    /\ UNCHANGED <<lag, watched>>

DeliverObjects ==
    /\ behind # <<>>
    /\ behind' = Tail(behind)
    /\ queued' = (queued \/ Event(cache, IF Len(behind) = 1 THEN store ELSE behind[2]))
    /\ UNCHANGED <<cr, known, uids, pass, store, lag, watched, program, budgets>>

\* A user, or another controller, changes an object.
Change(n, object) ==
    /\ edits < MaxEdits /\ edits' = edits + 1
    /\ Write([store EXCEPT ![n] = object])
    /\ UNCHANGED <<cr, known, uids, pass, program, fails>>

\* The garbage collector, on what belonged to an object that is gone.
Collect(n) ==
    /\ store[n] # None
    /\ store[n].owner # 0
    /\ cr = None \/ (cr # None /\ cr.uid # store[n].owner)
    /\ Write([store EXCEPT ![n] = None])
    /\ UNCHANGED <<cr, known, uids, pass, program, budgets>>

-----------------------------------------------------------------------------
(* The calls.  A call is a record: what to do, on which object, with what. *)

Call(do, on, with) == [do |-> do, on |-> on, with |-> with]

At(do) == todo # <<>> /\ Head(todo).do = do
On     == Head(todo).on
With   == Head(todo).with

Advance == todo' = Tail(todo) /\ UNCHANGED <<cr, known, uids, pass, budgets>>
Skip    == Advance /\ UNCHANGED <<queued, objects, held>>

\* Mutant: the calls that were to follow are kept for the next pass.
Fails_Keep == Abort /\ UNCHANGED <<todo, held, objects, budgets>>

\* The pass ends with an error.
Fails == Abort /\ todo' = <<>> /\ held' = None /\ UNCHANGED <<objects, budgets>>

(***************************************************************************)
(* A Create when the informer has none, which fails if there is one;       *)
(* nothing when the copy is already as wanted; else an Update, which a     *)
(* newer version refuses.                                                  *)
(***************************************************************************)
CreateOrUpdate(n, object) ==
    IF cache[n] = object THEN Skip
    ELSE IF (cache[n] = None /\ store[n] = None) \/ (cache[n] # None /\ Latest(n))
    THEN Advance /\ UNCHANGED held /\ Write([store EXCEPT ![n] = object])
    ELSE Fails

\* An object with contents from the spec, owned by the ClusterRelocation.
Put == At("put") /\ CreateOrUpdate(On, [data |-> With, owner |-> pass.uid])

\* CreateOrPatch on a cluster object nobody owns: no version is compared.
Patch ==
    /\ At("patch")
    /\ IF cache[On].data = With THEN Skip
       ELSE Advance /\ UNCHANGED held /\ Write([store EXCEPT ![On].data = With])

\* Delete; with: whether an object that is not there is an error.
Erase ==
    /\ At("erase")
    /\ IF store[On] # None
       THEN Advance /\ UNCHANGED held /\ Write([store EXCEPT ![On] = None])
       ELSE IF With THEN Fails ELSE Skip

\* ValidateSecretType.
Validate ==
    /\ At("validate")
    /\ IF cache[On] # None /\ cache[On].data \in Typed THEN Skip ELSE Fails

\* CopySecret's Get of its source.
Read ==
    /\ At("read")
    /\ IF cache[On] = None THEN Fails
       ELSE Advance /\ held' = cache[On].data /\ UNCHANGED <<queued, objects>>

\* Mutant: the source is read, but not owned.
Own_ReadOnly ==
    /\ At("own")
    /\ IF cache[On] = None THEN Fails
       ELSE Advance /\ held' = cache[On].data /\ UNCHANGED <<queued, objects>>

\* The same with OwnOriginal: the source is given an ownerReference.
Own ==
    /\ At("own")
    /\ IF cache[On] = None \/ ~Latest(On) THEN Fails
       ELSE /\ Advance
            /\ held' = cache[On].data
            /\ Write([store EXCEPT ![On] = [data |-> held', owner |-> pass.uid]])

\* CopySecret's write of its destination; with: OwnDestination.
Paste ==
    /\ At("paste")
    /\ CreateOrUpdate(On, [data |-> held, owner |-> IF With THEN pass.uid ELSE 0])

-----------------------------------------------------------------------------
(* A pass.                                                                 *)

\* The module of a stage adds what the pass has to do.
StartPass == (Begin \/ Adopt) /\ UNCHANGED <<objects, held, budgets>>

EndPass ==
    /\ pass # None /\ todo = <<>>
    /\ Complete
    /\ held' = None
    /\ UNCHANGED <<todo, objects, budgets>>

\* A call fails for a reason of its own, with or without having had its effect.
CallFails ==
    /\ pass # None /\ fails < MaxFail
    /\ fails' = fails + 1
    /\ Abort
    /\ todo' = <<>> /\ held' = None
    /\ UNCHANGED <<objects, edits>>

\* The pod restarts, and its informers list everything anew.
Crash ==
    /\ fails < MaxFail
    /\ fails' = fails + 1
    /\ Restart
    /\ behind' = <<>> /\ todo' = <<>> /\ held' = None
    /\ UNCHANGED <<store, lag, edits>>

Users     == (Create \/ Edit \/ Delete) /\ UNCHANGED <<objects, program, budgets>>
DeliverCR == Deliver /\ UNCHANGED <<objects, program, budgets>>
Calls     == \/ Put \/ Patch \/ Validate \/ Read \/ Own \/ Paste
             \/ EndPass
==============================================================================
