------------------------------ MODULE Lifecycle ------------------------------
(***************************************************************************)
(* What the controller promises a sub-reconciler about the one             *)
(* ClusterRelocation named "cluster" and the pass that works on it.        *)
(*                                                                         *)
(* ClusterRelocation is shown to implement this specification; the modules *)
(* of the single stages (Serving, Resources, PullSecret, DNS, ACM) extend  *)
(* it as their surroundings.  Stages, conditions, verification and         *)
(* self-destruction are abstracted away: what is left is the object, the   *)
(* informer's copy of it, the queue, and the copy a pass holds.            *)
(***************************************************************************)
EXTENDS Naturals

CONSTANTS
    Specs,          \* the specs users write
    None,           \* no object
    MaxUID,         \* bound: objects ever created
    MaxGeneration   \* bound: generations of one object

\* reconciled: the status says Reconciled, and says it of this generation.
CRs == [uid : Nat, spec : Specs, generation : Nat, finalizer : BOOLEAN,
        deleting : BOOLEAN, reconciled : BOOLEAN]

ASSUME NoObjectAssumption == None \notin CRs

VARIABLES
    cr,       \* the object in the API server, or None
    known,    \* the informer's copy of it
    uids,     \* objects created so far
    queued,   \* its name is in the work queue
    pass      \* the copy the pass under way holds, or None

lifecycle == <<cr, known, uids, queued, pass>>

LifecycleInit == cr = None /\ known = None /\ uids = 0 /\ queued = FALSE /\ pass = None

-----------------------------------------------------------------------------
(* Users.                                                                  *)

Create ==
    /\ cr = None /\ uids < MaxUID
    /\ uids' = uids + 1
    /\ \E s \in Specs :
          cr' = [uid |-> uids + 1, spec |-> s, generation |-> 1, finalizer |-> FALSE,
                 deleting |-> FALSE, reconciled |-> FALSE]
    /\ UNCHANGED <<known, queued, pass>>

\* An object of another name.
CreateOther ==
    /\ uids < MaxUID
    /\ uids' = uids + 1
    /\ UNCHANGED <<cr, known, queued, pass>>

Edit ==
    /\ cr # None
    /\ cr.generation < MaxGeneration
    /\ \E s \in Specs \ {cr.spec} :
          cr' = [cr EXCEPT !.spec = s, !.generation = @ + 1, !.reconciled = FALSE]
    /\ UNCHANGED <<known, uids, queued, pass>>

Delete ==
    /\ cr # None
    /\ ~cr.deleting
    /\ cr' = IF cr.finalizer THEN [cr EXCEPT !.deleting = TRUE] ELSE None
    /\ UNCHANGED <<known, uids, queued, pass>>

-----------------------------------------------------------------------------
(* The informer and the queue.                                             *)

Deliver ==
    /\ known # cr
    /\ known' = cr
    /\ queued' = TRUE
    /\ UNCHANGED <<cr, uids, pass>>

Enqueue ==
    /\ queued' = TRUE
    /\ UNCHANGED <<cr, known, uids, pass>>

-----------------------------------------------------------------------------
(* The worker.                                                             *)

\* Mutant: a copy is taken for adopted whether or not it has the finalizer.
Begin_Unadopted ==
    /\ pass = None /\ queued
    /\ queued' = FALSE
    /\ pass' = known
    /\ UNCHANGED <<cr, known, uids>>

\* Reconcile reads the object.  A copy without the finalizer gives it work
\* only through Adopt.
Begin ==
    /\ pass = None /\ queued
    /\ queued' = FALSE
    /\ pass' = IF known # None /\ known.finalizer THEN known ELSE None
    /\ UNCHANGED <<cr, known, uids>>

\* The finalizer is added, if the copy is still the stored version.
Adopt ==
    /\ pass = None
    /\ cr # None /\ ~cr.finalizer /\ ~cr.deleting
    /\ known = cr
    /\ cr' = [cr EXCEPT !.finalizer = TRUE]
    /\ pass' = cr'
    /\ UNCHANGED <<known, uids, queued>>

\* Reconcile returns, having written nothing back.
End(retry) ==
    /\ pass # None
    /\ pass' = None
    /\ queued' = (queued \/ retry)
    /\ UNCHANGED <<cr, known, uids>>

\* The status is written, if the copy is still the stored version.
Report(ok, retry) ==
    /\ pass # None /\ ~pass.deleting
    /\ cr = pass
    /\ cr' = [cr EXCEPT !.reconciled = ok]
    /\ pass' = None
    /\ queued' = (queued \/ retry)
    /\ UNCHANGED <<known, uids>>

\* The finalizer is removed; the object goes unless another one keeps it.
Finish(gone) ==
    /\ pass # None /\ pass.deleting
    /\ cr = pass
    /\ cr' = IF gone THEN None ELSE [cr EXCEPT !.finalizer = FALSE]
    /\ pass' = None
    /\ UNCHANGED <<known, uids, queued>>

Vanish ==
    /\ cr # None /\ cr.deleting /\ ~cr.finalizer
    /\ cr' = None
    /\ UNCHANGED <<known, uids, queued, pass>>

\* The process ends for good, or is replaced by one that lists all objects.
Stop ==
    /\ pass' = None /\ queued' = FALSE
    /\ UNCHANGED <<cr, known, uids>>

Restart ==
    /\ pass' = None /\ known' = cr /\ queued' = (cr # None)
    /\ UNCHANGED <<cr, uids>>

LifecycleNext ==
    \/ Create \/ CreateOther \/ Edit \/ Delete
    \/ Deliver \/ Enqueue
    \/ Begin \/ Adopt
    \/ \E retry \in BOOLEAN : End(retry) \/ \E ok \in BOOLEAN : Report(ok, retry)
    \/ \E gone \in BOOLEAN : Finish(gone)
    \/ Vanish \/ Stop \/ Restart

LifecycleSpec == LifecycleInit /\ [][LifecycleNext]_lifecycle

-----------------------------------------------------------------------------
(* How a pass over one stage ends in the code.                             *)

\* An error: the status says so if it can be written, and the name is retried.
Abort == IF ~pass.deleting /\ cr = pass THEN Report(FALSE, TRUE) ELSE End(TRUE)

\* Success: a status that cannot be written is only logged, a finalizer that
\* cannot be removed is retried.
Complete ==
    IF pass.deleting THEN IF cr = pass THEN Finish(TRUE) ELSE End(TRUE)
                     ELSE IF cr = pass THEN Report(TRUE, FALSE) ELSE End(FALSE)

(* What a stage writes on behalf of an object, it writes while that very    *)
(* object exists and carries the finalizer: the Secrets it creates have a   *)
(* living owner, and the finalizer will see what it changed.                *)
Held == pass # None /\ ~pass.deleting =>
            cr # None /\ cr.uid = pass.uid /\ cr.finalizer
==============================================================================
