------------------------- MODULE RelocationLifecycle -------------------------
(***************************************************************************)
(* The controller implements Lifecycle.  Of the objects the one named      *)
(* "cluster" counts; a pass that has not yet made sure of the finalizer is *)
(* none, and neither is one over an object of another name.                *)
(***************************************************************************)
EXTENDS ClusterRelocation

\* What a stage sees of an object: of the status, only a claim that is current.
Seen(c) ==
    IF c = None THEN None
    ELSE [uid |-> c.uid, spec |-> c.spec, generation |-> c.generation,
          finalizer |-> c.finalizer, deleting |-> c.deleting,
          reconciled |-> /\ c.status.reconciled # None
                         /\ c.status.reconciled.status
                         /\ c.status.reconciled.observedGeneration = c.generation]

Working == /\ who = "cluster"
           /\ pc \in {"validate", "reconcile", "delete", "updateStatus", "finalize"}

L == INSTANCE Lifecycle WITH
        cr     <- Seen(cr["cluster"]),
        known  <- Seen(cache["cluster"]),
        queued <- "cluster" \in queue,
        pass   <- IF Working THEN Seen(relocation) ELSE None

ASSUME SeenAssumption == None \notin L!CRs

(* The controller keeps its promise to the stages, with every handler,      *)
(* failure and wait of a pass: it takes up an object only once the          *)
(* finalizer is stored, claims success only of the generation it worked on, *)
(* and lets go of an object only at the end of a pass that saw its deletion. *)
ImplementsLifecycle == L!LifecycleSpec
==============================================================================
