----------------------- MODULE ClusterRelocationProofs -----------------------
(***************************************************************************)
(* Theorems about ClusterRelocation, for all names, specs and bounds.      *)
(***************************************************************************)
EXTENDS ClusterRelocation, TLAPS

-----------------------------------------------------------------------------
(* The parts of the inductive invariant.                                   *)

\* Only the object named "cluster" gets past validateCR.
OnlyCluster == pc \in {"reconcile", "delete"} => who = "cluster"

\* A pass that may write to the cluster works for an object that has the finalizer.
HoldsFinalizer ==
    pc \in {"validate", "reconcile", "delete"} =>
        cr[who] # None /\ cr[who].finalizer /\ cr[who].uid = relocation.uid

\* No copy of an object is newer than the last one created.
KnownUIDs == \A n \in Names : /\ cr[n] # None => cr[n].uid <= uids
                              /\ cache[n] # None => cache[n].uid <= uids
HeldUID == relocation # None => relocation.uid <= uids

\* The informer's copy may be stale, but the finalizer it shows is there: the
\* finalizer is only ever removed by a pass that has seen the deletion.
CachedFinalizer ==
    \A n \in Names : cache[n] # None /\ cache[n].finalizer /\ ~cache[n].deleting
                        => cr[n] # None /\ cr[n].finalizer /\ cr[n].uid = cache[n].uid

\* A deletion is never undone.
CachedDeletion ==
    \A n \in Names :
        cache[n] # None /\ cr[n] # None /\ cache[n].uid = cr[n].uid /\ cache[n].deleting
            => cr[n].deleting

\* Finalization is of an object whose deletion the informer has delivered.
SawDeletion ==
    pc = "finalize" =>
        /\ relocation.deleting
        /\ (cr[who] # None /\ cr[who].uid = relocation.uid)
              => cr[who].deleting /\ cache[who] # None /\ cache[who].deleting

\* Where the worker can be in the pipeline of its pass.
StageBounds ==
    /\ pc \in {"idle", "addFinalizer", "validate"} => stage = 1
    /\ pc = "finalize" => stage <= IF relocation.selfDestruct THEN 3 ELSE 12

Protocol == /\ OnlyCluster /\ HoldsFinalizer /\ KnownUIDs /\ HeldUID
            /\ CachedFinalizer /\ CachedDeletion /\ SawDeletion /\ StageBounds

\* What a finalization without self-destruction has reverted so far.
CleanedSoFar ==
    pc = "finalize" /\ ~relocation.selfDestruct =>
        /\ stage > 1 => config["PullSecret"] = Original
        /\ stage > 2 => config["Registry"] = Original
        /\ stage > 3 => config["Ingress"] = Original
        /\ stage > 4 => config["API"] = Original

\* A self-destruction begins with the Subscription.
Unsubscribed == pc = "finalize" /\ relocation.selfDestruct /\ stage > 1 => ~subscription

Cleanups == CleanedSoFar /\ Unsubscribed /\ RevertedWhenGone

\* The one thing asked of the informers of the patched objects: a Cleanup that finds its
\* copy as it was before the relocation is not misled by it. Nothing is asked of a pass
\* that relocates.
CleanupsInformed ==
    pc = "finalize" =>
        \A s \in Lagging : Plan[stage] = s /\ seen[s] = Original => config[s] = Original

-----------------------------------------------------------------------------
(* Facts about the pipelines.                                              *)

\* A stage before "Done" is not the last one of the pipeline.
LEMMA PipelineLength ==
    /\ Len(Pipeline) = 18
    /\ \A i \in 1..18 : Pipeline[i] # "Done" => i < 18
BY DEF Pipeline

\* finalizeRelocation first reverts the four configurations, then only waits
\* and deletes routes.
LEMMA CleanupStages ==
    /\ CleanupPipeline[1] = "PullSecret" /\ CleanupPipeline[2] = "Registry"
    /\ CleanupPipeline[3] = "Ingress" /\ CleanupPipeline[4] = "API"
    /\ \A i \in 1..12 : CleanupPipeline[i] = "Done" <=> i = 12
BY DEF CleanupPipeline

\* Self-destruction: the Subscription, the CSV, done.
LEMMA SelfDestructStages ==
    /\ SelfDestructPipeline[1] = "Subscription"
    /\ SelfDestructPipeline[2] = "CSV"
    /\ SelfDestructPipeline[3] = "Done"
    /\ Len(SelfDestructPipeline) = 3
BY DEF SelfDestructPipeline

\* The worker advances within its pipeline.
LEMMA AdvanceBound ==
    ASSUME TypeOK, StageBounds, pc \in {"reconcile", "finalize"}, Plan[stage] # "Done"
    PROVE  /\ stage + 1 \in 1..18
           /\ pc = "finalize" => stage + 1 <= IF relocation.selfDestruct THEN 3 ELSE 12
<1>1. CASE pc = "reconcile"
  BY <1>1, PipelineLength DEF Plan, TypeOK
<1>2. CASE pc = "finalize"
  <2>1. CASE relocation.selfDestruct
    BY <1>2, <2>1, SelfDestructStages DEF Plan, TypeOK, StageBounds
  <2>2. CASE ~relocation.selfDestruct
    BY <1>2, <2>2, CleanupStages DEF Plan, TypeOK, StageBounds
  <2> QED BY <2>1, <2>2
<1> QED BY <1>1, <1>2

-----------------------------------------------------------------------------
(* Type correctness.                                                       *)

\* The updates of single fields that the actions make.
LEMMA FieldUpdates ==
    ASSUME NEW c \in CRs
    PROVE  /\ [c EXCEPT !.finalizer = FALSE] \in CRs
           /\ [c EXCEPT !.deleting = TRUE] \in CRs
           /\ [c EXCEPT !.orphan = FALSE] \in CRs
           /\ [c EXCEPT !.deleting = TRUE, !.orphan = TRUE] \in CRs
           /\ [c EXCEPT !.selfDestruct = TRUE] \in CRs
BY DEF CRs

\* setFailedStatus and the success condition.
LEMMA ConditionUpdates ==
    ASSUME TypeOK, relocation \in CRs, NEW ok \in BOOLEAN,
           NEW ready \in {"Unknown", "False", "True"}
    PROVE  /\ SetReconciled(ok) \in Conditions
           /\ [SetReconciled(ok) EXCEPT !.ready = ready] \in Conditions
           /\ [conditions EXCEPT !.ready = ready] \in Conditions
<1>1. [status |-> ok, observedGeneration |-> relocation.generation]
         \in [status : BOOLEAN, observedGeneration : Nat]
  BY DEF CRs
<1> QED
  BY <1>1 DEF SetReconciled, Conditions, TypeOK

\* Every step keeps the types: in particular the worker never updates an object
\* that is not there, and never runs off the end of its pipeline.
LEMMA TypeStep ==
    TypeOK /\ Protocol /\ [Next]_vars => TypeOK'
<1> SUFFICES ASSUME TypeOK, Protocol, [Next]_vars PROVE TypeOK'
  OBVIOUS
<1> USE SpecsAssumption, NamesAssumption, SelfDestructAssumption, NoneAssumption,
        PipelineLength
<1> USE DEF vars, apiVars, informer, locals, worker, clusterVars, install, budgets
<1>1. ASSUME NEW n \in Names, CreateCR(n) PROVE TypeOK'
  BY <1>1 DEF CreateCR, TypeOK, CRs, NoConditions, Conditions
<1>2. ASSUME NEW n \in Names, EditSpec(n) PROVE TypeOK'
  BY <1>2 DEF EditSpec, TypeOK, CRs
<1>3. ASSUME NEW n \in Names, Annotate(n) PROVE TypeOK'
  <2>1. cr[n] \in CRs
    BY <1>3 DEF Annotate, TypeOK
  <2>2. cr' = [cr EXCEPT ![n] = [cr[n] EXCEPT !.selfDestruct = TRUE]]
    BY <1>3 DEF Annotate
  <2>3. [cr[n] EXCEPT !.selfDestruct = TRUE] \in CRs
    BY <2>1, FieldUpdates
  <2> QED
    BY <1>3, <2>2, <2>3 DEF Annotate, TypeOK
<1>4. ASSUME NEW n \in Names, DeleteCR(n) PROVE TypeOK'
  <2>1. cr[n] \in CRs
    BY <1>4 DEF DeleteCR, TypeOK
  <2>2. (IF cr[n].finalizer THEN [cr[n] EXCEPT !.deleting = TRUE] ELSE None) \in CRs \cup {None}
    BY <2>1, FieldUpdates
  <2> QED
    BY <1>4, <2>2 DEF DeleteCR, TypeOK
<1>5. ASSUME NEW n \in Names, Deliver(n) PROVE TypeOK'
  BY <1>5 DEF Deliver, TypeOK
<1>6. ASSUME NEW n \in Names, Enqueue(n) PROVE TypeOK'
  BY <1>6 DEF Enqueue, TypeOK
<1>7. ASSUME NEW s \in Lagging, Observe(s) PROVE TypeOK'
  BY <1>7, LaggingAssumption DEF Observe, TypeOK, Patched, Applied
<1>8. ASSUME NEW n \in Names, StartReconcile(n) PROVE TypeOK'
  BY <1>8 DEF StartReconcile, TypeOK, CRs
<1>9. CASE AddFinalizer
  BY <1>9 DEF AddFinalizer, TypeOK, CRs
<1>10. CASE UpdateConflict
  BY <1>10 DEF UpdateConflict, Return, TypeOK, NoConditions, Conditions
<1>11. CASE AddFinalizerFails
  BY <1>11 DEF AddFinalizerFails, Return, Fail, TypeOK, NoConditions, Conditions
<1>12. CASE Validate
  <2>1. relocation \in CRs
    BY <1>12 DEF Validate, TypeOK
  <2>2. conditions' \in Conditions
    BY <1>12, <2>1, ConditionUpdates DEF Validate
  <2>3. /\ pc' = "updateStatus" \/ pc' = "reconcile"
        /\ result' = result \/ result' = "retry"
        /\ fails' = fails \/ fails' = fails + 1
    BY <1>12, Zenon DEF Validate
  <2>4. UNCHANGED <<apiVars, informer, who, stage, relocation, listed, clusterVars, install,
                    crashes>> /\ pc = "validate"
    BY <1>12 DEF Validate
  <2> QED
    BY <2>2, <2>3, <2>4 DEF TypeOK
<1>13. ASSUME NEW s \in Applied, Apply(s) PROVE TypeOK'
  BY <1>13, AdvanceBound DEF Apply, At, Written, Target, View, Advance, TypeOK, Protocol, Configs, CRs, Applied
<1>14. CASE LookupIP
  BY <1>14, AdvanceBound DEF LookupIP, At, Advance, TypeOK, Protocol
<1>15. ASSUME NEW s \in {"IngressCert", "APICert"}, NEW o \in Operators, VerifyCert(s, o)
       PROVE  TypeOK'
  BY <1>15, AdvanceBound DEF VerifyCert, At, Advance, TypeOK, Protocol
<1>16. ASSUME NEW s \in {"IngressCO", "APICO", "RoutesCO"}, NEW o \in Operators, WaitForCO(s, o)
       PROVE  TypeOK'
  BY <1>16, AdvanceBound DEF WaitForCO, At, Advance, TypeOK, Protocol
<1>17. CASE ListRoutes
  BY <1>17, AdvanceBound DEF ListRoutes, At, Advance, TypeOK, Protocol
<1>18. CASE DeleteRoutes
  BY <1>18, AdvanceBound DEF DeleteRoutes, At, Advance, TypeOK, Protocol
<1>19. CASE StageFails
  <2>1. relocation \in CRs
    BY <1>19 DEF StageFails, TypeOK
  <2>2. /\ config' \in [Applied -> Configs]
        /\ secrets' \in [Serving -> Nat \cup {None}]
        /\ routes' \in Configs \cup {None}
    BY <1>19, <2>1 DEF StageFails, Written, Target, TypeOK, Configs, CRs
  <2>3. /\ conditions' \in Conditions
        /\ pc' \in {"idle", "updateStatus"}
        /\ pc' # "idle" => who' \in Names /\ relocation' \in CRs
        /\ who' \in Names \cup {None} /\ relocation' \in CRs \cup {None}
        /\ stage' \in 1..18 /\ result' \in {"ok", "retry"}
        /\ listed' \in Configs \cup {None} /\ queue' \subseteq Names
    <3>1. NoConditions \in Conditions
      BY DEF NoConditions, Conditions
    <3>2. CASE pc = "reconcile"
      BY <1>19, <2>1, <3>2, ConditionUpdates DEF StageFails, TypeOK
    <3>3. CASE pc # "reconcile"
      BY <1>19, <3>1, <3>3 DEF StageFails, Return, TypeOK
    <3> QED BY <3>2, <3>3
  <2> QED
    BY <1>19, <2>2, <2>3 DEF StageFails, Fail, TypeOK
<1>20. CASE Succeed
  <2>1. conditions' \in Conditions
    BY <1>20, ConditionUpdates DEF Succeed, TypeOK
  <2> QED
    BY <1>20, <2>1 DEF Succeed, TypeOK
<1>21. CASE DeleteSelf
  <2>1. who \in Names /\ cr[who] \in CRs
    BY <1>21 DEF DeleteSelf, TypeOK, Protocol, HoldsFinalizer
  <2>2. cr' = [cr EXCEPT ![who] = [cr[who] EXCEPT !.deleting = TRUE, !.orphan = TRUE]] \/ cr' = cr
    BY <1>21 DEF DeleteSelf
  <2>3. [cr[who] EXCEPT !.deleting = TRUE, !.orphan = TRUE] \in CRs
    BY <2>1, FieldUpdates
  <2>4. cr' \in [Names -> CRs \cup {None}]
    BY <2>2, <2>3 DEF TypeOK
  <2> QED
    BY <1>21, <2>4 DEF DeleteSelf, TypeOK
<1>22. CASE UpdateStatus
  BY <1>22 DEF UpdateStatus, Current, Return, TypeOK, CRs, NoConditions, Conditions
<1>23. CASE DeleteSubscription
  <2>1. stage' \in 1..18
    BY <1>23, AdvanceBound, SelfDestructStages DEF DeleteSubscription, At, Protocol
  <2>2. subscription' \in BOOLEAN
    BY <1>23 DEF DeleteSubscription
  <2> QED
    BY <1>23, <2>1, <2>2 DEF DeleteSubscription, TypeOK
<1>24. CASE DeleteCSV
  BY <1>24, AdvanceBound DEF DeleteCSV, At, Advance, TypeOK, Protocol
<1>25. CASE RemoveFinalizer
  <2>1. who \in Names /\ cr[who] \in CRs
    BY <1>25 DEF RemoveFinalizer, Current, TypeOK
  <2>2. (IF cr[who].orphan THEN [cr[who] EXCEPT !.finalizer = FALSE] ELSE None) \in CRs \cup {None}
    BY <2>1, FieldUpdates
  <2> QED
    BY <1>25, <2>2 DEF RemoveFinalizer, Return, TypeOK, NoConditions, Conditions
<1>26. CASE RemoveFinalizerFails
  BY <1>26 DEF RemoveFinalizerFails, Fail, Return, TypeOK, NoConditions, Conditions
<1>27. ASSUME NEW o \in Operators, OperatorStarts(o) PROVE TypeOK'
  BY <1>27 DEF OperatorStarts, TypeOK
<1>28. ASSUME NEW o \in Operators, OperatorFinishes(o) PROVE TypeOK'
  BY <1>28 DEF OperatorFinishes, TypeOK, Follows, Applied, Operators
<1>29. CASE RecreateRoutes
  BY <1>29 DEF RecreateRoutes, TypeOK, Operators
<1>30. ASSUME NEW s \in Serving, Collect(s) PROVE TypeOK'
  BY <1>30 DEF Collect, TypeOK
<1>31. ASSUME NEW n \in Names, OrphanDependents(n) PROVE TypeOK'
  <2>1. cr[n] \in CRs
    BY <1>31 DEF OrphanDependents, TypeOK
  <2>2. (IF cr[n].finalizer THEN [cr[n] EXCEPT !.orphan = FALSE] ELSE None) \in CRs \cup {None}
    BY <2>1, FieldUpdates
  <2>3. secrets' \in [Serving -> Nat \cup {None}]
    BY <1>31 DEF OrphanDependents, TypeOK
  <2> QED
    BY <1>31, <2>2, <2>3 DEF OrphanDependents, TypeOK
<1>32. CASE StopOperator
  <2>1. up' \in BOOLEAN
    BY <1>32 DEF StopOperator
  <2> QED
    BY <1>32, <2>1 DEF StopOperator, TypeOK, NoConditions, Conditions
<1>33. CASE Restart
  BY <1>33, LaggingAssumption DEF Restart, TypeOK, NoConditions, Conditions, Patched, Applied
<1>34. CASE UNCHANGED vars
  BY <1>34 DEF TypeOK
<1> QED
  BY <1>1, <1>2, <1>3, <1>4, <1>5, <1>6, <1>7, <1>8, <1>9, <1>10, <1>11, <1>12, <1>13,
     <1>14, <1>15, <1>16, <1>17, <1>18, <1>19, <1>20, <1>21, <1>22, <1>23, <1>24, <1>25,
     <1>26, <1>27, <1>28, <1>29, <1>30, <1>31, <1>32, <1>33, <1>34
     DEF Next, Worker, Failures, Users, Cluster, Rollout, Operators

-----------------------------------------------------------------------------
(* The protocol between the worker, the informer and the finalizer.        *)

\* The updates that keep an object's uid and finalizer, and a deletion.
LEMMA KeptFields ==
    ASSUME NEW c \in CRs, NEW d,
           \/ d = [c EXCEPT !.selfDestruct = TRUE]
           \/ d = [c EXCEPT !.orphan = FALSE]
           \/ d = [c EXCEPT !.deleting = TRUE]
           \/ d = [c EXCEPT !.deleting = TRUE, !.orphan = TRUE]
    PROVE  /\ d \in CRs
           /\ d.uid = c.uid
           /\ d.finalizer = c.finalizer
           /\ c.deleting => d.deleting
           /\ d.spec = c.spec /\ d.generation = c.generation
<1>1. CASE d = [c EXCEPT !.selfDestruct = TRUE]
  BY <1>1 DEF CRs
<1>2. CASE d = [c EXCEPT !.orphan = FALSE]
  BY <1>2 DEF CRs
<1>3. CASE d = [c EXCEPT !.deleting = TRUE]
  BY <1>3 DEF CRs
<1>4. CASE d = [c EXCEPT !.deleting = TRUE, !.orphan = TRUE]
  BY <1>4 DEF CRs
<1> QED BY <1>1, <1>2, <1>3, <1>4

\* An update of an object that keeps its identity, its finalizer, a deletion, and
\* the spec of a generation.
SameObject(n) ==
    /\ cr[n] # None /\ cr'[n] # None
    /\ cr'[n].uid = cr[n].uid
    /\ cr'[n].finalizer = cr[n].finalizer
    /\ cr[n].deleting => cr'[n].deleting
    /\ cr'[n].generation >= cr[n].generation
    /\ cr'[n].spec # cr[n].spec => cr'[n].generation > cr[n].generation
    /\ \A m \in Names : m # n => cr'[m] = cr[m]
    /\ UNCHANGED <<uids, cache>>

\* Each of them keeps the object.
LEMMA KeptUpdate ==
    ASSUME NEW n \in Names, cr[n] \in CRs, cr[n] # None,
           \/ cr'[n] = [cr[n] EXCEPT !.selfDestruct = TRUE]
           \/ cr'[n] = [cr[n] EXCEPT !.orphan = FALSE]
           \/ cr'[n] = [cr[n] EXCEPT !.deleting = TRUE]
           \/ cr'[n] = [cr[n] EXCEPT !.deleting = TRUE, !.orphan = TRUE],
           \A m \in Names : m # n => cr'[m] = cr[m],
           UNCHANGED <<uids, cache>>
    PROVE  SameObject(n)
<1>1. /\ cr'[n] \in CRs
      /\ cr'[n].uid = cr[n].uid
      /\ cr'[n].finalizer = cr[n].finalizer
      /\ cr[n].deleting => cr'[n].deleting
      /\ cr'[n].spec = cr[n].spec /\ cr'[n].generation = cr[n].generation
  BY KeptFields
<1>2. cr[n].generation \in Nat
  BY DEF CRs
<1> QED
  BY <1>1, <1>2, NoneAssumption DEF SameObject

\* The actions that update an object in place.
LEMMA InPlaceUpdates ==
    ASSUME TypeOK, Protocol
    PROVE  /\ \A n \in Names : EditSpec(n) \/ Annotate(n) => SameObject(n)
           /\ \A n \in Names : cr[n].finalizer /\ (DeleteCR(n) \/ OrphanDependents(n))
                                  => SameObject(n)
           /\ DeleteSelf \/ UpdateStatus => cr' = cr \/ SameObject(who)
<1> USE NoneAssumption
<1> USE DEF vars, apiVars, informer, locals, worker, clusterVars, install, budgets
<1>1. ASSUME NEW n \in Names, EditSpec(n)
      PROVE  SameObject(n)
  BY <1>1 DEF EditSpec, TypeOK, CRs, SameObject
<1>2. ASSUME NEW n \in Names, Annotate(n)
      PROVE  SameObject(n)
  <2>1. cr[n] \in CRs /\ cr[n] # None /\ n \in Names
    BY <1>2 DEF Annotate, TypeOK, Protocol, HoldsFinalizer
  <2>2. cr'[n] = [cr[n] EXCEPT !.selfDestruct = TRUE]
    BY <1>2, <2>1 DEF Annotate, TypeOK
  <2>3. (\A m \in Names : m # n => cr'[m] = cr[m]) /\ UNCHANGED <<uids, cache>>
    BY <1>2, <2>1 DEF Annotate, TypeOK
  <2> QED
    BY <2>1, <2>2, <2>3, KeptUpdate
<1>3. ASSUME NEW n \in Names, cr[n].finalizer, DeleteCR(n)
      PROVE  SameObject(n)
  <2>1. cr[n] \in CRs /\ cr[n] # None /\ n \in Names
    BY <1>3 DEF DeleteCR, TypeOK, Protocol, HoldsFinalizer
  <2>2. cr'[n] = [cr[n] EXCEPT !.deleting = TRUE]
    BY <1>3, <2>1 DEF DeleteCR, TypeOK
  <2>3. (\A m \in Names : m # n => cr'[m] = cr[m]) /\ UNCHANGED <<uids, cache>>
    BY <1>3, <2>1 DEF DeleteCR, TypeOK
  <2> QED
    BY <2>1, <2>2, <2>3, KeptUpdate
<1>4. ASSUME NEW n \in Names, cr[n].finalizer, OrphanDependents(n)
      PROVE  SameObject(n)
  <2>1. cr[n] \in CRs /\ cr[n] # None /\ n \in Names
    BY <1>4 DEF OrphanDependents, TypeOK, Protocol, HoldsFinalizer
  <2>2. cr'[n] = [cr[n] EXCEPT !.orphan = FALSE]
    BY <1>4, <2>1 DEF OrphanDependents, TypeOK
  <2>3. (\A m \in Names : m # n => cr'[m] = cr[m]) /\ UNCHANGED <<uids, cache>>
    BY <1>4, <2>1 DEF OrphanDependents, TypeOK
  <2> QED
    BY <2>1, <2>2, <2>3, KeptUpdate
<1>5. ASSUME DeleteSelf, cr' # cr
      PROVE  SameObject(who)
  <2>1. cr[who] \in CRs /\ cr[who] # None /\ who \in Names
    BY <1>5 DEF DeleteSelf, TypeOK, Protocol, HoldsFinalizer
  <2>2. cr'[who] = [cr[who] EXCEPT !.deleting = TRUE, !.orphan = TRUE]
    BY <1>5, <2>1 DEF DeleteSelf, TypeOK
  <2>3. (\A m \in Names : m # who => cr'[m] = cr[m]) /\ UNCHANGED <<uids, cache>>
    BY <1>5, <2>1 DEF DeleteSelf, TypeOK
  <2> QED
    BY <2>1, <2>2, <2>3, KeptUpdate
<1>6. ASSUME UpdateStatus, cr' # cr
      PROVE  SameObject(who)
  BY <1>6 DEF UpdateStatus, Current, TypeOK, CRs, SameObject
<1> QED
  BY <1>1, <1>2, <1>3, <1>4, <1>5, <1>6

\* Such an update disturbs no part of the protocol.
LEMMA SameObjectStep ==
    ASSUME TypeOK, TypeOK', Protocol, NEW n \in Names, SameObject(n)
    PROVE  /\ KnownUIDs' /\ CachedFinalizer' /\ CachedDeletion'
           /\ UNCHANGED <<pc, who, stage, relocation>> => Protocol'
<1>1. KnownUIDs'
  BY DEF KnownUIDs, Protocol, SameObject
<1>2. CachedFinalizer'
  BY DEF CachedFinalizer, Protocol, SameObject
<1>3. CachedDeletion'
  BY DEF CachedDeletion, Protocol, SameObject
<1>4. ASSUME UNCHANGED <<pc, who, stage, relocation>>
      PROVE  HoldsFinalizer' /\ SawDeletion' /\ OnlyCluster' /\ HeldUID' /\ StageBounds'
  BY <1>4 DEF HoldsFinalizer, SawDeletion, OnlyCluster, HeldUID, StageBounds, Protocol,
              SameObject, TypeOK
<1> QED
  BY <1>1, <1>2, <1>3, <1>4 DEF Protocol

\* Every step keeps the protocol: whatever the informer has not yet delivered,
\* a pass writes to the cluster only for an object that holds the finalizer.
LEMMA ProtocolStep ==
    TypeOK /\ TypeOK' /\ Protocol /\ [Next]_vars => Protocol'
<1> SUFFICES ASSUME TypeOK, TypeOK', Protocol, [Next]_vars PROVE Protocol'
  OBVIOUS
<1> USE NamesAssumption, NoneAssumption
<1> USE DEF vars, apiVars, informer, locals, worker, clusterVars, install, budgets,
            Protocol, OnlyCluster, HoldsFinalizer, KnownUIDs, HeldUID, CachedFinalizer,
            CachedDeletion, SawDeletion, StageBounds
<1>1. ASSUME NEW n \in Names, CreateCR(n) PROVE Protocol'
  BY <1>1 DEF CreateCR, TypeOK, CRs
<1>2. ASSUME NEW n \in Names, EditSpec(n) PROVE Protocol'
  BY <1>2, InPlaceUpdates, SameObjectStep DEF EditSpec
<1>3. ASSUME NEW n \in Names, Annotate(n) PROVE Protocol'
  BY <1>3, InPlaceUpdates, SameObjectStep DEF Annotate
<1>4. ASSUME NEW n \in Names, DeleteCR(n) PROVE Protocol'
  <2>1. CASE cr[n].finalizer
    BY <1>4, <2>1, InPlaceUpdates, SameObjectStep DEF DeleteCR
  <2>2. CASE ~cr[n].finalizer
    BY <1>4, <2>2 DEF DeleteCR, TypeOK
  <2> QED BY <2>1, <2>2
<1>5. ASSUME NEW n \in Names, Deliver(n) PROVE Protocol'
  BY <1>5 DEF Deliver, TypeOK, CRs
<1>6. ASSUME NEW n \in Names, StartReconcile(n) PROVE Protocol'
  BY <1>6 DEF StartReconcile, TypeOK, CRs
<1>7. CASE AddFinalizer
  <2>1. who \in Names /\ cr[who] \in CRs /\ cr[who] # None /\ cr[who] = relocation
    BY <1>7 DEF AddFinalizer, Current, TypeOK
  <2>2. /\ cr'[who] = relocation' /\ relocation'.finalizer
        /\ relocation'.uid = cr[who].uid /\ relocation'.deleting = cr[who].deleting
        /\ \A m \in Names : m # who => cr'[m] = cr[m]
    BY <1>7, <2>1 DEF AddFinalizer, TypeOK, CRs
  <2>3. relocation' # None
    BY <1>7, <2>1 DEF AddFinalizer, TypeOK
  <2>4. UNCHANGED <<uids, cache, who, stage>> /\ pc = "addFinalizer" /\ pc' = "validate"
    BY <1>7 DEF AddFinalizer
  <2> QED BY <2>1, <2>2, <2>3, <2>4
<1>8. CASE UpdateConflict
  BY <1>8 DEF UpdateConflict, Return, TypeOK, CRs
<1>9. CASE AddFinalizerFails
  BY <1>9 DEF AddFinalizerFails, Return, TypeOK, CRs
<1>10. CASE Validate
  BY <1>10 DEF Validate, TypeOK, CRs
<1>11. ASSUME NEW s \in Applied, Apply(s) PROVE Protocol'
  BY <1>11, AdvanceBound DEF Apply, At, Advance, TypeOK, CRs, Applied
<1>12. CASE LookupIP
  BY <1>12, AdvanceBound DEF LookupIP, At, Advance, TypeOK, CRs
<1>13. ASSUME NEW s \in {"IngressCert", "APICert"}, NEW o \in Operators, VerifyCert(s, o)
       PROVE  Protocol'
  BY <1>13, AdvanceBound DEF VerifyCert, At, Advance, TypeOK, CRs
<1>14. ASSUME NEW s \in {"IngressCO", "APICO", "RoutesCO"}, NEW o \in Operators, WaitForCO(s, o)
       PROVE  Protocol'
  BY <1>14, AdvanceBound DEF WaitForCO, At, Advance, TypeOK, CRs
<1>15. CASE ListRoutes
  BY <1>15, AdvanceBound DEF ListRoutes, At, Advance, TypeOK, CRs
<1>16. CASE DeleteRoutes
  BY <1>16, AdvanceBound DEF DeleteRoutes, At, Advance, TypeOK, CRs
<1>17. CASE StageFails
  BY <1>17 DEF StageFails, Return, TypeOK, CRs
<1>18. CASE Succeed
  BY <1>18 DEF Succeed, TypeOK, CRs
<1>19. CASE DeleteSelf
  <2>1. CASE cr' = cr
    BY <1>19, <2>1 DEF DeleteSelf
  <2>2. CASE SameObject(who)
    <3>1. KnownUIDs' /\ CachedFinalizer' /\ CachedDeletion'
      BY <1>19, <2>2, SameObjectStep DEF DeleteSelf, TypeOK
    <3>2. OnlyCluster' /\ HoldsFinalizer' /\ HeldUID' /\ SawDeletion' /\ StageBounds'
      BY <1>19 DEF DeleteSelf
    <3> QED BY <3>1, <3>2
  <2> QED BY <1>19, <2>1, <2>2, InPlaceUpdates
<1>20. CASE UpdateStatus
  <2>1. who \in Names /\ pc' = "idle" /\ relocation' = None /\ stage' = 1
    BY <1>20 DEF UpdateStatus, Return, TypeOK
  <2>2. CASE cr' = cr
    BY <1>20, <2>1, <2>2 DEF UpdateStatus
  <2>3. CASE SameObject(who)
    BY <2>1, <2>3, SameObjectStep
  <2> QED BY <1>20, <2>2, <2>3, InPlaceUpdates
<1>21. CASE DeleteSubscription
  BY <1>21, AdvanceBound, SelfDestructStages DEF DeleteSubscription, At, TypeOK, CRs
<1>22. CASE DeleteCSV
  BY <1>22, AdvanceBound DEF DeleteCSV, At, Advance, TypeOK, CRs
<1>23. CASE RemoveFinalizer
  BY <1>23 DEF RemoveFinalizer, Return, Current, TypeOK, CRs
<1>24. CASE RemoveFinalizerFails
  BY <1>24 DEF RemoveFinalizerFails, Return, TypeOK, CRs
<1>25. ASSUME NEW n \in Names, OrphanDependents(n) PROVE Protocol'
  <2>1. CASE cr[n].finalizer
    BY <1>25, <2>1, InPlaceUpdates, SameObjectStep DEF OrphanDependents
  <2>2. CASE ~cr[n].finalizer
    BY <1>25, <2>2 DEF OrphanDependents, TypeOK
  <2> QED BY <2>1, <2>2
<1>26. CASE StopOperator
  BY <1>26 DEF StopOperator, TypeOK, CRs
<1>27. CASE Restart
  BY <1>27 DEF Restart, TypeOK, CRs
<1>28. CASE UNCHANGED <<cr, uids, cache, pc, who, stage, relocation>>
  BY <1>28
<1> QED
  BY <1>1, <1>2, <1>3, <1>4, <1>5, <1>6, <1>7, <1>8, <1>9, <1>10, <1>11, <1>12, <1>13, <1>14, <1>15, <1>16, <1>17, <1>18, <1>19, <1>20, <1>21, <1>22, <1>23, <1>24, <1>25, <1>26, <1>27, <1>28
     DEF Next, Worker, Failures, Users, Cluster, Rollout, Operators, Enqueue, Observe,
         OperatorStarts, OperatorFinishes, RecreateRoutes, Collect

-----------------------------------------------------------------------------
(* The theorems.                                                           *)

\* The first state satisfies the invariant.
LEMMA InitHolds == Init => TypeOK /\ Protocol /\ Cleanups
<1> SUFFICES ASSUME Init PROVE TypeOK /\ Protocol /\ Cleanups
  OBVIOUS
<1> USE SpecsAssumption, NamesAssumption, NoneAssumption, LaggingAssumption, PipelineLength
<1>1. TypeOK
  BY DEF Init, TypeOK, Conditions, NoConditions, Configs
<1>2. Protocol
  BY DEF Init, Protocol, OnlyCluster, HoldsFinalizer, KnownUIDs, HeldUID, CachedFinalizer,
         CachedDeletion, SawDeletion, StageBounds
<1>3. Cleanups
  BY DEF Init, Cleanups, CleanedSoFar, Unsubscribed, RevertedWhenGone, Reverted, Applied
<1> QED BY <1>1, <1>2, <1>3

\* Type correctness, for any objects, specs, lags and bounds: no step of Reconcile or
\* finalizeRelocation touches an object that is gone or leaves its pipeline.
THEOREM TypeCorrect == Spec => []TypeOK
<1>1. Init => TypeOK /\ Protocol
  BY InitHolds
<1>2. TypeOK /\ Protocol /\ [Next]_vars => (TypeOK /\ Protocol)'
  BY TypeStep, ProtocolStep
<1> QED
  BY <1>1, <1>2, PTL DEF Spec

\* No write of the controller overwrites a user's edit: r.Update and the status update
\* carry the resourceVersion of the copy the pass read, stale or not.
THEOREM EditsNeverLost == Spec => EditsSurvive
<1>1. Init => TypeOK /\ Protocol
  BY InitHolds
<1>2. TypeOK /\ Protocol /\ [Next]_vars => (TypeOK /\ Protocol)'
  BY TypeStep, ProtocolStep
<1>3. TypeOK /\ Protocol /\ [Next]_vars =>
         [\A n \in Names :
             cr[n] # None /\ cr'[n] # None /\ cr'[n].uid = cr[n].uid =>
                /\ cr'[n].generation >= cr[n].generation
                /\ cr'[n].spec # cr[n].spec => cr'[n].generation > cr[n].generation]_cr
  <2> SUFFICES ASSUME TypeOK, Protocol, Next, NEW n \in Names,
                      cr[n] # None, cr'[n] # None
               PROVE  /\ cr'[n].generation >= cr[n].generation
                      /\ cr'[n].spec # cr[n].spec => cr'[n].generation > cr[n].generation
    BY DEF vars, apiVars
  <2> USE DEF apiVars
  <2>1. cr[n] \in CRs /\ cr[n].generation \in Nat
    BY DEF TypeOK, CRs
  <2>2. CASE cr'[n] = cr[n]
    BY <2>1, <2>2
  <2>3. ASSUME NEW m \in Names, SameObject(m)
        PROVE  \/ cr'[n] = cr[n]
               \/ /\ cr'[n].generation >= cr[n].generation
                  /\ cr'[n].spec # cr[n].spec => cr'[n].generation > cr[n].generation
    BY <2>3 DEF SameObject
  <2>4. ASSUME NEW m \in Names, EditSpec(m) \/ Annotate(m) \/ DeleteCR(m) \/ OrphanDependents(m)
        PROVE  cr'[n] = cr[n] \/ SameObject(m)
    <3>1. CASE cr[m].finalizer \/ EditSpec(m) \/ Annotate(m)
      BY <2>4, <3>1, InPlaceUpdates
    <3>2. CASE ~cr[m].finalizer /\ (DeleteCR(m) \/ OrphanDependents(m))
      BY <3>2 DEF DeleteCR, OrphanDependents, TypeOK
    <3> QED BY <2>4, <3>1, <3>2
  <2>5. CASE DeleteSelf \/ UpdateStatus
    BY <2>1, <2>2, <2>3, <2>5, InPlaceUpdates DEF DeleteSelf, UpdateStatus, TypeOK
  <2>6. CASE AddFinalizer
    <3>1. who \in Names /\ cr[who] = relocation /\ relocation \in CRs
      BY <2>6 DEF AddFinalizer, Current, TypeOK
    <3>2. CASE n = who
      BY <2>1, <2>6, <3>1, <3>2 DEF AddFinalizer, TypeOK, CRs
    <3>3. CASE n # who
      BY <2>2, <2>6, <3>1, <3>3 DEF AddFinalizer, TypeOK
    <3> QED BY <3>2, <3>3
  <2>7. CASE RemoveFinalizer
    <3>1. who \in Names /\ cr[who] \in CRs
      BY <2>7 DEF RemoveFinalizer, Current, TypeOK
    <3>2. CASE n = who
      BY <2>1, <2>7, <3>1, <3>2 DEF RemoveFinalizer, TypeOK, CRs
    <3>3. CASE n # who
      BY <2>2, <2>7, <3>1, <3>3 DEF RemoveFinalizer, TypeOK
    <3> QED BY <3>2, <3>3
  <2>8. ASSUME NEW m \in Names, CreateCR(m)
        PROVE  cr'[n] = cr[n]
    BY <2>8 DEF CreateCR, TypeOK
  <2>9. \/ AddFinalizer \/ RemoveFinalizer \/ DeleteSelf \/ UpdateStatus \/ cr' = cr
        \/ \E m \in Names : \/ CreateCR(m) \/ EditSpec(m) \/ Annotate(m) \/ DeleteCR(m)
                             \/ OrphanDependents(m)
    BY DEF Next, Worker, Failures, Users, Cluster, Rollout, Deliver, Enqueue, Observe,
           StartReconcile, UpdateConflict, AddFinalizerFails, Validate, Apply, LookupIP,
           VerifyCert, WaitForCO, ListRoutes, DeleteRoutes, StageFails, Succeed,
           DeleteSubscription, DeleteCSV, RemoveFinalizerFails, OperatorStarts,
           OperatorFinishes, RecreateRoutes, Collect, StopOperator, Restart
  <2> QED
    BY <2>2, <2>3, <2>4, <2>5, <2>6, <2>7, <2>8, <2>9
<1> QED
  BY <1>1, <1>2, <1>3, PTL DEF Spec, EditsSurvive

\* Every step of a controller whose Cleanups are not misled keeps the cleanup invariant.
LEMMA CleanupsStep ==
    TypeOK /\ Protocol /\ Cleanups /\ CleanupsInformed /\ [Next]_vars => Cleanups'
<1> SUFFICES ASSUME TypeOK, Protocol, Cleanups, CleanupsInformed, [Next]_vars PROVE Cleanups'
  OBVIOUS
<1> USE NamesAssumption, NoneAssumption
<1> USE DEF vars, apiVars, informer, locals, worker, clusterVars, install, budgets,
            Cleanups, CleanedSoFar, Unsubscribed, RevertedWhenGone, Reverted
<1>1. ASSUME NEW n \in Names, CreateCR(n) PROVE Cleanups'
  BY <1>1 DEF CreateCR, TypeOK, CRs
<1>2. ASSUME NEW n \in Names, EditSpec(n) PROVE Cleanups'
  BY <1>2 DEF EditSpec, TypeOK, CRs
<1>3. ASSUME NEW n \in Names, Annotate(n) PROVE Cleanups'
  BY <1>3, InPlaceUpdates DEF Annotate, SameObject
<1>4. ASSUME NEW n \in Names, DeleteCR(n) PROVE Cleanups'
  <2>1. cr["cluster"] # None /\ cr["cluster"].finalizer
           => cr'["cluster"] # None /\ cr'["cluster"].finalizer
    BY <1>4, InPlaceUpdates DEF DeleteCR, SameObject, TypeOK
  <2> QED BY <1>4, <2>1 DEF DeleteCR
<1>5. ASSUME NEW n \in Names, Deliver(n) PROVE Cleanups'
  BY <1>5 DEF Deliver, TypeOK, CRs
<1>6. ASSUME NEW n \in Names, StartReconcile(n) PROVE Cleanups'
  BY <1>6 DEF StartReconcile, TypeOK, CRs, Protocol, StageBounds
<1>7. CASE AddFinalizer
  <2>1. /\ pc' = "validate" /\ UNCHANGED <<config, subscription>>
        /\ cr["cluster"] # None /\ cr["cluster"].finalizer
              => cr'["cluster"] # None /\ cr'["cluster"].finalizer
    <3>1. /\ who \in Names /\ cr[who] = relocation /\ relocation \in CRs
          /\ cr' = [cr EXCEPT ![who] = [relocation EXCEPT !.finalizer = TRUE]]
      BY <1>7 DEF AddFinalizer, Current, TypeOK
    <3>2. [relocation EXCEPT !.finalizer = TRUE] \in CRs
      BY <3>1 DEF CRs
    <3>3. CASE who = "cluster"
      BY <1>7, <3>1, <3>2, <3>3 DEF AddFinalizer, TypeOK, CRs
    <3>4. CASE who # "cluster"
      BY <1>7, <3>1, <3>4 DEF AddFinalizer, TypeOK
    <3> QED
      BY <3>3, <3>4
  <2> QED
    BY <2>1
<1>8. CASE UpdateConflict
  BY <1>8 DEF UpdateConflict, Return, TypeOK, CRs
<1>9. CASE AddFinalizerFails
  BY <1>9 DEF AddFinalizerFails, Return, TypeOK, CRs
<1>10. CASE Validate
  BY <1>10 DEF Validate, TypeOK, CRs
<1>11. ASSUME NEW s \in Applied, Apply(s) PROVE Cleanups'
  <2>1. /\ UNCHANGED <<cr, pc, relocation, subscription>> /\ stage' = stage + 1
        /\ At(s) /\ config' = Written(s)
    BY <1>11 DEF Apply, Advance
  <2>2. CASE pc = "reconcile"
    BY <2>1, <2>2 DEF TypeOK, Protocol, OnlyCluster, HoldsFinalizer
  <2>3. CASE pc = "finalize"
    <3>1. config'[s] = Original /\ \A t \in Applied : t # s => config'[t] = config[t]
      BY <2>1, <2>3, LaggingAssumption
         DEF Written, View, Target, At, CleanupsInformed, TypeOK, Applied
    <3>2. \A t \in Applied : config'[t] = config[t] \/ config'[t] = Original
      BY <3>1
    <3>3. RevertedWhenGone'
      BY <2>1, <3>2 DEF Applied
    <3>4. CASE relocation.selfDestruct
      <4>1. stage \in 1..3 /\ SelfDestructPipeline[stage] = s
        BY <2>1, <2>3, <3>4 DEF At, Plan, Protocol, StageBounds, TypeOK
      <4> QED
        BY <4>1, SelfDestructStages DEF Applied
    <3>5. CASE ~relocation.selfDestruct
      <4>1. stage \in 1..12 /\ CleanupPipeline[stage] = s
        BY <2>1, <2>3, <3>5, PipelineLength DEF At, Plan, Protocol, StageBounds, TypeOK
      <4>2. CleanedSoFar'
        BY <2>1, <2>3, <3>1, <3>2, <3>5, <4>1, CleanupStages DEF Applied
      <4> QED
        BY <2>1, <3>3, <3>5, <4>2
    <3> QED
      BY <3>4, <3>5
  <2> QED
    BY <2>1, <2>2, <2>3 DEF At
<1>12. CASE LookupIP
  BY <1>12, CleanupStages, SelfDestructStages DEF LookupIP, At, Advance, TypeOK, CRs, Protocol, StageBounds, Plan
<1>13. ASSUME NEW s \in {"IngressCert", "APICert"}, NEW o \in Operators, VerifyCert(s, o)
       PROVE  Cleanups'
  BY <1>13, CleanupStages, SelfDestructStages DEF VerifyCert, At, Advance, TypeOK, CRs, Protocol, StageBounds, Plan
<1>14. ASSUME NEW s \in {"IngressCO", "APICO", "RoutesCO"}, NEW o \in Operators, WaitForCO(s, o)
       PROVE  Cleanups'
  BY <1>14, CleanupStages, SelfDestructStages DEF WaitForCO, At, Advance, TypeOK, CRs, Protocol, StageBounds, Plan
<1>15. CASE ListRoutes
  BY <1>15, CleanupStages, SelfDestructStages DEF ListRoutes, At, Advance, TypeOK, CRs, Protocol, StageBounds, Plan
<1>16. CASE DeleteRoutes
  BY <1>16, CleanupStages, SelfDestructStages DEF DeleteRoutes, At, Advance, TypeOK, CRs, Protocol, StageBounds, Plan
<1>17. CASE StageFails
  <2>1. /\ UNCHANGED <<cr, subscription>> /\ pc' \in {"updateStatus", "idle"}
        /\ pc \in {"reconcile", "finalize"}
        /\ config' = config \/ \E t \in Applied : config' = Written(t)
    BY <1>17 DEF StageFails, Return
  <2>2. CASE pc = "reconcile"
    BY <2>1, <2>2 DEF TypeOK, Protocol, OnlyCluster, HoldsFinalizer
  <2>3. CASE pc = "finalize"
    <3>1. \A t \in Applied : config'[t] = config[t] \/ config'[t] = Original
      BY <2>1, <2>3 DEF Written, Target, TypeOK
    <3> QED
      BY <2>1, <3>1 DEF Applied
  <2> QED
    BY <2>1, <2>2, <2>3
<1>18. CASE Succeed
  BY <1>18 DEF Succeed, TypeOK, CRs
<1>19. CASE DeleteSelf
  BY <1>19, InPlaceUpdates DEF DeleteSelf, SameObject
<1>20. CASE UpdateStatus
  BY <1>20, InPlaceUpdates DEF UpdateStatus, Return, SameObject
<1>21. CASE DeleteSubscription
  BY <1>21, CleanupStages, SelfDestructStages DEF DeleteSubscription, At, TypeOK, CRs, Protocol, StageBounds, Plan
<1>22. CASE DeleteCSV
  BY <1>22, CleanupStages, SelfDestructStages DEF DeleteCSV, At, Advance, TypeOK, CRs, Protocol, StageBounds, Plan
<1>23. CASE RemoveFinalizer
  <2>1. CASE relocation.selfDestruct
    <3>1. stage > 1
      BY <1>23, <2>1, SelfDestructStages DEF RemoveFinalizer, Plan, TypeOK
    <3> QED
      BY <1>23, <2>1, <3>1 DEF RemoveFinalizer, Return
  <2>2. CASE ~relocation.selfDestruct
    <3>1. stage = 12
      BY <1>23, <2>2, CleanupStages, PipelineLength DEF RemoveFinalizer, Plan, TypeOK, Protocol, StageBounds
    <3> QED
      BY <1>23, <2>2, <3>1 DEF RemoveFinalizer, Return
  <2> QED BY <2>1, <2>2
<1>24. CASE RemoveFinalizerFails
  BY <1>24 DEF RemoveFinalizerFails, Return, TypeOK, CRs
<1>25. ASSUME NEW n \in Names, OrphanDependents(n) PROVE Cleanups'
  <2>1. cr["cluster"] # None /\ cr["cluster"].finalizer
           => cr'["cluster"] # None /\ cr'["cluster"].finalizer
    BY <1>25, InPlaceUpdates DEF OrphanDependents, SameObject, TypeOK
  <2> QED BY <1>25, <2>1 DEF OrphanDependents
<1>26. CASE StopOperator
  BY <1>26 DEF StopOperator, TypeOK, CRs
<1>27. CASE Restart
  BY <1>27 DEF Restart, TypeOK, CRs
<1>28. CASE UNCHANGED <<cr, pc, stage, relocation, config, subscription>>
  BY <1>28
<1> QED
  BY <1>1, <1>2, <1>3, <1>4, <1>5, <1>6, <1>7, <1>8, <1>9, <1>10, <1>11, <1>12, <1>13, <1>14, <1>15, <1>16, <1>17, <1>18, <1>19, <1>20, <1>21, <1>22, <1>23, <1>24, <1>25, <1>26, <1>27, <1>28
     DEF Next, Worker, Failures, Users, Cluster, Rollout, Operators, Enqueue, Observe,
         OperatorStarts, OperatorFinishes, RecreateRoutes, Collect

\* Deleting the ClusterRelocation reverts what finalizeRelocation is responsible for: in
\* every run in which no Cleanup takes a copy from before the relocation for the patched
\* object, no order of edits, deletions, failures, restarts and stale copies of the
\* ClusterRelocation lets the finalizer go while the pull secret, registry, ingress or API
\* server configuration differs from the original, short of a self-destruction.
THEOREM Reverts == Spec /\ []CleanupsInformed => []RevertedWhenGone
<1> DEFINE IInv == TypeOK /\ Protocol /\ Cleanups
<1>1. Init => IInv
  BY InitHolds
<1>2. IInv /\ CleanupsInformed /\ [Next]_vars => IInv'
  BY TypeStep, ProtocolStep, CleanupsStep
<1>3. IInv => RevertedWhenGone
  BY DEF Cleanups
<1> QED
  BY <1>1, <1>2, <1>3, PTL DEF Spec

-----------------------------------------------------------------------------
(* What the protocol adds about the copies of an object.                   *)

\* The status never speaks of a generation that is yet to come.
Observed(status, generation) ==
    status.reconciled # None => status.reconciled.observedGeneration <= generation

\* An older version of an object: generations grow, and with them the spec changes; the
\* annotation stays.
Older(c, d) ==
    c # None /\ d # None /\ c.uid = d.uid =>
        /\ c.generation <= d.generation
        /\ c.generation = d.generation => c.spec = d.spec
        /\ c.selfDestruct => d.selfDestruct

\* The objects and the informer's copies of them.
CopiesOlder ==
    \A n \in Names :
        /\ cr[n] # None => Observed(cr[n].status, cr[n].generation)
                           /\ (cr[n].orphan => cr[n].deleting)
        /\ cache[n] # None => Observed(cache[n].status, cache[n].generation)
        /\ Older(cache[n], cr[n])

\* The copy of the pass.
HeldOlder ==
    pc # "idle" => /\ Observed(relocation.status, relocation.generation)
                   /\ Observed(conditions, relocation.generation)
                   /\ Older(relocation, cr[who])

\* A pass that is to add the finalizer has read an object without it, and is
\* refused unless the informer, too, has the last version.
Adopting ==
    pc = "addFinalizer" => /\ ~relocation.finalizer /\ ~relocation.deleting
                           /\ Current => cache[who] = relocation

\* A pass that reports works for an object whose deletion it has not seen.
NotDeleted == pc \in {"validate", "reconcile", "delete", "updateStatus"} => ~relocation.deleting

Copies == CopiesOlder /\ HeldOlder /\ Adopting /\ NotDeleted

-----------------------------------------------------------------------------
\* There is no copy at first.
LEMMA CopiesInit == Init => Copies
BY DEF Init, Copies, CopiesOlder, Older, HeldOlder, Adopting, NotDeleted

\* The conditions a pass sets speak of the generation it has read.
LEMMA ConditionsObserved ==
    ASSUME TypeOK, relocation \in CRs, Observed(conditions, relocation.generation)
    PROVE  /\ \A ok \in BOOLEAN : Observed(SetReconciled(ok), relocation.generation)
           /\ \A ok \in BOOLEAN, r \in {"Unknown", "False", "True"} :
                 Observed([SetReconciled(ok) EXCEPT !.ready = r], relocation.generation)
           /\ \A r \in {"Unknown", "False", "True"} :
                 Observed([conditions EXCEPT !.ready = r], relocation.generation)
<1>1. relocation.generation \in Nat
  BY DEF CRs
<1>2. ASSUME NEW ok \in BOOLEAN
      PROVE  SetReconciled(ok).reconciled.observedGeneration = relocation.generation
  BY DEF SetReconciled, TypeOK, Conditions
<1>3. ASSUME NEW ok \in BOOLEAN, NEW r \in {"Unknown", "False", "True"}
      PROVE  [SetReconciled(ok) EXCEPT !.ready = r].reconciled = SetReconciled(ok).reconciled
  BY DEF SetReconciled, TypeOK, Conditions
<1>4. ASSUME NEW r \in {"Unknown", "False", "True"}
      PROVE  [conditions EXCEPT !.ready = r].reconciled = conditions.reconciled
  BY DEF TypeOK, Conditions
<1> QED
  BY <1>1, <1>2, <1>3, <1>4 DEF Observed

\* A step that only moves the pass on.
LEMMA CopiesMoved ==
    ASSUME TypeOK, Copies, UNCHANGED <<cr, cache, who, relocation>>, pc \notin {"idle", "addFinalizer"},
           pc' \in {pc, "reconcile", "delete", "updateStatus"},
           pc' # pc => pc # "finalize",
           Observed(conditions', relocation.generation)
    PROVE  Copies'
BY DEF TypeOK, Copies, CopiesOlder, HeldOlder, Older, Observed, Adopting, NotDeleted, Current

\* An update of an object in place makes a version the pass cannot hold.
LEMMA CopiesUpdated ==
    ASSUME TypeOK, Copies, NEW n \in Names, cr[n] \in CRs, cr'[n] \in CRs,
           UNCHANGED <<cache, pc, who, relocation, conditions>>,
           \A m \in Names : m # n => cr'[m] = cr[m],
           cr'[n].uid = cr[n].uid, cr'[n].status = cr[n].status,
           cr[n].generation <= cr'[n].generation,
           cr[n].generation = cr'[n].generation => cr[n].spec = cr'[n].spec,
           cr[n].selfDestruct => cr'[n].selfDestruct,
           cr'[n].orphan => cr'[n].deleting,
           \/ cr[n].generation < cr'[n].generation
           \/ ~cr[n].selfDestruct /\ cr'[n].selfDestruct
           \/ cr'[n].deleting
    PROVE  Copies'
<1> USE NoneAssumption
<1>1. cr[n] # None /\ cr'[n] # None
  OBVIOUS
<1>2. \A c \in CRs : Older(c, cr[n]) => Older(c, cr'[n])
  BY <1>1 DEF Older, CRs
<1>3. cr'[n].status = cr[n].status /\ Observed(cr[n].status, cr[n].generation)
      => Observed(cr'[n].status, cr'[n].generation)
  BY DEF Observed, CRs, Conditions
<1>4. CopiesOlder'
  <2>1. ASSUME NEW m \in Names, m # n
        PROVE  /\ cr'[m] # None => Observed(cr'[m].status, cr'[m].generation)
                                   /\ (cr'[m].orphan => cr'[m].deleting)
               /\ cache'[m] # None => Observed(cache'[m].status, cache'[m].generation)
               /\ Older(cache'[m], cr'[m])
    BY <2>1 DEF Copies, CopiesOlder
  <2>2. /\ Observed(cr'[n].status, cr'[n].generation)
        /\ cache'[n] # None => Observed(cache'[n].status, cache'[n].generation)
    BY <1>1, <1>3 DEF Copies, CopiesOlder
  <2>3. Older(cache'[n], cr'[n])
    BY <1>1, <1>2 DEF Copies, CopiesOlder, TypeOK, Older
  <2> QED
    BY <2>1, <2>2, <2>3 DEF CopiesOlder
<1>5. HeldOlder'
  <2>1. pc # "idle" => relocation \in CRs /\ who \in Names
    BY DEF TypeOK
  <2> QED
    BY <1>2, <2>1 DEF Copies, HeldOlder
<1>6. Adopting'
  <2> SUFFICES ASSUME pc = "addFinalizer"
               PROVE  /\ ~relocation.finalizer /\ ~relocation.deleting
                      /\ cr'[who] = relocation => cache[who] = relocation
    BY DEF Adopting, Current
  <2>1. relocation \in CRs /\ ~relocation.finalizer /\ ~relocation.deleting
        /\ (cr[who] = relocation => cache[who] = relocation) /\ Older(relocation, cr[who])
    BY DEF TypeOK, Copies, Adopting, HeldOlder, Current
  <2>2. CASE who = n
    BY <1>1, <2>1, <2>2 DEF Older, CRs
  <2>3. CASE who # n
    BY <2>1, <2>3 DEF TypeOK
  <2> QED
    BY <2>1, <2>2, <2>3
<1>7. NotDeleted'
  BY DEF Copies, NotDeleted
<1> QED
  BY <1>4, <1>5, <1>6, <1>7 DEF Copies

\* A pass that is over.
LEMMA CopiesReturned ==
    ASSUME CopiesOlder', pc' = "idle"
    PROVE  Copies'
BY DEF Copies, HeldOlder, Adopting, NotDeleted

\* Every step keeps the copies older.
LEMMA CopiesStep == TypeOK /\ TypeOK' /\ Protocol /\ Copies /\ [Next]_vars => Copies'
<1> SUFFICES ASSUME TypeOK, TypeOK', Protocol, Copies, [Next]_vars PROVE Copies'
  OBVIOUS
<1> USE NamesAssumption, NoneAssumption
<1> USE DEF vars, apiVars, informer, locals, worker, clusterVars, install, budgets
<1>0. /\ CopiesOlder /\ HeldOlder /\ Adopting /\ NotDeleted
      /\ pc # "idle" => who \in Names /\ relocation \in CRs /\ relocation # None
                        /\ Observed(conditions, relocation.generation)
  BY DEF Copies, HeldOlder, TypeOK
<1>1. ASSUME NEW n \in Names, CreateCR(n) PROVE Copies'
  BY <1>0, <1>1 DEF CreateCR, TypeOK, CRs, NoConditions, Protocol, KnownUIDs, HeldUID, Copies,
     CopiesOlder, HeldOlder, Older, Observed, Adopting, NotDeleted, Current
<1>2. ASSUME NEW n \in Names, EditSpec(n) PROVE Copies'
  <2>1. cr[n] \in CRs /\ cr'[n] \in CRs
    BY <1>2 DEF EditSpec, TypeOK, CRs
  <2>2. /\ cr'[n].uid = cr[n].uid /\ cr'[n].status = cr[n].status
        /\ cr'[n].generation = cr[n].generation + 1
        /\ cr'[n].selfDestruct = cr[n].selfDestruct
        /\ cr'[n].orphan = cr[n].orphan /\ cr'[n].deleting = cr[n].deleting
        /\ \A m \in Names : m # n => cr'[m] = cr[m]
    BY <1>2, <2>1 DEF EditSpec, TypeOK, CRs
  <2>3. /\ cr[n].generation < cr'[n].generation /\ cr[n].generation <= cr'[n].generation
        /\ cr[n].generation # cr'[n].generation
    BY <2>1, <2>2 DEF CRs
  <2>4. (cr[n].orphan => cr[n].deleting) /\ UNCHANGED <<cache, pc, who, relocation, conditions>>
    BY <1>0, <1>2 DEF EditSpec, CopiesOlder
  <2> QED
    BY <2>1, <2>2, <2>3, <2>4, CopiesUpdated
<1>3. ASSUME NEW n \in Names, Annotate(n) PROVE Copies'
  <2>1. cr[n] \in CRs /\ cr'[n] \in CRs
    BY <1>3, FieldUpdates DEF Annotate, TypeOK
  <2>2. /\ cr'[n].uid = cr[n].uid /\ cr'[n].status = cr[n].status
        /\ cr'[n].generation = cr[n].generation /\ cr'[n].selfDestruct
        /\ cr'[n].spec = cr[n].spec
        /\ cr'[n].orphan = cr[n].orphan /\ cr'[n].deleting = cr[n].deleting
        /\ \A m \in Names : m # n => cr'[m] = cr[m]
    BY <1>3, <2>1 DEF Annotate, TypeOK, CRs
  <2>3. cr[n].generation <= cr'[n].generation
    BY <2>1, <2>2 DEF CRs
  <2>4. /\ cr[n].orphan => cr[n].deleting
        /\ ~cr[n].selfDestruct /\ UNCHANGED <<cache, pc, who, relocation, conditions>>
    BY <1>0, <1>3 DEF Annotate, CopiesOlder
  <2> QED
    BY <2>1, <2>2, <2>3, <2>4, CopiesUpdated
<1>4. ASSUME NEW n \in Names, DeleteCR(n) PROVE Copies'
  BY <1>0, <1>4 DEF DeleteCR, TypeOK, CRs, Copies,
     CopiesOlder, HeldOlder, Older, Observed, Adopting, NotDeleted, Current
<1>5. ASSUME NEW n \in Names, Deliver(n) PROVE Copies'
  BY <1>0, <1>5 DEF Deliver, TypeOK, CRs, Copies,
     CopiesOlder, HeldOlder, Older, Observed, Adopting, NotDeleted, Current
<1>6. ASSUME NEW n \in Names, StartReconcile(n) PROVE Copies'
  BY <1>0, <1>6 DEF StartReconcile, TypeOK, CRs, Copies,
     CopiesOlder, HeldOlder, Older, Observed, Adopting, NotDeleted, Current
<1>7. CASE AddFinalizer
  BY <1>0, <1>7 DEF AddFinalizer, TypeOK, CRs, Copies,
     CopiesOlder, HeldOlder, Older, Observed, Adopting, NotDeleted, Current
<1>8. CASE UpdateConflict \/ AddFinalizerFails \/ RemoveFinalizerFails
  BY <1>0, <1>8, CopiesReturned DEF UpdateConflict, AddFinalizerFails, RemoveFinalizerFails,
     Return, CopiesOlder, Older
<1>9. CASE Validate
  BY <1>0, <1>9, ConditionsObserved, CopiesMoved DEF Validate
<1>10. ASSUME NEW s, NEW o,
              \/ Apply(s) \/ LookupIP \/ ListRoutes \/ DeleteRoutes \/ VerifyCert(s, o)
              \/ WaitForCO(s, o) \/ DeleteSubscription \/ DeleteCSV
       PROVE  Copies'
  BY <1>0, <1>10, CopiesMoved DEF Apply, LookupIP, ListRoutes, DeleteRoutes, VerifyCert,
     WaitForCO, DeleteSubscription, DeleteCSV, At, Advance
<1>11. CASE StageFails
  <2>1. CASE pc = "reconcile"
    BY <1>0, <1>11, <2>1, ConditionsObserved, CopiesMoved DEF StageFails
  <2>2. CASE pc # "reconcile"
    BY <1>0, <1>11, <2>2, CopiesReturned DEF StageFails, Return, CopiesOlder, Older
  <2> QED
    BY <2>1, <2>2
<1>12. CASE Succeed
  BY <1>0, <1>12, ConditionsObserved, CopiesMoved DEF Succeed
<1>13. CASE DeleteSelf
  <2>1. CASE cr' = cr
    BY <1>0, <1>13, <2>1, CopiesMoved DEF DeleteSelf
  <2>2. CASE cr' # cr
    <3>1. cr[who] \in CRs /\ who \in Names
      BY <1>13 DEF DeleteSelf, TypeOK, Protocol, HoldsFinalizer
    <3>2. cr'[who] = [cr[who] EXCEPT !.deleting = TRUE, !.orphan = TRUE]
          /\ \A m \in Names : m # who => cr'[m] = cr[m]
      BY <1>13, <2>2, <3>1 DEF DeleteSelf, TypeOK
    <3>3. cr'[who] \in CRs
      BY <3>1, <3>2, FieldUpdates
    <3>4. /\ cr'[who].uid = cr[who].uid /\ cr'[who].status = cr[who].status
          /\ cr'[who].generation = cr[who].generation /\ cr'[who].spec = cr[who].spec
          /\ cr'[who].selfDestruct = cr[who].selfDestruct /\ cr'[who].deleting
      BY <3>1, <3>2 DEF CRs
    <3>5. UNCHANGED <<cache, who, relocation, conditions>> /\ pc = "delete" /\ pc' = "updateStatus"
      BY <1>13 DEF DeleteSelf
    <3>6. CopiesOlder'
      <4>1. ASSUME NEW m \in Names
            PROVE  /\ cr'[m] # None => Observed(cr'[m].status, cr'[m].generation)
                                       /\ (cr'[m].orphan => cr'[m].deleting)
                   /\ cache'[m] # None => Observed(cache'[m].status, cache'[m].generation)
                   /\ Older(cache'[m], cr'[m])
        <5>1. CASE m # who
          BY <1>0, <3>2, <3>5, <5>1 DEF CopiesOlder
        <5>2. CASE m = who
          <6>1. cr'[m].deleting /\ Observed(cr'[m].status, cr'[m].generation)
            BY <1>0, <3>1, <3>4, <5>2 DEF CopiesOlder
          <6>2. Older(cache[m], cr'[m])
            BY <1>0, <3>1, <3>3, <3>4, <5>2 DEF CopiesOlder, Older
          <6> QED
            BY <1>0, <3>5, <6>1, <6>2 DEF CopiesOlder
        <5> QED
          BY <5>1, <5>2
      <4> QED
        BY <4>1 DEF CopiesOlder
    <3>7. HeldOlder'
      BY <1>0, <3>1, <3>3, <3>4, <3>5 DEF HeldOlder, Older
    <3> QED
      BY <1>0, <3>5, <3>6, <3>7 DEF Copies, Adopting, NotDeleted
  <2> QED
    BY <2>1, <2>2
<1>14. CASE UpdateStatus
  <2>1. CASE cr' = cr
    BY <1>0, <1>14, <2>1, CopiesReturned DEF UpdateStatus, Return, CopiesOlder, Older
  <2>2. CASE cr' # cr
    <3>1. /\ who \in Names /\ cr[who] = relocation /\ relocation \in CRs
          /\ cr' = [cr EXCEPT ![who].status = conditions] /\ pc' = "idle" /\ UNCHANGED cache
      BY <1>14, <2>2 DEF UpdateStatus, Return, Current, TypeOK
    <3>2. /\ cr'[who] = [cr[who] EXCEPT !.status = conditions]
          /\ \A m \in Names : m # who => cr'[m] = cr[m]
      BY <3>1 DEF TypeOK
    <3>3. /\ cr'[who].status = conditions /\ cr'[who].uid = cr[who].uid
          /\ cr'[who].generation = cr[who].generation /\ cr'[who].spec = cr[who].spec
          /\ cr'[who].orphan = cr[who].orphan /\ cr'[who].deleting = cr[who].deleting
          /\ cr'[who].selfDestruct = cr[who].selfDestruct
      BY <3>1, <3>2 DEF CRs
    <3>4. ASSUME NEW m \in Names
          PROVE  /\ cr'[m] # None => Observed(cr'[m].status, cr'[m].generation)
                                     /\ (cr'[m].orphan => cr'[m].deleting)
                 /\ cache'[m] # None => Observed(cache'[m].status, cache'[m].generation)
                 /\ Older(cache'[m], cr'[m])
      BY <1>0, <1>14, <3>1, <3>2, <3>3 DEF UpdateStatus, CopiesOlder, Older
    <3> QED
      BY <3>1, <3>4, CopiesReturned DEF CopiesOlder
  <2> QED
    BY <2>1, <2>2
<1>15. CASE RemoveFinalizer
  <2>1. CopiesOlder'
    BY <1>0, <1>15 DEF RemoveFinalizer, TypeOK, CRs, CopiesOlder, Older, Observed, Current
  <2> QED
    BY <1>15, <2>1, CopiesReturned DEF RemoveFinalizer, Return
<1>16. ASSUME NEW n \in Names, OrphanDependents(n) PROVE Copies'
  <2>1. CASE cr[n].finalizer
    <3>1. cr[n] \in CRs /\ cr'[n] \in CRs
      BY <1>16, <2>1, FieldUpdates DEF OrphanDependents, TypeOK
    <3>2. /\ cr'[n].uid = cr[n].uid /\ cr'[n].status = cr[n].status
          /\ cr'[n].generation = cr[n].generation /\ cr'[n].spec = cr[n].spec
          /\ cr'[n].selfDestruct = cr[n].selfDestruct
          /\ ~cr'[n].orphan /\ cr'[n].deleting = cr[n].deleting
          /\ \A m \in Names : m # n => cr'[m] = cr[m]
      BY <1>16, <2>1, <3>1 DEF OrphanDependents, TypeOK, CRs
    <3>3. cr[n].generation <= cr'[n].generation
      BY <3>1, <3>2 DEF CRs
    <3>4. cr[n].deleting /\ UNCHANGED <<cache, pc, who, relocation, conditions>>
      BY <1>0, <1>16 DEF OrphanDependents, CopiesOlder
    <3> QED
      BY <3>1, <3>2, <3>3, <3>4, CopiesUpdated
  <2>2. CASE ~cr[n].finalizer
    BY <1>0, <1>16, <2>2 DEF OrphanDependents, TypeOK, Copies,
       CopiesOlder, HeldOlder, Older, Adopting, NotDeleted, Current
  <2> QED
    BY <2>1, <2>2
<1>17. CASE StopOperator \/ Restart
  BY <1>0, <1>17, CopiesReturned DEF StopOperator, Restart, TypeOK, CRs, CopiesOlder, Older
<1>18. CASE UNCHANGED <<cr, cache, pc, who, relocation, conditions>>
  BY <1>0, <1>18 DEF Copies,
     CopiesOlder, HeldOlder, Older, Observed, Adopting, NotDeleted, Current
<1> QED
  BY <1>1, <1>2, <1>3, <1>4, <1>5, <1>6, <1>7, <1>8, <1>9, <1>10, <1>11, <1>12, <1>13,
     <1>14, <1>15, <1>16, <1>17, <1>18
     DEF Next, Worker, Failures, Users, Cluster, Rollout, Operators, Enqueue, Observe,
         OperatorStarts, OperatorFinishes, RecreateRoutes, Collect

-----------------------------------------------------------------------------
(* The Secrets the configuration names.                                    *)

\* As long as the operator is installed a serving Secret in use is orphaned or has an owner
\* that keeps it: the object in the way of whose removal stands the finalizer.
SecretsHeld ==
    subscription =>
        \A s \in Serving : config[s] # Original =>
            /\ cr["cluster"] # None /\ cr["cluster"].finalizer
            /\ secrets[s] \in {cr["cluster"].uid, 0}

\* Only the finalizer lets go of the object, and by then it has reverted or uninstalled.
LEMMA SecretsStep ==
    TypeOK /\ Protocol /\ Cleanups /\ SecretsHeld /\ [Next]_vars => SecretsHeld'
<1> SUFFICES ASSUME TypeOK, Protocol, Cleanups, SecretsHeld, [Next]_vars
             PROVE  SecretsHeld'
  OBVIOUS
<1> USE NamesAssumption, NoneAssumption
<1> USE DEF vars, apiVars, informer, locals, worker, clusterVars, install, budgets
<1> DEFINE c == cr["cluster"]
<1>1. SUFFICES ASSUME NEW s \in Serving, config'[s] # Original, subscription'
               PROVE  /\ c' # None /\ c'.finalizer
                      /\ secrets'[s] \in {c'.uid, 0}
  BY DEF SecretsHeld
<1>0. subscription
  BY <1>1 DEF Next, Worker, Failures, Users, Cluster, Rollout, CreateCR, EditSpec, Annotate,
      DeleteCR, Deliver, Enqueue, Observe, StartReconcile, AddFinalizer, UpdateConflict,
      AddFinalizerFails, Validate, Apply, LookupIP, VerifyCert, WaitForCO, ListRoutes,
      DeleteRoutes, StageFails, Succeed, DeleteSelf, UpdateStatus, DeleteSubscription,
      DeleteCSV, RemoveFinalizer, RemoveFinalizerFails, OperatorStarts, OperatorFinishes,
      RecreateRoutes, Collect, OrphanDependents, StopOperator, Restart
<1>2. /\ "cluster" \in Names /\ (c # None => c \in CRs)
      /\ config[s] # Original => c # None /\ c.finalizer /\ secrets[s] \in {c.uid, 0}
  BY <1>0 DEF SecretsHeld, TypeOK
<1>3. ASSUME UNCHANGED <<config, secrets>>, cr' = cr \/ \E n \in Names : SameObject(n)
      PROVE  c' # None /\ c'.finalizer /\ secrets'[s] \in {c'.uid, 0}
  BY <1>1, <1>2, <1>3 DEF SameObject
<1>4. ASSUME NEW n \in Names, CreateCR(n)
      PROVE  c' # None /\ c'.finalizer /\ secrets'[s] \in {c'.uid, 0}
  BY <1>1, <1>2, <1>4 DEF CreateCR, TypeOK
<1>5. ASSUME NEW n \in Names, EditSpec(n) \/ Annotate(n)
      PROVE  c' # None /\ c'.finalizer /\ secrets'[s] \in {c'.uid, 0}
  BY <1>3, <1>5, InPlaceUpdates DEF EditSpec, Annotate
<1>6. ASSUME NEW n \in Names, DeleteCR(n)
      PROVE  c' # None /\ c'.finalizer /\ secrets'[s] \in {c'.uid, 0}
  <2>1. CASE cr[n].finalizer
    BY <1>3, <1>6, <2>1, InPlaceUpdates DEF DeleteCR
  <2>2. CASE ~cr[n].finalizer
    BY <1>1, <1>2, <1>6, <2>2 DEF DeleteCR, TypeOK
  <2> QED
    BY <2>1, <2>2
<1>7. CASE AddFinalizer
  <2>1. /\ UNCHANGED <<config, secrets>> /\ who \in Names
        /\ cr[who] = relocation /\ relocation \in CRs
        /\ cr' = [cr EXCEPT ![who] = [relocation EXCEPT !.finalizer = TRUE]]
    BY <1>7 DEF AddFinalizer, Current, TypeOK
  <2>2. c # None /\ c \in CRs /\ c.finalizer /\ secrets'[s] \in {c.uid, 0}
    BY <1>1, <1>2, <2>1
  <2>3. CASE who = "cluster"
    <3>1. c' = [c EXCEPT !.finalizer = TRUE]
      BY <1>2, <2>1, <2>3 DEF TypeOK
    <3>2. c' \in CRs /\ c'.finalizer /\ c'.uid = c.uid
      BY <2>2, <3>1 DEF CRs
    <3> QED
      BY <2>2, <3>2
  <2>4. CASE who # "cluster"
    <3>1. c' = c
      BY <1>2, <2>1, <2>4 DEF TypeOK
    <3> QED
      BY <2>2, <3>1
  <2> QED
    BY <2>3, <2>4
<1>8. ASSUME NEW t \in Applied, Apply(t)
      PROVE  c' # None /\ c'.finalizer /\ secrets'[s] \in {c'.uid, 0}
  <2>1. CASE pc = "reconcile"
    <3>1. c # None /\ c.finalizer /\ c.uid = relocation.uid
      BY <2>1 DEF Protocol, OnlyCluster, HoldsFinalizer
    <3>2. config'[s] = config[s] \/ (t = s /\ t \in Serving)
      BY <1>8 DEF Apply, Written, TypeOK
    <3>3. secrets' = IF t \in Serving THEN [secrets EXCEPT ![t] = relocation.uid] ELSE secrets
      BY <1>8, <2>1 DEF Apply
    <3>4. secrets'[s] \in {c.uid, 0}
      BY <1>1, <1>2, <3>1, <3>2, <3>3 DEF TypeOK
    <3> QED
      BY <1>8, <3>1, <3>4 DEF Apply
  <2>2. CASE pc # "reconcile"
    <3>1. config'[s] = config[s] \/ config'[s] = Original
      BY <1>8, <2>2 DEF Apply, Written, Target, TypeOK
    <3> QED
      BY <1>1, <1>2, <1>8, <2>2, <3>1 DEF Apply
  <2> QED
    BY <2>1, <2>2
<1>9. CASE StageFails
  <2>0. cr' = cr
    BY <1>9 DEF StageFails
  <2>1. CASE pc = "reconcile"
    <3>1. c # None /\ c.finalizer /\ c.uid = relocation.uid
      BY <2>1 DEF Protocol, OnlyCluster, HoldsFinalizer
    <3>2. \/ UNCHANGED <<config, secrets>>
          \/ UNCHANGED config /\ \E t \in Serving : secrets' = [secrets EXCEPT ![t] = relocation.uid]
          \/ \E t \in Applied :
                /\ config' = Written(t)
                /\ secrets' = IF t \in Serving THEN [secrets EXCEPT ![t] = relocation.uid]
                              ELSE secrets
      BY <1>9, <2>1 DEF StageFails
    <3>3. secrets'[s] \in {c.uid, 0}
      <4>1. CASE UNCHANGED <<config, secrets>>
        BY <1>1, <1>2, <4>1
      <4>2. ASSUME NEW t \in Serving, UNCHANGED config,
                   secrets' = [secrets EXCEPT ![t] = relocation.uid]
            PROVE  secrets'[s] \in {c.uid, 0}
        BY <1>1, <1>2, <3>1, <4>2 DEF TypeOK
      <4>3. ASSUME NEW t \in Applied, config' = Written(t),
                   secrets' = IF t \in Serving THEN [secrets EXCEPT ![t] = relocation.uid]
                              ELSE secrets
            PROVE  secrets'[s] \in {c.uid, 0}
        <5>1. config'[s] = config[s] \/ t = s
          BY <4>3 DEF Written, TypeOK
        <5> QED
          BY <1>1, <1>2, <3>1, <4>3, <5>1 DEF TypeOK
      <4> QED
        BY <3>2, <4>1, <4>2, <4>3
    <3> QED
      BY <2>0, <3>1, <3>3
  <2>2. CASE pc # "reconcile"
    <3>0. secrets' = secrets /\ (config' = config \/ \E t \in Applied : config' = Written(t))
      BY <1>9, <2>2 DEF StageFails
    <3>1. config'[s] = config[s] \/ config'[s] = Original
      <4>1. ASSUME NEW t \in Applied
            PROVE  Written(t)[s] = config[s] \/ Written(t)[s] = Original
        BY <2>2, <4>1 DEF Written, Target, TypeOK, Serving, Applied
      <4> QED
        BY <3>0, <4>1
    <3> QED
      BY <1>1, <1>2, <2>0, <3>0, <3>1
  <2> QED
    BY <2>1, <2>2
<1>11. CASE DeleteSelf \/ UpdateStatus
  <2>1. cr' = cr \/ SameObject(who)
    BY <1>11, InPlaceUpdates
  <2>2. who \in Names /\ UNCHANGED <<config, secrets>>
    BY <1>11 DEF DeleteSelf, UpdateStatus, TypeOK
  <2> QED
    BY <1>3, <2>1, <2>2
<1>12. CASE RemoveFinalizer
  <2>1. UNCHANGED <<config, secrets>> /\ pc = "finalize" /\ who \in Names
        /\ \A n \in Names : n # who => cr'[n] = cr[n]
    BY <1>12 DEF RemoveFinalizer, TypeOK
  <2>0. ~relocation.selfDestruct
    <3> SUFFICES ASSUME relocation.selfDestruct PROVE FALSE
      BY <2>1 DEF TypeOK, CRs
    <3>1. stage # 1
      BY <1>12, SelfDestructStages DEF RemoveFinalizer, Plan
    <3>2. stage > 1
      BY <3>1 DEF TypeOK
    <3> QED
      BY <1>0, <2>1, <3>2 DEF Cleanups, Unsubscribed
  <2>2. stage = 12
    <3>1. stage \in 1..18 /\ stage <= 12
      BY <2>0, <2>1, PipelineLength DEF TypeOK, Protocol, StageBounds
    <3>2. stage \in 1..12
      BY <3>1
    <3>3. CleanupPipeline[stage] = "Done"
      BY <1>12, <2>0 DEF RemoveFinalizer, Plan
    <3> QED
      BY <3>2, <3>3, CleanupStages
  <2>3. \A t \in Serving : config[t] = Original
    BY <2>0, <2>1, <2>2 DEF Cleanups, CleanedSoFar, Serving
  <2> QED
    BY <1>1, <2>1, <2>3
<1>13. ASSUME NEW t \in Serving, Collect(t)
       PROVE  c' # None /\ c'.finalizer /\ secrets'[s] \in {c'.uid, 0}
  BY <1>1, <1>2, <1>13 DEF Collect, TypeOK
<1>14. ASSUME NEW n \in Names, OrphanDependents(n)
       PROVE  c' # None /\ c'.finalizer /\ secrets'[s] \in {c'.uid, 0}
  <2>1. /\ config' = config
        /\ secrets'[s] \in {secrets[s], 0}
    BY <1>14 DEF OrphanDependents
  <2>2. c # None /\ c.finalizer /\ secrets[s] \in {c.uid, 0}
    BY <1>1, <1>2, <2>1
  <2>3. CASE cr[n].finalizer
    BY <1>14, <2>1, <2>2, <2>3, InPlaceUpdates DEF SameObject
  <2>4. CASE ~cr[n].finalizer
    BY <1>14, <2>1, <2>2, <2>4 DEF OrphanDependents, TypeOK
  <2> QED
    BY <2>3, <2>4
<1>15. CASE UNCHANGED <<cr, config, secrets>>
  BY <1>3, <1>15
<1> QED
  BY <1>4, <1>5, <1>6, <1>7, <1>8, <1>9, <1>11, <1>12, <1>13, <1>14, <1>15
     DEF Next, Worker, Failures, Users, Cluster, Rollout, Deliver, Enqueue, Observe,
         StartReconcile, UpdateConflict, AddFinalizerFails, RemoveFinalizerFails, Validate,
         LookupIP, VerifyCert, WaitForCO, ListRoutes, DeleteRoutes, Succeed,
         DeleteSubscription, DeleteCSV, OperatorStarts, OperatorFinishes, RecreateRoutes,
         StopOperator, Restart

\* As long as the operator is installed the ingress controller and the API server never
\* name a certificate Secret that was collected with an owner: for all names, and whatever
\* users create, annotate, edit and delete and whichever calls fail. Not after a
\* re-creation, when the Secret of the earlier object is taken over; not when the object
\* goes while a pass works from an old copy; and not when a self-destruction orphans its
\* Secrets. The condition is what the informers of CreateOrPatch owe to a Cleanup.
THEOREM SecretsKept == Spec /\ []CleanupsInformed => []NoDanglingWhileInstalled
<1> DEFINE IInv == TypeOK /\ Protocol /\ Cleanups /\ SecretsHeld
<1>1. Init => IInv
  BY InitHolds DEF Init, SecretsHeld, Serving, Applied
<1>2. IInv /\ CleanupsInformed /\ [Next]_vars => IInv'
  BY TypeStep, ProtocolStep, CleanupsStep, SecretsStep
<1>3. IInv => NoDanglingWhileInstalled
  BY NoneAssumption, NamesAssumption DEF SecretsHeld, NoDanglingWhileInstalled, TypeOK, CRs
<1> QED
  BY <1>1, <1>2, <1>3, PTL DEF Spec

-----------------------------------------------------------------------------
(* What a status of True promises.                                         *)

\* A stage has left the cluster as the spec asks, or is not asked for.
IsDone(configs, spec, s) == \/ configs[s] = spec
                            \/ s = "DNS" /\ ~spec.addInternalDNSEntries
                            \/ s = "ACM" /\ ~spec.acmRegistration

AllDone(configs, spec) == \A s \in Applied : IsDone(configs, spec, s)

\* Two copies of one version of an object, of which the status may differ.
SameVersion(c, d) == /\ c # None /\ d # None
                     /\ c.uid = d.uid /\ c.generation = d.generation /\ c.spec = d.spec

\* Objects of other names are never deleted.
OthersStay ==
    \A n \in Names \ {"cluster"} :
        /\ cr[n] # None => ~cr[n].deleting
        /\ cache[n] # None => ~cache[n].deleting
        /\ pc # "idle" /\ who = n => ~relocation.deleting

\* The stored object and the informer's copy are right when they say True.
CopiesTruthful ==
    \A c \in {cr["cluster"], cache["cluster"]} : Reconciled(c) => AllDone(config, c.spec)

\* The conditions in memory say True of the generation the pass works on.
ClaimsTrue == /\ conditions.reconciled # None
              /\ conditions.reconciled.status
              /\ conditions.reconciled.observedGeneration = relocation.generation

\* They are right, too: the pass may write them back when a later call fails.
ClaimTruthful ==
    pc # "idle" /\ who = "cluster" /\ ~relocation.deleting /\ ClaimsTrue
        => AllDone(config, relocation.spec)

\* While a copy says True no pass works on another version,
NoOtherPass ==
    pc # "idle" /\ who = "cluster" =>
        \A c \in {cr["cluster"], cache["cluster"]} :
            Reconciled(c) => SameVersion(c, relocation) /\ ~relocation.deleting

\* and none will, for the informer has delivered the version that says True:
Informed == Reconciled(cr["cluster"]) => SameVersion(cr["cluster"], cache["cluster"])

\* it never falls back behind the pass that reports.
InformerAhead ==
    pc # "idle" /\ who = "cluster" /\ cr["cluster"] # None
        /\ cr["cluster"].uid = relocation.uid =>
           /\ cache["cluster"] # None
           /\ cache["cluster"].uid = relocation.uid
           /\ relocation.generation <= cache["cluster"].generation

\* The stages behind the worker are done.
DoneSoFar ==
    pc = "reconcile" =>
        \A i \in 1..18 : i < stage /\ Pipeline[i] \in Applied
                            => IsDone(config, relocation.spec, Pipeline[i])

Truth == /\ CopiesTruthful /\ ClaimTruthful /\ NoOtherPass /\ Informed /\ InformerAhead
         /\ DoneSoFar

\* Every step keeps objects of other names, if users do.
LEMMA OthersStep ==
    ASSUME Deletable \subseteq {"cluster"}
    PROVE  TypeOK /\ TypeOK' /\ Protocol /\ Copies /\ OthersStay /\ [Next]_vars => OthersStay'
<1> SUFFICES ASSUME TypeOK, TypeOK', Protocol, Copies, OthersStay, [Next]_vars
             PROVE  OthersStay'
  OBVIOUS
<1> USE NamesAssumption, NoneAssumption
<1> USE DEF vars, apiVars, informer, locals, worker, OthersStay
<1>1. ASSUME NEW n \in Names, CreateCR(n) PROVE OthersStay'
  BY <1>1 DEF CreateCR, TypeOK, CRs
<1>2. ASSUME NEW n \in Names, EditSpec(n) PROVE OthersStay'
  BY <1>2 DEF EditSpec, TypeOK, CRs
<1>3. ASSUME NEW n \in Names, Annotate(n) PROVE OthersStay'
  BY <1>3 DEF Annotate, TypeOK, CRs
<1>4. ASSUME NEW n \in Names, DeleteCR(n) PROVE OthersStay'
  BY <1>4 DEF DeleteCR, TypeOK
<1>5. ASSUME NEW n \in Names, Deliver(n) \/ StartReconcile(n) PROVE OthersStay'
  <2>1. CASE Deliver(n)
    BY <2>1 DEF Deliver, TypeOK
  <2>2. CASE StartReconcile(n)
    <3>1. UNCHANGED <<cr, cache>>
      BY <2>2 DEF StartReconcile
    <3>2. \/ UNCHANGED <<pc, who, relocation>>
          \/ who' = n /\ relocation' = cache[n] /\ cache[n] # None
      BY <2>2 DEF StartReconcile
    <3> QED
      BY <3>1, <3>2
  <2> QED
    BY <1>5, <2>1, <2>2
<1>6. CASE AddFinalizer
  BY <1>6 DEF AddFinalizer, Current, TypeOK, CRs
<1>7. CASE \/ UpdateConflict \/ AddFinalizerFails \/ RemoveFinalizerFails \/ StopOperator
           \/ Restart
  BY <1>7 DEF UpdateConflict, AddFinalizerFails, RemoveFinalizerFails, StopOperator, Restart,
              Return, TypeOK
<1>8. CASE Validate \/ Succeed \/ StageFails
  BY <1>8 DEF Validate, Succeed, StageFails, Return
<1>9. ASSUME NEW s, NEW o,
             \/ Apply(s) \/ LookupIP \/ ListRoutes \/ DeleteRoutes \/ VerifyCert(s, o)
             \/ WaitForCO(s, o) \/ DeleteSubscription \/ DeleteCSV
      PROVE  OthersStay'
  BY <1>9 DEF Apply, LookupIP, ListRoutes, DeleteRoutes, VerifyCert, WaitForCO,
              DeleteSubscription, DeleteCSV, At, Advance
<1>10. CASE DeleteSelf
  <2>1. who = "cluster" /\ pc = "delete" /\ pc' = "updateStatus"
        /\ \A n \in Names \ {"cluster"} : cr'[n] = cr[n]
    BY <1>10 DEF DeleteSelf, Protocol, OnlyCluster, TypeOK
  <2> QED
    BY <1>10, <2>1 DEF DeleteSelf
<1>11. CASE UpdateStatus
  BY <1>11 DEF UpdateStatus, Current, Return, TypeOK, CRs
<1>12. CASE RemoveFinalizer
  BY <1>12 DEF RemoveFinalizer, Current, Return, TypeOK, CRs
<1>13. ASSUME NEW n \in Names, OrphanDependents(n) PROVE OthersStay'
  BY <1>13 DEF OrphanDependents, TypeOK, CRs
<1>14. CASE UNCHANGED <<cr, cache, pc, who, relocation>>
  BY <1>14
<1> QED
  BY <1>1, <1>2, <1>3, <1>4, <1>5, <1>6, <1>7, <1>8, <1>9, <1>10, <1>11, <1>12, <1>13, <1>14
     DEF Next, Worker, Failures, Users, Cluster, Rollout, Enqueue, Observe,
         OperatorStarts, OperatorFinishes, RecreateRoutes, Collect

\* A stage of a pass does its part and undoes no other.
LEMMA WrittenDone ==
    ASSUME Lagging = {}, TypeOK, pc = "reconcile", NEW t \in Applied
    PROVE  /\ IsDone(Written(t), relocation.spec, t)
           /\ \A s \in Applied : IsDone(config, relocation.spec, s)
                                    => IsDone(Written(t), relocation.spec, s)
BY DEF IsDone, Written, View, Target, Skipped, TypeOK

\* The pipeline ends with Done, behind every stage that writes.
LEMMA PipelineCovers ==
    /\ \A i \in 1..18 : Pipeline[i] = "Done" <=> i = 18
    /\ \A s \in Applied : \E i \in 1..17 : Pipeline[i] = s
<1>1. \A i \in 1..18 : Pipeline[i] = "Done" <=> i = 18
  BY DEF Pipeline
<1>2. /\ Pipeline[1] = "DNS" /\ Pipeline[3] = "SSH" /\ Pipeline[4] = "Registry"
      /\ Pipeline[5] = "Mirror" /\ Pipeline[6] = "PullSecret" /\ Pipeline[7] = "Catalog"
      /\ Pipeline[8] = "Ingress" /\ Pipeline[9] = "API" /\ Pipeline[17] = "ACM"
  BY DEF Pipeline
<1> QED
  BY <1>1, <1>2 DEF Applied

\* What a pass may write while copies say True.
WritesMore ==
    /\ config' # config => who = "cluster"
    /\ who = "cluster" /\ ~relocation.deleting /\ AllDone(config, relocation.spec)
          => AllDone(config', relocation.spec)

\* A step of a pass that goes on.
LEMMA TruthMoved ==
    ASSUME TypeOK, Truth, UNCHANGED <<cr, cache, who, relocation>>, pc # "idle",
           WritesMore, DoneSoFar',
           who = "cluster" /\ ~relocation.deleting /\ ClaimsTrue'
              => ClaimsTrue \/ AllDone(config', relocation.spec)
    PROVE  Truth'
<1>1. CopiesTruthful'
  BY DEF Truth, CopiesTruthful, NoOtherPass, WritesMore, SameVersion
<1>2. ClaimTruthful'
  BY DEF Truth, ClaimTruthful, WritesMore
<1>3. NoOtherPass' /\ Informed' /\ InformerAhead'
  BY DEF Truth, NoOtherPass, Informed, InformerAhead
<1> QED
  BY <1>1, <1>2, <1>3 DEF Truth

\* A pass that ends.
LEMMA TruthReturned ==
    ASSUME TypeOK, Truth, UNCHANGED <<cr, cache>>, pc' = "idle",
           config' = config \/ (pc # "idle" /\ WritesMore)
    PROVE  Truth'
<1>1. CopiesTruthful'
  BY DEF Truth, CopiesTruthful, NoOtherPass, WritesMore, SameVersion
<1> QED
  BY <1>1 DEF Truth, ClaimTruthful, NoOtherPass, Informed, InformerAhead, DoneSoFar

\* An update by somebody else, or a deletion.
LEMMA TruthUpdated ==
    ASSUME TypeOK, Truth, UNCHANGED <<cache, who, relocation, conditions, config, stage>>,
           pc' = pc \/ (pc = "delete" /\ pc' = "updateStatus"),
           Reconciled(cr'["cluster"])
              => Reconciled(cr["cluster"]) /\ SameVersion(cr'["cluster"], cr["cluster"]),
           pc # "idle" /\ cr'["cluster"] # None /\ cr'["cluster"].uid = relocation.uid
              => cr["cluster"] # None /\ cr["cluster"].uid = relocation.uid
    PROVE  Truth'
<1>1. CopiesTruthful'
  BY DEF Truth, CopiesTruthful, SameVersion
<1>2. ClaimTruthful' /\ DoneSoFar'
  BY DEF Truth, ClaimTruthful, ClaimsTrue, DoneSoFar
<1>3. NoOtherPass' /\ Informed'
  BY DEF Truth, NoOtherPass, Informed, SameVersion
<1>4. InformerAhead'
  BY DEF Truth, InformerAhead
<1> QED
  BY <1>1, <1>2, <1>3, <1>4 DEF Truth

\* The stage of the pass that has just been done joins those behind the worker.
LEMMA DoneAdvances ==
    ASSUME Lagging = {}, TypeOK, Truth, UNCHANGED <<pc, relocation>>, stage' = stage + 1,
           \/ config' = config /\ (pc = "reconcile" => Pipeline[stage] \notin Applied)
           \/ \E t \in Applied : config' = Written(t) /\ (pc = "reconcile" => Pipeline[stage] = t)
    PROVE  DoneSoFar'
<1> SUFFICES ASSUME pc = "reconcile", NEW i \in 1..18, i < stage + 1, Pipeline[i] \in Applied
             PROVE  IsDone(config', relocation.spec, Pipeline[i])
  BY DEF DoneSoFar
<1>1. stage \in 1..18
  BY PipelineLength DEF TypeOK
<1>2. i < stage \/ i = stage
  BY <1>1
<1>3. i < stage => IsDone(config, relocation.spec, Pipeline[i])
  BY DEF Truth, DoneSoFar
<1> QED
  BY <1>2, <1>3, WrittenDone

\* A pass writes nothing that is not asked of it.
LEMMA WritesAsAsked ==
    ASSUME Lagging = {}, TypeOK, Protocol, OthersStay, pc \in {"reconcile", "finalize"},
           config' = config \/ \E t \in Applied : config' = Written(t)
    PROVE  WritesMore
<1>1. who \in Names /\ relocation \in CRs
  BY DEF TypeOK
<1>2. CASE pc = "reconcile"
  BY <1>2, WrittenDone DEF WritesMore, AllDone, Protocol, OnlyCluster
<1>3. CASE pc = "finalize"
  <2>1. relocation.deleting /\ who = "cluster"
    BY <1>1, <1>3 DEF Protocol, SawDeletion, OthersStay
  <2> QED
    BY <2>1 DEF WritesMore
<1> QED
  BY <1>2, <1>3

\* What no step of anybody makes true.
LEMMA NotReconciled ==
    /\ ~Reconciled(None)
    /\ \A c \in CRs : c.deleting \/ c.status = NoConditions => ~Reconciled(c)
    /\ \A c \in CRs, d \in CRs :
          /\ Observed(c.status, c.generation) /\ d.status = c.status
          /\ d.generation = c.generation + 1
          => ~Reconciled(d)
    /\ \A c \in CRs, d \in CRs :
          /\ d.status = c.status /\ d.generation = c.generation /\ d.deleting = c.deleting
          /\ d.uid = c.uid /\ d.spec = c.spec
          => Reconciled(d) = Reconciled(c) /\ SameVersion(d, c)
<1> USE NoneAssumption
<1>1. ~Reconciled(None)
  BY DEF Reconciled
<1>2. ASSUME NEW c \in CRs, c.deleting \/ c.status = NoConditions
      PROVE  ~Reconciled(c)
  BY <1>2 DEF Reconciled, NoConditions
<1>3. ASSUME NEW c \in CRs, NEW d \in CRs, Observed(c.status, c.generation),
             d.status = c.status, d.generation = c.generation + 1
      PROVE  ~Reconciled(d)
  <2>1. c.generation \in Nat /\ c.status \in Conditions
    BY DEF CRs
  <2>2. c.status.reconciled # None => c.status.reconciled.observedGeneration \in Nat
    BY <2>1 DEF Conditions
  <2> QED
    BY <1>3, <2>1, <2>2 DEF Reconciled, Observed
<1>4. ASSUME NEW c \in CRs, NEW d \in CRs,
             d.status = c.status, d.generation = c.generation, d.deleting = c.deleting,
             d.uid = c.uid, d.spec = c.spec
      PROVE  Reconciled(d) = Reconciled(c) /\ SameVersion(d, c)
  BY <1>4 DEF Reconciled, SameVersion
<1> QED
  BY <1>1, <1>2, <1>3, <1>4

\* Users and the garbage collector make no status true, and no pass works for a new object.
LEMMA TruthOfUsers ==
    ASSUME TypeOK, TypeOK', Protocol, Copies, Truth, NEW n \in Names,
           CreateCR(n) \/ EditSpec(n) \/ Annotate(n) \/ DeleteCR(n) \/ OrphanDependents(n)
    PROVE  Truth'
<1> USE NamesAssumption, NoneAssumption
<1> DEFINE c == cr["cluster"]  d == cr'["cluster"]
<1>0. /\ UNCHANGED <<cache, pc, who, relocation, conditions, config, stage>>
      /\ c = None \/ c \in CRs
      /\ d = None \/ d \in CRs
      /\ n # "cluster" => d = c
      /\ pc # "idle" => relocation \in CRs /\ relocation.uid <= uids
  BY DEF CreateCR, EditSpec, Annotate, DeleteCR, OrphanDependents, TypeOK, clusterVars, worker,
         locals, informer, Protocol, HeldUID
<1>1. /\ Reconciled(d) => Reconciled(c) /\ SameVersion(d, c)
      /\ pc # "idle" /\ d # None /\ d.uid = relocation.uid => c # None /\ c.uid = relocation.uid
  <2>1. CASE n # "cluster"
    BY <1>0, <2>1 DEF Reconciled, SameVersion
  <2>2. CASE n = "cluster" /\ CreateCR(n)
    <3>1. d.uid = uids + 1 /\ d.status = NoConditions
      BY <2>2 DEF CreateCR, TypeOK
    <3>4. d \in CRs
      BY <2>2, SelfDestructAssumption DEF CreateCR, TypeOK, CRs, NoConditions, Conditions
    <3>2. uids \in Nat
      BY DEF TypeOK
    <3>3. pc # "idle" => relocation.uid \in Nat
      BY <1>0 DEF CRs
    <3> QED
      BY <1>0, <3>1, <3>2, <3>3, <3>4, NotReconciled
  <2>3. CASE n = "cluster" /\ EditSpec(n)
    <3>0. c \in CRs
      BY <1>0, <2>3 DEF EditSpec
    <3>2. PICK s \in Specs : d = [c EXCEPT !.spec = s, !.generation = c.generation + 1]
      BY <2>3, <3>0 DEF EditSpec, TypeOK
    <3>5. c.generation + 1 \in Nat
      BY <3>0 DEF CRs
    <3>6. \A g \in Nat : [c EXCEPT !.spec = s, !.generation = g] \in CRs
      BY <3>0 DEF CRs
    <3>1. c \in CRs /\ d \in CRs
      BY <3>0, <3>2, <3>5, <3>6
    <3>3. d.status = c.status /\ d.generation = c.generation + 1 /\ d.uid = c.uid
      BY <3>1, <3>2 DEF CRs
    <3>4. Observed(c.status, c.generation)
      BY <3>1 DEF Copies, CopiesOlder
    <3> QED
      BY <3>1, <3>3, <3>4, NotReconciled
  <2>4. CASE n = "cluster" /\ Annotate(n)
    <3>1. c \in CRs /\ d = [c EXCEPT !.selfDestruct = TRUE] /\ d \in CRs
      BY <1>0, <2>4, FieldUpdates DEF Annotate, TypeOK
    <3>2. /\ d.status = c.status /\ d.generation = c.generation /\ d.deleting = c.deleting
          /\ d.uid = c.uid /\ d.spec = c.spec
      BY <3>1 DEF CRs
    <3> QED
      BY <3>1, <3>2, NotReconciled
  <2>5. CASE n = "cluster" /\ DeleteCR(n)
    <3>1. d = None \/ (c \in CRs /\ d = [c EXCEPT !.deleting = TRUE] /\ d \in CRs)
      BY <1>0, <2>5, FieldUpdates DEF DeleteCR, TypeOK
    <3>2. d # None => d.deleting /\ c # None /\ d.uid = c.uid
      BY <3>1 DEF CRs
    <3> QED
      BY <3>1, <3>2, NotReconciled
  <2>6. CASE n = "cluster" /\ OrphanDependents(n)
    <3>1. d = None \/ (c \in CRs /\ d = [c EXCEPT !.orphan = FALSE] /\ d \in CRs)
      BY <1>0, <2>6, FieldUpdates DEF OrphanDependents, TypeOK
    <3>2. d # None => d.deleting = c.deleting /\ c # None /\ d.uid = c.uid
      BY <3>1 DEF CRs
    <3>3. c.deleting
      BY <2>6 DEF OrphanDependents, Copies, CopiesOlder
    <3> QED
      BY <3>1, <3>2, <3>3, NotReconciled
  <2> QED
    BY <2>1, <2>2, <2>3, <2>4, <2>5, <2>6
<1> QED
  BY <1>0, <1>1, TruthUpdated

\* The informer and the start of a pass.
LEMMA TruthOfCopies ==
    ASSUME TypeOK, Protocol, Copies, Truth, NEW n \in Names, Deliver(n) \/ StartReconcile(n)
    PROVE  Truth'
<1> USE NamesAssumption, NoneAssumption
<1> DEFINE c == cr["cluster"]  k == cache["cluster"]
<1>0. /\ UNCHANGED <<cr, config>>
      /\ c = None \/ c \in CRs
      /\ k = None \/ k \in CRs
      /\ c # None /\ k # None /\ c.uid = k.uid /\ k.deleting => c.deleting
  BY DEF Deliver, StartReconcile, TypeOK, apiVars, clusterVars, Protocol, CachedDeletion
<1>1. CASE Deliver(n)
  <2>1. /\ UNCHANGED <<pc, who, relocation, conditions, stage>>
        /\ cache'["cluster"] = k \/ cache'["cluster"] = c
    BY <1>1 DEF Deliver, TypeOK, worker, locals
  <2>2. pc # "idle" /\ who = "cluster" /\ c # None /\ c.uid = relocation.uid
           => relocation.generation <= c.generation
    BY DEF Copies, HeldOlder, Older, TypeOK
  <2>3. CopiesTruthful' /\ NoOtherPass'
    BY <1>0, <2>1 DEF Truth, CopiesTruthful, NoOtherPass
  <2>4. Informed'
    BY <1>0, <2>1 DEF Truth, Informed, SameVersion, Reconciled
  <2>5. InformerAhead'
    BY <1>0, <2>1, <2>2 DEF Truth, InformerAhead
  <2>6. ClaimTruthful' /\ DoneSoFar'
    BY <1>0, <2>1 DEF Truth, ClaimTruthful, ClaimsTrue, DoneSoFar
  <2> QED
    BY <2>3, <2>4, <2>5, <2>6 DEF Truth
<1>2. CASE StartReconcile(n) /\ pc' = "idle"
  BY <1>2, TruthReturned DEF StartReconcile, apiVars, clusterVars
<1>3. CASE StartReconcile(n) /\ pc' # "idle"
  <2>1. /\ who' = n /\ relocation' = cache[n] /\ conditions' = cache[n].status
        /\ cache[n] \in CRs /\ cache' = cache /\ pc' # "reconcile"
    BY <1>3 DEF StartReconcile, TypeOK, worker
  <2>2. CopiesTruthful' /\ Informed' /\ DoneSoFar'
    BY <1>0, <2>1 DEF Truth, CopiesTruthful, Informed, DoneSoFar
  <2>3. NoOtherPass'
    BY <1>0, <2>1 DEF Truth, Informed, NoOtherPass, SameVersion, Reconciled
  <2>4. InformerAhead'
    BY <1>0, <2>1 DEF InformerAhead, CRs
  <2>5. ClaimTruthful'
    BY <1>0, <2>1 DEF Truth, CopiesTruthful, ClaimTruthful, ClaimsTrue, Reconciled
  <2> QED
    BY <2>2, <2>3, <2>4, <2>5 DEF Truth
<1> QED
  BY <1>1, <1>2, <1>3

\* The finalizer is added to the version of the object that everybody has.
LEMMA TruthOfAdoption ==
    ASSUME TypeOK, Copies, Truth, AddFinalizer
    PROVE  Truth'
<1> USE NamesAssumption, NoneAssumption
<1> DEFINE c == relocation  d == relocation'
<1>1. /\ who \in Names /\ c \in CRs /\ d = [c EXCEPT !.finalizer = TRUE] /\ cr[who] = c
      /\ cache[who] = c /\ pc = "addFinalizer" /\ pc' = "validate"
      /\ UNCHANGED <<cache, who, conditions, config>>
      /\ cr'[who] = d /\ \A m \in Names : m # who => cr'[m] = cr[m]
  BY DEF AddFinalizer, Current, TypeOK, Copies, Adopting, informer, clusterVars
<1>2. /\ d \in CRs /\ d.status = c.status /\ d.generation = c.generation
      /\ d.deleting = c.deleting /\ d.uid = c.uid /\ d.spec = c.spec
  BY <1>1 DEF CRs
<1>3. Reconciled(d) = Reconciled(c) /\ SameVersion(d, c) /\ SameVersion(c, d)
  BY <1>1, <1>2, NotReconciled DEF SameVersion
<1>4. CASE who = "cluster"
  <2>1. cr'["cluster"] = d /\ cache'["cluster"] = c /\ cr["cluster"] = c
    BY <1>1, <1>4
  <2>2. CopiesTruthful'
    BY <1>1, <1>2, <1>3, <2>1 DEF Truth, CopiesTruthful
  <2>3. ClaimTruthful'
    BY <1>1, <1>2 DEF Truth, ClaimTruthful, ClaimsTrue
  <2>4. NoOtherPass' /\ Informed'
    BY <1>1, <1>2, <1>3, <2>1 DEF NoOtherPass, Informed, SameVersion, Reconciled
  <2>5. InformerAhead'
    BY <1>1, <1>2, <2>1 DEF InformerAhead, CRs
  <2> QED
    BY <1>1, <2>2, <2>3, <2>4, <2>5 DEF Truth, DoneSoFar
<1>5. CASE who # "cluster"
  BY <1>1, <1>5 DEF Truth, CopiesTruthful, ClaimTruthful, NoOtherPass, Informed,
     InformerAhead, DoneSoFar
<1> QED
  BY <1>4, <1>5

\* A pass reports what it has done, of the version it has worked on.
LEMMA TruthOfReport ==
    ASSUME TypeOK, Protocol, Copies, Truth, UpdateStatus
    PROVE  Truth'
<1> USE NamesAssumption, NoneAssumption
<1> DEFINE c == relocation  k == cache["cluster"]  d == cr'["cluster"]
<1>0. /\ UNCHANGED <<cache, config>> /\ pc' = "idle" /\ who \in Names /\ c \in CRs /\ ~c.deleting
      /\ pc = "updateStatus"
  BY DEF UpdateStatus, Return, TypeOK, clusterVars, Copies, NotDeleted
<1>1. CASE d = cr["cluster"]
  BY <1>0, <1>1 DEF Truth, CopiesTruthful, ClaimTruthful, NoOtherPass, Informed,
     InformerAhead, DoneSoFar
<1>2. CASE d # cr["cluster"]
  <2>1. who = "cluster" /\ cr["cluster"] = c /\ d = [c EXCEPT !.status = conditions]
    BY <1>2 DEF UpdateStatus, Current, TypeOK
  <2>2. /\ d.status = conditions /\ d.uid = c.uid /\ d.spec = c.spec
        /\ d.generation = c.generation
    BY <1>0, <2>1 DEF CRs
  <2>3. Reconciled(d) => AllDone(config, d.spec)
    BY <1>0, <2>1, <2>2 DEF Truth, ClaimTruthful, ClaimsTrue, Reconciled
  <2>4. CopiesTruthful'
    BY <1>0, <2>3 DEF Truth, CopiesTruthful
  <2>5. /\ k # None /\ k.uid = c.uid /\ c.generation <= k.generation /\ k \in CRs
    BY <1>0, <2>1 DEF Truth, InformerAhead, TypeOK
  <2>6. Older(k, c)
    BY <2>1 DEF Copies, CopiesOlder
  <2>7. k.generation = c.generation /\ k.spec = c.spec
    BY <1>0, <2>5, <2>6 DEF Older, CRs
  <2>8. Informed'
    BY <1>0, <2>2, <2>5, <2>7 DEF Informed, SameVersion, Reconciled
  <2> QED
    BY <1>0, <2>4, <2>8 DEF Truth, ClaimTruthful, NoOtherPass, InformerAhead, DoneSoFar
<1> QED
  BY <1>1, <1>2

\* Every step of a controller that reads its own writes keeps statuses true.
LEMMA TruthStep ==
    ASSUME Lagging = {}
    PROVE  TypeOK /\ TypeOK' /\ Protocol /\ Copies /\ OthersStay /\ Truth /\ [Next]_vars => Truth'
<1> SUFFICES ASSUME TypeOK, TypeOK', Protocol, Copies, OthersStay, Truth, [Next]_vars
             PROVE  Truth'
  OBVIOUS
<1> USE NamesAssumption, NoneAssumption
<1> USE DEF vars, apiVars, informer, locals, worker, clusterVars
<1>1. ASSUME NEW n \in Names,
             \/ CreateCR(n) \/ EditSpec(n) \/ Annotate(n) \/ DeleteCR(n)
             \/ OrphanDependents(n) \/ Deliver(n) \/ StartReconcile(n)
      PROVE  Truth'
  BY <1>1, TruthOfUsers, TruthOfCopies
<1>2. CASE AddFinalizer \/ UpdateStatus
  BY <1>2, TruthOfAdoption, TruthOfReport
<1>3. CASE UpdateConflict \/ AddFinalizerFails \/ RemoveFinalizerFails \/ StopOperator
  BY <1>3, TruthReturned DEF UpdateConflict, AddFinalizerFails, RemoveFinalizerFails,
     StopOperator, Return
<1>4. CASE Restart
  <2>1. UNCHANGED <<cr, config>> /\ cache' = cr /\ pc' = "idle"
    BY <1>4 DEF Restart
  <2>2. Informed'
    BY <2>1 DEF Informed, SameVersion, Reconciled
  <2> QED
    BY <2>1, <2>2 DEF Truth, CopiesTruthful, ClaimTruthful, NoOtherPass, InformerAhead, DoneSoFar
<1>5. CASE Validate
  <2>1. /\ UNCHANGED <<cr, cache, who, relocation, config>>
        /\ pc = "validate" /\ pc' \in {"updateStatus", "reconcile"}
        /\ pc' = "reconcile" => stage' = 1
    BY <1>5 DEF Validate, Protocol, StageBounds
  <2>2. ClaimsTrue' => ClaimsTrue
    <3>1. \/ conditions' = [conditions EXCEPT !.ready = IF who = "cluster" THEN "True" ELSE "False"]
          \/ conditions' = [SetReconciled(FALSE) EXCEPT !.ready = "True"]
      BY <1>5 DEF Validate
    <3>2. CASE conditions' = [conditions EXCEPT !.ready =
                                 IF who = "cluster" THEN "True" ELSE "False"]
      BY <2>1, <3>2 DEF ClaimsTrue, TypeOK, Conditions
    <3>3. CASE conditions' = [SetReconciled(FALSE) EXCEPT !.ready = "True"]
      BY <3>3 DEF ClaimsTrue, SetReconciled, TypeOK, Conditions
    <3> QED
      BY <3>1, <3>2, <3>3
  <2>3. DoneSoFar' /\ WritesMore
    BY <2>1 DEF DoneSoFar, WritesMore
  <2> QED
    BY <2>1, <2>2, <2>3, TruthMoved
<1>6. ASSUME NEW t \in Applied, Apply(t) PROVE Truth'
  <2>1. /\ UNCHANGED <<cr, cache, pc, who, relocation, conditions>> /\ stage' = stage + 1
        /\ config' = Written(t) /\ pc \in {"reconcile", "finalize"}
        /\ pc = "reconcile" => Pipeline[stage] = t
    BY <1>6 DEF Apply, At, Advance, Plan
  <2>2. DoneSoFar' /\ WritesMore
    BY <2>1, DoneAdvances, WritesAsAsked
  <2> QED
    BY <2>1, <2>2, TruthMoved DEF ClaimsTrue
<1>7. ASSUME NEW o,
             \/ LookupIP \/ VerifyCert("IngressCert", o) \/ VerifyCert("APICert", o)
             \/ WaitForCO("IngressCO", o) \/ WaitForCO("APICO", o) \/ WaitForCO("RoutesCO", o)
             \/ ListRoutes \/ DeleteRoutes \/ DeleteCSV
      PROVE  Truth'
  <2>1. /\ UNCHANGED <<cr, cache, pc, who, relocation, conditions, config>>
        /\ stage' = stage + 1 /\ pc \in {"reconcile", "finalize"}
        /\ pc = "reconcile" => Pipeline[stage] \notin Applied
    BY <1>7 DEF LookupIP, VerifyCert, WaitForCO, ListRoutes, DeleteRoutes, DeleteCSV, At, Advance,
       Plan, Applied
  <2>2. DoneSoFar' /\ WritesMore
    BY <2>1, DoneAdvances, WritesAsAsked
  <2> QED
    BY <2>1, <2>2, TruthMoved DEF ClaimsTrue
<1>8. CASE DeleteSubscription
  <2>1. /\ UNCHANGED <<cr, cache, pc, who, relocation, conditions, config>>
        /\ pc \in {"reconcile", "finalize"} /\ Plan[stage] = "Subscription"
    BY <1>8 DEF DeleteSubscription, At
  <2>2. stage \in 1..18
    BY PipelineLength DEF TypeOK
  <2>3. \A i \in 1..18 : Pipeline[i] # "Subscription"
    BY DEF Pipeline
  <2>4. pc = "finalize"
    BY <2>1, <2>2, <2>3 DEF Plan
  <2>5. DoneSoFar' /\ WritesMore
    BY <2>1, <2>4 DEF DoneSoFar, WritesMore
  <2> QED
    BY <2>1, <2>5, TruthMoved DEF ClaimsTrue
<1>9. CASE StageFails
  <2>1. /\ UNCHANGED <<cr, cache>> /\ pc \in {"reconcile", "finalize"}
        /\ config' = config \/ \E t \in Applied : config' = Written(t)
    BY <1>9 DEF StageFails
  <2>2. WritesMore
    BY <2>1, WritesAsAsked
  <2>3. CASE pc = "reconcile"
    <3>1. /\ UNCHANGED <<who, relocation>> /\ pc' = "updateStatus"
          /\ conditions' = SetReconciled(FALSE)
      BY <1>9, <2>3 DEF StageFails
    <3>2. ~ClaimsTrue'
      BY <3>1 DEF ClaimsTrue, SetReconciled, TypeOK, Conditions
    <3>3. DoneSoFar'
      BY <3>1 DEF DoneSoFar
    <3> QED
      BY <2>1, <2>2, <3>1, <3>2, <3>3, <2>3, TruthMoved
  <2>4. CASE pc # "reconcile"
    BY <1>9, <2>1, <2>2, <2>4, TruthReturned DEF StageFails, Return
  <2> QED
    BY <2>3, <2>4
<1>10. CASE Succeed
  <2>1. /\ UNCHANGED <<cr, cache, who, relocation, config>> /\ pc = "reconcile"
        /\ pc' \in {"delete", "updateStatus"} /\ Pipeline[stage] = "Done"
    BY <1>10 DEF Succeed, Plan
  <2>2. stage = 18
    BY <2>1, PipelineLength, PipelineCovers DEF TypeOK
  <2>3. AllDone(config, relocation.spec)
    BY <2>1, <2>2, PipelineCovers DEF Truth, DoneSoFar, AllDone
  <2>4. DoneSoFar' /\ WritesMore
    BY <2>1 DEF DoneSoFar, WritesMore
  <2> QED
    BY <2>1, <2>3, <2>4, TruthMoved
<1>11. CASE DeleteSelf
  <2>1. /\ UNCHANGED <<cache, who, relocation, conditions, config, stage>>
        /\ pc = "delete" /\ pc' = "updateStatus" /\ who = "cluster" /\ cr["cluster"] \in CRs
    BY <1>11 DEF DeleteSelf, Protocol, OnlyCluster, HoldsFinalizer, TypeOK
  <2>2. CASE cr' = cr
    <3>1. DoneSoFar' /\ WritesMore
      BY <2>1 DEF DoneSoFar, WritesMore
    <3> QED
      BY <2>1, <2>2, <3>1, TruthMoved DEF ClaimsTrue
  <2>3. CASE cr' # cr
    <3> DEFINE c == cr["cluster"]  d == cr'["cluster"]
    <3>1. d = [c EXCEPT !.deleting = TRUE, !.orphan = TRUE]
      BY <1>11, <2>1, <2>3 DEF DeleteSelf, TypeOK
    <3>2. d \in CRs
      BY <2>1, <3>1, FieldUpdates
    <3>3. d.deleting /\ d.uid = c.uid /\ c # None
      BY <2>1, <3>1 DEF CRs
    <3>4. ~Reconciled(d)
      BY <3>2, <3>3, NotReconciled
    <3> QED
      BY <2>1, <3>3, <3>4, TruthUpdated
  <2> QED
    BY <2>2, <2>3
<1>12. CASE RemoveFinalizer
  <2> DEFINE d == cr'["cluster"]
  <2>1. /\ UNCHANGED <<cache, config>> /\ pc' = "idle" /\ who \in Names /\ cr[who] = relocation
        /\ relocation \in CRs /\ relocation.deleting
    BY <1>12 DEF RemoveFinalizer, Return, Current, TypeOK, Protocol, SawDeletion
  <2>2. CASE who = "cluster"
    <3>1. d = None \/ d = [relocation EXCEPT !.finalizer = FALSE]
      BY <1>12, <2>1, <2>2 DEF RemoveFinalizer, TypeOK
    <3>2. d = None \/ (d \in CRs /\ d.deleting)
      <4>1. [relocation EXCEPT !.finalizer = FALSE] \in CRs
        BY <2>1, FieldUpdates
      <4>2. [relocation EXCEPT !.finalizer = FALSE].deleting
        BY <2>1 DEF CRs
      <4> QED
        BY <3>1, <4>1, <4>2
    <3>3. ~Reconciled(d)
      BY <3>2, NotReconciled
    <3> QED
      BY <2>1, <3>3 DEF Truth, CopiesTruthful, ClaimTruthful, NoOtherPass, Informed,
         InformerAhead, DoneSoFar
  <2>3. CASE who # "cluster"
    <3>1. d = cr["cluster"]
      BY <1>12, <2>3 DEF RemoveFinalizer, TypeOK
    <3> QED
      BY <2>1, <3>1 DEF Truth, CopiesTruthful, ClaimTruthful, NoOtherPass, Informed,
         InformerAhead, DoneSoFar
  <2> QED
    BY <2>2, <2>3
<1>13. CASE UNCHANGED <<cr, cache, pc, who, relocation, conditions, config, stage>>
  BY <1>13 DEF Truth, CopiesTruthful, ClaimTruthful, ClaimsTrue, NoOtherPass, Informed,
     InformerAhead, DoneSoFar
<1> QED
  BY <1>1, <1>2, <1>3, <1>4, <1>5, <1>6, <1>7, <1>8, <1>9, <1>10, <1>11, <1>12, <1>13
     DEF Next, Worker, Failures, Users, Cluster, Rollout, Enqueue, Observe,
         OperatorStarts, OperatorFinishes, RecreateRoutes, Collect

\* A Reconciled status that is True of the current generation is true: every stage has left
\* the cluster as that spec asks, whatever edits, deletions, re-creations, old copies,
\* failures and restarts came before. The restrictions are needed: an object of another
\* name reverts the cluster when it is deleted, and a stage that compares with a copy from
\* before its own last write leaves that write in place.
THEOREM StatusIsTrue ==
    Lagging = {} /\ Deletable \subseteq {"cluster"} => (Spec => []StatusTruthful)
<1> SUFFICES ASSUME Lagging = {}, Deletable \subseteq {"cluster"}
             PROVE  Spec => []StatusTruthful
  OBVIOUS
<1> DEFINE IInv == TypeOK /\ Protocol /\ Copies /\ OthersStay /\ Truth
<1>1. Init => IInv
  BY InitHolds, CopiesInit, NamesAssumption
     DEF Init, OthersStay, Truth, CopiesTruthful, ClaimTruthful, NoOtherPass, Informed,
         InformerAhead, DoneSoFar, Reconciled
<1>2. IInv /\ [Next]_vars => IInv'
  BY TypeStep, ProtocolStep, CopiesStep, OthersStep, TruthStep
<1>3. IInv => StatusTruthful
  BY DEF Truth, CopiesTruthful, AllDone, IsDone, StatusTruthful
<1> QED
  BY <1>1, <1>2, <1>3, PTL DEF Spec

-----------------------------------------------------------------------------
(* The end of the operator.                                                *)

\* A copy of an annotated object on its way out is of the object there is: a pass
\* that finalizes it will find it.
Keeps(c, d) == c # None /\ c.deleting /\ c.finalizer /\ c.selfDestruct =>
                   d # None /\ d.uid = c.uid /\ d.finalizer

\* Finalization is of an object with the finalizer, and begins with the Subscription.
Finalizing ==
    pc = "finalize" => /\ relocation.finalizer
                       /\ relocation.selfDestruct /\ stage > 1 => ~subscription

\* As long as there is a Subscription no annotated object has been let go.
StillThere ==
    subscription => /\ \A n \in Names : Keeps(cache[n], cr[n])
                    /\ pc = "finalize" => Keeps(relocation, cr[who])

\* The pass that has deleted the Subscription goes on for the object it found.
Removing ==
    pc = "finalize" /\ relocation.selfDestruct /\ stage = 2 => Keeps(relocation, cr[who])

Removal == Finalizing /\ StillThere /\ Removing

\* Objects stay once they have the finalizer.
ObjectsStay ==
    \A n \in Names :
        cr[n] # None /\ cr[n].finalizer =>
            cr'[n] # None /\ cr'[n].uid = cr[n].uid /\ cr'[n].finalizer

\* Only their finalization ends them.
LEMMA ObjectsStayStep ==
    ASSUME TypeOK, TypeOK', Protocol, [Next]_vars, ~RemoveFinalizer
    PROVE  ObjectsStay
<1> USE NamesAssumption, NoneAssumption
<1> USE DEF vars, apiVars, informer, locals, worker, clusterVars, install, budgets, ObjectsStay
<1>1. ASSUME NEW n \in Names, SameObject(n) PROVE ObjectsStay
  BY <1>1 DEF SameObject
<1>2. ASSUME NEW n \in Names, CreateCR(n) PROVE ObjectsStay
  BY <1>2 DEF CreateCR, TypeOK
<1>3. ASSUME NEW n \in Names, EditSpec(n) \/ Annotate(n) PROVE ObjectsStay
  BY <1>1, <1>3, InPlaceUpdates
<1>4. ASSUME NEW n \in Names, DeleteCR(n) \/ OrphanDependents(n) PROVE ObjectsStay
  <2>1. CASE cr[n].finalizer
    BY <1>1, <1>4, <2>1, InPlaceUpdates
  <2>2. CASE ~cr[n].finalizer
    BY <1>4, <2>2 DEF DeleteCR, OrphanDependents, TypeOK
  <2> QED
    BY <2>1, <2>2
<1>5. CASE DeleteSelf \/ UpdateStatus
  <2>1. who \in Names
    BY <1>5 DEF DeleteSelf, UpdateStatus, TypeOK
  <2> QED
    BY <1>1, <1>5, <2>1, InPlaceUpdates
<1>6. CASE AddFinalizer
  BY <1>6 DEF AddFinalizer, Current, TypeOK, CRs
<1>7. CASE UNCHANGED cr
  BY <1>7
<1> QED
  BY <1>2, <1>3, <1>4, <1>5, <1>6, <1>7
     DEF Next, Worker, Failures, Users, Cluster, Rollout, Deliver, Enqueue, Observe,
         StartReconcile, UpdateConflict, AddFinalizerFails, RemoveFinalizerFails, Validate,
         Apply, StageFails, LookupIP, VerifyCert, WaitForCO, ListRoutes, DeleteRoutes, Succeed,
         DeleteSubscription, DeleteCSV, OperatorStarts, OperatorFinishes, RecreateRoutes,
         Collect, StopOperator, Restart

\* Where a step leaves the pass and the installation.
PassMoves ==
    \/ UNCHANGED <<cache, pc, who, stage, relocation, subscription, csv>>
    \/ \E n \in Names : Deliver(n) \/ StartReconcile(n)
    \/ DeleteSubscription \/ DeleteCSV \/ RemoveFinalizer
    \* a pass ends, or the process with it
    \/ pc' = "idle" /\ cache' \in {cache, cr'} /\ UNCHANGED <<subscription, csv>>
    \* it is not a finalization
    \/ pc # "finalize" /\ pc' # "finalize" /\ UNCHANGED <<cache, subscription, csv>>
    \* or one stage further of one that reverts
    \/ /\ pc = "finalize" /\ ~relocation.selfDestruct
       /\ UNCHANGED <<cache, pc, who, relocation, subscription, csv>>

\* Every step is one of these.
LEMMA PassMovesStep ==
    ASSUME TypeOK, Protocol, [Next]_vars
    PROVE  PassMoves
<1> USE DEF vars, apiVars, informer, locals, worker, clusterVars, install, budgets, PassMoves
<1>1. CASE StageFails \/ AddFinalizerFails \/ RemoveFinalizerFails
  BY <1>1 DEF StageFails, AddFinalizerFails, RemoveFinalizerFails, Return
<1>2. CASE StopOperator \/ Restart
  BY <1>2 DEF StopOperator, Restart
<1>3. CASE AddFinalizer \/ Validate \/ Succeed \/ DeleteSelf
  BY <1>3 DEF AddFinalizer, Validate, Succeed, DeleteSelf
<1>4. CASE UpdateConflict \/ UpdateStatus
  BY <1>4 DEF UpdateConflict, UpdateStatus, Return
<1>5. ASSUME NEW s \in Applied \cup {"LookupIP", "IngressCert", "IngressCO", "APICert", "APICO",
                                     "ListRoutes", "RoutesCO", "DeleteRoutes"},
             At(s), UNCHANGED <<cache, pc, who, relocation, subscription, csv>>
      PROVE  PassMoves
  <2>1. CASE pc = "reconcile"
    BY <1>5, <2>1
  <2>2. CASE pc = "finalize"
    <3>1. ~relocation.selfDestruct
      <4> SUFFICES ASSUME relocation.selfDestruct PROVE FALSE
        BY <1>5, <2>2 DEF TypeOK, CRs
      <4>1. stage \in 1..3
        BY <2>2 DEF Protocol, StageBounds, TypeOK
      <4>2. SelfDestructPipeline[stage] = s
        BY <1>5, <2>2 DEF At, Plan
      <4> QED
        BY <4>1, <4>2, SelfDestructStages DEF Applied
    <3> QED
      BY <1>5, <2>2, <3>1
  <2> QED
    BY <1>5, <2>1, <2>2 DEF At
<1>6. ASSUME NEW s \in Applied, Apply(s) PROVE PassMoves
  BY <1>5, <1>6 DEF Apply, Advance
<1>7. CASE LookupIP \/ ListRoutes \/ DeleteRoutes
  BY <1>5, <1>7 DEF LookupIP, ListRoutes, DeleteRoutes, Advance
<1>8. ASSUME NEW s \in {"IngressCert", "IngressCO", "APICert", "APICO", "RoutesCO"},
             NEW o, VerifyCert(s, o) \/ WaitForCO(s, o)
      PROVE  PassMoves
  BY <1>5, <1>8 DEF VerifyCert, WaitForCO, Advance
<1> QED
  BY <1>1, <1>2, <1>3, <1>4, <1>6, <1>7, <1>8
     DEF Next, Worker, Failures, Users, Cluster, Rollout, Enqueue, Observe, CreateCR, EditSpec,
         Annotate, DeleteCR, OperatorStarts, OperatorFinishes, RecreateRoutes, Collect,
         OrphanDependents

\* The stages of a self-destruction are no stages of a pass that relocates or reverts, and
\* come in their order.
LEMMA UninstallStages ==
    ASSUME TypeOK, Protocol
    PROVE  /\ At("Subscription") => pc = "finalize" /\ relocation.selfDestruct /\ stage = 1
           /\ At("CSV") => pc = "finalize" /\ relocation.selfDestruct /\ stage = 2
<1>1. /\ \A i \in 1..18 : Pipeline[i] \notin {"Subscription", "CSV"}
      /\ \A i \in 1..12 : CleanupPipeline[i] \notin {"Subscription", "CSV"}
  BY DEF Pipeline, CleanupPipeline
<1>2. stage \in 1..18
  BY PipelineLength DEF TypeOK
<1>3. pc = "finalize" /\ ~relocation.selfDestruct => stage \in 1..12
  BY <1>2 DEF Protocol, StageBounds
<1>4. pc = "finalize" /\ relocation.selfDestruct => stage \in 1..3
  BY <1>2 DEF Protocol, StageBounds
<1> QED
  BY <1>1, <1>2, <1>3, <1>4, SelfDestructStages DEF At, Plan

\* The end of a finalization lets the object go only after the Subscription, unless the
\* object, and with it every copy, has no annotation.
LEMMA RemovalEnds ==
    ASSUME TypeOK, Protocol, Copies, Removal, RemoveFinalizer
    PROVE  Removal'
<1> USE NamesAssumption, NoneAssumption
<1>1. /\ pc = "finalize" /\ who \in Names /\ relocation \in CRs
      /\ cr[who] = relocation /\ pc' = "idle"
      /\ \A n \in Names : n # who => cr'[n] = cr[n]
      /\ UNCHANGED <<cache, subscription, csv>>
  BY DEF RemoveFinalizer, Return, Current, TypeOK, install, clusterVars
<1>2. Finalizing' /\ Removing'
  BY <1>1 DEF Finalizing, Removing
<1>3. CASE relocation.selfDestruct
  <2>1. stage # 1 /\ stage \in 1..18
    BY <1>1, <1>3, SelfDestructStages, PipelineLength DEF RemoveFinalizer, Plan, TypeOK
  <2>2. stage > 1
    BY <2>1
  <2>3. ~subscription
    BY <1>1, <1>3, <2>2 DEF Removal, Finalizing
  <2> QED
    BY <1>1, <1>2, <2>3 DEF Removal, StillThere
<1>4. CASE ~relocation.selfDestruct
  <2>1. ASSUME subscription, NEW n \in Names PROVE Keeps(cache[n], cr'[n])
    <3>1. CASE n # who
      BY <1>1, <2>1, <3>1 DEF Removal, StillThere
    <3>2. CASE n = who
      <4> SUFFICES ASSUME cache[n] # None, cache[n].deleting, cache[n].finalizer,
                          cache[n].selfDestruct
                   PROVE  FALSE
        BY DEF Keeps
      <4>1. cr[n] # None /\ cr[n].uid = cache[n].uid
        BY <2>1 DEF Removal, StillThere, Keeps
      <4>2. Older(cache[n], cr[n])
        BY DEF Copies, CopiesOlder
      <4> QED
        BY <1>1, <1>4, <3>2, <4>1, <4>2 DEF Older
    <3> QED
      BY <3>1, <3>2
  <2> QED
    BY <1>1, <1>2, <2>1 DEF Removal, StillThere
<1> QED
  BY <1>1, <1>3, <1>4 DEF CRs

\* Every step of the controller keeps to that.
LEMMA RemovalStep ==
    ASSUME TypeOK, TypeOK', Protocol, Copies, Removal, [Next]_vars
    PROVE  Removal'
<1> USE NamesAssumption, NoneAssumption
<1>1. CASE RemoveFinalizer
  BY <1>1, RemovalEnds
<1>2. CASE ~RemoveFinalizer
  <2>1. ObjectsStay
    BY <1>2, ObjectsStayStep
  <2>2. PassMoves
    BY PassMovesStep
  <2>0. pc = "finalize" => who \in Names
    BY DEF TypeOK
  <2> USE DEF Removal, Finalizing, StillThere, Removing, Keeps, ObjectsStay
  <2>3. CASE UNCHANGED <<cache, pc, who, stage, relocation, subscription, csv>>
    BY <2>0, <2>1, <2>3
  <2>4. ASSUME NEW n \in Names, Deliver(n) PROVE Removal'
    BY <2>0, <2>1, <2>4 DEF Deliver, TypeOK, worker, locals, apiVars, install
  <2>5. ASSUME NEW n \in Names, StartReconcile(n) PROVE Removal'
    <3>1. pc = "idle" /\ UNCHANGED <<cr, cache, subscription, csv, stage>>
      BY <2>5 DEF StartReconcile, apiVars, install, worker, locals
    <3>2. CASE pc' # "finalize"
      BY <3>1, <3>2
    <3>3. CASE pc' = "finalize"
      <4>1. /\ who' = n /\ relocation' = cache[n] /\ cache[n] \in CRs
            /\ cache[n].deleting /\ cache[n].finalizer
        BY <2>5, <3>1, <3>3 DEF StartReconcile, TypeOK, worker
      <4>2. stage = 1
        BY <3>1 DEF Protocol, StageBounds
      <4> QED
        BY <3>1, <4>1, <4>2
    <3> QED
      BY <3>2, <3>3
  <2>6. CASE DeleteSubscription
    <3>1. /\ UNCHANGED <<cr, cache, pc, who, relocation, csv>> /\ subscription' = FALSE
          /\ At("Subscription")
      BY <2>6 DEF DeleteSubscription, apiVars, informer
    <3>2. pc = "finalize" /\ relocation.selfDestruct /\ stage = 1
      BY <3>1, UninstallStages
    <3>3. subscription \/ stage' = 3
      BY <2>6, SelfDestructStages DEF DeleteSubscription
    <3> QED
      BY <3>1, <3>2, <3>3
  <2>7. CASE DeleteCSV
    <3>1. /\ UNCHANGED <<cr, cache, pc, who, relocation, subscription>>
          /\ stage' = stage + 1 /\ At("CSV")
      BY <2>7 DEF DeleteCSV, Advance, apiVars, informer
    <3>2. pc = "finalize" /\ relocation.selfDestruct /\ stage = 2
      BY <3>1, UninstallStages
    <3> QED
      BY <3>1, <3>2
  <2>8. CASE pc' = "idle" /\ cache' \in {cache, cr'} /\ UNCHANGED <<subscription, csv>>
    <3>1. CASE cache' = cache
      BY <2>1, <2>8, <3>1
    <3>2. CASE cache' = cr'
      BY <2>8, <3>2
    <3> QED
      BY <2>8, <3>1, <3>2
  <2>9. CASE pc # "finalize" /\ pc' # "finalize" /\ UNCHANGED <<cache, subscription, csv>>
    BY <2>1, <2>9
  <2>10. CASE /\ pc = "finalize" /\ ~relocation.selfDestruct
              /\ UNCHANGED <<cache, pc, who, relocation, subscription, csv>>
    BY <2>0, <2>1, <2>10
  <2> QED
    BY <1>2, <2>2, <2>3, <2>4, <2>5, <2>6, <2>7, <2>8, <2>9, <2>10 DEF PassMoves
<1> QED
  BY <1>1, <1>2

\* The operator is uninstalled only by the finalization of an annotated object that is
\* there and on its way out: whatever users create under any name, edit, annotate and
\* delete, whichever calls fail, wherever the pod restarts and however old the copies are
\* that a pass reads, an object that was let go without the annotation, or is gone and
\* created again, never takes the Subscription or the ClusterServiceVersion with it.
THEOREM UninstalledWhenAsked == Spec => UninstallsOnlyWhenAsked
<1> DEFINE IInv == TypeOK /\ Protocol /\ Copies /\ Removal
<1>1. Init => IInv
  BY InitHolds, CopiesInit, NamesAssumption, NoneAssumption
     DEF Init, Removal, Finalizing, StillThere, Removing, Keeps
<1>2. IInv /\ [Next]_vars => IInv'
  BY TypeStep, ProtocolStep, CopiesStep, RemovalStep
<1>3. IInv /\ [Next]_vars =>
         [subscription' # subscription \/ csv' # csv =>
             /\ cr[who] # None
             /\ cr[who].uid = relocation.uid
             /\ cr[who].deleting /\ cr[who].finalizer /\ cr[who].selfDestruct]_install
  <2> SUFFICES ASSUME IInv, [Next]_vars, subscription' # subscription \/ csv' # csv
               PROVE  /\ cr[who] # None
                      /\ cr[who].uid = relocation.uid
                      /\ cr[who].deleting /\ cr[who].finalizer /\ cr[who].selfDestruct
    OBVIOUS
  <2>1. \/ DeleteSubscription /\ subscription
        \/ DeleteCSV
    <3>1. DeleteSubscription \/ DeleteCSV
      BY PassMovesStep
         DEF PassMoves, Deliver, StartReconcile, RemoveFinalizer, install
    <3>2. DeleteSubscription => subscription' = FALSE /\ csv' = csv
      BY DEF DeleteSubscription
    <3> QED
      BY <3>1, <3>2 DEF TypeOK
  <2>2. pc = "finalize" /\ relocation.selfDestruct /\ Keeps(relocation, cr[who])
    <3>1. CASE DeleteSubscription /\ subscription
      BY <3>1, UninstallStages DEF DeleteSubscription, Removal, StillThere
    <3>2. CASE DeleteCSV
      BY <3>2, UninstallStages DEF DeleteCSV, Removal, Removing
    <3> QED
      BY <2>1, <3>1, <3>2
  <2>3. /\ relocation # None /\ relocation.deleting /\ relocation.finalizer
        /\ (cr[who] # None /\ cr[who].uid = relocation.uid) => cr[who].deleting
    BY <2>2, NoneAssumption DEF Protocol, SawDeletion, Removal, Finalizing, TypeOK
  <2>4. cr[who] # None /\ cr[who].uid = relocation.uid /\ cr[who].finalizer
    BY <2>2, <2>3 DEF Keeps
  <2>5. Older(relocation, cr[who])
    BY <2>2 DEF Copies, HeldOlder
  <2> QED
    BY <2>2, <2>3, <2>4, <2>5 DEF Older
<1> QED
  BY <1>1, <1>2, <1>3, PTL DEF Spec, UninstallsOnlyWhenAsked

==============================================================================
