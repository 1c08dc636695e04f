-------------------------- MODULE ClusterRelocation --------------------------
(***************************************************************************)
(* The controller of controllers/clusterrelocation_controller.go: the      *)
(* Reconcile loop over ClusterRelocation objects, its status and finalizer *)
(* protocol, the verification of the served domain, and self-destruction.  *)
(*                                                                         *)
(* One action is one call to the API server (or one wait) of a pass of     *)
(* Reconcile; users, the informer, the cluster operators, the garbage      *)
(* collector and OLM take steps between any two of them.  Each             *)
(* sub-reconciler (internal/...) is one stage here: it either brings its   *)
(* part of the cluster to what the spec asks for, or fails and may leave   *)
(* that part changed or not.                                               *)
(***************************************************************************)
EXTENDS Naturals, Sequences

CONSTANTS
    Names,              \* names of the ClusterRelocation objects users create
    Deletable,          \* names of those they delete again
    Specs,              \* the specs users write
    Original,           \* the cluster's configuration before any relocation
    SelfDestruct,       \* values the self-destruct annotation may take
    Lagging,            \* stages whose informer may lag behind their own writes
    None,               \* no object
    MaxUID,             \* bound: objects ever created
    MaxGeneration,      \* bound: generations of one object
    MaxFail,            \* bound: failing API calls, dials and waits
    MaxCrash            \* bound: restarts of the operator's pod

(***************************************************************************)
(* What the controller tells apart in a spec: the new domain, the common   *)
(* name of the certificate it configures (the domain when generated, what  *)
(* the user put in it when provided), and whether the two stages that are  *)
(* skipped when not asked for are asked for.                               *)
(***************************************************************************)
SpecRecords == [domain : STRING, commonName : STRING,
                addInternalDNSEntries : BOOLEAN, acmRegistration : BOOLEAN]

Conditions == [ready : {"Unknown", "False", "True"},
               reconciled : {None} \cup [status : BOOLEAN, observedGeneration : Nat]]

NoConditions == [ready |-> "Unknown", reconciled |-> None]

(***************************************************************************)
(* A ClusterRelocation: uid, spec, generation, relocationFinalizer,        *)
(* deletionTimestamp, the orphan finalizer a Delete with orphan propagation *)
(* adds, the annotation, and the status.                                   *)
(***************************************************************************)
CRs == [uid : Nat, spec : Specs, generation : Nat, finalizer : BOOLEAN,
        deleting : BOOLEAN, orphan : BOOLEAN, selfDestruct : BOOLEAN,
        status : Conditions]

\* Stages that write configuration, and those that finalizeRelocation reverts.
Applied   == {"DNS", "SSH", "Registry", "Mirror", "PullSecret", "Catalog",
              "Ingress", "API", "ACM"}
Reverted  == {"PullSecret", "Registry", "Ingress", "API"}
\* Stages whose configuration names a Secret the object owns.
Serving   == {"Ingress", "API"}
\* Stages that write a cluster object with CreateOrPatch: Get from the informer's
\* copy, patch the difference, nothing when there is none, no resourceVersion.
Patched   == {"Registry", "Ingress", "API"}

Configs == Specs \cup {Original}

ASSUME SpecsAssumption == /\ Specs \subseteq SpecRecords
                          /\ Original \in SpecRecords
ASSUME NamesAssumption == "cluster" \in Names /\ Deletable \subseteq Names
ASSUME SelfDestructAssumption == SelfDestruct \subseteq BOOLEAN
ASSUME NoneAssumption  == /\ None \notin CRs
                          /\ None \notin Configs
                          /\ None \notin Nat
                          /\ None \notin Names
                          /\ None \notin [status : BOOLEAN, observedGeneration : Nat]
ASSUME LaggingAssumption == Lagging \subseteq Patched
ASSUME BoundsAssumption == {MaxUID, MaxGeneration, MaxFail, MaxCrash} \subseteq Nat

(***************************************************************************)
(* The stages of a pass, in the order of the code.                         *)
(***************************************************************************)
Pipeline == <<"DNS", "LookupIP", "SSH", "Registry", "Mirror", "PullSecret",
              "Catalog", "Ingress", "API", "IngressCert", "IngressCO",
              "APICert", "APICO", "ListRoutes", "RoutesCO", "DeleteRoutes",
              "ACM", "Done">>

\* Mutant: one of the Cleanups is forgotten.
CleanupPipeline_NoRegistry ==
    <<"PullSecret", "Ingress", "API", "IngressCert", "IngressCO", "APICert", "APICO",
      "ListRoutes", "RoutesCO", "DeleteRoutes", "Done">>

CleanupPipeline == <<"PullSecret", "Registry", "Ingress", "API", "IngressCert",
                     "IngressCO", "APICert", "APICO", "ListRoutes", "RoutesCO",
                     "DeleteRoutes", "Done">>

SelfDestructPipeline == <<"Subscription", "CSV", "Done">>

\* The ClusterOperators waited for, the configuration each one rolls out.
Operators == {"ingress", "kube-apiserver", "openshift-apiserver"}
Follows   == [o \in Operators |-> IF o = "kube-apiserver" THEN "API" ELSE "Ingress"]

VARIABLES
    \* the API server
    cr,           \* cr[n]: the ClusterRelocation named n, or None
    uids,         \* objects created so far
    \* the controller's process
    cache,        \* cache[n]: what the informer has delivered of cr[n]
    queue,        \* names in the work queue
    pc, who,      \* where the worker is, and the name it reconciles
    stage,        \* index in the pipeline of the pass
    relocation,   \* the object the pass read (and its resourceVersion)
    conditions,   \* the conditions set in memory, not yet written
    result,       \* what Reconcile returns after the deferred status update
    listed,       \* the routes ResetRoutes listed
    \* the cluster
    config,       \* config[s]: the spec stage s last brought the cluster to
    seen,         \* seen[s]: the informer's copy of config[s], where it may lag
    secrets,      \* secrets[s]: owner uid of the serving Secret, 0 if orphaned
    served,       \* served[o]: the configuration operator o has rolled out
    progressing,  \* operators whose Progressing condition is True
    routes,       \* the configuration the default router's Routes were made
                  \* under, None between deletion and re-creation
    subscription, csv, up,   \* the operator's Subscription, CSV and process
    fails, crashes           \* failures and restarts so far

apiVars     == <<cr, uids>>
informer    == <<cache, queue>>
locals      == <<who, stage, relocation, conditions, result, listed>>
worker      == <<pc, locals>>
clusterVars == <<config, seen, secrets, served, progressing, routes>>
install     == <<subscription, csv, up>>
budgets     == <<fails, crashes>>
vars == <<apiVars, informer, worker, clusterVars, install, budgets>>

TypeOK ==
    /\ cr \in [Names -> CRs \cup {None}]
    /\ uids \in Nat
    /\ cache \in [Names -> CRs \cup {None}]
    /\ queue \subseteq Names
    /\ pc \in {"idle", "addFinalizer", "validate", "reconcile", "delete",
               "updateStatus", "finalize"}
    /\ who \in Names \cup {None}
    /\ pc # "idle" => who \in Names /\ relocation \in CRs
    /\ stage \in 1..Len(Pipeline)
    /\ relocation \in CRs \cup {None}
    /\ conditions \in Conditions
    /\ result \in {"ok", "retry"}
    /\ listed \in Configs \cup {None}
    /\ config \in [Applied -> Configs]
    /\ seen \in [Lagging -> Configs]
    /\ secrets \in [Serving -> Nat \cup {None}]
    /\ served \in [Operators -> Configs]
    /\ progressing \subseteq Operators
    /\ routes \in Configs \cup {None}
    /\ subscription \in BOOLEAN /\ csv \in BOOLEAN /\ up \in BOOLEAN
    /\ fails \in Nat /\ crashes \in Nat

Init ==
    /\ cr = [n \in Names |-> None] /\ uids = 0
    /\ cache = [n \in Names |-> None] /\ queue = {}
    /\ pc = "idle" /\ who = None /\ stage = 1 /\ relocation = None
    /\ conditions = NoConditions /\ result = "ok" /\ listed = None
    /\ config = [s \in Applied |-> Original]
    /\ seen = [s \in Lagging |-> Original]
    /\ secrets = [s \in Serving |-> None]
    /\ served = [o \in Operators |-> Original]
    /\ progressing = {} /\ routes = Original
    /\ subscription = TRUE /\ csv = TRUE /\ up = TRUE
    /\ fails = 0 /\ crashes = 0

-----------------------------------------------------------------------------
(* Users, through the API server.                                          *)

CreateCR(n) ==
    /\ cr[n] = None /\ uids < MaxUID
    /\ uids' = uids + 1
    /\ \E s \in Specs, d \in SelfDestruct :
          cr' = [cr EXCEPT ![n] =
                   [uid |-> uids + 1, spec |-> s, generation |-> 1,
                    finalizer |-> FALSE, deleting |-> FALSE, orphan |-> FALSE,
                    selfDestruct |-> d, status |-> NoConditions]]
    /\ UNCHANGED <<informer, worker, clusterVars, install, budgets>>

EditSpec(n) ==
    /\ cr[n] # None
    /\ cr[n].generation < MaxGeneration
    /\ \E s \in Specs \ {cr[n].spec} :
          cr' = [cr EXCEPT ![n].spec = s, ![n].generation = @ + 1]
    /\ UNCHANGED <<uids, informer, worker, clusterVars, install, budgets>>

Annotate(n) ==
    /\ TRUE \in SelfDestruct
    /\ cr[n] # None
    /\ ~cr[n].selfDestruct
    /\ cr' = [cr EXCEPT ![n].selfDestruct = TRUE]
    /\ UNCHANGED <<uids, informer, worker, clusterVars, install, budgets>>

\* kubectl delete: background propagation; finalizers keep the object.
DeleteCR(n) ==
    /\ n \in Deletable
    /\ cr[n] # None
    /\ ~cr[n].deleting
    /\ cr' = [cr EXCEPT ![n] = IF @.finalizer THEN [@ EXCEPT !.deleting = TRUE] ELSE None]
    /\ UNCHANGED <<uids, informer, worker, clusterVars, install, budgets>>

-----------------------------------------------------------------------------
(* The informer and the work queue.                                        *)

Deliver(n) ==
    /\ up
    /\ cache[n] # cr[n]
    /\ cache' = [cache EXCEPT ![n] = cr[n]]
    /\ queue' = queue \cup {n}
    /\ UNCHANGED <<apiVars, worker, clusterVars, install, budgets>>

\* An event of an owned or watched object, or the periodic resync.
Enqueue(n) ==
    /\ up
    /\ cache[n] # None
    /\ queue' = queue \cup {n}
    /\ UNCHANGED <<apiVars, cache, worker, clusterVars, install, budgets>>

\* The informer of the object stage s patches catches up.
Observe(s) ==
    /\ s \in Lagging
    /\ seen[s] # config[s]
    /\ seen' = [seen EXCEPT ![s] = config[s]]
    /\ UNCHANGED <<apiVars, informer, worker, config, secrets, served, progressing, routes,
                   install, budgets>>

-----------------------------------------------------------------------------
(* A pass of Reconcile.                                                    *)

\* Return: the locals go out of scope, an error or Requeue re-adds the name.
Return(requeue) ==
    /\ pc' = "idle" /\ who' = None /\ stage' = 1 /\ relocation' = None
    /\ conditions' = NoConditions /\ result' = "ok" /\ listed' = None
    /\ queue' = IF requeue THEN queue \cup {who} ELSE queue

\* The injected failure of a call, a dial or a wait.
Fail == fails < MaxFail /\ fails' = fails + 1 /\ UNCHANGED crashes

\* The stages of this pass.
Plan == IF pc = "reconcile" THEN Pipeline
        ELSE IF relocation.selfDestruct THEN SelfDestructPipeline ELSE CleanupPipeline

\* The object the pass holds is still the stored one: no update conflict.
Current == cr[who] = relocation

\* Mutant: a Get that finds nothing is not told from one that finds the object.
StartReconcile_FoundAssumed(n) ==
    /\ up /\ pc = "idle" /\ n \in queue
    /\ queue' = queue \ {n}
    /\ pc' = "addFinalizer"
    /\ who' = n
    /\ relocation' = cache[n]
    /\ UNCHANGED <<stage, conditions, result, listed, apiVars, cache, clusterVars, install,
                   budgets>>

\* Mutant: the work begins before the object has the finalizer.
StartReconcile_Unadopted(n) ==
    /\ up /\ pc = "idle" /\ n \in queue
    /\ queue' = queue \ {n}
    /\ LET read == cache[n] IN
       IF read = None \/ (read # None /\ read.deleting /\ ~read.finalizer)
       THEN UNCHANGED worker
       ELSE /\ pc' = IF read.deleting THEN "finalize" ELSE "validate"
            /\ who' = n
            /\ relocation' = read
            /\ conditions' = read.status
            /\ UNCHANGED <<stage, result, listed>>
    /\ UNCHANGED <<apiVars, cache, clusterVars, install, budgets>>

StartReconcile(n) ==
    /\ up /\ pc = "idle" /\ n \in queue
    /\ queue' = queue \ {n}
    /\ LET read == cache[n] IN
       IF read = None \/ (read # None /\ read.deleting /\ ~read.finalizer)
       THEN UNCHANGED worker
       ELSE /\ pc' = IF read.deleting THEN "finalize"
                     ELSE IF read.finalizer THEN "validate" ELSE "addFinalizer"
            /\ who' = n
            /\ relocation' = read
            /\ conditions' = read.status
            /\ UNCHANGED <<stage, result, listed>>
    /\ UNCHANGED <<apiVars, cache, clusterVars, install, budgets>>

\* Mutant: the object is written back whatever has become of it meanwhile.
AddFinalizer_NoConflict ==
    /\ pc = "addFinalizer"
    /\ cr[who] # None
    /\ LET updated == [relocation EXCEPT !.finalizer = TRUE] IN
       /\ cr' = [cr EXCEPT ![who] = updated]
       /\ relocation' = updated
    /\ pc' = "validate"
    /\ UNCHANGED <<uids, informer, who, stage, conditions, result, listed,
                   clusterVars, install, budgets>>

AddFinalizer ==
    /\ pc = "addFinalizer"
    /\ Current
    /\ LET updated == [relocation EXCEPT !.finalizer = TRUE] IN
       /\ cr' = [cr EXCEPT ![who] = updated]
       /\ relocation' = updated
    /\ pc' = "validate"
    /\ UNCHANGED <<uids, informer, who, stage, conditions, result, listed,
                   clusterVars, install, budgets>>

\* An Update that meets a newer resourceVersion, before the status is deferred
\* or in the finalizer: Reconcile returns the error.
UpdateConflict ==
    /\ \/ pc = "addFinalizer"
       \/ pc = "finalize" /\ Plan[stage] = "Done"
    /\ ~Current
    /\ Return(TRUE)
    /\ UNCHANGED <<apiVars, cache, clusterVars, install, budgets>>

AddFinalizerFails ==
    /\ pc = "addFinalizer"
    /\ Fail
    /\ Return(TRUE)
    /\ UNCHANGED <<apiVars, cache, clusterVars, install>>

\* Mutant: the condition does not say which generation it is about.
SetReconciled_NoGeneration(ok) ==
    [conditions EXCEPT !.reconciled = [status |-> ok, observedGeneration |-> 0]]

SetReconciled(ok) ==
    [conditions EXCEPT !.reconciled =
        [status |-> ok, observedGeneration |-> relocation.generation]]

\* validateCR, the ClusterVersion read and the check of the last generation seen.
Validate ==
    /\ pc = "validate"
    /\ LET ready == [conditions EXCEPT !.ready = IF who = "cluster" THEN "True" ELSE "False"]
           last  == conditions.reconciled
       IN \/ /\ who # "cluster"
             /\ pc' = "updateStatus" /\ conditions' = ready
             /\ UNCHANGED <<result, fails>>
          \/ /\ who = "cluster"
             /\ \/ last = None
                \/ last # None /\ last.observedGeneration < relocation.generation
             /\ pc' = "updateStatus" /\ result' = "retry"
             /\ conditions' = [SetReconciled(FALSE) EXCEPT !.ready = "True"]
             /\ UNCHANGED fails
          \/ /\ who = "cluster"
             /\ last # None
             /\ last.observedGeneration >= relocation.generation
             /\ pc' = "reconcile" /\ conditions' = ready
             /\ UNCHANGED <<result, fails>>
          \/ /\ who = "cluster"
             /\ fails < MaxFail /\ fails' = fails + 1
             /\ pc' = "updateStatus" /\ conditions' = ready /\ result' = "retry"
    /\ UNCHANGED <<apiVars, informer, who, stage, relocation, listed,
                   clusterVars, install, crashes>>

(***************************************************************************)
(* The stages.  Reconcile and finalizeRelocation call the same verifyDomain *)
(* and ResetRoutes, with the new domain and with the cluster's own one.    *)
(***************************************************************************)
At(s) == pc \in {"reconcile", "finalize"} /\ Plan[stage] = s
Target == IF pc = "reconcile" THEN relocation.spec ELSE Original
Advance == stage' = stage + 1 /\ UNCHANGED <<pc, who, relocation, conditions, result>>

\* Stages that return at once when the spec does not ask for them.
Skipped(s) == \/ s = "DNS" /\ ~relocation.spec.addInternalDNSEntries
              \/ s = "ACM" /\ ~relocation.spec.acmRegistration

\* What the stage reads back of its own last write.
View(s) == IF s \in Lagging THEN seen[s] ELSE config[s]

\* The configuration a stage leaves: the target, unless the spec does not ask
\* for the stage or the copy it compares with already shows the target.
Written(s) ==
    IF (pc = "reconcile" /\ Skipped(s)) \/ View(s) = Target THEN config
    ELSE [config EXCEPT ![s] = Target]

\* Mutant: an ownerReference found on the Secret is kept as it is.
Apply_KeepsOwner(s) ==
    /\ At(s)
    /\ config' = Written(s)
    /\ secrets' = IF pc = "reconcile" /\ s \in Serving /\ secrets[s] = None
                  THEN [secrets EXCEPT ![s] = relocation.uid] ELSE secrets
    /\ Advance
    /\ UNCHANGED <<apiVars, informer, listed, seen, served, progressing, routes, install,
                   budgets>>

\* A sub-reconciler, or its Cleanup, succeeds.
Apply(s) ==
    /\ At(s)
    /\ config' = Written(s)
    /\ secrets' = IF pc = "reconcile" /\ s \in Serving
                  THEN [secrets EXCEPT ![s] = relocation.uid] ELSE secrets
    /\ Advance
    /\ UNCHANGED <<apiVars, informer, listed, seen, served, progressing, routes, install,
                   budgets>>

\* net.LookupIP finds both names of the new domain.
LookupIP ==
    /\ At("LookupIP")
    /\ Advance
    /\ UNCHANGED <<apiVars, informer, listed, clusterVars, install, budgets>>

\* Mutant: the finalizer, too, waits for the certificate of the new domain.
VerifyCert_NewDomain(s, o) ==
    /\ At(s)
    /\ served[o].commonName = relocation.spec.domain
    /\ Advance
    /\ UNCHANGED <<apiVars, informer, listed, clusterVars, install, budgets>>

\* verifyDomain's loop leaves when a served certificate has the common name;
\* it has no other exit than a failing dial.
VerifyCert(s, o) ==
    /\ At(s)
    /\ served[o].commonName = Target.domain
    /\ Advance
    /\ UNCHANGED <<apiVars, informer, listed, clusterVars, install, budgets>>

\* util.WaitForCO: Progressing is False and Available is True.
WaitForCO(s, o) ==
    /\ At(s)
    /\ o \notin progressing
    /\ Advance
    /\ UNCHANGED <<apiVars, informer, listed, clusterVars, install, budgets>>

ListRoutes ==
    /\ At("ListRoutes")
    /\ listed' = routes
    /\ Advance
    /\ UNCHANGED <<apiVars, informer, clusterVars, install, budgets>>

\* The routes listed before the wait are deleted unless they have the domain.
DeleteRoutes ==
    /\ At("DeleteRoutes")
    /\ routes' = IF listed # None /\ listed.domain # Target.domain THEN None ELSE routes
    /\ listed' = None
    /\ Advance
    /\ UNCHANGED <<apiVars, informer, config, seen, secrets, served, progressing, install,
                   budgets>>

\* Mutant: the failure of a stage is recorded but the pass goes on to its end.
StageFails_NoReturn ==
    /\ pc \in {"reconcile", "finalize"} /\ Plan[stage] # "Done"
    /\ Fail
    /\ stage' = Len(Plan)
    /\ UNCHANGED <<apiVars, informer, pc, who, relocation, conditions, result, listed,
                   clusterVars, install>>

\* A stage fails, having done none, some or all of its writes (a serving
\* Secret is written before the configuration that names it).
StageFails ==
    /\ pc \in {"reconcile", "finalize"} /\ Plan[stage] # "Done"
    /\ Fail
    /\ LET s == Plan[stage] IN
       \/ UNCHANGED <<config, secrets, routes>>
       \/ /\ s = "DeleteRoutes"
          /\ listed # None /\ listed.domain # Target.domain
          /\ routes' = None
          /\ UNCHANGED <<config, secrets>>
       \/ /\ s \in Serving /\ pc = "reconcile"
          /\ secrets' = [secrets EXCEPT ![s] = relocation.uid]
          /\ UNCHANGED <<config, routes>>
       \/ /\ s \in Applied
          /\ config' = Written(s)
          /\ secrets' = IF pc = "reconcile" /\ s \in Serving
                        THEN [secrets EXCEPT ![s] = relocation.uid] ELSE secrets
          /\ UNCHANGED routes
    /\ IF pc = "reconcile"
       THEN /\ pc' = "updateStatus" /\ conditions' = SetReconciled(FALSE) /\ result' = "retry"
            /\ UNCHANGED <<queue, who, stage, relocation, listed>>
       ELSE Return(TRUE)
    /\ UNCHANGED <<apiVars, cache, seen, served, progressing, install>>

Succeed ==
    /\ pc = "reconcile" /\ Plan[stage] = "Done"
    /\ conditions' = SetReconciled(TRUE)
    /\ pc' = IF relocation.selfDestruct THEN "delete" ELSE "updateStatus"
    /\ UNCHANGED <<apiVars, informer, who, stage, relocation, result, listed,
                   clusterVars, install, budgets>>

\* Mutant: self-destruct deletes with the default, background, propagation.
DeleteSelf_Background ==
    /\ pc = "delete"
    /\ cr' = [cr EXCEPT ![who].deleting = TRUE]
    /\ pc' = "updateStatus"
    /\ UNCHANGED <<uids, informer, who, stage, relocation, conditions, result, listed,
                   clusterVars, install, budgets>>

\* self-destruct: Delete with orphan propagation, which checks no resourceVersion.
DeleteSelf ==
    /\ pc = "delete"
    /\ \/ /\ cr' = [cr EXCEPT ![who].deleting = TRUE, ![who].orphan = TRUE]
          /\ UNCHANGED <<result, fails>>
       \/ /\ fails < MaxFail /\ fails' = fails + 1
          /\ result' = "retry" /\ UNCHANGED cr
    /\ pc' = "updateStatus"
    /\ UNCHANGED <<uids, informer, who, stage, relocation, conditions, listed,
                   clusterVars, install, crashes>>

\* The deferred status update: a conflict or an error is logged, not returned.
UpdateStatus ==
    /\ pc = "updateStatus"
    /\ \/ /\ Current
          /\ cr' = [cr EXCEPT ![who].status = conditions]
          /\ UNCHANGED fails
       \/ ~Current /\ UNCHANGED <<cr, fails>>
       \/ fails < MaxFail /\ fails' = fails + 1 /\ UNCHANGED cr
    /\ Return(result = "retry")
    /\ UNCHANGED <<uids, cache, clusterVars, install, crashes>>

-----------------------------------------------------------------------------
(* The end of finalizeRelocation.                                          *)

\* The operator's Subscription is listed and deleted; with none listed, the
\* loop over them deletes nothing.
DeleteSubscription ==
    /\ At("Subscription")
    /\ subscription' = FALSE
    /\ stage' = IF subscription THEN stage + 1 ELSE Len(SelfDestructPipeline)
    /\ UNCHANGED <<apiVars, informer, pc, who, relocation, conditions, result, listed,
                   clusterVars, csv, up, budgets>>

DeleteCSV ==
    /\ At("CSV")
    /\ csv' = FALSE
    /\ Advance
    /\ UNCHANGED <<apiVars, informer, listed, clusterVars, subscription, up, budgets>>

\* Mutant: the finalizer is removed whatever has become of the object meanwhile.
RemoveFinalizer_NoConflict ==
    /\ pc = "finalize" /\ Plan[stage] = "Done"
    /\ cr[who] # None
    /\ cr' = [cr EXCEPT ![who] = IF @.orphan THEN [@ EXCEPT !.finalizer = FALSE] ELSE None]
    /\ Return(FALSE)
    /\ UNCHANGED <<uids, cache, clusterVars, install, budgets>>

RemoveFinalizer ==
    /\ pc = "finalize" /\ Plan[stage] = "Done"
    /\ Current
    /\ cr' = [cr EXCEPT ![who] = IF @.orphan THEN [@ EXCEPT !.finalizer = FALSE] ELSE None]
    /\ Return(FALSE)
    /\ UNCHANGED <<uids, cache, clusterVars, install, budgets>>

RemoveFinalizerFails ==
    /\ pc = "finalize" /\ Plan[stage] = "Done"
    /\ Fail
    /\ Return(TRUE)
    /\ UNCHANGED <<apiVars, cache, clusterVars, install>>

-----------------------------------------------------------------------------
(* The rest of the cluster.                                                *)

OperatorStarts(o) ==
    /\ o \notin progressing
    /\ served[o] # config[Follows[o]]
    /\ progressing' = progressing \cup {o}
    /\ UNCHANGED <<apiVars, informer, worker, config, seen, secrets, served, routes, install,
                   budgets>>

OperatorFinishes(o) ==
    /\ o \in progressing
    /\ progressing' = progressing \ {o}
    /\ served' = [served EXCEPT ![o] = config[Follows[o]]]
    /\ UNCHANGED <<apiVars, informer, worker, config, seen, secrets, routes, install, budgets>>

\* Deleted routes come back under the domain openshift-apiserver hands out.
RecreateRoutes ==
    /\ routes = None
    /\ routes' = served["openshift-apiserver"]
    /\ UNCHANGED <<apiVars, informer, worker, config, seen, secrets, served, progressing,
                   install, budgets>>

\* Garbage collection of a Secret whose owner no longer exists.
Collect(s) ==
    /\ secrets[s] \notin {None, 0}
    /\ \A n \in Names : cr[n] = None \/ (cr[n] # None /\ cr[n].uid # secrets[s])
    /\ secrets' = [secrets EXCEPT ![s] = None]
    /\ UNCHANGED <<apiVars, informer, worker, config, seen, served, progressing, routes,
                   install, budgets>>

\* Orphaning: owner references go first, then the orphan finalizer.
OrphanDependents(n) ==
    /\ cr[n] # None
    /\ cr[n].orphan
    /\ secrets' = [s \in Serving |-> IF secrets[s] = cr[n].uid THEN 0 ELSE secrets[s]]
    /\ cr' = [cr EXCEPT ![n] = IF @.finalizer THEN [@ EXCEPT !.orphan = FALSE] ELSE None]
    /\ UNCHANGED <<uids, informer, worker, config, seen, served, progressing, routes,
                   install, budgets>>

\* OLM removes the Deployment of a deleted CSV, wherever the worker is.
StopOperator ==
    /\ ~csv /\ up
    /\ up' = FALSE
    /\ pc' = "idle" /\ who' = None /\ stage' = 1 /\ relocation' = None
    /\ conditions' = NoConditions /\ result' = "ok" /\ listed' = None
    /\ queue' = {}
    /\ UNCHANGED <<apiVars, cache, clusterVars, subscription, csv, budgets>>

\* The pod restarts: the new process lists all objects and enqueues them.
Restart ==
    /\ up /\ crashes < MaxCrash
    /\ crashes' = crashes + 1
    /\ pc' = "idle" /\ who' = None /\ stage' = 1 /\ relocation' = None
    /\ conditions' = NoConditions /\ result' = "ok" /\ listed' = None
    /\ cache' = cr
    /\ queue' = {n \in Names : cr[n] # None}
    /\ seen' = [s \in Lagging |-> config[s]]
    /\ UNCHANGED <<apiVars, config, secrets, served, progressing, routes, install, fails>>

-----------------------------------------------------------------------------
Worker ==
    \/ \E n \in Names : StartReconcile(n)
    \/ AddFinalizer
    \/ UpdateConflict
    \/ Validate
    \/ \E s \in Applied : Apply(s)
    \/ LookupIP
    \/ VerifyCert("IngressCert", "ingress") \/ VerifyCert("APICert", "kube-apiserver")
    \/ WaitForCO("IngressCO", "ingress") \/ WaitForCO("APICO", "kube-apiserver")
    \/ WaitForCO("RoutesCO", "openshift-apiserver")
    \/ ListRoutes
    \/ DeleteRoutes
    \/ Succeed
    \/ DeleteSelf
    \/ UpdateStatus
    \/ DeleteSubscription
    \/ DeleteCSV
    \/ RemoveFinalizer

Failures == AddFinalizerFails \/ StageFails \/ RemoveFinalizerFails \/ Restart

Users == \E n \in Names : CreateCR(n) \/ EditSpec(n) \/ Annotate(n) \/ DeleteCR(n)

Rollout == \E o \in Operators : OperatorStarts(o) \/ OperatorFinishes(o)

Cluster == \/ Rollout
           \/ RecreateRoutes
           \/ \E s \in Serving : Collect(s)
           \/ \E n \in Names : OrphanDependents(n)
           \/ StopOperator

Next == \/ Worker \/ Failures \/ Users \/ Cluster
        \/ \E n \in Names : Deliver(n) \/ Enqueue(n)
        \/ \E s \in Lagging : Observe(s)

Spec == Init /\ [][Next]_vars

Fairness == /\ WF_vars(Worker)
            /\ WF_vars(Cluster)
            /\ \A n \in Names : WF_vars(Deliver(n)) /\ WF_vars(Enqueue(n))
            /\ \A s \in Lagging : WF_vars(Observe(s))
            /\ \A o \in Operators : WF_vars(OperatorStarts(o) \/ OperatorFinishes(o))

FairSpec == Spec /\ Fairness

-----------------------------------------------------------------------------
(* Properties.                                                             *)

\* What "Reconciled" claims of an object: this generation was reconciled.
Reconciled(c) == /\ c # None
                 /\ ~c.deleting
                 /\ c.status.reconciled # None
                 /\ c.status.reconciled.status
                 /\ c.status.reconciled.observedGeneration = c.generation

(* README: "When you delete the ClusterRelocation CR, everything will be    *)
(* reverted".  Whatever finalizeRelocation is responsible for differs from  *)
(* the original only while the object exists and carries the finalizer, or  *)
(* after a self-destruction, which keeps the new configuration.             *)
RevertedWhenGone ==
    (\E s \in Reverted : config[s] # Original) =>
        \/ cr["cluster"] # None /\ cr["cluster"].finalizer
        \/ ~subscription

(* A status of True for the object's current generation is true: every      *)
(* stage left the cluster as that very spec asks, whatever stale copies,    *)
(* edits during a pass, failures and restarts came before.                  *)
StatusTruthful ==
    Reconciled(cr["cluster"]) =>
        LET spec == cr["cluster"].spec IN
        \A s \in Applied : \/ config[s] = spec
                           \/ s = "DNS" /\ ~spec.addInternalDNSEntries
                           \/ s = "ACM" /\ ~spec.acmRegistration

(* The ingress controller and the API server are never configured with a    *)
(* certificate Secret that has been garbage collected with its owner.       *)
NoDanglingSecret ==
    \A s \in Serving : config[s] # Original => secrets[s] # None

(* As long as the operator is installed that holds whatever users annotate,  *)
(* delete and edit and whichever calls fail: a Secret is orphaned or has a   *)
(* living owner until the finalizer has taken its name out of the            *)
(* configuration, or has begun to uninstall the operator.                    *)
NoDanglingWhileInstalled ==
    subscription => \A s \in Serving : config[s] # Original => secrets[s] # None

(* A user's edit is never overwritten by the controller writing back an     *)
(* older copy: within an object the generation only grows, and the spec     *)
(* changes with it.                                                         *)
EditsSurvive ==
    [][\A n \in Names :
          cr[n] # None /\ cr'[n] # None /\ cr'[n].uid = cr[n].uid =>
             /\ cr'[n].generation >= cr[n].generation
             /\ cr'[n].spec # cr[n].spec => cr'[n].generation > cr[n].generation]_cr

(* A deleted object goes away: the finalizer never waits for ever.          *)
DeletionCompletes ==
    \A n \in Names : (cr[n] # None /\ cr[n].deleting) ~> (cr[n] = None)

(* An object that is not deleted is reconciled, and says so, once users     *)
(* stop editing it: a lost status update does not leave it unreconciled.    *)
EventuallyReconciled ==
    (cr["cluster"] # None) ~> \/ cr["cluster"] = None \/ cr["cluster"].deleting
                              \/ Reconciled(cr["cluster"])

(* Routes that were deleted "so that [they] can be re-created with new      *)
(* domain" do come back with it once the object is reconciled.              *)
RoutesFollowDomain ==
    Reconciled(cr["cluster"]) => \/ routes = None
                                 \/ routes.domain = cr["cluster"].spec.domain

(* README: "This annotation will cause the operator to delete itself (the   *)
(* CR and the Subscription) once the reconciliation has completed".  The     *)
(* operator is uninstalled only by a finalization of an object that is still *)
(* there, on its way out and annotated: not for an old copy of one that is   *)
(* gone or was let go without the annotation.                                *)
UninstallsOnlyWhenAsked ==
    [][subscription' # subscription \/ csv' # csv =>
         /\ cr[who] # None
         /\ cr[who].uid = relocation.uid
         /\ cr[who].deleting /\ cr[who].finalizer /\ cr[who].selfDestruct]_install

(* "If the finalization logic fails, don't remove the finalizer so that we   *)
(* can retry": once the object is gone and the Subscription deleted, the     *)
(* ClusterServiceVersion is deleted too.                                     *)
OperatorRemoved == cr["cluster"] = None /\ ~subscription => ~csv
==============================================================================
