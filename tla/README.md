# A verification of the cluster relocation operator

The operator (`src/`) moves an installed OpenShift cluster to a new domain. A user
creates one cluster-scoped `ClusterRelocation` object named `cluster`; the controller
reconfigures certificates, the ingress and the API server, the registry, mirrors,
catalogs, the pull secret, DNS and SSH, waits until the new domain is served, and says so
in the object's status. Deleting the object reverts the cluster; an annotation makes the
operator remove itself instead.

This directory holds TLA+ modules translated from that source, TLC runs over small
instances, and TLAPS proofs for all instances. `PROJECT.json` maps every definition to
the lines it models and lists runs, mutants, findings, hazards and theorems.

## 1. Inventory

| Component | Source | State it keeps | Operations |
|---|---|---|---|
| Controller | `controllers/clusterrelocation_controller.go` | the object's finalizer and conditions; `WatchingIDMS` in memory | `Reconcile`, `validateCR`, `updateStatus`, `finalizeRelocation`, `verifyDomain`, self-destruction |
| Pull secret | `internal/pullSecret` | `pull-secret`, `backup-pull-secret` | `Reconcile` (back up, own the user's Secret, replace), `Cleanup` (restore, delete the backup) |
| Secrets | `internal/secrets` | any Secret, with its owner | `CopySecret`, `ValidateSecretType`, `GenerateTLSKeyPair`, `GetCertCommonName` |
| Ingress | `internal/ingress` | two certificate Secrets, the `IngressController`, the `Ingress` config, Routes | `Reconcile`, `Cleanup`, `ResetRoutes` |
| API certificate | `internal/api` | a certificate Secret, the `APIServer` config | `Reconcile`, `Cleanup` |
| Registry certificate | `internal/registryCert` | a ConfigMap, the `Image` config | `Reconcile`, `Cleanup` |
| Waiting | `internal/util` | none | `WaitForCO` |
| DNS | `internal/dns` | a `MachineConfig`; it waits for the `MachineConfigPool` | `Reconcile` |
| SSH | `internal/ssh` | two `MachineConfig`s | `Reconcile`, `Cleanup` |
| Mirrors | `internal/mirror` | one of two kinds of mirror set, by cluster version | `Reconcile`, `Cleanup` |
| Catalogs | `internal/catalog` | `CatalogSource`s, the marketplace namespace | `Reconcile`, `Cleanup` |
| ACM | `internal/acm` | CRDs, a Klusterlet, a ManagedCluster on the hub, credentials | `Reconcile`, `checkKlusterlet` |
| API types | `api/v1beta1` | the spec and status | none |
| Start-up | `main.go` | none | wiring of controller-runtime |

How they interact. controller-runtime runs one worker, which takes a name from a queue
and calls `Reconcile`. A pass reads the object from an informer, which may be behind the
API server; calls the packages above one after the other; and returns at the first error.
Other actors work on the same objects meanwhile: users edit, annotate and delete; the
cluster operators roll out configuration in their own time; the garbage collector deletes
what an object owns, or removes the owner after an orphaning delete; OLM stops the
operator once its ClusterServiceVersion is deleted; and the pod may restart at any point
(the operator changes certificates of the very API server it talks to).

What is hard: a pass lasts many minutes, so the object it read is old when its status is
written; finalizer, deletion, orphaning and collection are a protocol between four
processes; each write can be the last one before a restart; reads come from lagging
caches; two waits have no effective timeout and hold the only worker.

What correct means, per component:

* Controller: a `Reconciled` status is true of the spec it is about; no edit is
  overwritten; nothing stays changed after a deletion; a deletion ends; an object is
  reconciled in the end; self-destruction leaves a working cluster without the operator.
* Pull secret: the original is never lost, is restored, and the user's Secret stays the
  user's.
* Ingress and API certificate: what they configure names a Secret that exists; routes
  have the domain of the configuration.
* Waiting, DNS: a wait ends, and only after what it waits for has happened.
* Mirrors, catalogs, SSH: the cluster has what the spec asks for and no longer what it no
  longer asks for; mirror sets of the two kinds never meet.
* ACM: a registration that is reported has happened, and the credentials are deleted only
  then.

## 2. Modules

| Module | What it is |
|---|---|
| `ClusterRelocation` | The controller: objects, informer, queue, worker, the stages of a pass as one step each, the finalizer, the cluster around it. |
| `Lifecycle` | The abstract specification: what the controller promises a stage about the object, its copies, and the pass that works on it. |
| `RelocationLifecycle` | The refinement mapping from `ClusterRelocation` to `Lifecycle`. |
| `Stage` | A pass as a program of calls on objects, against an API server and informers that lag; extends `Lifecycle`. |
| `Serving` | Registry, ingress and API certificates, on `Stage`. |
| `Resources` | SSH keys, mirrors, catalogs, cluster upgrades and the watch set up at run time, on `Stage`. |
| `PullSecret` | The pull secret, on `Stage`. |
| `DNS` | The DNS entries, the wait, the lookups, the machine config operator and the reboot, on `Stage`. |
| `ACM` | The registration with a hub, on `Stage`. |
| `MC...` | Values for TLC, one module for each of the modules that are run. |
| `ClusterRelocationProofs`, `RelocationLifecycleProofs` | The theorems about the controller, and that it implements `Lifecycle`. |
| `StageProofs` | What every stage can rely on: the theorem about `Lifecycle`, and lemmas about the calls of `Stage`. |
| `ServingProofs`, `ResourcesProofs`, `PullSecretProofs`, `DNSProofs`, `ACMProofs` | The theorems about the stages. |

So the system is checked in two halves that meet in `Lifecycle`. `ClusterRelocation` has
the whole controller with each sub-reconciler as one step, and implements `Lifecycle` (the
run `edits` checks it, `RefinesLifecycle` proves it). The other modules have `Lifecycle` as
their surroundings, and one group of sub-reconcilers call by call; each of them is proved to
implement `Lifecycle` as well, so that no stage does more to the object than the controller
may. Sub-reconcilers are grouped where they share
objects or an actor around them: certificates and the configuration that names them; what
is made from the spec and removed again; and three with a protocol of their own.

Definitions named `X_Something` stand before a definition `X`, under a comment "Mutant".
They are not part of the model: each is a plausible bug, and replacing `X` by it must
violate the property `PROJECT.json` pairs it with.

### ClusterRelocation

* **The object** (`cr[n]`) has the uid, spec, generation, finalizer, deletion timestamp,
  orphan finalizer, annotation and conditions. Two copies of it matter: the informer's
  (`cache[n]`) and the one a pass holds (`relocation`). An `Update` succeeds only when the
  held copy is the stored one (`Current`), which stands for the resourceVersion. A spec
  is abstracted to its domain, the common name of the certificate it leads to, and
  whether DNS entries and ACM registration are asked for.
* **A pass** is `StartReconcile`, `AddFinalizer`, `Validate`, then the stages of
  `Pipeline` in the code's order, `Succeed`, with self-destruction `DeleteSelf`, and the
  deferred `UpdateStatus`. The finalizer's pass goes through `CleanupPipeline`, or
  `SelfDestructPipeline`, and ends in `RemoveFinalizer`. The first pass over a new
  generation only records the generation and asks for a requeue, as the code does.
* **A sub-reconciler is one step** (`Apply`): it brings `config[s]` to what the spec asks
  for. `StageFails` is the failure of any stage, with none, some or all of its writes
  done: a serving Secret may be written and the configuration that names it not.
  `Lagging` names the stages whose `CreateOrPatch` may compare with an old copy
  (`seen`), and then patches nothing. Their ownership of Secrets is kept: `secrets[s]` is
  the uid of the owner.
* **Waits** are guards: `VerifyCert` is the loop of `verifyDomain`, `WaitForCO` a poll for
  `Progressing = False`. Operators begin (`OperatorStarts`) and end (`OperatorFinishes`)
  rollouts in their own time, so `Progressing` is also False before they have noticed a
  change. `ResetRoutes` is `ListRoutes`, a wait, `DeleteRoutes`: what it deletes is what it
  listed before the wait.
* **The rest of the cluster** (marked external in the map): users, `Deliver`, `Enqueue`,
  `Collect`, `OrphanDependents`, `StopOperator`, `Restart`.

### Lifecycle and RelocationLifecycle

`Lifecycle` keeps of the controller: the object `cr` named "cluster" with its uid, spec,
generation, finalizer and deletion, and of its status only whether it says `Reconciled` of
the current generation; `known`, the informer's copy; `queued`; and `pass`, the copy a pass
holds once it has made sure of the finalizer. Its steps are those a stage can notice:
`CreateOther` (an object of another name takes a uid),
`Adopt` (the finalizer is stored, and the pass holds it), `Report` (the status is written,
only over the very version that was read), `Finish` (the finalizer is removed, only by a
pass that saw the deletion), `End`, `Restart`, and what users and the informer do.
`RelocationLifecycle` maps a pass of `ClusterRelocation` to `pass` when it is for "cluster"
and past `AddFinalizer`. `Abort` and `Complete` put these steps together to the two ways a
pass over a stage ends: an error, or success.

### Stage

A pass has a list of calls (`todo`), each a record of what to do, on which object, with
what. One step makes one call: `Put` (CreateOrUpdate of an object with an owner), `Patch`
(CreateOrPatch of a cluster object), `Erase` (Delete), `Validate` (ValidateSecretType),
`Read`, `Own` and `Paste` (the three parts of CopySecret). An error ends the pass
(`Fails`). `store` is what the API server has, `behind` the earlier stores the informers
have yet to replace, so that reads see `cache`, the oldest of them. `CreateOrUpdate` is a
Create (refused when the object exists), no call (when the copy is already as wanted) or an
Update (refused when the copy is old). `CallFails` is a failing call, `Crash` a restart.

There is no step that starts a pass out of nothing. A pass begins on an event of the
ClusterRelocation or of a watched object with an ownerReference to it (`Event`, which is
`EnqueueRequestForOwner`), on a retry after an error, or on a restart: controller-runtime's
resync of ten hours is left out, so liveness here shows that the events suffice. This is
what makes the ownerReference on the user's Secrets, the watch of `SetupWithManager` and
the requeue of errors necessary; the mutant `Own_ReadOnly` breaks the first of them.

A first pass over a new generation only sets "in progress" and requeues; in `Stage` it is
one with the pass it requeues.

### The stages

Each of the five modules has a `Plan`, the calls of a pass for a spec in the code's order,
and a call of its own where `Stage` has none: `Generate` (a certificate is kept while its
common name fits), `Prune` (CatalogSources listed as the controller's and not in the spec),
`Backup` and `Cleanup` of the pull secret, `ListNodes`, `WaitForPool` and `Lookup`, and in
`ACM` all calls to the hub.

* `Serving`: cluster objects hold `<<domain, name>>`. A certificate is a name and a key, so
  that two copies can be told to be of one certificate. Users rotate, replace and delete
  theirs, and delete the controller's. `Spec`, which TLC runs, has informers that are up to
  date; `LateSpec`, which the theorems are about, also has their deliveries, at any lag.
* `Resources`: `release` walks along `Releases`; during an upgrade the CRD comes and then
  every pod restarts. `semver` orders a release candidate of 4.13 after 4.12.999, where the
  watch begins, and before 4.13.0, where the kind changes.
* `PullSecret`: `original` is a history variable, what the administrator last set.
* `DNS`: the machine config operator renders, shows `Updating` some time later, reboots the
  node, which is a restart of the controller, and shows the end later still. Which sources
  its status lists meanwhile is left open.
* `ACM`: users change the hub of the spec, and `asked` remembers what they named.
  A hub makes an import secret for a ManagedCluster; the agent registers with the hub of the
  kubeconfig it finds, which a later manifest does not replace. Each wait ends with an error
  only when what it polls for is missing, because the poll comes first.

## 3. Runs

| Run | Checks | Shows |
|---|---|---|
| `edits` | `TypeOK`, `StatusTruthful`, `RevertedWhenGone`, `NoDanglingWhileInstalled`, `EditsSurvive`, `UninstallsOnlyWhenAsked`, `ImplementsLifecycle` | One object, two specs: edited, annotated and deleted at any point of any pass, with one failing call anywhere. A `Reconciled` status is true of the current spec; the new configuration outlives the object only if the operator is uninstalled; while it is installed no Secret in use is collected; it is uninstalled only by the finalization of an annotated object that is there; no edit is overwritten; and the controller, self-destruction included, implements `Lifecycle`. |
| `retries` | `RevertedWhenGone`, `NoDanglingSecret`, `DeletionCompletes`, `EventuallyReconciled` | An object deleted and created again, with one failure and one restart anywhere: no Secret in use is collected, and reconciliation and deletion are delayed and not prevented. |
| `selfdestruct` | `NoDanglingSecret` | Self-destruction next to an object of another name, with a lagging informer: the Secrets are orphaned in time and stay, also after the operator is gone. |
| `pull` | `TypeOK`, `OriginalKept`, `RestoredWhenGone`, `EventuallyReplaced`, `EventuallyRestored` | Two objects one after the other, edited, with one interruption between any two calls. With up-to-date informers the original survives and comes back; with late ones too, the user's arrives and stays. |
| `serving` | `TypeOK`, `Held`, `PutBack`, `NothingDangles`, `Settles` | All ways to obtain a certificate, and edits from one to another: no configuration names a Secret that is not there at any moment, cluster objects come back empty, and the certificates asked for are in place in the end whatever was rotated, deleted or interrupted. |
| `resources` | `TypeOK`, `OneKindOfMirrorSet`, `Settles` | An upgrade at any moment of a pass, late informers, a restart, and somebody's hand on an object. |
| `dns` | `TypeOK`, `ReportMeansResolvable`, `EventuallyReconciled` | The operator reboots its own node and finishes all the same; a wait that ends too early is made good by the lookups. |
| `acm` | `TypeOK`, `ReportMeansRegistered`, `KeptUntilRegistered`, `EventuallyRegistered` | Two hubs, of which one or the other or none is asked for: timeouts that race the hub, a restart between any two manifests, an agent that comes and goes. Success is reported, and credentials are deleted, only when the cluster is registered with a hub that a spec has named. |

Four runs end in a violation: what the code does is not what its documentation or
comments say. `PROJECT.json` quotes the sentence for each.

| Run | Violates | The code |
|---|---|---|
| `twonames` | `StatusTruthful` | An object of another name gets the finalizer before `validateCR` refuses it; deleting it reverts the cluster under the object named `cluster`. |
| `pull_user` | `UserSecretKept` | The ownerReference put on the user's Secret in order to watch it makes the garbage collector delete it with the object. |
| `uninstall` | `OperatorRemoved` | The ClusterServiceVersion is found through the Subscription, which is deleted before it; when its own deletion fails the retry finds nothing to delete, and removes the finalizer. |
| `acm_hubs` | `DeletedOnceRegistered` | Any available Klusterlet counts as the registration asked for; after a change of hub the credentials for the new one are deleted for the Klusterlet of the old one. |

### Bounds, and why they are enough

* One name, or two for `selfdestruct` and `twonames`: the controller tells apart only
  "cluster" and any other name.
* `MaxUID = 2` where re-creation matters (`retries`, `pull`): a copy of a dead object
  against one live one. `MaxGeneration = 2`: a status can only be about the current or about
  an earlier spec, and a stage can only find its own objects or those of an earlier spec.
  `serving`, `resources`, `dns` and `acm` have one object and its edits; garbage collection
  after its deletion is in them. What `NothingDangles` says of a re-creation is covered by
  `NamesAreThere` only, and re-creation in `acm` by the theorems of `ACMProofs`.
* Specs that differ in every field the control flow looks at; in `Serving` one spec for
  each way to obtain a certificate.
* `MaxFail`, `MaxCrash`, `MaxEdits` at most 1: after a failure or a restart the process is
  back where a pass begins and keeps no memory but `WatchingIDMS`, so a second one starts
  from a state the first could leave. The proofs have no such bound.
* `Lags`: 0 is an informer that shows every write at once, 1 one that may be a write late
  (the next write then waits for it), which includes the first. `serving` has 0, `resources`
  and `acm` 1, `acm_hubs` 0, `pull`, `pull_user` and `dns` both. Section 5 has what a lag does.
* `CHECK_DEADLOCK FALSE`: once users have done all the bounds allow and the object is
  reconciled or gone, nothing is left to do.

The longest runs take two to three minutes with two workers. `serving` with `MaxUID = 2`
and `MaxGeneration = 1`, `dns` with `MaxUID = 2` and up-to-date informers, and `dns` with
`MaxGeneration = 3`, hold too and take longer.

### Fairness

`FairSpec` of `ClusterRelocation` assumes weak fairness of the worker (one goroutine that
takes what is in the queue), of each informer (a watch delivers), of `Enqueue` (events of
owned and watched objects, the rate-limited retry, the resync: an object in the informer is
handed to `Reconcile` again and again), of each cluster operator (it notices a configuration
and finishes rolling it out) and of the garbage collector and OLM. The stage modules assume
it of the worker and of delivery, and have no `Enqueue`: passes begin on events only. In
`Resources` a begun upgrade also ends, in `DNS` the machine config operator and the kubelet
do their work, in `ACM` the hub and the agent do. Users, failures, restarts and, in the
stage modules, the garbage collector have none. No strong fairness is used. That operators
finish is an assumption on OpenShift, which the code makes too: `waitStatus` and the wait
for the MachineConfigPool have no timeout that applies.

## 4. Proofs

Every theorem below is checked by TLAPS for all values of the constants: any number of
names, objects, specs, edits, failures and restarts. What it assumes of the constants are
the named assumptions of the modules, and the hypothesis in its statement.

| Theorem | Hypothesis | States |
|---|---|---|
| `ClusterRelocationProofs!TypeCorrect` | | `TypeOK`: in particular, a pass never goes on without an object |
| `EditsNeverLost` | | `EditsSurvive` |
| `Reverts` | `[]CleanupsInformed` | `RevertedWhenGone` |
| `SecretsKept` | `[]CleanupsInformed` | `NoDanglingWhileInstalled`, self-destruction and all deletions included |
| `StatusIsTrue` | `Lagging = {}`, users delete only `cluster` | `StatusTruthful` |
| `UninstalledWhenAsked` | | `UninstallsOnlyWhenAsked`: failures and restarts between the two deletes, and old copies, included |
| `RelocationLifecycleProofs!RefinesLifecycle` | | `ImplementsLifecycle`: every step of the controller is one of `Lifecycle` or a stutter |
| `StageProofs!LifecycleHolds` | | `LifecycleSpec => []Held` |
| `ServingProofs!TypeCorrect`, `HeldAlways` | | `TypeOK`, `Held`, of `LateSpec` |
| `ServingProofs!FreshAreInformed` | `Lags = {0}` | `Spec` is `LateSpec` with `[]CleanupsInformed` |
| `ServingProofs!PutsBack` | every cluster object held nothing before; `[]CleanupsInformed` | `PutBack`, of `LateSpec` |
| `ServingProofs!NamesAreThere` | no cluster object named one of the Secrets before; `[]CleanupsInformed` | `NothingDangles`, of `LateSpec` |
| `ResourcesProofs!TypeCorrect`, `OneKindOnly` | | `TypeOK`, `OneKindOfMirrorSet` |
| `PullSecretProofs!TypeCorrect`, `OriginalIsKept`, `RestoredAfterwards` | | `TypeOK`, `OriginalKept`, `RestoredWhenGone` (the latter two speak of `lag = 0`) |
| `DNSProofs!TypeCorrect`, `ReportedMeansResolvable` | | `TypeOK`, `ReportMeansResolvable` |
| `ACMProofs!TypeCorrect` | | `TypeOK` |
| `ACMProofs!ReportedMeansRegistered`, `DeletedWhenRegistered` | | `ReportMeansRegistered`, `KeptUntilRegistered`, for any hubs |
| `ImplementsLifecycle`, in the proofs of each stage | | `Spec => LifecycleSpec` (for `Serving`, `LateSpec`) |

The hypotheses are not there for the proof's sake: section 5 says what goes wrong without
them. `CleanupsInformed`, of `ClusterRelocationProofs` and of `Serving`, is a condition on
the run and not on the constants: whenever the next call of a Cleanup is a `CreateOrPatch`
and its copy shows nothing to undo, there is nothing to undo. A cached client does not
guarantee that; it is what the code would have to make sure of, and the theorems say that
it is all: the copies a relocating pass reads, and those of Secrets, may be of any age.

`Serving` assumes more keys than there are Secrets to make
(`KeysAssumption`): a generated certificate is a new one. That is why `MCServing` has eight
keys. `Resources` assumes that an upgrade does not lead back behind 4.13
(`UpgradesAssumption`), which OpenShift does not support, and that a catalog has none of the
names of the other objects (`CatalogsAssumption`). `NoObjectAssumption` of `Lifecycle`, its
image `SeenAssumption` under the refinement, and the `NoneAssumption`s keep `None` apart
from the values it stands beside.

All proofs have the same shape: an inductive invariant, a lemma that each step keeps it, with
a case for each action, and a temporal step at the end. Before it was proved, each invariant
was checked with TLC, with the constants of a run or more liberal ones:

| Invariant | Distinct states |
|---|---|
| `Protocol`, `Copies`, `Truth` | 1,290,764 (`edits`); 1,710,737 (two names, of which `cluster` can be deleted); 629,010 (`twonames`) |
| `SecretsHeld` | 252,515 (`retries`); 1,290,764 (`edits`) |
| `Removal` | 1,290,764 (`edits`); 252,515 (`retries`); 3,419,681 (`selfdestruct`, where users may delete `cluster`) |
| `Safe` of `PullSecretProofs` | 614,289 (`pull`) |
| `Guarded`, `Cleaning`, `Names` of `ServingProofs` | 897,735 (`serving`); 365,966 (`LateSpec` with a lag of one, a re-creation and a failure, two specs, `CleanupsInformed` as the constraint) |
| `Mirrors` of `ResourcesProofs` | 915,227 (`resources`) |
| `Entries` of `DNSProofs` | 444,470 (`dns`) |
| `Registered`, `Asked` of `ACMProofs` | 943,226 (`acm`) |

### The controller

`Protocol` is what all of it rests on: why a pass that can write works for an object that
exists and has the finalizer, although all it has read is an old copy.

* `OnlyCluster` and `HoldsFinalizer` say so of the pass.
* A pass starts from a copy, so `HoldsFinalizer` needs `CachedFinalizer`: a copy that has
  the finalizer and no deletion is right about the finalizer. It is kept because only a
  pass that has seen the deletion removes the finalizer (`SawDeletion`), the copy then
  shows the deletion, and a deletion is never undone (`CachedDeletion`). That an old copy
  may be of another object of the same name is what `KnownUIDs` and `HeldUID` are for: a
  new object's uid is larger than that of any copy.
* `StageBounds` says how far a pass can be.

`Copies` adds how the versions of one object are ordered: generations grow, with them the
spec changes, and the annotation stays (`Older`); a status never speaks of a later generation
(`Observed`); a pass that adds the finalizer and is not refused has the last version
(`Adopting`).

* `Reverts`: after its k-th stage the finalizer has reverted the first k configurations
  (`CleanedSoFar`), and past its first stage self-destruction has deleted the Subscription
  (`Unsubscribed`). With these, `RemoveFinalizer` leaves nothing changed.
* `SecretsKept`: while the Subscription is there, a Secret in use is orphaned or owned by
  the object there is, which has the finalizer (`SecretsHeld`). A re-created object finds
  nothing of the earlier one in use, the earlier one cannot go while a pass works for it,
  and an annotated one goes only after the Subscription.
* `StatusIsTrue`: a status can be wrong for two reasons. A pass for an older version, or for
  a deletion, may change the configuration under a status that is true; so while a copy says
  Reconciled no other pass is on its way (`NoOtherPass`) and none can start (`Informed`,
  `InformerAhead`). And a pass may write back a claim it has read, when a call before the
  stages fails (`ClaimTruthful`). No stage undoes another (`DoneSoFar`).
* `UninstalledWhenAsked`: as long as there is a Subscription, a copy of an annotated object on
  its way out is of the object there is (`StillThere`); otherwise a pass from an old copy
  could start to delete the installation of an object long gone. From then on the object
  waits for the pass that deletes the CSV (`Removing`), or for the one that takes over from
  it and finds nothing to delete.
* `RefinesLifecycle`: one lemma per group of actions, from `Protocol` and `Copies`; objects of
  other names and self-destruction included.

### Lifecycle and Stage

`LifecycleInv` is the part of `Protocol` that `Lifecycle` keeps. `StageProofs` then says
once what each call of `Stage` does to the store and to the program (`CallDoes`, `CallEnds`,
`WriteTyped`, `PutsObject`), what everybody else does (`OthersDo`), and that copies are
current when the informers show every write at once (`FreshCopies`). A stage adds what
holds between its calls:

* `PullSecret`: the program is one of the rests of its plan, listed in `Replacing` and
  `Restoring`, and each rest has its own conditions (`ReplacesSafely`, `RestoresSafely`): the
  backup is made before the pull secret is replaced, and erased after it is copied back. The
  backup has the original, and belongs to an object with the finalizer (`BackupHolds`).
* `Serving`: plans are long and depend on the spec, so the invariant speaks of the order of
  calls in any rest of them (`Preceded`): what names a Secret comes after what makes it
  (`Provided`). What is named is owned by the object there is, so nothing collects it
  (`References`), and it stays in every copy yet to be shown, so that no late one takes it
  for missing or for another's (`Lasting`, `Dated`); the certificate used in place is
  nobody's (`InPlaceStays`). An object that is changed has a finalizer to go by
  (`Guarded`), and what a finalization has not put back it has still to come to
  (`Cleaning`).
* `Resources`: no program makes both kinds of mirror set, and the one that makes the new
  kind removes the old one before (`Mirrors`). That needs no assumption on the informers:
  `Erase` is a call, and not a comparison with a copy.
* `DNS`: entries pass through the pool's configuration to the node in order (`InOrder`); a
  pass for the earlier version has not come after one for the present (`OldCopy`, which
  needs the order of the informer's copies, `Versions`); so once the lookups succeed nothing
  old is still to come.
* `ACM`: a program in which the agent has not joined ends in the wait for it and deletes
  nothing (`PassWaits`). `asked` is a history variable, the hubs that specs have named; what
  a pass creates, the kubeconfig, and with it the agent, know of no other (`Asked`).

### Only model-checked

All invariants and action properties of the passing runs are theorems, except
`NoDanglingSecret`, which TLC checks in `retries` and `selfdestruct`; the theorem is about
`NoDanglingWhileInstalled`, which is the same as long as the operator is installed. Liveness
(`EventuallyReconciled`, `DeletionCompletes`, `EventuallyReplaced`, `EventuallyRestored`,
`Settles`, `EventuallyRegistered`), and ENABLED with it, are out of the proof system's reach
and stay with TLC.

## 5. What the assumptions hide

Where a property is checked or proved under a restriction, the restriction is needed. Each
of these was seen with TLC by changing the constants of the run named, or by running the
property named with the constants of a run.

* `edits` and `retries` take `Lagging = {}`, and `Reverts` and `SecretsKept` assume
  `CleanupsInformed`. With `Lagging = {"Ingress"}` and one
  failure `RevertedWhenGone` is violated: a pass writes the Ingress and fails, the object
  is deleted, and Cleanup compares with a copy from before the write, finds no difference
  and patches nothing (`internal/ingress/reconcile.go:209`). The Secret that the Ingress
  still names is then collected with the object. `serving` has `Lags = {0}`, and `PutsBack`
  and `NamesAreThere` assume `CleanupsInformed`, for the same reason: with `LateSpec`, a lag
  of one, and without that condition, `PutBack` and `NothingDangles` are violated.
* `retries` takes certificates that carry the name of their domain. With
  `Specs <- BadSpecs` `DeletionCompletes` is violated: `verifyDomain` (controller line 379)
  leaves its loop only for a certificate with the domain as common name (a name among the
  subject alternative names does not count), has no timeout, and holds the only worker, so
  that a later deletion is never handled.
* In `selfdestruct` users delete nothing. With `Deletable <- OnlyCluster` `NoDanglingSecret`
  is violated: a user's deletion of an annotated object takes the branch for
  self-destruction (line 312), reverts nothing, and, without orphaning, lets the Secrets in
  use be collected once the operator is uninstalled. The README of the operator says the
  annotation lets "the cluster retain all of the new configuration" (`src/README.md:97`).
  `NoDanglingWhileInstalled` is what remains: `edits` checks it, and `SecretsKept` proves it,
  for annotated objects that users delete.
* `selfdestruct` has no failures. With one, after the orphaning delete a pass that still
  reads the object as not deleted takes the Secrets back, and they are collected with the
  object after the uninstallation (`NoDanglingSecret`, line 259).
* `OperatorRemoved` does not hold once a call may fail: see the run `uninstall`. A restart
  between the two deletes is as bad (`MaxCrash = 1` instead of `MaxFail = 1`), and without
  either so is, with `Names` and `Deletable <- TwoNames`, an annotated object of another name,
  which is finalized like any other and has deleted the Subscription before the CSV. What
  holds in all these cases is `UninstallsOnlyWhenAsked`.
* `retries` has no self-destruction. With it `DeletionCompletes` is violated: OLM may stop
  the process between deleting its CSV and removing its finalizer (line 323).
* No run checks `RoutesFollowDomain` of `ClusterRelocation`. It is violated under the
  constants of `retries`: `WaitForCO` also returns when the operator has not yet begun
  (`internal/util/util.go:39`), the routes are deleted too early and come back under the old
  domain.
* `OriginalKept`, `RestoredWhenGone` and `EventuallyRestored` speak of `lag = 0`. With a lag
  of one a Cleanup that sees the new backup but not the replaced pull secret restores
  nothing and deletes the backup, and the original is lost
  (`internal/pullSecret/reconcile.go:98`). With a longer lag the check at line 35 can also
  find no backup when there is one, and CopySecret, which reads again, overwrites it; or
  find one that was deleted. And with a lag of two or more `EventuallyReplaced` fails too:
  the pull secret may be compared with a copy two versions old that happens to be as wanted.
* `PutBack` holds where the cluster objects held nothing before. Cleanup sets fields to
  nothing and does not save what they held (`internal/ingress/reconcile.go:199`,
  `internal/api/reconcile.go:129`), although a finalizer is there "to put it back the way we
  found it" (`internal/ingress/reconcile.go:193`): with a `Before` of one other value, say
  `{<<"own", "own-cert">>}` (added to `Data`), `PutBack` is violated. And
  `NothingDangles` where they did not name one of the operator's Secrets, or the user's,
  before.
* `Settles` of `Resources` says nothing of the old kind of mirror set where the spec has no
  mirrors. `MirrorsRemoved`, with the constants of `resources`, is violated: mirrors removed
  from the spec after an upgrade to 4.13 and before the next pass leave the
  ImageContentSourcePolicy in place (`internal/mirror/reconcile.go:39`), although "we need to
  delete the ICSP" (line 40). A CatalogSource of somebody else with a name in the spec is
  taken over, and deleted when the spec no longer has it.
* `ReportMeansResolvable` speaks of at most one edit. After several, or after a re-creation,
  the pool may be on its way to an older version of the entries while its status does not
  show it yet, and the lookups succeed with what is there before it. `WaitMeansActive`,
  what the comment at `internal/dns/reconcile.go:99` says of the wait, is violated with the
  constants of `dns` after one change of domain: the MachineConfig is found by its name
  (line 108), the condition is still that of the old entries, and the wait ends at once.
* `EventuallyReconciled` of `DNS` excepts `Stuck`: somebody deletes the MachineConfig before
  the pool has it, and the pass waits for it without end.
* `ReportMeansRegistered` and `KeptUntilRegistered` speak of a hub that some spec of the
  object has named. That it is the hub of the present one, or the one the credentials are
  for, is not so after a change of hub: see `acm_hubs`. `EventuallyRegistered` says for the
  same reason that the cluster has joined a hub, and not which.
* `EventuallyRegistered` asks for credentials that suffice (`Possible`): those that may only
  read the import secret need a ManagedCluster created beforehand and no
  KlusterletAddonConfig in the spec, since being forbidden to create that one is an error
  even if it exists (line 215).
* `StatusTruthful` needs `Lagging = {}`, for the reason given for `Reverts`, and that users
  delete only the object named `cluster`: see `twonames`. That objects of other names exist
  does no harm.

Abstractions to keep in mind:

* A stage of `ClusterRelocation` writes in one step. Between its writes only `StageFails`
  and `Restart` (which leaves the state between stages) come in; the stage modules open
  the stages up, each group on its own. What the groups share is the order in which the
  controller calls them, and that an earlier error keeps the later ones from running: a
  group that runs less often than in its own module takes fewer steps there.
* `Original` is what Cleanup leaves; `Serving` takes up what that hides.
* Self-destruction, conditions other than Reconciled, verification and routes are in
  `ClusterRelocation` only. The stages know deletion as the finalizer's pass.
* Reads of ClusterOperators, Routes, Nodes, MachineConfigPools, the Klusterlet and the
  ClusterVersion are of the current state; that their writers may act arbitrarily late covers
  a late read.
* Every started rollout finishes. `internal/util` would wait for ever for one that does not.
* A reference with an empty name or namespace, which the code refuses, is one to a Secret
  that is not there. An empty list of CatalogSources is no list.
* A restart during an upgrade is certain: every node is drained for a new minor release.

## 6. Not modelled

`main.go` (flags, leader election: one replica runs, and losing the lease ends the
process, which is `Restart`), generated deep copies, schemes, the cryptography of keys and
certificates, logging and events, the contents of MachineConfigs and manifests, a node whose
address changes (no event of a Node reaches the controller, so the entries keep the old one
until another pass).

## 7. Plan

Done: the controller; the abstract specification and the refinement, checked and proved;
every sub-reconciler call by call; every invariant and action property of the passing runs
as a theorem.

What can still be proved:

1. `NoDanglingSecret` with self-destruction, as in the run `selfdestruct`: without failures,
   and without deletions by users.
2. `OriginalKept` and `RestoredWhenGone` under a condition on the copies a Cleanup of the pull
   secret reads, in place of `lag = 0`, as `CleanupsInformed` is for the other Cleanups.
3. `StatusIsTrue` under such a condition on the passes that relocate, in place of
   `Lagging = {}`.
