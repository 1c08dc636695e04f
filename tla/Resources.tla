------------------------------ MODULE Resources ------------------------------
(***************************************************************************)
(* internal/ssh, internal/mirror and internal/catalog: objects made from   *)
(* the spec, owned by the ClusterRelocation and deleted when the spec no   *)
(* longer asks for them, on a cluster that is upgraded from 4.12 to 4.13,  *)
(* where the kind of object that holds mirrors changes; and the watch of   *)
(* that kind, which the controller sets up while it runs.                  *)
(***************************************************************************)
EXTENDS Stage, SequencesExt

CONSTANTS Catalogs, Releases   \* names of CatalogSources; the upgrade path

MachineConfigs == {"core-ssh-key-master", "core-ssh-key-worker"}
MirrorSets     == {"ICSP", "IDMS"}
Marketplace    == "openshift-marketplace"

SpecRecords == [sshKeys : Data \cup {None}, imageDigestMirrors : Data \cup {None},
                catalogSources : UNION {[S -> Data] : S \in SUBSET Catalogs}]

ASSUME ObjectsAssumption ==
    Objects = MachineConfigs \cup MirrorSets \cup Catalogs \cup {Marketplace}
ASSUME CatalogsAssumption ==
    IsFiniteSet(Catalogs) /\ Catalogs \cap (MachineConfigs \cup MirrorSets \cup {Marketplace}) = {}
ASSUME SpecsAssumption   == Specs \subseteq SpecRecords
ASSUME ReleasesAssumption == Releases \in Seq({"4.12", "4.13-rc", "4.13"}) /\ Releases # <<>>
\* An upgrade does not go back behind 4.13.
ASSUME UpgradesAssumption ==
    \A i \in 1..Len(Releases) - 1 : Releases[i] = "4.13" => Releases[i + 1] = "4.13"
ASSUME DataAssumption    == {"workload", "none"} \subseteq Data
ASSUME NoneAssumption    == None \notin CRs /\ None \notin Kept /\ None \notin Data
ASSUME BoundsAssumption  == Lags \cup {MaxUID, MaxGeneration, MaxEdits, MaxFail} \subseteq Nat

VARIABLES
    release,        \* where in Releases the cluster is (status.desired.version)
    upgrading,      \* the nodes have yet to restart with it
    crd,            \* the cluster knows the kind ImageDigestMirrorSet
    watchingIDMS    \* the reconciler's field of that name

upgrade == <<release, upgrading, crd>>
vars == <<lifecycle, objects, program, budgets, upgrade, watchingIDMS>>

Version == Releases[release]

TypeOK ==
    /\ {cr, known, pass} \subseteq CRs \cup {None}
    /\ uids \in Nat /\ queued \in BOOLEAN
    /\ store \in Stores /\ behind \in Seq(Stores) /\ Len(behind) <= lag
    /\ watched \subseteq Objects
    /\ todo # <<>> => pass # None
    /\ release \in 1..Len(Releases)
    /\ upgrading \in BOOLEAN /\ crd \in BOOLEAN /\ watchingIDMS \in BOOLEAN

\* A CatalogSource may be there already, made by somebody else.
Init ==
    /\ \E others \in {{}, Catalogs} :
          StageInit([n \in Objects |->
                       IF n = Marketplace \/ n \in others THEN [data |-> "none", owner |-> 0]
                       ELSE None],
                    Objects \ {"IDMS"})
    /\ release = 1 /\ upgrading = FALSE
    /\ crd = (Version # "4.12") /\ watchingIDMS = FALSE

-----------------------------------------------------------------------------
(* The plan of a pass.  semver: 4.12 < 4.12.999 < 4.13-rc < 4.13.          *)

\* Mutant: keys that are no longer asked for stay on the nodes.
SSHPlan_KeepsKeys(spec) ==
    IF spec.sshKeys = None THEN <<>>
    ELSE <<Call("put", "core-ssh-key-master", spec.sshKeys),
           Call("put", "core-ssh-key-worker", spec.sshKeys)>>

SSHPlan(spec) ==
    LET call(n) == IF spec.sshKeys = None THEN Call("erase", n, FALSE)
                                          ELSE Call("put", n, spec.sshKeys)
    IN <<call("core-ssh-key-master"), call("core-ssh-key-worker")>>

\* Mutant: the old kind is removed after the new one is there.
MirrorPlan_Late(spec) ==
    LET mirrors == spec.imageDigestMirrors
    IN IF mirrors = None
       THEN <<Call("erase", IF Version = "4.13" THEN "IDMS" ELSE "ICSP", FALSE)>>
       ELSE IF Version # "4.13" THEN <<Call("put", "ICSP", mirrors)>>
       ELSE <<Call("put", "IDMS", mirrors), Call("erase", "ICSP", FALSE)>>

MirrorPlan(spec) ==
    LET mirrors == spec.imageDigestMirrors
    IN IF mirrors = None
       THEN <<Call("erase", IF Version = "4.13" THEN "IDMS" ELSE "ICSP", FALSE)>>
       ELSE IF Version # "4.13" THEN <<Call("put", "ICSP", mirrors)>>
       ELSE <<Call("erase", "ICSP", FALSE), Call("put", "IDMS", mirrors)>>

\* Cleanup first, which lists; then the namespace and the CatalogSources.
CatalogPlan(spec) ==
    LET wanted == SetToSeq(DOMAIN spec.catalogSources)
    IN <<Call("prune", Marketplace, DOMAIN spec.catalogSources)>>
       \o (IF wanted = <<>> THEN <<>> ELSE <<Call("patch", Marketplace, "workload")>>)
       \o [i \in 1..Len(wanted) |-> Call("put", wanted[i], spec.catalogSources[wanted[i]])]

\* None of these stages has anything to do in the finalizer.
Plan(relocation) ==
    IF relocation.deleting THEN <<>>
    ELSE SSHPlan(relocation.spec) \o MirrorPlan(relocation.spec) \o CatalogPlan(relocation.spec)

\* The CatalogSources listed as the controller's that the spec does not name,
\* in the order of the list; one that is gone by then is an error.
Prune ==
    /\ At("prune")
    /\ \E old \in SetToSeqs({n \in Catalogs \ With : cache[n] # None /\ cache[n].owner # 0}) :
          todo' = [i \in 1..Len(old) |-> Call("erase", old[i], TRUE)] \o Tail(todo)
    /\ UNCHANGED <<lifecycle, objects, held, budgets>>

-----------------------------------------------------------------------------
\* The first pass of a process sets the watch up, if the cluster is new enough.
WatchIDMS ==
    /\ watchingIDMS' = TRUE
    /\ watched' = IF ~watchingIDMS /\ Version # "4.12" THEN watched \cup {"IDMS"} ELSE watched

Start ==
    /\ Begin \/ Adopt
    /\ IF pass' = None THEN todo' = <<>> /\ UNCHANGED <<watched, watchingIDMS>>
       ELSE /\ todo' = Plan(pass')
            /\ IF pass'.deleting THEN UNCHANGED <<watched, watchingIDMS>> ELSE WatchIDMS
    /\ UNCHANGED <<store, behind, lag, held, budgets>>

\* A call on a kind the cluster does not know yet fails.
NoSuchKind == todo # <<>> /\ On = "IDMS" /\ ~crd /\ Fails

-----------------------------------------------------------------------------
(* The cluster.                                                            *)

\* The next release is asked for; its CRDs come, then all pods restart.
Upgrade ==
    /\ ~upgrading /\ release < Len(Releases)
    /\ release' = release + 1 /\ upgrading' = TRUE
    /\ UNCHANGED <<lifecycle, objects, program, budgets, crd, watchingIDMS>>

InstallCRD ==
    /\ upgrading /\ ~crd
    /\ crd' = TRUE
    /\ UNCHANGED <<lifecycle, objects, program, budgets, release, upgrading, watchingIDMS>>

Anew == watchingIDMS' = FALSE /\ watched' = Objects \ {"IDMS"}

FinishUpgrade ==
    /\ upgrading /\ crd
    /\ upgrading' = FALSE
    /\ Restart /\ Anew
    /\ behind' = <<>> /\ todo' = <<>> /\ held' = None
    /\ UNCHANGED <<store, lag, budgets, release, crd>>

\* Somebody changes or deletes an object of the controller's.
Drift ==
    \E n \in Objects \ {Marketplace} :
       /\ store[n] # None /\ store[n].owner # 0
       /\ \/ Change(n, None)
          \/ Change(n, [store[n] EXCEPT !.data = "none"])

Worker == \/ Start /\ UNCHANGED upgrade
          \/ /\ IF todo # <<>> /\ On = "IDMS" /\ ~crd THEN NoSuchKind ELSE Calls \/ Erase \/ Prune
             /\ UNCHANGED <<upgrade, watchingIDMS>>

Surroundings == \/ Users \/ Drift \/ CallFails
                \/ \E n \in Objects : Collect(n)

Next == \/ Worker
        \/ Surroundings /\ UNCHANGED <<upgrade, watchingIDMS>>
        \/ Crash /\ Anew /\ UNCHANGED upgrade
        \/ (DeliverCR \/ DeliverObjects) /\ UNCHANGED <<upgrade, watchingIDMS>>
        \/ Upgrade \/ InstallCRD \/ FinishUpgrade

Spec == Init /\ [][Next]_vars

FairSpec == /\ Spec
            /\ WF_vars(Worker)
            /\ WF_vars(DeliverCR /\ UNCHANGED <<upgrade, watchingIDMS>>)
            /\ WF_vars(DeliverObjects /\ UNCHANGED <<upgrade, watchingIDMS>>)
            /\ WF_vars(InstallCRD) /\ WF_vars(FinishUpgrade)

-----------------------------------------------------------------------------
Exactly(n, value) == IF value = None THEN store[n] = None
                     ELSE store[n] # None /\ store[n].data = value

MirrorSet == IF Version = "4.13" THEN "IDMS" ELSE "ICSP"

(* The cluster never has mirror sets of both kinds at once, which the       *)
(* machine config operator refuses: whatever version a pass has read, and   *)
(* wherever it stopped.                                                     *)
OneKindOfMirrorSet == store["ICSP"] = None \/ store["IDMS"] = None

(* In the end the cluster has what the spec asks for and no more of its     *)
(* own: the events of owned objects make good what a lagging list, a        *)
(* refused write, an upgrade in the middle of a pass, or somebody's hand    *)
(* has spoilt.  A mirror set of the other kind is only known to be gone     *)
(* where the spec has mirrors.                                              *)
Settles ==
    <>[](cr # None /\ ~cr.deleting =>
           /\ \A n \in MachineConfigs : Exactly(n, cr.spec.sshKeys)
           /\ Exactly(MirrorSet, cr.spec.imageDigestMirrors)
           /\ cr.spec.imageDigestMirrors # None =>
                 \A n \in MirrorSets \ {MirrorSet} : store[n] = None
           /\ \A n \in DOMAIN cr.spec.catalogSources : Exactly(n, cr.spec.catalogSources[n])
           /\ \A n \in Catalogs \ DOMAIN cr.spec.catalogSources :
                 store[n] = None \/ (store[n] # None /\ store[n].owner = 0))

(* "If they move from ImageDigestMirrors=<something> to <empty>, we need to  *)
(* delete": without mirrors in the spec no mirror set remains.              *)
MirrorsRemoved ==
    <>[](cr # None /\ ~cr.deleting /\ cr.spec.imageDigestMirrors = None =>
           \A n \in MirrorSets : store[n] = None)
==============================================================================
