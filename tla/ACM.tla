-------------------------------- MODULE ACM --------------------------------
(***************************************************************************)
(* internal/acm: the registration of the cluster with an ACM hub, which is *)
(* the last stage of a pass.  The hub, its controllers and the agent that  *)
(* the import manifests install are modelled as far as this code sees them.*)
(*                                                                         *)
(* The acmSecret holds <<hub, right>>: whose credentials they are, and     *)
(* whether they suffice to create a ManagedCluster; a Secret of another    *)
(* type holds none.  The manifests of an import secret that matter here    *)
(* are the CRDs, the kubeconfig the agent registers with, and the          *)
(* Klusterlet.                                                             *)
(***************************************************************************)
EXTENDS Stage

CONSTANTS Hubs

Manifests == {"crds", "bootstrap-hub-kubeconfig", "klusterlet"}
Rights    == {"admin", "reader"}

SpecRecords == {None} \cup [hub : Hubs, addon : BOOLEAN]

ASSUME ObjectsAssumption == Objects = Manifests \cup {"acm-secret"}
ASSUME SpecsAssumption   == Specs \subseteq SpecRecords
ASSUME DataAssumption    == Typed = Hubs \X Rights
                            /\ Hubs \cup Hubs \X (Rights \cup {"none"}) \subseteq Data
ASSUME NoneAssumption    == None \notin CRs /\ None \notin Kept /\ None \notin Data
ASSUME BoundsAssumption  == Lags \cup {MaxUID, MaxGeneration, MaxEdits, MaxFail} \subseteq Nat

VARIABLES
    managed,     \* the hubs that have the ManagedCluster
    import,      \* the hubs that have made its import secret
    joined,      \* the hub the agent has registered with, or None
    available,   \* the Klusterlet's condition Available
    asked        \* history: the hubs that specs have named

hub  == <<managed, import>>
vars == <<lifecycle, objects, program, budgets, hub, joined, available, asked>>

TypeOK ==
    /\ {cr, known, pass} \subseteq CRs \cup {None}
    /\ uids \in Nat /\ queued \in BOOLEAN
    /\ store \in Stores /\ behind \in Seq(Stores) /\ Len(behind) <= lag
    /\ todo # <<>> => pass # None
    /\ import \subseteq managed /\ managed \subseteq Hubs
    /\ joined \in Hubs \cup {None} /\ available \in BOOLEAN
    /\ joined = None => ~available
    /\ asked \subseteq Hubs

\* The ManagedCluster may have been created beforehand.
Init ==
    /\ \E d \in Typed :
          StageInit([n \in Objects |-> IF n = "acm-secret" THEN [data |-> d, owner |-> 0] ELSE None],
                    Objects)
    /\ managed \in {{}, Hubs} /\ import = {}
    /\ joined = None /\ available = FALSE /\ asked = {}

-----------------------------------------------------------------------------
Plan(relocation) ==
    IF relocation.deleting \/ relocation.spec = None THEN <<>>
    ELSE LET h == relocation.spec.hub
         IN <<Call("check", "klusterlet", None),
              Call("validate", "acm-secret", None), Call("read", "acm-secret", None),
              Call("manage", "acm-secret", h), Call("import", "acm-secret", h)>>
            \o (IF relocation.spec.addon THEN <<Call("addon", "acm-secret", h)>> ELSE <<>>)
            \o <<Call("create", "crds", h), Call("create", "bootstrap-hub-kubeconfig", h),
                 Call("create", "klusterlet", h), Call("wait", "klusterlet", None)>>

\* Mutant: the credentials are deleted as soon as there is a Klusterlet.
checkKlusterlet_Exists(rest) ==
    /\ store["klusterlet"] # None
    /\ todo' = <<Call("forget", "acm-secret", None)>> \o rest
    /\ UNCHANGED <<lifecycle, objects, held, budgets>>

\* A Klusterlet that is Available; the credentials are deleted next.
checkKlusterlet(rest) ==
    /\ available
    /\ todo' = <<Call("forget", "acm-secret", None)>> \o rest
    /\ UNCHANGED <<lifecycle, objects, held, budgets>>

\* Before anything else: a cluster that is registered is left alone.
CheckFirst == At("check") /\ IF available THEN checkKlusterlet(Tail(todo)) ELSE Skip

\* The acmSecret is deleted, or is gone already: the Reconcile is done.
Forget ==
    /\ At("forget")
    /\ todo' = <<>>
    /\ Write([store EXCEPT !["acm-secret"] = None])
    /\ UNCHANGED <<cr, known, uids, pass, held, budgets>>

\* A failure to delete it counts as not being registered.
ForgetFails ==
    /\ At("forget")
    /\ fails < MaxFail /\ fails' = fails + 1
    /\ todo' = Tail(todo)
    /\ UNCHANGED <<lifecycle, objects, held, edits>>

\* Mutant: a ManagedCluster that is there already is an error.
CreateManagedCluster_New ==
    /\ At("manage")
    /\ IF held \notin Typed \/ held[1] # With \/ With \in managed THEN Fails /\ UNCHANGED managed
       ELSE Skip /\ managed' = managed \cup (IF held[2] = "admin" THEN {With} ELSE {})

\* The ManagedCluster is created; it may be there, or be somebody else's to
\* create.  The credentials of another hub, or none, are refused.
CreateManagedCluster ==
    /\ At("manage")
    /\ IF held \notin Typed \/ held[1] # With THEN Fails /\ UNCHANGED managed
       ELSE Skip /\ managed' = managed \cup (IF held[2] = "admin" THEN {With} ELSE {})

GetImportSecret == At("import") /\ With \in import /\ Skip

\* Five minutes without it: the Get comes first, so it was not there.
ImportTimeout == At("import") /\ With \notin import /\ Fails

\* The KlusterletAddonConfig is created, or is there; not being allowed to
\* is an error here.
CreateAddonConfig == At("addon") /\ IF held[2] = "admin" THEN Skip ELSE Fails

\* A manifest is created unless something of that name is there.
CreateManifest ==
    /\ At("create")
    /\ IF store[On] # None THEN Skip
       ELSE Advance /\ UNCHANGED held /\ Write([store EXCEPT ![On] = [data |-> With, owner |-> 0]])

WaitForKlusterlet == At("wait") /\ checkKlusterlet(todo)

\* Mutant: giving up is not an error.
KlusterletTimeout_Ignored == At("wait") /\ ~available /\ Skip

KlusterletTimeout == At("wait") /\ ~available /\ Fails

-----------------------------------------------------------------------------
(* The hubs and the agent.                                                 *)

MakeImportSecret ==
    \E h \in managed \ import :
       /\ import' = import \cup {h}
       /\ UNCHANGED <<lifecycle, objects, program, budgets, managed, joined, available, asked>>

\* The agent registers with the hub of its kubeconfig, and stays with it.
Join ==
    /\ store["klusterlet"] # None /\ store["bootstrap-hub-kubeconfig"] # None
    /\ joined = None
    /\ store["bootstrap-hub-kubeconfig"].data \in managed
    /\ joined' = store["bootstrap-hub-kubeconfig"].data
    /\ available' = TRUE
    /\ UNCHANGED <<lifecycle, objects, program, budgets, hub, asked>>

\* The agent loses its hub, and finds it again.
Lose ==
    /\ available /\ edits < MaxEdits /\ edits' = edits + 1
    /\ available' = FALSE
    /\ UNCHANGED <<lifecycle, objects, program, fails, hub, joined, asked>>

Recover ==
    /\ joined # None /\ ~available
    /\ available' = TRUE
    /\ UNCHANGED <<lifecycle, objects, program, budgets, hub, joined, asked>>

\* The user deletes the credentials, or gives others.
ChangeSecret ==
    \E new \in {None} \cup [data : Hubs \X (Rights \cup {"none"}), owner : {0}] :
       Change("acm-secret", new)

Start == StartPass /\ todo' = IF pass' = None THEN <<>> ELSE Plan(pass')

Worker ==
    \/ /\ \/ Start \/ CheckFirst \/ Forget \/ GetImportSecret \/ ImportTimeout
          \/ CreateAddonConfig \/ CreateManifest \/ WaitForKlusterlet \/ KlusterletTimeout
          \/ Calls
       /\ UNCHANGED <<hub, joined, available, asked>>
    \/ CreateManagedCluster /\ UNCHANGED <<import, joined, available, asked>>

HubsOf(c) == IF c # None /\ c.spec # None THEN {c.spec.hub} ELSE {}

UserActs == /\ Users /\ asked' = asked \cup HubsOf(cr')
            /\ UNCHANGED <<hub, joined, available>>

Surroundings == \/ ChangeSecret \/ CallFails \/ ForgetFails \/ DeliverCR \/ DeliverObjects
                \/ Crash /\ UNCHANGED watched

Next == \/ Worker \/ UserActs
        \/ Surroundings /\ UNCHANGED <<hub, joined, available, asked>>
        \/ MakeImportSecret \/ Join \/ Lose \/ Recover

Spec == Init /\ [][Next]_vars

FairSpec == /\ Spec
            /\ WF_vars(Worker)
            /\ WF_vars(DeliverCR /\ UNCHANGED <<hub, joined, available, asked>>)
            /\ WF_vars(DeliverObjects /\ UNCHANGED <<hub, joined, available, asked>>)
            /\ WF_vars(MakeImportSecret) /\ WF_vars(Join) /\ WF_vars(Recover)

-----------------------------------------------------------------------------
(* A relocation that asks for a registration is reported as done only when  *)
(* the cluster is registered with a hub that has been asked for: the one of *)
(* the spec, if it never named another.  Neither a timeout, nor other       *)
(* credentials, nor a Klusterlet of an earlier attempt passes for it.       *)
ReportMeansRegistered ==
    cr # None /\ cr.reconciled /\ cr.spec # None => joined \in asked

\* The operator deletes the credentials.
Forgets == store["acm-secret"] # None /\ store'["acm-secret"] = None /\ edits' = edits

(* "The secret is deleted once ACM registration succeeds": when the         *)
(* operator deletes the credentials, the cluster is registered with a hub   *)
(* that has been asked for, so that no failure, restart or lost agent on    *)
(* the way leaves it without both.                                          *)
KeptUntilRegistered == [][Forgets => joined \in asked]_store

(* The sentence taken at its word: credentials for the hub of the spec are  *)
(* deleted when the cluster is registered with that hub.                    *)
DeletedOnceRegistered ==
    [][Forgets /\ store["acm-secret"].data[1] = pass.spec.hub => joined = pass.spec.hub]_store

\* What the registration needs: the right credentials, or its completion.
Possible(spec) ==
    \/ joined # None
    \/ LET s == store["acm-secret"]
       IN s # None /\ \E r \in Rights : /\ s.data = <<spec.hub, r>>
                                        /\ r = "reader" => spec.hub \in managed /\ ~spec.addon

(* The cluster is registered, reported so, and its credentials are deleted, *)
(* in the end: through timeouts that race the hub, restarts between any two *)
(* manifests, an agent that loses its hub, a Delete that fails.             *)
EventuallyRegistered ==
    <>[](cr # None /\ ~cr.deleting /\ cr.spec # None /\ Possible(cr.spec) =>
           cr.reconciled /\ joined # None)
==============================================================================
