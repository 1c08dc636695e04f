------------------------------- MODULE Serving -------------------------------
(***************************************************************************)
(* internal/registryCert, internal/ingress and internal/api: certificates  *)
(* generated or copied from the user's, and the cluster objects that name  *)
(* them, in the code's order, with a step for each call.                   *)
(*                                                                         *)
(* A certificate is <<name, key>>: what its common name stands for, and    *)
(* which key pair it is.  A Secret's name stands for its namespace too:    *)
(* "...-copy" is the one in openshift-config.  A cluster object holds      *)
(* <<domain, name of the Secret or ConfigMap>>, or nothing.                *)
(*                                                                         *)
(* Spec leaves out the informers' deliveries, for Lags = {0}; LateSpec has *)
(* them, for any lag.                                                      *)
(***************************************************************************)
EXTENDS Stage, FiniteSets

CONSTANTS
    Domains, Keys,
    Before          \* what cluster objects may hold before any relocation

Made == {"registry-cert", "generated-ingress", "generated-ingress-copy", "copied-ingress",
         "copied-ingress-copy", "generated-api", "copied-api"}
Given == {"user", "user-in-config"}
ClusterObjects == {"Image", "IngressController", "Ingress", "APIServer"}
Nothing == <<"", "">>
Opaque  == <<"opaque", "k1">>   \* a Secret of another type

SpecRecords == [domain : Domains, registryCert : BOOLEAN, ingressCertRef : BOOLEAN,
                apiCertRef : {None} \cup Given]

ASSUME ObjectsAssumption == Objects = Made \cup Given \cup ClusterObjects
ASSUME SpecsAssumption   == Specs \subseteq SpecRecords
ASSUME DataAssumption    ==
    /\ (Domains \X Keys) \cup (Domains \cup {""}) \X Objects \cup Typed \cup Before \subseteq Data
    /\ {Nothing, Opaque} \subseteq Data /\ Typed # {}
\* However many certificates there are, there are other keys.
ASSUME KeysAssumption    == IsFiniteSet(Keys) /\ Cardinality(Keys) > Cardinality(Made)
ASSUME NoneAssumption    == None \notin CRs /\ None \notin Kept /\ None \notin Data \cup Given
ASSUME BoundsAssumption  == Lags \cup {MaxUID, MaxGeneration, MaxEdits, MaxFail} \subseteq Nat

vars == <<lifecycle, objects, program, budgets>>

TypeOK ==
    /\ {cr, known, pass} \subseteq CRs \cup {None}
    /\ uids \in Nat /\ queued \in BOOLEAN
    /\ store \in Stores /\ \A n \in ClusterObjects : store[n] # None
    /\ behind \in Seq(Stores) /\ Len(behind) <= lag
    /\ todo # <<>> => pass # None
    /\ held \in Data \cup {None}

Init ==
    \E b \in Before :
       StageInit([n \in Objects |->
                    IF n \in ClusterObjects THEN [data |-> b, owner |-> 0]
                    ELSE IF n \in Given THEN [data |-> CHOOSE d \in Typed : TRUE, owner |-> 0]
                    ELSE None],
                 Made \cup Given)

-----------------------------------------------------------------------------
(* The Reconciles and Cleanups.                                            *)

RegistryPlan(spec) ==
    IF spec.registryCert
    THEN <<Call("put", "registry-cert", Nothing), Call("patch", "Image", <<"", "registry-cert">>)>>
    ELSE <<Call("patch", "Image", Nothing)>>

IngressCert(spec) == IF spec.ingressCertRef THEN "copied-ingress" ELSE "generated-ingress"
IngressCertCopy(spec) ==
    IF spec.ingressCertRef THEN "copied-ingress-copy" ELSE "generated-ingress-copy"

\* Mutant: a certificate the user provides is copied for the router only.
IngressPlan_OneCopy(spec) ==
    (IF spec.ingressCertRef
     THEN <<Call("validate", "user", None), Call("own", "user", None),
            Call("paste", "copied-ingress", TRUE)>>
     ELSE <<Call("generate", "generated-ingress", spec.domain),
            Call("read", "generated-ingress", None), Call("paste", "generated-ingress-copy", TRUE)>>)
    \o <<Call("patch", "IngressController", <<"", IngressCert(spec)>>),
         Call("patch", "Ingress", <<spec.domain, IngressCertCopy(spec)>>)>>

\* The Secret must be in openshift-ingress and in openshift-config.
IngressPlan(spec) ==
    (IF spec.ingressCertRef
     THEN <<Call("validate", "user", None), Call("own", "user", None),
            Call("paste", "copied-ingress", TRUE),
            Call("own", "user", None), Call("paste", "copied-ingress-copy", TRUE)>>
     ELSE <<Call("generate", "generated-ingress", spec.domain),
            Call("read", "generated-ingress", None), Call("paste", "generated-ingress-copy", TRUE)>>)
    \o <<Call("patch", "IngressController", <<"", IngressCert(spec)>>),
         Call("patch", "Ingress", <<spec.domain, IngressCertCopy(spec)>>)>>

\* A certificate of the user's that is in openshift-config is used in place.
APICert(spec) == CASE spec.apiCertRef = None   -> "generated-api"
                   [] spec.apiCertRef = "user" -> "copied-api"
                   [] OTHER                    -> spec.apiCertRef

APIPlan(spec) ==
    (CASE spec.apiCertRef = None -> <<Call("generate", "generated-api", spec.domain)>>
       [] spec.apiCertRef = "user" ->
            <<Call("validate", "user", None), Call("own", "user", None),
              Call("paste", "copied-api", TRUE)>>
       [] OTHER -> <<Call("validate", spec.apiCertRef, None)>>)
    \o <<Call("patch", "APIServer", <<spec.domain, APICert(spec)>>)>>

\* Mutant: the Ingress config keeps its component routes.
CleanupPlan_KeepsRoutes ==
    <<Call("patch", "Image", Nothing), Call("patch", "IngressController", Nothing),
      Call("patch", "APIServer", Nothing)>>

CleanupPlan ==
    <<Call("patch", "Image", Nothing), Call("patch", "IngressController", Nothing),
      Call("patch", "Ingress", Nothing), Call("patch", "APIServer", Nothing)>>

Plan(relocation) ==
    IF relocation.deleting THEN CleanupPlan
    ELSE RegistryPlan(relocation.spec) \o IngressPlan(relocation.spec) \o APIPlan(relocation.spec)

\* GetCertCommonName.
CommonName(cert) == cert[1]

\* GenerateTLSKeyPair makes a new key.
NewCert(domain) ==
    <<domain, CHOOSE k \in Keys :
                 \A n \in Made : store[n] = None \/ (store[n] # None /\ store[n].data # <<domain, k>>)>>

\* Mutant: a certificate that exists is kept, whatever its name.
Generate_Keep ==
    /\ At("generate")
    /\ CreateOrUpdate(On, [data |-> IF cache[On] # None THEN cache[On].data ELSE NewCert(With),
                           owner |-> pass.uid])

\* A generated certificate is kept as long as it has the domain's common name.
Generate ==
    /\ At("generate")
    /\ CreateOrUpdate(On, [data |-> IF cache[On] # None /\ CommonName(cache[On].data) = With
                                    THEN cache[On].data ELSE NewCert(With),
                           owner |-> pass.uid])

-----------------------------------------------------------------------------
\* A certificate of the user's is rotated, replaced or deleted.
ChangeGiven ==
    \E n \in Given :
       \/ Change(n, None)
       \/ \E d \in Typed \cup {Opaque} : Change(n, [data |-> d, owner |-> 0])
       \/ /\ store[n] # None
          /\ \E d \in Typed : Change(n, [store[n] EXCEPT !.data = d])

\* Somebody deletes what the controller made.
ChangeMade == \E n \in Made : store[n] # None /\ Change(n, None)

Start == StartPass /\ todo' = IF pass' = None THEN <<>> ELSE Plan(pass')

Worker == Start \/ Generate \/ Calls
GarbageCollector == \E n \in Made \cup Given : Collect(n)

Next == \/ Worker \/ Users \/ DeliverCR
        \/ ChangeGiven \/ ChangeMade \/ CallFails
        \/ Crash /\ UNCHANGED watched
        \/ GarbageCollector

Spec == Init /\ [][Next]_vars

FairSpec == Spec /\ WF_vars(Worker) /\ WF_vars(DeliverCR)

\* The same with informers that may be late.
LateNext == Next \/ DeliverObjects
LateSpec == Init /\ [][LateNext]_vars

-----------------------------------------------------------------------------
\* When a Cleanup's CreateOrPatch finds nothing to change in its copy, there is nothing.
CleanupsInformed ==
    pass # None /\ pass.deleting /\ At("patch") /\ cache[On].data = With =>
        store[On].data = With

(* "We need to use a finalizer to put it back the way we found it": without *)
(* a ClusterRelocation the cluster's objects hold what they held before.    *)
PutBack == cr = None => \A n \in ClusterObjects : store[n].data \in Before

\* The cluster objects that name a Secret or ConfigMap which is not there.
Dangling == {n \in ClusterObjects : store[n].data[2] \in Made \cup Given
                                    /\ store[store[n].data[2]] = None}

(* The ingress, the API server and the image configuration name a Secret    *)
(* or ConfigMap that is there, unless a user took it away: no order of      *)
(* passes, edits of the spec, failures, restarts, re-creation and garbage   *)
(* collection leaves a reference to nothing.                                *)
NothingDangles == edits = 0 => Dangling = {}

\* What the user's references need to be usable.
Usable(s) == /\ s.ingressCertRef => store["user"] # None /\ store["user"].data \in Typed
             /\ s.apiCertRef # None => /\ store[s.apiCertRef] # None
                                       /\ store[s.apiCertRef].data \in Typed

SameCert(m, n) == store[m] # None /\ store[n] # None /\ store[m].data = store[n].data

Configured(s) ==
    /\ store["Image"].data = IF s.registryCert THEN <<"", "registry-cert">> ELSE Nothing
    /\ store["IngressController"].data = <<"", IngressCert(s)>>
    /\ store["Ingress"].data = <<s.domain, IngressCertCopy(s)>>
    /\ store["APIServer"].data = <<s.domain, APICert(s)>>
    /\ Dangling = {}
    /\ SameCert(IngressCert(s), IngressCertCopy(s))
    /\ IF s.ingressCertRef THEN SameCert(IngressCert(s), "user")
                           ELSE CommonName(store[IngressCert(s)].data) = s.domain
    /\ s.apiCertRef = None => CommonName(store["generated-api"].data) = s.domain
    /\ s.apiCertRef = "user" => SameCert("copied-api", "user")

(* The cluster ends up serving the certificates the spec asks for: edits,   *)
(* rotated or replaced certificates, deleted Secrets, failures and restarts *)
(* between any two calls are made good by the events they cause.            *)
Settles == <>[](cr # None /\ ~cr.deleting /\ Usable(cr.spec) => Configured(cr.spec))
==============================================================================
