--------------------------- MODULE ResourcesProofs ---------------------------
(***************************************************************************)
(* Theorems about Resources, for all specs, upgrade paths, lags and        *)
(* bounds.                                                                 *)
(***************************************************************************)
EXTENDS Resources, StageProofs, FiniteSetTheorems

-----------------------------------------------------------------------------
(* The calls of these stages, and the objects they make and delete.        *)

Made   == Objects \ {Marketplace}
Puts   == [do : {"put"}, on : Made, with : Data]
Erases == [do : {"erase"}, on : Made, with : BOOLEAN]
Prunes == [do : {"prune"}, on : {Marketplace}, with : SUBSET Catalogs]
Labels == [do : {"patch"}, on : {Marketplace}, with : {"workload"}]

Steps == Puts \cup Erases \cup Prunes \cup Labels

Program == todo \in Seq(Steps) /\ (todo # <<>> => pass # None)

\* The namespace is not the controller's, and stays.
Namespace == store[Marketplace] # None /\ store[Marketplace].owner = 0

World ==
    /\ watched \subseteq Objects
    /\ release \in 1..Len(Releases)
    /\ upgrading \in BOOLEAN /\ crd \in BOOLEAN /\ watchingIDMS \in BOOLEAN

Types == LifecycleInv /\ StoreType /\ Program /\ Namespace /\ World

-----------------------------------------------------------------------------
(* The mirror sets.                                                        *)

\* The program has no call that makes the object.
NoPut(calls, n) ==
    \A i \in 1..Len(calls) : ~(calls[i].do = "put" /\ calls[i].on = n)

\* It removes the old kind before it makes the new one.
RemovesFirst(calls) ==
    \A i \in 1..Len(calls) : calls[i].do = "put" /\ calls[i].on = "IDMS" =>
        \E j \in 1..(i - 1) : calls[j].do = "erase" /\ calls[j].on = "ICSP"

Mirrors ==
    /\ store["IDMS"] # None => Version = "4.13" /\ store["ICSP"] = None
    /\ NoPut(todo, "ICSP") \/ (NoPut(todo, "IDMS") /\ store["IDMS"] = None)
    /\ NoPut(todo, "IDMS") \/ (Version = "4.13" /\ (store["ICSP"] = None \/ RemovesFirst(todo)))

-----------------------------------------------------------------------------
(* Programs.                                                               *)

\* A set of CatalogSources can be put in order.
LEMMA Enumerates ==
    ASSUME NEW S, S \subseteq Catalogs
    PROVE  Cardinality(S) \in Nat /\ SetToSeq(S) \in [1..Cardinality(S) -> S]
<1>1. IsFiniteSet(S)
  BY CatalogsAssumption, FS_Subset
<1>2. Cardinality(S) \in Nat /\ \E f \in [1..Cardinality(S) -> S] : IsInjective(f)
  BY <1>1, FS_CardinalityType DEF ExistsBijection, Bijection, Injection
<1> QED
  BY <1>2 DEF SetToSeq

\* Calls one for each of a list of CatalogSources.
LEMMA Listed ==
    ASSUME NEW k \in Nat, NEW call, call \in [1..k -> Steps]
    PROVE  call \in Seq(Steps) /\ Len(call) = k
BY IsASeq, LenProperties

\* The names of the objects are different.
LEMMA Names ==
    /\ {"core-ssh-key-master", "core-ssh-key-worker", "ICSP", "IDMS"} \cup Catalogs
          \subseteq Objects \ {Marketplace}
    /\ "ICSP" \notin Catalogs /\ "IDMS" \notin Catalogs /\ Marketplace \in Objects
BY ObjectsAssumption, CatalogsAssumption DEF MachineConfigs, MirrorSets, Marketplace

\* Joined programs make what their parts make.
LEMMA JoinNoPut ==
    ASSUME NEW p \in Seq(Steps), NEW q \in Seq(Steps), NEW n, NoPut(p, n), NoPut(q, n)
    PROVE  NoPut(p \o q, n)
<1>1. /\ p \o q \in Seq(Steps) /\ Len(p \o q) = Len(p) + Len(q)
      /\ \A i \in 1..(Len(p) + Len(q)) :
            (p \o q)[i] = IF i <= Len(p) THEN p[i] ELSE q[i - Len(p)]
  BY ConcatProperties
<1>2. Len(p) \in Nat /\ Len(q) \in Nat
  BY LenProperties
<1> QED
  BY <1>1, <1>2 DEF NoPut

\* What is done after other calls does not change what goes first.
LEMMA JoinAfter ==
    ASSUME NEW p \in Seq(Steps), NEW q \in Seq(Steps), RemovesFirst(p), NoPut(q, "IDMS")
    PROVE  RemovesFirst(p \o q)
<1> DEFINE r == p \o q
<1>1. /\ Len(r) = Len(p) + Len(q)
      /\ \A i \in 1..(Len(p) + Len(q)) : r[i] = IF i <= Len(p) THEN p[i] ELSE q[i - Len(p)]
  BY ConcatProperties
<1>2. Len(p) \in Nat /\ Len(q) \in Nat
  BY LenProperties
<1> HIDE DEF r
<1>3. SUFFICES ASSUME NEW i \in 1..Len(r), r[i].do = "put", r[i].on = "IDMS"
               PROVE  \E j \in 1..(i - 1) : r[j].do = "erase" /\ r[j].on = "ICSP"
  BY DEF RemovesFirst, r
<1>4. i <= Len(p)
  <2>1. i - Len(p) \in 1..Len(q) => ~(q[i - Len(p)].do = "put" /\ q[i - Len(p)].on = "IDMS")
    BY DEF NoPut
  <2> QED
    BY <1>1, <1>2, <1>3, <2>1
<1>5. PICK j \in 1..(i - 1) : p[j].do = "erase" /\ p[j].on = "ICSP"
  BY <1>1, <1>2, <1>3, <1>4 DEF RemovesFirst
<1>6. j \in 1..(Len(p) + Len(q)) /\ j <= Len(p)
  BY <1>1, <1>2, <1>4, <1>5
<1>7. r[j] = p[j]
  BY <1>1, <1>6
<1> QED
  BY <1>5, <1>7

\* Nor do calls before them that do not make the new kind.
LEMMA JoinBefore ==
    ASSUME NEW p \in Seq(Steps), NEW q \in Seq(Steps), NoPut(p, "IDMS"), RemovesFirst(q)
    PROVE  RemovesFirst(p \o q)
<1> DEFINE r == p \o q
<1>1. /\ Len(r) = Len(p) + Len(q)
      /\ \A i \in 1..(Len(p) + Len(q)) : r[i] = IF i <= Len(p) THEN p[i] ELSE q[i - Len(p)]
  BY ConcatProperties
<1>2. Len(p) \in Nat /\ Len(q) \in Nat
  BY LenProperties
<1> HIDE DEF r
<1>3. SUFFICES ASSUME NEW i \in 1..Len(r), r[i].do = "put", r[i].on = "IDMS"
               PROVE  \E j \in 1..(i - 1) : r[j].do = "erase" /\ r[j].on = "ICSP"
  BY DEF RemovesFirst, r
<1>4. ~(i <= Len(p)) /\ i - Len(p) \in 1..Len(q)
  BY <1>1, <1>2, <1>3 DEF NoPut
<1>5. q[i - Len(p)].do = "put" /\ q[i - Len(p)].on = "IDMS"
  BY <1>1, <1>2, <1>3, <1>4
<1>6. PICK j \in 1..(i - Len(p) - 1) : q[j].do = "erase" /\ q[j].on = "ICSP"
  BY <1>4, <1>5 DEF RemovesFirst
<1>7. j + Len(p) \in 1..(i - 1) /\ r[j + Len(p)] = q[j]
  <2>1. j + Len(p) \in 1..(i - 1) /\ ~(j + Len(p) <= Len(p)) /\ (j + Len(p)) - Len(p) = j
        /\ j + Len(p) \in 1..(Len(p) + Len(q))
    BY <1>2, <1>4, <1>6
  <2> QED
    BY <1>1, <2>1
<1> QED
  BY <1>6, <1>7

\* What is left of a program after its first call.
LEMMA Rests ==
    ASSUME NEW p \in Seq(Steps), p # <<>>
    PROVE  /\ Tail(p) \in Seq(Steps) /\ Head(p) \in Steps
           /\ \A n : NoPut(p, n) => NoPut(Tail(p), n)
           /\ RemovesFirst(p) => \/ RemovesFirst(Tail(p))
                                 \/ Head(p).do = "erase" /\ Head(p).on = "ICSP"
           /\ Head(p).do = "put" => /\ ~NoPut(p, Head(p).on)
                                    /\ RemovesFirst(p) => Head(p).on # "IDMS"
<1> DEFINE t == Tail(p)
<1>1. /\ Head(p) = p[1] /\ t \in Seq(Steps) /\ Len(t) = Len(p) - 1
      /\ \A i \in 1..Len(t) : t[i] = p[i + 1]
  BY HeadTailProperties
<1>2. Len(p) \in Nat /\ Len(p) # 0
  BY LenProperties, EmptySeq
<1> HIDE DEF t
<1>3. 1 \in 1..Len(p) /\ p[1] \in Steps /\ \A i \in 1..Len(t) : i + 1 \in 1..Len(p)
  BY <1>1, <1>2, ElementOfSeq
<1>4. ASSUME NEW n, NoPut(p, n) PROVE NoPut(t, n)
  BY <1>1, <1>3, <1>4 DEF NoPut
<1>5. ASSUME RemovesFirst(p), ~(p[1].do = "erase" /\ p[1].on = "ICSP") PROVE RemovesFirst(t)
  <2> SUFFICES ASSUME NEW i \in 1..Len(t), t[i].do = "put", t[i].on = "IDMS"
               PROVE  \E j \in 1..(i - 1) : t[j].do = "erase" /\ t[j].on = "ICSP"
    BY DEF RemovesFirst
  <2>1. p[i + 1].do = "put" /\ p[i + 1].on = "IDMS" /\ i + 1 \in 1..Len(p)
    BY <1>1, <1>3
  <2>2. PICK j \in 1..((i + 1) - 1) : p[j].do = "erase" /\ p[j].on = "ICSP"
    BY <1>5, <2>1 DEF RemovesFirst
  <2>3. j # 1
    BY <1>5, <2>2
  <2>4. j - 1 \in 1..(i - 1) /\ j - 1 \in 1..Len(t) /\ (j - 1) + 1 = j
    BY <1>1, <1>2, <2>2, <2>3
  <2>5. t[j - 1] = p[j]
    BY <1>1, <2>4
  <2> QED
    BY <2>2, <2>4, <2>5
<1>6. p[1].do = "put" => ~NoPut(p, p[1].on)
  BY <1>3 DEF NoPut
<1>7. p[1].do = "put" /\ RemovesFirst(p) => p[1].on # "IDMS"
  BY <1>3 DEF RemovesFirst
<1> QED
  BY <1>1, <1>3, <1>4, <1>5, <1>6, <1>7 DEF t

\* The plan of the CatalogSources.
LEMMA CatalogPlanSteps ==
    ASSUME NEW spec \in Specs
    PROVE  /\ CatalogPlan(spec) \in Seq(Steps)
           /\ NoPut(CatalogPlan(spec), "ICSP") /\ NoPut(CatalogPlan(spec), "IDMS")
<1> DEFINE S == DOMAIN spec.catalogSources
           w == SetToSeq(S)
           a == <<Call("prune", Marketplace, S)>>
           b == IF w = <<>> THEN <<>> ELSE <<Call("patch", Marketplace, "workload")>>
           c == [i \in 1..Len(w) |-> Call("put", w[i], spec.catalogSources[w[i]])]
<1>1. S \in SUBSET Catalogs /\ \A n \in S : spec.catalogSources[n] \in Data
  BY SpecsAssumption DEF SpecRecords
<1>2. Cardinality(S) \in Nat /\ w \in [1..Cardinality(S) -> S]
  BY <1>1, Enumerates
<1>3. w \in Seq(S) /\ Len(w) \in Nat /\ \A i \in 1..Len(w) : w[i] \in S
  BY <1>2, IsASeq, LenProperties
<1>4. a \in Seq(Steps) /\ NoPut(a, "ICSP") /\ NoPut(a, "IDMS")
  <2>1. Call("prune", Marketplace, S) \in Steps /\ Call("prune", Marketplace, S).do = "prune"
    BY <1>1 DEF Call, Steps, Prunes
  <2> QED
    BY <2>1 DEF NoPut
<1>5. b \in Seq(Steps) /\ NoPut(b, "ICSP") /\ NoPut(b, "IDMS")
  <2>1. /\ Call("patch", Marketplace, "workload") \in Steps
        /\ Call("patch", Marketplace, "workload").do = "patch"
    BY DEF Call, Steps, Labels
  <2> QED
    BY <2>1 DEF NoPut
<1>6. c \in Seq(Steps) /\ NoPut(c, "ICSP") /\ NoPut(c, "IDMS")
  <2>1. ASSUME NEW i \in 1..Len(w)
        PROVE  /\ Call("put", w[i], spec.catalogSources[w[i]]) \in Steps
               /\ Call("put", w[i], spec.catalogSources[w[i]]).on \in Catalogs
    BY <1>1, <1>3, Names DEF Call, Steps, Puts, Made
  <2>2. c \in [1..Len(w) -> Steps]
    BY <2>1
  <2>3. c \in Seq(Steps) /\ Len(c) = Len(w)
    BY <1>3, <2>2, Listed
  <2>4. \A i \in 1..Len(c) : c[i].on \in Catalogs
    BY <2>1, <2>3
  <2> QED
    BY <2>3, <2>4, Names DEF NoPut
<1>7. CatalogPlan(spec) = (a \o b) \o c
  BY DEF CatalogPlan
<1> HIDE DEF a, b, c
<1>8. a \o b \in Seq(Steps) /\ NoPut(a \o b, "ICSP") /\ NoPut(a \o b, "IDMS")
  BY <1>4, <1>5, JoinNoPut, ConcatProperties
<1> QED
  BY <1>6, <1>7, <1>8, JoinNoPut, ConcatProperties

\* The plan of the keys.
LEMMA SSHPlanSteps ==
    ASSUME NEW spec \in Specs
    PROVE  /\ SSHPlan(spec) \in Seq(Steps)
           /\ NoPut(SSHPlan(spec), "ICSP") /\ NoPut(SSHPlan(spec), "IDMS")
<1> DEFINE call(n) == IF spec.sshKeys = None THEN Call("erase", n, FALSE)
                                             ELSE Call("put", n, spec.sshKeys)
<1>1. ASSUME NEW n \in {"core-ssh-key-master", "core-ssh-key-worker"}
      PROVE  call(n) \in Steps /\ call(n).on = n
  <2>1. spec.sshKeys \in Data \cup {None} /\ n \in Made
    BY Names, SpecsAssumption DEF SpecRecords, Made
  <2> QED
    BY <2>1 DEF Call, Steps, Puts, Erases
<1>2. SSHPlan(spec) = <<call("core-ssh-key-master"), call("core-ssh-key-worker")>>
  BY DEF SSHPlan
<1> HIDE DEF call
<1> QED
  BY <1>1, <1>2 DEF NoPut

\* The plan of the mirrors, for the version of the cluster.
LEMMA MirrorPlanSteps ==
    ASSUME NEW spec \in Specs
    PROVE  /\ MirrorPlan(spec) \in Seq(Steps)
           /\ Version = "4.13" => NoPut(MirrorPlan(spec), "ICSP")
           /\ Version # "4.13" => NoPut(MirrorPlan(spec), "IDMS")
           /\ RemovesFirst(MirrorPlan(spec))
<1> DEFINE m == spec.imageDigestMirrors
           removes(n) == Call("erase", n, FALSE)
           makes(n) == Call("put", n, m)
<1>1. ASSUME NEW n \in MirrorSets
      PROVE  removes(n) \in Steps /\ removes(n).do = "erase" /\ removes(n).on = n
  BY Names DEF Call, Steps, Erases, Made, MirrorSets
<1>2. ASSUME NEW n \in MirrorSets, m # None
      PROVE  makes(n) \in Steps /\ makes(n).do = "put" /\ makes(n).on = n
  <2>1. m \in Data /\ n \in Made
    BY <1>2, Names, SpecsAssumption DEF SpecRecords, Made, MirrorSets
  <2> QED
    BY <2>1 DEF Call, Steps, Puts
<1>3. "ICSP" \in MirrorSets /\ "IDMS" \in MirrorSets
  BY DEF MirrorSets
<1>4. MirrorPlan(spec) =
        IF m = None THEN <<removes(IF Version = "4.13" THEN "IDMS" ELSE "ICSP")>>
        ELSE IF Version # "4.13" THEN <<makes("ICSP")>>
        ELSE <<removes("ICSP"), makes("IDMS")>>
  BY DEF MirrorPlan
<1> HIDE DEF m, removes, makes
<1>5. ASSUME NEW n \in MirrorSets
      PROVE  <<removes(n)>> \in Seq(Steps) /\ NoPut(<<removes(n)>>, "ICSP")
             /\ NoPut(<<removes(n)>>, "IDMS") /\ RemovesFirst(<<removes(n)>>)
  BY <1>1 DEF NoPut, RemovesFirst
<1>6. CASE m = None
  BY <1>3, <1>4, <1>5, <1>6
<1>7. CASE m # None /\ Version # "4.13"
  <2>1. makes("ICSP") \in Steps /\ makes("ICSP").on = "ICSP"
    BY <1>2, <1>3, <1>7
  <2>2. MirrorPlan(spec) = <<makes("ICSP")>>
    BY <1>4, <1>7
  <2> QED
    BY <1>7, <2>1, <2>2 DEF NoPut, RemovesFirst
<1>8. CASE m # None /\ Version = "4.13"
  <2> DEFINE a == removes("ICSP")  b == makes("IDMS")
  <2>1. a \in Steps /\ a.do = "erase" /\ a.on = "ICSP" /\ b \in Steps /\ b.on = "IDMS"
    BY <1>1, <1>2, <1>3, <1>8
  <2>2. MirrorPlan(spec) = <<a, b>>
    BY <1>4, <1>8
  <2> HIDE DEF a, b
  <2>3. <<a, b>> \in Seq(Steps) /\ NoPut(<<a, b>>, "ICSP")
    BY <2>1 DEF NoPut
  <2>4. RemovesFirst(<<a, b>>)
    <3> SUFFICES ASSUME NEW i \in 1..2, <<a, b>>[i].on = "IDMS"
                 PROVE  \E j \in 1..(i - 1) : <<a, b>>[j].do = "erase" /\ <<a, b>>[j].on = "ICSP"
      BY DEF RemovesFirst
    <3>1. i = 2
      BY <2>1
    <3> QED
      BY <2>1, <3>1
  <2> QED
    BY <1>8, <2>2, <2>3, <2>4
<1> QED
  BY <1>6, <1>7, <1>8

\* The plan of a pass.
LEMMA PlanSteps ==
    ASSUME NEW c \in CRs
    PROVE  /\ Plan(c) \in Seq(Steps)
           /\ Version = "4.13" => NoPut(Plan(c), "ICSP") /\ RemovesFirst(Plan(c))
           /\ Version # "4.13" => NoPut(Plan(c), "IDMS")
<1>1. CASE c.deleting
  BY <1>1 DEF Plan, NoPut, RemovesFirst
<1>2. CASE ~c.deleting
  <2> DEFINE a == SSHPlan(c.spec)  b == MirrorPlan(c.spec)  d == CatalogPlan(c.spec)
  <2>1. c.spec \in Specs /\ Plan(c) = (a \o b) \o d
    BY <1>2 DEF CRs, Plan
  <2>2. /\ a \in Seq(Steps) /\ b \in Seq(Steps) /\ d \in Seq(Steps)
        /\ NoPut(a, "ICSP") /\ NoPut(a, "IDMS") /\ NoPut(d, "ICSP") /\ NoPut(d, "IDMS")
        /\ Version = "4.13" => NoPut(b, "ICSP")
        /\ Version # "4.13" => NoPut(b, "IDMS")
        /\ RemovesFirst(b)
    BY <2>1, SSHPlanSteps, MirrorPlanSteps, CatalogPlanSteps
  <2> HIDE DEF a, b, d
  <2>3. /\ a \o b \in Seq(Steps)
        /\ Version = "4.13" => NoPut(a \o b, "ICSP")
        /\ Version # "4.13" => NoPut(a \o b, "IDMS")
        /\ RemovesFirst(a \o b)
    BY <2>2, JoinNoPut, JoinBefore, ConcatProperties
  <2>4. (a \o b) \o d \in Seq(Steps)
    BY <2>2, <2>3, ConcatProperties
  <2> QED
    BY <2>1, <2>2, <2>3, <2>4, JoinNoPut, JoinAfter
<1> QED
  BY <1>1, <1>2

-----------------------------------------------------------------------------
(* Steps.                                                                  *)

\* Every step is one of Lifecycle, or leaves it alone.
LEMMA NextLifecycle == LifecycleType /\ [Next]_vars => [LifecycleNext]_lifecycle
<1> SUFFICES ASSUME LifecycleType, [Next]_vars PROVE [LifecycleNext]_lifecycle
  OBVIOUS
<1> USE CallEnds, StageStep
<1>1. CASE Start
  BY <1>1 DEF Start, LifecycleNext
<1>2. CASE NoSuchKind
  BY <1>2 DEF NoSuchKind
<1>3. CASE Calls \/ Erase
  BY <1>3
<1>4. CASE Prune
  BY <1>4 DEF Prune, lifecycle
<1>5. CASE Users \/ CallFails \/ Crash \/ DeliverCR \/ DeliverObjects
           \/ \E n \in Objects : Collect(n)
  BY <1>5
<1>6. CASE Drift
  BY <1>6 DEF Drift
<1>7. CASE Upgrade \/ InstallCRD \/ UNCHANGED vars
  BY <1>7 DEF Upgrade, InstallCRD, vars, lifecycle
<1>8. CASE FinishUpgrade
  BY <1>8 DEF FinishUpgrade, LifecycleNext
<1> QED
  BY <1>1, <1>2, <1>3, <1>4, <1>5, <1>6, <1>7, <1>8 DEF Next, Worker, Surroundings

\* The calls that are left, after a call that succeeds.
Continues ==
    \/ todo' = Tail(todo)
    \/ /\ At("prune")
       /\ \E p \in Seq(Steps) : /\ NoPut(p, "ICSP") /\ NoPut(p, "IDMS")
                                /\ todo' = p \o Tail(todo)

\* What it has done.
Makes == \E o \in Kept : store' = [store EXCEPT ![On] = o]

Works ==
    \/ UNCHANGED store /\ (At("erase") => store[On] = None)
    \/ At("erase") /\ store' = [store EXCEPT ![On] = None]
    \/ At("put") /\ Makes
    \/ /\ At("patch") /\ Makes
       /\ store'[Marketplace] # None /\ store'[Marketplace].owner = store[Marketplace].owner

Goes == /\ StoreType' /\ Program' /\ Namespace' /\ UNCHANGED watched
        /\ \/ todo' = <<>> /\ UNCHANGED store
           \/ todo # <<>> /\ Continues /\ Works

\* The kinds of calls.
LEMMA Kinds ==
    ASSUME Program, todo # <<>>
    PROVE  /\ Tail(todo) \in Seq(Steps) /\ Head(todo) \in Steps /\ pass # None
           /\ On \in Objects
           /\ \/ At("put") /\ On \in Made /\ With \in Data
              \/ At("erase") /\ On \in Made
              \/ At("prune") /\ On = Marketplace
              \/ At("patch") /\ On = Marketplace /\ With = "workload"
           /\ At("put") \/ At("erase") => On # Marketplace
<1>1. Tail(todo) \in Seq(Steps) /\ Head(todo) \in Steps /\ pass # None
  BY Rests DEF Program
<1> USE Names DEF At, On, With, Made
<1>2. CASE Head(todo) \in Puts
  BY <1>1, <1>2 DEF Puts
<1>3. CASE Head(todo) \in Erases
  BY <1>1, <1>3 DEF Erases
<1>4. CASE Head(todo) \in Prunes
  BY <1>1, <1>4 DEF Prunes
<1>5. CASE Head(todo) \in Labels
  BY <1>1, <1>5 DEF Labels
<1> QED
  BY <1>1, <1>2, <1>3, <1>4, <1>5 DEF Steps

\* A call that fails.
LEMMA FailGoes ==
    ASSUME StoreType, Namespace, Fails
    PROVE  Goes
<1>1. Errs
  BY FailsErrs
<1>2. todo' \in Seq(Steps) /\ todo' = <<>>
  BY <1>1 DEF Errs
<1> QED
  BY <1>1, <1>2 DEF Goes, Errs, objects, StoreType, Program, Namespace

\* The calls that make something.
LEMMA PutGoes ==
    ASSUME LifecycleType, StoreType, Program, Namespace, Put \/ Patch
    PROVE  Goes
<1>0. todo # <<>> /\ store \in [Objects -> Kept \cup {None}] /\ Marketplace \in Objects
  BY Names DEF Put, Patch, At, StoreType, Stores
<1>1. /\ Tail(todo) \in Seq(Steps) /\ pass # None /\ On \in Objects
      /\ At("put") => On # Marketplace /\ With \in Data
      /\ At("patch") => On = Marketplace /\ With \in Data
  BY <1>0, Kinds, DataAssumption DEF At
<1>2. Runnable
  BY <1>1, Kinds DEF Runnable, Namespace, At
<1>3. StoreType' /\ (Does \/ Errs)
  BY <1>1, <1>2, CallDoes
<1>4. CASE Errs
  BY <1>3, <1>4, EmptySeq DEF Errs, Goes, objects, StoreType, Program, Namespace
<1>5. CASE Does
  <2>1. todo' = Tail(todo) /\ UNCHANGED <<pass, watched>> /\ Program' /\ ~At("erase") /\ ~At("prune")
    <3>1. todo' = Tail(todo) /\ UNCHANGED <<pass, watched>>
      BY <1>5 DEF Does, Succeeds
    <3> QED
      BY <1>1, <3>1 DEF Program, Put, Patch, At
  <2>2. CASE UNCHANGED store
    BY <1>0, <1>3, <2>1, <2>2 DEF Goes, Continues, Works, Namespace
  <2>3. CASE At("put") /\ Makes
    <3>1. store'[Marketplace] = store[Marketplace]
      BY <1>0, <1>1, <2>3 DEF Makes
    <3> QED
      BY <1>0, <1>3, <2>1, <2>3, <3>1 DEF Goes, Continues, Works, Namespace
  <2>4. CASE At("patch") /\ Makes
    <3>1. store[Marketplace] \in Kept /\ On = Marketplace
      BY <1>0, <1>1, <2>4 DEF Namespace
    <3>2. Skip \/ Write([store EXCEPT ![Marketplace].data = With])
      BY <1>1, <2>4, <3>1 DEF Patch, Put, At
    <3>3. CASE Skip
      BY <1>0, <1>3, <2>1, <2>2, <3>3 DEF Skip, objects
    <3>4. CASE Write([store EXCEPT ![Marketplace].data = With])
      <4>1. store'[Marketplace] = [store[Marketplace] EXCEPT !.data = With]
        BY <1>0, <3>4 DEF Write
      <4>2. [store[Marketplace] EXCEPT !.data = With] \in Kept
        BY <1>1, <2>4, <3>1 DEF Kept
      <4>3. /\ store'[Marketplace] # None
            /\ store'[Marketplace].owner = store[Marketplace].owner
        BY <3>1, <4>1, <4>2, NoneAssumption DEF Kept
      <4> QED
        BY <1>0, <1>3, <2>1, <2>4, <4>3 DEF Goes, Continues, Works, Namespace
    <3> QED
      BY <3>2, <3>3, <3>4
  <2>5. At("put") \/ At("patch")
    BY DEF Put, Patch
  <2> QED
    BY <1>5, <2>1, <2>2, <2>3, <2>4, <2>5 DEF Does, Makes, At
<1> QED
  BY <1>3, <1>4, <1>5

\* The call that deletes.
LEMMA EraseGoes ==
    ASSUME StoreType, Program, Namespace, Erase
    PROVE  Goes
<1>0. /\ todo # <<>> /\ store \in [Objects -> Kept \cup {None}] /\ Marketplace \in Objects
      /\ At("erase")
  BY Names DEF Erase, At, StoreType, Stores
<1>1. /\ Tail(todo) \in Seq(Steps) /\ pass # None /\ On \in Objects /\ On # Marketplace
  BY <1>0, Kinds
<1>2. CASE Fails
  BY <1>2, FailGoes
<1>3. CASE Skip /\ store[On] = None
  <2>1. UNCHANGED <<store, behind, lag, watched, pass>> /\ todo' = Tail(todo)
    BY <1>3 DEF Skip, Advance, objects
  <2> QED
    BY <1>0, <1>1, <1>3, <2>1 DEF Goes, Continues, Works, StoreType, Program, Namespace
<1>4. CASE Advance /\ Write([store EXCEPT ![On] = None])
  <2>1. [store EXCEPT ![On] = None] \in Stores
    BY <1>0, <1>1 DEF Stores
  <2>2. /\ StoreType' /\ store' = [store EXCEPT ![On] = None] /\ UNCHANGED <<watched, pass>>
        /\ todo' = Tail(todo)
    BY <1>4, <2>1, WriteTyped DEF Advance, Write
  <2>3. store'[Marketplace] = store[Marketplace]
    BY <1>0, <1>1, <2>2
  <2> QED
    BY <1>0, <1>1, <2>2, <2>3 DEF Goes, Continues, Works, Program, Namespace
<1> QED
  BY <1>2, <1>3, <1>4 DEF Erase

\* The call that lists the CatalogSources, and adds those to delete.
LEMMA PruneGoes ==
    ASSUME StoreType, Program, Namespace, Prune
    PROVE  Goes
<1> DEFINE S == {n \in Catalogs \ With : cache[n] # None /\ cache[n].owner # 0}
           erases(s) == [i \in 1..Len(s) |-> Call("erase", s[i], TRUE)]
<1>1. todo # <<>> /\ At("prune") /\ UNCHANGED <<store, behind, lag, watched, pass>>
  BY DEF Prune, At, lifecycle, objects
<1>2. PICK old \in SetToSeqs(S) : todo' = erases(old) \o Tail(todo)
  BY DEF Prune
<1>3. Tail(todo) \in Seq(Steps) /\ pass # None
  BY <1>1, Kinds
<1>4. Cardinality(S) \in Nat /\ S \subseteq Catalogs
  BY Enumerates
<1>5. old \in [1..Cardinality(S) -> S]
  BY <1>2 DEF SetToSeqs
<1> HIDE DEF S
<1>6. old \in Seq(S) /\ Len(old) \in Nat /\ \A i \in 1..Len(old) : old[i] \in Catalogs
  <2>1. old \in Seq(S)
    BY <1>4, <1>5, IsASeq
  <2> QED
    BY <1>4, <2>1, LenProperties, ElementOfSeq
<1>7. ASSUME NEW n \in Catalogs PROVE Call("erase", n, TRUE) \in Steps /\ Call("erase", n, TRUE).do = "erase"
  BY Names DEF Call, Steps, Erases, Made
<1>8. erases(old) \in [1..Len(old) -> Steps]
  BY <1>6, <1>7
<1>9. erases(old) \in Seq(Steps) /\ Len(erases(old)) = Len(old)
  BY <1>6, <1>8, Listed
<1>10. NoPut(erases(old), "ICSP") /\ NoPut(erases(old), "IDMS")
  BY <1>6, <1>7, <1>9 DEF NoPut
<1> HIDE DEF erases
<1>11. todo' \in Seq(Steps)
  BY <1>2, <1>3, <1>9, ConcatProperties
<1>12. Continues
  BY <1>1, <1>2, <1>9, <1>10 DEF Continues
<1> QED
  BY <1>1, <1>3, <1>11, <1>12 DEF Goes, Works, StoreType, Program, Namespace, At

\* The worker's calls.
LEMMA CallGoes ==
    ASSUME LifecycleType, StoreType, Program, Namespace, NoSuchKind \/ Calls \/ Erase \/ Prune
    PROVE  Goes
<1>1. ~(Validate \/ Read \/ Own \/ Paste)
  BY Kinds DEF Validate, Read, Own, Paste, At
<1>2. CASE EndPass
  <2>1. todo' = <<>> /\ todo = <<>> /\ UNCHANGED <<store, behind, lag, watched>>
    BY <1>2 DEF EndPass, objects
  <2> QED
    BY <2>1 DEF Goes, StoreType, Program, Namespace
<1>3. NoSuchKind => Fails
  BY DEF NoSuchKind
<1> QED
  BY <1>1, <1>2, <1>3, FailGoes, PutGoes, EraseGoes, PruneGoes DEF Calls

\* What happens around the pass.
LEMMA OthersGo ==
    ASSUME LifecycleInv, StoreType, Program, Namespace,
           \/ Users \/ DeliverCR \/ DeliverObjects \/ CallFails \/ Crash
           \/ \E n \in Objects : Collect(n)
           \/ Drift
    PROVE  /\ StoreType' /\ Program' /\ Namespace'
           /\ todo' = todo \/ todo' = <<>>
           /\ \A n \in Objects : store'[n] # None => store[n] # None
<1>0. LifecycleType /\ store \in [Objects -> Kept \cup {None}] /\ Marketplace \in Objects
  BY Names DEF LifecycleInv, StoreType, Stores
<1>1. Drift => \E n \in Objects \ {Marketplace}, o \in Kept \cup {None} :
                  Change(n, o) /\ store[n] # None
  <2> SUFFICES ASSUME NEW n \in Objects \ {Marketplace}, store[n] # None,
                      \/ Change(n, None)
                      \/ Change(n, [store[n] EXCEPT !.data = "none"])
               PROVE  \E o \in Kept \cup {None} : Change(n, o)
    BY DEF Drift
  <2>1. store[n] \in Kept
    BY <1>0
  <2>2. [store[n] EXCEPT !.data = "none"] \in Kept
    BY <2>1, DataAssumption DEF Kept
  <2> QED
    BY <2>2
<1>2. /\ StoreType'
      /\ \/ UNCHANGED <<pass, todo, held>>
         \/ pass' = None /\ todo' = <<>> /\ held' = None
  BY <1>0, <1>1, OthersDo
<1>3. /\ store'[Marketplace] = store[Marketplace]
      /\ \A n \in Objects : store'[n] # None => store[n] # None
  <2>1. CASE Users \/ DeliverCR \/ DeliverObjects \/ CallFails \/ Crash
    BY <2>1 DEF Users, DeliverCR, DeliverObjects, CallFails, Crash, objects
  <2>2. ASSUME NEW n \in Objects, Collect(n)
        PROVE  /\ store'[Marketplace] = store[Marketplace]
               /\ \A m \in Objects : store'[m] # None => store[m] # None
    <3>1. store' = [store EXCEPT ![n] = None] /\ n # Marketplace
      BY <2>2 DEF Collect, Write, Namespace
    <3> QED
      BY <1>0, <3>1
  <2>3. ASSUME NEW n \in Objects \ {Marketplace}, NEW o \in Kept \cup {None},
               Change(n, o), store[n] # None
        PROVE  /\ store'[Marketplace] = store[Marketplace]
               /\ \A m \in Objects : store'[m] # None => store[m] # None
    <3>1. store' = [store EXCEPT ![n] = o]
      BY <2>3 DEF Change, Write
    <3> QED
      BY <1>0, <2>3, <3>1
  <2> QED
    BY <1>1, <2>1, <2>2, <2>3
<1>4. Program'
  <2>1. CASE UNCHANGED <<pass, todo>>
    BY <2>1 DEF Program
  <2>2. CASE todo' = <<>>
    BY <2>2 DEF Program
  <2> QED
    BY <1>2, <2>1, <2>2
<1> QED
  BY <1>2, <1>3, <1>4 DEF Namespace

\* The start of a pass.
LEMMA StartGoes ==
    ASSUME LifecycleInv', StoreType, Namespace, Start, watched \subseteq Objects
    PROVE  /\ StoreType' /\ Program' /\ Namespace' /\ UNCHANGED store
           /\ watched' \subseteq Objects /\ watchingIDMS' \in {watchingIDMS, TRUE}
           /\ \/ todo' = <<>>
              \/ \E c \in CRs : todo' = Plan(c)
<1>1. StoreType' /\ Namespace' /\ UNCHANGED store
  BY DEF Start, StoreType, Namespace
<1>2. watched' \subseteq Objects /\ watchingIDMS' \in {watchingIDMS, TRUE}
  BY Names DEF Start, WatchIDMS
<1>3. CASE pass' = None
  <2>1. todo' = <<>>
    BY <1>3 DEF Start
  <2>2. Program'
    BY <2>1 DEF Program
  <2> QED
    BY <1>1, <1>2, <2>1, <2>2
<1>4. CASE pass' # None
  <2>1. pass' \in CRs /\ todo' = Plan(pass')
    BY <1>4 DEF Start, LifecycleInv, LifecycleType
  <2> QED
    BY <1>1, <1>2, <1>4, <2>1, PlanSteps DEF Program
<1> QED
  BY <1>3, <1>4

\* Every step keeps the types.
LEMMA TypesStep == Types /\ [Next]_vars => Types'
<1> SUFFICES ASSUME Types, [Next]_vars PROVE Types'
  OBVIOUS
<1>0. /\ LifecycleInv' /\ LifecycleInv /\ LifecycleType /\ StoreType /\ Program /\ Namespace
      /\ World
  BY NextLifecycle, LifecycleStep DEF Types, LifecycleInv
<1>1. SUFFICES StoreType' /\ Program' /\ Namespace' /\ World'
  BY <1>0 DEF Types
<1> USE DEF upgrade
<1>2. CASE Start /\ UNCHANGED upgrade
  BY <1>0, <1>2, StartGoes DEF World
<1>3. CASE (NoSuchKind \/ Calls \/ Erase \/ Prune) /\ UNCHANGED <<upgrade, watchingIDMS>>
  BY <1>0, <1>3, CallGoes DEF World, Goes
<1>4. CASE (Surroundings \/ DeliverCR \/ DeliverObjects) /\ UNCHANGED <<upgrade, watchingIDMS>>
  <2>1. UNCHANGED watched
    BY <1>4 DEF Surroundings, Users, Drift, CallFails, Collect, Change, Write, DeliverCR,
                DeliverObjects, objects
  <2>2. StoreType' /\ Program' /\ Namespace'
    BY <1>0, <1>4, OthersGo DEF Surroundings
  <2> QED
    BY <1>0, <1>4, <2>1, <2>2 DEF World
<1>5. CASE Crash /\ Anew /\ UNCHANGED upgrade
  BY <1>0, <1>5, OthersGo DEF World, Anew
<1>6. CASE Upgrade \/ InstallCRD
  <2>1. release' \in 1..Len(Releases)
    BY <1>0, <1>6, ReleasesAssumption, LenProperties DEF Upgrade, InstallCRD, World
  <2> QED
    BY <1>0, <1>6, <2>1
       DEF Upgrade, InstallCRD, World, lifecycle, objects, program, StoreType, Program, Namespace
<1>7. CASE FinishUpgrade
  <2>1. /\ UNCHANGED <<store, lag, release, crd>> /\ behind' = <<>> /\ todo' = <<>>
        /\ watched' = Objects \ {"IDMS"} /\ watchingIDMS' = FALSE /\ upgrading' = FALSE
    BY <1>7 DEF FinishUpgrade, Anew
  <2>2. behind' \in Seq(Stores) /\ Len(behind') = 0 /\ todo' \in Seq(Steps)
    BY <2>1
  <2>3. StoreType' /\ Program' /\ Namespace'
    BY <1>0, <2>1, <2>2 DEF StoreType, Program, Namespace
  <2>4. World'
    BY <1>0, <2>1 DEF World
  <2> QED
    BY <2>3, <2>4
<1>8. CASE UNCHANGED vars
  BY <1>0, <1>8 DEF vars, World, StoreType, Program, Namespace, objects, program, lifecycle
<1> QED
  BY <1>2, <1>3, <1>4, <1>5, <1>6, <1>7, <1>8 DEF Next, Worker

\* The invariant, of the initial states.
LEMMA InitTyped == Init => Types /\ Mirrors
<1> SUFFICES ASSUME Init PROVE Types /\ Mirrors
  OBVIOUS
<1>1. PICK others \in {{}, Catalogs} :
         StageInit([n \in Objects |->
                      IF n = Marketplace \/ n \in others THEN [data |-> "none", owner |-> 0]
                      ELSE None],
                   Objects \ {"IDMS"})
  BY DEF Init
<1>2. [data |-> "none", owner |-> 0] \in Kept
  BY DataAssumption DEF Kept
<1> DEFINE o == [data |-> "none", owner |-> 0]
<1>3. /\ LifecycleInit /\ behind = <<>> /\ lag \in Lags /\ todo = <<>>
      /\ watched = Objects \ {"IDMS"}
      /\ store = [n \in Objects |-> IF n = Marketplace \/ n \in others THEN o ELSE None]
  BY <1>1 DEF StageInit
<1>4. o \in Kept /\ o.owner = 0 /\ o # None
  BY <1>2, NoneAssumption
<1> HIDE DEF o
<1>5. LifecycleInv
  BY <1>3, LifecycleInitHolds
<1>6. StoreType
  <2>1. store \in Stores /\ lag \in Nat /\ behind \in Seq(Stores) /\ Len(behind) = 0
    BY <1>3, <1>4, BoundsAssumption DEF Stores
  <2> QED
    BY <2>1 DEF StoreType
<1>7. Namespace /\ store["IDMS"] = None
  <2>1. "IDMS" # Marketplace /\ "IDMS" \notin others /\ "IDMS" \in Objects
    BY Names DEF Marketplace
  <2> QED
    BY <1>3, <1>4, <2>1, Names DEF Namespace
<1>8. World
  <2>1. Len(Releases) \in Nat /\ Len(Releases) # 0
    BY ReleasesAssumption, LenProperties, EmptySeq
  <2>2. release = 1 /\ upgrading = FALSE /\ crd \in BOOLEAN /\ watchingIDMS = FALSE
    BY DEF Init
  <2>3. 1 \in 1..Len(Releases)
    BY <2>1
  <2>4. watched \subseteq Objects
    BY <1>3
  <2> QED
    BY <2>2, <2>3, <2>4 DEF World
<1>9. Program
  BY <1>3 DEF Program
<1>10. Mirrors
  <2>1. \A n : NoPut(todo, n)
    BY <1>3 DEF NoPut
  <2> QED
    BY <1>7, <2>1 DEF Mirrors
<1> QED
  BY <1>5, <1>6, <1>7, <1>8, <1>9, <1>10 DEF Types

\* An upgrade does not go back behind 4.13.
LEMMA VersionStep ==
    ASSUME Types, Types', [Next]_vars
    PROVE  /\ Version = "4.13" => Version' = "4.13"
           /\ Upgrade \/ UNCHANGED Version
<1>1. CASE Upgrade
  <2>1. release \in 1..Len(Releases) - 1 /\ release' = release + 1
    BY <1>1, ReleasesAssumption, LenProperties DEF Upgrade, Types, World
  <2> QED
    BY <1>1, <2>1, UpgradesAssumption DEF Version
<1>2. CASE ~Upgrade
  <2>1. UNCHANGED release
    BY <1>2 DEF Next, Worker, InstallCRD, FinishUpgrade, vars, upgrade
  <2> QED
    BY <2>1 DEF Version
<1> QED
  BY <1>1, <1>2

\* The mirror sets, after a call.
LEMMA MirrorsCall ==
    ASSUME Types, Mirrors, Goes, UNCHANGED Version
    PROVE  Mirrors'
<1>0. /\ store \in [Objects -> Kept \cup {None}] /\ "ICSP" \in Objects /\ "IDMS" \in Objects
      /\ Program /\ Marketplace # "ICSP" /\ Marketplace # "IDMS"
  BY Names DEF Types, StoreType, Stores, Marketplace
<1>1. CASE todo' = <<>> /\ UNCHANGED store
  <2>1. \A n : NoPut(todo', n)
    BY <1>1 DEF NoPut
  <2> QED
    BY <1>1, <2>1 DEF Mirrors
<1>2. CASE todo # <<>> /\ Continues /\ Works
  <2> DEFINE removes == At("erase") /\ On = "ICSP"
  <2>1. /\ todo \in Seq(Steps) /\ Tail(todo) \in Seq(Steps)
        /\ \A n : NoPut(todo, n) => NoPut(Tail(todo), n)
        /\ RemovesFirst(todo) => RemovesFirst(Tail(todo)) \/ removes
        /\ At("put") => ~NoPut(todo, On) /\ (RemovesFirst(todo) => On # "IDMS")
    BY <1>0, <1>2, Rests DEF Program, At, On
  <2>2. /\ \A n \in MirrorSets : NoPut(todo, n) => NoPut(todo', n)
        /\ RemovesFirst(todo) => RemovesFirst(todo') \/ removes
    <3>1. CASE todo' = Tail(todo)
      BY <2>1, <3>1
    <3>2. ASSUME NEW p \in Seq(Steps), NoPut(p, "ICSP"), NoPut(p, "IDMS"), todo' = p \o Tail(todo)
          PROVE  /\ \A n \in MirrorSets : NoPut(todo, n) => NoPut(todo', n)
                 /\ RemovesFirst(todo) => RemovesFirst(todo') \/ removes
      BY <2>1, <3>2, JoinNoPut, JoinBefore DEF MirrorSets
    <3> QED
      BY <1>2, <3>1, <3>2 DEF Continues
  <2>3. /\ removes => store'["ICSP"] = None
        /\ ~(At("put") /\ On = "ICSP") /\ store["ICSP"] = None => store'["ICSP"] = None
        /\ ~(At("put") /\ On = "IDMS") /\ store["IDMS"] = None => store'["IDMS"] = None
        /\ At("put") /\ On = "IDMS" => store'["ICSP"] = store["ICSP"]
        /\ At("put") /\ On = "ICSP" => store'["IDMS"] = store["IDMS"]
    <3>1. On \in Objects /\ (At("patch") => On = Marketplace)
      BY <1>0, <1>2, Kinds DEF At
    <3>2. CASE UNCHANGED store /\ (At("erase") => store[On] = None)
      BY <3>2
    <3>3. CASE At("erase") /\ store' = [store EXCEPT ![On] = None]
      <4>1. ~At("put") /\ \A n \in Objects : store[n] = None => store'[n] = None
        BY <1>0, <3>1, <3>3 DEF At
      <4> QED
        BY <1>0, <3>1, <3>3, <4>1
    <3>4. CASE (At("put") \/ At("patch")) /\ Makes
      <4>1. ~At("erase") /\ \A n \in Objects : n # On => store'[n] = store[n]
        BY <1>0, <3>1, <3>4 DEF At, Makes
      <4>2. At("patch") => On # "ICSP" /\ On # "IDMS"
        BY <1>0, <3>1
      <4> QED
        BY <1>0, <3>4, <4>1, <4>2
    <3> QED
      BY <1>2, <3>2, <3>3, <3>4 DEF Works
  <2> HIDE DEF removes
  <2>4. "ICSP" \in MirrorSets /\ "IDMS" \in MirrorSets
    BY DEF MirrorSets
  <2>5. store'["IDMS"] # None => Version = "4.13" /\ store'["ICSP"] = None
    BY <2>1, <2>3 DEF Mirrors
  <2>6. NoPut(todo', "ICSP") \/ (NoPut(todo', "IDMS") /\ store'["IDMS"] = None)
    BY <2>1, <2>2, <2>3, <2>4 DEF Mirrors
  <2>7. \/ NoPut(todo', "IDMS")
        \/ Version = "4.13" /\ (store'["ICSP"] = None \/ RemovesFirst(todo'))
    BY <2>1, <2>2, <2>3, <2>4 DEF Mirrors
  <2> QED
    BY <2>5, <2>6, <2>7 DEF Mirrors
<1> QED
  BY <1>1, <1>2 DEF Goes

\* Every step keeps the invariant.
LEMMA MirrorsStep == Types /\ Mirrors /\ [Next]_vars => Types' /\ Mirrors'
<1> SUFFICES ASSUME Types, Mirrors, [Next]_vars PROVE Types' /\ Mirrors'
  OBVIOUS
<1>0. /\ Types' /\ LifecycleInv /\ LifecycleInv' /\ LifecycleType /\ StoreType /\ Program
      /\ Namespace /\ World /\ "ICSP" \in Objects /\ "IDMS" \in Objects
  BY TypesStep, Names DEF Types, LifecycleInv
<1> SUFFICES Mirrors'
  BY <1>0
<1>1. (Version = "4.13" => Version' = "4.13") /\ (Upgrade \/ UNCHANGED Version)
  BY <1>0, VersionStep
<1>2. ASSUME todo' = todo \/ todo' = <<>>,
             \A n \in Objects : store'[n] # None => store[n] # None
      PROVE  Mirrors'
  <2>1. CASE todo' = <<>>
    <3>1. \A n : NoPut(todo', n)
      BY <2>1 DEF NoPut
    <3> QED
      BY <1>0, <1>1, <1>2, <3>1 DEF Mirrors
  <2>2. CASE todo' = todo
    BY <1>0, <1>1, <1>2, <2>2 DEF Mirrors
  <2> QED
    BY <1>2, <2>1, <2>2
<1>3. CASE Start /\ UNCHANGED upgrade
  <2>1. UNCHANGED store /\ (todo' = <<>> \/ \E c \in CRs : todo' = Plan(c))
    BY <1>0, <1>3, StartGoes DEF World
  <2>2. UNCHANGED Version
    BY <1>3 DEF Version, upgrade
  <2>3. ASSUME NEW c \in CRs, todo' = Plan(c) PROVE Mirrors'
    BY <2>1, <2>2, <2>3, PlanSteps DEF Mirrors
  <2>4. \A n \in Objects : store'[n] # None => store[n] # None
    BY <2>1
  <2>5. CASE todo' = <<>>
    BY <1>2, <2>4, <2>5
  <2> QED
    BY <2>1, <2>3, <2>5
<1>4. CASE (NoSuchKind \/ Calls \/ Erase \/ Prune) /\ UNCHANGED <<upgrade, watchingIDMS>>
  <2>1. UNCHANGED Version
    BY <1>4 DEF Version, upgrade
  <2> QED
    BY <1>0, <1>4, <2>1, CallGoes, MirrorsCall
<1>5. CASE Surroundings \/ DeliverCR \/ DeliverObjects \/ Crash
  <2>1. /\ todo' = todo \/ todo' = <<>>
        /\ \A n \in Objects : store'[n] # None => store[n] # None
    BY <1>0, <1>5, OthersGo DEF Surroundings
  <2> QED
    BY <1>2, <2>1
<1>6. CASE Upgrade \/ InstallCRD \/ UNCHANGED vars \/ FinishUpgrade
  <2>1. UNCHANGED store /\ (todo' = todo \/ todo' = <<>>)
    BY <1>6 DEF Upgrade, InstallCRD, FinishUpgrade, vars, objects, program
  <2>2. \A n \in Objects : store'[n] # None => store[n] # None
    BY <2>1
  <2> QED
    BY <1>2, <2>1, <2>2
<1> QED
  BY <1>0, <1>3, <1>4, <1>5, <1>6 DEF Next, Worker

-----------------------------------------------------------------------------
(* Theorems.                                                               *)

\* Every variable has its type, and a pass with calls to make is under way, for any upgrade
\* path and any number of edits, failures and restarts.
THEOREM TypeCorrect == Spec => []TypeOK
<1>1. Init => Types
  BY InitTyped
<1>2. Types /\ [Next]_vars => Types'
  BY TypesStep
<1>3. Types => TypeOK
  BY DEF Types, TypeOK, LifecycleInv, LifecycleType, StoreType, Program, World
<1> QED
  BY <1>1, <1>2, <1>3, PTL DEF Spec

\* There are never mirror sets of both kinds: on a cluster at 4.13 createMirrors deletes
\* the old kind before it makes the new one, and no pass that makes the old kind is still
\* under way when the new one is there.
THEOREM OneKindOnly == Spec => []OneKindOfMirrorSet
<1>1. Init => Types /\ Mirrors
  BY InitTyped
<1>2. Types /\ Mirrors /\ [Next]_vars => Types' /\ Mirrors'
  BY MirrorsStep
<1>3. Mirrors => OneKindOfMirrorSet
  BY DEF Mirrors, OneKindOfMirrorSet
<1> QED
  BY <1>1, <1>2, <1>3, PTL DEF Spec

\* These stages and their surroundings do what Lifecycle says of the object and the pass,
\* also when an upgrade of the cluster restarts the controller.
THEOREM ImplementsLifecycle == Spec => LifecycleSpec
<1>1. Init => LifecycleInit
  BY DEF Init, StageInit
<1>2. Init => LifecycleInv
  BY LifecycleInitHolds, <1>1
<1>3. LifecycleInv /\ [Next]_vars => [LifecycleNext]_lifecycle
  BY NextLifecycle DEF LifecycleInv
<1>4. LifecycleInv /\ [Next]_vars => LifecycleInv'
  BY <1>3, LifecycleStep
<1> QED
  BY <1>1, <1>2, <1>3, <1>4, PTL DEF Spec, LifecycleSpec
==============================================================================
