---------------------- MODULE RelocationLifecycleProofs ----------------------
(***************************************************************************)
(* The controller implements Lifecycle, for all names, specs and bounds.   *)
(***************************************************************************)
EXTENDS RelocationLifecycle, ClusterRelocationProofs

-----------------------------------------------------------------------------
(* The refinement.                                                         *)

theCR    == Seen(cr["cluster"])
theKnown == Seen(cache["cluster"])
isQueued == "cluster" \in queue
thePass  == IF Working THEN Seen(relocation) ELSE None

\* What a stage sees of an object is one.
LEMMA SeenFields ==
    ASSUME NEW c \in CRs
    PROVE  /\ Seen(c) # None
           /\ Seen(c).uid = c.uid /\ Seen(c).spec = c.spec /\ Seen(c).generation = c.generation
           /\ Seen(c).finalizer = c.finalizer /\ Seen(c).deleting = c.deleting
           /\ Seen(c) \in L!CRs
<1>1. c # None
  BY NoneAssumption
<1>2. (/\ c.status.reconciled # None
       /\ c.status.reconciled.status
       /\ c.status.reconciled.observedGeneration = c.generation) \in BOOLEAN
  OBVIOUS
<1>3. Seen(c) \in L!CRs
  BY <1>1, <1>2 DEF Seen, L!CRs, CRs
<1> QED
  BY <1>1, <1>3, SeenAssumption DEF Seen

\* Two of them with the same fields are the same.
LEMMA SameFields ==
    ASSUME NEW r \in L!CRs, NEW t \in L!CRs,
           t.uid = r.uid, t.spec = r.spec, t.generation = r.generation,
           t.finalizer = r.finalizer, t.deleting = r.deleting, t.reconciled = r.reconciled
    PROVE  t = r
BY DEF L!CRs

\* The claim of success that a stage sees.
Claims(c) == /\ c.status.reconciled # None
             /\ c.status.reconciled.status
             /\ c.status.reconciled.observedGeneration = c.generation

\* A stage sees no more than these fields.
LEMMA SeenSame ==
    ASSUME NEW c \in CRs, NEW d \in CRs,
           d.uid = c.uid, d.spec = c.spec, d.generation = c.generation,
           d.finalizer = c.finalizer, d.deleting = c.deleting, d.status = c.status
    PROVE  Seen(d) = Seen(c)
<1>1. Seen(c).reconciled = Claims(c) /\ Seen(d).reconciled = Claims(d)
  BY NoneAssumption DEF Seen, Claims
<1>2. Claims(c) = Claims(d)
  BY DEF Claims
<1> QED
  BY <1>1, <1>2, SeenFields, SameFields

\* The updates of what a stage sees.
LEMMA SeenUpdates ==
    ASSUME NEW r \in L!CRs
    PROVE  /\ [r EXCEPT !.deleting = TRUE] \in L!CRs
           /\ [r EXCEPT !.finalizer = TRUE] \in L!CRs
           /\ [r EXCEPT !.finalizer = FALSE] \in L!CRs
           /\ \A s \in Specs, g \in Nat :
                 [r EXCEPT !.spec = s, !.generation = g, !.reconciled = FALSE] \in L!CRs
           /\ \A ok \in BOOLEAN : [r EXCEPT !.reconciled = ok] \in L!CRs
BY DEF L!CRs

\* The deletion is seen.
LEMMA SeenDeleted ==
    ASSUME NEW c \in CRs, NEW d \in CRs,
           \/ d = [c EXCEPT !.deleting = TRUE]
           \/ d = [c EXCEPT !.deleting = TRUE, !.orphan = TRUE]
    PROVE  Seen(d) = [Seen(c) EXCEPT !.deleting = TRUE]
<1> DEFINE r == [Seen(c) EXCEPT !.deleting = TRUE]
<1>1. Seen(c) \in L!CRs /\ Seen(d) \in L!CRs /\ r \in L!CRs
  BY SeenFields, SeenUpdates
<1>2. /\ r.uid = Seen(c).uid /\ r.spec = Seen(c).spec /\ r.generation = Seen(c).generation
      /\ r.finalizer = Seen(c).finalizer /\ r.deleting /\ r.reconciled = Seen(c).reconciled
  BY <1>1 DEF L!CRs
<1> HIDE DEF r
<1>3. /\ d.uid = c.uid /\ d.spec = c.spec /\ d.generation = c.generation
      /\ d.finalizer = c.finalizer /\ d.deleting = TRUE /\ d.status = c.status
  BY DEF CRs
<1>4. Seen(c).reconciled = Claims(c) /\ Seen(d).reconciled = Claims(d) /\ Claims(c) = Claims(d)
  BY <1>3, NoneAssumption DEF Seen, Claims
<1>5. Seen(d).deleting = r.deleting
  BY <1>1, <1>2, <1>3, SeenFields DEF L!CRs
<1>6. /\ Seen(d).uid = r.uid /\ Seen(d).spec = r.spec /\ Seen(d).generation = r.generation
      /\ Seen(d).finalizer = r.finalizer
  BY <1>2, <1>3, SeenFields
<1>7. Seen(d).reconciled = r.reconciled
  BY <1>2, <1>4
<1>8. Seen(d) = r
  BY ONLY <1>1, <1>5, <1>6, <1>7, SameFields
<1> QED
  BY <1>8 DEF r

\* Without an object there is nothing to see.
LEMMA SeenNone == Seen(None) = None
BY DEF Seen

\* The steps that neither the object, the copies, nor the queue take part in.
LEMMA Unseen ==
    ASSUME UNCHANGED <<theCR, theKnown, uids, isQueued, thePass>>
    PROVE  [L!LifecycleNext]_(L!lifecycle)
BY DEF L!lifecycle, theCR, theKnown, isQueued, thePass

\* The initial states.
LEMMA RefinedInit == Init => L!LifecycleInit
BY SeenNone, NamesAssumption DEF Init, L!LifecycleInit, Working

\* The users' steps.
LEMMA RefinedUsers ==
    ASSUME TypeOK, TypeOK', Copies, NEW n \in Names,
           CreateCR(n) \/ EditSpec(n) \/ Annotate(n) \/ DeleteCR(n)
    PROVE  [L!LifecycleNext]_(L!lifecycle)
<1> USE NamesAssumption, NoneAssumption
<1>0. /\ UNCHANGED <<cache, queue, pc, who, relocation>>
      /\ theKnown' = theKnown /\ isQueued' = isQueued /\ thePass' = thePass
  BY DEF CreateCR, EditSpec, Annotate, DeleteCR, informer, worker, locals, theKnown, isQueued,
         thePass, Working
<1>1. CASE n # "cluster"
  <2>1. theCR' = theCR /\ (CreateCR(n) \/ uids' = uids)
    BY <1>1 DEF CreateCR, EditSpec, Annotate, DeleteCR, TypeOK, theCR
  <2>2. CASE uids' = uids
    BY <1>0, <2>1, <2>2, Unseen
  <2>3. CASE CreateCR(n)
    BY <1>0, <2>1, <2>3
       DEF CreateCR, L!LifecycleNext, L!CreateOther, theCR, theKnown, isQueued, thePass
  <2> QED
    BY <2>1, <2>2, <2>3
<1>2. CASE n = "cluster" /\ CreateCR(n)
  <2>1. PICK s \in Specs, d \in SelfDestruct :
           cr' = [cr EXCEPT !["cluster"] =
                   [uid |-> uids + 1, spec |-> s, generation |-> 1,
                    finalizer |-> FALSE, deleting |-> FALSE, orphan |-> FALSE,
                    selfDestruct |-> d, status |-> NoConditions]]
    BY <1>2 DEF CreateCR
  <2>2. cr'["cluster"] \in CRs /\ cr'["cluster"] =
                   [uid |-> uids + 1, spec |-> s, generation |-> 1,
                    finalizer |-> FALSE, deleting |-> FALSE, orphan |-> FALSE,
                    selfDestruct |-> d, status |-> NoConditions]
    BY <2>1, SelfDestructAssumption DEF TypeOK, CRs, NoConditions, Conditions
  <2>3. theCR' = [uid |-> uids + 1, spec |-> s, generation |-> 1, finalizer |-> FALSE,
                  deleting |-> FALSE, reconciled |-> FALSE]
    <3> DEFINE c == cr'["cluster"]
    <3>1. /\ c.uid = uids + 1 /\ c.spec = s /\ c.generation = 1 /\ c.finalizer = FALSE
          /\ c.deleting = FALSE /\ c.status = NoConditions
      BY <2>2
    <3>2. NoConditions.reconciled = None
      BY DEF NoConditions
    <3>3. c # None
      BY <2>2
    <3> HIDE DEF c
    <3>4. (/\ c.status.reconciled # None
           /\ c.status.reconciled.status
           /\ c.status.reconciled.observedGeneration = c.generation) = FALSE
      BY <3>1, <3>2
    <3>5. Seen(c) = [uid |-> uids + 1, spec |-> s, generation |-> 1, finalizer |-> FALSE,
                     deleting |-> FALSE, reconciled |-> FALSE]
      BY <3>1, <3>3, <3>4 DEF Seen
    <3> QED
      BY <3>5 DEF theCR, c
  <2>4. theCR = None /\ uids < MaxUID /\ uids' = uids + 1
    BY <1>2, SeenNone DEF CreateCR, theCR
  <2>5. L!Create
    BY <1>0, <2>3, <2>4 DEF L!Create, theCR, theKnown, isQueued, thePass
  <2> QED
    BY <2>5 DEF L!LifecycleNext
<1>3. CASE n = "cluster" /\ EditSpec(n)
  <2> DEFINE c == cr["cluster"]
  <2>1. c \in CRs /\ c.generation < MaxGeneration /\ c.generation \in Nat /\ uids' = uids
    BY <1>3 DEF EditSpec, TypeOK, CRs
  <2>2. PICK s \in Specs \ {c.spec} :
           cr' = [cr EXCEPT !["cluster"].spec = s, !["cluster"].generation = @ + 1]
    BY <1>3 DEF EditSpec
  <2>3. cr'["cluster"] \in CRs
        /\ cr'["cluster"] = [c EXCEPT !.spec = s, !.generation = c.generation + 1]
    <3>1. cr'["cluster"] = [c EXCEPT !.spec = s, !.generation = c.generation + 1]
      BY <2>1, <2>2 DEF TypeOK
    <3>2. c.generation + 1 \in Nat /\ s \in Specs
      BY <2>1, <2>2
    <3>3. \A g \in Nat : [c EXCEPT !.spec = s, !.generation = g] \in CRs
      BY <2>1, <3>2 DEF CRs
    <3> QED
      BY <3>1, <3>2, <3>3
  <2>4. /\ cr'["cluster"].uid = c.uid /\ cr'["cluster"].spec = s
        /\ cr'["cluster"].generation = c.generation + 1
        /\ cr'["cluster"].finalizer = c.finalizer /\ cr'["cluster"].deleting = c.deleting
        /\ cr'["cluster"].status = c.status
    BY <2>1, <2>3 DEF CRs
  <2>5. c.status.reconciled # None => c.status.reconciled.observedGeneration # c.generation + 1
    <3>1. c.status.reconciled # None => c.status.reconciled.observedGeneration \in Nat
      BY <2>1 DEF CRs, Conditions
    <3> QED
      BY <2>1, <3>1 DEF Copies, CopiesOlder, Observed
  <2>6. theCR'.reconciled = FALSE
    BY <2>3, <2>4, <2>5, NoneAssumption DEF theCR, Seen
  <2>7. theCR' = [theCR EXCEPT !.spec = s, !.generation = theCR.generation + 1,
                               !.reconciled = FALSE]
    <3> DEFINE r == [theCR EXCEPT !.spec = s, !.generation = theCR.generation + 1,
                                  !.reconciled = FALSE]
    <3>1. /\ theCR \in L!CRs /\ theCR' \in L!CRs
          /\ theCR.generation + 1 \in Nat /\ s \in Specs /\ theCR.generation = c.generation
      BY <2>1, <2>2, <2>3, SeenFields DEF theCR
    <3>2. r \in L!CRs
      BY <3>1, SeenUpdates
    <3>3. /\ r.uid = theCR.uid /\ r.spec = s /\ r.generation = theCR.generation + 1
          /\ r.finalizer = theCR.finalizer /\ r.deleting = theCR.deleting
          /\ r.reconciled = FALSE
      BY <3>1 DEF L!CRs
    <3> HIDE DEF r
    <3>4. /\ theCR'.uid = theCR.uid /\ theCR'.spec = s
          /\ theCR'.generation = theCR.generation + 1
          /\ theCR'.finalizer = theCR.finalizer /\ theCR'.deleting = theCR.deleting
      BY <2>1, <2>3, <2>4, SeenFields DEF theCR
    <3>5. theCR' = r
      BY <2>6, <3>1, <3>2, <3>3, <3>4, SameFields
    <3> QED
      BY <3>5 DEF r
  <2>8. theCR # None /\ theCR.generation < MaxGeneration /\ s \in Specs \ {theCR.spec}
    BY <2>1, <2>2, SeenFields DEF theCR
  <2>9. L!Edit
    BY <1>0, <2>1, <2>7, <2>8 DEF L!Edit, theCR, theKnown, isQueued, thePass
  <2> QED
    BY <2>9 DEF L!LifecycleNext
<1>4. CASE n = "cluster" /\ Annotate(n)
  <2>1. cr["cluster"] \in CRs /\ uids' = uids
        /\ cr'["cluster"] = [cr["cluster"] EXCEPT !.selfDestruct = TRUE]
    BY <1>4 DEF Annotate, TypeOK
  <2>2. theCR' = theCR
    <3> DEFINE c == cr["cluster"]  d == cr'["cluster"]
    <3>1. d \in CRs
      BY <2>1, FieldUpdates
    <3>2. /\ d.uid = c.uid /\ d.spec = c.spec /\ d.generation = c.generation
          /\ d.finalizer = c.finalizer /\ d.deleting = c.deleting /\ d.status = c.status
      BY <2>1 DEF CRs
    <3> QED
      BY <2>1, <3>1, <3>2, SeenSame DEF theCR
  <2> QED
    BY <1>0, <2>1, <2>2, Unseen
<1>5. CASE n = "cluster" /\ DeleteCR(n)
  <2> DEFINE c == cr["cluster"]
  <2>1. c \in CRs /\ ~c.deleting /\ uids' = uids
        /\ cr'["cluster"] = IF c.finalizer THEN [c EXCEPT !.deleting = TRUE] ELSE None
    BY <1>5 DEF DeleteCR, TypeOK
  <2>2. theCR # None /\ ~theCR.deleting /\ theCR.finalizer = c.finalizer
    BY <2>1, SeenFields DEF theCR
  <2>3. CASE c.finalizer
    <3>1. theCR' = [theCR EXCEPT !.deleting = TRUE]
      BY <2>1, <2>3, FieldUpdates, SeenDeleted DEF theCR
    <3> QED
      BY <1>0, <2>1, <2>2, <2>3, <3>1
         DEF L!LifecycleNext, L!Delete, theCR, theKnown, isQueued, thePass
  <2>4. CASE ~c.finalizer
    <3>1. theCR' = None
      BY <2>1, <2>4 DEF theCR, Seen
    <3> QED
      BY <1>0, <2>1, <2>2, <2>4, <3>1
         DEF L!LifecycleNext, L!Delete, theCR, theKnown, isQueued, thePass
  <2> QED
    BY <2>3, <2>4
<1> QED
  BY <1>1, <1>2, <1>3, <1>4, <1>5

\* The informer and the queue.
LEMMA RefinedQueue ==
    ASSUME TypeOK, NEW n \in Names, Deliver(n) \/ Enqueue(n)
    PROVE  [L!LifecycleNext]_(L!lifecycle)
<1> USE NamesAssumption
<1>0. /\ UNCHANGED <<cr, uids, pc, who, relocation>> /\ theCR' = theCR /\ thePass' = thePass
      /\ queue' = queue \cup {n}
  BY DEF Deliver, Enqueue, apiVars, worker, locals, theCR, thePass, Working
<1>1. CASE n # "cluster"
  <2>1. theKnown' = theKnown /\ isQueued' = isQueued
    BY <1>0, <1>1 DEF Deliver, Enqueue, TypeOK, theKnown, isQueued
  <2> QED
    BY <1>0, <2>1, Unseen
<1>2. CASE n = "cluster"
  <2>1. isQueued' = TRUE
    BY <1>0, <1>2 DEF isQueued
  <2>2. theKnown' = theKnown \/ theKnown' = theCR
    BY <1>2 DEF Deliver, Enqueue, TypeOK, theKnown, theCR
  <2>3. L!Deliver \/ L!Enqueue
    BY <1>0, <2>1, <2>2 DEF L!Deliver, L!Enqueue, theCR, theKnown, isQueued, thePass
  <2> QED
    BY <2>3 DEF L!LifecycleNext
<1> QED
  BY <1>1, <1>2

\* Reconcile takes up a name: an object without the finalizer gives no pass yet.
LEMMA RefinedStart ==
    ASSUME TypeOK, NEW n \in Names, StartReconcile(n)
    PROVE  [L!LifecycleNext]_(L!lifecycle)
<1> USE NamesAssumption, NoneAssumption
<1>0. /\ UNCHANGED <<cr, uids, cache>> /\ theCR' = theCR /\ theKnown' = theKnown
      /\ thePass = None /\ queue' = queue \ {n} /\ n \in queue
  BY DEF StartReconcile, apiVars, theCR, theKnown, thePass, Working
<1>1. CASE n # "cluster"
  <2>1. thePass' = None
    BY <1>0, <1>1 DEF StartReconcile, worker, locals, thePass, Working
  <2>2. isQueued' = isQueued
    BY <1>0, <1>1 DEF isQueued
  <2> QED
    BY <1>0, <2>1, <2>2, Unseen
<1>2. CASE n = "cluster"
  <2>1. isQueued /\ isQueued' = FALSE
    BY <1>0, <1>2 DEF isQueued
  <2>2. cache["cluster"] # None => cache["cluster"] \in CRs
    BY DEF TypeOK
  <2>3. thePass' = IF theKnown # None /\ theKnown.finalizer THEN theKnown ELSE None
    <3>1. CASE cache["cluster"] = None
      BY <1>0, <1>2, <3>1, SeenNone
         DEF StartReconcile, worker, locals, thePass, Working, theKnown
    <3>2. CASE cache["cluster"] # None
      <4>1. theKnown # None /\ theKnown.finalizer = cache["cluster"].finalizer
        BY <2>2, <3>2, SeenFields DEF theKnown
      <4>2. CASE cache["cluster"].finalizer
        <5>1. pc' \in {"finalize", "validate"} /\ who' = "cluster" /\ relocation' = cache["cluster"]
          BY <1>2, <3>2, <4>2 DEF StartReconcile
        <5> QED
          BY <4>1, <4>2, <5>1 DEF thePass, Working, theKnown
      <4>3. CASE ~cache["cluster"].finalizer
        <5>1. pc' = "addFinalizer" \/ UNCHANGED <<pc, who, relocation>>
          BY <1>2, <3>2, <4>3 DEF StartReconcile, worker, locals
        <5>2. thePass' = None
          BY <1>0, <5>1 DEF thePass, Working
        <5> QED
          BY <4>1, <4>3, <5>2
      <4> QED
        BY <4>2, <4>3
    <3> QED
      BY <3>1, <3>2
  <2>4. L!Begin
    BY <1>0, <2>1, <2>3 DEF L!Begin, theCR, theKnown, isQueued, thePass
  <2> QED
    BY <2>4 DEF L!LifecycleNext
<1> QED
  BY <1>1, <1>2

\* The finalizer is added to the last version, which the informer has delivered.
LEMMA RefinedAdopt ==
    ASSUME TypeOK, Copies, AddFinalizer
    PROVE  [L!LifecycleNext]_(L!lifecycle)
<1> USE NamesAssumption, NoneAssumption
<1>0. /\ UNCHANGED <<uids, cache, queue, who>> /\ theKnown' = theKnown /\ isQueued' = isQueued
      /\ thePass = None /\ pc = "addFinalizer" /\ pc' = "validate"
      /\ who \in Names /\ relocation \in CRs /\ cr[who] = relocation /\ cache[who] = relocation
      /\ ~relocation.finalizer /\ ~relocation.deleting
  BY DEF AddFinalizer, Current, Copies, Adopting, TypeOK, informer, theKnown, isQueued,
         thePass, Working
<1>1. relocation' = [relocation EXCEPT !.finalizer = TRUE] /\ cr' = [cr EXCEPT ![who] = relocation']
  BY DEF AddFinalizer
<1>2. CASE who # "cluster"
  <2>1. theCR' = theCR /\ thePass' = None
    BY <1>0, <1>1, <1>2 DEF TypeOK, theCR, thePass, Working
  <2> QED
    BY <1>0, <2>1, Unseen
<1>3. CASE who = "cluster"
  <2> DEFINE c == relocation  d == relocation'  r == [Seen(c) EXCEPT !.finalizer = TRUE]
  <2>1. cr'["cluster"] = d /\ d \in CRs
    BY <1>0, <1>1, <1>3 DEF TypeOK, CRs
  <2>2. /\ d.uid = c.uid /\ d.spec = c.spec /\ d.generation = c.generation
        /\ d.finalizer = TRUE /\ d.deleting = c.deleting /\ d.status = c.status
    BY <1>0, <1>1 DEF CRs
  <2>3. Seen(c) \in L!CRs /\ Seen(d) \in L!CRs /\ r \in L!CRs
    BY <1>0, <2>1, SeenFields, SeenUpdates
  <2>4. /\ r.uid = Seen(c).uid /\ r.spec = Seen(c).spec /\ r.generation = Seen(c).generation
        /\ r.finalizer = TRUE /\ r.deleting = Seen(c).deleting
        /\ r.reconciled = Seen(c).reconciled
    BY <2>3 DEF L!CRs
  <2>5. Seen(c).reconciled = Claims(c) /\ Seen(d).reconciled = Claims(d) /\ Claims(c) = Claims(d)
    BY <1>0, <2>1, <2>2 DEF Seen, Claims
  <2>6. theCR = Seen(c) /\ theKnown = Seen(c) /\ theCR' = Seen(d) /\ thePass' = Seen(d)
    BY <1>0, <1>3, <2>1 DEF theCR, theKnown, thePass, Working
  <2> HIDE DEF r
  <2>7. /\ Seen(d).uid = r.uid /\ Seen(d).spec = r.spec /\ Seen(d).generation = r.generation
        /\ Seen(d).finalizer = r.finalizer /\ Seen(d).deleting = r.deleting
    BY <1>0, <2>1, <2>2, <2>4, SeenFields
  <2>8. Seen(d).reconciled = r.reconciled
    BY <2>4, <2>5
  <2>9. theCR' = [theCR EXCEPT !.finalizer = TRUE]
    BY <2>3, <2>6, <2>7, <2>8, SameFields DEF r
  <2>10. theCR # None /\ ~theCR.finalizer /\ ~theCR.deleting
    BY <1>0, <2>6, SeenFields
  <2>11. L!Adopt
    BY <1>0, <2>6, <2>9, <2>10 DEF L!Adopt, theCR, theKnown, isQueued, thePass
  <2> QED
    BY <2>11 DEF L!LifecycleNext
<1> QED
  BY <1>2, <1>3

\* A pass that ends without a write.
LEMMA RefinedReturn ==
    ASSUME TypeOK, UNCHANGED <<cr, cache, uids>>, pc # "idle", NEW retry \in BOOLEAN, Return(retry),
           pc = "addFinalizer" => retry
    PROVE  [L!LifecycleNext]_(L!lifecycle)
<1> USE NamesAssumption, NoneAssumption
<1>0. /\ theCR' = theCR /\ theKnown' = theKnown /\ thePass' = None
      /\ who \in Names /\ relocation \in CRs
      /\ queue' = IF retry THEN queue \cup {who} ELSE queue
  BY DEF Return, TypeOK, theCR, theKnown, thePass, Working
<1>1. CASE who # "cluster"
  <2>1. isQueued' = isQueued /\ thePass = None
    BY <1>0, <1>1 DEF isQueued, thePass, Working
  <2> QED
    BY <1>0, <2>1, Unseen
<1>2. CASE who = "cluster" /\ pc = "addFinalizer"
  <2>1. isQueued' = TRUE /\ thePass = None
    BY <1>0, <1>2 DEF isQueued, thePass, Working
  <2>2. L!Enqueue
    BY <1>0, <2>1 DEF L!Enqueue, theCR, theKnown, isQueued, thePass
  <2> QED
    BY <2>2 DEF L!LifecycleNext
<1>3. CASE who = "cluster" /\ pc # "addFinalizer"
  <2>1. thePass # None
    BY <1>0, <1>3, SeenFields DEF thePass, Working, TypeOK
  <2>2. isQueued' = (isQueued \/ retry)
    BY <1>0, <1>3 DEF isQueued
  <2>3. L!End(retry)
    BY <1>0, <2>1, <2>2 DEF L!End, theCR, theKnown, isQueued, thePass
  <2> QED
    BY <2>3 DEF L!LifecycleNext
<1> QED
  BY <1>1, <1>2, <1>3

\* The status is written, or given up.
LEMMA RefinedReport ==
    ASSUME TypeOK, Copies, UpdateStatus
    PROVE  [L!LifecycleNext]_(L!lifecycle)
<1> USE NamesAssumption, NoneAssumption
<1>0. /\ UNCHANGED <<uids, cache>> /\ theKnown' = theKnown /\ Return(result = "retry")
      /\ pc = "updateStatus" /\ who \in Names /\ relocation \in CRs /\ ~relocation.deleting
      /\ thePass' = None
  BY DEF UpdateStatus, Copies, NotDeleted, Return, TypeOK, theKnown, thePass, Working
<1>1. CASE cr' = cr
  <2>1. (result = "retry") \in BOOLEAN
    OBVIOUS
  <2> QED
    BY <1>0, <1>1, <2>1, RefinedReturn
<1>2. CASE Current /\ cr' = [cr EXCEPT ![who].status = conditions]
  <2> DEFINE c == relocation  d == cr'[who]
  <2>1. cr[who] = c /\ d = [c EXCEPT !.status = conditions] /\ d \in CRs
        /\ \A m \in Names : m # who => cr'[m] = cr[m]
    BY <1>0, <1>2 DEF Current, TypeOK, CRs
  <2>2. /\ d.uid = c.uid /\ d.spec = c.spec /\ d.generation = c.generation
        /\ d.finalizer = c.finalizer /\ d.deleting = c.deleting
    BY <1>0, <2>1 DEF CRs
  <2>3. CASE who # "cluster"
    <3>1. theCR' = theCR /\ thePass = None
      BY <1>0, <2>1, <2>3 DEF theCR, thePass, Working
    <3>2. isQueued' = isQueued
      BY <1>0, <2>3 DEF Return, isQueued
    <3> QED
      BY <1>0, <3>1, <3>2, Unseen
  <2>4. CASE who = "cluster"
    <3> DEFINE ok == Seen(d).reconciled
               r  == [Seen(c) EXCEPT !.reconciled = ok]
    <3>1. Seen(c) \in L!CRs /\ Seen(d) \in L!CRs
      BY <1>0, <2>1, SeenFields
    <3>2. ok \in BOOLEAN
      BY <3>1 DEF L!CRs
    <3>3. r \in L!CRs
      BY <3>1, <3>2, SeenUpdates
    <3>4. /\ r.uid = Seen(c).uid /\ r.spec = Seen(c).spec /\ r.generation = Seen(c).generation
          /\ r.finalizer = Seen(c).finalizer /\ r.deleting = Seen(c).deleting
          /\ r.reconciled = Seen(d).reconciled
      BY <3>1 DEF L!CRs
    <3> HIDE DEF r, ok
    <3>5. /\ Seen(d).uid = r.uid /\ Seen(d).spec = r.spec /\ Seen(d).generation = r.generation
          /\ Seen(d).finalizer = r.finalizer /\ Seen(d).deleting = r.deleting
      BY <1>0, <2>1, <2>2, <3>4, SeenFields
    <3>6. Seen(d) = r
      BY <3>1, <3>3, <3>4, <3>5, SameFields
    <3>7. theCR = Seen(c) /\ thePass = Seen(c) /\ theCR' = Seen(d)
      BY <1>0, <2>1, <2>4 DEF theCR, thePass, Working
    <3>8. theCR' = [theCR EXCEPT !.reconciled = ok]
      BY <3>6, <3>7 DEF r
    <3>9. thePass # None /\ ~thePass.deleting
      BY <1>0, <3>7, SeenFields
    <3>10. isQueued' = (isQueued \/ (result = "retry"))
      BY <1>0, <2>4 DEF Return, isQueued
    <3> DEFINE retry == result = "retry"
    <3>11. retry \in BOOLEAN
      OBVIOUS
    <3>12. L!Report(ok, retry)
      BY <1>0, <3>7, <3>8, <3>9, <3>10 DEF L!Report, theCR, theKnown, isQueued, thePass
    <3> QED
      BY <3>2, <3>11, <3>12 DEF L!LifecycleNext
  <2> QED
    BY <2>3, <2>4
<1> QED
  BY <1>1, <1>2 DEF UpdateStatus

\* Self-destruction deletes the object as a user would.
LEMMA RefinedDeleteSelf ==
    ASSUME TypeOK, Protocol, DeleteSelf
    PROVE  [L!LifecycleNext]_(L!lifecycle)
<1> USE NamesAssumption, NoneAssumption
<1> DEFINE c == cr["cluster"]
<1>0. /\ UNCHANGED <<uids, cache, queue>> /\ theKnown' = theKnown /\ isQueued' = isQueued
      /\ who = "cluster" /\ c \in CRs /\ c.finalizer /\ thePass' = thePass
  BY DEF DeleteSelf, Protocol, OnlyCluster, HoldsFinalizer, TypeOK, informer, theKnown, isQueued,
         thePass, Working
<1>1. CASE cr' = cr
  <2>1. theCR' = theCR
    BY <1>1 DEF theCR
  <2> QED
    BY <1>0, <2>1, Unseen
<1>2. CASE cr' # cr
  <2>1. cr'["cluster"] = [c EXCEPT !.deleting = TRUE, !.orphan = TRUE]
    BY <1>0, <1>2 DEF DeleteSelf, TypeOK
  <2>2. theCR' = [theCR EXCEPT !.deleting = TRUE]
    BY <1>0, <2>1, FieldUpdates, SeenDeleted DEF theCR
  <2>3. theCR # None /\ theCR.finalizer /\ theCR.deleting = c.deleting /\ theCR \in L!CRs
    BY <1>0, SeenFields DEF theCR
  <2>4. CASE c.deleting
    <3>1. theCR' = theCR
      BY <1>0, <2>2, <2>3, <2>4 DEF L!CRs, CRs
    <3> QED
      BY <1>0, <3>1, Unseen
  <2>5. CASE ~c.deleting
    <3>1. L!Delete
      BY <1>0, <2>2, <2>3, <2>5 DEF L!Delete, theCR, theKnown, isQueued, thePass
    <3> QED
      BY <3>1 DEF L!LifecycleNext
  <2> QED
    BY <2>4, <2>5
<1> QED
  BY <1>1, <1>2

\* The finalizer is removed by a pass that has seen the deletion.
LEMMA RefinedFinish ==
    ASSUME TypeOK, Protocol, RemoveFinalizer
    PROVE  [L!LifecycleNext]_(L!lifecycle)
<1> USE NamesAssumption, NoneAssumption
<1> DEFINE c == relocation
<1>0. /\ UNCHANGED <<uids, cache, queue>> /\ theKnown' = theKnown /\ isQueued' = isQueued
      /\ who \in Names /\ c \in CRs /\ cr[who] = c /\ c.deleting /\ thePass' = None
      /\ pc = "finalize"
  BY DEF RemoveFinalizer, Current, Return, Protocol, SawDeletion, TypeOK, theKnown, isQueued,
         thePass, Working
<1>1. CASE who # "cluster"
  <2>1. theCR' = theCR /\ thePass = None
    BY <1>0, <1>1 DEF RemoveFinalizer, TypeOK, theCR, thePass, Working
  <2> QED
    BY <1>0, <2>1, Unseen
<1>2. CASE who = "cluster"
  <2>1. /\ theCR = Seen(c) /\ thePass = Seen(c)
        /\ cr'["cluster"] = IF c.orphan THEN [c EXCEPT !.finalizer = FALSE] ELSE None
    BY <1>0, <1>2 DEF RemoveFinalizer, TypeOK, theCR, thePass, Working
  <2>2. Seen(c) # None /\ Seen(c).deleting /\ Seen(c) \in L!CRs
    BY <1>0, SeenFields
  <2>3. CASE c.orphan
    <3> DEFINE d == cr'["cluster"]  r == [Seen(c) EXCEPT !.finalizer = FALSE]
    <3>1. d \in CRs /\ d = [c EXCEPT !.finalizer = FALSE]
      BY <1>0, <2>1, <2>3, FieldUpdates
    <3>2. /\ d.uid = c.uid /\ d.spec = c.spec /\ d.generation = c.generation
          /\ d.finalizer = FALSE /\ d.deleting = c.deleting /\ d.status = c.status
      BY <1>0, <3>1 DEF CRs
    <3>3. Seen(c) \in L!CRs /\ Seen(d) \in L!CRs /\ r \in L!CRs
      BY <1>0, <3>1, SeenFields, SeenUpdates
    <3>4. /\ r.uid = Seen(c).uid /\ r.spec = Seen(c).spec /\ r.generation = Seen(c).generation
          /\ r.finalizer = FALSE /\ r.deleting = Seen(c).deleting
          /\ r.reconciled = Seen(c).reconciled
      BY <3>3 DEF L!CRs
    <3>5. Seen(c).reconciled = Claims(c) /\ Seen(d).reconciled = Claims(d) /\ Claims(c) = Claims(d)
      BY <1>0, <3>1, <3>2 DEF Seen, Claims
    <3> HIDE DEF r
    <3>6. /\ Seen(d).uid = r.uid /\ Seen(d).spec = r.spec /\ Seen(d).generation = r.generation
          /\ Seen(d).finalizer = r.finalizer /\ Seen(d).deleting = r.deleting
      BY <1>0, <3>1, <3>2, <3>4, SeenFields
    <3>7. Seen(d).reconciled = r.reconciled
      BY <3>4, <3>5
    <3>8. Seen(d) = r
      BY <3>3, <3>6, <3>7, SameFields
    <3>9. theCR' = [theCR EXCEPT !.finalizer = FALSE]
      BY <2>1, <3>8 DEF r, theCR
    <3>10. L!Finish(FALSE)
      BY <1>0, <2>1, <2>2, <3>9 DEF L!Finish, theCR, theKnown, isQueued, thePass
    <3> QED
      BY <3>10 DEF L!LifecycleNext
  <2>4. CASE ~c.orphan
    <3>1. theCR' = None
      BY <2>1, <2>4, SeenNone DEF theCR
    <3>2. L!Finish(TRUE)
      BY <1>0, <2>1, <2>2, <3>1 DEF L!Finish, theCR, theKnown, isQueued, thePass
    <3> QED
      BY <3>2 DEF L!LifecycleNext
  <2> QED
    BY <2>3, <2>4
<1> QED
  BY <1>1, <1>2

\* The garbage collector lets go of an object.
LEMMA RefinedOrphan ==
    ASSUME TypeOK, Copies, NEW n \in Names, OrphanDependents(n)
    PROVE  [L!LifecycleNext]_(L!lifecycle)
<1> USE NamesAssumption, NoneAssumption
<1> DEFINE c == cr["cluster"]
<1>0. /\ UNCHANGED <<uids, cache, queue>> /\ theKnown' = theKnown /\ isQueued' = isQueued
      /\ thePass' = thePass
  BY DEF OrphanDependents, informer, worker, locals, theKnown, isQueued, thePass, Working
<1>1. CASE n # "cluster"
  <2>1. theCR' = theCR
    BY <1>1 DEF OrphanDependents, TypeOK, theCR
  <2> QED
    BY <1>0, <2>1, Unseen
<1>2. CASE n = "cluster"
  <2>1. /\ c \in CRs /\ c.deleting
        /\ cr'["cluster"] = IF c.finalizer THEN [c EXCEPT !.orphan = FALSE] ELSE None
    BY <1>2 DEF OrphanDependents, TypeOK, Copies, CopiesOlder
  <2>2. CASE c.finalizer
    <3> DEFINE d == cr'["cluster"]
    <3>1. d \in CRs
      BY <2>1, <2>2, FieldUpdates
    <3>2. /\ d.uid = c.uid /\ d.spec = c.spec /\ d.generation = c.generation
          /\ d.finalizer = c.finalizer /\ d.deleting = c.deleting /\ d.status = c.status
      BY <2>1, <2>2 DEF CRs
    <3>3. theCR' = theCR
      BY <2>1, <3>1, <3>2, SeenSame DEF theCR
    <3> QED
      BY <1>0, <3>3, Unseen
  <2>3. CASE ~c.finalizer
    <3>1. theCR' = None /\ theCR # None /\ theCR.deleting /\ ~theCR.finalizer
      BY <2>1, <2>3, SeenNone, SeenFields DEF theCR
    <3>2. L!Vanish
      BY <1>0, <3>1 DEF L!Vanish, theCR, theKnown, isQueued, thePass
    <3> QED
      BY <3>2 DEF L!LifecycleNext
  <2> QED
    BY <2>2, <2>3
<1> QED
  BY <1>1, <1>2

\* The process ends.
LEMMA RefinedEnd ==
    ASSUME TypeOK, StopOperator \/ Restart
    PROVE  [L!LifecycleNext]_(L!lifecycle)
<1> USE NamesAssumption, NoneAssumption
<1>0. UNCHANGED <<cr, uids>> /\ theCR' = theCR /\ thePass' = None
  BY DEF StopOperator, Restart, apiVars, theCR, thePass, Working
<1>1. CASE StopOperator
  <2>1. theKnown' = theKnown /\ isQueued' = FALSE
    BY <1>1 DEF StopOperator, theKnown, isQueued
  <2>2. L!Stop
    BY <1>0, <2>1 DEF L!Stop, theCR, theKnown, isQueued, thePass
  <2> QED
    BY <2>2 DEF L!LifecycleNext
<1>2. CASE Restart
  <2>1. theKnown' = theCR
    BY <1>2 DEF Restart, theKnown, theCR
  <2>2. cr["cluster"] # None <=> theCR # None
    BY SeenNone, SeenFields DEF theCR, TypeOK
  <2>3. isQueued' = (theCR # None)
    BY <1>2, <2>2 DEF Restart, isQueued
  <2>4. L!Restart
    BY <1>0, <2>1, <2>3 DEF L!Restart, theCR, theKnown, isQueued, thePass
  <2> QED
    BY <2>4 DEF L!LifecycleNext
<1> QED
  BY <1>1, <1>2

\* The calls, waits and failures of a pass that is not over.
LEMMA RefinedWork ==
    ASSUME TypeOK, UNCHANGED <<cr, uids, cache, queue, who, relocation>>,
           pc' = pc \/ (Working /\ Working')
    PROVE  [L!LifecycleNext]_(L!lifecycle)
BY Unseen DEF theCR, theKnown, isQueued, thePass, Working

\* Every step of the controller is one of Lifecycle, or none.
LEMMA RefinedStep ==
    TypeOK /\ TypeOK' /\ Protocol /\ Copies /\ [Next]_vars => [L!LifecycleNext]_(L!lifecycle)
<1> SUFFICES ASSUME TypeOK, TypeOK', Protocol, Copies, [Next]_vars
             PROVE  [L!LifecycleNext]_(L!lifecycle)
  OBVIOUS
<1> USE DEF vars, apiVars, informer, locals, worker
<1>1. ASSUME NEW n \in Names,
             \/ CreateCR(n) \/ EditSpec(n) \/ Annotate(n) \/ DeleteCR(n)
             \/ Deliver(n) \/ Enqueue(n) \/ StartReconcile(n) \/ OrphanDependents(n)
      PROVE  [L!LifecycleNext]_(L!lifecycle)
  BY <1>1, RefinedUsers, RefinedQueue, RefinedStart, RefinedOrphan
<1>2. CASE \/ AddFinalizer \/ UpdateStatus \/ DeleteSelf \/ RemoveFinalizer
           \/ StopOperator \/ Restart
  BY <1>2, RefinedAdopt, RefinedReport, RefinedDeleteSelf, RefinedFinish, RefinedEnd
<1>3. CASE UpdateConflict \/ AddFinalizerFails \/ RemoveFinalizerFails
  BY <1>3, RefinedReturn DEF UpdateConflict, AddFinalizerFails, RemoveFinalizerFails
<1>4. CASE StageFails
  <2>1. CASE pc = "reconcile"
    <3>1. UNCHANGED <<cr, uids, cache, queue, who, relocation>> /\ pc' = "updateStatus"
      BY <1>4, <2>1 DEF StageFails
    <3>2. who = "cluster"
      BY <2>1 DEF Protocol, OnlyCluster
    <3> QED
      BY <2>1, <3>1, <3>2, RefinedWork DEF Working
  <2>2. CASE pc # "reconcile"
    BY <1>4, <2>2, RefinedReturn DEF StageFails
  <2> QED
    BY <2>1, <2>2
<1>5. CASE Validate
  <2>1. UNCHANGED <<cr, uids, cache, queue, who, relocation>>
        /\ pc = "validate" /\ pc' \in {"updateStatus", "reconcile"}
    BY <1>5 DEF Validate
  <2>2. CASE who = "cluster"
    BY <2>1, <2>2, RefinedWork DEF Working
  <2>3. CASE who # "cluster"
    BY <2>1, <2>3, Unseen DEF theCR, theKnown, isQueued, thePass, Working
  <2> QED
    BY <2>2, <2>3
<1>6. CASE Succeed
  BY <1>6, RefinedWork DEF Succeed, Protocol, OnlyCluster, Working
<1>7. ASSUME NEW s, NEW o,
             \/ Apply(s) \/ LookupIP \/ ListRoutes \/ DeleteRoutes \/ VerifyCert(s, o)
             \/ WaitForCO(s, o) \/ DeleteSubscription \/ DeleteCSV
      PROVE  [L!LifecycleNext]_(L!lifecycle)
  BY <1>7, RefinedWork DEF Apply, LookupIP, ListRoutes, DeleteRoutes, VerifyCert, WaitForCO,
     DeleteSubscription, DeleteCSV, Advance
<1>8. ASSUME NEW s, NEW o,
             \/ Observe(s) \/ OperatorStarts(o) \/ OperatorFinishes(o) \/ RecreateRoutes
             \/ Collect(s) \/ UNCHANGED vars
      PROVE  [L!LifecycleNext]_(L!lifecycle)
  BY <1>8, RefinedWork DEF Observe, OperatorStarts, OperatorFinishes, RecreateRoutes, Collect
<1> QED
  BY <1>1, <1>2, <1>3, <1>4, <1>5, <1>6, <1>7, <1>8
     DEF Next, Worker, Failures, Users, Cluster, Rollout

\* Reconcile, with every failure, wait, stale copy and restart of a pass, and for objects
\* of any names, does to the ClusterRelocation named "cluster" only what Lifecycle allows.
THEOREM RefinesLifecycle == Spec => ImplementsLifecycle
<1> DEFINE IInv == TypeOK /\ Protocol /\ Copies
<1>1. Init => IInv
  BY InitHolds, CopiesInit
<1>2. IInv /\ [Next]_vars => IInv'
  BY TypeStep, ProtocolStep, CopiesStep
<1>3. Init => L!LifecycleInit
  BY RefinedInit
<1>4. IInv /\ IInv' /\ [Next]_vars => [L!LifecycleNext]_(L!lifecycle)
  BY RefinedStep
<1> QED
  BY <1>1, <1>2, <1>3, <1>4, PTL DEF Spec, ImplementsLifecycle, L!LifecycleSpec
==============================================================================
