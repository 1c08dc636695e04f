----------------------------- MODULE StageProofs -----------------------------
(***************************************************************************)
(* What every stage can rely on: theorems about Lifecycle, and that each   *)
(* step of Stage is a step of Lifecycle.  The proofs of the single stages  *)
(* rest on these.                                                          *)
(***************************************************************************)
EXTENDS Stage, SequenceTheorems, TLAPS

-----------------------------------------------------------------------------
(* The inductive invariant of Lifecycle.                                   *)

LifecycleType ==
    /\ cr \in CRs \cup {None} /\ known \in CRs \cup {None} /\ pass \in CRs \cup {None}
    /\ uids \in Nat /\ queued \in BOOLEAN

\* No copy of an object is newer than the last one created.
OldUIDs == \A c \in {cr, known, pass} : c # None => c.uid <= uids

\* The informer's copy may be stale, but the finalizer it shows is there: the
\* finalizer is only ever removed by a pass that has seen the deletion.
KnownFinalizer ==
    known # None /\ known.finalizer /\ ~known.deleting =>
        cr # None /\ cr.uid = known.uid /\ cr.finalizer

\* A deletion is never undone.
KnownDeletion ==
    known # None /\ cr # None /\ known.uid = cr.uid /\ known.deleting => cr.deleting

\* A pass that saw the deletion is of an object that is deleted, and the
\* informer does not go back behind it.
SawDeletion ==
    pass # None /\ pass.deleting =>
        /\ cr # None /\ cr.uid = pass.uid => cr.deleting
        /\ known # None /\ known.uid = pass.uid => known.deleting

LifecycleInv ==
    LifecycleType /\ OldUIDs /\ KnownFinalizer /\ KnownDeletion /\ SawDeletion /\ Held

-----------------------------------------------------------------------------
\* There is no object, and no pass, at first.
LEMMA LifecycleInitHolds == LifecycleInit => LifecycleInv
<1> SUFFICES ASSUME LifecycleInit PROVE LifecycleInv
  OBVIOUS
<1>1. LifecycleType
  BY DEF LifecycleInit, LifecycleType
<1>2. OldUIDs
  BY DEF LifecycleInit, OldUIDs
<1> QED
  BY <1>1, <1>2
     DEF LifecycleInit, LifecycleInv, KnownFinalizer, KnownDeletion, SawDeletion, Held

\* An edit is of the spec, the generation, and what the status claims.
LEMMA EditedFields ==
    ASSUME NEW c \in CRs, NEW s \in Specs, NEW g \in Nat, NEW d,
           d = [c EXCEPT !.spec = s, !.generation = g, !.reconciled = FALSE]
    PROVE  /\ d \in CRs
           /\ d.uid = c.uid /\ d.finalizer = c.finalizer /\ d.deleting = c.deleting
           /\ d.spec = s /\ d.generation = g /\ d.reconciled = FALSE
BY DEF CRs

\* An edit leaves who the object is, and what keeps it.
LEMMA EditKeeps ==
    ASSUME LifecycleType, Edit
    PROVE  /\ cr \in CRs /\ cr' \in CRs /\ cr'.uid = cr.uid
           /\ cr'.finalizer = cr.finalizer /\ cr'.deleting = cr.deleting
<1>1. PICK s \in Specs :
         cr' = [cr EXCEPT !.spec = s, !.generation = @ + 1, !.reconciled = FALSE]
  BY DEF Edit
<1>2. cr \in CRs
  BY DEF Edit, LifecycleType
<1>3. cr.generation + 1 \in Nat
  BY <1>2 DEF CRs
<1>4. s \in Specs
  BY <1>1
<1>5. cr' = [cr EXCEPT !.spec = s, !.generation = cr.generation + 1, !.reconciled = FALSE]
  BY <1>1, <1>2 DEF CRs
<1> QED
  BY ONLY <1>2, <1>3, <1>4, <1>5, EditedFields DEF CRs

\* Every step of Lifecycle keeps the invariant.
LEMMA LifecycleStep == LifecycleInv /\ [LifecycleNext]_lifecycle => LifecycleInv'
<1> SUFFICES ASSUME LifecycleInv, [LifecycleNext]_lifecycle PROVE LifecycleInv'
  OBVIOUS
<1> USE NoObjectAssumption
<1> USE DEF LifecycleInv, LifecycleType, OldUIDs, KnownFinalizer, KnownDeletion, SawDeletion,
            Held, CRs
<1>1. CASE Create
  BY <1>1 DEF Create
<1>15. CASE CreateOther
  BY <1>15 DEF CreateOther
<1>2. CASE Edit
  BY <1>2, EditKeeps DEF Edit
<1>3. CASE Delete
  BY <1>3 DEF Delete
<1>4. CASE Deliver
  BY <1>4 DEF Deliver
<1>5. CASE Enqueue
  BY <1>5 DEF Enqueue
<1>6. CASE Begin
  BY <1>6 DEF Begin
<1>7. CASE Adopt
  BY <1>7 DEF Adopt
<1>8. ASSUME NEW retry \in BOOLEAN, End(retry) PROVE LifecycleInv'
  BY <1>8 DEF End
<1>9. ASSUME NEW ok \in BOOLEAN, NEW retry \in BOOLEAN, Report(ok, retry) PROVE LifecycleInv'
  BY <1>9 DEF Report
<1>10. ASSUME NEW gone \in BOOLEAN, Finish(gone) PROVE LifecycleInv'
  BY <1>10 DEF Finish
<1>11. CASE Vanish
  BY <1>11 DEF Vanish
<1>12. CASE Stop
  BY <1>12 DEF Stop
<1>13. CASE Restart
  BY <1>13 DEF Restart
<1>14. CASE UNCHANGED lifecycle
  BY <1>14 DEF lifecycle
<1> QED
  BY <1>1, <1>2, <1>3, <1>4, <1>5, <1>6, <1>7, <1>8, <1>9, <1>10, <1>11, <1>12, <1>13, <1>14, <1>15
     DEF LifecycleNext

\* A pass that is not a finalization works for an object that exists and carries the
\* finalizer: for any number of objects, generations, restarts and stale copies.
THEOREM LifecycleHolds == LifecycleSpec => []Held
<1>1. LifecycleInit => LifecycleInv
  BY LifecycleInitHolds
<1>2. LifecycleInv /\ [LifecycleNext]_lifecycle => LifecycleInv'
  BY LifecycleStep
<1>3. LifecycleInv => Held
  BY DEF LifecycleInv
<1> QED
  BY <1>1, <1>2, <1>3, PTL DEF LifecycleSpec

-----------------------------------------------------------------------------
(* Copies and their versions.                                              *)

\* a is no newer than b, if they are of the same object.
Earlier(a, b) ==
    a # None /\ b # None /\ a.uid = b.uid =>
        /\ a.generation <= b.generation
        /\ a.generation = b.generation => a.spec = b.spec

\* A pass works on no newer version than the informer has, and the informer has no newer
\* one than there is.
Versions ==
    /\ \A c \in {cr, known, pass} : c # None => c.uid \in 1..uids /\ c.generation >= 1
    /\ Earlier(known, cr) /\ Earlier(pass, cr) /\ Earlier(pass, known)

\* Every step of Lifecycle keeps the order of versions.
LEMMA VersionsStep == LifecycleType /\ Versions /\ [LifecycleNext]_lifecycle => Versions'
<1> SUFFICES ASSUME LifecycleType, Versions, [LifecycleNext]_lifecycle PROVE Versions'
  OBVIOUS
<1> USE NoObjectAssumption DEF LifecycleType, Versions, Earlier, CRs
<1>1. CASE Create
  BY <1>1 DEF Create
<1>2. CASE CreateOther
  BY <1>2 DEF CreateOther
<1>3. CASE Edit
  <2>1. cr \in CRs /\ cr' # None /\ cr'.uid = cr.uid /\ UNCHANGED <<known, uids, pass>>
    BY <1>3, EditKeeps DEF Edit
  <2>2. cr'.generation = cr.generation + 1
    <3>1. PICK s \in Specs :
             cr' = [cr EXCEPT !.spec = s, !.generation = @ + 1, !.reconciled = FALSE]
      BY <1>3 DEF Edit
    <3> QED
      BY <2>1, <3>1
  <2>3. ASSUME NEW c \in {known, pass}, Earlier(c, cr) PROVE Earlier(c, cr')
    <3>1. c # None => c.generation \in Nat /\ cr.generation \in Nat
      BY <2>1
    <3> QED
      BY <2>1, <2>2, <2>3, <3>1
  <2>4. cr'.generation >= 1
    BY <2>1, <2>2
  <2> QED
    BY <2>1, <2>3, <2>4
<1>4. CASE Delete
  BY <1>4 DEF Delete
<1>5. CASE Deliver \/ Enqueue
  BY <1>5 DEF Deliver, Enqueue
<1>6. CASE Begin
  BY <1>6 DEF Begin
<1>7. CASE Adopt
  BY <1>7 DEF Adopt
<1>8. ASSUME NEW ok \in BOOLEAN, NEW retry \in BOOLEAN, End(retry) \/ Report(ok, retry)
      PROVE  Versions'
  BY <1>8 DEF End, Report
<1>9. ASSUME NEW gone \in BOOLEAN, Finish(gone) PROVE Versions'
  BY <1>9 DEF Finish
<1>10. CASE Vanish \/ Stop \/ Restart
  BY <1>10 DEF Vanish, Stop, Restart
<1>11. CASE UNCHANGED lifecycle
  BY <1>11 DEF lifecycle
<1> QED
  BY <1>1, <1>2, <1>3, <1>4, <1>5, <1>6, <1>7, <1>8, <1>9, <1>10, <1>11 DEF LifecycleNext

\* The object there is was there before, in no later version, unless it is created.
LEMMA SameObject ==
    ASSUME LifecycleType, [LifecycleNext]_lifecycle
    PROVE  /\ uids' \in {uids, uids + 1}
           /\ cr' # None => \/ Create
                            \/ /\ cr # None /\ cr'.uid = cr.uid
                               /\ cr.generation <= cr'.generation
<1> USE NoObjectAssumption DEF LifecycleType, CRs
<1>1. CASE Create \/ CreateOther
  BY <1>1 DEF Create, CreateOther
<1>2. CASE Edit
  <2>1. cr \in CRs /\ cr' # None /\ cr'.uid = cr.uid /\ UNCHANGED uids
    BY <1>2, EditKeeps DEF Edit
  <2>2. PICK s \in Specs :
           cr' = [cr EXCEPT !.spec = s, !.generation = @ + 1, !.reconciled = FALSE]
    BY <1>2 DEF Edit
  <2>3. cr'.generation = cr.generation + 1 /\ cr.generation \in Nat
    BY <2>1, <2>2
  <2> QED
    BY <1>2, <2>1, <2>3 DEF Edit
<1>3. CASE Delete \/ Deliver \/ Enqueue \/ Begin \/ Adopt
  BY <1>3 DEF Delete, Deliver, Enqueue, Begin, Adopt
<1>4. ASSUME NEW ok \in BOOLEAN, NEW retry \in BOOLEAN, End(retry) \/ Report(ok, retry) \/ Finish(ok)
      PROVE  /\ uids' = uids
             /\ cr' # None => cr # None /\ cr'.uid = cr.uid /\ cr.generation <= cr'.generation
  BY <1>4 DEF End, Report, Finish
<1>5. CASE Vanish \/ Stop \/ Restart \/ UNCHANGED lifecycle
  BY <1>5 DEF Vanish, Stop, Restart, lifecycle
<1> QED
  BY <1>1, <1>2, <1>3, <1>4, <1>5 DEF LifecycleNext

-----------------------------------------------------------------------------
(* The steps of Stage are steps of Lifecycle.                              *)

\* The objects in the API server and the informers' copies of them.
StoreType ==
    /\ store \in Stores /\ behind \in Seq(Stores)
    /\ lag \in Nat /\ Len(behind) <= lag

\* A step that leaves the ClusterRelocation and the pass alone may at most enqueue it.
LEMMA QuietStep ==
    ASSUME UNCHANGED <<cr, known, uids, pass>>, queued' = queued \/ queued' = TRUE
    PROVE  [LifecycleNext]_lifecycle
BY DEF LifecycleNext, Enqueue, lifecycle

\* A write reaches the store, and may enqueue the ClusterRelocation.
LEMMA WriteQueues ==
    ASSUME LifecycleType, NEW new, Write(new)
    PROVE  /\ store' = new /\ UNCHANGED <<lag, watched>>
           /\ queued' = queued \/ queued' = TRUE
BY DEF Write, Event, LifecycleType

\* The informers stay within their lag.
LEMMA WriteTyped ==
    ASSUME StoreType, NEW new \in Stores, Write(new)
    PROVE  StoreType'
<1>1. CASE new = store \/ lag = 0
  BY <1>1 DEF Write, StoreType
<1>2. CASE new # store /\ lag # 0
  <2>1. behind' = Append(behind, store) /\ Len(behind) < lag
    BY <1>2 DEF Write
  <2>2. behind' \in Seq(Stores) /\ Len(behind') = Len(behind) + 1
    BY <2>1, AppendProperties DEF StoreType
  <2> QED
    BY <2>1, <2>2 DEF Write, StoreType
<1> QED
  BY <1>1, <1>2

\* With informers that show every write at once, a copy is the object.
LEMMA FreshCopies ==
    ASSUME StoreType, lag = 0
    PROVE  cache = store /\ \A n : Latest(n)
<1>1. behind = <<>>
  BY EmptySeq DEF StoreType
<1> QED
  BY <1>1 DEF cache, Latest

\* What the informers hold is something the store held.
LEMMA CopiesTyped ==
    ASSUME StoreType
    PROVE  cache \in Stores
<1>1. CASE behind = <<>>
  BY <1>1 DEF StoreType, cache
<1>2. CASE behind # <<>>
  BY <1>2, HeadTailProperties DEF StoreType, cache
<1> QED
  BY <1>1, <1>2

\* The ways in which a call ends.
LEMMA CallEnds ==
    /\ Skip => UNCHANGED <<lifecycle, objects>>
    /\ Fails => LifecycleNext /\ pass # None /\ pass' = None /\ todo' = <<>>
                /\ UNCHANGED objects
<1>1. Skip => UNCHANGED <<lifecycle, objects>>
  BY DEF Skip, Advance, lifecycle, objects
<1>2. Abort => LifecycleNext /\ pass # None /\ pass' = None
  BY DEF Abort, LifecycleNext, Report, End
<1> QED
  BY <1>1, <1>2 DEF Fails

\* A call succeeds, or the pass ends with an error.
Succeeds == todo' = Tail(todo) /\ UNCHANGED <<cr, known, uids, pass, lag, watched>>
Errs     == pass # None /\ pass' = None /\ todo' = <<>> /\ held' = None /\ UNCHANGED objects

\* A failing call ends the pass.
LEMMA FailsErrs == Fails => Errs
BY DEF Fails, Errs, Abort, Report, End

\* CreateOrUpdate leaves the object as wanted, or ends the pass: with informers that
\* show every write at once it always succeeds.
LEMMA PutsObject ==
    ASSUME LifecycleType, StoreType, NEW n \in Objects, NEW object \in Kept,
           CreateOrUpdate(n, object)
    PROVE  /\ StoreType'
           /\ \/ /\ Succeeds /\ held' = held
                 /\ store' = store \/ store' = [store EXCEPT ![n] = object]
              \/ Errs
           /\ lag = 0 => Succeeds /\ held' = held /\ store' = [store EXCEPT ![n] = object]
<1>1. CASE Skip /\ cache[n] = object
  <2>1. StoreType' /\ Succeeds /\ UNCHANGED <<held, store>>
    BY <1>1 DEF Skip, Advance, objects, Succeeds, StoreType
  <2>2. lag = 0 => store = [store EXCEPT ![n] = object]
    BY <1>1, FreshCopies DEF StoreType, Stores
  <2> QED
    BY <2>1, <2>2
<1>2. CASE Advance /\ UNCHANGED held /\ Write([store EXCEPT ![n] = object])
  <2>1. [store EXCEPT ![n] = object] \in Stores
    BY DEF StoreType, Stores
  <2> QED
    BY <1>2, <2>1, WriteQueues, WriteTyped DEF Advance, Succeeds
<1>3. CASE Fails /\ lag # 0
  BY <1>3, FailsErrs DEF Errs, objects, StoreType
<1>4. lag = 0 => (cache[n] = None /\ store[n] = None) \/ (cache[n] # None /\ Latest(n))
  BY FreshCopies
<1> QED
  BY <1>1, <1>2, <1>3, <1>4 DEF CreateOrUpdate

\* The contents of a copy.
LEMMA CopyData ==
    ASSUME StoreType, NEW n \in Objects, cache[n] # None
    PROVE  cache[n].data \in Data
BY CopiesTyped DEF Stores, Kept

\* The tail of the informers' backlog.
LEMMA DeliverTyped == StoreType /\ DeliverObjects => StoreType'
<1> SUFFICES ASSUME StoreType, DeliverObjects PROVE StoreType'
  OBVIOUS
<1>1. behind \in Seq(Stores) /\ behind # <<>> /\ behind' = Tail(behind) /\ UNCHANGED <<store, lag>>
  BY DEF StoreType, DeliverObjects
<1>2. behind' \in Seq(Stores) /\ Len(behind') = Len(behind) - 1
  BY <1>1, HeadTailProperties
<1> QED
  BY <1>1, <1>2 DEF StoreType

\* The next call of the program has arguments of the types it needs.
Runnable == todo # <<>> =>
    /\ On \in Objects
    /\ At("put") \/ At("patch") => With \in Data
    /\ At("patch") => store[On] # None
    /\ At("paste") => With \in BOOLEAN /\ held \in Data

\* What a call that succeeds does to the store and to what CopySecret holds.
Does ==
    /\ Succeeds /\ todo # <<>>
    /\ \/ UNCHANGED store
       \/ At("erase") /\ store' = [store EXCEPT ![On] = None]
       \/ /\ At("put") \/ At("patch") \/ At("own") \/ At("paste")
          /\ \E o \in Kept : store' = [store EXCEPT ![On] = o]
    /\ \/ ~At("read") /\ ~At("own") /\ UNCHANGED held
       \/ At("read") /\ UNCHANGED store /\ held' \in Data
       \/ At("own") /\ held' \in Data

\* A call does what it is for, or ends the pass.
LEMMA CallDoes ==
    ASSUME LifecycleType, StoreType, Runnable, pass # None,
           Put \/ Patch \/ Validate \/ Read \/ Own \/ Paste \/ Erase
    PROVE  StoreType' /\ (Does \/ Errs)
<1> DEFINE Goal == StoreType' /\ (Does \/ Errs)
<1>0. pass \in CRs /\ store \in Stores /\ (todo # <<>> => On \in Objects)
  BY DEF LifecycleType, StoreType, Runnable
<1>1. CASE Fails
  BY <1>1, FailsErrs DEF Errs, objects, StoreType
<1>2. ASSUME Skip, At("put") \/ At("patch") \/ At("validate") \/ At("paste") \/ At("erase")
      PROVE  Goal
  <2>1. Succeeds /\ StoreType' /\ UNCHANGED <<store, held>> /\ todo # <<>>
    BY <1>2 DEF Skip, Advance, objects, Succeeds, StoreType, At
  <2> QED
    BY <1>2, <2>1 DEF Does, At
<1>3. ASSUME NEW o \in Kept \cup {None}, Write([store EXCEPT ![On] = o]), Advance, todo # <<>>,
             \/ o = None /\ At("erase")
             \/ o \in Kept /\ (At("put") \/ At("patch") \/ At("own") \/ At("paste")),
             IF At("own") THEN held' \in Data ELSE UNCHANGED held
      PROVE  Goal
  <2>1. [store EXCEPT ![On] = o] \in Stores
    BY <1>0, <1>3 DEF Stores
  <2>2. StoreType' /\ store' = [store EXCEPT ![On] = o] /\ Succeeds
    BY <1>3, <2>1, WriteTyped, WriteQueues DEF Advance, Succeeds
  <2> QED
    BY <1>3, <2>2 DEF Does, At
<1>4. ASSUME NEW o \in Kept, CreateOrUpdate(On, o), At("put") \/ At("paste") PROVE Goal
  <2>1. todo # <<>> /\ ~At("own") /\ ~At("read") /\ ~At("erase")
    BY <1>4 DEF At
  <2>2. \/ /\ StoreType' /\ Succeeds /\ held' = held
           /\ store' = store \/ store' = [store EXCEPT ![On] = o]
        \/ StoreType' /\ Errs
    BY <1>0, <1>4, <2>1, PutsObject
  <2> QED
    BY <1>4, <2>1, <2>2 DEF Does
<1>5. CASE Put
  <2>1. At("put") /\ With \in Data /\ CreateOrUpdate(On, [data |-> With, owner |-> pass.uid])
    BY <1>5 DEF Put, Runnable, At
  <2>2. [data |-> With, owner |-> pass.uid] \in Kept
    BY <1>0, <2>1 DEF Kept, CRs
  <2> QED
    BY <1>4, <2>1, <2>2
<1>6. CASE Patch
  <2>1. At("patch") /\ todo # <<>> /\ With \in Data /\ store[On] # None /\ ~At("own")
    BY <1>6 DEF Patch, Runnable, At
  <2>2. store[On] \in Kept
    BY <1>0, <2>1 DEF Stores
  <2> DEFINE o == [store[On] EXCEPT !.data = With]
  <2>3. o \in Kept /\ [store EXCEPT ![On].data = With] = [store EXCEPT ![On] = o]
    BY <1>0, <2>1, <2>2 DEF Stores, Kept
  <2> HIDE DEF o
  <2>4. CASE Skip
    BY <1>2, <2>1, <2>4
  <2>5. CASE Advance /\ UNCHANGED held /\ Write([store EXCEPT ![On] = o])
    BY <1>3, <2>1, <2>3, <2>5
  <2> QED
    BY <1>6, <2>3, <2>4, <2>5 DEF Patch
<1>7. CASE Validate
  BY <1>1, <1>2, <1>7 DEF Validate
<1>8. CASE Read
  <2>1. At("read") /\ todo # <<>> /\ ~At("own") /\ On \in Objects
    BY <1>0, <1>8 DEF Read, At
  <2>2. CASE cache[On] # None
    <3>1. Advance /\ held' \in Data /\ UNCHANGED <<queued, objects>>
      BY <1>8, <2>1, <2>2, CopyData DEF Read
    <3> QED
      BY <2>1, <3>1 DEF Advance, objects, Succeeds, Does, StoreType
  <2> QED
    BY <1>1, <1>8, <2>2 DEF Read
<1>9. CASE Own
  <2>1. At("own") /\ todo # <<>> /\ ~At("erase") /\ On \in Objects
    BY <1>0, <1>9 DEF Own, At
  <2>2. CASE cache[On] # None /\ ~Fails
    <3> DEFINE o == [data |-> held', owner |-> pass.uid]
    <3>1. Advance /\ held' \in Data /\ Write([store EXCEPT ![On] = o])
      BY <1>9, <2>1, <2>2, CopyData DEF Own
    <3>2. o \in Kept
      BY <1>0, <3>1 DEF Kept, CRs
    <3> HIDE DEF o
    <3> QED
      BY <1>3, <2>1, <3>1, <3>2
  <2> QED
    BY <1>1, <1>9, <2>2 DEF Own
<1>10. CASE Paste
  <2>1. At("paste") /\ todo # <<>> /\ held \in Data /\ With \in BOOLEAN
    BY <1>10 DEF Paste, Runnable, At
  <2>2. [data |-> held, owner |-> IF With THEN pass.uid ELSE 0] \in Kept
    BY <1>0, <2>1 DEF Kept, CRs
  <2> QED
    BY <1>4, <1>10, <2>1, <2>2 DEF Paste
<1>11. CASE Erase
  <2>1. At("erase") /\ todo # <<>> /\ ~At("own")
    BY <1>11 DEF Erase, At
  <2>2. CASE Advance /\ UNCHANGED held /\ Write([store EXCEPT ![On] = None])
    BY <1>3, <2>1, <2>2
  <2> QED
    BY <1>1, <1>2, <1>11, <2>1, <2>2 DEF Erase
<1> QED
  BY <1>5, <1>6, <1>7, <1>8, <1>9, <1>10, <1>11

\* What users, informers, the garbage collector, failures and restarts do: the pass goes
\* on as it was, or is over.
LEMMA OthersDo ==
    ASSUME LifecycleType, StoreType,
           \/ Users \/ DeliverCR \/ DeliverObjects \/ CallFails \/ Crash
           \/ \E n \in Objects : Collect(n)
           \/ \E n \in Objects, o \in Kept \cup {None} : Change(n, o)
    PROVE  /\ StoreType'
           /\ \/ UNCHANGED <<pass, todo, held>>
              \/ pass' = None /\ todo' = <<>> /\ held' = None
<1>1. CASE Users \/ DeliverCR
  BY <1>1 DEF Users, DeliverCR, Create, Edit, Delete, Deliver, objects, program, StoreType
<1>2. CASE DeliverObjects
  BY <1>2, DeliverTyped DEF DeliverObjects, program
<1>3. CASE CallFails
  BY <1>3 DEF CallFails, Abort, Report, End, objects, StoreType
<1>4. CASE Crash
  <2>1. pass' = None /\ todo' = <<>> /\ held' = None /\ UNCHANGED <<store, lag>>
    BY <1>4 DEF Crash, Restart
  <2>2. behind' \in Seq(Stores) /\ Len(behind') = 0
    BY <1>4 DEF Crash
  <2> QED
    BY <2>1, <2>2 DEF StoreType
<1>5. ASSUME NEW n \in Objects, NEW o \in Kept \cup {None}, Write([store EXCEPT ![n] = o])
      PROVE  StoreType'
  <2>1. [store EXCEPT ![n] = o] \in Stores
    BY DEF StoreType, Stores
  <2> QED
    BY <1>5, <2>1, WriteTyped
<1>6. ASSUME NEW n \in Objects, Collect(n)
      PROVE  StoreType' /\ UNCHANGED <<pass, todo, held>>
  BY <1>5, <1>6 DEF Collect, program
<1>7. ASSUME NEW n \in Objects, NEW o \in Kept \cup {None}, Change(n, o)
      PROVE  StoreType' /\ UNCHANGED <<pass, todo, held>>
  BY <1>5, <1>7 DEF Change, program
<1> QED
  BY <1>1, <1>2, <1>3, <1>4, <1>6, <1>7

\* A Reconciled status that is there was there before, about the same spec.
ClaimKept ==
    cr' # None /\ cr'.reconciled =>
        /\ cr # None /\ cr.reconciled
        /\ cr'.uid = cr.uid /\ cr'.spec = cr.spec /\ cr'.generation = cr.generation

\* The version there is was there before.
SameVersion ==
    cr' # None =>
        /\ cr # None
        /\ cr'.uid = cr.uid /\ cr'.spec = cr.spec /\ cr'.generation = cr.generation

\* Only users make versions.
LEMMA NoEdit ==
    ASSUME LifecycleType,
           UNCHANGED cr \/ Adopt \/ Begin \/ Abort \/ Complete \/ Delete
    PROVE  SameVersion
<1> USE NoObjectAssumption DEF SameVersion, LifecycleType, CRs
<1>1. CASE UNCHANGED cr \/ Begin
  BY <1>1 DEF Begin
<1>2. CASE Adopt
  BY <1>2 DEF Adopt
<1>3. CASE Abort \/ Complete
  BY <1>3 DEF Abort, Complete, Report, Finish, End
<1>4. CASE Delete
  BY <1>4 DEF Delete
<1> QED
  BY <1>1, <1>2, <1>3, <1>4

\* Only the end of a pass claims success.
LEMMA NoClaim ==
    ASSUME LifecycleType,
           UNCHANGED cr \/ StartPass \/ Adopt \/ Begin \/ Abort \/ Users \/ DeliverCR
    PROVE  ClaimKept
<1> USE NoObjectAssumption DEF ClaimKept, LifecycleType, CRs
<1>1. CASE UNCHANGED cr \/ Begin \/ DeliverCR
  BY <1>1 DEF Begin, DeliverCR, Deliver
<1>2. CASE Adopt
  BY <1>2 DEF Adopt
<1>3. CASE Abort
  BY <1>3 DEF Abort, Report, End
<1>4. CASE Create
  BY <1>4 DEF Create
<1>5. CASE Edit
  <2>1. PICK s \in Specs :
           cr' = [cr EXCEPT !.spec = s, !.generation = @ + 1, !.reconciled = FALSE]
    BY <1>5 DEF Edit
  <2>2. cr \in CRs
    BY <1>5 DEF Edit
  <2> QED
    BY <2>1, <2>2
<1>6. CASE Delete
  BY <1>6 DEF Delete
<1> QED
  BY <1>1, <1>2, <1>3, <1>4, <1>5, <1>6 DEF StartPass, Users

\* It claims it of the copy it has worked on, which is then the object.
LEMMA Claims ==
    ASSUME LifecycleType, Complete
    PROVE  \/ ClaimKept
           \/ /\ cr' # None /\ cr = pass /\ ~pass.deleting
              /\ cr'.uid = pass.uid /\ cr'.spec = pass.spec /\ cr'.generation = pass.generation
<1> USE NoObjectAssumption DEF ClaimKept, LifecycleType, CRs
<1>1. CASE UNCHANGED cr \/ cr' = None
  BY <1>1
<1>2. CASE Report(TRUE, FALSE)
  BY <1>2 DEF Report
<1>3. CASE Finish(TRUE) \/ End(TRUE) \/ End(FALSE)
  BY <1>1, <1>3 DEF Finish, End
<1> QED
  BY <1>2, <1>3 DEF Complete

\* Every call, and everything around a pass, is a step of Lifecycle or leaves it alone.
LEMMA StageStep ==
    ASSUME LifecycleType,
           \/ StartPass \/ Calls \/ Erase \/ CallFails \/ Crash \/ Users
           \/ DeliverCR \/ DeliverObjects
           \/ \E n, o : Change(n, o)
           \/ \E n : Collect(n)
    PROVE  [LifecycleNext]_lifecycle
<1> USE WriteQueues, QuietStep, CallEnds
<1>1. CASE StartPass
  BY <1>1 DEF StartPass, LifecycleNext
<1>2. ASSUME NEW n, NEW object, CreateOrUpdate(n, object) PROVE [LifecycleNext]_lifecycle
  BY <1>2 DEF CreateOrUpdate, Advance, lifecycle
<1>3. CASE Put \/ Paste
  BY <1>2, <1>3 DEF Put, Paste
<1>4. CASE Patch
  BY <1>4 DEF Patch, Advance, lifecycle
<1>5. CASE Validate
  BY <1>5 DEF Validate, lifecycle
<1>6. CASE Read
  BY <1>6 DEF Read, Advance, lifecycle
<1>7. CASE Own
  BY <1>7 DEF Own, Advance, lifecycle
<1>8. CASE Erase
  BY <1>8 DEF Erase, Advance, lifecycle
<1>9. CASE EndPass
  BY <1>9 DEF EndPass, Complete, LifecycleNext
<1>10. CASE CallFails
  BY <1>10 DEF CallFails, Abort, LifecycleNext
<1>11. CASE Crash
  BY <1>11 DEF Crash, LifecycleNext
<1>12. CASE Users \/ DeliverCR
  BY <1>12 DEF Users, DeliverCR, LifecycleNext
<1>13. CASE DeliverObjects
  BY <1>13 DEF DeliverObjects, Event, LifecycleType
<1>14. ASSUME NEW n, NEW o, Change(n, o) PROVE [LifecycleNext]_lifecycle
  BY <1>14 DEF Change
<1>15. ASSUME NEW n, Collect(n) PROVE [LifecycleNext]_lifecycle
  BY <1>15 DEF Collect
<1> QED
  BY <1>1, <1>3, <1>4, <1>5, <1>6, <1>7, <1>8, <1>9, <1>10, <1>11, <1>12, <1>13, <1>14, <1>15
     DEF Calls
==============================================================================
