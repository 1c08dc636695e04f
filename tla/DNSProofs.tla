------------------------------ MODULE DNSProofs ------------------------------
(***************************************************************************)
(* Theorems about DNS, for all domains, numbers of nodes, lags and bounds. *)
(***************************************************************************)
EXTENDS DNS, StageProofs

-----------------------------------------------------------------------------
(* Where a pass can be in its program.                                     *)

Calls4(d) == <<Call("nodes", MachineConfig, None), Call("put", MachineConfig, d),
               Call("wait", MachineConfig, None), Call("lookup", MachineConfig, d)>>
Calls3(d) == <<Call("put", MachineConfig, d), Call("wait", MachineConfig, None),
               Call("lookup", MachineConfig, d)>>
Calls2(d) == <<Call("wait", MachineConfig, None), Call("lookup", MachineConfig, d)>>
Calls1(d) == <<Call("lookup", MachineConfig, d)>>

Programs(d) == {Calls4(d), Calls3(d), Calls2(d), Calls1(d), <<>>}

Program == IF pass = None THEN todo = <<>>
           ELSE IF pass.deleting THEN todo = <<>>
           ELSE todo \in Programs(pass.spec.domain)

World ==
    /\ nodes \in NodeCounts /\ address \in BOOLEAN /\ external \subseteq Domains
    /\ {rendered, active} \subseteq Data \cup {None}
    /\ listed \in BOOLEAN /\ updating \in BOOLEAN
    /\ edits \in Nat

Types == LifecycleInv /\ Versions /\ StoreType /\ Program /\ World

-----------------------------------------------------------------------------
(* What the node resolves.                                                 *)

\* Before the first object there are no entries, and then they belong to it.
Untouched == uids = 0 =>
    cr = None /\ known = None /\ pass = None /\ Wanted = None /\ rendered = None /\ active = None

Owned == store[MachineConfig] # None => store[MachineConfig].owner \in 1..uids

\* What the property speaks of.
Early == edits = 0 /\ uids = 1 /\ cr # None /\ cr.generation <= 2

\* The entries reach the node through the pool's configuration: those for the present
\* domain are not followed by others.
InOrder ==
    /\ cr.generation = 1 => {Wanted, rendered, active} \subseteq {None, cr.spec.domain}
    /\ active = cr.spec.domain => rendered = cr.spec.domain
    /\ rendered = cr.spec.domain => Wanted = cr.spec.domain

\* A pass for an earlier version has not yet been followed by one for the present version.
OldCopy(c) ==
    c # None /\ c.uid = cr.uid /\ c.generation < cr.generation =>
        c.spec.domain = cr.spec.domain \/ Wanted # cr.spec.domain

\* A pass that is through, and a report, have seen the domain resolve.
LookedUp ==
    pass # None /\ ~pass.deleting /\ pass.generation = cr.generation /\ todo = <<>> =>
        Resolves(cr.spec.domain)

Reported == cr.reconciled => Resolves(cr.spec.domain)

Entries == /\ Untouched /\ Owned
           /\ Early => InOrder /\ OldCopy(known) /\ OldCopy(pass) /\ LookedUp /\ Reported

-----------------------------------------------------------------------------
(* Programs.                                                               *)

\* A call leaves the next program.
LEMMA Rests ==
    ASSUME NEW d
    PROVE  /\ Tail(Calls4(d)) = Calls3(d) /\ Tail(Calls3(d)) = Calls2(d)
           /\ Tail(Calls2(d)) = Calls1(d) /\ Tail(Calls1(d)) = <<>>
           /\ SubSeq(Calls4(d), 4, Len(Calls4(d))) = Calls1(d)
           /\ Calls3(d) # <<>> /\ Calls2(d) # <<>> /\ Calls1(d) # <<>>
           /\ {Calls3(d), Calls2(d), Calls1(d), <<>>} \subseteq Programs(d)
<1>1. /\ Tail(Calls4(d)) = Calls3(d) /\ Tail(Calls3(d)) = Calls2(d)
      /\ Tail(Calls2(d)) = Calls1(d) /\ Tail(Calls1(d)) = <<>>
  BY DEF Calls4, Calls3, Calls2, Calls1
<1>2. SubSeq(Calls4(d), 4, Len(Calls4(d))) = Calls1(d)
  <2> DEFINE p == Calls4(d)  q == Calls1(d)  S == {p[1], p[2], p[3], p[4]}
  <2>1. p \in Seq(S) /\ Len(p) = 4 /\ q \in Seq(S) /\ Len(q) = 1 /\ q[1] = p[4]
    BY DEF Calls4, Calls1
  <2> HIDE DEF p, q, S
  <2>2. /\ SubSeq(p, 4, 4) \in Seq(S)
        /\ Len(SubSeq(p, 4, 4)) = 1
        /\ SubSeq(p, 4, 4)[1] = p[4]
    <3>1. 4 \in Int /\ (\A i \in 4..4 : p[i] \in S) /\ 4 - 4 + 1 = 1 /\ 4 + 1 - 1 = 4
      BY <2>1 DEF S
    <3>2. /\ SubSeq(p, 4, 4) \in Seq(S)
          /\ Len(SubSeq(p, 4, 4)) = IF 4 <= 4 THEN 4 - 4 + 1 ELSE 0
          /\ \A i \in 1..4 - 4 + 1 : SubSeq(p, 4, 4)[i] = p[4 + i - 1]
      BY ONLY <3>1, SubSeqProperties
    <3> QED
      BY ONLY <3>1, <3>2
  <2>3. SubSeq(p, 4, 4) = q
    BY <2>1, <2>2, SeqEqual
  <2> QED
    BY <2>1, <2>3 DEF p, q
<1>3. Calls3(d) # <<>> /\ Calls2(d) # <<>> /\ Calls1(d) # <<>>
  BY DEF Calls3, Calls2, Calls1
<1>4. {Calls3(d), Calls2(d), Calls1(d), <<>>} \subseteq Programs(d)
  BY DEF Programs
<1> QED
  BY <1>1, <1>2, <1>3, <1>4

\* The call a pass is about to make tells where it is.
LEMMA Where ==
    ASSUME Program, todo # <<>>
    PROVE  /\ pass # None /\ ~pass.deleting /\ On = MachineConfig
           /\ \/ At("nodes") /\ todo = Calls4(pass.spec.domain)
              \/ At("put") /\ todo = Calls3(pass.spec.domain) /\ With = pass.spec.domain
              \/ At("wait") /\ todo = Calls2(pass.spec.domain)
              \/ At("lookup") /\ todo = Calls1(pass.spec.domain) /\ With = pass.spec.domain
<1>1. pass # None /\ ~pass.deleting /\ todo \in Programs(pass.spec.domain)
  BY DEF Program
<1>2. CASE todo = Calls4(pass.spec.domain)
  BY <1>1, <1>2 DEF Calls4, Call, At, On
<1>3. CASE todo = Calls3(pass.spec.domain)
  BY <1>1, <1>3 DEF Calls3, Call, At, On, With
<1>4. CASE todo = Calls2(pass.spec.domain)
  BY <1>1, <1>4 DEF Calls2, Call, At, On
<1>5. CASE todo = Calls1(pass.spec.domain)
  BY <1>1, <1>5 DEF Calls1, Call, At, On, With
<1> QED
  BY <1>1, <1>2, <1>3, <1>4, <1>5 DEF Programs

\* Plans are programs, and not empty unless the object is being deleted.
LEMMA Plans ==
    ASSUME NEW c \in CRs, ~c.deleting
    PROVE  Plan(c) \in Programs(c.spec.domain) /\ Plan(c) # <<>>
<1> DEFINE d == c.spec.domain
           n == Call("nodes", MachineConfig, None)  p == Call("put", MachineConfig, d)
           w == Call("wait", MachineConfig, None)   l == Call("lookup", MachineConfig, d)
<1>1. Plan(c) = (IF c.spec.addInternalDNSEntries THEN <<n, p, w>> ELSE <<>>) \o <<l>>
  BY DEF Plan
<1>2. <<n, p, w>> \o <<l>> = Calls4(d)
  <2> DEFINE s == <<n, p, w>>  t == <<l>>  S == {n, p, w, l}
  <2>1. s \in Seq(S) /\ t \in Seq(S) /\ Len(s) = 3 /\ Len(t) = 1 /\ t[1] = l
        /\ s[1] = n /\ s[2] = p /\ s[3] = w
    OBVIOUS
  <2>2. Calls4(d) \in Seq(S) /\ Len(Calls4(d)) = 4
        /\ Calls4(d)[1] = n /\ Calls4(d)[2] = p /\ Calls4(d)[3] = w /\ Calls4(d)[4] = l
    BY DEF Calls4
  <2> HIDE DEF s, t, S, n, p, w, l
  <2>3. /\ s \o t \in Seq(S) /\ Len(s \o t) = Len(s) + Len(t)
        /\ \A i \in 1..(Len(s) + Len(t)) :
              (s \o t)[i] = IF i <= Len(s) THEN s[i] ELSE t[i - Len(s)]
    BY <2>1, ConcatProperties
  <2>4. Len(s \o t) = 4 /\ \A i \in 1..4 : (s \o t)[i] = Calls4(d)[i]
    BY <2>1, <2>2, <2>3
  <2>5. s \o t = Calls4(d)
    BY <2>2, <2>3, <2>4, SeqEqual
  <2> QED
    BY <2>5 DEF s, t
<1>3. <<>> \o <<l>> = Calls1(d)
  BY DEF Calls1
<1>4. Calls4(d) # <<>> /\ Calls1(d) # <<>>
  BY DEF Calls4, Calls1
<1> QED
  BY <1>1, <1>2, <1>3, <1>4 DEF Programs

-----------------------------------------------------------------------------
(* Steps.                                                                  *)

\* Every step is one of Lifecycle, or leaves it alone.
LEMMA NextLifecycle == LifecycleType /\ [Next]_vars => [LifecycleNext]_lifecycle
<1> SUFFICES ASSUME LifecycleType, [Next]_vars PROVE [LifecycleNext]_lifecycle
  OBVIOUS
<1> USE CallEnds, StageStep
<1>1. CASE Start \/ Calls
  BY <1>1 DEF Start
<1>2. CASE ListNodes \/ WaitForPool \/ Lookup
  BY <1>2 DEF ListNodes, WaitForPool, Lookup, lifecycle
<1>3. CASE Users \/ CallFails \/ Crash \/ DeliverCR \/ DeliverObjects \/ Collect(MachineConfig)
  BY <1>3
<1>4. CASE Drift
  BY <1>4 DEF Drift
<1>5. CASE MachineConfigOperator \/ ReportAddress \/ ChangeExternal \/ UNCHANGED vars
  BY <1>5 DEF MachineConfigOperator, ReportAddress, ChangeExternal, vars, lifecycle
<1>6. CASE Reboot
  BY <1>6 DEF Reboot, LifecycleNext
<1> QED
  BY <1>1, <1>2, <1>3, <1>4, <1>5, <1>6 DEF Next, Worker, Surroundings

\* What the MachineConfig is after a call.
PutsEntries ==
    \/ UNCHANGED store
    \/ /\ At("put")
       /\ store' = [store EXCEPT ![MachineConfig] =
                       [data |-> pass.spec.domain, owner |-> pass.uid]]

\* How a call changes the program and the store.
Goes ==
    /\ StoreType' /\ Program' /\ UNCHANGED edits
    /\ \/ pass' = None /\ ClaimKept /\ SameVersion /\ UNCHANGED <<uids, known, store>>
       \/ /\ todo # <<>> /\ UNCHANGED <<cr, known, uids, pass>> /\ PutsEntries
          /\ todo' = <<>> => Resolves(pass.spec.domain)

\* The calls of this stage.
LEMMA CallGoes ==
    ASSUME LifecycleType, StoreType, Program,
           ListNodes \/ WaitForPool \/ Lookup \/ Put
    PROVE  Goes
<1> DEFINE d == pass.spec.domain
<1>0. /\ todo # <<>> /\ pass # None /\ ~pass.deleting /\ pass \in CRs /\ d \in Data
      /\ MachineConfig \in Objects
  BY Where, SpecsAssumption, ObjectsAssumption, DataAssumption
     DEF At, ListNodes, WaitForPool, Lookup, Put, LifecycleType, CRs
<1>1. ASSUME Fails PROVE Goes
  <2>1. Errs /\ StoreType'
    BY <1>1, FailsErrs DEF Errs, objects, StoreType
  <2>2. ClaimKept /\ SameVersion
    BY <1>1, NoClaim, NoEdit DEF Fails
  <2>3. UNCHANGED <<uids, known, edits>>
    BY <1>1 DEF Fails, Abort, Report, End, budgets
  <2> QED
    BY <2>1, <2>2, <2>3 DEF Goes, Errs, objects, Program
<1>2. /\ Tail(todo) \in Programs(d)
      /\ Tail(todo) = <<>> => At("lookup")
  <2>1. CASE todo = Calls4(d)
    BY <2>1, Rests
  <2>2. CASE todo = Calls3(d)
    BY <2>2, Rests
  <2>3. CASE todo = Calls2(d)
    BY <2>3, Rests
  <2>4. CASE todo = Calls1(d) /\ At("lookup")
    BY <2>4, Rests
  <2> QED
    BY <1>0, <2>1, <2>2, <2>3, <2>4, Where
<1>3. ASSUME Skip, At("lookup") => Resolves(d) PROVE Goes
  <2>1. UNCHANGED <<cr, known, uids, pass, store, behind, lag, edits>> /\ todo' = Tail(todo)
    BY <1>3 DEF Skip, Advance, objects, budgets
  <2> QED
    BY <1>0, <1>2, <1>3, <2>1 DEF Goes, StoreType, Program, PutsEntries
<1>4. CASE ListNodes
  <2>1. todo = Calls4(d) /\ ~At("lookup")
    BY <1>0, <1>4, Where DEF ListNodes, At
  <2>2. CASE nodes > 1 /\ todo' = SubSeq(todo, 4, Len(todo))
             /\ UNCHANGED <<lifecycle, objects, held, budgets>>
    <3>1. todo' = Calls1(d) /\ todo' # <<>> /\ todo' \in Programs(d)
      BY <2>1, <2>2, Rests
    <3> QED
      BY <1>0, <2>2, <3>1
         DEF Goes, StoreType, Program, PutsEntries, lifecycle, objects, budgets
  <2> QED
    BY <1>1, <1>3, <1>4, <2>1, <2>2 DEF ListNodes
<1>5. CASE WaitForPool
  BY <1>3, <1>5 DEF WaitForPool, At
<1>6. CASE Lookup
  <2>1. With = d
    BY <1>0, <1>6, Where DEF Lookup, At
  <2> QED
    BY <1>1, <1>3, <1>6, <2>1 DEF Lookup
<1>7. CASE Put
  <2> DEFINE o == [data |-> d, owner |-> pass.uid]
  <2>1. At("put") /\ With = d /\ On = MachineConfig /\ ~At("lookup")
    BY <1>0, <1>7, Where DEF Put, At
  <2>2. o \in Kept /\ CreateOrUpdate(MachineConfig, o)
    BY <1>0, <1>7, <2>1 DEF Put, Kept, CRs
  <2> HIDE DEF o
  <2>3. CASE Skip
    BY <1>3, <2>1, <2>3
  <2>4. CASE Advance /\ Write([store EXCEPT ![MachineConfig] = o])
    <3>1. StoreType' /\ store' = [store EXCEPT ![MachineConfig] = o]
      <4>1. [store EXCEPT ![MachineConfig] = o] \in Stores
        BY <2>2 DEF StoreType, Stores
      <4> QED
        BY <2>4, <4>1, WriteTyped, WriteQueues
    <3>2. UNCHANGED <<cr, known, uids, pass, edits>> /\ todo' = Tail(todo)
      BY <2>4 DEF Advance, budgets
    <3>3. PutsEntries
      BY <2>1, <3>1 DEF PutsEntries, o
    <3> QED
      BY <1>0, <1>2, <2>1, <3>1, <3>2, <3>3 DEF Goes, Program
  <2> QED
    BY <1>1, <2>2, <2>3, <2>4 DEF CreateOrUpdate
<1> QED
  BY <1>4, <1>5, <1>6, <1>7

\* The start of a pass: all it has to do is before it.
LEMMA Starts ==
    ASSUME LifecycleInv, LifecycleInv', StoreType, Start
    PROVE  /\ StoreType' /\ Program' /\ UNCHANGED <<store, known, uids, edits>> /\ ClaimKept
           /\ pass' # None /\ ~pass'.deleting => todo' # <<>>
           /\ pass' \in {None, known} \/ (Adopt /\ pass' = cr' /\ known = cr)
<1>1. StoreType' /\ UNCHANGED <<store, known, uids, edits>>
  BY DEF Start, StartPass, Begin, Adopt, objects, budgets, StoreType
<1>2. ClaimKept
  BY NoClaim DEF Start, LifecycleInv
<1>3. pass' \in {None, known} \/ (Adopt /\ pass' = cr' /\ known = cr)
  BY DEF Start, StartPass, Begin, Adopt
<1>4. Program' /\ (pass' # None /\ ~pass'.deleting => todo' # <<>>)
  <2>1. CASE pass' = None
    BY <2>1 DEF Start, Program
  <2>2. CASE pass' # None /\ pass'.deleting
    BY <2>2 DEF Start, Plan, Program
  <2>3. CASE pass' # None /\ ~pass'.deleting
    <3>1. pass' \in CRs /\ todo' = Plan(pass')
      BY <2>3 DEF Start, LifecycleInv, LifecycleType
    <3> QED
      BY <2>3, <3>1, Plans DEF Program
  <2> QED
    BY <2>1, <2>2, <2>3
<1> QED
  BY <1>1, <1>2, <1>3, <1>4

\* What happens around the pass.
LEMMA OthersGo ==
    ASSUME LifecycleInv, StoreType, Program, edits \in Nat,
           \/ Users \/ DeliverCR \/ DeliverObjects \/ CallFails \/ Crash
           \/ Collect(MachineConfig) \/ Drift
    PROVE  /\ StoreType' /\ Program' /\ edits' \in Nat
           /\ \/ UNCHANGED <<pass, todo>>
              \/ pass' = None /\ todo' = <<>>
<1>1. MachineConfig \in Objects /\ None \in Kept \cup {None}
  BY ObjectsAssumption
<1>2. Drift => \E n \in Objects, o \in Kept \cup {None} : Change(n, o)
  <2> SUFFICES ASSUME Drift PROVE \E n \in Objects, o \in Kept \cup {None} : Change(n, o)
    OBVIOUS
  <2>1. store[MachineConfig] \in Kept
    BY <1>1 DEF Drift, StoreType, Stores
  <2>2. [store[MachineConfig] EXCEPT !.data = "other"] \in Kept
    BY <2>1, DataAssumption DEF Kept
  <2> QED
    BY <1>1, <2>2 DEF Drift
<1>3. /\ StoreType'
      /\ \/ UNCHANGED <<pass, todo>>
         \/ pass' = None /\ todo' = <<>>
  BY <1>1, <1>2, OthersDo DEF LifecycleInv
<1>4. Program'
  <2>1. CASE UNCHANGED <<pass, todo>>
    BY <2>1 DEF Program
  <2>2. CASE pass' = None /\ todo' = <<>>
    BY <2>2 DEF Program
  <2> QED
    BY <1>3, <2>1, <2>2
<1>5. edits' = edits \/ edits' = edits + 1
  BY DEF Users, DeliverCR, DeliverObjects, CallFails, Crash, Collect, Drift, Change, budgets
<1> QED
  BY <1>3, <1>4, <1>5

\* The world is as typed after every step.
LEMMA WorldStep ==
    ASSUME Types, [Next]_vars, edits' \in Nat
    PROVE  World'
<1> USE DEF Types, World, world, pool
<1>1. CASE UNCHANGED <<world, pool>>
  BY <1>1
<1>2. CASE MachineConfigOperator
  <2>1. Wanted \in Data \cup {None}
    BY ObjectsAssumption DEF Wanted, StoreType, Stores, Kept
  <2> QED
    BY <1>2, <2>1 DEF MachineConfigOperator, Render, ShowUpdating, ShowUpdated
<1>3. CASE Reboot \/ ReportAddress
  BY <1>3 DEF Reboot, ReportAddress
<1>4. CASE ChangeExternal
  BY <1>4 DEF ChangeExternal
<1>5. CASE UNCHANGED vars
  BY <1>5 DEF vars
<1> QED
  BY <1>1, <1>2, <1>3, <1>4, <1>5 DEF Next, Worker

\* Every step keeps the types.
LEMMA TypesStep == Types /\ [Next]_vars => Types'
<1> SUFFICES ASSUME Types, [Next]_vars PROVE Types'
  OBVIOUS
<1>0. LifecycleInv' /\ Versions' /\ LifecycleInv /\ LifecycleType /\ StoreType /\ Program
      /\ edits \in Nat
  BY NextLifecycle, LifecycleStep, VersionsStep DEF Types, LifecycleInv, World
<1>1. SUFFICES StoreType' /\ Program' /\ edits' \in Nat
  BY <1>0, WorldStep DEF Types
<1>2. CASE ListNodes \/ WaitForPool \/ Lookup \/ Put
  BY <1>0, <1>2, CallGoes DEF Goes
<1>3. CASE Start
  BY <1>0, <1>3, Starts
<1>4. CASE EndPass
  BY <1>0, <1>4 DEF EndPass, Complete, Report, Finish, End, objects, budgets, StoreType, Program
<1>5. CASE Users \/ DeliverCR \/ DeliverObjects \/ CallFails \/ Crash \/ Collect(MachineConfig) \/ Drift
  BY <1>0, <1>5, OthersGo
<1>6. CASE MachineConfigOperator \/ ReportAddress \/ ChangeExternal \/ UNCHANGED vars
  <2>1. UNCHANGED <<pass, todo, store, behind, lag>> /\ edits' \in {edits, edits + 1}
    BY <1>6 DEF MachineConfigOperator, ReportAddress, ChangeExternal, vars, lifecycle, objects,
                program, budgets
  <2> QED
    BY <1>0, <2>1 DEF StoreType, Program
<1>7. CASE Reboot
  <2>1. pass' = None /\ todo' = <<>> /\ UNCHANGED <<store, lag, edits>> /\ behind' = <<>>
    BY <1>7 DEF Reboot, Restart, budgets
  <2>2. behind' \in Seq(Stores) /\ Len(behind') = 0
    BY <2>1
  <2> QED
    BY <1>0, <2>1, <2>2 DEF StoreType, Program
<1>8. ~(Patch \/ Validate \/ Read \/ Own \/ Paste)
  BY <1>0, Where DEF Patch, Validate, Read, Own, Paste, At
<1> QED
  BY <1>2, <1>3, <1>4, <1>5, <1>6, <1>7, <1>8 DEF Next, Worker, Surroundings, Calls

\* The invariant, of the initial states.
LEMMA InitTyped == Init => Types /\ Entries
<1> SUFFICES ASSUME Init PROVE Types /\ Entries
  OBVIOUS
<1>1. /\ LifecycleInit /\ store = [n \in Objects |-> None] /\ behind = <<>> /\ lag \in Lags
      /\ todo = <<>> /\ edits = 0
  BY DEF Init, StageInit
<1>2. LifecycleInv /\ cr = None /\ known = None /\ pass = None /\ uids = 0
  BY <1>1, LifecycleInitHolds DEF LifecycleInit
<1>3. StoreType /\ store[MachineConfig] = None
  BY <1>1, BoundsAssumption, ObjectsAssumption DEF StoreType, Stores
<1>4. Versions
  BY <1>2 DEF Versions, Earlier
<1>5. World
  BY <1>1 DEF Init, World
<1>6. rendered = None /\ active = None /\ Wanted = None
  BY <1>3 DEF Init, Wanted
<1> QED
  BY <1>1, <1>2, <1>3, <1>4, <1>5, <1>6 DEF Types, Program, Entries, Untouched, Owned, Early

-----------------------------------------------------------------------------
(* The entries.                                                            *)

\* Steps that leave the version and the MachineConfig alone: the pool's configuration
\* may catch up, the node may catch up with it, and copies may be renewed.
LEMMA CatchUp ==
    ASSUME Types, Types', Entries, Early, Early', SameVersion,
           known' \in {known, cr'}, pass' \in {None, pass, known, cr'},
           Wanted' = Wanted, rendered' \in {rendered, Wanted}, active' \in {active, rendered},
           external' = external,
           \/ UNCHANGED <<pass, todo>> \/ pass' = None \/ pass'.deleting \/ todo' # <<>>
           \/ pass' = pass /\ Resolves(pass.spec.domain) /\ active' = active,
           cr'.reconciled => cr.reconciled \/ Resolves(cr.spec.domain)
    PROVE  InOrder' /\ OldCopy(known)' /\ OldCopy(pass)' /\ LookedUp' /\ Reported'
<1>1. /\ InOrder /\ OldCopy(known) /\ OldCopy(pass) /\ LookedUp /\ Reported
      /\ cr # None /\ cr' # None /\ cr'.uid = cr.uid /\ cr'.spec = cr.spec
      /\ cr'.generation = cr.generation
      /\ cr \in CRs /\ cr.generation \in Nat /\ Earlier(pass, cr) /\ pass \in CRs \cup {None}
      /\ (pass # None => pass.uid = cr.uid)
  <2>1. cr # None /\ cr' # None /\ uids = 1
    BY DEF Early
  <2>2. cr \in CRs /\ pass \in CRs \cup {None} /\ Versions
    BY <2>1 DEF Types, LifecycleInv, LifecycleType
  <2>3. cr.uid = 1 /\ (pass # None => pass.uid = 1)
    BY <2>1, <2>2 DEF Versions, CRs
  <2> QED
    BY <2>1, <2>2, <2>3 DEF Entries, SameVersion, Versions, CRs
<1>2. InOrder'
  BY <1>1 DEF InOrder
<1>3. OldCopy(known)' /\ OldCopy(pass)'
  <2>1. \A c : OldCopy(c) => (c # None /\ c.uid = cr'.uid /\ c.generation < cr'.generation =>
                                c.spec.domain = cr'.spec.domain \/ Wanted' # cr'.spec.domain)
    BY <1>1 DEF OldCopy
  <2>2. ~(cr'.generation < cr'.generation)
    BY <1>1
  <2> QED
    BY <1>1, <2>1, <2>2 DEF OldCopy
<1>4. Resolves(cr.spec.domain) => Resolves(cr.spec.domain)'
  BY <1>1 DEF Resolves, InOrder
<1>5. Reported'
  BY <1>1, <1>4 DEF Reported, Resolves
<1>6. LookedUp'
  <2>1. CASE UNCHANGED <<pass, todo>>
    BY <1>1, <1>4, <2>1 DEF LookedUp, Resolves
  <2>2. CASE pass' = None \/ pass'.deleting \/ todo' # <<>>
    BY <2>2 DEF LookedUp
  <2>3. CASE pass' = pass /\ Resolves(pass.spec.domain) /\ active' = active
    BY <1>1, <2>3 DEF LookedUp, Resolves, Earlier
  <2> QED
    BY <2>1, <2>2, <2>3
<1> QED
  BY <1>2, <1>3, <1>5, <1>6

\* A pass writes its version of the entries.
LEMMA Rewrite ==
    ASSUME Types, Types', Entries, Early, UNCHANGED <<cr, known, uids, pass, rendered, active, external>>,
           pass # None, ~pass.deleting, Wanted' = pass.spec.domain,
           todo' = <<>> => Resolves(pass.spec.domain)
    PROVE  InOrder' /\ OldCopy(known)' /\ OldCopy(pass)' /\ LookedUp' /\ Reported'
<1> DEFINE d == cr.spec.domain
<1>1. /\ InOrder /\ OldCopy(known) /\ OldCopy(pass) /\ LookedUp /\ Reported
      /\ Earlier(pass, cr) /\ Earlier(pass, known) /\ Earlier(known, cr)
  BY DEF Entries, Types, Versions
<1>2. /\ cr # None /\ cr \in CRs /\ pass \in CRs /\ known \in CRs \cup {None} /\ uids = 1
      /\ cr.generation <= 2
  BY DEF Early, Types, LifecycleInv, LifecycleType
<1>3. \A c \in {cr, known, pass} : c # None => c.uid = 1 /\ c.generation >= 1 /\ c.generation \in Nat
  BY <1>2 DEF Types, Versions, CRs
<1>4. /\ pass.uid = cr.uid /\ (known # None => known.uid = cr.uid)
      /\ cr.generation \in 1..2 /\ pass.generation \in 1..2
      /\ (known # None => known.generation \in 1..2)
  BY <1>1, <1>2, <1>3 DEF Earlier
<1>5. pass.generation = cr.generation => pass.spec = cr.spec
  BY <1>1, <1>2, <1>4 DEF Earlier
<1>6. pass.generation # cr.generation => pass.generation = 1 /\ cr.generation = 2
                                       /\ (d = pass.spec.domain \/ Wanted # d)
  BY <1>1, <1>2, <1>4 DEF Earlier, OldCopy
<1>7. InOrder'
  <2>1. CASE pass.generation = cr.generation
    BY <1>1, <1>5, <2>1 DEF InOrder
  <2>2. CASE pass.generation # cr.generation
    BY <1>1, <1>6, <2>2 DEF InOrder
  <2> QED
    BY <2>1, <2>2
<1>8. OldCopy(pass)'
  BY <1>4, <1>5 DEF OldCopy
<1>9. OldCopy(known)'
  <2> SUFFICES ASSUME known # None, known.generation < cr.generation, Wanted' = d
               PROVE  known.spec.domain = d
    BY DEF OldCopy
  <2>1. pass.generation = 1 /\ known.generation = 1
    BY <1>1, <1>2, <1>4 DEF Earlier
  <2>2. pass.spec = known.spec
    BY <1>1, <1>2, <1>4, <2>1 DEF Earlier
  <2> QED
    BY <2>2
<1>10. Resolves(cr.spec.domain)' = Resolves(cr.spec.domain)
  BY DEF Resolves
<1>11. LookedUp' /\ Reported'
  BY <1>1, <1>5, <1>10 DEF LookedUp, Reported
<1> QED
  BY <1>7, <1>8, <1>9, <1>11

\* A user asks for another domain: the node has no entries for it, unless it is the same.
LEMMA Reask ==
    ASSUME Types, Types', Entries, Early, Early', Edit,
           UNCHANGED <<pass, todo, Wanted, rendered, active, external>>
    PROVE  InOrder' /\ OldCopy(known)' /\ OldCopy(pass)' /\ LookedUp' /\ Reported'
<1>1. PICK s \in Specs :
         cr' = [cr EXCEPT !.spec = s, !.generation = @ + 1, !.reconciled = FALSE]
  BY DEF Edit
<1>2. /\ cr \in CRs /\ cr' \in CRs /\ cr'.uid = cr.uid /\ UNCHANGED <<known, uids>>
      /\ cr # None /\ cr' # None /\ uids = 1
  BY EditKeeps DEF Edit, Types, LifecycleInv, Early
<1>3. cr'.spec = s /\ cr'.generation = cr.generation + 1 /\ cr'.reconciled = FALSE
  BY <1>1, <1>2 DEF CRs
<1>4. cr'.generation <= 2 /\ cr.generation >= 1 /\ cr.generation \in Nat
  BY <1>2 DEF Early, Types, Versions, CRs
<1>5. cr.generation = 1 /\ cr'.generation = 2
  BY <1>3, <1>4
<1>6. InOrder /\ {Wanted, rendered, active} \subseteq {None, cr.spec.domain}
  BY <1>5 DEF Entries, InOrder
<1>7. cr'.spec.domain # None
  BY <1>2, SpecsAssumption, DataAssumption, NoneAssumption DEF CRs
<1>8. ASSUME NEW c \in {known, pass}, c # None, c.uid = cr'.uid, c.generation < cr'.generation
      PROVE  c.spec = cr.spec
  <2>1. c \in CRs /\ c.generation >= 1 /\ Earlier(c, cr)
    BY <1>8 DEF Types, LifecycleInv, LifecycleType, Versions
  <2>2. c.generation = cr.generation
    BY <1>5, <1>8, <2>1 DEF CRs
  <2> QED
    BY <1>2, <1>8, <2>1, <2>2 DEF Earlier
<1>9. InOrder'
  BY <1>5, <1>6, <1>7 DEF InOrder
<1>10. OldCopy(known)' /\ OldCopy(pass)'
  <2>1. ASSUME NEW c \in {known, pass}
        PROVE  c # None /\ c.uid = cr'.uid /\ c.generation < cr'.generation =>
                  c.spec.domain = cr'.spec.domain \/ Wanted # cr'.spec.domain
    BY <1>6, <1>7, <1>8
  <2> QED
    BY <1>2, <2>1 DEF OldCopy
<1>11. LookedUp'
  <2>1. pass # None => pass.generation <= 1
    <3> SUFFICES ASSUME pass # None PROVE pass.generation <= 1
      OBVIOUS
    <3>1. pass \in CRs /\ pass.uid \in 1..uids /\ cr.uid \in 1..uids /\ Earlier(pass, cr)
      BY <1>2 DEF Types, LifecycleInv, LifecycleType, Versions
    <3>2. pass.uid = cr.uid
      BY <1>2, <3>1
    <3> QED
      BY <1>2, <1>5, <3>1, <3>2 DEF Earlier
  <2>2. pass # None => pass.generation # 2
    BY <2>1
  <2> QED
    BY <1>5, <2>2 DEF LookedUp
<1>12. Reported'
  BY <1>3 DEF Reported
<1> QED
  BY <1>9, <1>10, <1>11, <1>12

\* The MachineConfig: a pass writes it, and others change or remove what is there.
LEMMA StoreSteps ==
    ASSUME Types, [Next]_vars
    PROVE  \/ store'[MachineConfig] = store[MachineConfig]
           \/ /\ pass # None
              /\ store'[MachineConfig] = [data |-> pass.spec.domain, owner |-> pass.uid]
           \/ /\ store[MachineConfig] # None
              /\ \/ store'[MachineConfig] = None
                 \/ store'[MachineConfig].owner = store[MachineConfig].owner
<1>0. /\ LifecycleType /\ StoreType /\ Program
      /\ store \in [Objects -> Kept \cup {None}] /\ MachineConfig \in Objects
  BY ObjectsAssumption DEF Types, LifecycleInv, StoreType, Stores
<1>1. CASE ListNodes \/ WaitForPool \/ Lookup \/ Put
  BY <1>0, <1>1, CallGoes, Where DEF Goes, PutsEntries
<1>2. CASE Start \/ EndPass \/ Users \/ DeliverCR \/ DeliverObjects \/ CallFails \/ Crash
           \/ MachineConfigOperator \/ ReportAddress \/ ChangeExternal \/ Reboot \/ UNCHANGED vars
  BY <1>2 DEF Start, StartPass, EndPass, Users, DeliverCR, DeliverObjects, CallFails, Crash,
              MachineConfigOperator, ReportAddress, ChangeExternal, Reboot, vars, objects
<1>3. ASSUME NEW o, Write([store EXCEPT ![MachineConfig] = o]) PROVE store'[MachineConfig] = o
  <2>1. store' = [store EXCEPT ![MachineConfig] = o]
    BY <1>3 DEF Write
  <2> QED
    BY <1>0, <2>1
<1>4. CASE Collect(MachineConfig)
  BY <1>3, <1>4 DEF Collect
<1>5. CASE Drift
  <2>1. store[MachineConfig] \in Kept /\ store[MachineConfig] # None
    BY <1>0, <1>5 DEF Drift
  <2>2. CASE Change(MachineConfig, None)
    BY <1>3, <2>1, <2>2 DEF Change
  <2>3. CASE Change(MachineConfig, [store[MachineConfig] EXCEPT !.data = "other"])
    <3>1. store'[MachineConfig] = [store[MachineConfig] EXCEPT !.data = "other"]
      BY <1>3, <2>3 DEF Change
    <3> QED
      BY <2>1, <3>1 DEF Kept
  <2> QED
    BY <1>5, <2>2, <2>3 DEF Drift
<1>6. ~(Patch \/ Validate \/ Read \/ Own \/ Paste)
  BY <1>0, Where DEF Patch, Validate, Read, Own, Paste, At
<1> QED
  BY <1>1, <1>2, <1>4, <1>5, <1>6 DEF Next, Worker, Surroundings, Calls

\* The pool and the node catch up, by themselves.
LEMMA PoolSteps ==
    ASSUME [Next]_vars
    PROVE  rendered' \in {rendered, Wanted} /\ active' \in {active, rendered}
<1> USE DEF pool
<1>1. CASE UNCHANGED <<world, pool>> \/ UNCHANGED vars
  BY <1>1 DEF vars
<1>2. CASE MachineConfigOperator
  BY <1>2 DEF MachineConfigOperator, Render, ShowUpdating, ShowUpdated
<1>3. CASE Reboot \/ ReportAddress \/ ChangeExternal
  BY <1>3 DEF Reboot, ReportAddress, ChangeExternal
<1> QED
  BY <1>1, <1>2, <1>3 DEF Next, Worker

\* Only the object there is has had entries.
LEMMA OwnedStep ==
    ASSUME Types, Types', Entries, [Next]_vars
    PROVE  Untouched' /\ Owned'
<1>1. uids \in Nat /\ uids' \in {uids, uids + 1} /\ Versions /\ Versions' /\ Untouched /\ Owned
  BY NextLifecycle, SameObject DEF Types, LifecycleInv, LifecycleType, Entries
<1>2. Untouched'
  <2> SUFFICES ASSUME uids' = 0
               PROVE  /\ cr' = None /\ known' = None /\ pass' = None /\ Wanted' = None
                      /\ rendered' = None /\ active' = None
    BY DEF Untouched
  <2>1. cr' = None /\ known' = None /\ pass' = None
    BY <1>1 DEF Versions
  <2>2. pass = None /\ Wanted = None /\ rendered = None /\ active = None
    BY <1>1 DEF Untouched
  <2>3. store[MachineConfig] = None
    BY <2>2, ObjectsAssumption, NoneAssumption DEF Wanted, Types, StoreType, Stores, Kept
  <2>4. store'[MachineConfig] = None
    BY <2>2, <2>3, StoreSteps
  <2> QED
    BY <2>1, <2>2, <2>4, PoolSteps DEF Wanted
<1>3. Owned'
  <2>1. pass # None => pass.uid \in 1..uids
    BY <1>1 DEF Versions
  <2>2. CASE store'[MachineConfig] = store[MachineConfig]
    BY <1>1, <2>2 DEF Owned
  <2>3. CASE pass # None /\ store'[MachineConfig] = [data |-> pass.spec.domain, owner |-> pass.uid]
    BY <1>1, <2>1, <2>3 DEF Owned
  <2>4. CASE /\ store[MachineConfig] # None
             /\ \/ store'[MachineConfig] = None
                \/ store'[MachineConfig].owner = store[MachineConfig].owner
    BY <1>1, <2>4 DEF Owned
  <2> QED
    BY <2>2, <2>3, <2>4, StoreSteps
<1> QED
  BY <1>2, <1>3

\* The count of edits grows one at a time, and with it alone the rest of the world changes.
LEMMA EditsGrow ==
    ASSUME Types, [Next]_vars
    PROVE  edits' \in {edits, edits + 1} /\ (edits' = edits => external' = external)
<1>0. LifecycleType /\ StoreType /\ Program
  BY DEF Types, LifecycleInv
<1> USE DEF world
<1>1. CASE (ListNodes \/ WaitForPool \/ Lookup \/ Put) /\ UNCHANGED world
  BY <1>0, <1>1, CallGoes DEF Goes
<1>2. CASE (Start \/ EndPass \/ Users \/ DeliverCR \/ DeliverObjects \/ CallFails \/ Crash) /\ UNCHANGED world
  BY <1>2 DEF Start, StartPass, EndPass, Users, DeliverCR, DeliverObjects, CallFails, Crash, budgets
<1>3. CASE (Collect(MachineConfig) \/ Drift) /\ UNCHANGED world
  BY <1>3 DEF Collect, Drift, Change, budgets
<1>4. CASE MachineConfigOperator \/ ReportAddress \/ Reboot \/ UNCHANGED vars
  BY <1>4 DEF MachineConfigOperator, ReportAddress, Reboot, vars, budgets
<1>5. CASE ChangeExternal
  <2>1. edits' = edits + 1 /\ edits \in Nat
    BY <1>5 DEF ChangeExternal, Types, World
  <2> QED
    BY <2>1
<1>6. ~(Patch \/ Validate \/ Read \/ Own \/ Paste)
  BY <1>0, Where DEF Patch, Validate, Read, Own, Paste, At
<1> QED
  BY <1>1, <1>2, <1>3, <1>4, <1>5, <1>6 DEF Next, Worker, Surroundings, Calls

\* The time the property speaks of begins with the object.
LEMMA EarlyStep ==
    ASSUME Types, Types', [Next]_vars, Early'
    PROVE  \/ uids = 0 /\ Create
           \/ Early /\ edits' = edits /\ external' = external
<1>1. /\ uids' \in {uids, uids + 1}
      /\ \/ Create
         \/ cr # None /\ cr'.uid = cr.uid /\ cr.generation <= cr'.generation
  BY NextLifecycle, SameObject DEF Types, LifecycleInv, Early
<1>2. uids \in Nat /\ uids' = 1 /\ edits \in Nat /\ edits' = 0
  BY DEF Types, LifecycleInv, LifecycleType, Early, World
<1>3. edits = 0 /\ edits' = edits /\ external' = external
  BY <1>2, EditsGrow
<1>4. CASE Create
  <2>1. uids' = uids + 1
    BY <1>4 DEF Create
  <2>2. uids = 0
    BY <1>2, <2>1
  <2> QED
    BY <1>4, <2>2
<1>5. CASE cr # None /\ cr'.uid = cr.uid /\ cr.generation <= cr'.generation
  <2>1. cr \in CRs /\ cr' \in CRs /\ cr.uid \in 1..uids /\ cr'.generation <= 2
    BY <1>5 DEF Types, LifecycleInv, LifecycleType, Versions, Early
  <2>2. uids = 1
    BY <1>1, <1>2, <2>1
  <2>3. cr.generation <= 2
    BY <1>5, <2>1 DEF CRs
  <2> QED
    BY <1>3, <1>5, <2>2, <2>3 DEF Early
<1> QED
  BY <1>1, <1>4, <1>5

\* What holds of the entries, after a step in the time the property speaks of.
Good == InOrder /\ OldCopy(known) /\ OldCopy(pass) /\ LookedUp /\ Reported

\* The object has just been created.
LEMMA CreateGood ==
    ASSUME Types, Types', Entries, [Next]_vars, uids = 0, Create
    PROVE  Good'
<1>1. /\ pass' = None /\ known' = None /\ pass = None
      /\ Wanted = None /\ rendered = None /\ active = None
  BY DEF Entries, Untouched, Create
<1>2. cr'.generation = 1 /\ cr'.reconciled = FALSE /\ cr'.spec \in Specs
  BY DEF Create
<1>3. store[MachineConfig] = None
  BY <1>1, ObjectsAssumption, NoneAssumption DEF Wanted, Types, StoreType, Stores, Kept
<1>4. Wanted' = None /\ rendered' = None /\ active' = None
  BY <1>1, <1>3, StoreSteps, PoolSteps DEF Wanted
<1>5. cr'.spec.domain # None
  BY <1>2, SpecsAssumption, DataAssumption, NoneAssumption
<1> QED
  BY <1>1, <1>2, <1>4, <1>5 DEF Good, InOrder, OldCopy, LookedUp, Reported

\* Every step, in the time the property speaks of.
LEMMA EarlyGood ==
    ASSUME Types, Types', Entries, [Next]_vars, Early, Early',
           edits' = edits, external' = external
    PROVE  Good'
<1>0. /\ LifecycleInv /\ LifecycleInv' /\ LifecycleType /\ StoreType /\ Program
      /\ cr # None /\ cr' # None
      /\ LookedUp /\ InOrder /\ edits \in Nat
  BY DEF Types, LifecycleInv, Entries, Early, World
<1> USE DEF Good, pool, world
<1>1. ASSUME SameVersion, ClaimKept, known' \in {known, cr'}, UNCHANGED <<store, rendered, active>>,
             UNCHANGED <<pass, todo>> \/ pass' = None
      PROVE  Good'
  <2>1. Wanted' = Wanted
    BY <1>1 DEF Wanted
  <2>2. cr'.reconciled => cr.reconciled
    BY <1>0, <1>1 DEF ClaimKept
  <2> QED
    BY <1>1, <2>1, <2>2, CatchUp
<1>2. CASE (ListNodes \/ WaitForPool \/ Lookup \/ Put) /\ UNCHANGED pool
  <2>1. Goes
    BY <1>0, <1>2, CallGoes
  <2>2. CASE pass' = None /\ ClaimKept /\ SameVersion /\ UNCHANGED <<uids, known, store>>
    BY <1>1, <1>2, <2>2
  <2>3. CASE /\ todo # <<>> /\ UNCHANGED <<cr, known, uids, pass>> /\ PutsEntries
             /\ todo' = <<>> => Resolves(pass.spec.domain)
    <3>1. pass # None /\ ~pass.deleting
      BY <1>0, <2>3, Where
    <3>2. CASE UNCHANGED store
      <4>1. Wanted' = Wanted /\ SameVersion
        BY <1>0, <2>3, <3>2 DEF Wanted, SameVersion
      <4>2. todo' # <<>> \/ (pass' = pass /\ Resolves(pass.spec.domain) /\ active' = active)
        BY <1>2, <2>3
      <4> QED
        BY <1>2, <2>3, <4>1, <4>2, CatchUp
    <3>3. CASE store' = [store EXCEPT ![MachineConfig] =
                            [data |-> pass.spec.domain, owner |-> pass.uid]]
      <4> DEFINE o == [data |-> pass.spec.domain, owner |-> pass.uid]
      <4>1. o \in Kept
        <5>1. pass \in CRs
          BY <1>0, <3>1 DEF LifecycleType
        <5> QED
          BY <5>1, SpecsAssumption, DataAssumption DEF Kept, CRs
      <4>2. store'[MachineConfig] = o
        BY <1>0, <3>3, ObjectsAssumption DEF StoreType, Stores
      <4>3. Wanted' = pass.spec.domain
        BY <4>1, <4>2, NoneAssumption DEF Wanted
      <4> QED
        BY <1>2, <2>3, <3>1, <4>3, Rewrite
    <3> QED
      BY <2>3, <3>2, <3>3 DEF PutsEntries
  <2> QED
    BY <2>1, <2>2, <2>3 DEF Goes
<1>3. CASE Start /\ UNCHANGED pool
  <2>1. /\ UNCHANGED <<store, known>> /\ ClaimKept
        /\ pass' = None \/ pass'.deleting \/ todo' # <<>>
        /\ pass' \in {None, known, cr'}
    BY <1>0, <1>3, Starts
  <2>2. SameVersion
    BY <1>0, <1>3, NoEdit DEF Start, StartPass
  <2>3. Wanted' = Wanted /\ (cr'.reconciled => cr.reconciled)
    BY <1>0, <2>1 DEF Wanted, ClaimKept
  <2> QED
    BY <1>3, <2>1, <2>2, <2>3, CatchUp
<1>4. CASE EndPass /\ UNCHANGED pool
  <2>1. UNCHANGED <<store, known>> /\ pass' = None /\ pass # None /\ todo = <<>> /\ Complete
    BY <1>4 DEF EndPass, Complete, Report, Finish, End, objects
  <2>2. SameVersion
    BY <1>0, <2>1, NoEdit
  <2>3. cr'.reconciled => cr.reconciled \/ Resolves(cr.spec.domain)
    <3>1. CASE ClaimKept
      BY <1>0, <3>1 DEF ClaimKept
    <3>2. CASE cr = pass /\ ~pass.deleting
      BY <1>0, <2>1, <3>2 DEF LookedUp
    <3> QED
      BY <1>0, <2>1, <3>1, <3>2, Claims
  <2>4. Wanted' = Wanted
    BY <2>1 DEF Wanted
  <2> QED
    BY <1>4, <2>1, <2>2, <2>3, <2>4, CatchUp
<1>5. CASE Create
  BY <1>0, <1>5 DEF Create
<1>6. CASE Edit /\ Users /\ UNCHANGED pool
  <2>1. UNCHANGED <<pass, todo, Wanted>>
    BY <1>6 DEF Edit, Users, objects, program, Wanted
  <2> QED
    BY <1>6, <2>1, Reask
<1>7. CASE ((Delete /\ Users) \/ DeliverCR) /\ UNCHANGED pool
  <2>1. UNCHANGED <<pass, todo, store>> /\ known' \in {known, cr'}
    BY <1>7 DEF Users, DeliverCR, Delete, Deliver, objects, program
  <2>2. SameVersion
    BY <1>0, <1>7, NoEdit DEF DeliverCR, Deliver
  <2>3. ClaimKept
    BY <1>0, <1>7, NoClaim
  <2> QED
    BY <1>1, <1>7, <2>1, <2>2, <2>3
<1>8. CASE DeliverObjects /\ UNCHANGED pool
  <2>1. UNCHANGED <<cr, known, pass, todo, store>>
    BY <1>8 DEF DeliverObjects, program
  <2>2. SameVersion /\ ClaimKept
    BY <1>0, <2>1, NoEdit, NoClaim
  <2> QED
    BY <1>1, <1>8, <2>1, <2>2
<1>9. CASE CallFails /\ UNCHANGED pool
  <2>1. UNCHANGED <<store, known>> /\ pass' = None /\ Abort
    BY <1>9 DEF CallFails, Abort, Report, End, objects
  <2>2. SameVersion /\ ClaimKept
    BY <1>0, <2>1, NoEdit, NoClaim
  <2> QED
    BY <1>1, <1>9, <2>1, <2>2
<1>10. CASE Crash /\ UNCHANGED pool
  <2>1. UNCHANGED <<cr, store>> /\ known' = cr' /\ pass' = None
    BY <1>10 DEF Crash, Restart
  <2>2. SameVersion /\ ClaimKept
    BY <1>0, <2>1, NoEdit, NoClaim
  <2> QED
    BY <1>1, <1>10, <2>1, <2>2
<1>11. ~Collect(MachineConfig)
  <2> SUFFICES ASSUME Collect(MachineConfig) PROVE FALSE
    OBVIOUS
  <2>1. store[MachineConfig].owner \in 1..uids /\ cr.uid \in 1..uids /\ uids = 1
    BY <1>0 DEF Collect, Entries, Owned, Types, Versions, Early
  <2>2. store[MachineConfig].owner = cr.uid
    BY <2>1
  <2> QED
    BY <1>0, <2>2 DEF Collect
<1>12. ~Drift /\ ~ChangeExternal
  <2>1. edits' # edits + 1
    BY <1>0
  <2> QED
    BY <2>1 DEF Drift, Change, ChangeExternal
<1>13. CASE MachineConfigOperator
  <2>1. UNCHANGED <<cr, known, pass, todo, store>>
    BY <1>13 DEF MachineConfigOperator, lifecycle, objects, program
  <2>2. SameVersion /\ ClaimKept /\ active' = active
    BY <1>0, <1>13, <2>1, NoEdit, NoClaim DEF MachineConfigOperator, Render, ShowUpdating, ShowUpdated
  <2>3. Wanted' = Wanted /\ (cr'.reconciled => cr.reconciled)
    BY <2>1 DEF Wanted
  <2> QED
    BY <2>1, <2>2, <2>3, CatchUp, PoolSteps
<1>14. CASE Reboot
  <2>1. UNCHANGED <<cr, store, rendered>> /\ known' = cr' /\ pass' = None
    BY <1>14 DEF Reboot, Restart
  <2>2. SameVersion
    BY <1>0, <2>1, NoEdit
  <2>3. Wanted' = Wanted /\ (cr'.reconciled => cr.reconciled)
    BY <2>1 DEF Wanted
  <2> QED
    BY <2>1, <2>2, <2>3, CatchUp, PoolSteps
<1>15. CASE ReportAddress \/ UNCHANGED vars
  <2>1. UNCHANGED <<cr, known, pass, todo, store, rendered, active>>
    BY <1>15 DEF ReportAddress, vars, lifecycle, objects, program
  <2>2. SameVersion /\ ClaimKept
    BY <1>0, <2>1, NoEdit, NoClaim
  <2> QED
    BY <1>1, <2>1, <2>2
<1>16. ~(Patch \/ Validate \/ Read \/ Own \/ Paste)
  BY <1>0, Where DEF Patch, Validate, Read, Own, Paste, At
<1> QED
  BY <1>2, <1>3, <1>4, <1>5, <1>6, <1>7, <1>8, <1>9, <1>10, <1>11, <1>12, <1>13, <1>14, <1>15, <1>16
     DEF Next, Worker, Surroundings, Calls, Users

\* Every step keeps the invariant.
LEMMA EntriesStep == Types /\ Entries /\ [Next]_vars => Types' /\ Entries'
<1> SUFFICES ASSUME Types, Entries, [Next]_vars PROVE Types' /\ Entries'
  OBVIOUS
<1>1. Types'
  BY TypesStep
<1>2. Untouched' /\ Owned'
  BY <1>1, OwnedStep
<1>3. ASSUME Early' PROVE Good'
  BY <1>1, <1>3, EarlyStep, CreateGood, EarlyGood
<1> QED
  BY <1>1, <1>2, <1>3 DEF Entries, Good

-----------------------------------------------------------------------------
(* Theorems.                                                               *)

\* Every variable has its type, and a pass with calls to make is under way, for any
\* number of edits, failures, restarts and reboots of the node.
THEOREM TypeCorrect == Spec => []TypeOK
<1>1. Init => Types
  BY InitTyped
<1>2. Types /\ [Next]_vars => Types'
  BY TypesStep
<1>3. Types => TypeOK
  BY DEF Types, TypeOK, LifecycleInv, LifecycleType, StoreType, Program, World
<1> QED
  BY <1>1, <1>2, <1>3, PTL DEF Spec

\* A relocation reported as done resolves its domain, although the wait for the pool may
\* end early: verifyDomain looks the domain up itself, and the pool's configuration
\* changes only with the MachineConfig, which no pass for an earlier version writes again
\* after the present one has.
THEOREM ReportedMeansResolvable == Spec => []ReportMeansResolvable
<1>1. Init => Types /\ Entries
  BY InitTyped
<1>2. Types /\ Entries /\ [Next]_vars => Types' /\ Entries'
  BY EntriesStep
<1>3. Entries => ReportMeansResolvable
  BY DEF Entries, Early, Reported, ReportMeansResolvable
<1> QED
  BY <1>1, <1>2, <1>3, PTL DEF Spec

\* This stage and its surroundings do what Lifecycle says of the object and the pass,
\* whatever the machine config operator and the node's reboots do to the controller.
THEOREM ImplementsLifecycle == Spec => LifecycleSpec
<1>1. Init => LifecycleInit
  BY DEF Init, StageInit
<1>2. Init => LifecycleInv
  BY LifecycleInitHolds, <1>1
<1>3. LifecycleInv /\ [Next]_vars => [LifecycleNext]_lifecycle
  BY NextLifecycle DEF LifecycleInv
<1>4. LifecycleInv /\ [Next]_vars => LifecycleInv'
  BY <1>3, LifecycleStep
<1> QED
  BY <1>1, <1>2, <1>3, <1>4, PTL DEF Spec, LifecycleSpec
==============================================================================
