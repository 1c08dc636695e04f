--------------------------- MODULE PullSecretProofs ---------------------------
(***************************************************************************)
(* Theorems about PullSecret, for all secrets, specs, lags and bounds.     *)
(***************************************************************************)
EXTENDS PullSecret, StageProofs

-----------------------------------------------------------------------------
(* Where a pass can be in its program.                                     *)

validateUser == Call("validate", "user", None)
backup       == Call("backup", "backup", None)
readPull     == Call("read", "pull", None)
pasteBackup  == Call("paste", "backup", TRUE)
ownUser      == Call("own", "user", None)
pastePull    == Call("paste", "pull", FALSE)
cleanup      == Call("cleanup", "backup", None)
readBackup   == Call("read", "backup", None)
eraseBackup  == Call("erase", "backup", TRUE)

Replacing == {<<validateUser, backup, ownUser, pastePull>>, <<backup, ownUser, pastePull>>,
              <<readPull, pasteBackup, ownUser, pastePull>>,
              <<pasteBackup, ownUser, pastePull>>, <<ownUser, pastePull>>, <<pastePull>>, <<>>}
Restoring == {<<cleanup>>, <<readBackup, pastePull, eraseBackup>>, <<pastePull, eraseBackup>>,
              <<eraseBackup>>, <<>>}

Wants(c) == c.spec.pullSecretRef /\ ~c.deleting

\* The rest of the program is a rest of the pass's Plan.
Program == IF pass = None THEN todo = <<>>
           ELSE IF Wants(pass) THEN todo \in Replacing ELSE todo \in Restoring

\* CopySecret writes what it has read.
Copying == At("paste") => held \in Data

Types == /\ LifecycleInv /\ StoreType /\ Program /\ Copying
         /\ store["pull"] # None
         /\ held \in Data \cup {None} /\ original \in Data

-----------------------------------------------------------------------------
(* Programs.                                                               *)

\* Distinct programs have distinct first calls, or lengths.
LEMMA Calls9 ==
    /\ validateUser.do = "validate" /\ validateUser.on = "user"
    /\ backup.do = "backup"
    /\ readPull.do = "read" /\ readPull.on = "pull"
    /\ pasteBackup.do = "paste" /\ pasteBackup.on = "backup" /\ pasteBackup.with = TRUE
    /\ ownUser.do = "own" /\ ownUser.on = "user"
    /\ pastePull.do = "paste" /\ pastePull.on = "pull" /\ pastePull.with = FALSE
    /\ cleanup.do = "cleanup"
    /\ readBackup.do = "read" /\ readBackup.on = "backup"
    /\ eraseBackup.do = "erase" /\ eraseBackup.on = "backup" /\ eraseBackup.with = TRUE
BY DEF validateUser, backup, readPull, pasteBackup, ownUser, pastePull, cleanup, readBackup,
       eraseBackup, Call

\* Two calls put before a program of two calls.
LEMMA Prepend2 ==
    ASSUME NEW a, NEW b, NEW c, NEW d
    PROVE  <<a, b>> \o <<c, d>> = <<a, b, c, d>>
<1> DEFINE S == {a, b, c, d}  s == <<a, b>>  t == <<c, d>>  u == <<a, b, c, d>>
<1>1. /\ s \in Seq(S) /\ t \in Seq(S) /\ u \in Seq(S)
      /\ Len(s) = 2 /\ Len(t) = 2 /\ Len(u) = 4
  OBVIOUS
<1>2. /\ s[1] = a /\ s[2] = b /\ t[1] = c /\ t[2] = d
      /\ u[1] = a /\ u[2] = b /\ u[3] = c /\ u[4] = d
  OBVIOUS
<1> HIDE DEF S, s, t, u
<1>3. /\ s \o t \in Seq(S) /\ Len(s \o t) = Len(s) + Len(t)
      /\ \A i \in 1..(Len(s) + Len(t)) :
            (s \o t)[i] = IF i <= Len(s) THEN s[i] ELSE t[i - Len(s)]
  BY <1>1, ConcatProperties
<1>4. Len(s \o t) = Len(u) /\ \A i \in 1..4 : (s \o t)[i] = u[i]
  BY <1>1, <1>2, <1>3
<1>5. s \o t = u
  BY <1>1, <1>3, <1>4, SeqEqual
<1> QED
  BY <1>5 DEF s, t, u

\* Three calls put before nothing.
LEMMA Prepend3 ==
    ASSUME NEW a, NEW b, NEW c
    PROVE  <<a, b, c>> \o <<>> = <<a, b, c>>
<1>1. <<a, b, c>> \in Seq({a, b, c})
  OBVIOUS
<1> QED
  BY <1>1, ConcatEmptySeq

\* Nothing put before a program.
LEMMA Prepend0 ==
    ASSUME NEW a, NEW b
    PROVE  <<>> \o <<a, b>> = <<a, b>> /\ <<>> \o <<>> = <<>>
OBVIOUS

\* Where the pass is, from the call it is about to make.
LEMMA Where ==
    ASSUME Program
    PROVE  /\ ~At("put") /\ ~At("patch")
           /\ todo # <<>> => pass # None
           /\ At("validate") => Wants(pass) /\ On = "user"
                 /\ todo = <<validateUser, backup, ownUser, pastePull>>
           /\ At("backup") => Wants(pass) /\ todo = <<backup, ownUser, pastePull>>
           /\ At("own") => Wants(pass) /\ On = "user" /\ todo = <<ownUser, pastePull>>
           /\ At("read") =>
                 \/ /\ Wants(pass) /\ On = "pull"
                    /\ todo = <<readPull, pasteBackup, ownUser, pastePull>>
                 \/ /\ ~Wants(pass) /\ On = "backup"
                    /\ todo = <<readBackup, pastePull, eraseBackup>>
           /\ At("paste") =>
                 \/ /\ Wants(pass) /\ On = "backup" /\ With = TRUE
                    /\ todo = <<pasteBackup, ownUser, pastePull>>
                 \/ Wants(pass) /\ On = "pull" /\ With = FALSE /\ todo = <<pastePull>>
                 \/ /\ ~Wants(pass) /\ On = "pull" /\ With = FALSE
                    /\ todo = <<pastePull, eraseBackup>>
           /\ At("cleanup") => ~Wants(pass) /\ todo = <<cleanup>>
           /\ At("erase") => ~Wants(pass) /\ On = "backup" /\ todo = <<eraseBackup>>
BY Calls9 DEF Program, Replacing, Restoring, At, On, With

\* A call that succeeds leaves the rest of the program.
LEMMA Onwards ==
    ASSUME Program, todo # <<>>, ~At("backup"), ~At("cleanup"), todo' = Tail(todo), pass' = pass
    PROVE  Program'
<1>1. CASE Wants(pass)
  <2>1. todo \in Replacing /\ pass # None
    BY <1>1, Where DEF Program
  <2>2. \/ todo = <<validateUser, backup, ownUser, pastePull>>
        \/ todo = <<readPull, pasteBackup, ownUser, pastePull>>
        \/ todo = <<pasteBackup, ownUser, pastePull>>
        \/ todo = <<ownUser, pastePull>> \/ todo = <<pastePull>>
    BY <2>1, Calls9 DEF Replacing, At
  <2>3. todo' \in Replacing
    <3>1. CASE todo = <<validateUser, backup, ownUser, pastePull>>
      BY <3>1 DEF Replacing
    <3>2. CASE todo = <<readPull, pasteBackup, ownUser, pastePull>>
      BY <3>2 DEF Replacing
    <3>3. CASE todo = <<pasteBackup, ownUser, pastePull>>
      BY <3>3 DEF Replacing
    <3>4. CASE todo = <<ownUser, pastePull>>
      BY <3>4 DEF Replacing
    <3>5. CASE todo = <<pastePull>>
      BY <3>5 DEF Replacing
    <3> QED
      BY <2>2, <3>1, <3>2, <3>3, <3>4, <3>5
  <2> QED
    BY <1>1, <2>1, <2>3 DEF Program, Replacing, Wants
<1>2. CASE ~Wants(pass)
  <2>1. todo \in Restoring /\ pass # None
    BY <1>2, Where DEF Program
  <2>2. \/ todo = <<readBackup, pastePull, eraseBackup>>
        \/ todo = <<pastePull, eraseBackup>> \/ todo = <<eraseBackup>>
    BY <2>1, Calls9 DEF Restoring, At
  <2>3. todo' \in Restoring
    <3>1. CASE todo = <<readBackup, pastePull, eraseBackup>>
      BY <3>1 DEF Restoring
    <3>2. CASE todo = <<pastePull, eraseBackup>>
      BY <3>2 DEF Restoring
    <3>3. CASE todo = <<eraseBackup>>
      BY <3>3 DEF Restoring
    <3> QED
      BY <2>2, <3>1, <3>2, <3>3
  <2> QED
    BY <1>2, <2>1, <2>3 DEF Program, Restoring, Wants
<1> QED
  BY <1>1, <1>2

\* The backup and the restoration insert their calls.
LEMMA Inserted ==
    ASSUME Program, Backup \/ Cleanup
    PROVE  /\ Program'
           /\ pass # None /\ UNCHANGED <<lifecycle, objects, held>>
           /\ Backup => Wants(pass) /\ IF cache["backup"] # None THEN todo' = <<ownUser, pastePull>>
                        ELSE todo' = <<readPull, pasteBackup, ownUser, pastePull>>
           /\ Cleanup => ~Wants(pass) /\ IF cache["backup"] = None THEN todo' = <<>>
                         ELSE todo' = <<readBackup, pastePull, eraseBackup>>
<1>1. CASE Backup
  <2>1. todo = <<backup, ownUser, pastePull>> /\ Wants(pass) /\ pass # None
    BY <1>1, Where DEF Backup
  <2>2. Tail(todo) = <<ownUser, pastePull>>
    BY <2>1
  <2>3. IF cache["backup"] # None THEN todo' = <<ownUser, pastePull>>
        ELSE todo' = <<readPull, pasteBackup, ownUser, pastePull>>
    <3>1. CASE cache["backup"] # None
      BY <1>1, <2>2, <3>1, Prepend0 DEF Backup
    <3>2. CASE cache["backup"] = None
      <4>1. todo' = <<readPull, pasteBackup>> \o <<ownUser, pastePull>>
        BY <1>1, <2>2, <3>2 DEF Backup, readPull, pasteBackup
      <4> QED
        BY <3>2, <4>1, Prepend2
    <3> QED
      BY <3>1, <3>2
  <2>4. UNCHANGED <<lifecycle, objects, held>> /\ pass' = pass
    BY <1>1 DEF Backup, lifecycle
  <2> QED
    BY <1>1, <2>1, <2>3, <2>4, Calls9 DEF Program, Replacing, Cleanup, At, Wants
<1>2. CASE Cleanup
  <2>1. todo = <<cleanup>> /\ ~Wants(pass) /\ pass # None
    BY <1>2, Where DEF Cleanup
  <2>2. Tail(todo) = <<>>
    BY <2>1
  <2>3. IF cache["backup"] = None THEN todo' = <<>>
        ELSE todo' = <<readBackup, pastePull, eraseBackup>>
    BY <1>2, <2>2, Prepend0, Prepend3 DEF Cleanup, readBackup, pastePull, eraseBackup
  <2>4. UNCHANGED <<lifecycle, objects, held>> /\ pass' = pass
    BY <1>2 DEF Cleanup, lifecycle
  <2> QED
    BY <1>2, <2>1, <2>3, <2>4, Calls9 DEF Program, Restoring, Backup, At, Wants
<1> QED
  BY <1>1, <1>2

-----------------------------------------------------------------------------
(* Types.                                                                  *)

\* A write to one object is typed, and leaves the pull secret there.
LEMMA Stored ==
    ASSUME Types, NEW n \in Objects, NEW o \in Kept \cup {None}, n = "pull" => o # None
    PROVE  /\ [store EXCEPT ![n] = o] \in Stores
           /\ [store EXCEPT ![n] = o]["pull"] # None
BY ObjectsAssumption DEF Types, StoreType, Stores

\* The initial states.
LEMMA TypesInit == Init => Types
<1> SUFFICES ASSUME Init PROVE Types
  OBVIOUS
<1>1. PICK u \in {None} \cup {Unowned(d) : d \in Data} :
         StageInit([pull |-> Unowned(Initial), backup |-> None, user |-> u], Objects)
  BY DEF Init
<1>2. LifecycleInv /\ pass = None
  BY <1>1, LifecycleInitHolds DEF StageInit, LifecycleInit
<1>3. Unowned(Initial) \in Kept /\ u \in Kept \cup {None}
  BY TypedAssumption DEF Unowned, Kept
<1>4. store \in Stores /\ store["pull"] # None
  BY <1>1, <1>3, ObjectsAssumption, NoneAssumption DEF StageInit, Stores
<1>5. behind \in Seq(Stores) /\ lag \in Nat /\ Len(behind) <= lag
  BY <1>1, BoundsAssumption DEF StageInit
<1>6. todo = <<>> /\ held = None /\ original \in Data
  BY <1>1, TypedAssumption DEF StageInit, Init
<1> QED
  BY <1>2, <1>4, <1>5, <1>6 DEF Types, StoreType, Program, Copying, At

\* Every step is one of Lifecycle, or leaves it alone.
LEMMA NextLifecycle == LifecycleType /\ [Next]_vars => [LifecycleNext]_lifecycle
<1> SUFFICES ASSUME LifecycleType, [Next]_vars PROVE [LifecycleNext]_lifecycle
  OBVIOUS
<1>1. CASE Backup \/ Cleanup
  BY <1>1 DEF Backup, Cleanup
<1>2. CASE ChangeUserSecret \/ ChangePullSecret
  BY <1>2, StageStep DEF ChangeUserSecret, ChangePullSecret
<1>3. CASE Start
  BY <1>3, StageStep DEF Start
<1>4. CASE Collect("backup") \/ Collect("user")
  BY <1>4, StageStep
<1>5. CASE UNCHANGED vars
  BY <1>5 DEF vars
<1> QED
  BY <1>1, <1>2, <1>3, <1>4, <1>5, StageStep DEF Next, Worker

\* A call that fails, and one that does nothing, keep the types.
LEMMA ErrsTyped == Types /\ LifecycleInv' /\ Errs /\ original' = original => Types'
BY DEF Types, Errs, objects, StoreType, Program, Copying, At

\* A call that succeeds keeps the types, if what it stores and holds is typed.
LEMMA SucceedsTyped ==
    ASSUME Types, LifecycleInv', Succeeds, todo # <<>>, ~At("backup"), ~At("cleanup"),
           StoreType', store'["pull"] # None, original' = original,
           \/ held' = held /\ todo # <<readPull, pasteBackup, ownUser, pastePull>>
              /\ todo # <<readBackup, pastePull, eraseBackup>> /\ todo # <<ownUser, pastePull>>
           \/ held' \in Data
    PROVE  Types'
<1>1. Program'
  BY Onwards DEF Types, Succeeds
<1>2. held' \in Data \cup {None}
  BY DEF Types
<1>3. Copying'
  <2>1. CASE held' \in Data
    BY <2>1 DEF Copying
  <2>2. CASE held' = held /\ todo # <<readPull, pasteBackup, ownUser, pastePull>>
             /\ todo # <<readBackup, pastePull, eraseBackup>> /\ todo # <<ownUser, pastePull>>
    <3>1. CASE At("paste")
      BY <2>2, <3>1 DEF Types, Copying
    <3>2. CASE ~At("paste")
      <4>1. \/ todo = <<validateUser, backup, ownUser, pastePull>> \/ todo = <<eraseBackup>>
        BY <2>2, <3>2, Calls9 DEF Types, Program, Replacing, Restoring, At
      <4>2. todo' = <<backup, ownUser, pastePull>> \/ todo' = <<>>
        <5>1. CASE todo = <<validateUser, backup, ownUser, pastePull>>
          BY <5>1 DEF Succeeds
        <5>2. CASE todo = <<eraseBackup>>
          BY <5>2 DEF Succeeds
        <5> QED
          BY <4>1, <5>1, <5>2
      <4> QED
        BY <4>2, Calls9 DEF Copying, At
    <3> QED
      BY <3>1, <3>2
  <2> QED
    BY <2>1, <2>2
<1> QED
  BY <1>1, <1>2, <1>3 DEF Types

\* Each call of a pass, and its end, keeps the types.
LEMMA CallTyped ==
    ASSUME Types, LifecycleInv', original' = original,
           Backup \/ Cleanup \/ Erase \/ Calls
    PROVE  Types'
<1> USE Where DEF Types
<1>1. CASE Backup \/ Cleanup
  BY <1>1, Inserted, Calls9 DEF objects, StoreType, Copying, At
<1>2. CASE Fails
  BY <1>2, FailsErrs, ErrsTyped
<1>3. ASSUME Skip, At("validate") \/ At("erase") PROVE Types'
  <2>1. Succeeds /\ StoreType' /\ UNCHANGED <<store, held>> /\ todo # <<>>
    BY <1>3 DEF Skip, Advance, objects, Succeeds, StoreType, At
  <2> QED
    BY <1>3, <2>1, SucceedsTyped, Calls9 DEF At
<1>4. CASE Validate
  BY <1>2, <1>3, <1>4 DEF Validate
<1>5. CASE Read
  <2>1. On \in Objects
    BY <1>5, ObjectsAssumption DEF Read
  <2>2. CASE cache[On] # None
    <3>1. Succeeds /\ StoreType' /\ UNCHANGED store /\ todo # <<>> /\ held' \in Data
      BY <1>5, <2>1, <2>2, CopyData DEF Read, Advance, objects, Succeeds, StoreType, At
    <3> QED
      BY <1>5, <3>1, SucceedsTyped, Calls9 DEF Read, At
  <2> QED
    BY <1>2, <1>5, <2>2 DEF Read
<1>6. CASE Own
  <2>1. On = "user" /\ "user" \in Objects /\ pass \in CRs /\ todo # <<>>
    BY <1>6, ObjectsAssumption DEF Own, At, LifecycleInv, LifecycleType
  <2>2. CASE cache["user"] # None /\ ~Fails
    <3> DEFINE o == [data |-> held', owner |-> pass.uid]
    <3>1. Advance /\ held' \in Data /\ Write([store EXCEPT !["user"] = o])
      BY <1>6, <2>1, <2>2, CopyData DEF Own
    <3>2. o \in Kept
      BY <2>1, <3>1 DEF Kept, CRs
    <3>3. [store EXCEPT !["user"] = o] \in Stores /\ [store EXCEPT !["user"] = o]["pull"] # None
      BY <2>1, <3>2, Stored
    <3>4. StoreType' /\ store'["pull"] # None /\ Succeeds
      BY <3>1, <3>3, WriteTyped, WriteQueues DEF Advance, Succeeds, LifecycleInv
    <3> QED
      BY <1>6, <2>1, <3>1, <3>4, SucceedsTyped, Calls9 DEF Own, At
  <2> QED
    BY <1>2, <1>6, <2>1, <2>2 DEF Own
<1>7. CASE Paste
  <2> DEFINE o == [data |-> held, owner |-> IF With THEN pass.uid ELSE 0]
  <2>1. On \in {"pull", "backup"} /\ On \in Objects /\ pass \in CRs /\ todo # <<>>
        /\ held \in Data /\ With \in BOOLEAN
    BY <1>7, ObjectsAssumption DEF Paste, At, LifecycleInv, LifecycleType, Copying
  <2>2. o \in Kept /\ CreateOrUpdate(On, o)
    BY <1>7, <2>1 DEF Kept, CRs, Paste
  <2> HIDE DEF o
  <2>3. \/ /\ StoreType' /\ Succeeds /\ held' = held
           /\ store' = store \/ store' = [store EXCEPT ![On] = o]
        \/ Errs
    BY <2>1, <2>2, PutsObject DEF LifecycleInv
  <2>4. store' = store \/ store' = [store EXCEPT ![On] = o] => store'["pull"] # None
    BY <2>1, <2>2, NoneAssumption, Stored
  <2> QED
    BY <1>7, <2>1, <2>3, <2>4, ErrsTyped, SucceedsTyped, Calls9 DEF Paste, At
<1>8. CASE Erase
  <2>1. On = "backup" /\ "backup" \in Objects /\ todo # <<>>
    BY <1>8, ObjectsAssumption DEF Erase, At
  <2>2. CASE Advance /\ UNCHANGED held /\ Write([store EXCEPT !["backup"] = None])
    <3>1. [store EXCEPT !["backup"] = None] \in Stores
          /\ [store EXCEPT !["backup"] = None]["pull"] # None
      BY <2>1, Stored
    <3>2. StoreType' /\ store'["pull"] # None /\ Succeeds
      BY <2>2, <3>1, WriteTyped, WriteQueues DEF Advance, Succeeds, LifecycleInv
    <3> QED
      BY <1>8, <2>1, <2>2, <3>2, SucceedsTyped, Calls9 DEF Erase, At
  <2> QED
    BY <1>2, <1>3, <1>8, <2>1, <2>2 DEF Erase
<1>9. CASE EndPass
  <2>1. pass' = None
    BY <1>9 DEF EndPass, Complete, Report, Finish, End
  <2> QED
    BY <1>9, <2>1 DEF EndPass, objects, StoreType, Program, Copying, At
<1>10. ~Put /\ ~Patch
  BY DEF Put, Patch
<1> QED
  BY <1>1, <1>4, <1>5, <1>6, <1>7, <1>8, <1>9, <1>10 DEF Calls

\* A change to an object, or its collection, keeps the types.
LEMMA ChangeTyped ==
    ASSUME Types, LifecycleInv', UNCHANGED <<pass, todo, held>>, original' \in Data,
           NEW n \in Objects, NEW o \in Kept \cup {None}, n = "pull" => o # None,
           Write([store EXCEPT ![n] = o])
    PROVE  Types'
<1>1. [store EXCEPT ![n] = o] \in Stores /\ [store EXCEPT ![n] = o]["pull"] # None
  BY Stored
<1>2. StoreType' /\ store'["pull"] # None
  BY <1>1, WriteTyped, WriteQueues DEF Types, LifecycleInv
<1> QED
  BY <1>2 DEF Types, Program, Wants, Copying, At

\* Every step keeps the types.
LEMMA TypesStep == Types /\ [Next]_vars => Types'
<1> SUFFICES ASSUME Types, [Next]_vars PROVE Types'
  OBVIOUS
<1>1. LifecycleInv'
  BY NextLifecycle, LifecycleStep DEF Types, LifecycleInv
<1>2. CASE original' = original /\ (Backup \/ Cleanup \/ Erase \/ Calls)
  BY <1>1, <1>2, CallTyped
<1>3. CASE original' = original /\ Start
  <2>1. UNCHANGED <<store, behind, lag, held>>
    BY <1>3 DEF Start, StartPass, objects
  <2>2. todo' = IF pass' = None THEN <<>> ELSE Plan(pass')
    BY <1>3 DEF Start
  <2>3. Program'
    <3>1. CASE pass' = None
      BY <2>2, <3>1 DEF Program
    <3>2. CASE pass' # None /\ Wants(pass')
      BY <2>2, <3>2
         DEF Program, Plan, Wants, Replacing, validateUser, backup, ownUser, pastePull
    <3>3. CASE pass' # None /\ ~Wants(pass')
      BY <2>2, <3>3 DEF Program, Plan, Wants, Restoring, cleanup
    <3> QED
      BY <3>1, <3>2, <3>3
  <2>4. ~At("paste")'
    BY <2>2 DEF At, Plan, Call
  <2> QED
    BY <1>1, <1>3, <2>1, <2>3, <2>4 DEF Types, StoreType, Copying
<1>4. CASE original' = original /\ (Users \/ DeliverCR)
  <2>1. UNCHANGED <<pass, store, behind, lag, todo, held>>
    BY <1>4 DEF Users, DeliverCR, Create, Edit, Delete, Deliver, objects, program
  <2> QED
    BY <1>1, <1>4, <2>1 DEF Types, StoreType, Program, Wants, Copying, At
<1>5. CASE original' = original /\ DeliverObjects
  <2>1. UNCHANGED <<pass, store, todo, held>>
    BY <1>5 DEF DeliverObjects, program
  <2> QED
    BY <1>1, <1>5, <2>1, DeliverTyped DEF Types, Program, Wants, Copying, At
<1>6. CASE original' = original /\ (CallFails \/ (Crash /\ UNCHANGED watched))
  <2>1. pass' = None /\ todo' = <<>> /\ held' = None /\ UNCHANGED <<store, lag>>
    BY <1>6 DEF CallFails, Abort, Report, End, Crash, Restart, objects
  <2>2. behind' = behind \/ behind' = <<>>
    BY <1>6 DEF CallFails, Crash, objects
  <2>3. StoreType'
    <3>1. CASE behind' = behind
      BY <2>1, <3>1 DEF Types, StoreType
    <3>2. CASE behind' = <<>>
      <4>1. <<>> \in Seq(Stores) /\ Len(<<>>) = 0
        OBVIOUS
      <4> QED
        BY <2>1, <3>2, <4>1 DEF Types, StoreType
    <3> QED
      BY <2>2, <3>1, <3>2
  <2> QED
    BY <1>1, <1>6, <2>1, <2>3 DEF Types, Program, Copying, At
<1>7. ASSUME original' = original, ChangeUserSecret PROVE Types'
  <2>1. PICK u \in {None} \cup {Unowned(d) : d \in Data} : Change("user", u)
    BY <1>7 DEF ChangeUserSecret
  <2>2. u \in Kept \cup {None} /\ "user" \in Objects
    BY ObjectsAssumption DEF Unowned, Kept
  <2>3. UNCHANGED <<pass, todo, held>> /\ Write([store EXCEPT !["user"] = u])
    BY <2>1 DEF Change, program
  <2> QED
    BY <1>1, <1>7, <2>2, <2>3, ChangeTyped DEF Types
<1>8. ASSUME ChangePullSecret PROVE Types'
  <2>1. PICK d \in Typed : Change("pull", Unowned(d)) /\ original' = d
    BY <1>8 DEF ChangePullSecret
  <2>2. Unowned(d) \in Kept /\ "pull" \in Objects /\ original' \in Data
    BY <2>1, ObjectsAssumption, TypedAssumption DEF Unowned, Kept
  <2>3. UNCHANGED <<pass, todo, held>> /\ Write([store EXCEPT !["pull"] = Unowned(d)])
    BY <2>1 DEF Change, program
  <2>4. Unowned(d) # None
    BY <2>2, NoneAssumption
  <2> QED
    BY <1>1, <2>2, <2>3, <2>4, ChangeTyped
<1>9. ASSUME NEW n \in {"backup", "user"}, Collect(n), original' = original PROVE Types'
  <2>1. UNCHANGED <<pass, todo, held>> /\ Write([store EXCEPT ![n] = None]) /\ n \in Objects
    BY <1>9, ObjectsAssumption DEF Collect, program
  <2> QED
    BY <1>1, <1>9, <2>1, ChangeTyped DEF Types
<1>10. CASE UNCHANGED vars
  <2>1. UNCHANGED <<pass, store, behind, lag, todo, held, original>>
    BY <1>10 DEF vars, lifecycle, objects, program
  <2> QED
    BY <1>1, <2>1 DEF Types, StoreType, Program, Wants, Copying, At
<1> QED
  BY <1>2, <1>3, <1>4, <1>5, <1>6, <1>7, <1>8, <1>9, <1>10 DEF Next, Worker

\* Every state is typed: the programs, the objects and the copies a pass holds.
THEOREM TypeCorrect == Spec => []TypeOK
<1>1. Types => TypeOK
  <2> SUFFICES ASSUME Types PROVE TypeOK
    OBVIOUS
  <2>1. {cr, known, pass} \subseteq CRs \cup {None} /\ uids \in Nat /\ queued \in BOOLEAN
    BY DEF Types, LifecycleInv, LifecycleType
  <2>2. todo # <<>> => pass # None
    BY DEF Types, Program
  <2> QED
    BY <2>1, <2>2 DEF TypeOK, Types, StoreType, Copying
<1> QED
  BY <1>1, TypesInit, TypesStep, PTL DEF Spec

-----------------------------------------------------------------------------
(* What is never lost.  All of this is about informers that show every     *)
(* write at once: with a stale copy the backup can be overwritten, or the  *)
(* restoration skipped.                                                    *)

\* The backup holds the original, and belongs to a ClusterRelocation that has the
\* finalizer, so nothing but the finalization removes it.
BackupHolds == store["backup"] # None =>
    /\ store["backup"].data = original
    /\ cr # None /\ cr.uid = store["backup"].owner /\ cr.finalizer

\* Without a backup the pull secret has not been replaced.
Unreplaced == store["backup"] = None => store["pull"].data = original

\* Before the backup is made there is none, and what is copied is the original;
\* before the pull secret is replaced there is one.
ReplacesSafely ==
    /\ todo \in {<<readPull, pasteBackup, ownUser, pastePull>>, <<pasteBackup, ownUser, pastePull>>}
          => store["backup"] = None
    /\ todo = <<pasteBackup, ownUser, pastePull>> => held = original
    /\ todo \in {<<ownUser, pastePull>>, <<pastePull>>} => store["backup"] # None

\* What is copied back is the original; the backup is erased only after that, and
\* the pass is over only when there is none.
RestoresSafely ==
    /\ todo = <<readBackup, pastePull, eraseBackup>> => store["backup"] # None
    /\ todo = <<pastePull, eraseBackup>> => held = original
    /\ todo = <<eraseBackup>> => store["pull"].data = original
    /\ pass # None /\ ~Wants(pass) /\ todo = <<>> => store["backup"] = None

Safe == lag = 0 => BackupHolds /\ Unreplaced /\ ReplacesSafely /\ RestoresSafely

\* The pull secret is the original at first, and there is no backup.
LEMMA SafeInit == Init => Safe
<1> SUFFICES ASSUME Init PROVE Safe
  OBVIOUS
<1>1. PICK u \in {None} \cup {Unowned(d) : d \in Data} :
         StageInit([pull |-> Unowned(Initial), backup |-> None, user |-> u], Objects)
  BY DEF Init
<1>2. store["backup"] = None /\ store["pull"].data = original
  BY <1>1 DEF StageInit, Init, Unowned
<1>3. todo = <<>> /\ pass = None
  BY <1>1 DEF StageInit, LifecycleInit
<1> QED
  BY <1>2, <1>3 DEF Safe, BackupHolds, Unreplaced, ReplacesSafely, RestoresSafely

\* The lag is that of the installation.
LEMMA SameLag == Types /\ [Next]_vars => lag' = lag
<1> SUFFICES ASSUME Types, [Next]_vars PROVE lag' = lag
  OBVIOUS
<1> USE WriteQueues DEF Types, LifecycleInv, objects
<1>1. CASE Start \/ Backup \/ Cleanup \/ Users \/ DeliverCR \/ DeliverObjects \/ Crash \/ CallFails
  BY <1>1 DEF Start, StartPass, Backup, Cleanup, Users, DeliverCR, DeliverObjects, Crash, CallFails
<1>2. CASE ChangeUserSecret \/ ChangePullSecret \/ Collect("backup") \/ Collect("user")
  BY <1>2 DEF ChangeUserSecret, ChangePullSecret, Change, Collect
<1>3. CASE Fails \/ Skip
  BY <1>3, FailsErrs DEF Errs, Skip
<1>4. CASE Validate \/ Read \/ Own \/ Erase \/ Put \/ Patch \/ Paste
  BY <1>3, <1>4 DEF Validate, Read, Own, Erase, Put, Patch, Paste, CreateOrUpdate
<1>5. CASE EndPass
  BY <1>5 DEF EndPass
<1>6. CASE UNCHANGED vars
  BY <1>6 DEF vars
<1> QED
  BY <1>1, <1>2, <1>4, <1>5, <1>6 DEF Next, Worker, Calls

\* The pass's calls.
LEMMA CallSafe ==
    ASSUME Types, Safe, lag = 0, original' = original,
           Backup \/ Cleanup \/ Erase \/ Calls
    PROVE  BackupHolds' /\ Unreplaced' /\ ReplacesSafely' /\ RestoresSafely'
<1>0. /\ cache = store /\ \A n : Latest(n)
      /\ BackupHolds /\ Unreplaced /\ ReplacesSafely /\ RestoresSafely
      /\ Program /\ LifecycleType /\ Held /\ StoreType
  BY FreshCopies DEF Types, Safe, LifecycleInv
<1>1. CASE Backup \/ Cleanup
  <2>1. UNCHANGED <<cr, pass, store, held>>
    BY <1>0, <1>1, Inserted DEF lifecycle, objects
  <2>2. BackupHolds' /\ Unreplaced'
    BY <1>0, <2>1 DEF BackupHolds, Unreplaced
  <2>3. CASE Backup
    <3>1. \/ todo' = <<ownUser, pastePull>> /\ store["backup"] # None
          \/ todo' = <<readPull, pasteBackup, ownUser, pastePull>> /\ store["backup"] = None
      BY <1>0, <2>3, Inserted
    <3> QED
      BY <2>1, <2>2, <3>1, Calls9 DEF ReplacesSafely, RestoresSafely
  <2>4. CASE Cleanup
    <3>1. \/ todo' = <<readBackup, pastePull, eraseBackup>> /\ store["backup"] # None
          \/ todo' = <<>> /\ store["backup"] = None
      BY <1>0, <2>4, Inserted
    <3>2. CASE todo' = <<readBackup, pastePull, eraseBackup>> /\ store["backup"] # None
      BY <2>1, <2>2, <3>2, Calls9 DEF ReplacesSafely, RestoresSafely
    <3>3. CASE todo' = <<>> /\ store["backup"] = None
      BY <2>1, <2>2, <3>3 DEF ReplacesSafely, RestoresSafely
    <3> QED
      BY <3>1, <3>2, <3>3
  <2> QED
    BY <1>1, <2>3, <2>4
<1>2. CASE Fails
  <2>1. pass' = None /\ todo' = <<>> /\ UNCHANGED store
    BY <1>2, FailsErrs DEF Errs, objects
  <2>2. cr' = cr \/ (cr # None /\ cr' = [cr EXCEPT !.reconciled = FALSE] /\ cr \in CRs)
    BY <1>0, <1>2, NoneAssumption DEF Fails, Abort, Report, End, LifecycleType
  <2>3. cr # None => cr' # None /\ cr'.uid = cr.uid /\ cr'.finalizer = cr.finalizer
    BY <2>2, NoneAssumption DEF CRs
  <2> QED
    BY <1>0, <2>1, <2>3 DEF BackupHolds, Unreplaced, ReplacesSafely, RestoresSafely
<1>3. CASE Validate
  <2>1. CASE Skip
    <3>1. UNCHANGED <<cr, pass, store>> /\ todo' = Tail(todo)
      BY <2>1 DEF Skip, Advance, objects
    <3>2. todo = <<validateUser, backup, ownUser, pastePull>>
      BY <1>0, <1>3, Where DEF Validate
    <3>3. todo' = <<backup, ownUser, pastePull>>
      BY <3>1, <3>2
    <3>4. ReplacesSafely' /\ RestoresSafely'
      BY <3>3, Calls9 DEF ReplacesSafely, RestoresSafely
    <3> QED
      BY <1>0, <3>1, <3>4 DEF BackupHolds, Unreplaced
  <2> QED
    BY <1>2, <1>3, <2>1 DEF Validate
<1>4. CASE Read
  <2>1. CASE Advance /\ held' = store[On].data /\ UNCHANGED store
    <3>1. UNCHANGED <<cr, pass, store>> /\ todo' = Tail(todo)
      BY <2>1 DEF Advance
    <3>2. CASE Wants(pass) /\ On = "pull" /\ todo = <<readPull, pasteBackup, ownUser, pastePull>>
      <4>1. todo' = <<pasteBackup, ownUser, pastePull>>
        BY <3>1, <3>2
      <4> QED
        BY <1>0, <2>1, <3>1, <3>2, <4>1, Calls9
           DEF BackupHolds, Unreplaced, ReplacesSafely, RestoresSafely, Wants
    <3>3. CASE ~Wants(pass) /\ On = "backup" /\ todo = <<readBackup, pastePull, eraseBackup>>
      <4>1. todo' = <<pastePull, eraseBackup>>
        BY <3>1, <3>3
      <4> QED
        BY <1>0, <2>1, <3>1, <3>3, <4>1, Calls9
           DEF BackupHolds, Unreplaced, ReplacesSafely, RestoresSafely, Wants
    <3> QED
      BY <1>0, <1>4, <3>2, <3>3, Where DEF Read
  <2> QED
    BY <1>0, <1>2, <1>4, <2>1 DEF Read, objects
<1>5. CASE Own
  <2>1. todo = <<ownUser, pastePull>> /\ On = "user"
    BY <1>0, <1>5, Where DEF Own
  <2>2. CASE Advance /\ \E d : Write([store EXCEPT !["user"] = [data |-> d, owner |-> pass.uid]])
    <3>1. UNCHANGED <<cr, pass>> /\ todo' = Tail(todo)
      BY <2>2 DEF Advance
    <3>2. store'["backup"] = store["backup"] /\ store'["pull"] = store["pull"]
      <4>1. PICK d : Write([store EXCEPT !["user"] = [data |-> d, owner |-> pass.uid]])
        BY <2>2
      <4>2. store' = [store EXCEPT !["user"] = [data |-> d, owner |-> pass.uid]]
        BY <1>0, <4>1, WriteQueues
      <4> QED
        BY <1>0, <4>2, ObjectsAssumption DEF StoreType, Stores
    <3>3. todo' = <<pastePull>>
      BY <2>1, <3>1
    <3> QED
      BY <1>0, <2>1, <3>1, <3>2, <3>3, Calls9
         DEF BackupHolds, Unreplaced, ReplacesSafely, RestoresSafely, Wants
  <2> QED
    BY <1>2, <1>5, <2>1, <2>2 DEF Own
<1>6. CASE Paste
  <2> DEFINE o == [data |-> held, owner |-> IF With THEN pass.uid ELSE 0]
  <2>1. /\ On \in {"pull", "backup"} /\ On \in Objects /\ pass \in CRs /\ held \in Data
        /\ With \in BOOLEAN
    BY <1>0, <1>6, Where, ObjectsAssumption DEF Paste, At, LifecycleType, Types, Copying
  <2>2. o \in Kept /\ CreateOrUpdate(On, o) /\ o.data = held /\ o # None
    BY <1>6, <2>1, NoneAssumption DEF Kept, CRs, Paste
  <2>3. With => o.owner = pass.uid
    OBVIOUS
  <2> HIDE DEF o
  <2>4. Succeeds /\ held' = held /\ store' = [store EXCEPT ![On] = o]
    BY <1>0, <2>1, <2>2, PutsObject
  <2>5. UNCHANGED <<cr, pass>> /\ todo' = Tail(todo)
    BY <2>4 DEF Succeeds
  <2>6. store \in [Objects -> Kept \cup {None}]
    BY <1>0 DEF StoreType, Stores
  <2>7. CASE Wants(pass) /\ On = "backup" /\ With /\ todo = <<pasteBackup, ownUser, pastePull>>
    <3>1. todo' = <<ownUser, pastePull>>
      BY <2>5, <2>7
    <3>2. store'["backup"] = o /\ store'["pull"] = store["pull"]
      BY <2>4, <2>6, <2>7, ObjectsAssumption
    <3>3. cr # None /\ cr.uid = o.owner /\ cr.finalizer
      BY <1>0, <2>1, <2>3, <2>7, NoneAssumption DEF Wants, Held
    <3> QED
      BY <1>0, <2>2, <2>5, <2>7, <3>1, <3>2, <3>3, Calls9
         DEF BackupHolds, Unreplaced, ReplacesSafely, RestoresSafely, Wants
  <2>8. CASE Wants(pass) /\ On = "pull" /\ todo = <<pastePull>>
    <3>1. todo' = <<>>
      BY <2>5, <2>8
    <3>2. store'["backup"] = store["backup"]
      BY <2>4, <2>6, <2>8, ObjectsAssumption
    <3> QED
      BY <1>0, <2>5, <2>8, <3>1, <3>2, Calls9
         DEF BackupHolds, Unreplaced, ReplacesSafely, RestoresSafely, Wants
  <2>9. CASE ~Wants(pass) /\ On = "pull" /\ todo = <<pastePull, eraseBackup>>
    <3>1. todo' = <<eraseBackup>>
      BY <2>5, <2>9
    <3>2. store'["backup"] = store["backup"] /\ store'["pull"] = o
      BY <2>4, <2>6, <2>9, ObjectsAssumption
    <3> QED
      BY <1>0, <2>2, <2>5, <2>9, <3>1, <3>2, Calls9
         DEF BackupHolds, Unreplaced, ReplacesSafely, RestoresSafely, Wants
  <2> QED
    BY <1>0, <1>6, <2>7, <2>8, <2>9, Where DEF Paste
<1>7. CASE Erase
  <2>1. todo = <<eraseBackup>> /\ On = "backup" /\ ~Wants(pass)
    BY <1>0, <1>7, Where DEF Erase
  <2>2. CASE Advance /\ store' = [store EXCEPT !["backup"] = None]
    <3>1. UNCHANGED <<cr, pass>> /\ todo' = Tail(todo)
      BY <2>2 DEF Advance
    <3>2. store'["backup"] = None /\ store'["pull"] = store["pull"]
      BY <1>0, <2>2, ObjectsAssumption DEF StoreType, Stores
    <3>3. todo' = <<>>
      BY <2>1, <3>1
    <3> QED
      BY <1>0, <2>1, <3>1, <3>2, <3>3, Calls9
         DEF BackupHolds, Unreplaced, ReplacesSafely, RestoresSafely, Wants
  <2>3. With = TRUE
    BY <2>1, Calls9 DEF With
  <2> QED
    BY <1>0, <1>2, <1>7, <2>1, <2>2, <2>3, WriteQueues DEF Erase
<1>8. CASE EndPass
  <2>1. pass # None /\ pass' = None /\ todo = <<>> /\ UNCHANGED <<store, todo>>
    BY <1>8 DEF EndPass, Complete, Report, Finish, End, objects
  <2>2. \/ cr' = cr
        \/ cr # None /\ cr' = [cr EXCEPT !.reconciled = TRUE] /\ cr \in CRs
        \/ pass.deleting
    BY <1>0, <1>8, NoneAssumption DEF EndPass, Complete, Report, End, LifecycleType
  <2>3. CASE ~pass.deleting \/ cr' = cr
    <3>1. cr # None => cr' # None /\ cr'.uid = cr.uid /\ cr'.finalizer = cr.finalizer
      BY <2>2, <2>3, NoneAssumption DEF CRs
    <3> QED
      BY <1>0, <2>1, <3>1 DEF BackupHolds, Unreplaced, ReplacesSafely, RestoresSafely
  <2>4. CASE pass.deleting
    <3>1. store["backup"] = None
      BY <1>0, <2>1, <2>4 DEF RestoresSafely, Wants
    <3> QED
      BY <1>0, <2>1, <3>1 DEF BackupHolds, Unreplaced, ReplacesSafely, RestoresSafely
  <2> QED
    BY <2>2, <2>3, <2>4
<1>9. ~Put /\ ~Patch
  BY <1>0, Where DEF Put, Patch
<1> QED
  BY <1>1, <1>3, <1>4, <1>5, <1>6, <1>7, <1>8, <1>9 DEF Calls

\* A step that makes no call: what is stored is safe, whoever takes it.
LEMMA SafeStep == Types /\ Safe /\ [Next]_vars => Safe'
<1> SUFFICES ASSUME Types, Safe, [Next]_vars, lag = 0
             PROVE  BackupHolds' /\ Unreplaced' /\ ReplacesSafely' /\ RestoresSafely'
  BY SameLag DEF Safe
<1>0. /\ BackupHolds /\ Unreplaced /\ ReplacesSafely /\ RestoresSafely
      /\ Program /\ LifecycleType /\ store \in [Objects -> Kept \cup {None}]
  BY DEF Types, Safe, LifecycleInv, StoreType, Stores
<1>1. CASE original' = original /\ (Backup \/ Cleanup \/ Erase \/ Calls)
  BY <1>1, CallSafe
<1>2. CASE original' = original /\ Start
  <2>1. UNCHANGED store
    BY <1>2 DEF Start, StartPass, objects
  <2>2. cr' = cr \/ (cr # None /\ cr' = [cr EXCEPT !.finalizer = TRUE] /\ cr \in CRs)
    BY <1>0, <1>2 DEF Start, StartPass, Begin, Adopt, LifecycleType
  <2>3. cr # None => cr' # None /\ cr'.uid = cr.uid /\ (cr.finalizer => cr'.finalizer)
    BY <2>2, NoneAssumption DEF CRs
  <2>4. BackupHolds' /\ Unreplaced'
    BY <1>0, <1>2, <2>1, <2>3 DEF BackupHolds, Unreplaced
  <2>5. \/ pass' = None /\ todo' = <<>>
        \/ todo' = <<validateUser, backup, ownUser, pastePull>>
        \/ todo' = <<cleanup>>
    BY <1>2 DEF Start, Plan, validateUser, backup, ownUser, pastePull, cleanup
  <2>6. CASE pass' = None /\ todo' = <<>>
    BY <2>4, <2>6 DEF ReplacesSafely, RestoresSafely
  <2>7. CASE todo' = <<validateUser, backup, ownUser, pastePull>>
    BY <2>4, <2>7, Calls9 DEF ReplacesSafely, RestoresSafely
  <2>8. CASE todo' = <<cleanup>>
    BY <2>4, <2>8, Calls9 DEF ReplacesSafely, RestoresSafely
  <2> QED
    BY <2>5, <2>6, <2>7, <2>8
<1>3. CASE original' = original /\ (Users \/ DeliverCR)
  <2>1. UNCHANGED <<pass, store, todo, held>>
    BY <1>3 DEF Users, DeliverCR, Create, Edit, Delete, Deliver, objects, program
  <2>2. ReplacesSafely' /\ RestoresSafely' /\ Unreplaced'
    BY <1>0, <1>3, <2>1 DEF ReplacesSafely, RestoresSafely, Unreplaced, Wants
  <2>3. CASE cr' = cr \/ Create
    BY <1>0, <1>3, <2>1, <2>2, <2>3 DEF BackupHolds, Create
  <2>4. CASE Edit
    <3>1. cr # None /\ cr'.uid = cr.uid /\ cr'.finalizer = cr.finalizer /\ cr' # None
      BY <1>0, <2>4, EditKeeps, NoneAssumption DEF Edit
    <3> QED
      BY <1>0, <1>3, <2>1, <2>2, <3>1 DEF BackupHolds
  <2>5. CASE Delete
    <3>1. cr # None /\ cr \in CRs
          /\ (cr.finalizer => cr' # None /\ cr'.uid = cr.uid /\ cr'.finalizer)
      BY <1>0, <2>5, NoneAssumption DEF Delete, LifecycleType, CRs
    <3> QED
      BY <1>0, <1>3, <2>1, <2>2, <3>1 DEF BackupHolds
  <2> QED
    BY <1>3, <2>3, <2>4, <2>5 DEF Users, DeliverCR, Deliver
<1>4. CASE original' = original /\ DeliverObjects
  <2>1. UNCHANGED <<cr, pass, store, todo, held>>
    BY <1>4 DEF DeliverObjects, program
  <2> QED
    BY <1>0, <1>4, <2>1
       DEF BackupHolds, Unreplaced, ReplacesSafely, RestoresSafely, Wants
<1>5. CASE original' = original /\ (CallFails \/ (Crash /\ UNCHANGED watched))
  <2>1. pass' = None /\ todo' = <<>> /\ UNCHANGED store
    BY <1>5 DEF CallFails, Abort, Report, End, Crash, Restart, objects
  <2>2. cr' = cr \/ (cr # None /\ cr' = [cr EXCEPT !.reconciled = FALSE] /\ cr \in CRs)
    BY <1>0, <1>5, NoneAssumption DEF CallFails, Abort, Report, End, Crash, Restart, LifecycleType
  <2>3. cr # None => cr' # None /\ cr'.uid = cr.uid /\ cr'.finalizer = cr.finalizer
    BY <2>2, NoneAssumption DEF CRs
  <2> QED
    BY <1>0, <1>5, <2>1, <2>3 DEF BackupHolds, Unreplaced, ReplacesSafely, RestoresSafely
<1>6. ASSUME NEW o, Write([store EXCEPT !["user"] = o]), UNCHANGED <<cr, pass, todo, held, original>>
      PROVE  BackupHolds' /\ Unreplaced' /\ ReplacesSafely' /\ RestoresSafely'
  <2>1. store' = [store EXCEPT !["user"] = o]
    BY <1>0, <1>6, WriteQueues
  <2>2. store'["backup"] = store["backup"] /\ store'["pull"] = store["pull"]
    BY <1>0, <2>1, ObjectsAssumption
  <2> QED
    BY <1>0, <1>6, <2>2
       DEF BackupHolds, Unreplaced, ReplacesSafely, RestoresSafely, Wants
<1>7. CASE original' = original /\ (ChangeUserSecret \/ Collect("user"))
  BY <1>6, <1>7 DEF ChangeUserSecret, Change, Collect, program
<1>8. CASE original' = original /\ Collect("backup")
  \* The owner of the backup is the ClusterRelocation there is.
  BY <1>0, <1>8 DEF Collect, BackupHolds
<1>9. CASE ChangePullSecret
  <2>1. PICK d \in Typed : Change("pull", Unowned(d)) /\ original' = d
    BY <1>9 DEF ChangePullSecret
  <2>2. UNCHANGED <<cr, pass, todo, held>> /\ store' = [store EXCEPT !["pull"] = Unowned(d)]
    BY <1>0, <2>1, WriteQueues DEF Change, program
  <2>3. store'["pull"].data = original' /\ store'["backup"] = None
    BY <1>0, <1>9, <2>1, <2>2, ObjectsAssumption DEF ChangePullSecret, Unowned
  <2>4. pass = None /\ todo = <<>>
    BY <1>0, <1>9 DEF ChangePullSecret, Program
  <2> QED
    BY <2>2, <2>3, <2>4 DEF BackupHolds, Unreplaced, ReplacesSafely, RestoresSafely
<1>10. CASE UNCHANGED vars
  <2>1. UNCHANGED <<cr, pass, store, todo, held, original>>
    BY <1>10 DEF vars, lifecycle, objects, program
  <2> QED
    BY <1>0, <2>1 DEF BackupHolds, Unreplaced, ReplacesSafely, RestoresSafely, Wants
<1> QED
  BY <1>1, <1>2, <1>3, <1>4, <1>5, <1>7, <1>8, <1>9, <1>10 DEF Next, Worker

\* The invariant, of all reachable states.
LEMMA AlwaysSafe == Spec => [](Types /\ Safe)
BY TypesInit, TypesStep, SafeInit, SafeStep, PTL DEF Spec

\* The pull secret the administrator set last is the cluster's or in the backup, after
\* any sequence of passes, failures, restarts, edits and deletions.
THEOREM OriginalIsKept == Spec => []OriginalKept
<1>1. Types /\ Safe => OriginalKept
  BY DEF Safe, BackupHolds, Unreplaced, OriginalKept
<1> QED
  BY <1>1, AlwaysSafe, PTL

\* When the ClusterRelocation is gone, the cluster has its own pull secret.
THEOREM RestoredAfterwards == Spec => []RestoredWhenGone
<1>1. Types /\ Safe => RestoredWhenGone
  BY DEF Safe, BackupHolds, Unreplaced, RestoredWhenGone
<1> QED
  BY <1>1, AlwaysSafe, PTL

\* The controller around the stage is the one Lifecycle describes.
THEOREM ImplementsLifecycle == Spec => LifecycleSpec
<1>1. Init => LifecycleInit
  BY DEF Init, StageInit
<1>2. Types /\ [Next]_vars => [LifecycleNext]_lifecycle
  BY NextLifecycle DEF Types, LifecycleInv
<1> QED
  BY <1>1, <1>2, AlwaysSafe, PTL DEF Spec, LifecycleSpec
==============================================================================
