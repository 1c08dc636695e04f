------------------------------ MODULE ACMProofs ------------------------------
(***************************************************************************)
(* Theorems about ACM, for all hubs, specs, credentials, lags and bounds.  *)
(***************************************************************************)
EXTENDS ACM, StageProofs

-----------------------------------------------------------------------------
(* Where a pass can be in its program.                                     *)

Wants(c) == ~c.deleting /\ c.spec # None

\* The calls of the plan, and the deletion that comes in.
Steps ==
    {Call("check", "klusterlet", None), Call("wait", "klusterlet", None),
     Call("validate", "acm-secret", None), Call("read", "acm-secret", None),
     Call("forget", "acm-secret", None)}
    \cup {Call(do, "acm-secret", h) : do \in {"manage", "import", "addon"}, h \in Hubs}
    \cup {Call("create", n, h) : n \in Manifests, h \in Hubs}

Program == todo \in Seq(Steps) /\ (todo # <<>> => pass # None /\ Wants(pass))

Registration ==
    /\ import \subseteq managed /\ managed \subseteq Hubs
    /\ joined \in Hubs \cup {None} /\ available \in BOOLEAN
    /\ joined = None => ~available

Types == LifecycleInv /\ StoreType /\ Program /\ Registration

\* A program that waits for the Klusterlet last, and deletes nothing.
Waits(p) ==
    /\ p # <<>> /\ p[Len(p)].do = "wait"
    /\ \A i \in 1..Len(p) : p[i].do # "forget"

\* A pass gets to its end, and to the deletion of the credentials, only with an
\* agent that has registered.
PassWaits == pass # None /\ Wants(pass) /\ joined = None => Waits(todo)

\* Success is reported at the end of a pass, and an agent stays with its hub.
ReportedJoined == cr # None /\ cr.reconciled /\ cr.spec # None => joined # None

\* What is created is for a hub that has been asked for.
Within(p, hubs) == \A i \in 1..Len(p) : p[i].do = "create" => p[i].with \in hubs
Named(p) == Within(p, asked)

\* Nobody knows of a hub that has not been asked for: the copies of the spec, the calls to
\* make, the kubeconfig, and so the agent.
Asked ==
    /\ HubsOf(cr) \cup HubsOf(known) \cup HubsOf(pass) \subseteq asked /\ asked \subseteq Hubs
    /\ Named(todo)
    /\ LET k == store["bootstrap-hub-kubeconfig"] IN k # None => k.data \in asked
    /\ joined # None => joined \in asked

Registered == PassWaits /\ ReportedJoined

-----------------------------------------------------------------------------
(* Programs.                                                               *)

\* The calls there are.
LEMMA StepFields ==
    ASSUME NEW c \in Steps
    PROVE  /\ c.do \in {"check", "wait", "validate", "read", "forget", "manage", "import",
                        "addon", "create"}
           /\ c.on \in {"klusterlet", "acm-secret"} \cup Manifests
           /\ c.do \in {"read", "validate"} => c.on = "acm-secret"
           /\ c.do = "create" => c.on \in Manifests
           /\ c.do \in {"manage", "create"} => c.with \in Hubs
BY DEF Steps, Call

\* What a pass is about to do, and what is left after it.
LEMMA Where ==
    ASSUME Program, todo # <<>>
    PROVE  /\ Head(todo) \in Steps /\ Tail(todo) \in Seq(Steps)
           /\ pass # None /\ Wants(pass)
           /\ ~At("put") /\ ~At("patch") /\ ~At("own") /\ ~At("paste") /\ ~At("erase")
           /\ On \in Objects
           /\ At("read") \/ At("validate") => On = "acm-secret"
           /\ At("create") => On \in Manifests
           /\ At("manage") \/ At("create") => With \in Hubs
<1>1. Head(todo) \in Steps /\ Tail(todo) \in Seq(Steps)
  BY HeadTailProperties DEF Program
<1>2. Manifests \cup {"klusterlet", "acm-secret"} \subseteq Objects
  BY ObjectsAssumption DEF Manifests
<1>3. /\ On \in {"klusterlet", "acm-secret"} \cup Manifests
      /\ At("read") \/ At("validate") => On = "acm-secret"
      /\ At("create") => On \in Manifests
      /\ At("manage") \/ At("create") => With \in Hubs
      /\ ~At("put") /\ ~At("patch") /\ ~At("own") /\ ~At("paste") /\ ~At("erase")
  BY <1>1, StepFields DEF At, On, With
<1>4. On \in Objects
  BY <1>2, <1>3
<1>5. pass # None /\ Wants(pass)
  BY DEF Program
<1> QED
  BY <1>1, <1>3, <1>4, <1>5

\* A program that is to wait still has to after another call.
LEMMA WaitsOn ==
    ASSUME NEW p \in Seq(Steps), Waits(p), Head(p).do # "wait"
    PROVE  Waits(Tail(p))
<1> DEFINE t == Tail(p)
<1>1. p # <<>> /\ Len(p) \in Nat /\ Len(p) >= 1 /\ Head(p) = p[1]
  BY EmptySeq, HeadTailProperties DEF Waits
<1>2. Len(p) # 1
  BY <1>1 DEF Waits
<1>3. /\ t \in Seq(Steps) /\ Len(t) = Len(p) - 1
      /\ \A i \in 1..Len(t) : t[i] = p[i + 1]
  BY <1>1, HeadTailProperties
<1> HIDE DEF t
<1>4. Len(t) # 0 /\ \A i \in 1..Len(t) : i + 1 \in 1..Len(p)
  BY <1>1, <1>2, <1>3
<1>5. t # <<>>
  BY <1>4
<1>6. t[Len(t)] = p[Len(p)]
  BY <1>1, <1>2, <1>3
<1>7. Waits(t)
  BY <1>3, <1>4, <1>5, <1>6 DEF Waits
<1> QED
  BY <1>7 DEF t

\* Calls put before a program that waits.
LEMMA WaitsAfter ==
    ASSUME NEW p \in Seq(Steps), NEW q \in Seq(Steps),
           \A i \in 1..Len(p) : p[i].do # "forget", Waits(q)
    PROVE  p \o q \in Seq(Steps) /\ Waits(p \o q)
<1>1. /\ p \o q \in Seq(Steps) /\ Len(p \o q) = Len(p) + Len(q)
      /\ \A i \in 1..(Len(p) + Len(q)) :
            (p \o q)[i] = IF i <= Len(p) THEN p[i] ELSE q[i - Len(p)]
  BY ConcatProperties
<1>2. Len(p) \in Nat /\ Len(q) \in Nat /\ Len(q) >= 1
  BY EmptySeq DEF Waits
<1>3. p \o q # <<>>
  BY <1>1, <1>2, EmptySeq
<1>4. (p \o q)[Len(p \o q)] = q[Len(q)]
  BY <1>1, <1>2
<1>5. ASSUME NEW i \in 1..Len(p \o q) PROVE (p \o q)[i].do # "forget"
  <2>1. CASE i <= Len(p)
    BY <1>1, <1>2, <2>1
  <2>2. CASE ~(i <= Len(p))
    <3>1. i - Len(p) \in 1..Len(q)
      BY <1>1, <1>2, <2>2
    <3> QED
      BY <1>1, <1>2, <2>2, <3>1 DEF Waits
  <2> QED
    BY <2>1, <2>2
<1> QED
  BY <1>1, <1>3, <1>4, <1>5 DEF Waits

\* The plan waits for the Klusterlet in the end.
LEMMA PlanWaits ==
    ASSUME NEW c \in CRs, Wants(c)
    PROVE  Plan(c) \in Seq(Steps) /\ Waits(Plan(c))
<1> DEFINE h == c.spec.hub
           first == <<Call("check", "klusterlet", None),
                      Call("validate", "acm-secret", None), Call("read", "acm-secret", None),
                      Call("manage", "acm-secret", h), Call("import", "acm-secret", h)>>
           addon == IF c.spec.addon THEN <<Call("addon", "acm-secret", h)>> ELSE <<>>
           last == <<Call("create", "crds", h), Call("create", "bootstrap-hub-kubeconfig", h),
                     Call("create", "klusterlet", h), Call("wait", "klusterlet", None)>>
<1>1. h \in Hubs
  BY SpecsAssumption DEF CRs, Wants, SpecRecords
<1>2. Plan(c) = (first \o addon) \o last
  BY DEF Plan, Wants
<1>3. first \in Seq(Steps) /\ \A i \in 1..Len(first) : first[i].do # "forget"
  <2>1. /\ Call("check", "klusterlet", None) \in Steps
        /\ Call("validate", "acm-secret", None) \in Steps
        /\ Call("read", "acm-secret", None) \in Steps
        /\ Call("manage", "acm-secret", h) \in Steps
        /\ Call("import", "acm-secret", h) \in Steps
    BY <1>1 DEF Steps
  <2>2. \A i \in 1..5 : first[i].do # "forget"
    BY DEF Call
  <2> QED
    BY <2>1, <2>2
<1>4. addon \in Seq(Steps) /\ \A i \in 1..Len(addon) : addon[i].do # "forget"
  <2>1. Call("addon", "acm-secret", h) \in Steps
    BY <1>1 DEF Steps
  <2>2. Call("addon", "acm-secret", h).do # "forget"
    BY DEF Call
  <2> QED
    BY <2>1, <2>2
<1>5. last \in Seq(Steps) /\ Waits(last)
  <2>1. /\ Call("create", "crds", h) \in Steps
        /\ Call("create", "bootstrap-hub-kubeconfig", h) \in Steps
        /\ Call("create", "klusterlet", h) \in Steps
        /\ Call("wait", "klusterlet", None) \in Steps
    BY <1>1 DEF Steps, Manifests
  <2>2. last[4].do = "wait" /\ \A i \in 1..4 : last[i].do # "forget"
    BY DEF Call
  <2> QED
    BY <2>1, <2>2 DEF Waits
<1> HIDE DEF first, addon, last
<1>6. addon \o last \in Seq(Steps) /\ Waits(addon \o last)
  BY <1>4, <1>5, WaitsAfter
<1>7. first \o (addon \o last) \in Seq(Steps) /\ Waits(first \o (addon \o last))
  BY <1>3, <1>6, WaitsAfter
<1>8. (first \o addon) \o last = first \o (addon \o last)
  BY <1>3, <1>4, <1>5, ConcatAssociative
<1> QED
  BY <1>2, <1>7, <1>8

\* What two programs create, together.
LEMMA NamedBoth ==
    ASSUME NEW S, NEW p \in Seq(S), NEW q \in Seq(S), NEW hubs,
           Within(p, hubs), Within(q, hubs)
    PROVE  Within(p \o q, hubs)
<1>1. /\ Len(p \o q) = Len(p) + Len(q) /\ Len(p) \in Nat /\ Len(q) \in Nat
      /\ \A i \in 1..(Len(p) + Len(q)) :
            (p \o q)[i] = IF i <= Len(p) THEN p[i] ELSE q[i - Len(p)]
  BY ConcatProperties, LenProperties
<1> SUFFICES ASSUME NEW i \in 1..(Len(p) + Len(q)), (p \o q)[i].do = "create"
             PROVE  (p \o q)[i].with \in hubs
  BY <1>1 DEF Within
<1>2. CASE i <= Len(p)
  <2>1. i \in 1..Len(p) /\ (p \o q)[i] = p[i]
    BY <1>1, <1>2
  <2> QED
    BY <2>1 DEF Within
<1>3. CASE ~(i <= Len(p))
  <2>1. i - Len(p) \in 1..Len(q) /\ (p \o q)[i] = q[i - Len(p)]
    BY <1>1, <1>3
  <2> QED
    BY <2>1 DEF Within
<1> QED
  BY <1>2, <1>3

\* What is left after a call.
LEMMA NamedRest ==
    ASSUME NEW S, NEW p \in Seq(S), p # <<>>, NEW hubs, Within(p, hubs)
    PROVE  Within(Tail(p), hubs) /\ (Head(p).do = "create" => Head(p).with \in hubs)
<1>1. /\ Head(p) = p[1] /\ Len(Tail(p)) = Len(p) - 1 /\ Len(p) \in Nat /\ Len(p) # 0
      /\ \A i \in 1..Len(Tail(p)) : Tail(p)[i] = p[i + 1]
  BY HeadTailProperties, LenProperties, EmptySeq
<1>2. 1 \in 1..Len(p) /\ \A i \in 1..Len(Tail(p)) : i + 1 \in 1..Len(p)
  BY <1>1
<1> QED
  BY <1>1, <1>2 DEF Within

\* A plan creates what belongs to the hub of its spec.
LEMMA PlanNamed ==
    ASSUME NEW c \in CRs
    PROVE  Within(Plan(c), HubsOf(c))
<1>1. CASE c.deleting \/ c.spec = None
  BY <1>1 DEF Plan, Within
<1>2. CASE ~c.deleting /\ c.spec # None
  <2> DEFINE h == c.spec.hub
             first == <<Call("check", "klusterlet", None),
                        Call("validate", "acm-secret", None), Call("read", "acm-secret", None),
                        Call("manage", "acm-secret", h), Call("import", "acm-secret", h)>>
             addon == IF c.spec.addon THEN <<Call("addon", "acm-secret", h)>> ELSE <<>>
             last == <<Call("create", "crds", h), Call("create", "bootstrap-hub-kubeconfig", h),
                       Call("create", "klusterlet", h), Call("wait", "klusterlet", None)>>
  <2>1. Plan(c) = (first \o addon) \o last
    BY <1>2 DEF Plan
  <2>2. first \in Seq(Steps) /\ addon \in Seq(Steps) /\ last \in Seq(Steps)
    <3>1. h \in Hubs
      BY <1>2, SpecsAssumption DEF CRs, SpecRecords
    <3> HIDE DEF h
    <3>2. /\ Call("check", "klusterlet", None) \in Steps
          /\ Call("validate", "acm-secret", None) \in Steps
          /\ Call("read", "acm-secret", None) \in Steps
          /\ Call("manage", "acm-secret", h) \in Steps
          /\ Call("import", "acm-secret", h) \in Steps
          /\ Call("addon", "acm-secret", h) \in Steps
          /\ Call("create", "crds", h) \in Steps
          /\ Call("create", "bootstrap-hub-kubeconfig", h) \in Steps
          /\ Call("create", "klusterlet", h) \in Steps
          /\ Call("wait", "klusterlet", None) \in Steps
      BY <3>1 DEF Steps, Manifests
    <3> QED
      BY <3>2
  <2>3. h \in HubsOf(c)
    BY <1>2, NoObjectAssumption DEF HubsOf
  <2>4. \A i \in 1..5 : first[i].do # "create"
    BY DEF Call
  <2>5. \A i \in 1..Len(addon) : addon[i].do # "create"
    BY DEF Call
  <2>6. \A i \in 1..4 : last[i].do = "create" => last[i].with = h
    BY DEF Call
  <2>7. /\ Within(first, HubsOf(c)) /\ Within(addon, HubsOf(c)) /\ Within(last, HubsOf(c))
    BY <2>3, <2>4, <2>5, <2>6 DEF Within
  <2> HIDE DEF first, addon, last, h
  <2>8. Within(first \o addon, HubsOf(c))
    BY <2>2, <2>7, NamedBoth
  <2> QED
    BY <2>1, <2>2, <2>7, <2>8, NamedBoth, ConcatProperties
<1> QED
  BY <1>1, <1>2

-----------------------------------------------------------------------------
(* Steps.                                                                  *)

\* Every step is one of Lifecycle, or leaves it alone.
LEMMA NextLifecycle == LifecycleType /\ [Next]_vars => [LifecycleNext]_lifecycle
<1> SUFFICES ASSUME LifecycleType, [Next]_vars PROVE [LifecycleNext]_lifecycle
  OBVIOUS
<1> USE CallEnds, WriteQueues, QuietStep, StageStep
<1>1. CASE Start \/ Calls
  BY <1>1 DEF Start
<1>2. CASE CheckFirst \/ WaitForKlusterlet \/ ForgetFails
  BY <1>2 DEF CheckFirst, WaitForKlusterlet, ForgetFails, checkKlusterlet, lifecycle
<1>3. CASE Forget
  BY <1>3 DEF Forget
<1>4. CASE GetImportSecret \/ ImportTimeout \/ CreateAddonConfig \/ KlusterletTimeout
           \/ CreateManagedCluster
  BY <1>4 DEF GetImportSecret, ImportTimeout, CreateAddonConfig, KlusterletTimeout,
              CreateManagedCluster, lifecycle
<1>5. CASE CreateManifest
  BY <1>5 DEF CreateManifest, Advance, lifecycle
<1>6. CASE UserActs \/ CallFails \/ Crash \/ DeliverCR \/ DeliverObjects
  BY <1>6 DEF UserActs
<1>7. CASE ChangeSecret
  BY <1>7 DEF ChangeSecret
<1>8. CASE MakeImportSecret \/ Join \/ Lose \/ Recover \/ UNCHANGED vars
  BY <1>8 DEF MakeImportSecret, Join, Lose, Recover, vars, lifecycle
<1> QED
  BY <1>1, <1>2, <1>3, <1>4, <1>5, <1>6, <1>7, <1>8 DEF Next, Worker, Surroundings

\* How a call, or what ends a pass, changes the program.
Goes ==
    \/ Errs /\ ClaimKept
    \/ /\ todo # <<>> /\ UNCHANGED <<cr, pass>>
       /\ \/ todo' = Tail(todo) /\ ~At("wait") /\ ~At("forget")
          \/ available /\ \E rest \in {todo, Tail(todo)} :
                             todo' = <<Call("forget", "acm-secret", None)>> \o rest
          \/ At("forget") /\ todo' \in {<<>>, Tail(todo)}

\* The calls of this stage.
LEMMA CallGoes ==
    ASSUME LifecycleType, StoreType, Program,
           \/ CheckFirst \/ Forget \/ ForgetFails \/ GetImportSecret \/ ImportTimeout
           \/ CreateAddonConfig \/ CreateManifest \/ WaitForKlusterlet \/ KlusterletTimeout
           \/ CreateManagedCluster \/ Validate \/ Read
    PROVE  StoreType' /\ Goes
<1> USE Where
<1>0. todo # <<>>
  BY DEF At, CheckFirst, Forget, ForgetFails, GetImportSecret, ImportTimeout, CreateAddonConfig,
         CreateManifest, WaitForKlusterlet, KlusterletTimeout, CreateManagedCluster, Validate, Read
<1>1. ASSUME Fails PROVE StoreType' /\ Goes
  <2>1. Errs /\ StoreType'
    BY <1>1, FailsErrs DEF Errs, objects, StoreType
  <2>2. ClaimKept
    BY <1>1, NoClaim DEF Fails
  <2> QED
    BY <2>1, <2>2 DEF Goes
<1>2. ASSUME Skip, ~At("wait"), ~At("forget") PROVE StoreType' /\ Goes
  BY <1>0, <1>2 DEF Skip, Advance, objects, StoreType, Goes
<1>3. ASSUME NEW rest \in {todo, Tail(todo)}, checkKlusterlet(rest) PROVE StoreType' /\ Goes
  BY <1>0, <1>3 DEF checkKlusterlet, lifecycle, objects, StoreType, Goes
<1>4. CASE CheckFirst
  BY <1>0, <1>2, <1>3, <1>4 DEF CheckFirst, At
<1>5. CASE WaitForKlusterlet
  BY <1>3, <1>5 DEF WaitForKlusterlet, Program
<1>6. CASE GetImportSecret \/ ImportTimeout \/ CreateAddonConfig \/ KlusterletTimeout
           \/ CreateManagedCluster
  BY <1>1, <1>2, <1>6 DEF GetImportSecret, ImportTimeout, CreateAddonConfig, KlusterletTimeout,
                          CreateManagedCluster, At
<1>7. ASSUME NEW n \in Objects, NEW o \in Kept \cup {None}, Write([store EXCEPT ![n] = o])
      PROVE  StoreType'
  <2>1. [store EXCEPT ![n] = o] \in Stores
    BY DEF StoreType, Stores
  <2> QED
    BY <1>7, <2>1, WriteTyped
<1>8. CASE Forget
  <2>1. "acm-secret" \in Objects
    BY ObjectsAssumption
  <2> QED
    BY <1>0, <1>7, <1>8, <2>1 DEF Forget, Goes
<1>9. CASE ForgetFails
  BY <1>0, <1>9 DEF ForgetFails, lifecycle, objects, StoreType, Goes
<1>10. CASE CreateManifest
  <2>1. On \in Objects /\ With \in Data /\ ~At("wait") /\ ~At("forget")
    BY <1>0, <1>10, DataAssumption DEF CreateManifest, At
  <2>2. [data |-> With, owner |-> 0] \in Kept
    BY <2>1 DEF Kept
  <2> QED
    BY <1>0, <1>2, <1>7, <1>10, <2>1, <2>2 DEF CreateManifest, Advance, Goes
<1>11. CASE Validate \/ Read
  <2>1. ~At("wait") /\ ~At("forget")
    BY <1>11 DEF Validate, Read, At
  <2>2. CASE Advance /\ UNCHANGED <<queued, objects>>
    BY <1>0, <2>1, <2>2 DEF Advance, objects, StoreType, Goes
  <2> QED
    BY <1>1, <1>2, <1>11, <2>1, <2>2 DEF Validate, Read
<1> QED
  BY <1>4, <1>5, <1>6, <1>8, <1>9, <1>10, <1>11

\* What a call leaves is a program, and one that waits if nothing has registered.
LEMMA GoesOn ==
    ASSUME Types, Registered, Goes, UNCHANGED joined
    PROVE  Program' /\ PassWaits' /\ ReportedJoined'
<1> DEFINE forget == Call("forget", "acm-secret", None)
<1>1. CASE Errs /\ ClaimKept
  BY <1>1 DEF Errs, Registered, ClaimKept, Program, PassWaits, ReportedJoined
<1>2. CASE todo # <<>> /\ UNCHANGED <<cr, pass>>
  <2>1. pass # None /\ Wants(pass) /\ Tail(todo) \in Seq(Steps) /\ Head(todo) = todo[1]
        /\ Len(todo) \in Nat /\ Len(todo) >= 1
    BY <1>2, Where, HeadTailProperties DEF Types, Program
  <2>2. ReportedJoined' /\ Wants(pass)' = Wants(pass)
    BY <1>2 DEF Registered, ReportedJoined, Wants
  <2>3. CASE todo' = Tail(todo) /\ ~At("wait") /\ ~At("forget")
    <3>1. joined = None => Waits(Tail(todo))
      BY <1>2, <2>1, <2>3, WaitsOn DEF Types, Program, Registered, PassWaits, At
    <3> QED
      BY <1>2, <2>1, <2>2, <2>3, <3>1 DEF Program, PassWaits, Wants
  <2>4. ASSUME NEW rest \in {todo, Tail(todo)}, available, todo' = <<forget>> \o rest
        PROVE  Program' /\ PassWaits'
    <3>1. <<forget>> \in Seq(Steps)
      BY DEF Steps
    <3>2. todo' \in Seq(Steps)
      <4>1. rest \in Seq(Steps)
        BY <2>1 DEF Types, Program
      <4> QED
        BY <2>4, <3>1, <4>1, ConcatProperties
    <3> QED
      BY <1>2, <2>1, <2>2, <2>4, <3>2 DEF Program, PassWaits, Types, Registration, Wants
  <2>5. CASE At("forget") /\ todo' \in {<<>>, Tail(todo)}
    <3>1. joined # None
      BY <2>1, <2>5 DEF At, Registered, PassWaits, Waits
    <3>2. PassWaits'
      BY <3>1 DEF PassWaits
    <3>3. <<>> \in Seq(Steps)
      OBVIOUS
    <3>4. todo' \in Seq(Steps)
      BY <2>1, <2>5, <3>3
    <3> QED
      BY <1>2, <2>1, <2>2, <3>2, <3>4 DEF Program
  <2> QED
    BY <1>1, <1>2, <2>2, <2>3, <2>4, <2>5 DEF Goes, Errs
<1> QED
  BY <1>1, <1>2 DEF Goes

\* The invariant, of the initial states.
LEMMA InitTyped == Init => Types /\ Registered
<1> SUFFICES ASSUME Init PROVE Types /\ Registered
  OBVIOUS
<1>1. PICK d \in Typed :
         StageInit([n \in Objects |-> IF n = "acm-secret" THEN [data |-> d, owner |-> 0] ELSE None],
                   Objects)
  BY DEF Init
<1>2. [data |-> d, owner |-> 0] \in Kept
  BY DataAssumption DEF Kept, Rights
<1>3. store \in Stores
  BY <1>1, <1>2 DEF StageInit, Stores
<1>4. LifecycleInv /\ pass = None /\ cr = None
  BY <1>1, LifecycleInitHolds DEF StageInit, LifecycleInit
<1>5. behind \in Seq(Stores) /\ lag \in Nat /\ Len(behind) <= lag
  BY <1>1, BoundsAssumption DEF StageInit
<1>6. todo = <<>> /\ Program
  BY <1>1 DEF StageInit, Program
<1>7. Registration
  BY DEF Init, Registration
<1> QED
  BY <1>3, <1>4, <1>5, <1>6, <1>7 DEF Types, StoreType, Registered, PassWaits, ReportedJoined

\* Every step keeps it.
LEMMA StepTyped == Types /\ Registered /\ [Next]_vars => (Types /\ Registered)'
<1> SUFFICES ASSUME Types, Registered, [Next]_vars PROVE Types' /\ Registered'
  OBVIOUS
<1>0. LifecycleInv' /\ LifecycleType /\ StoreType /\ Program /\ Registration
  BY NextLifecycle, LifecycleStep DEF Types, LifecycleInv
<1>1. ASSUME \/ CheckFirst \/ Forget \/ ForgetFails \/ GetImportSecret \/ ImportTimeout
             \/ CreateAddonConfig \/ CreateManifest \/ WaitForKlusterlet \/ KlusterletTimeout
             \/ CreateManagedCluster \/ Validate \/ Read,
             Registration', UNCHANGED joined
      PROVE  Types' /\ Registered'
  BY <1>0, <1>1, CallGoes, GoesOn DEF Types, Registered
<1>2. CASE CreateManagedCluster /\ UNCHANGED <<import, joined, available, asked>>
  <2>1. With \in Hubs
    BY <1>0, <1>2, Where DEF CreateManagedCluster, At
  <2>2. Registration'
    BY <1>0, <1>2, <2>1 DEF CreateManagedCluster, Registration
  <2> QED
    BY <1>1, <1>2, <2>2
<1>3. UNCHANGED <<hub, joined, available>> => Registration' /\ UNCHANGED joined
  BY <1>0 DEF hub, Registration
<1>4. CASE /\ \/ CheckFirst \/ Forget \/ ForgetFails \/ GetImportSecret \/ ImportTimeout
              \/ CreateAddonConfig \/ CreateManifest \/ WaitForKlusterlet \/ KlusterletTimeout
              \/ Validate \/ Read
           /\ UNCHANGED <<hub, joined, available, asked>>
  BY <1>1, <1>3, <1>4
<1>5. CASE Start /\ UNCHANGED <<hub, joined, available, asked>>
  <2>1. StoreType'
    BY <1>0, <1>5 DEF Start, StartPass, objects, StoreType
  <2>2. ReportedJoined'
    BY <1>0, <1>3, <1>5, NoClaim DEF Start, Registered, ReportedJoined, ClaimKept
  <2>3. Program' /\ PassWaits'
    <3>1. CASE pass' = None
      BY <1>5, <3>1 DEF Start, Program, PassWaits
    <3>2. CASE pass' # None /\ Wants(pass)'
      <4>1. pass' \in CRs /\ todo' = Plan(pass')
        BY <1>0, <1>5, <3>2 DEF Start, LifecycleInv, LifecycleType
      <4>2. Wants(pass')
        BY <3>2 DEF Wants
      <4> QED
        BY <3>2, <4>1, <4>2, PlanWaits DEF Program, PassWaits
    <3>3. CASE pass' # None /\ ~Wants(pass)'
      BY <1>5, <3>3 DEF Start, Plan, Wants, Program, PassWaits
    <3> QED
      BY <3>1, <3>2, <3>3
  <2> QED
    BY <1>0, <1>3, <1>5, <2>1, <2>2, <2>3 DEF Types, Registered
<1>6. CASE EndPass /\ UNCHANGED <<hub, joined, available, asked>>
  <2>1. StoreType' /\ pass' = None /\ todo' = <<>>
    BY <1>0, <1>6 DEF EndPass, Complete, Report, Finish, End, objects, StoreType
  <2>2. cr' # None /\ cr = pass /\ ~pass.deleting /\ cr'.spec = pass.spec => ReportedJoined'
    BY <1>3, <1>6 DEF EndPass, Registered, PassWaits, ReportedJoined, Wants, Waits
  <2>3. ReportedJoined'
    BY <1>0, <1>3, <1>6, <2>2, Claims DEF EndPass, Registered, ReportedJoined, ClaimKept
  <2> QED
    BY <1>0, <1>3, <1>6, <2>1, <2>3 DEF Types, Registered, Program, PassWaits
<1>7. CASE /\ Users \/ ChangeSecret \/ CallFails \/ Crash \/ DeliverCR \/ DeliverObjects
           /\ UNCHANGED <<hub, joined, available>>
  <2>1. ChangeSecret => \E n \in Objects, o \in Kept \cup {None} : Change(n, o)
    <3>1. \A d \in Hubs \X (Rights \cup {"none"}) : [data |-> d, owner |-> 0] \in Kept
      BY DataAssumption DEF Kept
    <3>2. {None} \cup [data : Hubs \X (Rights \cup {"none"}), owner : {0}] \subseteq Kept \cup {None}
      BY <3>1
    <3> QED
      BY <3>2, ObjectsAssumption DEF ChangeSecret
  <2>2. /\ StoreType'
        /\ UNCHANGED <<pass, todo, held>> \/ (pass' = None /\ todo' = <<>> /\ held' = None)
    BY <1>0, <1>7, <2>1, OthersDo
  <2>3. ReportedJoined'
    <3>1. UNCHANGED cr \/ Users \/ DeliverCR \/ Abort
      BY <1>7 DEF ChangeSecret, Change, CallFails, Crash, Restart, DeliverObjects
    <3> QED
      BY <1>0, <1>3, <1>7, <3>1, NoClaim DEF Registered, ReportedJoined, ClaimKept
  <2>4. Program' /\ PassWaits'
    <3>1. CASE UNCHANGED <<pass, todo, held>>
      BY <1>0, <1>3, <1>7, <3>1 DEF Registered, Program, PassWaits, Wants
    <3>2. CASE pass' = None /\ todo' = <<>>
      BY <3>2 DEF Program, PassWaits
    <3> QED
      BY <2>2, <3>1, <3>2
  <2> QED
    BY <1>0, <1>3, <1>7, <2>2, <2>3, <2>4 DEF Types, Registered
<1>8. CASE MakeImportSecret \/ Join \/ Lose \/ Recover \/ UNCHANGED vars
  <2>1. UNCHANGED <<cr, pass, todo, store, behind, lag>>
    BY <1>8 DEF MakeImportSecret, Join, Lose, Recover, vars, lifecycle, objects, program
  <2>2. joined # None => joined' = joined
    BY <1>8 DEF MakeImportSecret, Join, Lose, Recover, vars, hub
  <2>3. Registration'
    <3>1. CASE MakeImportSecret
      BY <1>0, <3>1 DEF MakeImportSecret, Registration
    <3>2. CASE Join
      <4>1. store["bootstrap-hub-kubeconfig"].data \in Hubs
        BY <1>0, <3>2 DEF Join, Registration
      <4>2. joined' \in Hubs /\ available' = TRUE /\ UNCHANGED hub
        BY <3>2, <4>1 DEF Join
      <4>3. joined' # None
        BY <4>2, DataAssumption, NoneAssumption
      <4> QED
        BY <1>0, <4>2, <4>3 DEF Registration, hub
    <3>3. CASE Lose
      BY <1>0, <3>3 DEF Lose, hub, Registration
    <3>4. CASE Recover
      BY <1>0, <3>4 DEF Recover, hub, Registration
    <3>5. CASE UNCHANGED vars
      BY <1>0, <3>5 DEF vars, hub, Registration
    <3> QED
      BY <1>8, <3>1, <3>2, <3>3, <3>4, <3>5
  <2> QED
    BY <1>0, <2>1, <2>2, <2>3
       DEF Types, StoreType, Program, Registered, PassWaits, ReportedJoined, Wants
<1>9. ~Put /\ ~Patch /\ ~Own /\ ~Paste
  BY <1>0, Where DEF Put, Patch, Own, Paste, At
<1> QED
  BY <1>2, <1>4, <1>5, <1>6, <1>7, <1>8, <1>9 DEF Next, Worker, UserActs, Surroundings, Calls

-----------------------------------------------------------------------------
(* Which hubs are known.                                                   *)

\* The informer and the worker have their copies from the object.
LEMMA SpecsCopied ==
    ASSUME LifecycleType, [LifecycleNext]_lifecycle
    PROVE  HubsOf(known') \cup HubsOf(pass')
              \subseteq HubsOf(cr) \cup HubsOf(known) \cup HubsOf(pass)
<1> USE NoObjectAssumption DEF LifecycleType, CRs, HubsOf
<1>1. CASE Create \/ CreateOther \/ Edit \/ Delete
  BY <1>1 DEF Create, CreateOther, Edit, Delete
<1>2. CASE Deliver \/ Enqueue \/ Begin
  BY <1>2 DEF Deliver, Enqueue, Begin
<1>3. CASE Adopt
  BY <1>3 DEF Adopt
<1>4. ASSUME NEW ok \in BOOLEAN, NEW retry \in BOOLEAN, End(retry) \/ Report(ok, retry) \/ Finish(ok)
      PROVE  UNCHANGED known /\ pass' = None
  BY <1>4 DEF End, Report, Finish
<1>5. CASE Vanish \/ Stop \/ Restart \/ UNCHANGED lifecycle
  BY <1>5 DEF Vanish, Stop, Restart, lifecycle
<1> QED
  BY <1>1, <1>2, <1>3, <1>4, <1>5 DEF LifecycleNext

\* What the object names has been asked for.
LEMMA SpecAsked ==
    ASSUME Types, HubsOf(cr) \subseteq asked, asked \subseteq Hubs, [Next]_vars
    PROVE  HubsOf(cr') \subseteq asked' /\ asked \subseteq asked' /\ asked' \subseteq Hubs
<1>0. LifecycleType /\ LifecycleType' /\ [LifecycleNext]_lifecycle
  BY NextLifecycle, LifecycleStep DEF Types, LifecycleInv
<1>1. CASE UserActs
  <2>1. HubsOf(cr') \subseteq Hubs
    BY <1>0, SpecsAssumption DEF LifecycleType, CRs, SpecRecords, HubsOf
  <2> QED
    BY <1>1, <2>1 DEF UserActs
<1>2. CASE ~UserActs
  <2>1. UNCHANGED asked
    BY <1>2 DEF Next, Worker, CreateManagedCluster, MakeImportSecret, Join, Lose, Recover, vars
  <2>2. HubsOf(cr') \subseteq HubsOf(cr)
    <3> USE <1>0, NoObjectAssumption DEF LifecycleType, CRs, HubsOf
    <3>1. CASE UNCHANGED cr \/ cr' = None
      BY <3>1
    <3>2. ASSUME Adopt \/ Abort \/ Complete PROVE HubsOf(cr') \subseteq HubsOf(cr)
      BY <3>2 DEF Adopt, Abort, Complete, Report, Finish, End
    <3>3. CASE Start
      BY <3>1, <3>2, <3>3 DEF Start, StartPass, Begin
    <3>4. CASE Calls \/ CheckFirst \/ Forget \/ GetImportSecret \/ ImportTimeout
               \/ CreateAddonConfig \/ CreateManifest \/ WaitForKlusterlet \/ KlusterletTimeout
               \/ CreateManagedCluster
      <4>1. UNCHANGED cr \/ Abort \/ Complete
        BY <3>4 DEF Calls, Put, Patch, Validate, Read, Own, Paste, EndPass, CreateOrUpdate,
                    CheckFirst, checkKlusterlet, Forget, GetImportSecret, ImportTimeout,
                    CreateAddonConfig, CreateManifest, WaitForKlusterlet, KlusterletTimeout,
                    CreateManagedCluster, Skip, Fails, Advance, lifecycle
      <4> QED
        BY <3>1, <3>2, <4>1
    <3>5. CASE Surroundings
      <4>1. UNCHANGED cr \/ Abort
        BY <3>5 DEF Surroundings, ChangeSecret, Change, CallFails, ForgetFails, DeliverCR, Deliver,
                    DeliverObjects, Crash, Restart, lifecycle
      <4> QED
        BY <3>1, <3>2, <4>1
    <3>6. CASE MakeImportSecret \/ Join \/ Lose \/ Recover \/ UNCHANGED vars
      BY <3>6 DEF MakeImportSecret, Join, Lose, Recover, vars, lifecycle
    <3> QED
      BY <1>2, <3>3, <3>4, <3>5, <3>6 DEF Next, Worker
  <2> QED
    BY <2>1, <2>2
<1> QED
  BY <1>1, <1>2

\* Every step keeps the calls to make to those hubs.
LEMMA CallsAsked ==
    ASSUME Types, Registered, Asked, [Next]_vars
    PROVE  Named(todo)'
<1>0. /\ LifecycleType /\ LifecycleType' /\ StoreType /\ Program /\ asked \subseteq asked'
      /\ HubsOf(cr') \subseteq asked' /\ todo \in Seq(Steps)
  BY NextLifecycle, LifecycleStep, SpecAsked DEF Types, LifecycleInv, Asked, Program
<1>1. HubsOf(pass') \subseteq asked'
  BY <1>0, NextLifecycle, SpecsCopied DEF Asked
<1> DEFINE Later(p) == \A i \in 1..Len(p) : p[i].do = "create" => p[i].with \in asked'
<1> SUFFICES Later(todo')
  BY DEF Named, Within
<1>2. ASSUME NEW p, Named(p) PROVE Later(p)
  BY <1>0, <1>2 DEF Named, Within
<1>3. CASE todo' = todo
  BY <1>2, <1>3 DEF Asked
<1>4. CASE todo' = <<>>
  BY <1>4
<1>5. ASSUME Goes PROVE Later(todo')
  <2>1. todo # <<>> => Named(Tail(todo)) /\ Tail(todo) \in Seq(Steps)
    BY <1>0, NamedRest, HeadTailProperties DEF Asked, Named
  <2> DEFINE forget == <<Call("forget", "acm-secret", None)>>
  <2>2. forget \in Seq(Steps) /\ Named(forget)
    BY DEF Steps, Named, Within, Call
  <2> HIDE DEF forget, Later
  <2>3. ASSUME todo # <<>>, NEW rest \in {todo, Tail(todo)} PROVE Named(forget \o rest)
    BY <1>0, <2>1, <2>2, <2>3, NamedBoth DEF Asked, Named
  <2>4. \/ todo' = <<>>
        \/ todo # <<>> /\ todo' = Tail(todo)
        \/ todo # <<>> /\ \E rest \in {todo, Tail(todo)} : todo' = forget \o rest
    BY <1>5 DEF Goes, Errs, forget
  <2> QED
    BY <1>2, <1>4, <2>1, <2>3, <2>4
<1>6. CASE Start
  <2>1. CASE pass' = None
    BY <1>4, <1>6, <2>1 DEF Start
  <2>2. CASE pass' # None
    <3>1. pass' \in CRs /\ todo' = Plan(pass')
      BY <1>0, <1>6, <2>2 DEF Start, LifecycleType
    <3>2. Within(Plan(pass'), HubsOf(pass'))
      BY <3>1, PlanNamed
    <3> QED
      BY <1>1, <3>1, <3>2 DEF Within
  <2> QED
    BY <2>1, <2>2
<1>7. CASE \/ CheckFirst \/ Forget \/ ForgetFails \/ GetImportSecret \/ ImportTimeout
           \/ CreateAddonConfig \/ CreateManifest \/ WaitForKlusterlet \/ KlusterletTimeout
           \/ CreateManagedCluster \/ Validate \/ Read
  BY <1>0, <1>5, <1>7, CallGoes
<1>8. CASE EndPass \/ CallFails \/ Crash
  BY <1>3, <1>4, <1>8 DEF EndPass, CallFails, Crash
<1>9. CASE UserActs \/ ChangeSecret \/ DeliverCR \/ DeliverObjects
  BY <1>3, <1>9 DEF UserActs, Users, ChangeSecret, Change, DeliverCR, DeliverObjects, program
<1>10. CASE MakeImportSecret \/ Join \/ Lose \/ Recover \/ UNCHANGED vars
  BY <1>3, <1>10 DEF MakeImportSecret, Join, Lose, Recover, vars, program
<1>11. ~Put /\ ~Patch /\ ~Own /\ ~Paste
  BY <1>0, Where DEF Put, Patch, Own, Paste, At
<1> QED
  BY <1>6, <1>7, <1>8, <1>9, <1>10, <1>11 DEF Next, Worker, Surroundings, Calls

\* Who writes to the store.
LEMMA Writes ==
    ASSUME Types, [Next]_vars
    PROVE  \/ UNCHANGED store
           \/ CreateManifest /\ At("create") /\ On \in Manifests
              /\ store' = [store EXCEPT ![On] = [data |-> With, owner |-> 0]]
           \/ Forget /\ store' = [store EXCEPT !["acm-secret"] = None]
           \/ /\ ChangeSecret /\ edits' = edits + 1
              /\ \E o : store' = [store EXCEPT !["acm-secret"] = o]
<1>0. LifecycleType /\ StoreType /\ Program
  BY DEF Types, LifecycleInv
<1>1. CASE CreateManifest
  <2>1. At("create") /\ On \in Manifests
    BY <1>0, <1>1, Where DEF CreateManifest, At
  <2> QED
    BY <1>1, <2>1 DEF CreateManifest, Skip, Write, objects
<1>2. CASE Forget
  BY <1>2 DEF Forget, Write
<1>3. CASE ChangeSecret
  BY <1>3 DEF ChangeSecret, Change, Write
<1>4. CASE \/ Start \/ CheckFirst \/ ForgetFails \/ GetImportSecret \/ ImportTimeout
           \/ CreateAddonConfig \/ WaitForKlusterlet \/ KlusterletTimeout
           \/ CreateManagedCluster \/ Validate \/ Read \/ EndPass
  BY <1>4 DEF Start, StartPass, CheckFirst, ForgetFails, GetImportSecret, ImportTimeout,
              CreateAddonConfig, WaitForKlusterlet, KlusterletTimeout, CreateManagedCluster,
              Validate, Read, checkKlusterlet, Skip, Advance, Fails, EndPass, objects
<1>5. ~(Put \/ Patch \/ Own \/ Paste)
  BY <1>0, Where DEF Put, Patch, Own, Paste, At
<1>6. CASE \/ UserActs \/ DeliverCR \/ DeliverObjects \/ CallFails \/ Crash \/ MakeImportSecret
           \/ Join \/ Lose \/ Recover \/ UNCHANGED vars
  BY <1>6 DEF UserActs, Users, DeliverCR, DeliverObjects, CallFails, Crash, MakeImportSecret,
              Join, Lose, Recover, vars, objects
<1> QED
  BY <1>1, <1>2, <1>3, <1>4, <1>5, <1>6 DEF Next, Worker, Surroundings, Calls

\* Every step keeps the kubeconfig, and with it the agent, to those hubs.
LEMMA StoreAsked ==
    ASSUME Types, Asked, [Next]_vars
    PROVE  /\ LET k == store'["bootstrap-hub-kubeconfig"] IN k # None => k.data \in asked'
           /\ joined' # None => joined' \in asked'
<1> DEFINE k == store["bootstrap-hub-kubeconfig"]
<1>0. /\ asked \subseteq asked' /\ store \in [Objects -> Kept \cup {None}]
      /\ "bootstrap-hub-kubeconfig" \in Objects /\ "acm-secret" \in Objects
      /\ k # None => k.data \in asked
  BY SpecAsked, ObjectsAssumption DEF Asked, Types, StoreType, Stores, Manifests
<1>1. store'["bootstrap-hub-kubeconfig"] # None => store'["bootstrap-hub-kubeconfig"].data \in asked'
  <2>1. CASE store'["bootstrap-hub-kubeconfig"] = k
    BY <1>0, <2>1
  <2>2. CASE At("create") /\ On \in Manifests
             /\ store' = [store EXCEPT ![On] = [data |-> With, owner |-> 0]]
    <3>1. With \in asked
      BY <2>2, NamedRest DEF Types, Program, Asked, Named, At, With
    <3> QED
      BY <1>0, <2>1, <2>2, <3>1
  <2> QED
    BY <1>0, <2>1, <2>2, Writes
<1>2. joined' # None => joined' \in asked'
  <2>1. CASE Join
    BY <1>0, <2>1 DEF Join
  <2>2. CASE ~Join
    <3>1. UNCHANGED joined
      BY <2>2 DEF Next, Worker, UserActs, MakeImportSecret, Lose, Recover, vars
    <3> QED
      BY <1>0, <3>1 DEF Asked
  <2> QED
    BY <2>1, <2>2
<1> QED
  BY <1>1, <1>2

\* Every step keeps all of it.
LEMMA AskedStep == Types /\ Registered /\ Asked /\ [Next]_vars => Asked'
<1> SUFFICES ASSUME Types, Registered, Asked, [Next]_vars PROVE Asked'
  OBVIOUS
<1>1. HubsOf(cr') \subseteq asked' /\ asked \subseteq asked' /\ asked' \subseteq Hubs
  BY SpecAsked DEF Asked
<1>2. HubsOf(known') \cup HubsOf(pass') \subseteq asked
  BY NextLifecycle, SpecsCopied DEF Types, LifecycleInv, Asked
<1> QED
  BY <1>1, <1>2, CallsAsked, StoreAsked DEF Asked, HubsOf

-----------------------------------------------------------------------------
(* The theorems.                                                           *)

Inv == Types /\ Registered /\ Asked

\* The invariant, of all reachable states.
LEMMA Always == Spec => []Inv
<1>1. Init => Inv
  <2> SUFFICES ASSUME Init PROVE Asked
    BY InitTyped DEF Inv
  <2>1. cr = None /\ known = None /\ pass = None /\ todo = <<>> /\ joined = None /\ asked = {}
    BY DEF Init, StageInit, LifecycleInit
  <2>2. store["bootstrap-hub-kubeconfig"] = None
    BY ObjectsAssumption DEF Init, StageInit, Manifests
  <2> QED
    BY <2>1, <2>2 DEF Asked, HubsOf, Named, Within
<1>2. Inv /\ [Next]_vars => Inv'
  BY StepTyped, AskedStep DEF Inv
<1> QED
  BY <1>1, <1>2, PTL DEF Spec

\* Every state is typed, and the program of a pass consists of the stage's calls.
THEOREM TypeCorrect == Spec => []TypeOK
<1>1. Inv => TypeOK
  <2> SUFFICES ASSUME Inv PROVE TypeOK
    OBVIOUS
  <2>1. {cr, known, pass} \subseteq CRs \cup {None} /\ uids \in Nat /\ queued \in BOOLEAN
    BY DEF Inv, Types, LifecycleInv, LifecycleType
  <2> QED
    BY <2>1 DEF Inv, TypeOK, Types, StoreType, Program, Registration, Asked
<1> QED
  BY <1>1, Always, PTL

\* A registration is reported only when the agent has registered with a hub that has been
\* asked for, whatever timed out, was restarted, was given as credentials or was there
\* before: with the hub of the spec, unless the spec ever named another one.
THEOREM ReportedMeansRegistered == Spec => []ReportMeansRegistered
<1>1. Inv => ReportMeansRegistered
  BY DEF Inv, Registered, ReportedJoined, Asked, ReportMeansRegistered
<1> QED
  BY <1>1, Always, PTL

Counted == edits \in Nat

\* What users do to the credentials is counted.
LEMMA EditsCounted == Spec => []Counted
<1>1. Init => Counted
  BY DEF Init, StageInit, Counted
<1>2. Counted /\ [Next]_vars => Counted'
  <2> SUFFICES ASSUME Counted, [Next]_vars, edits' # edits PROVE Counted'
    BY DEF Counted
  <2> USE DEF budgets, Counted
  <2>1. ~(Start \/ CheckFirst \/ Forget \/ ForgetFails \/ GetImportSecret \/ ImportTimeout
          \/ CreateAddonConfig \/ CreateManifest \/ WaitForKlusterlet \/ KlusterletTimeout
          \/ CreateManagedCluster \/ EndPass)
    BY DEF Start, StartPass, CheckFirst, Forget, ForgetFails, GetImportSecret, ImportTimeout,
           CreateAddonConfig, CreateManifest, WaitForKlusterlet, KlusterletTimeout,
           CreateManagedCluster, checkKlusterlet, Skip, Advance, Fails, EndPass
  <2>2. ~(Put \/ Patch \/ Validate \/ Read \/ Own \/ Paste)
    BY DEF Put, Patch, Validate, Read, Own, Paste, CreateOrUpdate, Skip, Advance, Fails
  <2>3. ~(UserActs \/ DeliverCR \/ DeliverObjects \/ CallFails \/ Crash \/ MakeImportSecret
          \/ Join \/ Recover \/ UNCHANGED vars)
    BY DEF UserActs, Users, DeliverCR, DeliverObjects, CallFails, Crash, MakeImportSecret, Join, Recover, vars
  <2>4. ChangeSecret \/ Lose => edits' = edits + 1
    BY DEF ChangeSecret, Change, Lose
  <2> QED
    BY <2>1, <2>2, <2>3, <2>4 DEF Next, Worker, Surroundings, Calls
<1> QED
  BY <1>1, <1>2, PTL DEF Spec

\* The operator deletes the credentials only when the cluster is registered with a hub that
\* has been asked for, so with the hub of the spec unless the spec ever named another one.
THEOREM DeletedWhenRegistered == Spec => KeptUntilRegistered
<1> DEFINE Kept1 == Forgets => joined \in asked
<1>1. Inv /\ Counted /\ [Next]_vars => [Kept1]_store
  <2> SUFFICES ASSUME Inv, Counted, [Next]_vars, Forgets PROVE joined \in asked
    OBVIOUS
  <2>1. Types /\ StoreType /\ Program /\ store \in [Objects -> Kept \cup {None}]
    BY DEF Inv, Types, StoreType, Stores
  <2>2. CASE Forget
    <3>1. todo # <<>> /\ pass # None /\ Wants(pass) /\ Head(todo) = todo[1]
          /\ Len(todo) \in Nat /\ Len(todo) >= 1
      BY <2>1, <2>2, Where, HeadTailProperties DEF Forget, At, Program
    <3>2. joined # None
      BY <2>2, <3>1 DEF Forget, At, Inv, Registered, PassWaits, Waits
    <3> QED
      BY <3>2 DEF Inv, Asked
  <2>3. edits' # edits + 1 /\ store' # store
    BY DEF Forgets, Counted
  <2>4. ASSUME On \in Manifests, store' = [store EXCEPT ![On] = [data |-> With, owner |-> 0]]
        PROVE  FALSE
    <3>1. store'["acm-secret"] = store["acm-secret"]
      BY <2>1, <2>4, ObjectsAssumption DEF Manifests
    <3> QED
      BY <3>1 DEF Forgets
  <2> QED
    BY <2>1, <2>2, <2>3, <2>4, Writes
<1> QED
  BY <1>1, Always, EditsCounted, PTL DEF Spec, KeptUntilRegistered

\* The controller around the stage is the one Lifecycle describes.
THEOREM ImplementsLifecycle == Spec => LifecycleSpec
<1>1. Init => LifecycleInit
  BY DEF Init, StageInit
<1>2. Inv /\ [Next]_vars => [LifecycleNext]_lifecycle
  BY NextLifecycle DEF Inv, Types, LifecycleInv
<1> QED
  BY <1>1, <1>2, Always, PTL DEF Spec, LifecycleSpec
==============================================================================
