---------------------------- MODULE ServingProofs ----------------------------
(***************************************************************************)
(* Theorems about Serving, for all specs, domains and bounds.              *)
(***************************************************************************)
EXTENDS Serving, StageProofs, FiniteSetTheorems

-----------------------------------------------------------------------------
(* The calls of these stages.                                              *)

Named == Made \cup {"user-in-config"}   \* what the cluster objects may be made to name
Hosts == Domains \cup {""}              \* and for which domain

Puts      == [do : {"put"}, on : Made, with : {Nothing}]
Generates == [do : {"generate"}, on : Made, with : Domains]
Pastes    == [do : {"paste"}, on : Made, with : {TRUE}]
Validates == [do : {"validate"}, on : Given, with : {None}]
Takes     == [do : {"read"}, on : Made, with : {None}]
             \cup [do : {"own"}, on : {"user"}, with : {None}]
Resets    == [do : {"patch"}, on : ClusterObjects, with : {Nothing}]
Refers    == [do : {"patch"}, on : ClusterObjects, with : Hosts \X Named]

Steps == Puts \cup Generates \cup Pastes \cup Validates \cup Takes \cup Resets \cup Refers

\* The calls that make an object, and those that let a cluster object name it.
Making(m) == {c \in Puts \cup Generates \cup Pastes : c.on = m}
Naming(m) == {c \in Refers : c.with[2] = m}

\* In the program, one of the latter calls follows only on one of the former.
Preceded(calls, followers, leaders) ==
    \A i \in 1..Len(calls) : calls[i] \in followers => \E j \in 1..(i - 1) : calls[j] \in leaders

-----------------------------------------------------------------------------
(* Types.                                                                  *)

Program == /\ todo \in Seq(Steps) /\ (todo # <<>> => pass # None)
           /\ held \in Data \/ Preceded(todo, Pastes, Takes)

World ==
    /\ \A n \in ClusterObjects : store[n] # None
    /\ held \in Data \cup {None}
    /\ edits \in Nat

Types == LifecycleInv /\ StoreType /\ Program /\ World

-----------------------------------------------------------------------------
(* What the finalizer is for.                                              *)

Original(n) == store[n].data \in Before \cup {Nothing}

\* An object that is changed has the finalizer of a ClusterRelocation to go by.
Guarded == \A n \in ClusterObjects : Original(n) \/ (cr # None /\ cr.finalizer)

\* What the finalizer has not put back yet is before it.
Cleaning ==
    pass # None /\ pass.deleting =>
        /\ \A i \in 1..Len(todo) : todo[i] \in Resets
        /\ \A n \in ClusterObjects :
              store[n].data = Nothing \/ \E i \in 1..Len(todo) : todo[i].on = n

-----------------------------------------------------------------------------
(* What the cluster objects name.                                          *)

\* An object of the present ClusterRelocation: the garbage collector keeps it.
Sound(m, c) == store[m] # None /\ store[m].owner = c.uid

References ==
    \A n \in ClusterObjects :
        /\ store[n].data[2] # "user"
        /\ store[n].data[2] \in Made => cr # None /\ Sound(store[n].data[2], cr)

\* A pass makes objects before it has others name them.
Provided ==
    pass # None /\ ~pass.deleting =>
        \A m \in Made : Sound(m, pass) \/ Preceded(todo, Naming(m), Making(m))

\* The certificate that is used in place stays, and is nobody's.
InPlaceStays == store["user-in-config"] # None /\ store["user-in-config"].owner = 0

\* The stores there are copies of, and the present one.
Seen == {store} \cup {behind[i] : i \in 1..Len(behind)}

\* An object of the present ClusterRelocation that was there still is: a late copy of it
\* does not deceive.
Lasting ==
    cr # None =>
        \A s \in Seen, m \in Made : s[m] # None /\ s[m].owner = cr.uid => Sound(m, cr)

\* Nothing belongs to a ClusterRelocation that is yet to be created.
Dated == \A s \in Seen, m \in Made : s[m] # None => s[m].owner \in 0..uids

Names == edits = 0 => References /\ Provided /\ InPlaceStays /\ Lasting /\ Dated

-----------------------------------------------------------------------------
(* Programs.                                                               *)

\* A program without followers.
LEMMA NoFollowers ==
    ASSUME NEW p, NEW X, NEW Y, \A i \in 1..Len(p) : p[i] \notin X
    PROVE  Preceded(p, X, Y)
BY DEF Preceded

\* Joined programs, the parts of which are in order, or the first of which has a leader.
LEMMA Joined ==
    ASSUME NEW p \in Seq(Steps), NEW q \in Seq(Steps), NEW X, NEW Y, Preceded(p, X, Y),
           Preceded(q, X, Y) \/ \E i \in 1..Len(p) : p[i] \in Y
    PROVE  Preceded(p \o q, X, Y)
<1> DEFINE r == p \o q
<1>1. /\ Len(r) = Len(p) + Len(q)
      /\ \A i \in 1..(Len(p) + Len(q)) : r[i] = IF i <= Len(p) THEN p[i] ELSE q[i - Len(p)]
  BY ConcatProperties
<1>2. Len(p) \in Nat /\ Len(q) \in Nat
  BY LenProperties
<1> HIDE DEF r
<1>3. SUFFICES ASSUME NEW i \in 1..Len(r), r[i] \in X PROVE \E j \in 1..(i - 1) : r[j] \in Y
  BY DEF Preceded, r
<1>4. ASSUME NEW j \in 1..Len(p) PROVE j \in 1..(Len(p) + Len(q)) /\ r[j] = p[j]
  BY <1>1, <1>2
<1>5. CASE i <= Len(p)
  <2>1. i \in 1..Len(p) /\ p[i] \in X
    BY <1>1, <1>2, <1>3, <1>5
  <2>2. PICK j \in 1..(i - 1) : p[j] \in Y
    BY <2>1 DEF Preceded
  <2>3. j \in 1..Len(p)
    BY <1>2, <2>1, <2>2
  <2> QED
    BY <1>4, <2>2, <2>3
<1>6. CASE ~(i <= Len(p))
  <2>1. i - Len(p) \in 1..Len(q) /\ q[i - Len(p)] \in X
    BY <1>1, <1>2, <1>3, <1>6
  <2>2. CASE Preceded(q, X, Y)
    <3>1. PICK j \in 1..(i - Len(p) - 1) : q[j] \in Y
      BY <2>1, <2>2 DEF Preceded
    <3>2. /\ j + Len(p) \in 1..(i - 1) /\ ~(j + Len(p) <= Len(p)) /\ (j + Len(p)) - Len(p) = j
          /\ j + Len(p) \in 1..(Len(p) + Len(q))
      BY <1>2, <2>1, <3>1
    <3>3. r[j + Len(p)] = q[j]
      BY <1>1, <3>2
    <3> QED
      BY <3>1, <3>2, <3>3
  <2>3. ASSUME NEW j \in 1..Len(p), p[j] \in Y PROVE \E k \in 1..(i - 1) : r[k] \in Y
    <3>1. j \in 1..(i - 1)
      BY <1>1, <1>2, <1>3, <1>6
    <3> QED
      BY <1>4, <2>3, <3>1
  <2> QED
    BY <2>2, <2>3
<1> QED
  BY <1>5, <1>6

\* What is left of a program after its first call.
LEMMA Rests ==
    ASSUME NEW p \in Seq(Steps), p # <<>>
    PROVE  /\ Tail(p) \in Seq(Steps) /\ Head(p) \in Steps
           /\ \A X, Y : Preceded(p, X, Y) => /\ Preceded(Tail(p), X, Y) \/ Head(p) \in Y
                                             /\ Head(p) \notin X
           /\ \A S : (\A i \in 1..Len(p) : p[i] \in S) =>
                        Head(p) \in S /\ \A i \in 1..Len(Tail(p)) : Tail(p)[i] \in S
           /\ \A n : (\E i \in 1..Len(p) : p[i].on = n) =>
                        Head(p).on = n \/ \E i \in 1..Len(Tail(p)) : Tail(p)[i].on = n
<1> DEFINE t == Tail(p)
<1>1. /\ Head(p) = p[1] /\ t \in Seq(Steps) /\ Len(t) = Len(p) - 1
      /\ \A i \in 1..Len(t) : t[i] = p[i + 1]
  BY HeadTailProperties
<1>2. Len(p) \in Nat /\ Len(p) # 0
  BY LenProperties, EmptySeq
<1> HIDE DEF t
<1>3. 1 \in 1..Len(p) /\ p[1] \in Steps /\ \A i \in 1..Len(t) : i + 1 \in 1..Len(p)
  BY <1>1, <1>2, ElementOfSeq
<1>4. ASSUME NEW X, NEW Y, Preceded(p, X, Y), p[1] \notin Y PROVE Preceded(t, X, Y)
  <2> SUFFICES ASSUME NEW i \in 1..Len(t), t[i] \in X PROVE \E j \in 1..(i - 1) : t[j] \in Y
    BY DEF Preceded
  <2>1. p[i + 1] \in X /\ i + 1 \in 1..Len(p)
    BY <1>1, <1>3
  <2>2. PICK j \in 1..((i + 1) - 1) : p[j] \in Y
    BY <1>4, <2>1 DEF Preceded
  <2>3. j # 1
    BY <1>4, <2>2
  <2>4. j - 1 \in 1..(i - 1) /\ j - 1 \in 1..Len(t) /\ (j - 1) + 1 = j
    BY <1>1, <1>2, <2>2, <2>3
  <2>5. t[j - 1] = p[j]
    BY <1>1, <2>4
  <2> QED
    BY <2>2, <2>4, <2>5
<1>5. ASSUME NEW X, NEW Y, Preceded(p, X, Y) PROVE p[1] \notin X
  BY <1>3, <1>5 DEF Preceded
<1>6. ASSUME NEW S, \A i \in 1..Len(p) : p[i] \in S
      PROVE  p[1] \in S /\ \A i \in 1..Len(t) : t[i] \in S
  BY <1>1, <1>3, <1>6
<1>7. ASSUME NEW n, NEW i \in 1..Len(p), p[i].on = n
      PROVE  p[1].on = n \/ \E j \in 1..Len(t) : t[j].on = n
  <2>1. CASE i = 1
    BY <1>7, <2>1
  <2>2. CASE i # 1
    <3>1. i - 1 \in 1..Len(t) /\ (i - 1) + 1 = i
      BY <1>1, <1>2, <2>2
    <3>2. t[i - 1] = p[i]
      BY <1>1, <3>1
    <3> QED
      BY <1>7, <3>1, <3>2
  <2> QED
    BY <2>1, <2>2
<1> QED
  BY <1>1, <1>3, <1>4, <1>5, <1>6, <1>7 DEF t

\* The calls of these stages have their types.
LEMMA MakingTypes ==
    ASSUME NEW n \in Made
    PROVE  /\ Call("put", n, Nothing) \in Puts /\ Call("paste", n, TRUE) \in Pastes
           /\ Call("read", n, None) \in Takes
           /\ \A d \in Domains : Call("generate", n, d) \in Generates
BY DEF Call, Puts, Generates, Pastes, Takes

\* Those on what the user gives.
LEMMA GivenTypes ==
    /\ \A n \in Given : Call("validate", n, None) \in Validates
    /\ Call("validate", "user", None) \in Validates
    /\ Call("own", "user", None) \in Takes
BY DEF Call, Validates, Takes, Given

\* Those on cluster objects.
LEMMA PatchTypes ==
    ASSUME NEW n \in ClusterObjects
    PROVE  /\ Call("patch", n, Nothing) \in Resets
           /\ \A d \in Hosts, m \in Named : Call("patch", n, <<d, m>>) \in Refers
BY DEF Call, Resets, Refers

\* Orderly: certificates are pasted after they are taken, and named after they are made.
Orderly(p) == Preceded(p, Pastes, Takes) /\ \A m \in Made : Preceded(p, Naming(m), Making(m))

\* Orderly programs can be joined.
LEMMA JoinOrderly ==
    ASSUME NEW p \in Seq(Steps), NEW q \in Seq(Steps), Orderly(p), Orderly(q)
    PROVE  p \o q \in Seq(Steps) /\ Orderly(p \o q)
BY Joined, ConcatProperties DEF Orderly

\* Which calls are neither.
LEMMA OtherCalls ==
    ASSUME NEW c
    PROVE  /\ c.do # "paste" => c \notin Pastes
           /\ c.do # "patch" => \A m : c \notin Naming(m)
           /\ \A m : c.with[2] # m => c \notin Naming(m)
BY DEF Pastes, Naming, Refers

\* The plan of the registry's certificate.
LEMMA RegistryPlanOrderly ==
    ASSUME NEW spec
    PROVE  RegistryPlan(spec) \in Seq(Steps) /\ Orderly(RegistryPlan(spec))
<1> DEFINE a == Call("put", "registry-cert", Nothing)
           b == Call("patch", "Image", <<"", "registry-cert">>)
           c == Call("patch", "Image", Nothing)
<1>1. /\ RegistryPlan(spec) = <<a, b>> \/ RegistryPlan(spec) = <<c>>
      /\ "registry-cert" \in Made /\ "Image" \in ClusterObjects /\ "" \notin Made
      /\ <<"", "registry-cert">>[2] = "registry-cert" /\ Nothing[2] = ""
  BY DEF RegistryPlan, Made, ClusterObjects, Nothing
<1>2. /\ a \in Puts /\ b \in Refers /\ c \in Resets
      /\ a.do = "put" /\ b.do = "patch" /\ c.do = "patch"
      /\ a.on = "registry-cert" /\ b.with = <<"", "registry-cert">> /\ c.with = Nothing
  <2>1. a \in Puts /\ c \in Resets
    BY <1>1, MakingTypes, PatchTypes
  <2>2. "registry-cert" \in Named /\ "" \in Hosts
    BY <1>1 DEF Named, Hosts
  <2>3. b \in Refers
    BY <1>1, <2>2, PatchTypes
  <2>4. /\ a.do = "put" /\ b.do = "patch" /\ c.do = "patch"
        /\ a.on = "registry-cert" /\ b.with = <<"", "registry-cert">> /\ c.with = Nothing
    BY DEF Call
  <2> QED
    BY <2>1, <2>3, <2>4
<1> HIDE DEF a, b, c
<1>3. a \in Steps /\ b \in Steps /\ c \in Steps /\ a \in Making("registry-cert")
  BY <1>2 DEF Steps, Making
<1>4. a \notin Pastes /\ b \notin Pastes /\ c \notin Pastes
  BY <1>2, OtherCalls
<1>5. \A m \in Made : a \notin Naming(m) /\ c \notin Naming(m)
                      /\ (m # "registry-cert" => b \notin Naming(m))
  BY <1>1, <1>2, OtherCalls
<1>6. CASE RegistryPlan(spec) = <<a, b>>
  <2>1. Preceded(<<a, b>>, Pastes, Takes)
    BY <1>4 DEF Preceded
  <2>2. ASSUME NEW m \in Made PROVE Preceded(<<a, b>>, Naming(m), Making(m))
    <3>1. CASE m = "registry-cert"
      <4> SUFFICES ASSUME NEW i \in 1..2, <<a, b>>[i] \in Naming(m)
                   PROVE  \E j \in 1..(i - 1) : <<a, b>>[j] \in Making(m)
        BY DEF Preceded
      <4>1. i = 2
        BY <1>5
      <4> QED
        BY <1>3, <3>1, <4>1
    <3>2. CASE m # "registry-cert"
      BY <1>5, <3>2 DEF Preceded
    <3> QED
      BY <3>1, <3>2
  <2>3. <<a, b>> \in Seq(Steps)
    BY <1>3
  <2> QED
    BY <1>6, <2>1, <2>2, <2>3 DEF Orderly
<1>7. CASE RegistryPlan(spec) = <<c>>
  <2>1. Preceded(<<c>>, Pastes, Takes) /\ \A m \in Made : Preceded(<<c>>, Naming(m), Making(m))
    BY <1>4, <1>5 DEF Preceded
  <2>2. <<c>> \in Seq(Steps)
    BY <1>3
  <2> QED
    BY <1>7, <2>1, <2>2 DEF Orderly
<1> QED
  BY <1>1, <1>6, <1>7

\* The ways to provide the router's certificate and its copy.
LEMMA IngressCertOrderly ==
    ASSUME NEW domain \in Domains, NEW m \in Made, NEW n \in Made, NEW p,
           \/ /\ p = <<Call("validate", "user", None), Call("own", "user", None),
                       Call("paste", m, TRUE), Call("own", "user", None), Call("paste", n, TRUE)>>
           \/ p = <<Call("generate", m, domain), Call("read", m, None), Call("paste", n, TRUE)>>
    PROVE  /\ p \in Seq(Steps) /\ Orderly(p)
           /\ \A k \in {m, n} : \E i \in 1..Len(p) : p[i] \in Making(k)
           /\ \A k : \A i \in 1..Len(p) : p[i] \notin Naming(k)
<1> DEFINE v == Call("validate", "user", None)  o == Call("own", "user", None)
           pm == Call("paste", m, TRUE)  pn == Call("paste", n, TRUE)
           g == Call("generate", m, domain)  r == Call("read", m, None)
<1>1. /\ v \in Validates /\ o \in Takes /\ pm \in Pastes /\ pn \in Pastes /\ g \in Generates
      /\ r \in Takes
      /\ v.do = "validate" /\ o.do = "own" /\ pm.do = "paste" /\ pn.do = "paste"
      /\ g.do = "generate" /\ r.do = "read" /\ pm.on = m /\ pn.on = n /\ g.on = m
  <2>1. pm \in Pastes /\ pn \in Pastes /\ g \in Generates /\ r \in Takes
    BY MakingTypes
  <2>2. v \in Validates /\ o \in Takes
    BY GivenTypes
  <2>3. /\ v.do = "validate" /\ o.do = "own" /\ pm.do = "paste" /\ pn.do = "paste"
        /\ g.do = "generate" /\ r.do = "read" /\ pm.on = m /\ pn.on = n /\ g.on = m
    BY DEF Call
  <2> HIDE DEF v, o, pm, pn, g, r
  <2> QED
    BY <2>1, <2>2, <2>3
<1>2. p = <<v, o, pm, o, pn>> \/ p = <<g, r, pn>>
  OBVIOUS
<1> HIDE DEF v, o, pm, pn, g, r
<1>3. /\ \A c \in {v, o, pm, pn, g, r} : c \in Steps /\ \A k : c \notin Naming(k)
      /\ \A c \in {v, o, g, r} : c \notin Pastes
      /\ pm \in Making(m) /\ pn \in Making(n) /\ g \in Making(m)
  BY <1>1, OtherCalls DEF Steps, Making
<1>4. ASSUME \A i \in 1..Len(p) : \A k : p[i] \notin Naming(k), Preceded(p, Pastes, Takes)
      PROVE  Orderly(p)
  BY <1>4, NoFollowers DEF Orderly
<1>5. CASE p = <<v, o, pm, o, pn>>
  <2>1. /\ p \in Seq(Steps) /\ Len(p) = 5
        /\ p[1] = v /\ p[2] = o /\ p[3] = pm /\ p[4] = o /\ p[5] = pn
    <3>1. v \in Steps /\ o \in Steps /\ pm \in Steps /\ pn \in Steps
      BY <1>3
    <3>2. <<v, o, pm, o, pn>> \in Seq(Steps)
      BY ONLY <3>1
    <3> QED
      BY ONLY <1>5, <3>2
  <2>2. ASSUME NEW i \in 1..5 PROVE \A k : p[i] \notin Naming(k)
    <3>1. i = 1 \/ i = 2 \/ i = 3 \/ i = 4 \/ i = 5
      OBVIOUS
    <3> QED
      BY <1>3, <2>1, <3>1
  <2>3. Preceded(p, Pastes, Takes)
    <3> SUFFICES ASSUME NEW i \in 1..5, p[i] \in Pastes PROVE \E j \in 1..(i - 1) : p[j] \in Takes
      BY <2>1 DEF Preceded
    <3>1. i # 1 /\ i # 2
      BY <1>3, <2>1
    <3>2. 2 \in 1..(i - 1)
      BY <3>1
    <3> QED
      BY <1>1, <2>1, <3>2
  <2>4. p[3] \in Making(m) /\ p[5] \in Making(n) /\ 3 \in 1..Len(p) /\ 5 \in 1..Len(p)
    BY <1>3, <2>1
  <2> QED
    BY <1>4, <2>1, <2>2, <2>3, <2>4
<1>6. CASE p = <<g, r, pn>>
  <2>1. p \in Seq(Steps) /\ Len(p) = 3 /\ p[1] = g /\ p[2] = r /\ p[3] = pn
    <3>1. g \in Steps /\ r \in Steps /\ pn \in Steps
      BY <1>3
    <3>2. <<g, r, pn>> \in Seq(Steps)
      BY ONLY <3>1
    <3> QED
      BY ONLY <1>6, <3>2
  <2>2. ASSUME NEW i \in 1..3 PROVE \A k : p[i] \notin Naming(k)
    <3>1. i = 1 \/ i = 2 \/ i = 3
      OBVIOUS
    <3> QED
      BY <1>3, <2>1, <3>1
  <2>3. Preceded(p, Pastes, Takes)
    <3> SUFFICES ASSUME NEW i \in 1..3, p[i] \in Pastes PROVE \E j \in 1..(i - 1) : p[j] \in Takes
      BY <2>1 DEF Preceded
    <3>1. i = 3
      BY <1>3, <2>1
    <3>2. 2 \in 1..(i - 1)
      BY <3>1
    <3> QED
      BY <1>1, <2>1, <3>2
  <2>4. p[1] \in Making(m) /\ p[3] \in Making(n) /\ 1 \in 1..Len(p) /\ 3 \in 1..Len(p)
    BY <1>3, <2>1
  <2> QED
    BY <1>4, <2>1, <2>2, <2>3, <2>4
<1> QED
  BY <1>2, <1>5, <1>6

\* The plan of the ingress.
LEMMA IngressPlanOrderly ==
    ASSUME NEW spec \in Specs
    PROVE  IngressPlan(spec) \in Seq(Steps) /\ Orderly(IngressPlan(spec))
<1> DEFINE m == IngressCert(spec)  n == IngressCertCopy(spec)  d == spec.domain
           p == IF spec.ingressCertRef
                THEN <<Call("validate", "user", None), Call("own", "user", None),
                       Call("paste", m, TRUE), Call("own", "user", None), Call("paste", n, TRUE)>>
                ELSE <<Call("generate", m, d), Call("read", m, None), Call("paste", n, TRUE)>>
           a == Call("patch", "IngressController", <<"", m>>)
           b == Call("patch", "Ingress", <<d, n>>)
<1>1. /\ d \in Domains /\ m \in Made /\ n \in Made
      /\ "IngressController" \in ClusterObjects /\ "Ingress" \in ClusterObjects
      /\ <<"", m>>[2] = m /\ <<d, n>>[2] = n
  BY SpecsAssumption DEF SpecRecords, IngressCert, IngressCertCopy, Made, ClusterObjects
<1>2. IngressPlan(spec) = p \o <<a, b>>
  <2>1. CASE spec.ingressCertRef
    BY <2>1 DEF IngressPlan, IngressCert, IngressCertCopy
  <2>2. CASE ~spec.ingressCertRef
    BY <2>2 DEF IngressPlan, IngressCert, IngressCertCopy
  <2> QED
    BY <2>1, <2>2
<1>3. /\ p \in Seq(Steps) /\ Orderly(p)
      /\ \A k \in {m, n} : \E i \in 1..Len(p) : p[i] \in Making(k)
      /\ \A k : \A i \in 1..Len(p) : p[i] \notin Naming(k)
  <2>1. \/ p = <<Call("validate", "user", None), Call("own", "user", None),
                 Call("paste", m, TRUE), Call("own", "user", None), Call("paste", n, TRUE)>>
        \/ p = <<Call("generate", m, d), Call("read", m, None), Call("paste", n, TRUE)>>
    OBVIOUS
  <2> HIDE DEF p, m, n, d
  <2> QED
    BY <1>1, <2>1, IngressCertOrderly
<1>4. /\ a \in Refers /\ b \in Refers /\ a.do = "patch" /\ b.do = "patch"
      /\ a.with = <<"", m>> /\ b.with = <<d, n>>
  <2>1. m \in Named /\ n \in Named /\ "" \in Hosts /\ d \in Hosts
    BY <1>1 DEF Named, Hosts
  <2>2. a \in Refers /\ b \in Refers
    BY <1>1, <2>1, PatchTypes
  <2>3. a.do = "patch" /\ b.do = "patch" /\ a.with = <<"", m>> /\ b.with = <<d, n>>
    BY DEF Call
  <2> QED
    BY <2>2, <2>3
<1> HIDE DEF p, a, b, m, n, d
<1>5. /\ a \in Steps /\ b \in Steps /\ a \notin Pastes /\ b \notin Pastes
      /\ \A k : k # m /\ k # n => a \notin Naming(k) /\ b \notin Naming(k)
  BY <1>1, <1>4, OtherCalls DEF Steps
<1>6. <<a, b>> \in Seq(Steps) /\ Preceded(<<a, b>>, Pastes, Takes)
  BY <1>5 DEF Preceded
<1>7. p \o <<a, b>> \in Seq(Steps) /\ Preceded(p \o <<a, b>>, Pastes, Takes)
  BY <1>3, <1>6, Joined, ConcatProperties DEF Orderly
<1>8. ASSUME NEW k \in Made PROVE Preceded(p \o <<a, b>>, Naming(k), Making(k))
  <2>1. CASE k \in {m, n}
    BY <1>3, <1>6, <2>1, Joined DEF Orderly
  <2>2. CASE k # m /\ k # n
    <3>1. Preceded(<<a, b>>, Naming(k), Making(k))
      BY <1>5, <2>2 DEF Preceded
    <3> QED
      BY <1>3, <1>6, <3>1, Joined DEF Orderly
  <2> QED
    BY <2>1, <2>2
<1> QED
  BY <1>2, <1>7, <1>8 DEF Orderly

\* The plan of the API server.
LEMMA APIPlanOrderly ==
    ASSUME NEW spec \in Specs
    PROVE  APIPlan(spec) \in Seq(Steps) /\ Orderly(APIPlan(spec))
<1> DEFINE m == APICert(spec)  d == spec.domain
           b == Call("patch", "APIServer", <<d, m>>)
           g == Call("generate", m, d)  v == Call("validate", "user", None)
           o == Call("own", "user", None)  c == Call("paste", m, TRUE)
           w == Call("validate", m, None)
<1>0. /\ spec.domain \in Domains /\ spec.apiCertRef \in {None, "user", "user-in-config"}
      /\ "APIServer" \in ClusterObjects
      /\ "generated-api" \in Made /\ "copied-api" \in Made /\ "user-in-config" \notin Made
  BY SpecsAssumption DEF SpecRecords, Given, Made, ClusterObjects
<1>1. CASE spec.apiCertRef = None
  <2>1. m = "generated-api" /\ APIPlan(spec) = <<g>> \o <<b>>
    <3>1. APICert(spec) = "generated-api"
      BY <1>1, NoneAssumption DEF APICert, Given
    <3> QED
      BY <1>1, <3>1, NoneAssumption DEF APIPlan, Given
  <2>2. /\ g \in Generates /\ b \in Refers /\ g.do = "generate" /\ b.do = "patch" /\ g.on = m
        /\ b.with[2] = m
    <3>1. m \in Named /\ d \in Hosts /\ <<d, m>>[2] = m
      BY <1>0, <2>1 DEF Named, Hosts
    <3>2. g \in Generates /\ b \in Refers
      BY <1>0, <2>1, <3>1, MakingTypes, PatchTypes
    <3>3. g.do = "generate" /\ b.do = "patch" /\ g.on = m /\ b.with = <<d, m>>
      BY DEF Call
    <3> QED
      BY <3>1, <3>2, <3>3
  <2> HIDE DEF m, b, g
  <2>3. /\ g \in Steps /\ b \in Steps /\ g \notin Pastes /\ b \notin Pastes /\ g \in Making(m)
        /\ \A k : g \notin Naming(k) /\ (k # m => b \notin Naming(k))
    BY <2>2, OtherCalls DEF Steps, Making
  <2>4. /\ <<g>> \in Seq(Steps) /\ <<b>> \in Seq(Steps)
        /\ Preceded(<<g>>, Pastes, Takes) /\ Preceded(<<b>>, Pastes, Takes)
        /\ \A k : Preceded(<<g>>, Naming(k), Making(k))
        /\ \A k : k # m => Preceded(<<b>>, Naming(k), Making(k))
        /\ \E i \in 1..Len(<<g>>) : <<g>>[i] \in Making(m)
    BY <2>3 DEF Preceded
  <2> QED
    BY <2>1, <2>4, Joined, ConcatProperties DEF Orderly
<1>2. CASE spec.apiCertRef = "user" /\ spec.apiCertRef # None
  <2> DEFINE p == <<v, o, c>>
  <2>1. m = "copied-api" /\ APIPlan(spec) = p \o <<b>>
    <3>1. APICert(spec) = "copied-api" /\ spec.apiCertRef # None
      BY <1>2 DEF APICert
    <3> QED
      BY <1>2, <3>1 DEF APIPlan
  <2>2. /\ v \in Validates /\ o \in Takes /\ c \in Pastes /\ b \in Refers
        /\ v.do = "validate" /\ o.do = "own" /\ c.do = "paste" /\ b.do = "patch"
        /\ c.on = m /\ b.with[2] = m
    <3>1. m \in Named /\ d \in Hosts /\ <<d, m>>[2] = m
      BY <1>0, <2>1 DEF Named, Hosts
    <3>2. v \in Validates /\ o \in Takes /\ c \in Pastes /\ b \in Refers
      BY <1>0, <2>1, <3>1, MakingTypes, GivenTypes, PatchTypes
    <3>3. /\ v.do = "validate" /\ o.do = "own" /\ c.do = "paste" /\ b.do = "patch"
          /\ c.on = m /\ b.with = <<d, m>>
      BY DEF Call
    <3> QED
      BY <3>1, <3>2, <3>3
  <2> HIDE DEF m, b, v, o, c
  <2>3. /\ \A x \in {v, o, c, b} : x \in Steps
        /\ v \notin Pastes /\ o \notin Pastes /\ b \notin Pastes /\ c \in Making(m)
        /\ \A k : \A x \in {v, o, c} : x \notin Naming(k)
        /\ \A k : k # m => b \notin Naming(k)
    BY <2>2, OtherCalls DEF Steps, Making
  <2>4. p \in Seq(Steps) /\ Len(p) = 3 /\ p[1] = v /\ p[2] = o /\ p[3] = c
    BY <2>3
  <2>5. <<b>> \in Seq(Steps) /\ Preceded(<<b>>, Pastes, Takes)
        /\ \A k : k # m => Preceded(<<b>>, Naming(k), Making(k))
    BY <2>3 DEF Preceded
  <2> HIDE DEF p
  <2>6. Preceded(p, Pastes, Takes)
    <3> SUFFICES ASSUME NEW i \in 1..3, p[i] \in Pastes PROVE \E j \in 1..(i - 1) : p[j] \in Takes
      BY <2>4 DEF Preceded
    <3>1. i = 3 /\ 2 \in 1..(i - 1)
      BY <2>3, <2>4
    <3> QED
      BY <2>2, <2>4, <3>1
  <2>7. ASSUME NEW k PROVE Preceded(p, Naming(k), Making(k))
    <3>1. ASSUME NEW i \in 1..Len(p) PROVE p[i] \notin Naming(k)
      <4>1. i = 1 \/ i = 2 \/ i = 3
        BY <2>4
      <4> QED
        BY <2>3, <2>4, <4>1
    <3> QED
      BY <3>1, NoFollowers
  <2>8. \E i \in 1..Len(p) : p[i] \in Making(m)
    BY <2>3, <2>4
  <2> QED
    BY <2>1, <2>4, <2>5, <2>6, <2>7, <2>8, Joined, ConcatProperties DEF Orderly
<1>3. CASE spec.apiCertRef = "user-in-config" /\ spec.apiCertRef # None
  <2>1. m = "user-in-config" /\ APIPlan(spec) = <<w>> \o <<b>>
    <3>1. APICert(spec) = "user-in-config"
      BY <1>3 DEF APICert
    <3> QED
      BY <1>3, <3>1 DEF APIPlan
  <2>2. /\ w \in Validates /\ b \in Refers /\ w.do = "validate" /\ b.do = "patch"
        /\ b.with[2] = m /\ m \notin Made
    <3>1. /\ m \in Named /\ d \in Hosts /\ <<d, m>>[2] = m /\ m \in Given
      BY <1>0, <2>1 DEF Named, Hosts, Given
    <3>2. w \in Validates /\ b \in Refers
      BY <1>0, <3>1, GivenTypes, PatchTypes
    <3>3. w.do = "validate" /\ b.do = "patch" /\ b.with = <<d, m>>
      BY DEF Call
    <3> QED
      BY <1>0, <2>1, <3>1, <3>2, <3>3
  <2> HIDE DEF m, b, w
  <2>3. /\ w \in Steps /\ b \in Steps /\ w \notin Pastes /\ b \notin Pastes
        /\ \A k \in Made : w \notin Naming(k) /\ b \notin Naming(k)
    BY <2>2, OtherCalls DEF Steps
  <2>4. /\ <<w>> \in Seq(Steps) /\ <<b>> \in Seq(Steps) /\ Orderly(<<w>>) /\ Orderly(<<b>>)
    BY <2>3 DEF Preceded, Orderly
  <2> QED
    BY <2>1, <2>4, JoinOrderly
<1> QED
  BY <1>0, <1>1, <1>2, <1>3

\* The plan of a finalization.
LEMMA CleanupPlanResets ==
    /\ CleanupPlan \in Seq(Steps) /\ Orderly(CleanupPlan)
    /\ \A i \in 1..Len(CleanupPlan) : CleanupPlan[i] \in Resets
    /\ \A n \in ClusterObjects : \E i \in 1..Len(CleanupPlan) : CleanupPlan[i].on = n
<1> DEFINE a == Call("patch", "Image", Nothing)  b == Call("patch", "IngressController", Nothing)
           c == Call("patch", "Ingress", Nothing)  d == Call("patch", "APIServer", Nothing)
<1>1. /\ ClusterObjects = {"Image", "IngressController", "Ingress", "APIServer"}
      /\ Nothing[2] = "" /\ "" \notin Made /\ CleanupPlan = <<a, b, c, d>>
  BY DEF ClusterObjects, Nothing, Made, CleanupPlan
<1>2. a \in Resets /\ b \in Resets /\ c \in Resets /\ d \in Resets
  BY <1>1, PatchTypes
<1>3. /\ a.on = "Image" /\ b.on = "IngressController" /\ c.on = "Ingress" /\ d.on = "APIServer"
      /\ \A x \in {a, b, c, d} : x.do = "patch" /\ x.with = Nothing
  BY DEF Call
<1> HIDE DEF a, b, c, d
<1>4. \A x \in {a, b, c, d} : x \in Steps /\ x \notin Pastes /\ \A m \in Made : x \notin Naming(m)
  BY <1>1, <1>2, <1>3, OtherCalls DEF Steps
<1>5. <<a, b, c, d>> \in Seq(Steps)
  <2>1. a \in Steps /\ b \in Steps /\ c \in Steps /\ d \in Steps
    BY <1>4
  <2> QED
    BY ONLY <2>1
<1>6. /\ Len(CleanupPlan) = 4 /\ CleanupPlan[1] = a /\ CleanupPlan[2] = b
      /\ CleanupPlan[3] = c /\ CleanupPlan[4] = d
  BY ONLY <1>1, <1>5
<1>7. \A i \in 1..4 : CleanupPlan[i] \in {a, b, c, d}
  <2> SUFFICES ASSUME NEW i \in 1..4 PROVE CleanupPlan[i] \in {a, b, c, d}
    OBVIOUS
  <2>1. i = 1 \/ i = 2 \/ i = 3 \/ i = 4
    OBVIOUS
  <2> QED
    BY <1>6, <2>1
<1>8. Orderly(CleanupPlan)
  BY <1>4, <1>6, <1>7, NoFollowers DEF Orderly
<1>9. \A n \in ClusterObjects : \E i \in 1..4 : CleanupPlan[i].on = n
  <2>1. 1 \in 1..4 /\ 2 \in 1..4 /\ 3 \in 1..4 /\ 4 \in 1..4
    OBVIOUS
  <2> QED
    BY <1>1, <1>3, <1>6, <2>1
<1> QED
  BY <1>1, <1>2, <1>5, <1>6, <1>7, <1>8, <1>9

\* Every plan is in order.
LEMMA PlanOrderly ==
    ASSUME NEW c \in CRs
    PROVE  Plan(c) \in Seq(Steps) /\ Orderly(Plan(c))
<1>1. CASE c.deleting
  BY <1>1, CleanupPlanResets DEF Plan
<1>2. CASE ~c.deleting
  <2> DEFINE r == RegistryPlan(c.spec)  i == IngressPlan(c.spec)  a == APIPlan(c.spec)
  <2>1. c.spec \in Specs
    BY DEF CRs
  <2>2. /\ r \in Seq(Steps) /\ Orderly(r) /\ i \in Seq(Steps) /\ Orderly(i)
        /\ a \in Seq(Steps) /\ Orderly(a)
    BY <2>1, RegistryPlanOrderly, IngressPlanOrderly, APIPlanOrderly
  <2>3. Plan(c) = r \o i \o a
    BY <1>2 DEF Plan
  <2> HIDE DEF r, i, a
  <2>4. r \o i \in Seq(Steps) /\ Orderly(r \o i)
    BY <2>2, JoinOrderly
  <2> QED
    BY <2>2, <2>3, <2>4, JoinOrderly
<1> QED
  BY <1>1, <1>2

\* There is always a certificate that is new.
LEMMA NewCertTyped ==
    ASSUME NEW d \in Domains
    PROVE  NewCert(d) \in Domains \X Keys /\ NewCert(d) \in Data
<1> DEFINE Used(k, n) == store[n] # None /\ store[n].data = <<d, k>>
           f == [k \in Keys |-> CHOOSE n \in Made : Used(k, n)]
           New(k) == \A n \in Made :
                        store[n] = None \/ (store[n] # None /\ store[n].data # <<d, k>>)
<1>1. IsFiniteSet(Made) /\ Cardinality(Made) \in Nat
  <2> DEFINE a == {"registry-cert"} \cup {"generated-api"}
             b == a \cup {"copied-api"}
             c == b \cup {"generated-ingress"}
             e == c \cup {"generated-ingress-copy"}
             g == e \cup {"copied-ingress"}
             h == g \cup {"copied-ingress-copy"}
  <2>1. Made = h
    BY DEF Made
  <2>2. IsFiniteSet(a)
    BY FS_Singleton, FS_AddElement
  <2>3. IsFiniteSet(c)
    <3>1. IsFiniteSet(b)
      BY <2>2, FS_AddElement
    <3> HIDE DEF b
    <3> QED
      BY <3>1, FS_AddElement
  <2>4. IsFiniteSet(g)
    <3> HIDE DEF c
    <3>1. IsFiniteSet(e)
      BY <2>3, FS_AddElement
    <3> HIDE DEF e
    <3> QED
      BY <3>1, FS_AddElement
  <2>5. IsFiniteSet(h)
    <3> HIDE DEF g
    <3> QED
      BY <2>4, FS_AddElement
  <2> HIDE DEF h
  <2> QED
    BY <2>1, <2>5, FS_CardinalityType
<1>2. Cardinality(Keys) \in Nat /\ Cardinality(Made) < Cardinality(Keys)
  BY <1>1, KeysAssumption, FS_CardinalityType
<1>3. \E k \in Keys : New(k)
  <2> SUFFICES ASSUME \A k \in Keys : \E n \in Made : Used(k, n) PROVE FALSE
    OBVIOUS
  <2>1. \A k \in Keys : f[k] \in Made /\ Used(k, f[k])
    OBVIOUS
  <2>2. f \in [Keys -> Made]
    BY <2>1
  <2> HIDE DEF f
  <2>3. \E k, l \in Keys : k # l /\ f[k] = f[l]
    BY <1>1, <1>2, <2>2, KeysAssumption, FS_PigeonHole
  <2> QED
    BY <2>1, <2>3
<1>4. (CHOOSE k \in Keys : New(k)) \in Keys
  BY <1>3
<1>5. NewCert(d) = <<d, CHOOSE k \in Keys : New(k)>>
  BY DEF NewCert
<1> HIDE DEF New
<1> DEFINE key == CHOOSE k \in Keys : New(k)
<1>6. key \in Keys /\ NewCert(d) = <<d, key>>
  BY <1>4, <1>5
<1> HIDE DEF key
<1>7. NewCert(d) \in Domains \X Keys
  BY <1>6
<1>8. Domains \X Keys \subseteq Data
  BY DataAssumption, Zenon
<1> QED
  BY <1>7, <1>8, Zenon

-----------------------------------------------------------------------------
(* Steps.                                                                  *)

\* The steps of these stages are steps of Lifecycle.
LEMMA NextLifecycle == LifecycleType /\ [LateNext]_vars => [LifecycleNext]_lifecycle
<1> SUFFICES ASSUME LifecycleType, [LateNext]_vars PROVE [LifecycleNext]_lifecycle
  OBVIOUS
<1> USE CallEnds, StageStep
<1>1. CASE Start
  BY <1>1 DEF Start
<1>2. ASSUME NEW n, NEW object, CreateOrUpdate(n, object) PROVE [LifecycleNext]_lifecycle
  BY <1>2, WriteQueues, QuietStep DEF CreateOrUpdate, Advance, lifecycle
<1>3. CASE Generate
  BY <1>2, <1>3 DEF Generate
<1>4. CASE Calls
  BY <1>4
<1>5. CASE Users \/ CallFails \/ Crash \/ DeliverCR
  BY <1>5
<1>6. CASE GarbageCollector
  BY <1>6 DEF GarbageCollector
<1>7. CASE ChangeGiven \/ ChangeMade
  BY <1>7 DEF ChangeGiven, ChangeMade
<1>8. CASE UNCHANGED vars \/ DeliverObjects
  BY <1>8 DEF vars, lifecycle
<1> QED
  BY <1>1, <1>3, <1>4, <1>5, <1>6, <1>7, <1>8 DEF LateNext, Next, Worker

\* Where the objects of the calls are.
LEMMA ObjectsApart ==
    /\ Made \subseteq Objects /\ Given \subseteq Objects /\ ClusterObjects \subseteq Objects
    /\ \A n \in ClusterObjects : n \notin Made /\ n \notin Given
    /\ \A n \in Given : n \notin Made
    /\ "user" \in Given /\ "user-in-config" \in Given /\ "user" # "user-in-config"
    /\ "user" \notin Named /\ Named = Made \cup {"user-in-config"}
    /\ Nothing[2] = "" /\ "" \notin Made /\ "" \notin Given
BY ObjectsAssumption DEF Made, Given, ClusterObjects, Named, Nothing

\* The kinds of calls.
LEMMA Kinds ==
    ASSUME Program, todo # <<>>
    PROVE  /\ Tail(todo) \in Seq(Steps) /\ Head(todo) \in Steps /\ pass # None
           /\ \/ At("put") /\ Head(todo) \in Puts /\ On \in Made /\ With = Nothing
              \/ At("generate") /\ Head(todo) \in Generates /\ On \in Made /\ With \in Domains
              \/ At("paste") /\ Head(todo) \in Pastes /\ On \in Made /\ With = TRUE /\ held \in Data
              \/ At("validate") /\ Head(todo) \in Validates /\ On \in Given
              \/ At("read") /\ Head(todo) \in Takes /\ On \in Made
              \/ At("own") /\ Head(todo) \in Takes /\ On = "user"
              \/ At("patch") /\ Head(todo) \in Resets /\ On \in ClusterObjects /\ With = Nothing
              \/ At("patch") /\ Head(todo) \in Refers /\ On \in ClusterObjects
                             /\ With[2] \in Named
<1>1. /\ Tail(todo) \in Seq(Steps) /\ Head(todo) \in Steps /\ pass # None
      /\ Preceded(todo, Pastes, Takes) => Head(todo) \notin Pastes
  BY Rests DEF Program
<1> USE DEF At, On, With
<1>2. CASE Head(todo) \in Puts
  BY <1>1, <1>2 DEF Puts
<1>3. CASE Head(todo) \in Generates
  BY <1>1, <1>3 DEF Generates
<1>4. CASE Head(todo) \in Pastes
  <2>1. held \in Data
    BY <1>1, <1>4 DEF Program
  <2> QED
    BY <1>1, <1>4, <2>1 DEF Pastes
<1>5. CASE Head(todo) \in Validates
  BY <1>1, <1>5 DEF Validates
<1>6. CASE Head(todo) \in Takes
  BY <1>1, <1>6 DEF Takes
<1>7. CASE Head(todo) \in Resets
  BY <1>1, <1>7 DEF Resets
<1>8. CASE Head(todo) \in Refers
  BY <1>1, <1>8 DEF Refers
<1> QED
  BY <1>1, <1>2, <1>3, <1>4, <1>5, <1>6, <1>7, <1>8 DEF Steps

\* Who edits.
LEMMA Edits ==
    ASSUME [LateNext]_vars
    PROVE  ChangeGiven \/ ChangeMade \/ UNCHANGED edits
<1> USE DEF budgets
<1>1. CASE \/ Users \/ DeliverCR \/ DeliverObjects \/ CallFails \/ Crash \/ Start
           \/ UNCHANGED vars
  BY <1>1 DEF Users, DeliverCR, DeliverObjects, CallFails, Crash, Start, StartPass, vars
<1>2. CASE GarbageCollector
  BY <1>2 DEF GarbageCollector, Collect
<1>3. ASSUME NEW n, NEW o, CreateOrUpdate(n, o) PROVE UNCHANGED edits
  BY <1>3 DEF CreateOrUpdate, Skip, Advance, Fails
<1>4. CASE Generate \/ Put \/ Paste
  BY <1>3, <1>4 DEF Generate, Put, Paste
<1>5. CASE Patch \/ Validate \/ Read \/ Own \/ EndPass
  BY <1>5 DEF Patch, Validate, Read, Own, EndPass, Skip, Advance, Fails
<1> QED
  BY <1>1, <1>2, <1>4, <1>5 DEF LateNext, Next, Worker, Calls

\* A copy is of a store there was, and a step adds to those only the store it makes.
LEMMA Backlog ==
    ASSUME StoreType, [LateNext]_vars
    PROVE  cache \in Seen /\ Seen' \subseteq Seen \cup {store'}
<1>1. /\ behind # <<>> => /\ Head(behind) = behind[1] /\ 1 \in 1..Len(behind)
                          /\ Len(Tail(behind)) = Len(behind) - 1
                          /\ \A i \in 1..(Len(behind) - 1) :
                                Tail(behind)[i] = behind[i + 1] /\ i + 1 \in 1..Len(behind)
      /\ Len(Append(behind, store)) = Len(behind) + 1
      /\ \A i \in 1..Len(behind) : Append(behind, store)[i] = behind[i]
      /\ Append(behind, store)[Len(behind) + 1] = store
      /\ Len(behind) \in Nat
  <2>1. behind \in Seq(Stores) /\ store \in Stores /\ Len(behind) \in Nat
    BY DEF StoreType
  <2>2. behind # <<>> => /\ Head(behind) = behind[1] /\ Len(Tail(behind)) = Len(behind) - 1
                         /\ \A i \in 1..(Len(behind) - 1) : Tail(behind)[i] = behind[i + 1]
                         /\ Len(behind) # 0
    BY <2>1, HeadTailProperties, EmptySeq
  <2> QED
    BY <2>1, <2>2, AppendProperties
<1>2. cache \in Seen
  BY <1>1 DEF cache, Seen
<1> SUFFICES Seen' \subseteq Seen \cup {store'}
  BY <1>2
<1>3. CASE UNCHANGED behind
  BY <1>3 DEF Seen
<1>4. CASE behind' = Append(behind, store)
  <2>1. \A i \in 1..(Len(behind) + 1) : i \in 1..Len(behind) \/ i = Len(behind) + 1
    BY <1>1
  <2> QED
    BY <1>1, <1>4, <2>1 DEF Seen
<1>5. CASE behind # <<>> /\ behind' = Tail(behind)
  BY <1>1, <1>5 DEF Seen
<1>6. CASE behind' = <<>>
  BY <1>6 DEF Seen
<1>7. ASSUME NEW new, Write(new) PROVE Seen' \subseteq Seen \cup {store'}
  BY <1>3, <1>4, <1>7 DEF Write
<1>8. CASE DeliverObjects \/ Crash
  BY <1>5, <1>6, <1>8 DEF DeliverObjects, Crash
<1>9. CASE Users \/ DeliverCR \/ CallFails \/ Start \/ EndPass \/ UNCHANGED vars
  BY <1>3, <1>9 DEF Users, DeliverCR, CallFails, Start, StartPass, EndPass, vars, objects
<1>10. ASSUME NEW n, NEW o, CreateOrUpdate(n, o) PROVE Seen' \subseteq Seen \cup {store'}
  BY <1>3, <1>7, <1>10 DEF CreateOrUpdate, Skip, Fails, objects
<1>11. CASE Generate \/ Put \/ Paste
  BY <1>10, <1>11 DEF Generate, Put, Paste
<1>12. CASE Patch \/ Validate \/ Read \/ Own
  BY <1>3, <1>7, <1>12 DEF Patch, Validate, Read, Own, Skip, Fails, objects
<1>13. CASE ChangeGiven \/ ChangeMade \/ GarbageCollector
  BY <1>7, <1>13 DEF ChangeGiven, ChangeMade, Change, GarbageCollector, Collect
<1> QED
  BY <1>8, <1>9, <1>11, <1>12, <1>13 DEF LateNext, Next, Worker, Calls

\* The informers' lag is what it is.
LEMMA LagStays ==
    ASSUME [LateNext]_vars
    PROVE  UNCHANGED lag
<1>1. ASSUME NEW new, Write(new) PROVE UNCHANGED lag
  BY <1>1 DEF Write
<1>2. CASE \/ DeliverObjects \/ Crash \/ Users \/ DeliverCR \/ CallFails \/ Start \/ EndPass
           \/ UNCHANGED vars
  BY <1>2 DEF DeliverObjects, Crash, Users, DeliverCR, CallFails, Start, StartPass, EndPass, vars,
              objects
<1>3. ASSUME NEW n, NEW o, CreateOrUpdate(n, o) PROVE UNCHANGED lag
  BY <1>1, <1>3 DEF CreateOrUpdate, Skip, Fails, objects
<1>4. CASE Generate \/ Put \/ Paste
  BY <1>3, <1>4 DEF Generate, Put, Paste
<1>5. CASE Patch \/ Validate \/ Read \/ Own
  BY <1>1, <1>5 DEF Patch, Validate, Read, Own, Skip, Fails, objects
<1>6. CASE ChangeGiven \/ ChangeMade \/ GarbageCollector
  BY <1>1, <1>6 DEF ChangeGiven, ChangeMade, Change, GarbageCollector, Collect
<1> QED
  BY <1>2, <1>4, <1>5, <1>6 DEF LateNext, Next, Worker, Calls

\* A call that succeeds: it leaves things alone if that is what it is for, or if the copy
\* has it that they are as they should be.
Works ==
    /\ todo # <<>> /\ todo' = Tail(todo) /\ UNCHANGED <<cr, pass>>
    /\ \/ UNCHANGED store /\ Head(todo) \in Validates \cup Takes
       \/ UNCHANGED store /\ On \in Made /\ cache[On] # None /\ cache[On].owner = pass.uid
       \/ /\ UNCHANGED store /\ On \in ClusterObjects /\ Head(todo) \in Resets \cup Refers
          /\ At("patch") /\ cache[On].data = With
       \/ \E o \in Kept :
             /\ store' = [store EXCEPT ![On] = o]
             /\ \/ On \in Made /\ o.owner = pass.uid
                \/ On = "user" /\ Head(todo) \in Takes
                \/ On \in ClusterObjects /\ Head(todo) \in Resets \cup Refers /\ o.data = With

Goes == /\ StoreType' /\ Program' /\ World'
        /\ \/ todo' = <<>> /\ pass' = None /\ UNCHANGED store
           \/ Works

\* The program goes on.
LEMMA ProgramGoes ==
    ASSUME Program, todo # <<>>, todo' = Tail(todo), pass' = pass,
           held' \in Data \/ (held' = held /\ Head(todo) \notin Takes)
    PROVE  Program'
<1>1. /\ todo' \in Seq(Steps) /\ pass # None
      /\ Preceded(todo, Pastes, Takes) => Preceded(todo', Pastes, Takes) \/ Head(todo) \in Takes
  BY Rests DEF Program
<1> QED
  BY <1>1 DEF Program

\* The cluster's objects stay.
LEMMA WorldGoes ==
    ASSUME StoreType, World, UNCHANGED <<lag, edits>>, held' \in Data \cup {None},
           \/ UNCHANGED store
           \/ \E n \in Objects, o \in Kept : store' = [store EXCEPT ![n] = o]
    PROVE  World'
<1>1. \A n \in ClusterObjects : store'[n] # None
  <2>1. CASE UNCHANGED store
    BY <2>1 DEF World
  <2>2. ASSUME NEW n \in Objects, NEW o \in Kept, store' = [store EXCEPT ![n] = o],
               NEW m \in ClusterObjects
        PROVE  store'[m] # None
    BY <2>2, ObjectsApart, NoneAssumption DEF StoreType, Stores, World
  <2> QED
    BY <2>1, <2>2
<1> QED
  BY <1>1 DEF World

\* A call that fails.
LEMMA FailGoes ==
    ASSUME StoreType, World, Fails, UNCHANGED edits
    PROVE  Goes
<1>1. pass' = None /\ todo' = <<>> /\ held' = None /\ UNCHANGED <<store, behind, lag, watched>>
  BY FailsErrs DEF Errs, objects
<1>2. todo' \in Seq(Steps)
  BY <1>1
<1>3. Program'
  <2>1. Preceded(todo', Pastes, Takes)
    BY <1>1, <1>2, NoFollowers DEF Preceded
  <2> QED
    BY <1>1, <1>2, <2>1 DEF Program
<1>4. World'
  BY <1>1, WorldGoes
<1> QED
  BY <1>1, <1>3, <1>4 DEF Goes, StoreType

\* A call that makes an object.
LEMMA MakeGoes ==
    ASSUME LifecycleType, StoreType, Program, World, UNCHANGED edits, todo # <<>>,
           On \in Made, At("put") \/ At("generate") \/ At("paste"),
           NEW o \in Kept, o.owner = pass.uid, CreateOrUpdate(On, o)
    PROVE  Goes
<1>1. On \in Objects /\ held \in Data \cup {None} /\ Head(todo) \notin Takes
  BY ObjectsApart DEF World, At, Takes
<1>2. CASE Fails
  BY <1>2, FailGoes
<1>3. CASE Skip /\ cache[On] = o
  <2>1. UNCHANGED <<cr, pass, store, behind, lag, held>> /\ todo' = Tail(todo)
    BY <1>3 DEF Skip, Advance, objects
  <2>2. Program' /\ World' /\ StoreType'
    BY <1>1, <2>1, ProgramGoes, WorldGoes DEF StoreType
  <2>3. cache[On] # None /\ cache[On].owner = pass.uid
    BY <1>3, NoneAssumption
  <2> QED
    BY <2>1, <2>2, <2>3 DEF Goes, Works
<1>4. CASE Advance /\ UNCHANGED held /\ Write([store EXCEPT ![On] = o])
  <2>1. [store EXCEPT ![On] = o] \in Stores
    BY <1>1 DEF StoreType, Stores
  <2>2. /\ StoreType' /\ store' = [store EXCEPT ![On] = o]
        /\ UNCHANGED <<cr, pass, lag, held>> /\ todo' = Tail(todo)
    BY <1>4, <2>1, WriteTyped DEF Write, Advance
  <2>3. Program' /\ World'
    BY <1>1, <2>2, ProgramGoes, WorldGoes
  <2> QED
    BY <2>2, <2>3 DEF Goes, Works
<1> QED
  BY <1>2, <1>3, <1>4 DEF CreateOrUpdate

\* Put, Generate and Paste do.
LEMMA MakersGo ==
    ASSUME LifecycleType, StoreType, Program, World, UNCHANGED edits, Put \/ Generate \/ Paste
    PROVE  Goes
<1>1. /\ todo # <<>> /\ On \in Made /\ On \in Objects /\ pass \in CRs
      /\ At("put") \/ At("generate") \/ At("paste")
  BY Kinds, ObjectsApart DEF Put, Generate, Paste, At, LifecycleType
<1>2. pass.uid \in Nat /\ \A d \in Data : /\ [data |-> d, owner |-> pass.uid] \in Kept
                                          /\ [data |-> d, owner |-> pass.uid].owner = pass.uid
  BY <1>1 DEF CRs, Kept
<1>3. CASE Put
  <2>1. With \in Data /\ CreateOrUpdate(On, [data |-> With, owner |-> pass.uid])
    BY <1>1, <1>3, Kinds, DataAssumption DEF Put, At
  <2> QED
    BY <1>1, <1>2, <2>1, MakeGoes
<1>4. CASE Generate
  <2> DEFINE d == IF cache[On] # None /\ CommonName(cache[On].data) = With
                  THEN cache[On].data ELSE NewCert(With)
  <2>1. With \in Domains
    BY <1>1, <1>4, Kinds DEF Generate, At
  <2>2. d \in Data
    BY <1>1, <2>1, CopyData, NewCertTyped
  <2>3. CreateOrUpdate(On, [data |-> d, owner |-> pass.uid])
    BY <1>4 DEF Generate
  <2> HIDE DEF d
  <2> QED
    BY <1>1, <1>2, <2>2, <2>3, MakeGoes
<1>5. CASE Paste
  <2>1. With = TRUE /\ held \in Data
    BY <1>1, <1>5, Kinds DEF Paste, At
  <2>2. CreateOrUpdate(On, [data |-> held, owner |-> pass.uid])
    BY <1>5, <2>1 DEF Paste
  <2> QED
    BY <1>1, <1>2, <2>1, <2>2, MakeGoes
<1> QED
  BY <1>3, <1>4, <1>5

\* The calls that read, and take over, the user's certificate.
LEMMA TakersGo ==
    ASSUME LifecycleType, StoreType, Program, World, UNCHANGED edits, Read \/ Own \/ Validate
    PROVE  Goes
<1>1. /\ todo # <<>> /\ pass \in CRs /\ On \in Objects /\ held \in Data \cup {None}
      /\ At("read") \/ At("own") \/ At("validate")
      /\ At("own") => On = "user"
  BY Kinds, ObjectsApart DEF Read, Own, Validate, At, LifecycleType, World
<1>2. Head(todo) \in Validates \cup Takes /\ (At("own") => Head(todo) \in Takes)
      /\ (At("validate") => Head(todo) \notin Takes)
  BY <1>1, Kinds DEF At, Takes
<1>3. CASE Fails
  BY <1>3, FailGoes
<1>4. CASE Skip /\ At("validate")
  <2>1. UNCHANGED <<cr, pass, store, behind, lag, held>> /\ todo' = Tail(todo)
    BY <1>4 DEF Skip, Advance, objects
  <2>2. Program'
    BY <1>1, <1>2, <1>4, <2>1, ProgramGoes
  <2>3. World'
    BY <1>1, <2>1, WorldGoes
  <2> QED
    BY <1>1, <1>2, <2>1, <2>2, <2>3 DEF Goes, Works, StoreType
<1>5. CASE Read /\ ~Fails
  <2>1. /\ held' \in Data /\ UNCHANGED <<cr, pass, store, behind, lag>> /\ todo' = Tail(todo)
    BY <1>1, <1>5, CopyData DEF Read, Advance, objects
  <2>2. Program'
    BY <1>1, <2>1, ProgramGoes
  <2>3. World'
    BY <2>1, WorldGoes
  <2> QED
    BY <1>1, <1>2, <2>1, <2>2, <2>3 DEF Goes, Works, StoreType
<1>6. CASE Own /\ ~Fails
  <2> DEFINE o == [data |-> held', owner |-> pass.uid]
  <2>1. /\ held' \in Data /\ Write([store EXCEPT ![On] = o])
        /\ UNCHANGED <<cr, pass>> /\ todo' = Tail(todo)
    BY <1>1, <1>6, CopyData DEF Own, Advance
  <2>2. o \in Kept /\ At("own")
    BY <1>1, <1>6, <2>1 DEF CRs, Kept, Own
  <2> HIDE DEF o
  <2>3. [store EXCEPT ![On] = o] \in Stores
    BY <1>1, <2>2 DEF StoreType, Stores
  <2>4. StoreType' /\ store' = [store EXCEPT ![On] = o] /\ UNCHANGED lag
    BY <2>1, <2>3, WriteTyped DEF Write
  <2>5. Program'
    BY <1>1, <2>1, ProgramGoes
  <2>6. World'
    BY <1>1, <2>1, <2>2, <2>4, WorldGoes
  <2> QED
    BY <1>1, <1>2, <2>1, <2>2, <2>4, <2>5, <2>6 DEF Goes, Works
<1> QED
  BY <1>3, <1>4, <1>5, <1>6 DEF Validate

\* The call that changes a cluster object.
LEMMA PatchGoes ==
    ASSUME LifecycleType, StoreType, Program, World, UNCHANGED edits, Patch
    PROVE  Goes
<1>1. /\ todo # <<>> /\ At("patch") /\ On \in ClusterObjects /\ On \in Objects
      /\ Head(todo) \in Resets \cup Refers /\ held \in Data \cup {None}
  BY Kinds, ObjectsApart DEF Patch, At, World
<1>2. With \in Data
  <2>1. With = Nothing \/ With \in Hosts \X Named
    BY <1>1 DEF Resets, Refers, With
  <2>2. Named \subseteq Objects
    BY ObjectsApart
  <2>3. Hosts \X Objects \subseteq Data /\ Nothing \in Data
    BY DataAssumption, Zenon DEF Hosts
  <2>4. Hosts \X Named \subseteq Hosts \X Objects
    BY <2>2
  <2> QED
    BY <2>1, <2>3, <2>4, Zenon
<1>3. Head(todo) \notin Takes
  BY <1>1 DEF At, Takes
<1>4. store \in [Objects -> Kept \cup {None}] /\ store[On] \in Kept
  BY <1>1 DEF StoreType, Stores, World
<1> DEFINE o == [store[On] EXCEPT !.data = With]
<1>5. o \in Kept /\ o.data = With /\ [store EXCEPT ![On].data = With] = [store EXCEPT ![On] = o]
  BY <1>1, <1>2, <1>4 DEF Kept
<1> HIDE DEF o
<1>6. UNCHANGED <<cr, pass, held, lag>> /\ todo' = Tail(todo)
  BY DEF Patch, Skip, Advance, Write, objects
<1>7. Program'
  BY <1>1, <1>3, <1>6, ProgramGoes
<1>8. CASE Skip /\ cache[On].data = With
  <2>1. UNCHANGED <<store, behind>>
    BY <1>8 DEF Skip, objects
  <2>2. World' /\ StoreType'
    BY <1>1, <1>6, <2>1, WorldGoes DEF StoreType
  <2> QED
    BY <1>1, <1>6, <1>7, <1>8, <2>1, <2>2 DEF Goes, Works
<1>9. CASE Write([store EXCEPT ![On] = o])
  <2>1. [store EXCEPT ![On] = o] \in Stores
    BY <1>4, <1>5 DEF Stores
  <2>2. StoreType' /\ store' = [store EXCEPT ![On] = o]
    BY <1>9, <2>1, WriteTyped DEF Write
  <2>3. World'
    BY <1>1, <1>5, <1>6, <2>2, WorldGoes
  <2> QED
    BY <1>1, <1>5, <1>6, <1>7, <2>2, <2>3 DEF Goes, Works
<1> QED
  BY <1>5, <1>8, <1>9 DEF Patch

\* The worker's calls.
LEMMA CallGoes ==
    ASSUME LifecycleType, StoreType, Program, World, UNCHANGED edits,
           Generate \/ Put \/ Patch \/ Validate \/ Read \/ Own \/ Paste
    PROVE  Goes
BY MakersGo, TakersGo, PatchGoes

\* What happens around the pass.
LEMMA OthersGo ==
    ASSUME LifecycleType, StoreType, Program, World,
           \/ Users \/ DeliverCR \/ DeliverObjects \/ CallFails \/ Crash
           \/ ChangeGiven \/ ChangeMade \/ GarbageCollector
    PROVE  /\ StoreType' /\ Program' /\ UNCHANGED lag
           /\ \A n \in ClusterObjects : store'[n] = store[n]
           /\ \/ UNCHANGED <<pass, todo, held>>
              \/ pass' = None /\ todo' = <<>> /\ held' = None
<1>0. store \in [Objects -> Kept \cup {None}]
  BY DEF StoreType, Stores
<1>1. ChangeGiven \/ ChangeMade =>
        \E n \in Made \cup Given, o \in Kept \cup {None} : Change(n, o)
  <2>1. \A d \in Typed \cup {Opaque} : d \in Data
    <3>1. Typed \subseteq Data /\ Opaque \in Data
      BY DataAssumption, Zenon
    <3> QED
      BY <3>1
  <2>2. \A d \in Typed \cup {Opaque} : [data |-> d, owner |-> 0] \in Kept
    BY <2>1 DEF Kept
  <2>3. \A n \in Given : store[n] # None => store[n] \in Kept
    BY <1>0, ObjectsApart
  <2>4. \A n \in Given, d \in Typed : store[n] # None => [store[n] EXCEPT !.data = d] \in Kept
    <3> SUFFICES ASSUME NEW n \in Given, NEW d \in Typed, store[n] # None
                 PROVE  [store[n] EXCEPT !.data = d] \in Kept
      OBVIOUS
    <3>1. store[n] \in Kept /\ d \in Data
      BY <2>1, <2>3
    <3> QED
      BY <3>1 DEF Kept
  <2>5. CASE ChangeMade
    BY <2>5 DEF ChangeMade
  <2>6. ASSUME NEW n \in Given, Change(n, None)
        PROVE  \E m \in Made \cup Given, o \in Kept \cup {None} : Change(m, o)
    BY <2>6
  <2>7. ASSUME NEW n \in Given, NEW d \in Typed \cup {Opaque}, Change(n, [data |-> d, owner |-> 0])
        PROVE  \E m \in Made \cup Given, o \in Kept \cup {None} : Change(m, o)
    BY <2>2, <2>7
  <2>8. ASSUME NEW n \in Given, NEW d \in Typed, store[n] # None,
               Change(n, [store[n] EXCEPT !.data = d])
        PROVE  \E m \in Made \cup Given, o \in Kept \cup {None} : Change(m, o)
    BY <2>4, <2>8
  <2> QED
    BY <2>5, <2>6, <2>7, <2>8 DEF ChangeGiven
<1>2. /\ StoreType'
      /\ \/ UNCHANGED <<pass, todo, held>>
         \/ pass' = None /\ todo' = <<>> /\ held' = None
  BY <1>1, OthersDo, ObjectsApart DEF GarbageCollector
<1>3. UNCHANGED lag /\ \A m \in ClusterObjects : store'[m] = store[m]
  <2>1. CASE Users \/ DeliverCR \/ DeliverObjects \/ CallFails \/ Crash
    BY <2>1 DEF Users, DeliverCR, DeliverObjects, CallFails, Crash, objects
  <2>2. ASSUME NEW n \in Made \cup Given, NEW o \in Kept \cup {None},
               Write([store EXCEPT ![n] = o])
        PROVE  UNCHANGED lag /\ \A m \in ClusterObjects : store'[m] = store[m]
    <3>1. store' = [store EXCEPT ![n] = o] /\ UNCHANGED lag
      BY <2>2 DEF Write
    <3> QED
      BY <1>0, <3>1, ObjectsApart
  <2> QED
    BY <1>1, <2>1, <2>2 DEF GarbageCollector, Collect, Change
<1>4. Program'
  <2>1. CASE UNCHANGED <<pass, todo, held>>
    BY <2>1 DEF Program
  <2>2. CASE pass' = None /\ todo' = <<>> /\ held' = None
    <3>1. todo' \in Seq(Steps) /\ Preceded(todo', Pastes, Takes)
      BY <2>2 DEF Preceded
    <3> QED
      BY <2>2, <3>1 DEF Program
  <2> QED
    BY <1>2, <2>1, <2>2
<1> QED
  BY <1>2, <1>3, <1>4

\* The start of a pass.
LEMMA StartGoes ==
    ASSUME LifecycleType', StoreType, Start
    PROVE  /\ StoreType' /\ Program' /\ UNCHANGED <<store, lag, held, edits>>
           /\ pass' = None => todo' = <<>>
           /\ pass' # None => pass' \in CRs /\ todo' = Plan(pass')
<1>1. StoreType' /\ UNCHANGED <<store, lag, held, edits>>
  BY DEF Start, StartPass, objects, budgets, StoreType
<1>2. CASE pass' = None
  <2>1. todo' = <<>>
    BY <1>2 DEF Start
  <2>2. todo' \in Seq(Steps) /\ Preceded(todo', Pastes, Takes)
    BY <2>1 DEF Preceded
  <2> QED
    BY <1>1, <1>2, <2>1, <2>2 DEF Program
<1>3. CASE pass' # None
  <2>1. pass' \in CRs /\ todo' = Plan(pass')
    BY <1>3 DEF Start, LifecycleType
  <2> QED
    BY <1>1, <1>3, <2>1, PlanOrderly DEF Program, Orderly
<1> QED
  BY <1>2, <1>3

\* The end of a pass that made all its calls.
LEMMA EndGoes ==
    ASSUME StoreType, World, EndPass
    PROVE  /\ StoreType' /\ Program' /\ World' /\ UNCHANGED store
           /\ pass' = None /\ todo = <<>> /\ todo' = <<>>
<1>1. /\ UNCHANGED <<store, behind, lag, edits>> /\ held' = None /\ todo = <<>> /\ todo' = <<>>
      /\ pass' = None
  BY DEF EndPass, objects, budgets, Complete, Report, Finish, End
<1>2. todo' \in Seq(Steps) /\ Preceded(todo', Pastes, Takes)
  BY <1>1 DEF Preceded
<1> QED
  BY <1>1, <1>2 DEF StoreType, Program, World

\* Every step keeps the types.
LEMMA TypesStep == Types /\ [LateNext]_vars => Types'
<1> SUFFICES ASSUME Types, [LateNext]_vars PROVE Types'
  OBVIOUS
<1>0. /\ LifecycleInv' /\ LifecycleType' /\ LifecycleType /\ StoreType /\ Program /\ World
      /\ edits' \in Nat
  <2>1. LifecycleInv' /\ LifecycleType /\ StoreType /\ Program /\ World
    BY NextLifecycle, LifecycleStep DEF Types, LifecycleInv
  <2>2. edits' \in {edits, edits + 1}
    BY Edits DEF ChangeGiven, ChangeMade, Change
  <2> QED
    BY <2>1, <2>2 DEF LifecycleInv, World
<1> SUFFICES StoreType' /\ Program' /\ World'
  BY <1>0 DEF Types
<1>1. CASE Start
  BY <1>0, <1>1, StartGoes DEF World
<1>2. CASE Generate \/ Put \/ Patch \/ Validate \/ Read \/ Own \/ Paste
  <2>1. UNCHANGED edits
    BY <1>2 DEF Generate, Put, Patch, Validate, Read, Own, Paste, CreateOrUpdate, Skip, Advance,
                Fails, budgets
  <2> QED
    BY <1>0, <1>2, <2>1, CallGoes DEF Goes
<1>3. CASE EndPass
  BY <1>0, <1>3, EndGoes
<1>4. CASE \/ Users \/ DeliverCR \/ DeliverObjects \/ CallFails \/ Crash
           \/ ChangeGiven \/ ChangeMade \/ GarbageCollector
  BY <1>0, <1>4, OthersGo DEF World
<1>5. CASE UNCHANGED vars
  BY <1>0, <1>5 DEF vars, lifecycle, objects, program, budgets, StoreType, Program, World
<1> QED
  BY <1>1, <1>2, <1>3, <1>4, <1>5 DEF LateNext, Next, Worker, Calls

\* The initial states: no cluster object names what the controller or the user makes.
NothingDangling == \A b \in Before : b[2] \notin Made \cup Given

\* The types, and what the finalizer is for, of the initial states.
LEMMA InitTyped == Init => Types /\ Guarded /\ Cleaning /\ (NothingDangling => Names)
<1> SUFFICES ASSUME Init PROVE Types /\ Guarded /\ Cleaning /\ (NothingDangling => Names)
  OBVIOUS
<1> DEFINE t == CHOOSE d \in Typed : TRUE
<1>1. PICK b \in Before :
         StageInit([n \in Objects |->
                      IF n \in ClusterObjects THEN [data |-> b, owner |-> 0]
                      ELSE IF n \in Given THEN [data |-> t, owner |-> 0]
                      ELSE None],
                   Made \cup Given)
  BY DEF Init
<1>2. b \in Data /\ t \in Data
  <2>1. Typed # {} /\ Typed \subseteq Data /\ Before \subseteq Data
    BY DataAssumption, Zenon
  <2>2. t \in Typed
    BY <2>1
  <2> HIDE DEF t
  <2> QED
    BY <2>1, <2>2
<1> DEFINE x == [data |-> b, owner |-> 0]  y == [data |-> t, owner |-> 0]
<1>3. /\ LifecycleInit /\ behind = <<>> /\ lag \in Lags /\ todo = <<>> /\ held = None /\ edits = 0
      /\ store = [n \in Objects |-> IF n \in ClusterObjects THEN x
                                    ELSE IF n \in Given THEN y ELSE None]
  BY <1>1 DEF StageInit
<1>4. x \in Kept /\ y \in Kept /\ x # None /\ y # None /\ x.data = b /\ y.owner = 0
  <2> HIDE DEF t
  <2>1. x \in Kept /\ y \in Kept /\ x.data = b /\ y.owner = 0
    BY <1>2 DEF Kept
  <2> HIDE DEF x, y
  <2> QED
    BY <2>1, NoneAssumption
<1> HIDE DEF x, y, t
<1>5. pass = None /\ cr = None /\ lag \in Nat
  BY <1>3, BoundsAssumption DEF LifecycleInit
<1>6. LifecycleInv
  BY <1>3, LifecycleInitHolds
<1>7. StoreType
  <2>1. store \in Stores /\ behind \in Seq(Stores) /\ Len(behind) = 0
    BY <1>3, <1>4 DEF Stores
  <2> QED
    BY <1>5, <2>1 DEF StoreType
<1>8. Program
  BY <1>3 DEF Program, Preceded
<1>9. \A n \in ClusterObjects : store[n] # None /\ store[n].data = b
  BY <1>3, <1>4, ObjectsApart
<1>10. World
  BY <1>3, <1>5, <1>9 DEF World
<1>11. Guarded /\ Cleaning
  BY <1>5, <1>9 DEF Guarded, Original, Cleaning
<1>12. InPlaceStays
  BY <1>3, <1>4, ObjectsApart DEF InPlaceStays
<1>13. NothingDangling => References
  BY <1>9, ObjectsApart DEF NothingDangling, References
<1>14. Lasting /\ Dated
  <2>1. Seen = {store}
    BY <1>3 DEF Seen
  <2>2. \A m \in Made : store[m] = None
    BY <1>3, ObjectsApart
  <2> QED
    BY <1>5, <2>1, <2>2 DEF Lasting, Dated
<1> QED
  BY <1>5, <1>6, <1>7, <1>8, <1>10, <1>11, <1>12, <1>13, <1>14 DEF Types, Names, Provided

\* What a step does to the pass and to the store: it starts a pass, makes one of its calls,
\* ends it, or lets it wait.
Starts == UNCHANGED store /\ pass' \in CRs /\ todo' = Plan(pass')
Ends   == UNCHANGED store /\ pass' = None /\ todo' = <<>>
Waits  == /\ UNCHANGED <<pass, todo>>
          /\ \A n \in ClusterObjects : store'[n] = store[n]
          /\ ChangeGiven \/ ChangeMade \/ GarbageCollector \/ UNCHANGED store

\* There are no other steps.
LEMMA Moves ==
    ASSUME Types, Types', [LateNext]_vars
    PROVE  /\ Starts \/ Works \/ Ends \/ Waits
           /\ EndPass => todo = <<>> /\ UNCHANGED store
<1>0. /\ LifecycleType /\ LifecycleType' /\ StoreType /\ Program /\ World
  BY DEF Types, LifecycleInv
<1>1. CASE Start
  BY <1>0, <1>1, StartGoes, EndGoes DEF Starts, Ends
<1>2. CASE Generate \/ Put \/ Patch \/ Validate \/ Read \/ Own \/ Paste
  <2>1. UNCHANGED edits
    BY <1>2 DEF Generate, Put, Patch, Validate, Read, Own, Paste, CreateOrUpdate, Skip, Advance,
                Fails, budgets
  <2>2. EndPass => todo = <<>>
    BY DEF EndPass
  <2>3. todo # <<>>
    BY <1>2 DEF Generate, Put, Patch, Validate, Read, Own, Paste, At
  <2> QED
    BY <1>0, <1>2, <2>1, <2>2, <2>3, CallGoes DEF Goes, Ends
<1>3. CASE EndPass
  BY <1>0, <1>3, EndGoes DEF Ends
<1>4. CASE CallFails \/ Crash
  BY <1>0, <1>4, EndGoes DEF CallFails, Crash, Abort, Report, End, Restart, objects, Ends
<1>5. CASE Users \/ DeliverCR \/ DeliverObjects \/ UNCHANGED vars
  <2>1. UNCHANGED <<pass, todo, store>>
    BY <1>5 DEF Users, Create, Edit, Delete, DeliverCR, Deliver, DeliverObjects, objects, program,
                vars, lifecycle
  <2> QED
    BY <1>0, <2>1, EndGoes DEF Waits
<1>6. CASE ChangeGiven \/ ChangeMade \/ GarbageCollector
  <2>1. UNCHANGED <<pass, todo>>
    BY <1>6 DEF ChangeGiven, ChangeMade, GarbageCollector, Change, Collect, program
  <2> QED
    BY <1>0, <1>6, <2>1, OthersGo, EndGoes DEF Waits
<1> QED
  BY <1>1, <1>2, <1>3, <1>4, <1>5, <1>6 DEF LateNext, Next, Worker, Calls

\* What a call does to which object.
LEMMA WorksOn ==
    ASSUME StoreType, Program, Works
    PROVE  /\ todo # <<>> /\ pass # None /\ UNCHANGED <<cr, pass>>
           /\ On \in ClusterObjects =>
                 /\ \/ store'[On].data = With
                    \/ UNCHANGED store /\ At("patch") /\ cache[On].data = With
                 /\ \/ Head(todo) \in Resets /\ With = Nothing
                    \/ Head(todo) \in Refers /\ With[2] \in Named
           /\ \A n \in ClusterObjects : n # On => store'[n] = store[n]
           /\ \A m \in Made : m # On => store'[m] = store[m]
           /\ On \in Made => \/ store'[On] = store[On]
                             \/ store'[On] # None /\ store'[On].owner = pass.uid
           /\ \A m \in Made : Head(todo) \in Making(m) =>
                 /\ m = On
                 /\ \/ store'[m] # None /\ store'[m].owner = pass.uid
                    \/ UNCHANGED store /\ cache[m] # None /\ cache[m].owner = pass.uid
           /\ store'["user-in-config"] = store["user-in-config"]
<1>0. /\ todo # <<>> /\ pass # None /\ UNCHANGED <<cr, pass>>
      /\ store \in [Objects -> Kept \cup {None}]
  BY Kinds DEF Works, StoreType, Stores
<1>1. On \in Made \/ On \in Given \/ On \in ClusterObjects
  BY <1>0, Kinds, ObjectsApart
<1>2. On \in Objects
  BY <1>1, ObjectsApart
<1>3. /\ Head(todo) \in Validates \cup Takes => On \notin ClusterObjects
      /\ \A m \in Made : Head(todo) \in Making(m) =>
            On = m /\ Head(todo) \notin Validates \cup Takes
      /\ Head(todo) \in Resets => With = Nothing
      /\ Head(todo) \in Refers => With \in Hosts \X Named
  BY ObjectsApart DEF Validates, Takes, Making, Puts, Generates, Pastes, On, Resets, Refers, With
<1>4. CASE UNCHANGED store /\ Head(todo) \in Validates \cup Takes
  BY <1>0, <1>3, <1>4
<1>5. CASE UNCHANGED store /\ On \in Made /\ cache[On] # None /\ cache[On].owner = pass.uid
  BY <1>0, <1>3, <1>5, ObjectsApart
<1>6. CASE /\ UNCHANGED store /\ On \in ClusterObjects /\ Head(todo) \in Resets \cup Refers
           /\ At("patch") /\ cache[On].data = With
  BY <1>0, <1>3, <1>6, ObjectsApart
<1>7. ASSUME NEW o \in Kept, store' = [store EXCEPT ![On] = o],
             \/ On \in Made /\ o.owner = pass.uid
             \/ On = "user" /\ Head(todo) \in Takes
             \/ On \in ClusterObjects /\ Head(todo) \in Resets \cup Refers /\ o.data = With
      PROVE  /\ On \in ClusterObjects => /\ store'[On].data = With
                                         /\ Head(todo) \in Resets \cup Refers
             /\ \A n \in ClusterObjects : n # On => store'[n] = store[n]
             /\ \A m \in Made : m # On => store'[m] = store[m]
             /\ On \in Made => store'[On] # None /\ store'[On].owner = pass.uid
             /\ store'["user-in-config"] = store["user-in-config"]
  <2>1. store'[On] = o /\ o # None /\ \A n \in Objects : n # On => store'[n] = store[n]
    BY <1>0, <1>2, <1>7, NoneAssumption
  <2>2. On \in Made => o.owner = pass.uid
    BY <1>7, ObjectsApart
  <2>3. On # "user-in-config"
    BY <1>7, ObjectsApart
  <2> QED
    BY <1>3, <1>7, <2>1, <2>2, <2>3, ObjectsApart
<1>8. ASSUME NEW o \in Kept, store' = [store EXCEPT ![On] = o],
             \/ On \in Made /\ o.owner = pass.uid
             \/ On = "user" /\ Head(todo) \in Takes
             \/ On \in ClusterObjects /\ Head(todo) \in Resets \cup Refers /\ o.data = With
      PROVE  /\ On \in ClusterObjects =>
                   /\ store'[On].data = With
                   /\ \/ Head(todo) \in Resets /\ With = Nothing
                      \/ Head(todo) \in Refers /\ With[2] \in Named
             /\ \A m \in Made : Head(todo) \in Making(m) =>
                   m = On /\ store'[m] # None /\ store'[m].owner = pass.uid
  BY <1>3, <1>7, <1>8
<1> QED
  BY <1>0, <1>4, <1>5, <1>6, <1>7, <1>8 DEF Works

-----------------------------------------------------------------------------
(* The finalizer puts the cluster objects back.                            *)

\* Only the end of a finalization takes the finalizer away.
LEMMA Finalizers ==
    ASSUME LifecycleType, [LateNext]_vars, cr # None, cr.finalizer
    PROVE  \/ cr' # None /\ cr'.finalizer
           \/ EndPass /\ pass # None /\ pass.deleting
<1> DEFINE Stays == cr' # None /\ cr'.finalizer
<1>0. cr \in CRs
  BY DEF LifecycleType
<1>1. CASE UNCHANGED cr
  BY <1>1
<1>2. CASE Start
  BY <1>0, <1>2, NoObjectAssumption DEF Start, StartPass, Begin, Adopt
<1>3. CASE Generate \/ Calls
  <2>1. Fails \/ EndPass \/ UNCHANGED cr
    BY <1>3 DEF Generate, Calls, Put, Patch, Validate, Read, Own, Paste, CreateOrUpdate, Skip,
                Advance
  <2>2. Fails \/ (EndPass /\ ~pass.deleting) => Stays
    BY <1>0, NoObjectAssumption DEF Fails, Abort, EndPass, Complete, Report, End, CRs
  <2>3. EndPass => pass # None
    BY DEF EndPass
  <2> QED
    BY <2>1, <2>2, <2>3
<1>4. CASE Create
  BY <1>4 DEF Create
<1>5. CASE Edit
  BY <1>0, <1>5, EditKeeps, NoObjectAssumption
<1>6. CASE Delete
  BY <1>0, <1>6, NoObjectAssumption DEF Delete, CRs
<1>7. CASE CallFails
  BY <1>0, <1>7, NoObjectAssumption DEF CallFails, Abort, Report, End, CRs
<1>8. CASE \/ Crash \/ DeliverCR \/ DeliverObjects \/ ChangeGiven \/ ChangeMade
           \/ GarbageCollector \/ UNCHANGED vars
  BY <1>8 DEF Crash, Restart, DeliverCR, Deliver, DeliverObjects, ChangeGiven, ChangeMade, Change,
              GarbageCollector, Collect, vars, lifecycle
<1> QED
  BY <1>2, <1>3, <1>4, <1>5, <1>6, <1>7, <1>8 DEF LateNext, Next, Worker, Users

\* Every step keeps a finalization on its way.
LEMMA CleaningStep ==
    Types /\ Cleaning /\ CleanupsInformed /\ [LateNext]_vars => Cleaning'
<1> SUFFICES ASSUME Types, Cleaning, CleanupsInformed, [LateNext]_vars, (pass # None /\ pass.deleting)'
             PROVE  /\ \A i \in 1..Len(todo') : todo'[i] \in Resets
                    /\ \A n \in ClusterObjects :
                          store'[n].data = Nothing \/ \E i \in 1..Len(todo') : todo'[i].on = n
  BY DEF Cleaning
<1>0. Types' /\ StoreType /\ Program
  BY TypesStep DEF Types
<1>1. CASE Starts
  <2>1. todo' = CleanupPlan
    BY <1>1 DEF Starts, Plan
  <2> QED
    BY <2>1, CleanupPlanResets
<1>2. CASE Works
  <2>1. /\ todo # <<>> /\ pass # None /\ UNCHANGED pass /\ todo' = Tail(todo)
        /\ On \in ClusterObjects => \/ store'[On].data = With
                                    \/ UNCHANGED store /\ At("patch") /\ cache[On].data = With
        /\ \A n \in ClusterObjects : n # On => store'[n] = store[n]
    BY <1>0, <1>2, WorksOn DEF Works
  <2>2. /\ \A i \in 1..Len(todo) : todo[i] \in Resets
        /\ \A n \in ClusterObjects :
              store[n].data = Nothing \/ \E i \in 1..Len(todo) : todo[i].on = n
    BY <2>1 DEF Cleaning
  <2>3. /\ Head(todo) \in Resets /\ \A i \in 1..Len(todo') : todo'[i] \in Resets
        /\ \A n : (\E i \in 1..Len(todo) : todo[i].on = n) =>
                     On = n \/ \E i \in 1..Len(todo') : todo'[i].on = n
    <3>1. todo \in Seq(Steps)
      BY <1>0 DEF Program
    <3>2. Head(todo) \in Resets /\ \A i \in 1..Len(Tail(todo)) : Tail(todo)[i] \in Resets
      BY <2>1, <2>2, <3>1, Rests
    <3>3. \A n : (\E i \in 1..Len(todo) : todo[i].on = n) =>
                    Head(todo).on = n \/ \E i \in 1..Len(Tail(todo)) : Tail(todo)[i].on = n
      BY <2>1, <3>1, Rests
    <3> QED
      BY <2>1, <3>2, <3>3 DEF On
  <2>4. With = Nothing /\ On \in ClusterObjects /\ store'[On].data = With
    BY <2>1, <2>3 DEF Resets, With, On, CleanupsInformed
  <2>5. ASSUME NEW n \in ClusterObjects
        PROVE  store'[n].data = Nothing \/ \E i \in 1..Len(todo') : todo'[i].on = n
    <3>1. CASE n = On
      BY <2>4, <3>1
    <3>2. CASE n # On
      <4>1. store'[n] = store[n]
        BY <2>1, <3>2
      <4> QED
        BY <2>2, <2>3, <3>2, <4>1
    <3> QED
      BY <3>1, <3>2
  <2> QED
    BY <2>3, <2>5
<1>3. CASE Ends
  BY <1>3 DEF Ends
<1>4. CASE Waits
  BY <1>4 DEF Waits, Cleaning
<1> QED
  BY <1>0, <1>1, <1>2, <1>3, <1>4, Moves

\* Every step keeps what is changed guarded by a finalizer.
LEMMA GuardedStep == Types /\ Guarded /\ Cleaning /\ [LateNext]_vars => Guarded'
<1> SUFFICES ASSUME Types, Guarded, Cleaning, [LateNext]_vars, NEW n \in ClusterObjects
             PROVE  Original(n)' \/ (cr' # None /\ cr'.finalizer)
  BY DEF Guarded
<1>0. Types' /\ LifecycleType /\ StoreType /\ Program /\ Held
  BY TypesStep DEF Types, LifecycleInv
<1>1. CASE cr # None /\ cr.finalizer
  <2>1. CASE EndPass /\ pass # None /\ pass.deleting
    <3>1. todo = <<>> /\ UNCHANGED store
      BY <1>0, <2>1, Moves
    <3>2. store[n].data = Nothing
      BY <2>1, <3>1 DEF Cleaning
    <3> QED
      BY <3>1, <3>2 DEF Original
  <2> QED
    BY <1>0, <1>1, <2>1, Finalizers
<1>2. CASE Original(n)
  <2>1. CASE Starts \/ Ends \/ Waits
    BY <1>2, <2>1 DEF Starts, Ends, Waits, Original
  <2>2. CASE Works
    <3>1. /\ todo # <<>> /\ pass # None /\ UNCHANGED <<cr, pass>>
          /\ On \in ClusterObjects => store'[On].data = With \/ UNCHANGED store
          /\ n # On => store'[n] = store[n]
      BY <1>0, <2>2, WorksOn
    <3>2. CASE ~pass.deleting
      BY <1>0, <3>1, <3>2 DEF Held
    <3>3. CASE pass.deleting
      <4>1. Head(todo) \in Resets
        BY <1>0, <3>1, <3>3, Rests DEF Cleaning, Program
      <4>2. With = Nothing
        BY <4>1 DEF Resets, With
      <4> QED
        BY <1>2, <3>1, <4>2 DEF Original
    <3> QED
      BY <3>2, <3>3
  <2> QED
    BY <1>0, <2>1, <2>2, Moves
<1> QED
  BY <1>1, <1>2 DEF Guarded

-----------------------------------------------------------------------------
(* What the cluster objects name is there.                                 *)

\* Who is the owner of what is made.
LEMMA Owner ==
    ASSUME LifecycleInv, pass # None, ~pass.deleting
    PROVE  cr # None /\ cr.uid = pass.uid
BY DEF LifecycleInv, Held

\* The certificate that is used in place stays, unless a user takes it away.
LEMMA InPlaceStep ==
    ASSUME Types, InPlaceStays, [LateNext]_vars, UNCHANGED edits
    PROVE  InPlaceStays'
<1>0. Types' /\ StoreType /\ Program /\ edits \in Nat /\ "user-in-config" \in Objects
      /\ store \in [Objects -> Kept \cup {None}]
  BY TypesStep, ObjectsApart DEF Types, StoreType, Stores, World
<1>1. CASE Works
  BY <1>0, <1>1, WorksOn DEF InPlaceStays
<1>2. CASE GarbageCollector
  <2>1. PICK n \in Made \cup Given : Collect(n)
    BY <1>2 DEF GarbageCollector
  <2>2. store' = [store EXCEPT ![n] = None] /\ store[n].owner # 0
    BY <2>1 DEF Collect, Write
  <2> QED
    BY <1>0, <2>2 DEF InPlaceStays
<1>3. CASE UNCHANGED store
  BY <1>3 DEF InPlaceStays
<1>4. ~(ChangeGiven \/ ChangeMade)
  <2>1. ChangeGiven \/ ChangeMade => edits' = edits + 1
    BY DEF ChangeGiven, ChangeMade, Change
  <2> QED
    BY <1>0, <2>1
<1> QED
  BY <1>0, <1>1, <1>2, <1>3, <1>4, Moves DEF Starts, Ends, Waits

\* What an object of the present ClusterRelocation is, it stays.
LEMMA SoundStays ==
    ASSUME Types, [LateNext]_vars, UNCHANGED edits, Waits, NEW m \in Made, cr # None, Sound(m, cr)
    PROVE  store'[m] = store[m]
<1>0. m \in Objects /\ store \in [Objects -> Kept \cup {None}] /\ edits \in Nat
  BY ObjectsApart DEF Types, StoreType, Stores, World
<1>1. CASE GarbageCollector
  <2>1. PICK n \in Made \cup Given : Collect(n)
    BY <1>1 DEF GarbageCollector
  <2>2. store' = [store EXCEPT ![n] = None] /\ cr.uid # store[n].owner
    BY <2>1 DEF Collect, Write
  <2> QED
    BY <1>0, <2>2 DEF Sound
<1>2. ~(ChangeGiven \/ ChangeMade)
  <2>1. ChangeGiven \/ ChangeMade => edits' = edits + 1
    BY DEF ChangeGiven, ChangeMade, Change
  <2> QED
    BY <1>0, <2>1
<1> QED
  BY <1>1, <1>2 DEF Waits

\* The same of every step, as long as its ClusterRelocation is there.
LEMMA SoundRemains ==
    ASSUME Types, Cleaning, [LateNext]_vars, UNCHANGED edits, NEW m \in Made, cr # None, Sound(m, cr),
           cr' # None, cr'.uid = cr.uid
    PROVE  Sound(m, cr)'
<1>0. Types' /\ StoreType /\ Program /\ LifecycleInv
  BY TypesStep DEF Types
<1>1. CASE Starts \/ Ends
  BY <1>1 DEF Starts, Ends, Sound
<1>2. CASE Waits
  BY <1>2, SoundStays DEF Sound
<1>3. CASE Works
  <2>1. /\ todo # <<>> /\ pass # None
        /\ \/ store'[m] = store[m]
           \/ m = On /\ store'[m] # None /\ store'[m].owner = pass.uid
    BY <1>0, <1>3, WorksOn
  <2>2. ~pass.deleting => cr.uid = pass.uid
    BY <1>0, <2>1, Owner
  <2>3. pass.deleting => Head(todo) \in Resets
    BY <1>0, <2>1, Rests DEF Cleaning, Program
  <2>4. Head(todo) \in Resets => On \notin Made
    BY ObjectsApart DEF Resets, On
  <2> QED
    BY <2>1, <2>2, <2>3, <2>4 DEF Sound
<1> QED
  BY <1>0, <1>1, <1>2, <1>3, Moves

\* A late copy shows nothing of the present ClusterRelocation that is not there.
LEMMA LastingStep ==
    ASSUME Types, Cleaning, Lasting, Dated, [LateNext]_vars, UNCHANGED edits
    PROVE  Lasting'
<1>0. LifecycleType /\ StoreType /\ [LifecycleNext]_lifecycle /\ Seen' \subseteq Seen \cup {store'}
  BY NextLifecycle, Backlog DEF Types, LifecycleInv
<1> SUFFICES ASSUME cr' # None, NEW s \in Seen', NEW m \in Made, s[m] # None, s[m].owner = cr'.uid
             PROVE  Sound(m, cr)'
  BY DEF Lasting
<1>1. CASE s = store'
  BY <1>1 DEF Sound
<1>2. CASE s \in Seen
  <2>1. s[m].owner \in 0..uids /\ uids \in Nat
    BY <1>0, <1>2 DEF Dated, LifecycleType
  <2>2. ~Create
    BY <2>1 DEF Create
  <2>3. cr # None /\ cr'.uid = cr.uid
    BY <1>0, <2>2, SameObject
  <2>4. Sound(m, cr)
    BY <1>2, <2>3 DEF Lasting
  <2> QED
    BY <2>3, <2>4, SoundRemains
<1> QED
  BY <1>0, <1>1, <1>2

\* Only a pass makes objects its ClusterRelocation owns, and that has been created.
LEMMA DatedStep ==
    ASSUME Types, Dated, [LateNext]_vars, UNCHANGED edits
    PROVE  Dated'
<1>0. /\ Types' /\ LifecycleType /\ OldUIDs /\ StoreType /\ Program /\ edits \in Nat
      /\ [LifecycleNext]_lifecycle /\ Seen' \subseteq Seen \cup {store'}
  BY NextLifecycle, Backlog, TypesStep DEF Types, LifecycleInv, World
<1>1. 0..uids \subseteq 0..uids'
  <2>1. uids \in Nat /\ uids' \in {uids, uids + 1}
    BY <1>0, SameObject DEF LifecycleType
  <2> QED
    BY <2>1
<1>2. ASSUME NEW m \in Made, store'[m] # None PROVE store'[m].owner \in 0..uids
  <2>1. store[m] # None => store[m].owner \in 0..uids
    BY DEF Dated, Seen
  <2>2. CASE Starts \/ Ends
    BY <1>2, <2>1, <2>2 DEF Starts, Ends
  <2>3. CASE Works
    <3>1. /\ pass # None
          /\ store'[m] = store[m] \/ store'[m].owner = pass.uid
      BY <1>0, <2>3, WorksOn
    <3>2. pass.uid \in 0..uids
      BY <1>0, <3>1 DEF OldUIDs, LifecycleType, CRs
    <3> QED
      BY <1>2, <2>1, <3>1, <3>2
  <2>4. CASE Waits
    <3>1. ~(ChangeGiven \/ ChangeMade)
      <4>1. ChangeGiven \/ ChangeMade => edits' = edits + 1
        BY DEF ChangeGiven, ChangeMade, Change
      <4> QED
        BY <1>0, <4>1
    <3>2. GarbageCollector => \E n \in Objects : store' = [store EXCEPT ![n] = None]
      BY ObjectsApart DEF GarbageCollector, Collect, Write
    <3>3. store'[m] = store[m]
      BY <1>0, <1>2, <2>4, <3>1, <3>2, ObjectsApart DEF Waits, StoreType, Stores
    <3> QED
      BY <1>2, <2>1, <3>3
  <2> QED
    BY <1>0, <2>2, <2>3, <2>4, Moves
<1> QED
  BY <1>0, <1>1, <1>2 DEF Dated

\* Objects are made before they are named, unless a user takes them away in between.
LEMMA ProvidedStep ==
    ASSUME Types, Provided, Lasting, [LateNext]_vars, UNCHANGED edits
    PROVE  Provided'
<1>0. Types' /\ StoreType /\ Program /\ LifecycleInv /\ cache \in Seen
  BY TypesStep, Backlog DEF Types
<1> SUFFICES ASSUME pass' # None, ~pass'.deleting, NEW m \in Made
             PROVE  Sound(m, pass)' \/ Preceded(todo', Naming(m), Making(m))
  BY DEF Provided
<1>1. CASE Starts
  <2>1. pass' \in CRs /\ todo' = Plan(pass')
    BY <1>1 DEF Starts
  <2>2. Orderly(Plan(pass'))
    BY <2>1, PlanOrderly
  <2>3. Preceded(Plan(pass'), Naming(m), Making(m))
    BY <2>2 DEF Orderly
  <2> QED
    BY <2>1, <2>3
<1>2. CASE Works
  <2>1. /\ todo # <<>> /\ pass # None /\ UNCHANGED pass /\ todo' = Tail(todo)
        /\ store'[m] = store[m] \/ (store'[m] # None /\ store'[m].owner = pass.uid)
        /\ Head(todo) \in Making(m) =>
              \/ store'[m] # None /\ store'[m].owner = pass.uid
              \/ UNCHANGED store /\ cache[m] # None /\ cache[m].owner = pass.uid
    BY <1>0, <1>2, WorksOn DEF Works
  <2>0. store'[m] # None /\ store'[m].owner = pass.uid => Sound(m, pass)'
    BY <2>1 DEF Sound
  <2>2. CASE Sound(m, pass)
    BY <2>0, <2>1, <2>2 DEF Sound
  <2>4. CASE UNCHANGED store /\ cache[m] # None /\ cache[m].owner = pass.uid
    <3>1. cr # None /\ cr.uid = pass.uid
      BY <1>0, <2>1, Owner
    <3>2. Sound(m, cr)
      BY <1>0, <2>4, <3>1 DEF Lasting
    <3> QED
      BY <2>1, <2>4, <3>1, <3>2 DEF Sound
  <2>3. CASE Preceded(todo, Naming(m), Making(m))
    BY <1>0, <2>0, <2>1, <2>3, <2>4, Rests DEF Program
  <2> QED
    BY <2>1, <2>2, <2>3 DEF Provided
<1>3. CASE Waits
  <2>1. UNCHANGED <<pass, todo>>
    BY <1>3 DEF Waits
  <2>2. CASE Sound(m, pass)
    <3>1. cr # None /\ Sound(m, cr)
      BY <1>0, <2>1, <2>2, Owner DEF Sound
    <3>2. store'[m] = store[m]
      BY <1>3, <3>1, SoundStays
    <3> QED
      BY <2>1, <2>2, <3>2 DEF Sound
  <2> QED
    BY <2>1, <2>2 DEF Provided
<1> QED
  BY <1>0, <1>1, <1>2, <1>3, Moves DEF Ends

\* What is named is there, unless a user takes it away.
LEMMA ReferencesStep ==
    ASSUME Types, Guarded, Cleaning, References, Provided, NothingDangling, [LateNext]_vars,
           UNCHANGED edits, NEW n \in ClusterObjects
    PROVE  /\ store'[n].data[2] # "user"
           /\ store'[n].data[2] \in Made => cr' # None /\ Sound(store[n].data[2], cr)'
<1> DEFINE name == store[n].data[2]
<1>0. /\ Types' /\ StoreType /\ Program /\ LifecycleInv /\ LifecycleType /\ Guarded'
      /\ [LifecycleNext]_lifecycle
  BY TypesStep, GuardedStep, NextLifecycle DEF Types, LifecycleInv
<1>1. Original(n)' => store'[n].data[2] \notin Made \cup Given
  BY ObjectsApart DEF Original, NothingDangling
<1>2. CASE cr' = None
  BY <1>0, <1>1, <1>2, ObjectsApart DEF Guarded
<1>3. name # "user" /\ (name \in Made => cr # None /\ Sound(name, cr))
  BY DEF References
<1>4. CASE cr' # None /\ (Starts \/ Ends \/ Waits)
  <2>1. store'[n] = store[n]
    BY <1>4 DEF Starts, Ends, Waits
  <2>2. ASSUME name \in Made PROVE cr'.uid = cr.uid /\ store'[name] = store[name]
    <3>1. ~Create
      BY <1>3, <2>2 DEF Create
    <3>2. cr'.uid = cr.uid
      BY <1>0, <1>4, <3>1, SameObject
    <3>3. CASE Starts \/ Ends
      BY <3>2, <3>3 DEF Starts, Ends
    <3>4. CASE Waits
      BY <1>3, <2>2, <3>2, <3>4, SoundStays
    <3> QED
      BY <1>4, <3>2, <3>3, <3>4
  <2> QED
    BY <1>3, <1>4, <2>1, <2>2 DEF Sound
<1>5. CASE Works
  <2>1. /\ todo # <<>> /\ pass # None /\ UNCHANGED <<cr, pass>>
        /\ On \in ClusterObjects =>
              /\ store'[On].data = With \/ UNCHANGED store
              /\ \/ Head(todo) \in Resets /\ With = Nothing
                 \/ Head(todo) \in Refers /\ With[2] \in Named
        /\ n # On => store'[n] = store[n]
        /\ \A m \in Made : \/ store'[m] = store[m]
                           \/ m = On /\ store'[m] # None /\ store'[m].owner = pass.uid
    <3> HIDE DEF name
    <3>1. StoreType /\ Program /\ Works
      BY <1>0, <1>5
    <3> QED
      BY ONLY <3>1, WorksOn
  <2>2. pass.deleting => Head(todo) \in Resets
    BY <1>0, <2>1, Rests DEF Cleaning, Program
  <2>3. Head(todo) \in Resets => On \in ClusterObjects /\ On \notin Made /\ With = Nothing
    BY ObjectsApart DEF Resets, On, With
  <2>4. ~pass.deleting => cr # None /\ cr.uid = pass.uid
    BY <1>0, <2>1, Owner
  <2>5. ASSUME NEW m \in Made, cr # None, Sound(m, cr) PROVE Sound(m, cr)'
    BY <2>1, <2>5, SoundRemains
  <2>6. CASE n # On \/ UNCHANGED store
    BY <1>3, <2>1, <2>5, <2>6
  <2>7. CASE n = On /\ store'[On].data = With /\ Head(todo) \in Resets
    BY <2>1, <2>3, <2>7, ObjectsApart
  <2>8. CASE n = On /\ store'[On].data = With /\ Head(todo) \in Refers /\ With[2] \in Named
             /\ Head(todo) \notin Resets
    <3>1. store'[n].data = With /\ With[2] \in Named /\ ~pass.deleting
      BY <2>1, <2>2, <2>8
    <3>2. ASSUME NEW m \in Made, With[2] = m PROVE Sound(m, cr)
      <4>1. Head(todo) \in Naming(m)
        BY <2>8, <3>2 DEF Naming, With
      <4>2. ~Preceded(todo, Naming(m), Making(m))
        BY <1>0, <2>1, <4>1, Rests DEF Program
      <4>3. Sound(m, pass)
        BY <2>1, <3>1, <4>2 DEF Provided
      <4> QED
        BY <2>4, <3>1, <4>3 DEF Sound
    <3>3. With[2] \in Made => cr # None /\ Sound(With[2], cr)
      BY <2>4, <3>1, <3>2
    <3>4. \A m \in Made : With[2] = m => Sound(m, cr)'
      BY <2>5, <3>3
    <3>5. With[2] # "user"
      BY <3>1, ObjectsApart
    <3> QED
      BY <2>1, <2>4, <3>1, <3>4, <3>5
  <2> QED
    BY <2>1, <2>6, <2>7, <2>8
<1> QED
  BY <1>0, <1>2, <1>4, <1>5, Moves

\* Every step keeps the invariant.
LEMMA NamesStep ==
    NothingDangling /\ Types /\ Guarded /\ Cleaning /\ Names /\ [LateNext]_vars => Names'
<1> SUFFICES ASSUME NothingDangling, Types, Guarded, Cleaning, Names, [LateNext]_vars, edits' = 0
             PROVE  References' /\ Provided' /\ InPlaceStays' /\ Lasting' /\ Dated'
  BY DEF Names
<1>1. UNCHANGED edits
  <2>1. edits \in Nat
    BY DEF Types, World
  <2>2. ChangeGiven \/ ChangeMade => edits' = edits + 1
    BY DEF ChangeGiven, ChangeMade, Change
  <2>3. edits' # edits + 1
    BY <2>1
  <2> QED
    BY <2>2, <2>3, Edits
<1>2. References /\ Provided /\ InPlaceStays /\ Lasting /\ Dated
  BY <1>1 DEF Names
<1>3. References'
  BY <1>1, <1>2, ReferencesStep DEF References
<1> QED
  BY <1>1, <1>2, <1>3, ProvidedStep, InPlaceStep, LastingStep, DatedStep

-----------------------------------------------------------------------------
(* Theorems.  They are about LateSpec, for any lag of the informers; Spec is *)
(* the case that Lags is {0}.                                              *)

\* With informers that show every write at once, as in Spec when Lags is {0}, every Cleanup
\* is informed.
THEOREM FreshAreInformed == Lags = {0} => (Spec => LateSpec /\ []CleanupsInformed)
<1> SUFFICES ASSUME Lags = {0} PROVE Spec => LateSpec /\ []CleanupsInformed
  OBVIOUS
<1> DEFINE Inv == Types /\ lag = 0
<1>1. Init => Inv
  BY InitTyped DEF Init, StageInit
<1>2. [Next]_vars => [LateNext]_vars
  BY DEF LateNext
<1>3. Inv /\ [Next]_vars => Inv'
  <2> SUFFICES ASSUME Inv, [Next]_vars PROVE Inv'
    OBVIOUS
  <2>1. Types'
    BY <1>2, TypesStep
  <2> QED
    BY <2>1, LagStays, <1>2
<1>4. Inv => CleanupsInformed
  BY FreshCopies DEF Types, CleanupsInformed
<1> QED
  BY <1>1, <1>2, <1>3, <1>4, PTL DEF Spec, LateSpec

\* Every variable has its type and a pass with calls to make is under way; what CopySecret
\* writes it has read, and the cluster's own objects are always there.
THEOREM TypeCorrect == LateSpec => []TypeOK
<1>1. Init => Types
  BY InitTyped
<1>2. Types /\ [LateNext]_vars => Types'
  BY TypesStep
<1>3. Types => TypeOK
  BY DEF Types, TypeOK, LifecycleInv, LifecycleType, StoreType, Program, World
<1> QED
  BY <1>1, <1>2, <1>3, PTL DEF LateSpec

\* The finalizer puts the cluster's objects back, if no Cleanup's CreateOrPatch misses a
\* change it would have to undo: without a ClusterRelocation they are unset, as they were
\* before it, whatever was deleted, edited, failed or restarted.
THEOREM PutsBack == Before = {Nothing} => (LateSpec /\ []CleanupsInformed => []PutBack)
<1> SUFFICES ASSUME Before = {Nothing} PROVE LateSpec /\ []CleanupsInformed => []PutBack
  OBVIOUS
<1> DEFINE Inv == Types /\ Guarded /\ Cleaning
<1>1. Init => Inv
  BY InitTyped
<1>2. Inv /\ CleanupsInformed /\ [LateNext]_vars => Inv'
  BY TypesStep, GuardedStep, CleaningStep
<1>3. Inv => PutBack
  BY DEF Guarded, Original, PutBack
<1> QED
  BY <1>1, <1>2, <1>3, PTL DEF LateSpec

\* The cluster's objects name Secrets and ConfigMaps that are there, unless a user took one
\* away, or a Cleanup's CreateOrPatch missed what it would have to undo: those of the present
\* ClusterRelocation, which the garbage collector keeps and of which no late copy deceives,
\* or one that is used in place.
THEOREM NamesAreThere ==
    NothingDangling => (LateSpec /\ []CleanupsInformed => []NothingDangles)
<1> SUFFICES ASSUME NothingDangling
             PROVE  LateSpec /\ []CleanupsInformed => []NothingDangles
  OBVIOUS
<1> DEFINE Inv == Types /\ Guarded /\ Cleaning /\ Names
<1>1. Init => Inv
  BY InitTyped
<1>2. Inv /\ CleanupsInformed /\ [LateNext]_vars => Inv'
  BY TypesStep, GuardedStep, CleaningStep, NamesStep
<1>3. Inv => NothingDangles
  <2> SUFFICES ASSUME Inv, edits = 0, NEW n \in ClusterObjects,
                      store[n].data[2] \in Made \cup Given, store[store[n].data[2]] = None
               PROVE  FALSE
    BY DEF NothingDangles, Dangling
  <2>1. References /\ InPlaceStays
    BY DEF Names
  <2>2. \A m \in Given : m = "user" \/ m = "user-in-config"
    BY DEF Given
  <2> QED
    BY <2>1, <2>2 DEF References, Sound, InPlaceStays
<1> QED
  BY <1>1, <1>2, <1>3, PTL DEF LateSpec

\* These stages and their surroundings do what Lifecycle says of the object and the pass.
THEOREM ImplementsLifecycle == LateSpec => LifecycleSpec
<1>1. Init => LifecycleInit
  BY DEF Init, StageInit
<1>2. Init => LifecycleInv
  BY LifecycleInitHolds, <1>1
<1>3. LifecycleInv /\ [LateNext]_vars => [LifecycleNext]_lifecycle
  BY NextLifecycle DEF LifecycleInv
<1>4. LifecycleInv /\ [LateNext]_vars => LifecycleInv'
  BY <1>3, LifecycleStep
<1> QED
  BY <1>1, <1>2, <1>3, <1>4, PTL DEF LateSpec, LifecycleSpec

\* A stage writes on behalf of an object only while that very object is there and carries
\* the finalizer.
THEOREM HeldAlways == LateSpec => []Held
BY ImplementsLifecycle, LifecycleHolds, PTL
=============================================================================
