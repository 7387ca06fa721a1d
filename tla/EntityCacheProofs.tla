-------------------------- MODULE EntityCacheProofs --------------------------
(***************************************************************************)
(* Machine-checked proofs about EntityCache, for any sets of objects and   *)
(* workers, any broker with or without a timeout and any bounds.           *)
(***************************************************************************)
EXTENDS EntityCache, SequenceTheorems, TLAPS

(***************************************************************************)
(* What holds of one instance of an object whose version on the bus is v   *)
(* and that is in P (on the bus) or not.                                               *)
(***************************************************************************)

\* Only a match fills a queue, and what was not read is as it was made.
QueueMatchesState(i) ==
    /\ i.state # "bound" => i.pending = <<>>
    /\ i.state = "unread" => i = Unread

\* The queue is in the order of the versions, from the value to the bus.
InOrder(x, q, v) ==
    /\ x <= v
    /\ \A k \in 1..Len(q) : x <= q[k] /\ q[k] <= v
    /\ \A j, k \in 1..Len(q) : j <= k => q[j] <= q[k]

QueueInOrder(i, v) == InOrder(i.value, i.pending, v)

\* It is behind the bus only by its queue, unless it missed a change.
StaleByQueueOnly(i, v, o, P) ==
    i.state # "unread" /\ ~i.missed /\ o \in P => Latest(i) = v

InstanceInv(i, v, o, P) ==
    QueueMatchesState(i) /\ QueueInOrder(i, v) /\ StaleByQueueOnly(i, v, o, P)

(***************************************************************************)
(* What holds of the two generations of an object during a refresh.        *)
(***************************************************************************)

\* How far the refresh has got with the draft of an object.
DraftMatchesStage(o) ==
    /\ draft[o].state = "read" <=> \/ stage = "reading" /\ o \in found \ todo
                                   \/ stage = "binding" /\ o \in todo
    /\ draft[o].state = "bound" <=> stage = "binding" /\ o \in found \ todo

\* What is live was bound as a draft; while the map is filled, what is in it is
\* what the refresh has found.
LiveMatchesStage(o) ==
    /\ live[o].state # "read"
    /\ o \in instances => live[o].state = "bound"
    /\ stage = "inserting" => /\ o \in instances <=> o \in found \ todo
                              /\ live[o].state = "bound" <=> o \in found

ObjectInv(o) ==
    /\ InstanceInv(live[o], version[o], o, present)
    /\ InstanceInv(draft[o], version[o], o, present)
    /\ DraftMatchesStage(o)
    /\ LiveMatchesStage(o)

\* The inductive invariant behind the theorems.
IInv ==
    /\ TypeOK
    /\ stage = "idle" => found = {}
    /\ \A o \in Objects : ObjectInv(o)
-----------------------------------------------------------------------------
(***************************************************************************)
(* What the steps do to one instance.                                      *)
(***************************************************************************)

\* An instance that is just made satisfies what is said of instances.
LEMMA UnreadInstance ==
    ASSUME NEW v \in Versions, NEW o, NEW P
    PROVE  Unread \in Instance /\ InstanceInv(Unread, v, o, P)
<1>1. Unread \in Instance
  BY EmptySeq DEF Unread, Instance, NA
<1>2. Len(Unread.pending) = 0
  BY EmptySeq DEF Unread
<1>3. QueueMatchesState(Unread)
  BY DEF QueueMatchesState, Unread
<1>4. QueueInOrder(Unread, v)
  BY <1>2, BoundsAssumption DEF QueueInOrder, InOrder, Unread, NA, Versions
<1>5. StaleByQueueOnly(Unread, v, o, P)
  BY DEF StaleByQueueOnly, Unread
<1>. QED  BY <1>1, <1>3, <1>4, <1>5 DEF InstanceInv

\* So does one whose GetAll was answered, and one whose GetAll failed: because
\* the object is gone, or although it is there and then it is marked.
ReadAs(x, m) == [state |-> "read", value |-> x, pending |-> <<>>, missed |-> m]

LEMMA ReadInstance ==
    ASSUME NEW v \in Versions, NEW o, NEW P,
           NEW x \in {v, NA}, NEW m \in BOOLEAN, o \in P /\ ~m => x = v
    PROVE  /\ ReadAs(x, m) \in Instance /\ ReadAs(x, m).state = "read"
           /\ InstanceInv(ReadAs(x, m), v, o, P)
<1>1. NA = 0 /\ v \in Nat
  BY BoundsAssumption DEF Versions, NA
<1>2. ReadAs(x, m) \in Instance /\ ReadAs(x, m).state = "read"
  BY EmptySeq DEF Instance, ReadAs
<1>3. Len(ReadAs(x, m).pending) = 0
  BY EmptySeq DEF ReadAs
<1>4. QueueMatchesState(ReadAs(x, m))
  BY DEF QueueMatchesState, ReadAs
<1>5. QueueInOrder(ReadAs(x, m), v)
  BY <1>1, <1>3 DEF QueueInOrder, InOrder, ReadAs
<1>6. StaleByQueueOnly(ReadAs(x, m), v, o, P)
  BY DEF StaleByQueueOnly, ReadAs, Latest
<1>. QED  BY <1>2, <1>4, <1>5, <1>6 DEF InstanceInv

LEMMA AnsweredIsRead ==
    ASSUME NEW x, NEW i, i = [fillMembers(Unread, x) EXCEPT !.state = "read"]
    PROVE  i = ReadAs(x, FALSE)
BY DEF fillMembers, Unread, ReadAs

LEMMA FailedIsRead ==
    ASSUME NEW i, i = [Unread EXCEPT !.state = "read", !.missed = TRUE]
    PROVE  i = ReadAs(NA, TRUE)
BY DEF Unread, ReadAs

\* The match keeps what was read.
LEMMA BoundInstance ==
    ASSUME NEW v \in Versions, NEW o, NEW P,
           NEW i \in Instance, InstanceInv(i, v, o, P), i.state = "read",
           NEW n, n = [i EXCEPT !.state = "bound"]
    PROVE  n \in Instance /\ n.state = "bound" /\ InstanceInv(n, v, o, P)
<1>1. /\ n \in Instance /\ n.state = "bound"
      /\ n.value = i.value /\ n.pending = i.pending /\ n.missed = i.missed
  BY DEF Instance
<1>2. QueueMatchesState(n)
  BY <1>1 DEF QueueMatchesState
<1>3. QueueInOrder(n, v)
  BY <1>1 DEF QueueInOrder, InstanceInv
<1>4. StaleByQueueOnly(n, v, o, P)
  BY <1>1 DEF StaleByQueueOnly, InstanceInv, Latest
<1>. QED  BY <1>1, <1>2, <1>3, <1>4 DEF InstanceInv

\* What a queue becomes when a version is added to it, and taken off it.
LEMMA QueuedLast ==
    ASSUME NEW q \in Seq(Versions), NEW x \in Versions
    PROVE  /\ Append(q, x) \in Seq(Versions) /\ Append(q, x) # <<>>
           /\ Len(Append(q, x)) = Len(q) + 1 /\ Len(q) \in Nat
           /\ \A k \in 1..Len(q) : Append(q, x)[k] = q[k]
           /\ Append(q, x)[Len(q) + 1] = x
<1>1. Len(q) \in Nat
  BY LenProperties
<1>2. Append(q, x) # <<>>
  BY AppendProperties
<1>. QED  BY <1>1, <1>2, AppendProperties

LEMMA TakenOff ==
    ASSUME NEW q \in Seq(Versions), q # <<>>
    PROVE  /\ Head(q) \in Versions /\ Head(q) = q[1]
           /\ Tail(q) \in Seq(Versions)
           /\ Len(q) \in Nat \ {0} /\ Len(Tail(q)) = Len(q) - 1
           /\ \A k \in 1..Len(Tail(q)) : Tail(q)[k] = q[k + 1]
<1>1. Len(q) \in Nat \ {0}
  BY EmptySeq
<1>2. Head(q) = q[1]
  <2>1. SubSeq(q, 1, Len(q)) = q
    BY SubSeqFull
  <2>2. 1 \in 1..Len(q) /\ Len(q) \in 1..Len(q)
    BY <1>1
  <2>. QED  BY <2>1, <2>2, HeadTailOfSubSeq
<1>. QED  BY <1>1, <1>2, HeadTailProperties

\* A queue in order stays so when the next version is added.
LEMMA InOrderQueued ==
    ASSUME NEW x \in Nat, NEW v \in Nat, NEW q \in Seq(Versions), Versions \subseteq Nat,
           InOrder(x, q, v), v + 1 \in Versions
    PROVE  InOrder(x, Append(q, v + 1), v + 1)
<1>. DEFINE p == Append(q, v + 1)
<1>1. /\ Len(p) = Len(q) + 1 /\ Len(q) \in Nat
      /\ \A k \in 1..Len(q) : p[k] = q[k]
      /\ p[Len(q) + 1] = v + 1
  BY QueuedLast
<1>. HIDE DEF p
<1>2. \A k \in 1..Len(q) : q[k] \in Nat /\ x <= q[k] /\ q[k] <= v
  BY ElementOfSeq DEF InOrder
<1>3. \A k \in 1..Len(p) : k \in 1..Len(q) \/ k = Len(q) + 1
  BY <1>1
<1>4. x <= v + 1
  BY DEF InOrder
<1>5. \A k \in 1..Len(p) : p[k] \in Nat /\ x <= p[k] /\ p[k] <= v + 1
  BY <1>1, <1>2, <1>3, <1>4
<1>6. ASSUME NEW j \in 1..Len(p), NEW k \in 1..Len(p), j <= k
      PROVE  p[j] <= p[k]
  <2>1. CASE k \in 1..Len(q)
    <3>1. j \in 1..Len(q)
      BY <1>1, <1>6, <2>1
    <3>. QED  BY <1>1, <1>6, <2>1, <3>1 DEF InOrder
  <2>2. CASE k = Len(q) + 1
    BY <1>1, <1>5, <2>2
  <2>. QED  BY <1>3, <2>1, <2>2
<1>7. InOrder(x, p, v + 1)
  BY <1>4, <1>5, <1>6 DEF InOrder
<1>. QED  BY <1>7 DEF p

\* Or when the bus goes on without it.
LEMMA InOrderLater ==
    ASSUME NEW x \in Nat, NEW v \in Nat, NEW q \in Seq(Versions), Versions \subseteq Nat,
           InOrder(x, q, v)
    PROVE  InOrder(x, q, v + 1)
<1>1. \A k \in 1..Len(q) : q[k] \in Nat
  BY ElementOfSeq
<1>. QED  BY <1>1 DEF InOrder

\* And when its first version is taken off, which is no older than the value it
\* replaces; what comes last is what came last before.
Last(x, q) == IF q = <<>> THEN x ELSE q[Len(q)]

LEMMA InOrderTaken ==
    ASSUME NEW x \in Nat, NEW v \in Nat, NEW q \in Seq(Versions), Versions \subseteq Nat,
           InOrder(x, q, v), q # <<>>
    PROVE  /\ InOrder(Head(q), Tail(q), v) /\ x <= Head(q)
           /\ Last(Head(q), Tail(q)) = Last(x, q)
<1>. DEFINE h == Head(q)  p == Tail(q)
<1>1. /\ h = q[1] /\ p \in Seq(Versions)
      /\ Len(q) \in Nat \ {0} /\ Len(p) = Len(q) - 1
      /\ \A k \in 1..Len(p) : p[k] = q[k + 1]
  BY TakenOff
<1>. HIDE DEF h, p
<1>2. \A k \in 1..Len(q) : q[k] \in Nat /\ x <= q[k] /\ q[k] <= v
  BY ElementOfSeq DEF InOrder
<1>3. 1 \in 1..Len(q) /\ \A k \in 1..Len(p) : k + 1 \in 1..Len(q) /\ 1 <= k + 1
  BY <1>1
<1>4. x <= h /\ h <= v
  BY <1>1, <1>2, <1>3
<1>5. ASSUME NEW k \in 1..Len(p)
      PROVE  h <= p[k] /\ p[k] <= v
  <2>1. q[1] <= q[k + 1]
    BY <1>3, <1>5 DEF InOrder
  <2>. QED  BY <1>1, <1>2, <1>3, <2>1
<1>6. ASSUME NEW j \in 1..Len(p), NEW k \in 1..Len(p), j <= k
      PROVE  p[j] <= p[k]
  <2>1. j + 1 <= k + 1 /\ j + 1 \in 1..Len(q) /\ k + 1 \in 1..Len(q)
    BY <1>1, <1>3, <1>6
  <2>2. q[j + 1] <= q[k + 1]
    BY <2>1 DEF InOrder
  <2>. QED  BY <1>1, <2>2
<1>7. InOrder(h, p, v)
  BY <1>4, <1>5, <1>6 DEF InOrder
<1>8. Last(h, p) = Last(x, q)
  <2>1. CASE Len(q) = 1
    <3>1. p = <<>>
      BY <1>1, <2>1, EmptySeq
    <3>. QED  BY <1>1, <2>1, <3>1 DEF Last
  <2>2. CASE Len(q) # 1
    <3>1. Len(p) # 0 /\ Len(p) \in 1..Len(p) /\ Len(p) + 1 = Len(q)
      BY <1>1, <2>2
    <3>2. p # <<>>
      BY <3>1, EmptySeq
    <3>3. p[Len(p)] = q[Len(q)]
      BY <1>1, <3>1
    <3>. QED  BY <3>2, <3>3 DEF Last
  <2>. QED  BY <2>1, <2>2
<1>. QED  BY <1>4, <1>7, <1>8 DEF h, p

\* A change of the object is queued last, behind older versions, or missed.
LEMMA ChangedInstance ==
    ASSUME NEW v \in Versions, v < MaxVersion, NEW o, NEW P, o \in P,
           NEW i \in Instance, InstanceInv(i, v, o, P),
           NEW n, n = Changed(i, v + 1)
    PROVE  n \in Instance /\ n.state = i.state /\ InstanceInv(n, v + 1, o, P)
<1>0. /\ v + 1 \in Versions /\ v \in Nat
      /\ i.value \in Nat /\ i.pending \in Seq(Versions) /\ Versions \subseteq Nat
      /\ InOrder(i.value, i.pending, v)
  BY BoundsAssumption DEF Versions, Instance, NA, InstanceInv, QueueInOrder
<1>1. CASE i.state = "bound"
  <2>1. n = [i EXCEPT !.pending = Append(i.pending, v + 1), !.missed = FALSE]
    BY <1>1 DEF Changed
  <2>2. /\ n.state = "bound" /\ n.value = i.value /\ n.missed = FALSE
        /\ n.pending = Append(i.pending, v + 1)
    BY <1>1, <2>1 DEF Instance
  <2>3. /\ Append(i.pending, v + 1) \in Seq(Versions)
        /\ Last(i.value, Append(i.pending, v + 1)) = v + 1
    BY <1>0, QueuedLast DEF Last
  <2>4. n \in Instance
    BY <2>1, <2>3 DEF Instance
  <2>5. QueueInOrder(n, v + 1)
    BY <1>0, <2>2, InOrderQueued DEF QueueInOrder
  <2>6. QueueMatchesState(n) /\ StaleByQueueOnly(n, v + 1, o, P)
    BY <2>2, <2>3 DEF QueueMatchesState, StaleByQueueOnly, Latest, Last
  <2>. QED  BY <1>1, <2>2, <2>4, <2>5, <2>6 DEF InstanceInv
<1>2. CASE i.state = "read"
  <2>1. n = [i EXCEPT !.missed = TRUE]
    BY <1>2 DEF Changed
  <2>2. /\ n \in Instance /\ n.state = "read" /\ n.missed = TRUE
        /\ n.value = i.value /\ n.pending = i.pending
    BY <1>2, <2>1 DEF Instance
  <2>3. QueueInOrder(n, v + 1)
    BY <1>0, <2>2, InOrderLater DEF QueueInOrder
  <2>4. QueueMatchesState(n) /\ StaleByQueueOnly(n, v + 1, o, P)
    BY <1>2, <2>2 DEF QueueMatchesState, StaleByQueueOnly, InstanceInv
  <2>. QED  BY <1>2, <2>2, <2>3, <2>4 DEF InstanceInv
<1>3. CASE i.state = "unread"
  <2>1. n = i /\ i = Unread
    BY <1>3 DEF Changed, InstanceInv, QueueMatchesState
  <2>. QED  BY <1>0, <2>1, UnreadInstance
<1>. QED  BY <1>1, <1>2, <1>3 DEF Instance

\* An object that is created anew leaves its older instances stale.
LEMMA RecreatedInstance ==
    ASSUME NEW v \in Versions, v < MaxVersion, NEW o, NEW P, NEW Q, o \notin P,
           NEW i \in Instance, InstanceInv(i, v, o, P),
           NEW n, n = Recreated(i)
    PROVE  n \in Instance /\ n.state = i.state /\ InstanceInv(n, v + 1, o, Q)
<1>0. /\ v + 1 \in Versions /\ v \in Nat
      /\ i.value \in Nat /\ i.pending \in Seq(Versions) /\ Versions \subseteq Nat
      /\ InOrder(i.value, i.pending, v)
  BY BoundsAssumption DEF Versions, Instance, NA, InstanceInv, QueueInOrder
<1>1. CASE i.state = "unread"
  <2>1. n = i /\ i = Unread
    BY <1>1 DEF Recreated, InstanceInv, QueueMatchesState
  <2>. QED  BY <1>0, <2>1, UnreadInstance
<1>2. CASE i.state # "unread"
  <2>1. n = [i EXCEPT !.missed = TRUE]
    BY <1>2 DEF Recreated
  <2>2. /\ n \in Instance /\ n.state = i.state /\ n.missed = TRUE
        /\ n.value = i.value /\ n.pending = i.pending
    BY <2>1 DEF Instance
  <2>3. QueueInOrder(n, v + 1)
    BY <1>0, <2>2, InOrderLater DEF QueueInOrder
  <2>4. QueueMatchesState(n) /\ StaleByQueueOnly(n, v + 1, o, Q)
    BY <1>2, <2>2 DEF QueueMatchesState, StaleByQueueOnly, InstanceInv
  <2>. QED  BY <2>2, <2>3, <2>4 DEF InstanceInv
<1>. QED  BY <1>1, <1>2

\* The oldest signal is no older than the value it replaces, and what the
\* instance will show in the end stays the same.
LEMMA DispatchedInstance ==
    ASSUME NEW v \in Versions, NEW o, NEW P,
           NEW i \in Instance, InstanceInv(i, v, o, P), i.pending # <<>>,
           NEW n, n = callback(i)
    PROVE  /\ n \in Instance /\ n.state = i.state /\ n.value >= i.value
           /\ InstanceInv(n, v, o, P)
<1>1. /\ v \in Nat /\ i.value \in Nat /\ i.pending \in Seq(Versions)
      /\ Versions \subseteq Nat /\ NA \notin Versions
      /\ InOrder(i.value, i.pending, v)
  BY BoundsAssumption DEF Versions, Instance, NA, InstanceInv, QueueInOrder
<1>2. Head(i.pending) \in Versions /\ Tail(i.pending) \in Seq(Versions)
  BY <1>1, TakenOff
<1>3. n = [i EXCEPT !.value = Head(i.pending), !.pending = Tail(i.pending)]
  BY <1>1, <1>2 DEF callback, fillMembers
<1>4. /\ n.state = i.state /\ n.missed = i.missed
      /\ n.value = Head(i.pending) /\ n.pending = Tail(i.pending)
  BY <1>3 DEF Instance
<1>5. n \in Instance
  BY <1>2, <1>3 DEF Instance
<1>6. /\ InOrder(n.value, n.pending, v) /\ i.value <= n.value
      /\ Last(n.value, n.pending) = Last(i.value, i.pending)
  BY <1>1, <1>4, InOrderTaken
<1>7. n.value >= i.value
  BY <1>1, <1>2, <1>4, <1>6
<1>8. Latest(n) = Latest(i)
  BY <1>6 DEF Latest, Last
<1>9. QueueMatchesState(n)
  BY <1>4 DEF InstanceInv, QueueMatchesState
<1>10. StaleByQueueOnly(n, v, o, P)
  BY <1>4, <1>8 DEF InstanceInv, StaleByQueueOnly
<1>. QED  BY <1>4, <1>5, <1>6, <1>7, <1>9, <1>10 DEF InstanceInv, QueueInOrder
-----------------------------------------------------------------------------
(***************************************************************************)
(* The steps of the refresh and of the bus, one lemma for each.            *)
(***************************************************************************)

\* The inductive invariant for one object, its instances apart.
LEMMA ObjectFacts ==
    ASSUME IInv, NEW o \in Objects
    PROVE  /\ live[o] \in Instance /\ draft[o] \in Instance /\ version[o] \in Versions
           /\ InstanceInv(live[o], version[o], o, present)
           /\ InstanceInv(draft[o], version[o], o, present)
           /\ DraftMatchesStage(o) /\ LiveMatchesStage(o)
BY DEF IInv, TypeOK, ObjectInv

\* A step that leaves both instances of an object alone keeps what holds of them.
LEMMA InstancesAlone ==
    ASSUME IInv, NEW o \in Objects, live'[o] = live[o], draft'[o] = draft[o],
           version'[o] = version[o], o \in present' <=> o \in present
    PROVE  /\ InstanceInv(live[o], version[o], o, present)'
           /\ InstanceInv(draft[o], version[o], o, present)'
BY ObjectFacts DEF InstanceInv, StaleByQueueOnly

LEMMA InitIInv == Init => IInv
<1>. SUFFICES ASSUME Init PROVE IInv
  OBVIOUS
<1>1. 1 \in Versions /\ Unread \in Instance
  BY UnreadInstance, BoundsAssumption DEF Versions
<1>2. TypeOK
  <2>1. /\ version \in [Objects -> Versions]
        /\ live \in [Objects -> Instance] /\ draft \in [Objects -> Instance]
    BY <1>1 DEF Init
  <2>2. fails \in 0..MaxFails /\ ran \in BOOLEAN /\ stage \in Stages
    <3>1. MaxFails \in Nat
      BY BoundsAssumption
    <3>2. fails = 0 /\ stage = "idle"
      BY DEF Init
    <3>3. ran \in BOOLEAN
      BY DEF Init
    <3>. QED  BY <3>1, <3>2, <3>3 DEF Stages
  <2>. QED  BY <2>1, <2>2 DEF Init, TypeOK
<1>3. ASSUME NEW o \in Objects
      PROVE  ObjectInv(o)
  <2>1. InstanceInv(Unread, version[o], o, present)
    BY <1>1, UnreadInstance DEF Init
  <2>2. live[o] = Unread /\ draft[o] = Unread
    BY DEF Init
  <2>3. DraftMatchesStage(o)
    BY <2>2 DEF Init, DraftMatchesStage, Unread
  <2>4. LiveMatchesStage(o)
    BY <2>2 DEF Init, LiveMatchesStage, Unread
  <2>. QED  BY <2>1, <2>2, <2>3, <2>4 DEF ObjectInv
<1>. QED  BY <1>2, <1>3 DEF IInv, Init

LEMMA GetSubTreeStep ==
    ASSUME IInv, NEW w \in Workers, GetSubTree(w)
    PROVE  IInv'
<1>1. TypeOK'
  BY DEF IInv, TypeOK, GetSubTree, Stages, busVars, cacheVars
<1>2. ASSUME NEW o \in Objects
      PROVE  ObjectInv(o)'
  <2>1. DraftMatchesStage(o)'
    BY ObjectFacts DEF GetSubTree, DraftMatchesStage
  <2>2. LiveMatchesStage(o)'
    BY ObjectFacts DEF GetSubTree, LiveMatchesStage, cacheVars
  <2>. QED  BY <2>1, <2>2, InstancesAlone DEF ObjectInv, GetSubTree, busVars, cacheVars
<1>. QED  BY <1>1, <1>2 DEF IInv, GetSubTree

LEMMA GetAllStep ==
    ASSUME IInv, NEW o \in Objects, GetAll(o)
    PROVE  IInv'
<1>1. draft[o] = Unread
  BY ObjectFacts DEF GetAll, DraftMatchesStage, InstanceInv, QueueMatchesState, Instance
<1>2. PICK x \in {version[o], NA}, m \in BOOLEAN :
         /\ o \in present /\ ~m => x = version[o]
         /\ draft' = [draft EXCEPT ![o] = ReadAs(x, m)]
  <2>. DEFINE v == queryProperties(o)
  <2>1. version[o] # NA /\ v \in {version[o], NA} /\ (o \in present => v = version[o])
    BY ObjectFacts, BoundsAssumption DEF queryProperties, Versions, NA
  <2>2. CASE draft' = [draft EXCEPT
                         ![o] = [fillMembers(@, queryProperties(o)) EXCEPT !.state = "read"]]
    <3>1. [fillMembers(Unread, v) EXCEPT !.state = "read"] = ReadAs(v, FALSE)
      BY AnsweredIsRead
    <3>. QED  BY <1>1, <2>1, <2>2, <3>1
  <2>3. CASE draft' = [draft EXCEPT ![o].state = "read", ![o].missed = TRUE]
    <3>1. draft' = [draft EXCEPT ![o] = [Unread EXCEPT !.state = "read", !.missed = TRUE]]
      BY <1>1, <2>3 DEF IInv, TypeOK
    <3>2. [Unread EXCEPT !.state = "read", !.missed = TRUE] = ReadAs(NA, TRUE)
      BY FailedIsRead
    <3>. QED  BY <3>1, <3>2
  <2>. QED  BY <2>2, <2>3 DEF GetAll
<1>3. /\ ReadAs(x, m) \in Instance /\ ReadAs(x, m).state = "read"
      /\ InstanceInv(ReadAs(x, m), version[o], o, present)
  BY <1>2, ReadInstance, ObjectFacts
<1>4. fails' \in 0..MaxFails
  BY BoundsAssumption DEF IInv, TypeOK, GetAll
<1>5. TypeOK'
  BY <1>2, <1>3, <1>4 DEF IInv, TypeOK, GetAll, busVars, cacheVars
<1>6. ASSUME NEW p \in Objects
      PROVE  ObjectInv(p)'
  <2>1. /\ InstanceInv(live[p], version[p], p, present)'
        /\ InstanceInv(draft[p], version[p], p, present)'
    <3>1. CASE p = o
      BY <1>2, <1>3, <3>1, ObjectFacts DEF IInv, TypeOK, GetAll, busVars, cacheVars
    <3>2. CASE p # o
      BY <1>2, <3>2, InstancesAlone DEF IInv, TypeOK, GetAll, busVars, cacheVars
    <3>. QED  BY <3>1, <3>2
  <2>2. DraftMatchesStage(p)'
    <3>1. CASE p = o
      BY <1>2, <1>3, <3>1 DEF DraftMatchesStage, GetAll, IInv, TypeOK
    <3>2. CASE p # o
      <4>1. draft'[p] = draft[p]
        BY <1>2, <3>2 DEF IInv, TypeOK
      <4>. QED  BY <3>2, <4>1, ObjectFacts DEF DraftMatchesStage, GetAll
    <3>. QED  BY <3>1, <3>2
  <2>3. LiveMatchesStage(p)'
    BY ObjectFacts DEF LiveMatchesStage, GetAll, cacheVars
  <2>. QED  BY <2>1, <2>2, <2>3 DEF ObjectInv
<1>. QED  BY <1>5, <1>6 DEF IInv, GetAll

LEMMA QueryDoneStep ==
    ASSUME IInv, QueryDone
    PROVE  IInv'
<1>1. TypeOK'
  BY DEF IInv, TypeOK, QueryDone, Stages, busVars, cacheVars
<1>2. ASSUME NEW o \in Objects
      PROVE  ObjectInv(o)'
  <2>1. DraftMatchesStage(o)'
    BY ObjectFacts DEF QueryDone, DraftMatchesStage
  <2>2. LiveMatchesStage(o)'
    BY ObjectFacts DEF QueryDone, LiveMatchesStage, cacheVars
  <2>. QED  BY <2>1, <2>2, InstancesAlone DEF ObjectInv, QueryDone, busVars, cacheVars
<1>. QED  BY <1>1, <1>2 DEF IInv, QueryDone

LEMMA BindListenersStep ==
    ASSUME IInv, NEW o \in Objects, BindListeners(o)
    PROVE  IInv'
<1>. DEFINE n == [draft[o] EXCEPT !.state = "bound"]
<1>1. draft[o].state = "read"
  BY ObjectFacts DEF BindListeners, DraftMatchesStage
<1>2. n \in Instance /\ n.state = "bound" /\ InstanceInv(n, version[o], o, present)
  BY <1>1, BoundInstance, ObjectFacts
<1>. HIDE DEF n
<1>3. draft' = [draft EXCEPT ![o] = n]
  BY DEF BindListeners, n
<1>4. TypeOK'
  BY <1>2, <1>3 DEF IInv, TypeOK, BindListeners, busVars, cacheVars
<1>5. ASSUME NEW p \in Objects
      PROVE  ObjectInv(p)'
  <2>1. /\ InstanceInv(live[p], version[p], p, present)'
        /\ InstanceInv(draft[p], version[p], p, present)'
    <3>1. CASE p = o
      BY <1>2, <1>3, <3>1, ObjectFacts DEF IInv, TypeOK, BindListeners, busVars, cacheVars
    <3>2. CASE p # o
      BY <1>3, <3>2, InstancesAlone DEF IInv, TypeOK, BindListeners, busVars, cacheVars
    <3>. QED  BY <3>1, <3>2
  <2>2. DraftMatchesStage(p)'
    <3>1. CASE p = o
      BY <1>2, <1>3, <3>1 DEF DraftMatchesStage, BindListeners, IInv, TypeOK
    <3>2. CASE p # o
      <4>1. draft'[p] = draft[p]
        BY <1>3, <3>2 DEF IInv, TypeOK
      <4>. QED  BY <3>2, <4>1, ObjectFacts DEF DraftMatchesStage, BindListeners
    <3>. QED  BY <3>1, <3>2
  <2>3. LiveMatchesStage(p)'
    BY ObjectFacts DEF LiveMatchesStage, BindListeners, cacheVars
  <2>. QED  BY <2>1, <2>2, <2>3 DEF ObjectInv
<1>. QED  BY <1>4, <1>5 DEF IInv, BindListeners

LEMMA ClearInstancesStep ==
    ASSUME IInv, ClearInstances
    PROVE  IInv'
<1>1. TypeOK'
  <2>1. \A o \in Objects : Unread \in Instance
    BY UnreadInstance, ObjectFacts
  <2>2. draft' \in [Objects -> Instance]
    BY <2>1 DEF ClearInstances
  <2>. QED  BY <2>2 DEF IInv, TypeOK, ClearInstances, Stages, busVars
<1>2. ASSUME NEW o \in Objects
      PROVE  ObjectInv(o)'
  <2>1. /\ live'[o] = draft[o] /\ draft'[o] = Unread
        /\ version' = version /\ present' = present
    BY DEF ClearInstances, busVars
  <2>2. /\ InstanceInv(live[o], version[o], o, present)'
        /\ InstanceInv(draft[o], version[o], o, present)'
    BY <2>1, ObjectFacts, UnreadInstance
  <2>3. DraftMatchesStage(o)'
    BY <2>1 DEF ClearInstances, DraftMatchesStage, Unread
  <2>4. LiveMatchesStage(o)'
    BY <2>1, ObjectFacts DEF ClearInstances, LiveMatchesStage, DraftMatchesStage
  <2>. QED  BY <2>2, <2>3, <2>4 DEF ObjectInv
<1>. QED  BY <1>1, <1>2 DEF IInv, ClearInstances

LEMMA InsertInstanceStep ==
    ASSUME IInv, NEW o \in Objects, InsertInstance(o)
    PROVE  IInv'
<1>1. TypeOK'
  BY DEF IInv, TypeOK, InsertInstance, busVars
<1>2. ASSUME NEW p \in Objects
      PROVE  ObjectInv(p)'
  <2>1. DraftMatchesStage(p)'
    BY ObjectFacts DEF InsertInstance, DraftMatchesStage
  <2>2. LiveMatchesStage(p)'
    BY ObjectFacts DEF InsertInstance, LiveMatchesStage, IInv, TypeOK
  <2>. QED  BY <2>1, <2>2, InstancesAlone DEF ObjectInv, InsertInstance, busVars
<1>. QED  BY <1>1, <1>2 DEF IInv, InsertInstance

LEMMA StampStep ==
    ASSUME IInv, Stamp
    PROVE  IInv'
<1>1. TypeOK'
  BY DEF IInv, TypeOK, Stamp, Stages, busVars, cacheVars
<1>2. ASSUME NEW o \in Objects
      PROVE  ObjectInv(o)'
  <2>1. DraftMatchesStage(o)'
    BY ObjectFacts DEF Stamp, DraftMatchesStage
  <2>2. LiveMatchesStage(o)'
    BY ObjectFacts DEF Stamp, LiveMatchesStage, cacheVars
  <2>. QED  BY <2>1, <2>2, InstancesAlone DEF ObjectInv, Stamp, busVars, cacheVars
<1>. QED  BY <1>1, <1>2 DEF IInv, Stamp

\* Besides the invariant: a signal makes the value of its instance no older and
\* leaves every other value alone.
LEMMA DispatchStep ==
    ASSUME IInv, NEW o \in Objects, Dispatch(o)
    PROVE  IInv' /\ \A p \in Objects : live'[p].value >= live[p].value
<1>. DEFINE n == callback(live[o])
<1>1. /\ n \in Instance /\ n.state = live[o].state /\ n.value >= live[o].value
      /\ InstanceInv(n, version[o], o, present)
  BY DispatchedInstance, ObjectFacts DEF Dispatch
<1>2. live' = [live EXCEPT ![o] = n]
  BY DEF Dispatch
<1>. HIDE DEF n
<1>3. TypeOK'
  BY <1>1, <1>2 DEF IInv, TypeOK, Dispatch, busVars, refreshVars
<1>4. ASSUME NEW p \in Objects
      PROVE  ObjectInv(p)' /\ live'[p].value >= live[p].value
  <2>1. /\ InstanceInv(live[p], version[p], p, present)'
        /\ InstanceInv(draft[p], version[p], p, present)'
    <3>1. CASE p = o
      BY <1>1, <1>2, <3>1, ObjectFacts DEF IInv, TypeOK, Dispatch, busVars, refreshVars
    <3>2. CASE p # o
      BY <1>2, <3>2, InstancesAlone DEF IInv, TypeOK, Dispatch, busVars, refreshVars
    <3>. QED  BY <3>1, <3>2
  <2>2. live'[p].state = live[p].state
    BY <1>1, <1>2 DEF IInv, TypeOK
  <2>3. DraftMatchesStage(p)'
    BY ObjectFacts DEF DraftMatchesStage, Dispatch, refreshVars
  <2>4. LiveMatchesStage(p)'
    BY <2>2, ObjectFacts DEF LiveMatchesStage, Dispatch, refreshVars
  <2>5. live'[p].value >= live[p].value
    <3>1. live[p].value \in Nat
      BY ObjectFacts, BoundsAssumption DEF Instance, Versions, NA
    <3>. QED  BY <1>1, <1>2, <3>1 DEF IInv, TypeOK
  <2>. QED  BY <2>1, <2>3, <2>4, <2>5 DEF ObjectInv
<1>. QED  BY <1>3, <1>4 DEF IInv, Dispatch, refreshVars

LEMMA ChangeStep ==
    ASSUME IInv, NEW o \in Objects, Change(o)
    PROVE  IInv'
<1>. DEFINE v == version[o]
            l == Changed(live[o], v + 1)
            d == Changed(draft[o], v + 1)
<1>1. o \in present /\ present' = present
  BY DEF Change
<1>2. v + 1 \in Versions /\ v \in Versions /\ v < MaxVersion
  BY ObjectFacts, BoundsAssumption DEF Change, Versions
<1>3. l \in Instance /\ l.state = live[o].state /\ InstanceInv(l, v + 1, o, present')
  BY <1>1, <1>2, ChangedInstance, ObjectFacts
<1>4. d \in Instance /\ d.state = draft[o].state /\ InstanceInv(d, v + 1, o, present')
  BY <1>1, <1>2, ChangedInstance, ObjectFacts
<1>5. /\ version' = [version EXCEPT ![o] = v + 1] /\ present' = present
      /\ live' = [live EXCEPT ![o] = l] /\ draft' = [draft EXCEPT ![o] = d]
  BY DEF Change
<1>. HIDE DEF v, l, d
<1>6. TypeOK'
  BY <1>2, <1>3, <1>4, <1>5 DEF IInv, TypeOK, Change
<1>7. ASSUME NEW p \in Objects
      PROVE  ObjectInv(p)'
  <2>1. /\ InstanceInv(live[p], version[p], p, present)'
        /\ InstanceInv(draft[p], version[p], p, present)'
    <3>1. CASE p = o
      BY <1>1, <1>3, <1>4, <1>5, <3>1 DEF IInv, TypeOK
    <3>2. CASE p # o
      BY <1>5, <3>2, InstancesAlone DEF IInv, TypeOK
    <3>. QED  BY <3>1, <3>2
  <2>2. live'[p].state = live[p].state /\ draft'[p].state = draft[p].state
    BY <1>3, <1>4, <1>5 DEF IInv, TypeOK
  <2>3. DraftMatchesStage(p)'
    BY <2>2, ObjectFacts DEF DraftMatchesStage, Change
  <2>4. LiveMatchesStage(p)'
    BY <2>2, ObjectFacts DEF LiveMatchesStage, Change
  <2>. QED  BY <2>1, <2>3, <2>4 DEF ObjectInv
<1>. QED  BY <1>6, <1>7 DEF IInv, Change

LEMMA AppearStep ==
    ASSUME IInv, NEW o \in Objects, Appear(o)
    PROVE  IInv'
<1>. DEFINE v == version[o]
            l == Recreated(live[o])
            d == Recreated(draft[o])
<1>1. o \notin present
  BY DEF Appear
<1>2. v + 1 \in Versions /\ v \in Versions /\ v < MaxVersion
  BY ObjectFacts, BoundsAssumption DEF Appear, Versions
<1>3. l \in Instance /\ l.state = live[o].state /\ InstanceInv(l, v + 1, o, present')
  BY <1>1, <1>2, RecreatedInstance, ObjectFacts
<1>4. d \in Instance /\ d.state = draft[o].state /\ InstanceInv(d, v + 1, o, present')
  BY <1>1, <1>2, RecreatedInstance, ObjectFacts
<1>5. /\ version' = [version EXCEPT ![o] = v + 1] /\ present' = present \cup {o}
      /\ live' = [live EXCEPT ![o] = l] /\ draft' = [draft EXCEPT ![o] = d]
  BY DEF Appear
<1>. HIDE DEF v, l, d
<1>6. TypeOK'
  BY <1>2, <1>3, <1>4, <1>5 DEF IInv, TypeOK, Appear
<1>7. ASSUME NEW p \in Objects
      PROVE  ObjectInv(p)'
  <2>1. /\ InstanceInv(live[p], version[p], p, present)'
        /\ InstanceInv(draft[p], version[p], p, present)'
    <3>1. CASE p = o
      BY <1>3, <1>4, <1>5, <3>1 DEF IInv, TypeOK
    <3>2. CASE p # o
      BY <1>5, <3>2, InstancesAlone DEF IInv, TypeOK
    <3>. QED  BY <3>1, <3>2
  <2>2. live'[p].state = live[p].state /\ draft'[p].state = draft[p].state
    BY <1>3, <1>4, <1>5 DEF IInv, TypeOK
  <2>3. DraftMatchesStage(p)'
    BY <2>2, ObjectFacts DEF DraftMatchesStage, Appear
  <2>4. LiveMatchesStage(p)'
    BY <2>2, ObjectFacts DEF LiveMatchesStage, Appear
  <2>. QED  BY <2>1, <2>3, <2>4 DEF ObjectInv
<1>. QED  BY <1>6, <1>7 DEF IInv, Appear

LEMMA DisappearStep ==
    ASSUME IInv, NEW o \in Objects, Disappear(o)
    PROVE  IInv'
<1>1. TypeOK'
  BY DEF IInv, TypeOK, Disappear, cacheVars, refreshVars
<1>2. ASSUME NEW p \in Objects
      PROVE  ObjectInv(p)'
  <2>1. live' = live /\ draft' = draft /\ version' = version
    BY DEF Disappear, cacheVars, refreshVars
  <2>2. /\ InstanceInv(live[p], version[p], p, present)'
        /\ InstanceInv(draft[p], version[p], p, present)'
    <3>1. p \in present' => p \in present
      BY DEF Disappear
    <3>. QED  BY <2>1, <3>1, ObjectFacts DEF InstanceInv, StaleByQueueOnly
  <2>3. DraftMatchesStage(p)'
    BY ObjectFacts DEF DraftMatchesStage, Disappear, refreshVars
  <2>4. LiveMatchesStage(p)'
    BY ObjectFacts DEF LiveMatchesStage, Disappear, cacheVars, refreshVars
  <2>. QED  BY <2>2, <2>3, <2>4 DEF ObjectInv
<1>. QED  BY <1>1, <1>2 DEF IInv, Disappear, refreshVars

LEMMA StutterStep ==
    ASSUME IInv, UNCHANGED vars
    PROVE  IInv'
BY DEF IInv, TypeOK, ObjectInv, DraftMatchesStage, LiveMatchesStage, vars, busVars,
       cacheVars, refreshVars

LEMMA NextIInv == IInv /\ [Next]_vars => IInv'
<1>. SUFFICES ASSUME IInv, [Next]_vars PROVE IInv'
  OBVIOUS
<1>1. CASE Begin
  BY <1>1, GetSubTreeStep DEF Begin
<1>2. CASE Refresh
  BY <1>2, GetAllStep, BindListenersStep, InsertInstanceStep, QueryDoneStep,
     ClearInstancesStep, StampStep DEF Refresh
<1>3. CASE \E o \in Objects : Dispatch(o)
  BY <1>3, DispatchStep
<1>4. CASE Bus
  BY <1>4, ChangeStep, AppearStep, DisappearStep DEF Bus
<1>5. CASE Rest \/ UNCHANGED vars
  BY <1>5, StutterStep DEF Rest
<1>. QED  BY <1>1, <1>2, <1>3, <1>4, <1>5 DEF Next
-----------------------------------------------------------------------------
\* The inductive invariant holds in every reachable state.
THEOREM Invariance == Spec => []IInv
BY InitIInv, NextIInv, PTL DEF Spec

\* Every variable keeps its type: in particular the queues of both generations
\* hold only versions the object has had.
THEOREM TypeCorrect == Spec => []TypeOK
<1>1. IInv => TypeOK
  BY DEF IInv
<1>. QED  BY <1>1, Invariance, PTL

\* setInstances never publishes an instance that no signal reaches, however the
\* bus changes between the GetAll, the AddMatch and the insertion.
THEOREM ServedInstancesAreBound == Spec => []ServedIsBound
<1>1. IInv => ServedIsBound
  BY DEF IInv, TypeOK, ObjectInv, LiveMatchesStage, ServedIsBound
<1>. QED  BY <1>1, Invariance, PTL

\* An instance the entity serves is behind its object only by the signals still
\* queued for it, unless it missed a change before its match was there.
THEOREM StaleInstancesMissedAChange == Spec => []StaleOnlyIfMissed
<1>1. IInv => StaleOnlyIfMissed
  <2>. SUFFICES ASSUME IInv, NEW o \in instances \cap present, ~live[o].missed
                PROVE  Latest(live[o]) = version[o]
    BY DEF StaleOnlyIfMissed
  <2>1. o \in Objects
    BY DEF IInv, TypeOK
  <2>2. live[o].state = "bound"
    BY <2>1, ObjectFacts DEF LiveMatchesStage
  <2>. QED  BY <2>1, <2>2, ObjectFacts DEF InstanceInv, StaleByQueueOnly
<1>. QED  BY <1>1, Invariance, PTL

\* The value a reader finds never goes back to an older one while the entity keeps
\* the instance: signals are queued in the order of the changes, behind what was
\* read, and a refresh empties the map before it replaces what is served.
THEOREM ValuesNeverGoBack == Spec => NeverBackwards
<1>. DEFINE Forward == \A o \in instances \cap instances' : live'[o].value >= live[o].value
<1>1. IInv /\ [Next]_vars => [Forward]_vars
  <2>. SUFFICES ASSUME IInv, Next PROVE Forward
    OBVIOUS
  <2>. SUFFICES ASSUME NEW o \in instances \cap instances'
                PROVE  live'[o].value >= live[o].value
    OBVIOUS
  <2>1. o \in Objects
    BY DEF IInv, TypeOK
  <2>2. live[o].value \in Nat
    BY <2>1, ObjectFacts, BoundsAssumption DEF Instance, Versions, NA
  <2>3. CASE live'[o].value = live[o].value
    BY <2>2, <2>3
  <2>4. CASE Begin \/ Rest
    BY <2>3, <2>4 DEF Begin, GetSubTree, Rest, vars, cacheVars
  <2>5. CASE Refresh
    BY <2>3, <2>5 DEF Refresh, GetAll, BindListeners, InsertInstance, QueryDone,
       ClearInstances, Stamp, cacheVars
  <2>6. CASE \E p \in Objects : Dispatch(p)
    BY <2>1, <2>6, DispatchStep
  <2>7. CASE Bus
    <3>1. PICK p \in Objects : Change(p) \/ Appear(p) \/ Disappear(p)
      BY <2>7 DEF Bus
    <3>2. /\ \A v : Changed(live[o], v).value = live[o].value
          /\ Recreated(live[o]).value = live[o].value
      BY <2>1, ObjectFacts DEF Changed, Recreated, Instance
    <3>3. CASE Change(p)
      BY <2>1, <2>3, <3>2, <3>3 DEF Change, IInv, TypeOK
    <3>4. CASE Appear(p)
      BY <2>1, <2>3, <3>2, <3>4 DEF Appear, IInv, TypeOK
    <3>5. CASE Disappear(p)
      BY <2>3, <3>5 DEF Disappear, cacheVars
    <3>. QED  BY <3>1, <3>3, <3>4, <3>5
  <2>. QED  BY <2>4, <2>5, <2>6, <2>7 DEF Next
<1>. QED  BY <1>1, Invariance, PTL DEF Spec, NeverBackwards
=============================================================================
