-------------------------- MODULE VersionLinkProofs --------------------------
(***************************************************************************)
(* Machine-checked proofs about VersionLink, for any images with any       *)
(* purposes, any number of requests and any number of signals.             *)
(***************************************************************************)
EXTENDS VersionLink, SequenceTheorems, TLAPS

Steps == {"idle", "linking", "writing", "adding", "absent", "served"}

Types ==
    /\ instances = <<>> \/ instances = Images
    /\ DOMAIN purpose = Objects
    /\ version \in [Objects -> Nat]
    /\ server \in BOOLEAN
    /\ DOMAIN field = Fields
    /\ pc \in [Requests -> Steps]
    /\ asked \in [Requests -> Fields]
    /\ todo \in [Requests -> Seq(Objects)]
    /\ member \in [Requests -> Fields \cup {"none"}]
    /\ DOMAIN value = Requests
    /\ DOMAIN served = Requests
    /\ calm \in [Requests -> BOOLEAN]
    /\ DOMAIN showed = Objects

(***************************************************************************)
(* Where the versions come from.                                           *)
(***************************************************************************)
Shown(f, v) == \E o \in Having(f) : v \in showed[o]

\* Objects remember the version they show; a member of the shared instance holds
\* what an object of its purpose has shown.
FieldsWereShown ==
    /\ \A o \in Objects : version[o] \in showed[o]
    /\ \A f \in Fields : field[f] # NA => instances = Images /\ Shown(f, field[f])

\* The purpose a request has read is still that of the object it will write, and
\* a version it is about to add was shown by it.
WritesItsKind(r) ==
    /\ todo[r] # <<>> => instances = Images
    /\ pc[r] \in {"writing", "adding"} =>
         /\ todo[r] # <<>>
         /\ member[r] \in Fields /\ Head(todo[r]) \in Having(member[r])
    /\ pc[r] = "adding" => value[r] \in showed[Head(todo[r])]

AnswerWasShown(r) == pc[r] = "served" /\ served[r] # NA => Shown(asked[r], served[r])

(***************************************************************************)
(* What a request sees that nobody interferes with.                        *)
(***************************************************************************)

\* Of the first n instances, v is the version of the last that has a purpose, if
\* any has it.
LastOfFirst(f, n, v) ==
    \/ \A i \in 1..n : instances[i] \notin Having(f)
    \/ \E i \in 1..n : /\ instances[i] \in Having(f) /\ v = version[instances[i]]
                       /\ \A j \in 1..n : instances[j] \in Having(f) => j <= i

passed(r) == Len(instances) - Len(todo[r])

\* Its loop has passed the first instances and has the others before it.
LoopIsAt(r) ==
    /\ server
    /\ passed(r) \in Nat
    /\ \A i \in 1..Len(todo[r]) : todo[r][i] = instances[passed(r) + i]
    /\ LastOfFirst(asked[r], passed(r), field[asked[r]])

CalmAnswer(r) ==
    LET mine == {i \in DOMAIN instances : instances[i] \in Having(asked[r])}
    IN  IF server /\ mine # {}
        THEN \E i \in mine : /\ \A j \in mine : j <= i
                             /\ served[r] = version[instances[i]]
        ELSE served[r] = NA

CalmRequest(r) ==
    calm[r] =>
        /\ pc[r] \in {"linking", "writing", "adding"} => LoopIsAt(r)
        /\ pc[r] = "adding" => value[r] = version[Head(todo[r])]
        /\ pc[r] = "absent" => ~server
        /\ pc[r] = "served" => CalmAnswer(r)

RequestInv(r) == WritesItsKind(r) /\ AnswerWasShown(r) /\ CalmRequest(r)

IInv ==
    /\ Types
    /\ FieldsWereShown
    /\ \A r \in Requests : RequestInv(r)
-----------------------------------------------------------------------------
LEMMA ConstantFacts ==
    /\ Images \in Seq(Objects)
    /\ \A o \in Objects : \E i \in 1..Len(Images) : Images[i] = o
    /\ Images # <<>> => Len(Images) > 0
<1>1. Images \in Seq(Objects)
  BY VersionLinkAssumption
<1>2. DOMAIN Images = 1..Len(Images)
  BY <1>1, LenProperties
<1>3. \A o \in Objects : \E i \in DOMAIN Images : Images[i] = o
  BY DEF Objects, ToSet
<1>4. Images # <<>> => Len(Images) > 0
  BY <1>1, EmptySeq
<1>. QED  BY <1>1, <1>2, <1>3, <1>4

\* The instances of the provider are a sequence of objects.
LEMMA InstancesAreObjects ==
    ASSUME Types
    PROVE  /\ instances \in Seq(Objects) /\ Len(instances) \in Nat
           /\ DOMAIN instances = 1..Len(instances)
           /\ \A i \in 1..Len(instances) : instances[i] \in Objects
<1>1. instances \in Seq(Objects)
  BY ConstantFacts, EmptySeq DEF Types
<1>2. \A i \in 1..Len(instances) : instances[i] \in Objects
  BY <1>1, ElementOfSeq
<1>. QED  BY <1>1, <1>2, LenProperties

\* What linkVersions takes off its loop.
LEMMA LoopGoesOn ==
    ASSUME NEW q \in Seq(Objects), q # <<>>
    PROVE  /\ Head(q) \in Objects /\ Head(q) = q[1]
           /\ Tail(q) \in Seq(Objects)
           /\ Len(q) \in Nat \ {0} /\ Len(Tail(q)) = Len(q) - 1
           /\ \A k \in 1..Len(Tail(q)) : Tail(q)[k] = q[k + 1]
<1>1. Len(q) \in Nat \ {0}
  BY EmptySeq
<1>2. Head(q) = q[1]
  <2>1. SubSeq(q, 1, Len(q)) = q
    BY SubSeqFull
  <2>2. 1 \in 1..Len(q) /\ Len(q) \in 1..Len(q)
    BY <1>1
  <2>. QED  BY <2>1, <2>2, HeadTailOfSubSeq
<1>. QED  BY <1>1, <1>2, HeadTailProperties

\* linkVersions finds a member exactly for the objects of its purpose.
LEMMA MemberOfPurpose ==
    ASSUME NEW o \in Objects
    PROVE  /\ purposeToMemberName(getPurpose(purpose[o])) \in Fields \cup {"none"}
           /\ \A f \in Fields : purposeToMemberName(getPurpose(purpose[o])) = f
                                <=> o \in Having(f)
<1>1. /\ getPurpose(purpose[o]) = "BMC" <=> purpose[o] = "BMC"
      /\ getPurpose(purpose[o]) = "BIOS" <=> purpose[o] = "Host"
  BY DEF getPurpose, purposes
<1>. QED  BY <1>1 DEF purposeToMemberName, Fields, Having, Wanted

LEMMA InitIInv == Init => IInv
<1>. SUFFICES ASSUME Init PROVE IInv
  OBVIOUS
<1>1. Types
  <2>1. todo \in [Requests -> Seq(Objects)]
    BY EmptySeq DEF Init
  <2>2. /\ version \in [Objects -> Nat] /\ pc \in [Requests -> Steps]
        /\ asked \in [Requests -> Fields] /\ member \in [Requests -> Fields \cup {"none"}]
    BY DEF Init, NA, Steps, Fields
  <2>3. calm \in [Requests -> BOOLEAN] /\ server \in BOOLEAN
    BY DEF Init
  <2>. QED  BY <2>1, <2>2, <2>3 DEF Init, Types
<1>2. FieldsWereShown
  BY DEF Init, FieldsWereShown
<1>3. \A r \in Requests : RequestInv(r)
  BY DEF Init, RequestInv, WritesItsKind, AnswerWasShown, CalmRequest
<1>. QED  BY <1>1, <1>2, <1>3 DEF IInv

(***************************************************************************)
(* What no step takes back.                                                *)
(***************************************************************************)
LEMMA NothingIsTakenBack ==
    ASSUME Types, [Next]_vars
    PROVE  /\ \A f \in Fields : Having(f) \subseteq Having(f)'
           /\ \A o \in Objects : showed[o] \subseteq showed'[o]
<1>1. CASE UNCHANGED <<purpose, showed>>
  BY <1>1 DEF Having
<1>2. ASSUME NEW o \in Objects, Signal(o)
      PROVE  /\ \A f \in Fields : Having(f) \subseteq Having(f)'
             /\ \A p \in Objects : showed[p] \subseteq showed'[p]
  <2>1. \A p \in Objects : purpose[p] = "N/A" \/ purpose'[p] = purpose[p]
    BY <1>2 DEF Signal, Types
  <2>2. \A p \in Objects : showed[p] \subseteq showed'[p]
    BY <1>2 DEF Signal, Types
  <2>. QED  BY <2>1, <2>2 DEF Having, Wanted
<1>. QED  BY <1>1, <1>2 DEF Next, PublishVersions, PublishServer, Start, ReadPurpose,
     WriteVersion, supplement, supplementThrows, Serve, Again, Gone, busVars, vars

\* So what was shown stays shown.
LEMMA ShownStays ==
    ASSUME Types, [Next]_vars, NEW f \in Fields, NEW v, Shown(f, v)
    PROVE  Shown(f, v)'
BY NothingIsTakenBack DEF Shown, Having

(***************************************************************************)
(* Types, and the versions in the shared instance.                         *)
(***************************************************************************)
LEMMA NextTypes ==
    ASSUME IInv, [Next]_vars
    PROVE  Types'
<1>. USE DEF Types
<1>0. Types
  BY DEF IInv
<1>1. CASE PublishVersions \/ PublishServer
  BY <1>0, <1>1 DEF PublishVersions, PublishServer, Disturb, busVars, serverVars
<1>2. CASE \E o \in Objects : Signal(o)
  <2>1. PICK o \in Objects : Signal(o)
    BY <1>2
  <2>2. /\ version' \in [Objects -> Nat]
        /\ DOMAIN purpose' = Objects /\ DOMAIN showed' = Objects
    <3>1. version' = [version EXCEPT ![o] = @ + 1] \/ version' = version
      BY <2>1 DEF Signal
    <3>2. DOMAIN showed' = DOMAIN showed
      BY <2>1 DEF Signal
    <3>3. DOMAIN purpose' = DOMAIN purpose
      BY <2>1 DEF Signal
    <3>. QED  BY <1>0, <3>1, <3>2, <3>3
  <2>3. calm' \in [Requests -> BOOLEAN]
    BY <1>0, <2>1 DEF Signal, Disturb
  <2>. QED  BY <1>0, <2>1, <2>2, <2>3 DEF Signal, serverVars
<1>3. ASSUME NEW r \in Requests, NEW f \in Fields, Start(r, f)
      PROVE  Types'
  <2>1. instances \in Seq(Objects) /\ <<>> \in Seq(Objects)
    BY <1>0, InstancesAreObjects, EmptySeq
  <2>2. todo' \in [Requests -> Seq(Objects)]
    BY <1>0, <1>3, <2>1 DEF Start
  <2>3. pc' \in [Requests -> Steps]
    BY <1>0, <1>3 DEF Start, Goto, Steps
  <2>4. calm' = [calm EXCEPT ![r] = TRUE] /\ calm \in [Requests -> BOOLEAN]
    BY <1>0, <1>3 DEF Start
  <2>5. calm' \in [Requests -> BOOLEAN]
    BY <2>4
  <2>. QED  BY <1>0, <1>3, <2>2, <2>3, <2>5 DEF Start, busVars, serverVars
<1>4. ASSUME NEW r \in Requests, ReadPurpose(r)
      PROVE  Types'
  <2>1. Head(todo[r]) \in Objects /\ Tail(todo[r]) \in Seq(Objects)
    BY <1>0, <1>4, LoopGoesOn DEF ReadPurpose
  <2>2. purposeToMemberName(getPurpose(purpose[Head(todo[r])])) \in Fields \cup {"none"}
    BY <2>1, MemberOfPurpose
  <2>. QED  BY <1>0, <1>4, <2>1, <2>2 DEF ReadPurpose, Goto, Steps, busVars, serverVars
<1>5. ASSUME NEW r \in Requests, NEW v, Write(r, v), pc[r] \in {"writing", "adding"}
      PROVE  /\ DOMAIN field' = Fields /\ DOMAIN value' = Requests
             /\ pc' \in [Requests -> Steps] /\ calm' \in [Requests -> BOOLEAN]
             /\ todo' \in [Requests -> Seq(Objects)]
  <2>1. todo[r] # <<>>
    BY <1>5 DEF IInv, RequestInv, WritesItsKind
  <2>2. Tail(todo[r]) \in Seq(Objects)
    BY <1>0, <2>1, LoopGoesOn
  <2>. QED  BY <1>0, <1>5, <2>2 DEF Write, setValue, Disturb, Goto, Steps
<1>6. ASSUME NEW r \in Requests, WriteVersion(r)
      PROVE  Types'
  <2>1. UNCHANGED <<busVars, server, asked, member, served>>
    BY <1>6 DEF WriteVersion
  <2>2. CASE \E v : Write(r, v)
    BY <1>0, <1>5, <1>6, <2>1, <2>2 DEF WriteVersion, At, busVars
  <2>3. CASE Goto(r, "adding") /\ DOMAIN value' = Requests /\ UNCHANGED <<field, todo, calm>>
    <3>1. pc' \in [Requests -> Steps]
      BY <1>0, <2>3 DEF Goto, Steps
    <3>. QED  BY <1>0, <2>1, <2>3, <3>1 DEF busVars
  <2>. QED  BY <1>0, <1>6, <2>2, <2>3 DEF WriteVersion
<1>7. ASSUME NEW r \in Requests, supplement(r)
      PROVE  Types'
  BY <1>0, <1>5, <1>7 DEF supplement, At, busVars
<1>8. ASSUME NEW r \in Requests, Serve(r) \/ Again(r)
      PROVE  Types'
  BY <1>0, <1>8 DEF Serve, Again, Goto, Steps, busVars, serverVars
<1>9. CASE UNCHANGED <<busVars, serverVars, requestVars>>
  BY <1>0, <1>9 DEF busVars, serverVars, requestVars
<1>. QED  BY <1>1, <1>2, <1>3, <1>4, <1>6, <1>7, <1>8, <1>9
     DEF Next, supplementThrows, Gone, vars

LEMMA NextFieldsWereShown ==
    ASSUME IInv, [Next]_vars
    PROVE  FieldsWereShown'
<1>0. Types /\ FieldsWereShown
  BY DEF IInv
<1>1. \A o \in Objects : version'[o] \in showed'[o]
  <2>1. CASE UNCHANGED <<version, showed>>
    BY <1>0, <2>1 DEF FieldsWereShown
  <2>2. CASE \E o \in Objects : Signal(o)
    BY <1>0, <2>2 DEF FieldsWereShown, Signal, Types
  <2>. QED  BY <2>1, <2>2 DEF Next, PublishVersions, PublishServer, Start, ReadPurpose,
       WriteVersion, supplement, supplementThrows, Serve, Again, Gone, busVars, vars
<1>2. instances' = instances \/ instances' = Images
  BY DEF Next, PublishVersions, PublishServer, Signal, Start, ReadPurpose, WriteVersion,
     supplement, supplementThrows, Serve, Again, Gone, busVars, vars
<1>3. ASSUME NEW f \in Fields, field'[f] # NA
      PROVE  instances' = Images /\ Shown(f, field[f])'
  <2>. PICK v : v = field'[f]
    OBVIOUS
  <2>1. CASE v = field[f]
    <3>1. instances = Images /\ Shown(f, v)
      BY <1>0, <1>3, <2>1 DEF FieldsWereShown
    <3>. QED  BY <1>0, <1>2, <3>1, ShownStays DEF Shown
  <2>2. CASE v # field[f]
    <3>1. PICK r \in Requests : WriteVersion(r) \/ supplement(r)
      BY <2>2 DEF Next, PublishVersions, PublishServer, Signal, Start, ReadPurpose,
         supplementThrows, Serve, Again, Gone, serverVars, vars
    <3>. DEFINE o == Head(todo[r])
    <3>2. /\ todo[r] # <<>> /\ o \in Having(member[r]) /\ todo[r] \in Seq(Objects)
          /\ instances = Images /\ (pc[r] = "adding" => value[r] \in showed[o])
      BY <3>1 DEF IInv, RequestInv, WritesItsKind, WriteVersion, supplement, At, Types
    <3>3. o \in Objects /\ version[o] \in showed[o]
      BY <1>0, <3>2, LoopGoesOn DEF FieldsWereShown
    <3>4. f = member[r] /\ v \in showed[o]
      <4>1. PICK w : Write(r, w) /\ w \in showed[o]
        BY <2>2, <3>1, <3>2, <3>3 DEF WriteVersion, supplement, At
      <4>2. field' = [field EXCEPT ![member[r]] = w]
        BY <4>1 DEF Write, setValue
      <4>. QED  BY <1>0, <2>2, <4>1, <4>2 DEF Types
    <3>5. Shown(f, v)
      BY <3>2, <3>3, <3>4 DEF Shown
    <3>. QED  BY <1>0, <1>2, <3>2, <3>5, ShownStays DEF Shown
  <2>. QED  BY <2>1, <2>2
<1>. QED  BY <1>1, <1>3 DEF FieldsWereShown

(***************************************************************************)
(* The requests.                                                           *)
(***************************************************************************)

\* A request that does not take the step itself: it stays calm only if nothing
\* it depends on changes.
LEMMA OtherRequests ==
    ASSUME IInv, [Next]_vars, NEW r \in Requests,
           UNCHANGED <<pc[r], asked[r], todo[r], member[r], value[r], served[r]>>,
           calm'[r] => calm[r] /\ UNCHANGED <<instances, purpose, version, server, field>>
    PROVE  RequestInv(r)'
<1>0. Types /\ RequestInv(r)
  BY DEF IInv
<1>1. WritesItsKind(r)'
  <2>1. instances' = Images \/ instances' = instances
    BY DEF Next, PublishVersions, PublishServer, Signal, Start, ReadPurpose, WriteVersion,
       supplement, supplementThrows, Serve, Again, Gone, busVars, vars
  <2>2. CASE pc[r] = "adding"
    <3>1. Head(todo[r]) \in Objects
      BY <1>0, <2>2, LoopGoesOn DEF RequestInv, WritesItsKind, Types
    <3>. QED  BY <1>0, <2>1, <2>2, <3>1, NothingIsTakenBack DEF RequestInv, WritesItsKind
  <2>. QED  BY <1>0, <2>1, <2>2, NothingIsTakenBack DEF RequestInv, WritesItsKind
<1>2. AnswerWasShown(r)'
  <2>1. asked[r] \in Fields
    BY <1>0 DEF Types
  <2>2. CASE pc[r] = "served" /\ served[r] # NA
    <3>1. Shown(asked[r], served[r])
      BY <1>0, <2>2 DEF RequestInv, AnswerWasShown
    <3>. QED  BY <1>0, <2>1, <3>1, ShownStays DEF AnswerWasShown, Shown
  <2>. QED  BY <2>2 DEF AnswerWasShown
<1>3. CalmRequest(r)'
  <2>1. CASE calm'[r] = FALSE
    BY <2>1 DEF CalmRequest
  <2>2. CASE calm[r] /\ UNCHANGED <<instances, purpose, version, server, field>>
    <3>1. passed(r)' = passed(r) /\ \A f : Having(f)' = Having(f)
      BY <2>2 DEF passed, Having
    <3>2. /\ pc[r] \in {"linking", "writing", "adding"} => LoopIsAt(r)
          /\ pc[r] = "adding" => value[r] = version[Head(todo[r])]
          /\ pc[r] = "absent" => ~server
          /\ pc[r] = "served" => CalmAnswer(r)
      BY <1>0, <2>2 DEF RequestInv, CalmRequest
    <3>3. CASE pc[r] \in {"linking", "writing", "adding"}
      <4>1. LastOfFirst(asked[r], passed(r), field[asked[r]])'
        BY <2>2, <3>1, <3>2, <3>3 DEF LoopIsAt, LastOfFirst
      <4>2. LoopIsAt(r)'
        BY <2>2, <3>1, <3>2, <3>3, <4>1 DEF LoopIsAt
      <4>. QED  BY <2>2, <3>2, <3>3, <4>2 DEF CalmRequest
    <3>4. CASE pc[r] = "served"
      <4>1. CalmAnswer(r)'
        BY <2>2, <3>1, <3>2, <3>4 DEF CalmAnswer
      <4>. QED  BY <3>4, <4>1 DEF CalmRequest
    <3>5. CASE pc[r] \notin {"linking", "writing", "adding", "served"}
      BY <2>2, <3>2, <3>5 DEF CalmRequest
    <3>. QED  BY <3>3, <3>4, <3>5
  <2>3. calm'[r] \in BOOLEAN
    BY NextTypes DEF Types
  <2>. QED  BY <2>1, <2>2, <2>3
<1>. QED  BY <1>1, <1>2, <1>3 DEF RequestInv

LEMMA StartStep ==
    ASSUME IInv, NEW r \in Requests, NEW f \in Fields, Start(r, f)
    PROVE  RequestInv(r)'
<1>0. Types /\ IInv
  BY DEF IInv
<1>1. /\ pc'[r] = IF server THEN "linking" ELSE "absent"
      /\ todo'[r] = IF server THEN instances ELSE <<>>
      /\ asked'[r] = f
      /\ UNCHANGED <<instances, purpose, version, server, field>>
  BY <1>0 DEF Start, Goto, Types, busVars, serverVars
<1>2. WritesItsKind(r)'
  BY <1>0, <1>1 DEF WritesItsKind, Types
<1>3. AnswerWasShown(r)'
  BY <1>1 DEF AnswerWasShown
<1>4. CalmRequest(r)'
  <2>1. CASE ~server
    BY <1>1, <2>1 DEF CalmRequest
  <2>2. CASE server
    <3>1. passed(r)' = 0
      BY <1>0, <1>1, <2>2, InstancesAreObjects DEF passed
    <3>2. LastOfFirst(asked[r], passed(r), field[asked[r]])'
      BY <3>1 DEF LastOfFirst
    <3>3. \A i \in 1..Len(todo'[r]) : todo'[r][i] = instances'[passed(r)' + i]
      BY <1>0, <1>1, <2>2, <3>1, InstancesAreObjects
    <3>4. LoopIsAt(r)'
      BY <1>1, <2>2, <3>1, <3>2, <3>3 DEF LoopIsAt
    <3>. QED  BY <1>1, <2>2, <3>4 DEF CalmRequest
  <2>. QED  BY <2>1, <2>2
<1>. QED  BY <1>2, <1>3, <1>4 DEF RequestInv

\* One more instance passed that has not the purpose asked for, or has it and has
\* written its version.
LEMMA OneMorePassed ==
    ASSUME NEW f, NEW n \in Nat, NEW v, NEW w, LastOfFirst(f, n, v),
           IF instances[n + 1] \in Having(f) THEN w = version[instances[n + 1]] ELSE w = v
    PROVE  LastOfFirst(f, n + 1, w)
<1>1. \A i \in 1..(n + 1) : i \in 1..n \/ i = n + 1
  OBVIOUS
<1>2. CASE instances[n + 1] \in Having(f)
  <2>1. n + 1 \in 1..(n + 1) /\ \A j \in 1..(n + 1) : j <= n + 1
    OBVIOUS
  <2>. QED  BY <1>2, <2>1 DEF LastOfFirst
<1>3. CASE instances[n + 1] \notin Having(f)
  <2>1. CASE \A i \in 1..n : instances[i] \notin Having(f)
    BY <1>1, <1>3, <2>1 DEF LastOfFirst
  <2>2. CASE ~\A i \in 1..n : instances[i] \notin Having(f)
    <3>1. PICK i \in 1..n : /\ instances[i] \in Having(f) /\ v = version[instances[i]]
                            /\ \A j \in 1..n : instances[j] \in Having(f) => j <= i
      BY <2>2 DEF LastOfFirst
    <3>2. i \in 1..(n + 1)
      OBVIOUS
    <3>3. \A j \in 1..(n + 1) : instances[j] \in Having(f) => j <= i
      BY <1>1, <1>3, <3>1
    <3>. QED  BY <1>3, <3>1, <3>2, <3>3 DEF LastOfFirst
  <2>. QED  BY <2>1, <2>2
<1>. QED  BY <1>2, <1>3

\* The loop goes on to the next instance.
LEMMA LoopAdvances ==
    ASSUME IInv, NEW r \in Requests, LoopIsAt(r), todo[r] # <<>>,
           todo'[r] = Tail(todo[r]), asked'[r] = asked[r],
           UNCHANGED <<instances, purpose, version, server>>,
           IF Head(todo[r]) \in Having(asked[r])
           THEN field'[asked[r]] = version[Head(todo[r])]
           ELSE field'[asked[r]] = field[asked[r]]
    PROVE  LoopIsAt(r)'
<1>. DEFINE n == passed(r)
            q == todo[r]
<1>1. q \in Seq(Objects) /\ Len(instances) \in Nat /\ n \in Nat
  BY InstancesAreObjects DEF IInv, Types, LoopIsAt
<1>2. /\ Head(q) = q[1] /\ Len(q) \in Nat \ {0} /\ Len(Tail(q)) = Len(q) - 1
      /\ \A k \in 1..Len(Tail(q)) : Tail(q)[k] = q[k + 1]
  BY <1>1, LoopGoesOn
<1>3. passed(r)' = n + 1
  <2>1. n = Len(instances) - Len(q) /\ passed(r)' = Len(instances) - Len(Tail(q))
    BY DEF passed
  <2>. HIDE DEF n, q
  <2>. QED  BY <1>1, <1>2, <2>1
<1>4. \A i \in 1..Len(q) : q[i] = instances[n + i]
  BY DEF LoopIsAt
<1>5. Head(q) = instances[n + 1]
  BY <1>2, <1>4
<1>6. \A i \in 1..Len(Tail(q)) : Tail(q)[i] = instances[(n + 1) + i]
  <2>. TAKE i \in 1..Len(Tail(q))
  <2>1. i + 1 \in 1..Len(q) /\ n + (i + 1) = (n + 1) + i
    <3>1. n \in Nat /\ Len(q) \in Nat /\ Len(Tail(q)) = Len(q) - 1
      BY <1>1, <1>2
    <3>2. i \in 1..Len(Tail(q))
      OBVIOUS
    <3>. HIDE DEF n, q
    <3>. QED  BY <3>1, <3>2
  <2>. QED  BY <1>2, <1>4, <2>1
<1>7. LastOfFirst(asked[r], n, field[asked[r]])
  BY DEF LoopIsAt
<1>. HIDE DEF n, q
<1>8. ASSUME NEW w, w = field'[asked[r]]
      PROVE  LastOfFirst(asked[r], n + 1, w)
  BY <1>1, <1>5, <1>7, <1>8, OneMorePassed DEF q
<1>9. LastOfFirst(asked[r], passed(r), field[asked[r]])'
  BY <1>3, <1>8 DEF LastOfFirst, Having
<1>. QED  BY <1>1, <1>3, <1>6, <1>9 DEF LoopIsAt, q

LEMMA ReadPurposeStep ==
    ASSUME IInv, NEW r \in Requests, ReadPurpose(r)
    PROVE  RequestInv(r)'
<1>. DEFINE o == Head(todo[r])
            m == purposeToMemberName(getPurpose(purpose[o]))
<1>0. Types /\ RequestInv(r)
  BY DEF IInv
<1>1. /\ pc[r] = "linking" /\ todo[r] # <<>> /\ todo[r] \in Seq(Objects)
      /\ member'[r] = m
      /\ UNCHANGED <<instances, purpose, version, server, field, asked, served, calm>>
  BY <1>0 DEF ReadPurpose, At, Types, busVars, serverVars
<1>2. /\ o \in Objects /\ m \in Fields \cup {"none"} /\ asked[r] \in Fields
      /\ \A f \in Fields : m = f <=> o \in Having(f)
  BY <1>0, <1>1, LoopGoesOn, MemberOfPurpose DEF Types
<1>. HIDE DEF o, m
<1>3. CASE m = "none"
  <2>1. pc'[r] = "linking" /\ todo'[r] = Tail(todo[r])
    BY <1>0, <1>1, <1>3 DEF ReadPurpose, Skips, Types, m, o
  <2>2. WritesItsKind(r)' /\ AnswerWasShown(r)'
    BY <1>0, <1>1, <2>1 DEF RequestInv, WritesItsKind, AnswerWasShown
  <2>3. o \notin Having(asked[r])
    BY <1>2, <1>3 DEF Fields
  <2>4. CalmRequest(r)'
    <3>1. CASE calm[r]
      <4>1. LoopIsAt(r)
        BY <1>0, <1>1, <3>1 DEF RequestInv, CalmRequest
      <4>2. LoopIsAt(r)'
        BY <1>1, <2>1, <2>3, <4>1, LoopAdvances DEF o
      <4>. QED  BY <2>1, <4>2 DEF CalmRequest
    <3>. QED  BY <1>1, <3>1 DEF CalmRequest
  <2>. QED  BY <2>2, <2>4 DEF RequestInv
<1>4. CASE m # "none"
  <2>1. pc'[r] = "writing" /\ todo'[r] = todo[r]
    BY <1>0, <1>1, <1>4 DEF ReadPurpose, Skips, Goto, Types, m, o
  <2>2. WritesItsKind(r)'
    BY <1>0, <1>1, <1>2, <1>4, <2>1 DEF RequestInv, WritesItsKind, Having, o
  <2>3. AnswerWasShown(r)'
    BY <2>1 DEF AnswerWasShown
  <2>4. CalmRequest(r)'
    BY <1>0, <1>1, <2>1 DEF RequestInv, CalmRequest, LoopIsAt, passed, LastOfFirst, Having
  <2>. QED  BY <2>2, <2>3, <2>4 DEF RequestInv
<1>. QED  BY <1>3, <1>4

\* The version of the next instance is in the member of its purpose.
LEMMA WriteStep ==
    ASSUME IInv, NEW r \in Requests, NEW v, Write(r, v), pc[r] \in {"writing", "adding"},
           calm[r] => v = version[Head(todo[r])],
           UNCHANGED <<instances, purpose, version, server, asked, member, served>>
    PROVE  RequestInv(r)'
<1>. DEFINE o == Head(todo[r])
<1>0. Types /\ RequestInv(r)
  BY DEF IInv
<1>1. /\ pc'[r] = "linking" /\ todo'[r] = Tail(todo[r])
      /\ field' = [field EXCEPT ![member[r]] = v]
      /\ calm'[r] = calm[r]
  BY <1>0 DEF Write, setValue, Disturb, Goto, Types
<1>2. /\ todo[r] # <<>> /\ instances = Images /\ member[r] \in Fields
      /\ o \in Having(member[r]) /\ asked[r] \in Fields
  BY <1>0 DEF RequestInv, WritesItsKind, Types
<1>3. WritesItsKind(r)' /\ AnswerWasShown(r)'
  BY <1>1, <1>2 DEF WritesItsKind, AnswerWasShown
<1>4. CalmRequest(r)'
  <2>1. CASE calm[r]
    <3>1. LoopIsAt(r) /\ v = version[o]
      BY <1>0, <2>1 DEF RequestInv, CalmRequest
    <3>2. o \in Having(asked[r]) <=> asked[r] = member[r]
      BY <1>2 DEF Having, Wanted, Fields
    <3>3. field'[asked[r]] = IF asked[r] = member[r] THEN version[o] ELSE field[asked[r]]
      BY <1>0, <1>1, <1>2, <3>1 DEF Types
    <3>4. LoopIsAt(r)'
      BY <1>1, <1>2, <3>1, <3>2, <3>3, LoopAdvances
    <3>. QED  BY <1>1, <3>4 DEF CalmRequest
  <2>. QED  BY <1>1, <2>1 DEF CalmRequest
<1>. QED  BY <1>3, <1>4 DEF RequestInv

LEMMA WriteVersionStep ==
    ASSUME IInv, NEW r \in Requests, WriteVersion(r)
    PROVE  RequestInv(r)'
<1>. DEFINE o == Head(todo[r])
<1>0. Types /\ FieldsWereShown /\ RequestInv(r)
  BY DEF IInv
<1>1. /\ pc[r] = "writing"
      /\ UNCHANGED <<instances, purpose, version, showed, server, asked, member, served>>
  BY DEF WriteVersion, At, busVars
<1>2. CASE Write(r, version[o])
  BY <1>1, <1>2, WriteStep
<1>3. CASE ~Write(r, version[o])
  <2>1. /\ pc'[r] = "adding" /\ value'[r] = version[o]
        /\ UNCHANGED <<field, todo, calm>>
    BY <1>0, <1>3 DEF WriteVersion, Goto, Types
  <2>2. /\ todo[r] # <<>> /\ instances = Images
        /\ member[r] \in Fields /\ o \in Having(member[r])
    BY <1>0, <1>1 DEF RequestInv, WritesItsKind
  <2>3. o \in Objects /\ version[o] \in showed[o]
    BY <1>0, <2>2, LoopGoesOn DEF FieldsWereShown, Types
  <2>4. WritesItsKind(r)' /\ AnswerWasShown(r)'
    BY <1>1, <2>1, <2>2, <2>3 DEF WritesItsKind, AnswerWasShown, Having
  <2>5. CalmRequest(r)'
    <3>1. calm[r] => LoopIsAt(r)
      BY <1>0, <1>1 DEF RequestInv, CalmRequest
    <3>2. calm[r] => LoopIsAt(r)'
      BY <1>1, <2>1, <3>1 DEF LoopIsAt, passed, LastOfFirst, Having
    <3>. QED  BY <1>1, <2>1, <3>2 DEF CalmRequest
  <2>. QED  BY <2>4, <2>5 DEF RequestInv
<1>. QED  BY <1>2, <1>3

LEMMA SupplementStep ==
    ASSUME IInv, NEW r \in Requests, supplement(r)
    PROVE  RequestInv(r)'
<1>1. /\ pc[r] = "adding" /\ Write(r, value[r])
      /\ UNCHANGED <<instances, purpose, version, server, asked, member, served>>
  BY DEF supplement, At, busVars
<1>2. calm[r] => value[r] = version[Head(todo[r])]
  BY <1>1 DEF IInv, RequestInv, CalmRequest
<1>. QED  BY <1>1, <1>2, WriteStep

LEMMA ServeStep ==
    ASSUME IInv, NEW r \in Requests, Serve(r)
    PROVE  RequestInv(r)'
<1>. DEFINE f == asked[r]
<1>0. Types /\ FieldsWereShown /\ RequestInv(r) /\ f \in Fields
  BY DEF IInv, Types
<1>1. /\ pc'[r] = "served"
      /\ UNCHANGED <<instances, purpose, version, showed, server, field, asked, todo, calm>>
  BY <1>0 DEF Serve, Goto, Types, busVars, serverVars
<1>2. WritesItsKind(r)'
  BY <1>0, <1>1 DEF RequestInv, WritesItsKind
<1>3. CASE pc[r] = "absent" /\ served'[r] = NA
  <2>1. AnswerWasShown(r)'
    BY <1>3 DEF AnswerWasShown
  <2>2. CalmRequest(r)'
    BY <1>0, <1>1, <1>3 DEF RequestInv, CalmRequest, CalmAnswer
  <2>. QED  BY <1>2, <2>1, <2>2 DEF RequestInv
<1>4. CASE pc[r] = "linking" /\ todo[r] = <<>> /\ served'[r] = field[f]
  <2>1. AnswerWasShown(r)'
    BY <1>0, <1>1, <1>4 DEF FieldsWereShown, AnswerWasShown, Shown, Having
  <2>2. ASSUME calm[r]
        PROVE  CalmAnswer(r)'
    <3>. DEFINE mine == {i \in DOMAIN instances : instances[i] \in Having(f)}
    <3>1. LoopIsAt(r)
      BY <1>0, <1>4, <2>2 DEF RequestInv, CalmRequest
    <3>2. passed(r) = Len(instances) /\ DOMAIN instances = 1..Len(instances)
      BY <1>0, <1>4, InstancesAreObjects, EmptySeq DEF passed
    <3>3. server /\ LastOfFirst(f, Len(instances), field[f])
      BY <3>1, <3>2 DEF LoopIsAt
    <3>4. CASE mine = {}
      <4>1. ~(field[f] # NA)
        <5>1. SUFFICES ASSUME field[f] # NA PROVE FALSE
          OBVIOUS
        <5>2. instances = Images /\ \E o \in Objects : o \in Having(f)
          BY <1>0, <5>1 DEF FieldsWereShown, Shown, Having
        <5>3. \E i \in 1..Len(Images) : Images[i] \in Having(f)
          BY <5>2, ConstantFacts
        <5>. QED  BY <3>2, <3>4, <5>2, <5>3
      <4>. QED  BY <1>1, <1>4, <3>4, <4>1 DEF CalmAnswer, Having
    <3>5. CASE mine # {}
      <4>1. PICK i \in 1..Len(instances) :
              /\ instances[i] \in Having(f) /\ field[f] = version[instances[i]]
              /\ \A j \in 1..Len(instances) : instances[j] \in Having(f) => j <= i
        BY <3>2, <3>3, <3>5 DEF LastOfFirst
      <4>2. i \in mine /\ (\A j \in mine : j <= i) /\ field[f] = version[instances[i]]
        BY <3>2, <4>1
      <4>3. \E k \in mine : (\A j \in mine : j <= k) /\ served'[r] = version[instances[k]]
        BY <1>4, <4>2
      <4>. QED  BY <1>1, <3>3, <3>5, <4>3 DEF CalmAnswer, Having
    <3>. QED  BY <3>4, <3>5
  <2>3. CalmRequest(r)'
    BY <1>1, <2>2 DEF CalmRequest
  <2>. QED  BY <1>2, <2>1, <2>3 DEF RequestInv
<1>. QED  BY <1>0, <1>3, <1>4 DEF Serve, At, Types

LEMMA AgainStep ==
    ASSUME IInv, NEW r \in Requests, Again(r)
    PROVE  RequestInv(r)'
<1>1. Types /\ RequestInv(r)
  BY DEF IInv
<1>2. pc'[r] = "idle" /\ UNCHANGED <<todo, instances>>
  BY <1>1 DEF Again, Goto, Types, busVars
<1>. QED  BY <1>1, <1>2 DEF RequestInv, WritesItsKind, AnswerWasShown, CalmRequest

LEMMA NextIInv == IInv /\ [Next]_vars => IInv'
<1>. SUFFICES ASSUME IInv, [Next]_vars PROVE IInv'
  OBVIOUS
<1>0. Types
  BY DEF IInv
<1>1. ASSUME NEW q \in Requests
      PROVE  RequestInv(q)'
  <2>1. CASE PublishVersions \/ PublishServer \/ \E o \in Objects : Signal(o)
    <3>1. calm'[q] = FALSE /\ UNCHANGED <<pc, asked, todo, member, value, served>>
      BY <2>1 DEF PublishVersions, PublishServer, Signal, Disturb
    <3>. QED  BY <3>1, OtherRequests
  <2>2. ASSUME NEW r \in Requests, NEW f \in Fields, Start(r, f)
        PROVE  RequestInv(q)'
    <3>1. CASE r = q
      BY <2>2, <3>1, StartStep
    <3>2. CASE r # q
      BY <1>0, <2>2, <3>2, OtherRequests
         DEF Start, Goto, Types, busVars, serverVars
    <3>. QED  BY <3>1, <3>2
  <2>3. ASSUME NEW r \in Requests, ReadPurpose(r)
        PROVE  RequestInv(q)'
    <3>1. CASE r = q
      BY <2>3, <3>1, ReadPurposeStep
    <3>2. CASE r # q
      BY <1>0, <2>3, <3>2, OtherRequests
         DEF ReadPurpose, Goto, Types, busVars, serverVars
    <3>. QED  BY <3>1, <3>2
  <2>4. ASSUME NEW r \in Requests, WriteVersion(r) \/ supplement(r)
        PROVE  RequestInv(q)'
    <3>1. CASE r = q
      BY <2>4, <3>1, WriteVersionStep, SupplementStep
    <3>2. CASE r # q
      <4>1. UNCHANGED <<pc[q], asked[q], todo[q], member[q], value[q], served[q]>>
        BY <1>0, <2>4, <3>2 DEF WriteVersion, supplement, Write, Goto, Types
      <4>2. \/ UNCHANGED <<instances, purpose, version, server, field, calm>>
            \/ calm'[q] = FALSE
            \/ q = r
        BY <2>4 DEF WriteVersion, supplement, Write, Disturb, busVars
      <4>. QED  BY <3>2, <4>1, <4>2, OtherRequests
    <3>. QED  BY <3>1, <3>2
  <2>5. ASSUME NEW r \in Requests, Serve(r) \/ Again(r)
        PROVE  RequestInv(q)'
    <3>1. CASE r = q
      BY <2>5, <3>1, ServeStep, AgainStep
    <3>2. CASE r # q
      BY <1>0, <2>5, <3>2, OtherRequests
         DEF Serve, Again, Goto, Types, busVars, serverVars
    <3>. QED  BY <3>1, <3>2
  <2>6. CASE UNCHANGED <<busVars, serverVars, requestVars>>
    BY <2>6, OtherRequests DEF busVars, serverVars, requestVars
  <2>. QED  BY <2>1, <2>2, <2>3, <2>4, <2>5, <2>6
       DEF Next, supplementThrows, Gone, vars
<1>. QED  BY <1>1, NextTypes, NextFieldsWereShown DEF IInv
-----------------------------------------------------------------------------
\* The inductive invariant holds in every reachable state.
THEOREM Invariance == Spec => []IInv
BY InitIInv, NextIInv, PTL DEF Spec

\* A version that is answered was shown by an object of the right purpose,
\* however many requests link versions into the shared instance at once.
THEOREM ServedVersionsWereShown == Spec => []ServedWasShown
<1>1. IInv => ServedWasShown
  BY DEF IInv, RequestInv, AnswerWasShown, Shown, ServedWasShown, At
<1>. QED  BY <1>1, Invariance, PTL

\* Without interference the answer is that of the last object of the purpose in
\* the order of hashes, also where that one has no version.
THEOREM LastImageWins == Spec => []LastWinsIfCalm
<1>1. IInv => LastWinsIfCalm
  BY DEF IInv, RequestInv, CalmRequest, CalmAnswer, LastWinsIfCalm, At
<1>. QED  BY <1>1, Invariance, PTL
=============================================================================
