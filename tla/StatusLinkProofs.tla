-------------------------- MODULE StatusLinkProofs ---------------------------
(***************************************************************************)
(* Machine-checked proofs about StatusLink, for any sensors, providers and *)
(* lists of associations, and any number of signals.  The types, and why a *)
(* request fails, hold for any number of request threads, the properties   *)
(* of the answers for one: two share the instances without a lock.         *)
(***************************************************************************)
EXTENDS StatusLink, SequenceTheorems, TLAPS

(***************************************************************************)
(* With any number of threads.                                             *)
(***************************************************************************)

\* Where a request is at a sensor, the sensor has a status once it was given its
\* default, and what it is about to store is one that getHigherStatus knows.
Position(r) ==
    /\ pc[r] \in {"add", "collect", "addOwn", "copy", "link", "store"} =>
          sensor[r] \in Sensors
    /\ pc[r] \in {"collect", "addOwn", "copy", "link", "store"} =>
          field[sensor[r]] \in Known
    /\ pc[r] \in {"addOwn", "copy"} => source[r] \in sources[r]
    /\ pc[r] = "store" => cands[r] # <<>> /\ Head(cands[r]) \in Known

\* The history of a request has what the children show now.
SeesChildren(r) ==
    Busy(r) => \A p \in Providers, s \in Sensors : children[p][s] \in shown[r][p][s]

TInv == TypeOK /\ \A r \in Requests : Position(r) /\ SeesChildren(r)

(***************************************************************************)
(* With one thread.                                                        *)
(***************************************************************************)
OneThread == \A q, r \in Requests : q = r

Elements(q) == {q[i] : i \in 1..Len(q)}

\* A status is the highest of what the providers showed the request.
WasShown(r, s, f) ==
    \E v \in [Providers -> Known] :
        /\ \A p \in Providers : v[p] \in shown[r][p][s] /\ v[p] <= f
        /\ f = OK \/ \E p \in Providers : f = v[p]

\* While the request is at a sensor: the status so far and the children still to
\* be linked are, together, what the providers showed that were asked.
UnderWay(r) ==
    LET f == field[sensor[r]]
    IN  \E v \in [Providers -> Statuses] :
            /\ \A p \in Providers :
                  /\ IF p \in sources[r] THEN v[p] = OK ELSE v[p] \in shown[r][p][sensor[r]]
                  /\ v[p] <= f \/ v[p] \in Elements(cands[r])
            /\ f = OK \/ \E p \in Providers : f = v[p]
            /\ \A c \in Elements(cands[r]) : \E p \in Providers : c = v[p]

Passed(r, S) == \A s \in S : WasShown(r, s, field[s])

RequestInv(r) ==
    /\ pc[r] = "instances" => Passed(r, Sensors \ todo[r])
    /\ pc[r] \in {"add", "collect", "addOwn", "copy", "link", "store"} =>
          Passed(r, Sensors \ (todo[r] \cup {sensor[r]}))
    /\ pc[r] = "add" => /\ field[sensor[r]] = NoField
                        /\ sources[r] = Providers /\ cands[r] = <<>>
    /\ pc[r] \in {"collect", "addOwn", "copy", "link", "store"} => UnderWay(r)
    /\ pc[r] = "addOwn" => ~own[source[r]]
    /\ pc[r] \in {"link", "store"} => sources[r] = {}
    /\ pc[r] = "store" => current[r] = field[sensor[r]]
    /\ pc[r] = "read" => /\ Passed(r, Sensors)
                         /\ \A s \in Sensors \ todo[r] : served[r][s] = field[s]
    /\ pc[r] = "replied" => \A s \in Sensors : WasShown(r, s, served[r][s])
    /\ pc[r] = "failed" => \E p \in Providers, s \in Sensors : Unknown \in shown[r][p][s]

IInv == TInv /\ \A r \in Requests : RequestInv(r)
-----------------------------------------------------------------------------
(***************************************************************************)
(* Sequences of candidates.                                                *)
(***************************************************************************)
LEMMA NoElements == Elements(<<>>) = {}
BY EmptySeq DEF Elements

LEMMA AppendElement ==
    ASSUME NEW S, NEW q \in Seq(S), NEW c \in S
    PROVE  Append(q, c) \in Seq(S) /\ Elements(Append(q, c)) = Elements(q) \cup {c}
<1>. DEFINE n == Len(q) + 1
<1>1. /\ Append(q, c) \in Seq(S) /\ Len(Append(q, c)) = n /\ Len(q) \in Nat
      /\ \A i \in 1..Len(q) : Append(q, c)[i] = q[i]
      /\ Append(q, c)[n] = c
  BY AppendProperties
<1>2. 1..n = 1..Len(q) \cup {n}
  BY <1>1
<1>. HIDE DEF n
<1>3. Elements(Append(q, c)) = {Append(q, c)[i] : i \in 1..n}
  BY <1>1 DEF Elements
<1>4. ASSUME NEW d \in Elements(Append(q, c))
      PROVE  d \in Elements(q) \cup {c}
  BY <1>1, <1>2, <1>3 DEF Elements
<1>5. ASSUME NEW d \in Elements(q) \cup {c}
      PROVE  d \in Elements(Append(q, c))
  BY <1>1, <1>2, <1>3 DEF Elements
<1>. QED  BY <1>1, <1>4, <1>5

LEMMA FirstElement ==
    ASSUME NEW S, NEW q \in Seq(S), q # <<>>
    PROVE  /\ Head(q) \in S /\ Tail(q) \in Seq(S)
           /\ Elements(q) = {Head(q)} \cup Elements(Tail(q))
<1>1. Len(q) \in Nat \ {0}
  BY EmptySeq
<1>2. Head(q) = q[1]
  <2>1. SubSeq(q, 1, Len(q)) = q
    BY SubSeqFull
  <2>2. 1 \in 1..Len(q) /\ Len(q) \in 1..Len(q)
    BY <1>1
  <2>. QED  BY <2>1, <2>2, HeadTailOfSubSeq
<1>3. /\ Head(q) \in S /\ Tail(q) \in Seq(S) /\ Len(Tail(q)) = Len(q) - 1
      /\ \A i \in 1..Len(Tail(q)) : Tail(q)[i] = q[i + 1]
  BY HeadTailProperties
<1>. DEFINE t == Tail(q)
<1>. HIDE DEF t
<1>4. ASSUME NEW d \in Elements(q)
      PROVE  d \in {Head(q)} \cup Elements(t)
  <2>1. PICK i \in 1..Len(q) : d = q[i]
    BY DEF Elements
  <2>2. CASE i = 1
    BY <1>2, <2>1, <2>2
  <2>3. CASE i # 1
    <3>1. i - 1 \in 1..Len(t) /\ (i - 1) + 1 = i
      BY <1>1, <1>3, <2>3 DEF t
    <3>2. d = t[i - 1]
      BY <1>3, <2>1, <3>1 DEF t
    <3>. QED  BY <3>1, <3>2 DEF Elements
  <2>. QED  BY <2>2, <2>3
<1>5. Head(q) \in Elements(q)
  <2>1. 1 \in 1..Len(q)
    BY <1>1
  <2>. QED  BY <1>2, <2>1 DEF Elements
<1>6. ASSUME NEW d \in Elements(t)
      PROVE  d \in Elements(q)
  <2>1. PICK i \in 1..Len(t) : d = t[i]
    BY DEF Elements
  <2>2. i + 1 \in 1..Len(q) /\ d = q[i + 1]
    BY <1>1, <1>3, <2>1 DEF t
  <2>. QED  BY <2>2 DEF Elements
<1>. QED  BY <1>3, <1>4, <1>5, <1>6 DEF t

(***************************************************************************)
(* The watchers.                                                           *)
(***************************************************************************)
LEMMA InitTInv == Init => TInv
<1>. SUFFICES ASSUME Init PROVE TInv
  OBVIOUS
<1>1. /\ children \in [Providers -> [Sensors -> Statuses]]
      /\ field \in [Sensors -> Field]
      /\ current \in [Requests -> Known]
      /\ served \in [Requests -> [Sensors -> Field]]
  BY DEF Init, Statuses, Field, Known, OK
<1>2. /\ cands \in [Requests -> Seq(Statuses \ {OK})]
      /\ todo \in [Requests -> SUBSET Sensors]
      /\ sources \in [Requests -> SUBSET Providers]
      /\ sensor \in [Requests -> Sensors \cup {"none"}]
      /\ source \in [Requests -> Providers \cup {"none"}]
  BY EmptySeq DEF Init
<1>3. shown \in [Requests -> [Providers -> [Sensors -> SUBSET Statuses]]]
  BY DEF Init
<1>4. /\ pc \in [Requests -> Steps] /\ own \in [Providers -> BOOLEAN]
      /\ updates \in 0..MaxUpdates /\ up \in BOOLEAN
      /\ \A p \in Providers : update[p] \in Seq(Association) \cup {Idle}
  BY UpdatesAssumption DEF Init, Steps
<1>5. \A r \in Requests : pc[r] = "idle"
  BY DEF Init
<1>. QED  BY <1>1, <1>2, <1>3, <1>4, <1>5 DEF TInv, TypeOK, Position, SeesChildren, Busy

\* What a provider shows next is added to the history of the requests under way.
LEMMA ShowAdds ==
    ASSUME TypeOK, NEW p \in Providers, NEW kids \in [Sensors -> Statuses], Show(p, kids)
    PROVE  /\ shown' \in [Requests -> [Providers -> [Sensors -> SUBSET Statuses]]]
           /\ \A r \in Requests, q \in Providers, s \in Sensors :
                 shown[r][q][s] \subseteq shown'[r][q][s]
           /\ \A r \in Requests, s \in Sensors : Busy(r) => kids[s] \in shown'[r][p][s]
<1>1. ASSUME NEW r \in Requests
      PROVE  /\ shown'[r] \in [Providers -> [Sensors -> SUBSET Statuses]]
             /\ \A q \in Providers, s \in Sensors : shown[r][q][s] \subseteq shown'[r][q][s]
             /\ Busy(r) => \A s \in Sensors : kids[s] \in shown'[r][p][s]
  <2>1. shown[r] \in [Providers -> [Sensors -> SUBSET Statuses]]
    BY DEF TypeOK
  <2>2. CASE ~Busy(r)
    BY <2>1, <2>2 DEF Show
  <2>3. CASE Busy(r)
    <3>. DEFINE h == [s \in Sensors |-> shown[r][p][s] \cup {kids[s]}]
    <3>1. h \in [Sensors -> SUBSET Statuses]
      BY <2>1
    <3>2. shown'[r] = [shown[r] EXCEPT ![p] = h]
      BY <2>3 DEF Show
    <3>3. \A s \in Sensors : h[s] = shown[r][p][s] \cup {kids[s]}
      OBVIOUS
    <3>. HIDE DEF h
    <3>. QED  BY <2>1, <3>1, <3>2, <3>3
  <2>. QED  BY <2>2, <2>3
<1>2. DOMAIN shown' = Requests /\ shown' = [r \in Requests |-> shown'[r]]
  BY DEF Show
<1>. QED  BY <1>1, <1>2

\* The callback has cleared the children, or inserted one.
NewChildren(p) ==
    \E kids \in [Sensors -> Statuses], rest \in Seq(Association) :
        /\ children' = [children EXCEPT ![p] = kids]
        /\ update' = [update EXCEPT ![p] = rest]
        /\ Show(p, kids)
        /\ updates' \in 0..MaxUpdates

\* A step of captureDBusAssociations disturbs no request, it shows it something.
LEMMA WatcherStep ==
    ASSUME TInv, NEW p \in Providers, Watcher(p)
    PROVE  /\ TInv'
           /\ UNCHANGED <<field, own, pc, requestVars>>
           /\ \A r \in Requests, q \in Providers, s \in Sensors :
                 shown[r][q][s] \subseteq shown'[r][q][s]
<1>0. TypeOK /\ \A r \in Requests : Position(r) /\ SeesChildren(r)
  BY DEF TInv
<1>1. UNCHANGED <<up, field, own, pc, todo, sensor, sources, source, cands, current,
                  served>>
  BY DEF Watcher, ClearAssociations, InsertAssociation, CallbackDone, requestVars
<1>2. \A r \in Requests : Position(r)' /\ Busy(r)' = Busy(r)
  BY <1>0, <1>1 DEF Position, Busy
<1>3. \/ UNCHANGED <<children, shown, updates>> /\ update' = [update EXCEPT ![p] = Idle]
      \/ NewChildren(p)
  <2>1. ASSUME NEW list \in Updates, ClearAssociations(p, list)
        PROVE  NewChildren(p)
    <3>. DEFINE kids == [s \in Sensors |-> OK]
    <3>1. kids \in [Sensors -> Statuses] /\ list \in Seq(Association)
      BY UpdatesAssumption DEF Statuses, Known
    <3>2. children' = [children EXCEPT ![p] = kids] /\ children'[p] = kids
      BY <1>0, <2>1 DEF ClearAssociations, TypeOK
    <3>3. updates' \in 0..MaxUpdates
      BY <1>0, <2>1, UpdatesAssumption DEF ClearAssociations, TypeOK
    <3>4. Show(p, kids)
      BY <2>1, <3>2 DEF ClearAssociations
    <3>. HIDE DEF kids
    <3>. QED  BY <2>1, <3>1, <3>2, <3>3, <3>4 DEF ClearAssociations, NewChildren
  <2>2. CASE InsertAssociation(p)
    <3>. DEFINE a == Head(update[p])
                kids == [children[p] EXCEPT ![a.sensor] = a.status]
    <3>1. update[p] \in Seq(Association) /\ update[p] # <<>>
      BY <1>0, <2>2 DEF InsertAssociation, TypeOK
    <3>2. a \in Association /\ Tail(update[p]) \in Seq(Association)
      BY <3>1, FirstElement
    <3>3. children[p] \in [Sensors -> Statuses]
      BY <1>0 DEF TypeOK
    <3>4. kids \in [Sensors -> Statuses]
      BY <3>2, <3>3 DEF Association, Statuses
    <3>5. children' = [children EXCEPT ![p] = kids] /\ children'[p] = kids
      BY <1>0, <2>2 DEF InsertAssociation, TypeOK
    <3>6. update' = [update EXCEPT ![p] = Tail(update[p])]
      BY <2>2 DEF InsertAssociation
    <3>7. Show(p, kids) /\ updates' \in 0..MaxUpdates
      BY <1>0, <2>2, <3>5 DEF InsertAssociation, TypeOK
    <3>. HIDE DEF kids
    <3>. QED  BY <3>2, <3>4, <3>5, <3>6, <3>7 DEF NewChildren
  <2>3. CASE CallbackDone(p)
    BY <2>3 DEF CallbackDone
  <2>. QED  BY <2>1, <2>2, <2>3 DEF Watcher
<1>4. CASE UNCHANGED <<children, shown, updates>> /\ update' = [update EXCEPT ![p] = Idle]
  <2>1. \A q \in Providers : update'[q] \in Seq(Association) \cup {Idle}
    BY <1>0, <1>4 DEF TypeOK
  <2>2. TypeOK' /\ \A r \in Requests : SeesChildren(r)'
    BY <1>0, <1>1, <1>2, <1>4, <2>1 DEF TypeOK, SeesChildren
  <2>. QED  BY <1>1, <1>2, <1>4, <2>2 DEF TInv, requestVars
<1>5. ASSUME NEW kids \in [Sensors -> Statuses], NEW rest \in Seq(Association),
             children' = [children EXCEPT ![p] = kids],
             update' = [update EXCEPT ![p] = rest],
             Show(p, kids), updates' \in 0..MaxUpdates
      PROVE  TInv' /\ \A r \in Requests, q \in Providers, s \in Sensors :
                          shown[r][q][s] \subseteq shown'[r][q][s]
  <2>1. \A q \in Providers : update'[q] \in Seq(Association) \cup {Idle}
    BY <1>0, <1>5 DEF TypeOK
  <2>2. children' \in [Providers -> [Sensors -> Statuses]]
    BY <1>0, <1>5 DEF TypeOK
  <2>3. /\ shown' \in [Requests -> [Providers -> [Sensors -> SUBSET Statuses]]]
        /\ \A r \in Requests, q \in Providers, s \in Sensors :
              shown[r][q][s] \subseteq shown'[r][q][s]
        /\ \A r \in Requests, s \in Sensors : Busy(r) => kids[s] \in shown'[r][p][s]
    BY <1>0, <1>5, ShowAdds
  <2>4. TypeOK'
    BY <1>0, <1>1, <1>5, <2>1, <2>2, <2>3 DEF TypeOK
  <2>5. \A q \in Providers : children'[q] = IF q = p THEN kids ELSE children[q]
    BY <1>0, <1>5 DEF TypeOK
  <2>6. \A r \in Requests : SeesChildren(r)'
    BY <1>0, <1>2, <2>3, <2>5 DEF SeesChildren
  <2>. QED  BY <1>2, <2>3, <2>4, <2>6 DEF TInv
<1>. QED  BY <1>1, <1>3, <1>4, <1>5 DEF requestVars, NewChildren

(***************************************************************************)
(* The requests: types, for any number of threads.                         *)
(***************************************************************************)

\* The children stay, and so does the history of all requests but one that starts.
LEMMA RequestFrame ==
    ASSUME TInv, NEW r \in Requests, Request(r)
    PROVE  /\ UNCHANGED watcherVars
           /\ \A q \in Requests \ {r} :
                 UNCHANGED <<pc[q], todo[q], sensor[q], sources[q], source[q], cands[q],
                             current[q], served[q], shown[q]>>
           /\ ~Begin(r) => UNCHANGED shown
<1>0. TypeOK
  BY DEF TInv
<1>1. CASE Begin(r)
  BY <1>0, <1>1 DEF Begin, Goto, TypeOK
<1>2. CASE initDefaultFieldsValue(r) \/ supplement(r)
  BY <1>0, <1>2 DEF initDefaultFieldsValue, supplement, Goto, Throw, TypeOK, requestVars
<1>3. CASE (\E p \in Providers : initOwnDefault(r, p)) \/ supplementOwn(r)
  BY <1>0, <1>3 DEF initOwnDefault, supplementOwn, Goto, Throw, TypeOK, requestVars
<1>4. CASE Collect(r) \/ CollectFault(r)
  BY <1>0, <1>4 DEF Collect, Copied, CollectFault, Goto, TypeOK, requestVars
<1>5. CASE Collected(r) \/ Link(r) \/ Store(r)
  BY <1>0, <1>5 DEF Collected, Link, Store, Goto, Throw, TypeOK, requestVars
<1>6. CASE Linked(r) \/ Read(r)
  BY <1>0, <1>6 DEF Linked, Read, Goto, TypeOK, requestVars
<1>. QED  BY <1>1, <1>2, <1>3, <1>4, <1>5, <1>6 DEF Request

LEMMA RequestTypes ==
    ASSUME TInv, NEW r \in Requests, Request(r)
    PROVE  TypeOK'
<1>. USE DEF TypeOK
<1>0. TypeOK /\ Position(r)
  BY DEF TInv
<1>1. UNCHANGED watcherVars
  BY RequestFrame
<1>2. CASE Begin(r)
  <2>1. [p \in Providers |-> [s \in Sensors |-> {children[p][s]}]]
           \in [Providers -> [Sensors -> SUBSET Statuses]]
    BY <1>0
  <2>2. shown' \in [Requests -> [Providers -> [Sensors -> SUBSET Statuses]]]
    BY <1>0, <1>2, <2>1 DEF Begin
  <2>3. [s \in Sensors |-> NoField] \in [Sensors -> Field]
    BY DEF Field
  <2>4. served' \in [Requests -> [Sensors -> Field]]
    BY <1>0, <1>2, <2>3 DEF Begin
  <2>. QED  BY <1>0, <1>1, <1>2, <2>2, <2>4 DEF Begin, Goto, Steps, watcherVars
<1>3. CASE initDefaultFieldsValue(r)
  <2>1. field' \in [Sensors -> Field]
    BY <1>0, <1>3 DEF initDefaultFieldsValue, Field, Known
  <2>2. cands' \in [Requests -> Seq(Statuses \ {OK})]
    BY <1>0, <1>3, EmptySeq DEF initDefaultFieldsValue
  <2>3. PICK s \in todo[r] : /\ sensor' = [sensor EXCEPT ![r] = s]
                            /\ todo' = [todo EXCEPT ![r] = @ \ {s}]
    BY <1>3 DEF initDefaultFieldsValue
  <2>4. /\ sensor' \in [Requests -> Sensors \cup {"none"}]
        /\ todo' \in [Requests -> SUBSET Sensors]
    BY <1>0, <2>3
  <2>5. pc' = [pc EXCEPT ![r] = "collect"] \/ pc' = [pc EXCEPT ![r] = "add"]
    BY <1>3 DEF initDefaultFieldsValue, Goto
  <2>6. /\ UNCHANGED <<up, children, update, updates, own, source, current, served, shown>>
        /\ sources' = [sources EXCEPT ![r] = Providers]
    BY <1>3 DEF initDefaultFieldsValue, watcherVars
  <2>. QED  BY <1>0, <2>1, <2>2, <2>4, <2>5, <2>6 DEF Steps
<1>4. CASE supplement(r)
  <2>1. field' \in [Sensors -> Field]
    BY <1>0, <1>4 DEF supplement, Field, Known
  <2>2. up' \in BOOLEAN /\ pc' \in [Requests -> Steps]
    BY <1>0, <1>4 DEF supplement, Throw, Goto, Steps
  <2>. QED  BY <1>0, <1>1, <1>4, <2>1, <2>2 DEF supplement, watcherVars, requestVars
<1>5. ASSUME NEW p \in Providers, initOwnDefault(r, p)
       PROVE  TypeOK'
  <2>1. source' \in [Requests -> Providers \cup {"none"}]
    BY <1>0, <1>5 DEF initOwnDefault
  <2>2. pc' \in [Requests -> Steps]
    BY <1>0, <1>5 DEF initOwnDefault, Goto, Steps
  <2>. QED  BY <1>0, <1>1, <1>5, <2>1, <2>2 DEF initOwnDefault, watcherVars
<1>6. CASE supplementOwn(r)
  <2>1. own' \in [Providers -> BOOLEAN]
    BY <1>0, <1>6 DEF supplementOwn
  <2>2. up' \in BOOLEAN /\ pc' \in [Requests -> Steps]
    BY <1>0, <1>6 DEF supplementOwn, Throw, Goto, Steps
  <2>. QED  BY <1>0, <1>1, <1>6, <2>1, <2>2 DEF supplementOwn, watcherVars, requestVars
<1>7. CASE Collect(r)
  <2>. DEFINE c == children[source[r]][sensor[r]]
  <2>1. sensor[r] \in Sensors /\ source[r] \in Providers
    BY <1>0, <1>7 DEF Position, Collect, At
  <2>2. c \in Statuses
    BY <1>0, <2>1
  <2>3. cands' \in [Requests -> Seq(Statuses \ {OK})]
    <3>1. CASE c = OK
      BY <1>0, <1>7, <3>1 DEF Collect, Copied
    <3>2. CASE c # OK
      <4>1. cands[r] \in Seq(Statuses \ {OK}) /\ c \in Statuses \ {OK}
        BY <1>0, <2>2, <3>2
      <4>2. Append(cands[r], c) \in Seq(Statuses \ {OK})
        BY <4>1, AppendElement
      <4>. QED  BY <1>0, <1>7, <3>2, <4>2 DEF Collect, Copied
    <3>. QED  BY <3>1, <3>2
  <2>4. sources' \in [Requests -> SUBSET Providers] /\ pc' \in [Requests -> Steps]
    BY <1>0, <1>7 DEF Collect, Goto, Steps
  <2>. QED  BY <1>0, <1>1, <1>7, <2>3, <2>4 DEF Collect, watcherVars
<1>8. CASE CollectFault(r)
  BY <1>0, <1>1, <1>8 DEF CollectFault, watcherVars, requestVars
<1>9. CASE Collected(r)
  BY <1>0, <1>1, <1>9 DEF Collected, Goto, Steps, watcherVars, requestVars
<1>10. CASE Link(r)
  <2>1. field[sensor[r]] \in Known
    BY <1>0, <1>10 DEF Position, Link, At
  <2>2. current' \in [Requests -> Known]
    BY <1>0, <1>10, <2>1 DEF Link
  <2>3. up' \in BOOLEAN /\ pc' \in [Requests -> Steps]
    BY <1>0, <1>10 DEF Link, Throw, Goto, Steps
  <2>. QED  BY <1>0, <1>1, <1>10, <2>2, <2>3 DEF Link, watcherVars
<1>11. CASE Store(r)
  <2>1. /\ sensor[r] \in Sensors /\ cands[r] # <<>> /\ Head(cands[r]) \in Known
        /\ cands[r] \in Seq(Statuses \ {OK}) /\ current[r] \in Known
    BY <1>0, <1>11 DEF Position, Store, At
  <2>2. getHigherStatus(current[r], Head(cands[r])) \in Field
    BY <2>1 DEF getHigherStatus, Field
  <2>3. field' \in [Sensors -> Field]
    BY <1>0, <1>11, <2>2 DEF Store
  <2>4. Tail(cands[r]) \in Seq(Statuses \ {OK})
    BY <2>1, FirstElement
  <2>5. cands' \in [Requests -> Seq(Statuses \ {OK})]
    BY <1>0, <1>11, <2>4 DEF Store
  <2>6. pc' = [pc EXCEPT ![r] = "link"]
    BY <1>11 DEF Store, Goto
  <2>7. UNCHANGED <<up, children, update, updates, own, todo, sensor, sources, source,
                    current, served, shown>>
    BY <1>11 DEF Store, watcherVars
  <2>. QED  BY <1>0, <2>3, <2>5, <2>6, <2>7 DEF Steps
<1>12. CASE Linked(r)
  <2>1. /\ pc' = [pc EXCEPT ![r] = "instances"] \/ pc' = [pc EXCEPT ![r] = "read"]
        /\ todo' = todo \/ todo' = [todo EXCEPT ![r] = Sensors]
    BY <1>12 DEF Linked, Goto
  <2>2. UNCHANGED <<up, children, update, updates, field, own, sensor, sources, source,
                    cands, current, served, shown>>
    BY <1>12 DEF Linked, watcherVars
  <2>3. todo' \in [Requests -> SUBSET Sensors]
    BY <1>0, <2>1
  <2>. QED  BY <1>0, <2>1, <2>2, <2>3 DEF Steps
<1>13. CASE Read(r)
  <2>1. PICK s \in todo[r] :
           /\ served' = [served EXCEPT ![r][s] = field[s]]
           /\ todo' = [todo EXCEPT ![r] = @ \ {s}]
           /\ Goto(r, IF todo[r] = {s} THEN "replied" ELSE "read")
    BY <1>13 DEF Read
  <2>2. s \in Sensors /\ field[s] \in Field /\ served[r] \in [Sensors -> Field]
    BY <1>0
  <2>3. [served[r] EXCEPT ![s] = field[s]] \in [Sensors -> Field]
    BY <2>2
  <2>4. served' = [served EXCEPT ![r] = [served[r] EXCEPT ![s] = field[s]]]
    BY <2>1
  <2>5. served' \in [Requests -> [Sensors -> Field]]
    BY <1>0, <2>3, <2>4
  <2>6. todo' \in [Requests -> SUBSET Sensors]
    BY <1>0, <2>1
  <2>7. pc' = [pc EXCEPT ![r] = "replied"] \/ pc' = [pc EXCEPT ![r] = "read"]
    BY <2>1 DEF Goto
  <2>8. UNCHANGED <<up, children, update, updates, field, own, sensor, sources, source,
                    cands, current, shown>>
    BY <1>13 DEF Read, watcherVars
  <2>. QED  BY <1>0, <2>5, <2>6, <2>7, <2>8 DEF Steps
<1>. QED  BY <1>2, <1>3, <1>4, <1>5, <1>6, <1>7, <1>8, <1>9, <1>10, <1>11, <1>12,
          <1>13 DEF Request

\* A status, once there, is replaced by a status.
LEMMA StatusStays ==
    ASSUME TInv, NEW r \in Requests, Request(r), NEW s \in Sensors, field[s] \in Known
    PROVE  field'[s] \in Known
<1>0. TypeOK /\ Position(r)
  BY DEF TInv
<1>1. CASE Store(r)
  <2>1. current[r] \in Known /\ Head(cands[r]) \in Known
    BY <1>0, <1>1 DEF Position, Store, At, TypeOK
  <2>2. getHigherStatus(current[r], Head(cands[r])) \in Known
    BY <2>1 DEF getHigherStatus
  <2>. QED  BY <1>0, <1>1, <2>2 DEF Store, TypeOK
<1>2. CASE initDefaultFieldsValue(r) \/ supplement(r)
  BY <1>0, <1>2 DEF initDefaultFieldsValue, supplement, Known, TypeOK
<1>3. CASE UNCHANGED field
  BY <1>3
<1>. QED  BY <1>1, <1>2, <1>3 DEF Request, Begin, initOwnDefault, supplementOwn, Collect,
     CollectFault, Collected, Link, Linked, Read

LEMMA PositionStays ==
    ASSUME TInv, NEW r \in Requests, Request(r)
    PROVE  Position(r)'
<1>0. TypeOK /\ Position(r)
  BY DEF TInv
<1>1. CASE initDefaultFieldsValue(r)
  <2>1. PICK s \in todo[r] :
         /\ sensor' = [sensor EXCEPT ![r] = s]
         /\ IF field[s] # NoField
            THEN field' = [field EXCEPT ![s] = OK] /\ Goto(r, "collect")
            ELSE UNCHANGED field /\ Goto(r, "add")
    BY <1>1 DEF initDefaultFieldsValue
  <2>2. s \in Sensors /\ sensor'[r] = s
    BY <1>0, <2>1 DEF TypeOK
  <2>. QED  BY <1>0, <2>1, <2>2 DEF Position, Goto, TypeOK, Known
<1>2. CASE supplement(r)
  BY <1>0, <1>2 DEF supplement, Throw, At, Position, Goto, TypeOK, Known, requestVars
<1>3. CASE Begin(r) \/ Collected(r) \/ Link(r) \/ Linked(r) \/ Read(r)
  BY <1>0, <1>3 DEF Begin, Collected, Link, Linked, Read, Throw, At, Position, Goto, TypeOK,
     requestVars
<1>5. CASE (\E p \in Providers : initOwnDefault(r, p)) \/ supplementOwn(r)
  BY <1>0, <1>5 DEF initOwnDefault, supplementOwn, Throw, At, Position, Goto, TypeOK,
     requestVars
<1>6. CASE Collect(r) \/ CollectFault(r)
  BY <1>0, <1>6 DEF Collect, CollectFault, At, Position, Goto, TypeOK, requestVars
<1>4. CASE Store(r)
  <2>1. pc'[r] = "link" /\ sensor'[r] = sensor[r] /\ sensor[r] \in Sensors
        /\ field[sensor[r]] \in Known
    BY <1>0, <1>4 DEF Store, At, Position, Goto, TypeOK
  <2>. QED  BY <2>1, StatusStays DEF Position
<1>. QED  BY <1>1, <1>2, <1>3, <1>4, <1>5, <1>6 DEF Request

LEMMA RequestTInv ==
    ASSUME TInv, NEW r \in Requests, Request(r)
    PROVE  TInv'
<1>0. TypeOK /\ \A q \in Requests : Position(q) /\ SeesChildren(q)
  BY DEF TInv
<1>1. TypeOK' /\ Position(r)'
  BY RequestTypes, PositionStays
<1>2. ASSUME NEW q \in Requests \ {r}
      PROVE  Position(q)' /\ SeesChildren(q)'
  <2>1. /\ UNCHANGED <<pc[q], sensor[q], sources[q], source[q], cands[q], shown[q]>>
        /\ UNCHANGED children
    BY RequestFrame DEF watcherVars
  <2>2. Position(q)'
    BY <1>0, <2>1, StatusStays DEF Position
  <2>. QED  BY <1>0, <2>1, <2>2 DEF SeesChildren, Busy
<1>3. SeesChildren(r)'
  <2>1. UNCHANGED children
    BY RequestFrame DEF watcherVars
  <2>2. CASE Begin(r)
    <3>1. shown'[r] = [p \in Providers |-> [s \in Sensors |-> {children[p][s]}]]
      BY <1>0, <2>2 DEF Begin, TypeOK
    <3>. QED  BY <2>1, <3>1 DEF SeesChildren
  <2>3. CASE ~Begin(r)
    <3>1. UNCHANGED shown /\ Busy(r)
      BY <1>0, <2>3, RequestFrame DEF Request, initDefaultFieldsValue, supplement,
         initOwnDefault, supplementOwn, Collect, CollectFault, Collected, Link, Store,
         Linked, Read, At, Busy
    <3>. QED  BY <1>0, <2>1, <3>1 DEF SeesChildren
  <2>. QED  BY <2>2, <2>3
<1>. QED  BY <1>1, <1>2, <1>3 DEF TInv

(***************************************************************************)
(* One thread: what the request shows.                                     *)
(***************************************************************************)
LEMMA StillShown ==
    ASSUME NEW r, NEW s, NEW f, WasShown(r, s, f),
           \A p \in Providers : shown[r][p][s] \subseteq shown'[r][p][s]
    PROVE  WasShown(r, s, f)'
BY DEF WasShown

LEMMA WatcherKeeps ==
    ASSUME IInv, NEW p \in Providers, Watcher(p), NEW r \in Requests
    PROVE  RequestInv(r)'
<1>0. TypeOK /\ Position(r) /\ RequestInv(r)
  BY DEF IInv, TInv
<1>1. /\ UNCHANGED <<field, own, pc, todo, sensor, sources, source, cands, current, served>>
      /\ \A q \in Providers, s \in Sensors : shown[r][q][s] \subseteq shown'[r][q][s]
  BY WatcherStep DEF IInv, requestVars
<1>2. \A s \in Sensors : \A f : WasShown(r, s, f) => WasShown(r, s, f)'
  BY <1>1, StillShown
<1>3. ASSUME NEW S, S \subseteq Sensors, Passed(r, S)
      PROVE  Passed(r, S)'
  <2>1. ASSUME NEW s \in S
        PROVE  WasShown(r, s, field[s])'
    <3>. PICK f : f = field[s]
      OBVIOUS
    <3>1. WasShown(r, s, f)
      BY <1>3 DEF Passed
    <3>. QED  BY <1>1, <1>2, <1>3, <3>1 DEF WasShown
  <2>. QED  BY <2>1 DEF Passed
<1>4. ASSUME UnderWay(r), sensor[r] \in Sensors
      PROVE  UnderWay(r)'
  BY <1>1, <1>4 DEF UnderWay
<1>5. ASSUME pc[r] = "replied", NEW s \in Sensors
      PROVE  WasShown(r, s, served[r][s])'
  <2>. PICK f : f = served[r][s]
    OBVIOUS
  <2>1. WasShown(r, s, f)
    BY <1>0, <1>5 DEF RequestInv
  <2>. QED  BY <1>1, <1>2, <2>1 DEF WasShown
<1>6. pc[r] = "failed" => (\E q \in Providers, s \in Sensors : Unknown \in shown[r][q][s])'
  BY <1>0, <1>1 DEF RequestInv
<1>7. pc[r] = "instances" => Passed(r, Sensors \ todo[r])'
  BY <1>0, <1>1, <1>3 DEF RequestInv
<1>8. pc[r] \in {"add", "collect", "addOwn", "copy", "link", "store"} =>
         Passed(r, Sensors \ (todo[r] \cup {sensor[r]}))'
  BY <1>0, <1>1, <1>3 DEF RequestInv
<1>9. pc[r] = "read" => Passed(r, Sensors)'
  BY <1>0, <1>1, <1>3 DEF RequestInv
<1>10. pc[r] \in {"collect", "addOwn", "copy", "link", "store"} => UnderWay(r)'
  BY <1>0, <1>4 DEF RequestInv, Position
<1>. QED  BY <1>0, <1>1, <1>5, <1>6, <1>7, <1>8, <1>9, <1>10 DEF RequestInv

\* A sensor that was given its default, and nobody was asked yet.
LEMMA NothingAsked ==
    ASSUME NEW r, sources'[r] = Providers, cands'[r] = <<>>, field'[sensor'[r]] = OK
    PROVE  UnderWay(r)'
<1>. DEFINE v == [p \in Providers |-> OK]
<1>1. v \in [Providers -> Statuses] /\ \A p \in Providers : v[p] = OK /\ v[p] <= OK
  BY DEF Statuses, Known, OK
<1>2. Elements(cands[r])' = {}
  BY NoElements DEF Elements
<1>. HIDE DEF v
<1>. QED  BY <1>1, <1>2 DEF UnderWay

\* Entity::getInstances begins, and goes on to the next instance.
LEMMA BeginStep ==
    ASSUME IInv, NEW r \in Requests, Begin(r)
    PROVE  RequestInv(r)'
<1>1. pc'[r] = "instances" /\ todo'[r] = Sensors
  BY DEF IInv, TInv, TypeOK, Begin, Goto
<1>. QED  BY <1>1 DEF RequestInv, Passed

LEMMA DefaultStep ==
    ASSUME IInv, NEW r \in Requests, initDefaultFieldsValue(r)
    PROVE  RequestInv(r)'
<1>0. TypeOK /\ RequestInv(r)
  BY DEF IInv, TInv
<1>1. PICK s \in todo[r] :
         /\ sensor' = [sensor EXCEPT ![r] = s]
         /\ todo' = [todo EXCEPT ![r] = @ \ {s}]
         /\ IF field[s] # NoField
            THEN field' = [field EXCEPT ![s] = OK] /\ Goto(r, "collect")
            ELSE UNCHANGED field /\ Goto(r, "add")
  BY DEF initDefaultFieldsValue
<1>2. /\ s \in Sensors /\ sensor'[r] = s /\ todo'[r] = todo[r] \ {s}
      /\ sources'[r] = Providers /\ cands'[r] = <<>>
      /\ pc[r] = "instances" /\ UNCHANGED shown
      /\ \A q \in Sensors \ {s} : field'[q] = field[q]
      /\ IF field[s] # NoField THEN pc'[r] = "collect" /\ field'[s] = OK
                               ELSE pc'[r] = "add" /\ field'[s] = NoField
  BY <1>0, <1>1 DEF initDefaultFieldsValue, At, Goto, TypeOK
<1>3. Passed(r, Sensors \ (todo[r] \cup {sensor[r]}))'
  BY <1>0, <1>2 DEF RequestInv, Passed, WasShown
<1>4. CASE field[s] # NoField
  BY <1>2, <1>3, <1>4, NothingAsked DEF RequestInv
<1>5. CASE field[s] = NoField
  BY <1>2, <1>3, <1>5 DEF RequestInv
<1>. QED  BY <1>4, <1>5

LEMMA SupplementStep ==
    ASSUME IInv, NEW r \in Requests, supplement(r)
    PROVE  RequestInv(r)'
<1>0. TypeOK /\ Position(r) /\ RequestInv(r)
  BY DEF IInv, TInv
<1>1. /\ pc[r] = "add" /\ sensor[r] \in Sensors /\ field[sensor[r]] = NoField
      /\ sources[r] = Providers /\ cands[r] = <<>>
  BY <1>0 DEF supplement, At, RequestInv, Position
<1>2. /\ pc'[r] = "collect" /\ field' = [field EXCEPT ![sensor[r]] = OK]
      /\ UNCHANGED <<todo, sensor, sources, cands, shown>>
  BY <1>0, <1>1 DEF supplement, Goto, TypeOK, requestVars
<1>3. /\ field'[sensor[r]] = OK /\ \A q \in Sensors \ {sensor[r]} : field'[q] = field[q]
  BY <1>0, <1>1, <1>2 DEF TypeOK
<1>4. Passed(r, Sensors \ (todo[r] \cup {sensor[r]}))'
  BY <1>0, <1>1, <1>2, <1>3 DEF RequestInv, Passed, WasShown
<1>5. UnderWay(r)'
  BY <1>1, <1>2, <1>3, NothingAsked
<1>. QED  BY <1>2, <1>4, <1>5 DEF RequestInv

\* The default of the provider's own instance touches nothing of the sensor.
LEMMA OwnDefaultStep ==
    ASSUME IInv, NEW r \in Requests,
           (\E p \in Providers : initOwnDefault(r, p)) \/ supplementOwn(r)
    PROVE  RequestInv(r)'
<1>0. TypeOK /\ RequestInv(r)
  BY DEF IInv, TInv
<1>1. /\ pc[r] \in {"collect", "addOwn"} /\ pc'[r] \in {"addOwn", "copy"}
      /\ pc'[r] = "addOwn" => ~own'[source'[r]]
      /\ UNCHANGED <<field, todo, sensor, sources, cands, shown>>
  BY <1>0 DEF initOwnDefault, supplementOwn, At, Goto, RequestInv, TypeOK, requestVars
<1>2. UnderWay(r)' /\ Passed(r, Sensors \ (todo[r] \cup {sensor[r]}))'
  BY <1>0, <1>1 DEF RequestInv, UnderWay, Passed, WasShown
<1>. QED  BY <1>1, <1>2 DEF RequestInv

\* The copy of one provider's children.
LEMMA CollectStep ==
    ASSUME IInv, NEW r \in Requests, Collect(r)
    PROVE  RequestInv(r)'
<1>. DEFINE p == source[r]
            s == sensor[r]
            c == children[p][s]
            f == field[s]
<1>0. TypeOK /\ Position(r) /\ SeesChildren(r) /\ RequestInv(r)
  BY DEF IInv, TInv
<1>1. /\ pc[r] = "copy" /\ p \in sources[r] /\ p \in Providers /\ s \in Sensors
      /\ f \in Known /\ c \in Statuses /\ c \in shown[r][p][s]
      /\ cands[r] \in Seq(Statuses \ {OK})
  BY <1>0 DEF Collect, At, Position, SeesChildren, Busy, TypeOK
<1>2. /\ sources'[r] = sources[r] \ {p}
      /\ c = OK => cands'[r] = cands[r]
      /\ c # OK => cands'[r] = Append(cands[r], c)
      /\ pc'[r] = "collect"
      /\ UNCHANGED <<field, todo, sensor, current, served, shown>>
  BY <1>0 DEF Collect, Copied, Goto, TypeOK
<1>3. PICK v \in [Providers -> Statuses] :
         /\ \A q \in Providers :
               /\ IF q \in sources[r] THEN v[q] = OK ELSE v[q] \in shown[r][q][s]
               /\ v[q] <= f \/ v[q] \in Elements(cands[r])
         /\ f = OK \/ \E q \in Providers : f = v[q]
         /\ \A d \in Elements(cands[r]) : \E q \in Providers : d = v[q]
  BY <1>0, <1>1 DEF RequestInv, UnderWay
<1>4. /\ Elements(cands'[r]) = Elements(cands[r]) \cup ({c} \ {OK})
      /\ OK \notin Elements(cands[r])
  <2>1. \/ cands'[r] = cands[r] /\ c = OK
        \/ Elements(cands'[r]) = Elements(cands[r]) \cup {c} /\ c # OK
    <3>1. CASE c = OK
      <4>. HIDE DEF c
      <4>1. cands'[r] = cands[r]
        BY <1>2, <3>1
      <4>. QED  BY <3>1, <4>1
    <3>2. CASE c # OK
      <4>1. c \in Statuses \ {OK}
        BY <1>1, <3>2
      <4>. HIDE DEF c
      <4>2. Elements(Append(cands[r], c)) = Elements(cands[r]) \cup {c}
        BY <1>1, <4>1, AppendElement
      <4>. QED  BY <1>2, <3>2, <4>2
    <3>. QED  BY <3>1, <3>2
  <2>2. OK \notin Elements(cands[r])
    BY <1>1, ElementOfSeq DEF Elements
  <2>. QED  BY <2>1, <2>2
<1>. DEFINE w == [v EXCEPT ![p] = c]
<1>5. w \in [Providers -> Statuses] /\ w[p] = c /\ \A q \in Providers \ {p} : w[q] = v[q]
  BY <1>1
<1>6. OK <= f /\ v[p] = OK
  BY <1>1, <1>3 DEF Known, OK, Warning, Critical
<1>. HIDE DEF w, c, p
<1>7. \A q \in Providers :
         /\ IF q \in sources'[r] THEN w[q] = OK ELSE w[q] \in shown[r][q][s]
         /\ w[q] <= f \/ w[q] \in Elements(cands'[r])
  BY <1>1, <1>2, <1>3, <1>4, <1>5, <1>6
<1>8. /\ f = OK \/ \E q \in Providers : f = w[q]
      /\ \A d \in Elements(cands'[r]) : \E q \in Providers : d = w[q]
  BY <1>3, <1>4, <1>5, <1>6
<1>9. UnderWay(r)'
  BY <1>2, <1>5, <1>7, <1>8 DEF UnderWay, Elements
<1>10. Passed(r, Sensors \ (todo[r] \cup {sensor[r]}))'
  BY <1>0, <1>1, <1>2 DEF RequestInv, Passed, WasShown
<1>. QED  BY <1>1, <1>2, <1>9, <1>10 DEF RequestInv

LEMMA CollectedStep ==
    ASSUME IInv, NEW r \in Requests, Collected(r)
    PROVE  RequestInv(r)'
<1>0. TypeOK /\ RequestInv(r)
  BY DEF IInv, TInv
<1>1. /\ pc[r] = "collect" /\ pc'[r] = "link" /\ sources[r] = {}
      /\ UNCHANGED <<field, todo, sensor, sources, cands, shown>>
  BY <1>0 DEF Collected, At, Goto, TypeOK, requestVars
<1>2. UnderWay(r)' /\ Passed(r, Sensors \ (todo[r] \cup {sensor[r]}))'
  BY <1>0, <1>1 DEF RequestInv, UnderWay, Passed, WasShown
<1>. QED  BY <1>1, <1>2 DEF RequestInv

\* linkStatus: the status of a child that getHigherStatus does not know is one that
\* a provider has shown.
LEMMA LinkStep ==
    ASSUME IInv, NEW r \in Requests, Link(r)
    PROVE  RequestInv(r)'
<1>. DEFINE h == Head(cands[r])
<1>0. TypeOK /\ Position(r) /\ RequestInv(r)
  BY DEF IInv, TInv
<1>1. /\ pc[r] = "link" /\ sources[r] = {} /\ cands[r] # <<>> /\ sensor[r] \in Sensors
      /\ cands[r] \in Seq(Statuses \ {OK})
      /\ current'[r] = field[sensor[r]]
      /\ pc'[r] = IF h \in Known THEN "store" ELSE "failed"
      /\ UNCHANGED <<field, todo, sensor, sources, cands, shown>>
  BY <1>0 DEF Link, Throw, At, Goto, Position, RequestInv, TypeOK
<1>2. h \in Statuses /\ h \in Elements(cands[r])
  BY <1>1, FirstElement
<1>. HIDE DEF h
<1>3. UnderWay(r)' /\ Passed(r, Sensors \ (todo[r] \cup {sensor[r]}))'
  BY <1>0, <1>1 DEF RequestInv, UnderWay, Passed, WasShown
<1>4. CASE h \in Known
  BY <1>1, <1>3, <1>4 DEF RequestInv
<1>5. CASE h \notin Known
  <2>1. h = Unknown
    BY <1>2, <1>5 DEF Statuses
  <2>2. \E p \in Providers : Unknown \in shown[r][p][sensor[r]]
    BY <1>0, <1>1, <1>2, <2>1 DEF RequestInv, UnderWay
  <2>. QED  BY <1>1, <1>5, <2>2 DEF RequestInv
<1>. QED  BY <1>4, <1>5

LEMMA StoreStep ==
    ASSUME IInv, NEW r \in Requests, Store(r)
    PROVE  RequestInv(r)'
<1>. DEFINE s == sensor[r]
            f == field[s]
            h == Head(cands[r])
<1>0. TypeOK /\ Position(r) /\ RequestInv(r)
  BY DEF IInv, TInv
<1>1. /\ pc[r] = "store" /\ sources[r] = {} /\ s \in Sensors /\ f \in Known /\ h \in Known
      /\ current[r] = f /\ cands[r] # <<>> /\ cands[r] \in Seq(Statuses \ {OK})
  BY <1>0 DEF Store, At, Position, RequestInv, TypeOK
<1>2. /\ pc'[r] = "link" /\ cands'[r] = Tail(cands[r])
      /\ field'[s] = getHigherStatus(f, h)
      /\ \A q \in Sensors \ {s} : field'[q] = field[q]
      /\ UNCHANGED <<todo, sensor, sources, shown>>
  BY <1>0, <1>1 DEF Store, Goto, TypeOK
<1>3. Elements(cands[r]) = {h} \cup Elements(cands'[r])
  BY <1>1, <1>2, FirstElement
<1>4. PICK v \in [Providers -> Statuses] :
         /\ \A q \in Providers :
               /\ v[q] \in shown[r][q][s]
               /\ v[q] <= f \/ v[q] \in Elements(cands[r])
         /\ f = OK \/ \E q \in Providers : f = v[q]
         /\ \A d \in Elements(cands[r]) : \E q \in Providers : d = v[q]
  BY <1>0, <1>1 DEF RequestInv, UnderWay
<1>. DEFINE g == getHigherStatus(f, h)
<1>5. /\ g = f \/ g = h
      /\ f <= g /\ h <= g /\ f \in Int /\ g \in Int
      /\ \A q \in Providers : v[q] \in Int
  BY <1>1 DEF getHigherStatus, Statuses, Known, OK, Warning, Critical, Unknown
<1>. HIDE DEF g, h, f
<1>6. /\ \A q \in Providers : v[q] <= g \/ v[q] \in Elements(cands'[r])
      /\ g = OK \/ \E q \in Providers : g = v[q]
      /\ \A d \in Elements(cands'[r]) : \E q \in Providers : d = v[q]
  BY <1>3, <1>4, <1>5
<1>7. UnderWay(r)'
  BY <1>1, <1>2, <1>4, <1>6 DEF UnderWay, Elements, g
<1>8. Passed(r, Sensors \ (todo[r] \cup {sensor[r]}))'
  BY <1>0, <1>1, <1>2 DEF RequestInv, Passed, WasShown
<1>. QED  BY <1>1, <1>2, <1>7, <1>8 DEF RequestInv

\* When all children are linked the status is the highest of what was shown.
LEMMA LinkedStep ==
    ASSUME IInv, NEW r \in Requests, Linked(r)
    PROVE  RequestInv(r)'
<1>. DEFINE s == sensor[r]
            f == field[s]
<1>0. TypeOK /\ Position(r) /\ RequestInv(r)
  BY DEF IInv, TInv
<1>1. /\ pc[r] = "link" /\ sources[r] = {} /\ cands[r] = <<>> /\ s \in Sensors /\ f \in Known
      /\ IF todo[r] # {} THEN pc'[r] = "instances" /\ todo'[r] = todo[r]
                         ELSE pc'[r] = "read" /\ todo'[r] = Sensors
      /\ UNCHANGED <<field, shown, served>>
  BY <1>0 DEF Linked, At, Goto, Position, RequestInv, TypeOK
<1>2. PICK v \in [Providers -> Statuses] :
         /\ \A q \in Providers : v[q] \in shown[r][q][s] /\ v[q] <= f
         /\ f = OK \/ \E q \in Providers : f = v[q]
  BY <1>0, <1>1, NoElements DEF RequestInv, UnderWay
<1>3. v \in [Providers -> Known]
  <2>1. \A q \in Providers : v[q] \in Statuses /\ v[q] <= f
    BY <1>2
  <2>2. \A q \in Providers : v[q] \in Known
    BY <1>1, <2>1 DEF Statuses, Known, OK, Warning, Critical, Unknown
  <2>. QED  BY <2>2
<1>4. WasShown(r, s, f)
  BY <1>2, <1>3 DEF WasShown
<1>5. Passed(r, Sensors \ todo[r])
  BY <1>0, <1>1, <1>4 DEF RequestInv, Passed
<1>6. \A S : Passed(r, S)' <=> Passed(r, S)
  BY <1>1 DEF Passed, WasShown
<1>. QED  BY <1>1, <1>5, <1>6 DEF RequestInv

LEMMA ReadStep ==
    ASSUME IInv, NEW r \in Requests, Read(r)
    PROVE  RequestInv(r)'
<1>0. TypeOK /\ RequestInv(r)
  BY DEF IInv, TInv
<1>1. PICK s \in todo[r] :
         /\ served' = [served EXCEPT ![r][s] = field[s]]
         /\ todo' = [todo EXCEPT ![r] = @ \ {s}]
         /\ Goto(r, IF todo[r] = {s} THEN "replied" ELSE "read")
  BY DEF Read
<1>2. /\ s \in Sensors /\ pc[r] = "read" /\ todo'[r] = todo[r] \ {s}
      /\ pc'[r] = IF todo[r] = {s} THEN "replied" ELSE "read"
      /\ UNCHANGED <<field, shown>>
  BY <1>0, <1>1 DEF Read, At, Goto, TypeOK
<1>3. served'[r][s] = field[s] /\ \A q \in Sensors \ {s} : served'[r][q] = served[r][q]
  <2>1. served[r] \in [Sensors -> Field]
    BY <1>0 DEF TypeOK
  <2>2. served'[r] = [served[r] EXCEPT ![s] = field[s]]
    BY <1>0, <1>1 DEF TypeOK
  <2>. QED  BY <1>2, <2>1, <2>2
<1>4. /\ Passed(r, Sensors)
      /\ \A q \in Sensors \ todo'[r] : served'[r][q] = field[q]
  BY <1>0, <1>2, <1>3 DEF RequestInv
<1>5. Passed(r, Sensors)'
  BY <1>2, <1>4 DEF Passed, WasShown
<1>6. CASE todo[r] # {s}
  BY <1>2, <1>4, <1>5, <1>6 DEF RequestInv
<1>7. CASE todo[r] = {s}
  <2>1. ASSUME NEW q \in Sensors
        PROVE  WasShown(r, q, served[r][q])'
    BY <1>2, <1>4, <1>5, <1>7 DEF Passed
  <2>. QED  BY <1>2, <1>7, <2>1 DEF RequestInv
<1>. QED  BY <1>6, <1>7

\* A request that nothing happens to.
LEMMA RequestStays ==
    ASSUME NEW r \in Requests, RequestInv(r),
           UNCHANGED <<field, own, pc, todo, sensor, sources, source, cands, current,
                       served,
                       shown>>
    PROVE  RequestInv(r)'
<1>1. \A S : Passed(r, S)' <=> Passed(r, S)
  BY DEF Passed, WasShown
<1>2. UnderWay(r)' <=> UnderWay(r)
  BY DEF UnderWay
<1>3. \A q \in Sensors : WasShown(r, q, served[r][q])' <=> WasShown(r, q, served[r][q])
  BY DEF WasShown
<1>4. /\ (pc[r] = "instances" => Passed(r, Sensors \ todo[r]))'
      /\ (pc[r] \in {"add", "collect", "addOwn", "copy", "link", "store"} =>
             Passed(r, Sensors \ (todo[r] \cup {sensor[r]})))'
      /\ (pc[r] = "read" => Passed(r, Sensors))'
  BY <1>1 DEF RequestInv
<1>. QED  BY <1>2, <1>3, <1>4 DEF RequestInv

LEMMA NextIInv ==
    ASSUME OneThread, IInv, [Next]_vars
    PROVE  IInv'
<1>1. ASSUME NEW p \in Providers, Watcher(p)
      PROVE  IInv'
  BY <1>1, WatcherStep, WatcherKeeps DEF IInv
<1>2. ASSUME NEW r \in Requests, Request(r)
      PROVE  IInv'
  <2>1. TInv'
    BY <1>2, RequestTInv DEF IInv
  <2>2. CollectFault(r) => RequestInv(r)'
    BY RequestStays DEF IInv, CollectFault, requestVars
  <2>3. RequestInv(r)'
    <3>1. CASE (\E p \in Providers : initOwnDefault(r, p)) \/ supplementOwn(r)
      BY <3>1, OwnDefaultStep
    <3>2. CASE Collect(r) \/ CollectFault(r)
      BY <2>2, <3>2, CollectStep
    <3>3. CASE Begin(r) \/ initDefaultFieldsValue(r) \/ supplement(r)
      BY <3>3, BeginStep, DefaultStep, SupplementStep
    <3>4. CASE Collected(r) \/ Link(r) \/ Store(r) \/ Linked(r) \/ Read(r)
      BY <3>4, CollectedStep, LinkStep, StoreStep, LinkedStep, ReadStep
    <3>. QED  BY <1>2, <3>1, <3>2, <3>3, <3>4 DEF Request
  <2>4. \A q \in Requests : q = r
    BY DEF OneThread
  <2>. QED  BY <2>1, <2>3, <2>4 DEF IInv
<1>3. CASE UNCHANGED vars
  <2>1. UNCHANGED <<up, children, update, updates, field, own, pc, todo, sensor, sources,
                    source, cands, current, served, shown>>
    BY <1>3 DEF vars, watcherVars, requestVars
  <2>2. TInv'
    BY <2>1 DEF IInv, TInv, TypeOK, Position, SeesChildren, Busy
  <2>3. ASSUME NEW r \in Requests
        PROVE  RequestInv(r)'
    BY <2>1, RequestStays DEF IInv
  <2>. QED  BY <2>2, <2>3 DEF IInv
<1>. QED  BY <1>1, <1>2, <1>3 DEF Next, Gone
-----------------------------------------------------------------------------
(***************************************************************************)
(* The theorems.                                                           *)
(***************************************************************************)

\* Every variable keeps its type, with any number of threads: a status that was
\* given to a sensor is never taken away, so that linkStatus finds one to raise.
THEOREM TypeCorrect == Spec => []TypeOK
<1>1. Init => TInv
  BY InitTInv
<1>2. TInv /\ [Next]_vars => TInv'
  <2>. SUFFICES ASSUME TInv, [Next]_vars PROVE TInv'
    OBVIOUS
  <2>1. CASE UNCHANGED vars
    <3>1. UNCHANGED <<up, children, update, updates, field, own, pc, todo, sensor, sources,
                      source, cands, current, served, shown>>
      BY <2>1 DEF vars, watcherVars, requestVars
    <3>. QED  BY <3>1 DEF TInv, TypeOK, Position, SeesChildren, Busy
  <2>. QED  BY <2>1, WatcherStep, RequestTInv DEF Next, Gone
<1>3. TInv => TypeOK
  BY DEF TInv
<1>. QED  BY <1>1, <1>2, <1>3, PTL DEF Spec

\* The inductive invariant holds in a server with one request thread.
THEOREM Invariance == ASSUME OneThread PROVE Spec => []IInv
<1>1. Init => IInv
  BY InitTInv DEF Init, IInv, RequestInv
<1>2. IInv /\ [Next]_vars => IInv'
  BY NextIInv
<1>. QED  BY <1>1, <1>2, PTL DEF Spec

\* A status in an answer is the highest of what the providers showed during the
\* request (getInstances, linkStatus).
THEOREM AnswersWereShown == ASSUME OneThread PROVE Spec => []ServedWasShown
<1>1. IInv => ServedWasShown
  <2>. SUFFICES ASSUME IInv, NEW r \in Requests, pc[r] = "replied", NEW s \in Sensors
                PROVE  \E v \in [Providers -> Known] :
                          /\ \A p \in Providers : v[p] \in shown[r][p][s]
                          /\ served[r][s] = Max({v[p] : p \in Providers} \cup {OK})
    BY DEF ServedWasShown
  <2>. DEFINE f == served[r][s]
  <2>1. PICK v \in [Providers -> Known] :
           /\ \A p \in Providers : v[p] \in shown[r][p][s] /\ v[p] <= f
           /\ f = OK \/ \E p \in Providers : f = v[p]
    BY DEF IInv, RequestInv, WasShown
  <2>. DEFINE S == {v[p] : p \in Providers} \cup {OK}
  <2>2. S \subseteq Known /\ f \in S /\ \A x \in S : f >= x
    BY <2>1 DEF Known, OK, Warning, Critical
  <2>. HIDE DEF S, f
  <2>3. f = Max(S)
    <3>1. \A y \in S : (\A x \in S : y >= x) => y = f
      BY <2>2 DEF Known, OK, Warning, Critical
    <3>. QED  BY <2>2, <3>1 DEF Max
  <2>. QED  BY <2>1, <2>3 DEF S, f
<1>. QED  BY <1>1, Invariance, PTL

\* "Have OK value as default if no one instance is found": OK is answered only if
\* each provider had a moment without an association for the sensor.
THEOREM OkMeansNoneFound == ASSUME OneThread PROVE Spec => []OkOnlyIfNoneFound
<1>1. IInv => OkOnlyIfNoneFound
  <2>. SUFFICES ASSUME IInv, NEW r \in Requests, NEW s \in Sensors, pc[r] = "replied",
                       served[r][s] = OK, NEW p \in Providers
                PROVE  OK \in shown[r][p][s]
    BY DEF OkOnlyIfNoneFound
  <2>1. PICK v \in [Providers -> Known] : v[p] \in shown[r][p][s] /\ v[p] <= OK
    BY DEF IInv, RequestInv, WasShown
  <2>2. v[p] = OK
    BY <2>1 DEF Known, OK, Warning, Critical
  <2>. QED  BY <2>1, <2>2
<1>. QED  BY <1>1, Invariance, PTL

\* A request fails only on a status outside the table of getHigherStatus; the
\* default of Status is never added to an instance that has it.
THEOREM FailuresNameUnknown == ASSUME OneThread PROVE Spec => []FailsOnlyOnUnknown
<1>1. IInv => FailsOnlyOnUnknown
  BY DEF IInv, RequestInv, FailsOnlyOnUnknown
<1>. QED  BY <1>1, Invariance, PTL
-----------------------------------------------------------------------------
(***************************************************************************)
(* With any number of threads: why requests fail.                          *)
(***************************************************************************)

\* What a request is about to link was shown to it for the sensor it is at.
CandsWereShown(r) ==
    pc[r] \in {"add", "collect", "addOwn", "copy", "link", "store"} =>
        \A c \in Elements(cands[r]) : \E p \in Providers : c \in shown[r][p][sensor[r]]

ThreadsInv == TInv /\ \A r \in Requests : CandsWereShown(r)

\* Every sensor and every provider's own instance has a status, and no request is
\* about to add one.
Settled ==
    /\ \A s \in Sensors : field[s] \in Known
    /\ \A p \in Providers : own[p]
    /\ \A r \in Requests : pc[r] \notin {"add", "addOwn"}

Fails(r) == pc[r] # "failed" /\ pc'[r] = "failed"

LEMMA CandsStayShown ==
    ASSUME ThreadsInv, NEW r \in Requests, Request(r)
    PROVE  CandsWereShown(r)'
<1>0. TypeOK /\ Position(r) /\ SeesChildren(r) /\ CandsWereShown(r)
  BY DEF ThreadsInv, TInv
<1>1. CASE initDefaultFieldsValue(r)
  <2>1. cands'[r] = <<>>
    BY <1>0, <1>1 DEF initDefaultFieldsValue, TypeOK
  <2>. QED  BY <2>1, NoElements DEF CandsWereShown
<1>2. CASE Collect(r)
  <2>. PICK p \in Providers : p = source[r]
    BY <1>0, <1>2 DEF Collect, At, Position, TypeOK
  <2>1. PICK c : c = children[p][sensor[r]]
    OBVIOUS
  <2>2. /\ pc[r] = "copy" /\ c \in shown[r][p][sensor[r]] /\ c \in Statuses
        /\ cands[r] \in Seq(Statuses \ {OK})
    BY <1>0, <1>2, <2>1 DEF Collect, At, Position, SeesChildren, Busy, TypeOK
  <2>3. /\ cands'[r] = IF c = OK THEN cands[r] ELSE Append(cands[r], c)
        /\ sensor'[r] = sensor[r] /\ shown' = shown
    BY <1>0, <1>2, <2>1 DEF Collect, Copied, TypeOK
  <2>4. Elements(cands'[r]) \subseteq Elements(cands[r]) \cup {c}
    <3>1. CASE c = OK
      BY <2>3, <3>1
    <3>2. CASE c # OK
      <4>1. Elements(Append(cands[r], c)) = Elements(cands[r]) \cup {c}
        BY <2>2, <3>2, AppendElement
      <4>. QED  BY <2>3, <3>2, <4>1
    <3>. QED  BY <3>1, <3>2
  <2>. QED  BY <1>0, <2>2, <2>3, <2>4 DEF CandsWereShown, Elements
<1>3. CASE Store(r)
  <2>1. /\ pc[r] = "store" /\ cands[r] # <<>> /\ cands[r] \in Seq(Statuses \ {OK})
        /\ cands'[r] = Tail(cands[r]) /\ sensor'[r] = sensor[r] /\ shown' = shown
    BY <1>0, <1>3 DEF Store, At, Position, TypeOK
  <2>2. Elements(cands'[r]) \subseteq Elements(cands[r])
    BY <2>1, FirstElement
  <2>. QED  BY <1>0, <2>1, <2>2 DEF CandsWereShown, Elements
<1>4. CASE \/ supplement(r) \/ (\E p \in Providers : initOwnDefault(r, p))
           \/ supplementOwn(r) \/ Collected(r) \/ Link(r)
  <2>1. /\ pc[r] \in {"add", "collect", "addOwn", "link"}
        /\ UNCHANGED <<cands, sensor, shown>>
    BY <1>4 DEF supplement, initOwnDefault, supplementOwn, Collected, Link, At, requestVars
  <2>. QED  BY <1>0, <2>1 DEF CandsWereShown, Elements
<1>5. CASE Begin(r) \/ Linked(r) \/ Read(r)
  <2>1. pc'[r] \in {"instances", "read", "replied"}
    BY <1>0, <1>5 DEF Begin, Linked, Read, Goto, TypeOK
  <2>. QED  BY <2>1 DEF CandsWereShown
<1>6. CASE CollectFault(r)
  BY <1>0, <1>6 DEF CollectFault, requestVars, CandsWereShown, Elements
<1>. QED  BY <1>1, <1>2, <1>3, <1>4, <1>5, <1>6 DEF Request

LEMMA NextThreadsInv == ThreadsInv /\ [Next]_vars => ThreadsInv'
<1>. SUFFICES ASSUME ThreadsInv, [Next]_vars PROVE ThreadsInv'
  OBVIOUS
<1>0. TInv /\ \A r \in Requests : CandsWereShown(r)
  BY DEF ThreadsInv
<1>1. ASSUME NEW p \in Providers, Watcher(p)
      PROVE  ThreadsInv'
  <2>1. /\ TInv' /\ UNCHANGED <<pc, sensor, cands>>
        /\ \A r \in Requests, q \in Providers, s \in Sensors :
              shown[r][q][s] \subseteq shown'[r][q][s]
    BY <1>0, <1>1, WatcherStep DEF requestVars
  <2>2. ASSUME NEW r \in Requests
        PROVE  CandsWereShown(r)'
    <3>1. CandsWereShown(r) /\ Position(r)
      BY <1>0 DEF TInv
    <3>2. UNCHANGED <<pc[r], sensor[r], cands[r]>>
      BY <2>1
    <3>3. ASSUME NEW c \in Elements(cands[r]), sensor[r] \in Sensors,
                 \E q \in Providers : c \in shown[r][q][sensor[r]]
          PROVE  \E q \in Providers : c \in shown'[r][q][sensor[r]]
      BY <2>1, <3>3
    <3>. QED  BY <3>1, <3>2, <3>3 DEF CandsWereShown, Elements, Position
  <2>. QED  BY <2>1, <2>2 DEF ThreadsInv
<1>2. ASSUME NEW r \in Requests, Request(r)
      PROVE  ThreadsInv'
  <2>1. TInv' /\ CandsWereShown(r)'
    BY <1>0, <1>2, RequestTInv, CandsStayShown
  <2>2. ASSUME NEW q \in Requests \ {r}
        PROVE  CandsWereShown(q)'
    <3>1. UNCHANGED <<pc[q], sensor[q], cands[q], shown[q]>>
      BY <1>0, <1>2, RequestFrame
    <3>. QED  BY <1>0, <3>1 DEF CandsWereShown, Elements
  <2>. QED  BY <2>1, <2>2 DEF ThreadsInv
<1>3. CASE UNCHANGED vars
  <2>1. UNCHANGED <<up, children, update, updates, field, own, pc, todo, sensor, sources,
                    source, cands, current, served, shown>>
    BY <1>3 DEF vars, watcherVars, requestVars
  <2>. QED  BY <1>0, <2>1 DEF ThreadsInv, TInv, TypeOK, Position, SeesChildren, Busy,
       CandsWereShown, Elements
<1>. QED  BY <1>1, <1>2, <1>3 DEF Next, Gone

\* Whatever threads there are, a request fails only on an unknown status it was
\* shown, or because a member it found missing, of the sensor or of the provider's
\* own instance, was there when it came to add it (linkStatus; supplementOrUpdate
\* and supplement, by initDefaultFieldsValue of either).
THEOREM FailuresAreExplained ==
    Spec => [][\A r \in Requests : Fails(r) =>
                  \/ \E p \in Providers, s \in Sensors : Unknown \in shown[r][p][s]
                  \/ pc[r] = "add" /\ field[sensor[r]] # NoField
                  \/ pc[r] = "addOwn" /\ own[source[r]]]_vars
<1>. DEFINE Explained(r) ==
              \/ \E p \in Providers, s \in Sensors : Unknown \in shown[r][p][s]
              \/ pc[r] = "add" /\ field[sensor[r]] # NoField
              \/ pc[r] = "addOwn" /\ own[source[r]]
<1>1. Init => ThreadsInv
  BY InitTInv DEF Init, ThreadsInv, CandsWereShown
<1>2. ThreadsInv /\ [Next]_vars => \A r \in Requests : Fails(r) => Explained(r)
  <2>. SUFFICES ASSUME ThreadsInv, [Next]_vars, NEW r \in Requests, Fails(r)
                PROVE  Explained(r)
    OBVIOUS
  <2>0. TInv /\ TypeOK /\ Position(r) /\ CandsWereShown(r)
    BY DEF ThreadsInv, TInv
  <2>1. Request(r)
    <3>1. ASSUME NEW p \in Providers, Watcher(p)
          PROVE  FALSE
      BY <2>0, <3>1, WatcherStep DEF Fails
    <3>2. ASSUME NEW q \in Requests \ {r}, Request(q)
          PROVE  FALSE
      BY <2>0, <3>2, RequestFrame DEF Fails
    <3>3. ASSUME UNCHANGED vars
          PROVE  FALSE
      BY <3>3 DEF Fails, vars
    <3>. QED  BY <3>1, <3>2, <3>3 DEF Next, Gone
  <2>2. CASE supplement(r) \/ supplementOwn(r)
    BY <2>0, <2>2 DEF supplement, supplementOwn, At, Goto, TypeOK, Fails
  <2>3. CASE Link(r)
    <3>1. /\ pc[r] = "link" /\ cands[r] # <<>> /\ Head(cands[r]) \notin Known
          /\ cands[r] \in Seq(Statuses \ {OK}) /\ sensor[r] \in Sensors
      BY <2>0, <2>3 DEF Link, At, Goto, TypeOK, Position, Fails
    <3>2. Head(cands[r]) = Unknown /\ Head(cands[r]) \in Elements(cands[r])
      BY <3>1, FirstElement DEF Statuses
    <3>. QED  BY <2>0, <3>1, <3>2 DEF CandsWereShown
  <2>4. CASE \/ Begin(r) \/ initDefaultFieldsValue(r) \/ Collected(r) \/ Store(r)
             \/ Linked(r) \/ Read(r)
    BY <2>0, <2>4 DEF Begin, initDefaultFieldsValue, Collected, Store, Linked, Read, Goto,
       TypeOK, Fails
  <2>5. CASE (\E p \in Providers : initOwnDefault(r, p)) \/ Collect(r) \/ CollectFault(r)
    BY <2>0, <2>5 DEF initOwnDefault, Collect, CollectFault, Goto, TypeOK, Fails
  <2>. QED  BY <2>1, <2>2, <2>3, <2>4, <2>5 DEF Request
<1>. QED  BY <1>1, <1>2, NextThreadsInv, PTL DEF Spec

\* Once every sensor and every provider's own instance has a status and nobody is
\* about to add one, that stays, as long as the instances do: from then on any
\* number of threads fail on unknown statuses only (initDefaultFieldsValue).
THEOREM SettledStays == Spec => [][Settled => Settled']_vars
<1>1. Init => TInv
  BY InitTInv
<1>2. TInv /\ [Next]_vars => TInv'
  <2>. SUFFICES ASSUME TInv, [Next]_vars PROVE TInv'
    OBVIOUS
  <2>1. CASE UNCHANGED vars
    <3>1. UNCHANGED <<up, children, update, updates, field, own, pc, todo, sensor, sources,
                      source, cands, current, served, shown>>
      BY <2>1 DEF vars, watcherVars, requestVars
    <3>. QED  BY <3>1 DEF TInv, TypeOK, Position, SeesChildren, Busy
  <2>. QED  BY <2>1, WatcherStep, RequestTInv DEF Next, Gone
<1>3. TInv /\ [Next]_vars => (Settled => Settled')
  <2>. SUFFICES ASSUME TInv, [Next]_vars, Settled PROVE Settled'
    OBVIOUS
  <2>1. ASSUME NEW p \in Providers, Watcher(p)
        PROVE  Settled'
    BY <2>1, WatcherStep DEF Settled
  <2>2. ASSUME NEW r \in Requests, Request(r)
        PROVE  Settled'
    <3>0. TypeOK
      BY DEF TInv
    <3>1. \A s \in Sensors : field'[s] \in Known
      BY <2>2, StatusStays DEF Settled
    <3>2. \A q \in Requests \ {r} : pc'[q] \notin {"add", "addOwn"}
      BY <2>2, RequestFrame DEF Settled
    <3>3. pc'[r] \notin {"add", "addOwn"}
      <4>1. CASE initDefaultFieldsValue(r)
        <5>1. \A s \in todo[r] : field[s] # NoField
          <6>1. todo[r] \subseteq Sensors
            BY <3>0 DEF TypeOK
          <6>2. NoField \notin Known
            BY DEF Known, NoField, OK, Warning, Critical
          <6>. QED  BY <6>1, <6>2 DEF Settled
        <5>2. Goto(r, "collect")
          BY <4>1, <5>1 DEF initDefaultFieldsValue
        <5>. QED  BY <3>0, <5>2 DEF Goto, TypeOK
      <4>2. CASE supplement(r) \/ Begin(r) \/ Collected(r) \/ Link(r) \/ Store(r)
                 \/ Linked(r) \/ Read(r)
        BY <3>0, <4>2 DEF Begin, supplement, Collected, Link, Store, Linked, Read, Throw,
        Goto,
           TypeOK
      <4>3. ASSUME NEW p \in Providers, initOwnDefault(r, p)
            PROVE  pc'[r] \notin {"add", "addOwn"}
        BY <3>0, <4>3 DEF Settled, initOwnDefault, Goto, TypeOK
      <4>4. CASE supplementOwn(r) \/ Collect(r) \/ CollectFault(r)
        BY <3>0, <4>4 DEF Settled, supplementOwn, Collect, CollectFault, At, Goto, TypeOK
      <4>. QED  BY <2>2, <4>1, <4>2, <4>3, <4>4 DEF Request
    <3>4. \A p \in Providers : own'[p]
      BY <2>2, <3>0 DEF Settled, Request, Begin, initDefaultFieldsValue, supplement,
         initOwnDefault, supplementOwn, At, Collect, CollectFault, Collected, Link, Store,
         Linked, Read
    <3>. QED  BY <3>1, <3>2, <3>3, <3>4 DEF Settled
  <2>3. CASE UNCHANGED vars
    BY <2>3 DEF vars, Settled
  <2>. QED  BY <2>1, <2>2, <2>3 DEF Next, Gone
<1>. QED  BY <1>1, <1>2, <1>3, PTL DEF Spec
=============================================================================
