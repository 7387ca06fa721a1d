-------------------------- MODULE RequestLifeProofs --------------------------
(***************************************************************************)
(* Machine-checked proofs about RequestLife, for any number of connections *)
(* and any set of requests.                                                *)
(***************************************************************************)
EXTENDS RequestLife, TLAPS

Places == Ends \cup {"idle", "in", "inProcessor", "unprocessed", "preHandler", "lock",
                     "parse", "unlock", "unwind", "response", "authenticate", "route",
                     "run", "header", "body"}
Critical == {"parse", "unlock", "unwind"}
Answered == {"header", "body", "done"}

\* A connection's objects stand for what the request is: its body made the
\* request, its type the router, its route the handler, its query the node.
ObjectsMatchKind(c) ==
    /\ request[c] => kind[c].body # "none"
    /\ router[c] => kind[c].type # "none"
    /\ handler[c] => kind[c].route
    /\ gqlNode[c] => kind[c].type = "json" /\ kind[c].body = "query"

\* What the place of a thread says of the objects of its connection.
ObjectsMatchPlace(c) ==
    /\ pc[c] \in {"in", "inProcessor"} => ~router[c]
    /\ pc[c] \in Critical \cup {"preHandler", "lock"} => router[c] /\ validate(c)
    /\ pc[c] \in Critical \cup {"lock", "run"} => handler[c]
    /\ pc[c] \in Answered \cup {"authenticate", "route", "run"} => router[c]
    /\ pc[c] \in {"route", "run"} => kind[c].login = "session"
    /\ pc[c] = "unprocessed" /\ router[c] => ~validate(c)

\* A query that could be parsed has been, before its answer is asked for.
ParsedInTime(c) ==
    /\ router[c] /\ validate(c) /\ kind[c].route /\ kind[c].body = "query"
    /\ pc[c] \in {"unlock", "response", "authenticate", "route", "run"}
    => gqlNode[c]

\* The Response is as it was made until the answer is decided, then it is what
\* the request calls for; and what is on the wire follows from the place.
AnswerMatchesPlace(c) ==
    /\ pc[c] \notin Answered => response[c] = Unanswered
    /\ pc[c] \in Answered => May(kind[c], response[c])
    /\ sent[c] = CASE pc[c] = "body" -> "status"
                   [] pc[c] = "done" -> "all"
                   [] OTHER -> "nothing"

ConnectionInv(c) ==
    ObjectsMatchKind(c) /\ ObjectsMatchPlace(c) /\ ParsedInTime(c) /\ AnswerMatchesPlace(c)

\* The inductive invariant behind the theorems.
IInv == TypeOK /\ ParserExclusive /\ \A c \in Connections : ConnectionInv(c)
-----------------------------------------------------------------------------
\* The initial states satisfy the inductive invariant.
LEMMA InitIInv == Init => IInv
  <1> SUFFICES ASSUME Init PROVE IInv
    OBVIOUS
  <1>1. TypeOK /\ ParserExclusive
    BY RequestAssumption DEF Init, TypeOK, Types, CreatedInOrder, ParserExclusive, None,
       Unanswered
  <1>2. ASSUME NEW c \in Connections
        PROVE  ConnectionInv(c)
    BY DEF Init, ConnectionInv, ObjectsMatchKind, ObjectsMatchPlace, ParsedInTime,
       AnswerMatchesPlace, None, Critical, Answered
  <1> QED
    BY <1>1, <1>2 DEF IInv

\* What a connection has of its own.
Own(c) == <<kind[c], pc[c], request[c], router[c], handler[c], gqlNode[c], response[c],
            sent[c]>>

\* A step of one connection leaves what the others have alone, so their part of
\* the invariant stays.
LEMMA Frame ==
    ASSUME IInv, Types', ParserExclusive', NEW c \in Connections,
           CreatedInOrder(c)', ConnectionInv(c)',
           \A d \in Connections \ {c} : UNCHANGED Own(d)
    PROVE  IInv'
  <1> SUFFICES ASSUME NEW d \in Connections \ {c}
               PROVE  CreatedInOrder(d)' /\ ConnectionInv(d)'
    BY DEF IInv, TypeOK
  <1>1. CreatedInOrder(d) /\ ConnectionInv(d)
    BY DEF IInv, TypeOK
  <1>2. UNCHANGED Own(d)
    OBVIOUS
  <1> QED
    BY <1>1, <1>2 DEF CreatedInOrder, ConnectionInv, ObjectsMatchKind, ObjectsMatchPlace,
       ParsedInTime, AnswerMatchesPlace, validate, May, Own

\* Nobody writes into another's connection.
LEMMA OthersStay ==
    ASSUME IInv, NEW c \in Connections, Accept(c) \/ Step(c)
    PROVE  \A d \in Connections \ {c} : UNCHANGED Own(d)
  <1> USE DEF IInv, TypeOK, Types, Own, At, Goto, Set, objectVars
  <1>1. CASE Accept(c) \/ inHandler(c) \/ EndOfInput(c) \/ inProcessor(c) \/ Unprocessed(c)
             \/ preHandler(c)
    BY <1>1 DEF Accept, inHandler, EndOfInput, inProcessor, Unprocessed, preHandler
  <1>2. CASE Lock(c) \/ Parse(c) \/ Leave(c) \/ response_(c)
    BY <1>2 DEF Lock, Parse, Leave, LeaveTo, response_
  <1>3. CASE authenticate(c) \/ process(c) \/ run(c) \/ writeHeader(c) \/ writeBody(c)
    BY <1>3 DEF authenticate, process, run, writeHeader, writeBody
  <1> QED
    BY <1>1, <1>2, <1>3 DEF Step

\* A step that is not about the mutex.
LEMMA LockFrame ==
    ASSUME IInv, NEW c \in Connections, UNCHANGED parseLock,
           pc[c] \notin Critical, pc'[c] \notin Critical,
           \A d \in Connections \ {c} : UNCHANGED Own(d)
    PROVE  ParserExclusive'
  BY DEF IInv, ParserExclusive, Critical, Own

\* A new request starts with nothing.
LEMMA AcceptStep ==
    ASSUME IInv, NEW c \in Connections,
           Accept(c)
    PROVE  IInv'
  <1> USE DEF At, Goto, objectVars, IInv, TypeOK
  <1>1. Types'
    BY DEF Accept, Types, Ends, Unanswered
  <1>2. \A d \in Connections \ {c} : UNCHANGED Own(d)
    BY OthersStay DEF Step
  <1>3. ParserExclusive'
    <2>1. pc[c] \notin Critical /\ pc'[c] \notin Critical /\ UNCHANGED parseLock
      BY DEF Accept, Types, Ends, Critical
    <2> QED
      BY <1>2, <2>1, LockFrame
  <1>4. CreatedInOrder(c)'
    BY DEF Accept, Types, CreatedInOrder, ConnectionInv, ObjectsMatchPlace,
         ObjectsMatchKind, Critical
  <1>5. ConnectionInv(c)'
    <2> USE DEF Types, CreatedInOrder, ConnectionInv, ObjectsMatchKind, ObjectsMatchPlace,
            ParsedInTime, AnswerMatchesPlace, Critical, Answered, validate, Ends, Unanswered
    <2> QED
      BY DEF Accept, May
  <1> QED
    BY <1>1, <1>2, <1>3, <1>4, <1>5, Frame

\* The steps before the parser.
LEMMA InputStep ==
    ASSUME IInv, NEW c \in Connections,
           inHandler(c) \/ EndOfInput(c) \/ inProcessor(c) \/ Unprocessed(c) \/ preHandler(c)
    PROVE  IInv'
  <1> USE DEF At, Goto, Set, objectVars, IInv, TypeOK
  <1>1. Types'
    <2>1. CASE inHandler(c)
      BY <2>1 DEF inHandler, Types, Ends
    <2>2. CASE EndOfInput(c)
      BY <2>2 DEF EndOfInput, Types, Ends
    <2>3. CASE inProcessor(c)
      <3>1. CASE kind[c].type = "none" \/ ~request[c]
        BY <2>3, <3>1 DEF inProcessor, Types, Ends
      <3>2. CASE ~(kind[c].type = "none" \/ ~request[c])
        <4>1. router' \in [Connections -> BOOLEAN]
          <5>1. router' = [router EXCEPT ![c] = TRUE] /\ router \in [Connections -> BOOLEAN]
            BY <2>3, <3>2 DEF inProcessor, Types
          <5> QED
            BY <5>1
        <4>2. pc' = [pc EXCEPT ![c] = IF validate(c) THEN "preHandler" ELSE "unprocessed"]
          BY <2>3, <3>2 DEF inProcessor
        <4> QED
          BY <2>3, <4>1, <4>2 DEF inProcessor, Types
      <3> QED
        BY <3>1, <3>2
    <2>4. CASE Unprocessed(c)
      BY <2>4 DEF Unprocessed, Types, Ends
    <2>5. CASE preHandler(c)
      <3>1. CASE kind[c].route
        <4>1. handler' \in [Connections -> BOOLEAN]
          <5>1. handler' = [handler EXCEPT ![c] = TRUE] /\ handler \in [Connections -> BOOLEAN]
            BY <2>5, <3>1 DEF preHandler, Types
          <5> QED
            BY <5>1
        <4>2. pc' = [pc EXCEPT ![c] = "lock"]
          BY <2>5, <3>1 DEF preHandler
        <4> QED
          BY <2>5, <4>1, <4>2 DEF preHandler, Types
      <3>2. CASE ~(kind[c].route)
        BY <2>5, <3>2 DEF preHandler, Types, Ends
      <3> QED
        BY <3>1, <3>2
    <2> QED
      BY <2>1, <2>2, <2>3, <2>4, <2>5
  <1>2. \A d \in Connections \ {c} : UNCHANGED Own(d)
    BY OthersStay DEF Step
  <1>3. ParserExclusive'
    <2>1. pc[c] \notin Critical /\ pc'[c] \notin Critical /\ UNCHANGED parseLock
      <3>1. CASE inHandler(c)
        BY <3>1 DEF inHandler, Types, Ends, Critical
      <3>2. CASE EndOfInput(c)
        BY <3>2 DEF EndOfInput, Types, Ends, Critical
      <3>3. CASE inProcessor(c)
        BY <3>3 DEF inProcessor, Types, Ends, Critical
      <3>4. CASE Unprocessed(c)
        BY <3>4 DEF Unprocessed, Types, Ends, Critical
      <3>5. CASE preHandler(c)
        BY <3>5 DEF preHandler, Types, Ends, Critical
      <3> QED
        BY <3>1, <3>2, <3>3, <3>4, <3>5
    <2> QED
      BY <1>2, <2>1, LockFrame
  <1>4. CreatedInOrder(c)'
    <2>1. CASE inHandler(c)
      BY <2>1 DEF inHandler, Types, CreatedInOrder, ConnectionInv, ObjectsMatchPlace,
         ObjectsMatchKind, Critical
    <2>2. CASE EndOfInput(c)
      BY <2>2 DEF EndOfInput, Types, CreatedInOrder, ConnectionInv, ObjectsMatchPlace,
         ObjectsMatchKind, Critical
    <2>3. CASE inProcessor(c)
      BY <2>3 DEF inProcessor, Types, CreatedInOrder, ConnectionInv, ObjectsMatchPlace,
         ObjectsMatchKind, Critical
    <2>4. CASE Unprocessed(c)
      BY <2>4 DEF Unprocessed, Types, CreatedInOrder, ConnectionInv, ObjectsMatchPlace,
         ObjectsMatchKind, Critical
    <2>5. CASE preHandler(c)
      BY <2>5 DEF preHandler, Types, CreatedInOrder, ConnectionInv, ObjectsMatchPlace,
         ObjectsMatchKind, Critical
    <2> QED
      BY <2>1, <2>2, <2>3, <2>4, <2>5
  <1>5. ConnectionInv(c)'
    <2> USE DEF Types, CreatedInOrder, ConnectionInv, ObjectsMatchKind, ObjectsMatchPlace,
            ParsedInTime, AnswerMatchesPlace, Critical, Answered, validate, Ends, Unanswered
    <2>1. CASE inHandler(c)
      BY <2>1 DEF inHandler, May
    <2>2. CASE EndOfInput(c)
      BY <2>2 DEF EndOfInput, May
    <2>3. CASE inProcessor(c)
      BY <2>3 DEF inProcessor, May
    <2>4. CASE Unprocessed(c)
      BY <2>4 DEF Unprocessed, May
    <2>5. CASE preHandler(c)
      BY <2>5 DEF preHandler, May
    <2> QED
      BY <2>1, <2>2, <2>3, <2>4, <2>5
  <1> QED
    BY <1>1, <1>2, <1>3, <1>4, <1>5, Frame

\* Lock, parse and unlock: the only steps about the mutex.
LEMMA ParserStep ==
    ASSUME IInv, NEW c \in Connections,
           Lock(c) \/ Parse(c) \/ Leave(c)
    PROVE  IInv'
  <1> USE DEF At, Goto, objectVars, IInv, TypeOK
  <1>1. Types'
    <2>1. CASE Lock(c)
      BY <2>1 DEF Lock, Types, Ends
    <2>2. CASE Parse(c)
      BY <2>2 DEF Parse, Types, Ends
    <2>3. CASE Leave(c)
      BY <2>3 DEF Leave, LeaveTo, Types, Ends
    <2> QED
      BY <2>1, <2>2, <2>3
  <1>2. \A d \in Connections \ {c} : UNCHANGED Own(d)
    BY OthersStay DEF Step
  <1>3. ParserExclusive'
    <2>1. CASE Lock(c)
      BY <2>1, RequestAssumption DEF Lock, Types, ParserExclusive
    <2>2. CASE Parse(c)
      BY <2>2 DEF Parse, Types, ParserExclusive
    <2>3. CASE Leave(c)
      BY <2>3, RequestAssumption DEF Leave, LeaveTo, Types, Ends, ParserExclusive
    <2> QED
      BY <2>1, <2>2, <2>3
  <1>4. CreatedInOrder(c)'
    <2>1. CASE Lock(c)
      BY <2>1 DEF Lock, Types, CreatedInOrder, ConnectionInv, ObjectsMatchPlace,
         ObjectsMatchKind, Critical
    <2>2. CASE Parse(c)
      BY <2>2 DEF Parse, Types, CreatedInOrder, ConnectionInv, ObjectsMatchPlace,
         ObjectsMatchKind, Critical
    <2>3. CASE Leave(c)
      BY <2>3 DEF Leave, LeaveTo, Types, CreatedInOrder, ConnectionInv, ObjectsMatchPlace,
         ObjectsMatchKind, Critical
    <2> QED
      BY <2>1, <2>2, <2>3
  <1>5. ConnectionInv(c)'
    <2> USE DEF Types, CreatedInOrder, ConnectionInv, ObjectsMatchKind, ObjectsMatchPlace,
            ParsedInTime, AnswerMatchesPlace, Critical, Answered, validate, Ends, Unanswered
    <2>1. CASE Lock(c)
      BY <2>1 DEF Lock, May
    <2>2. CASE Parse(c)
      BY <2>2 DEF Parse, May
    <2>3. CASE Leave(c)
      BY <2>3 DEF Leave, LeaveTo, May
    <2> QED
      BY <2>1, <2>2, <2>3
  <1> QED
    BY <1>1, <1>2, <1>3, <1>4, <1>5, Frame

\* The choice of the answer.
LEMMA DecideStep ==
    ASSUME IInv, NEW c \in Connections,
           response_(c) \/ authenticate(c) \/ process(c) \/ run(c)
    PROVE  IInv'
  <1> USE RequestAssumption DEF At, Goto, objectVars, IInv, TypeOK, Kind
  <1>1. Types'
    <2>1. CASE response_(c)
      BY <2>1 DEF response_, Types, Ends
    <2>2. CASE authenticate(c)
      BY <2>2 DEF authenticate, Types, Ends
    <2>3. CASE process(c)
      BY <2>3 DEF process, Types, Ends
    <2>4. CASE run(c)
      <3>1. CASE gqlNode[c] /\ kind[c].run = "throws"
        BY <2>4, <3>1 DEF run, Types, Ends
      <3>2. CASE ~(gqlNode[c] /\ kind[c].run = "throws")
        <4>1. response' \in [Connections -> [status : {200, 401, 404},
                                             content : {"data", "error", "none"}]]
          <5> DEFINE content == IF gqlNode[c] THEN kind[c].run ELSE "error"
          <5>1. kind[c].run \in {"data", "error", "throws"}
            BY DEF Types
          <5>2. content \in {"data", "error", "none"}
            BY <3>2, <5>1
          <5>3. response' = [response EXCEPT ![c] = [status |-> 200, content |-> content]]
            BY <2>4, <3>2 DEF run
          <5> HIDE DEF content
          <5> QED
            BY <5>2, <5>3 DEF Types
        <4>2. pc' = [pc EXCEPT ![c] = "header"]
          BY <2>4, <3>2 DEF run
        <4> QED
          BY <2>4, <4>1, <4>2 DEF run, Types
      <3> QED
        BY <3>1, <3>2
    <2> QED
      BY <2>1, <2>2, <2>3, <2>4
  <1>2. \A d \in Connections \ {c} : UNCHANGED Own(d)
    BY OthersStay DEF Step
  <1>3. ParserExclusive'
    <2>1. pc[c] \notin Critical /\ pc'[c] \notin Critical /\ UNCHANGED parseLock
      <3>1. CASE response_(c)
        BY <3>1 DEF response_, Types, Ends, Critical
      <3>2. CASE authenticate(c)
        BY <3>2 DEF authenticate, Types, Ends, Critical
      <3>3. CASE process(c)
        BY <3>3 DEF process, Types, Ends, Critical
      <3>4. CASE run(c)
        BY <3>4 DEF run, Types, Ends, Critical
      <3> QED
        BY <3>1, <3>2, <3>3, <3>4
    <2> QED
      BY <1>2, <2>1, LockFrame
  <1>4. CreatedInOrder(c)'
    <2>1. CASE response_(c)
      BY <2>1 DEF response_, Types, CreatedInOrder, ConnectionInv, ObjectsMatchPlace,
         ObjectsMatchKind, Critical
    <2>2. CASE authenticate(c)
      BY <2>2 DEF authenticate, Types, CreatedInOrder, ConnectionInv, ObjectsMatchPlace,
         ObjectsMatchKind, Critical
    <2>3. CASE process(c)
      BY <2>3 DEF process, Types, CreatedInOrder, ConnectionInv, ObjectsMatchPlace,
         ObjectsMatchKind, Critical
    <2>4. CASE run(c)
      BY <2>4 DEF run, Types, CreatedInOrder, ConnectionInv, ObjectsMatchPlace,
         ObjectsMatchKind, Critical
    <2> QED
      BY <2>1, <2>2, <2>3, <2>4
  <1>5. ConnectionInv(c)'
    <2> USE DEF Types, CreatedInOrder, ConnectionInv, ObjectsMatchKind, ObjectsMatchPlace,
            ParsedInTime, AnswerMatchesPlace, Critical, Answered, validate, Ends, Unanswered
    <2>1. CASE response_(c)
      BY <2>1 DEF response_, May
    <2>2. CASE authenticate(c)
      BY <2>2 DEF authenticate, May
    <2>3. CASE process(c)
      BY <2>3 DEF process, May
    <2>4. CASE run(c)
      BY <2>4 DEF run, May
    <2> QED
      BY <2>1, <2>2, <2>3, <2>4
  <1> QED
    BY <1>1, <1>2, <1>3, <1>4, <1>5, Frame

\* What goes to the wire.
LEMMA WriteStep ==
    ASSUME IInv, NEW c \in Connections,
           writeHeader(c) \/ writeBody(c)
    PROVE  IInv'
  <1> USE DEF At, Goto, objectVars, IInv, TypeOK
  <1>1. Types'
    <2>1. CASE writeHeader(c)
      BY <2>1 DEF writeHeader, Types, Ends
    <2>2. CASE writeBody(c)
      BY <2>2 DEF writeBody, Types, Ends
    <2> QED
      BY <2>1, <2>2
  <1>2. \A d \in Connections \ {c} : UNCHANGED Own(d)
    BY OthersStay DEF Step
  <1>3. ParserExclusive'
    <2>1. pc[c] \notin Critical /\ pc'[c] \notin Critical /\ UNCHANGED parseLock
      <3>1. CASE writeHeader(c)
        BY <3>1 DEF writeHeader, Types, Ends, Critical
      <3>2. CASE writeBody(c)
        BY <3>2 DEF writeBody, Types, Ends, Critical
      <3> QED
        BY <3>1, <3>2
    <2> QED
      BY <1>2, <2>1, LockFrame
  <1>4. CreatedInOrder(c)'
    <2>1. CASE writeHeader(c)
      BY <2>1 DEF writeHeader, Types, CreatedInOrder, ConnectionInv, ObjectsMatchPlace,
         ObjectsMatchKind, Critical
    <2>2. CASE writeBody(c)
      BY <2>2 DEF writeBody, Types, CreatedInOrder, ConnectionInv, ObjectsMatchPlace,
         ObjectsMatchKind, Critical
    <2> QED
      BY <2>1, <2>2
  <1>5. ConnectionInv(c)'
    <2> USE DEF Types, CreatedInOrder, ConnectionInv, ObjectsMatchKind, ObjectsMatchPlace,
            ParsedInTime, AnswerMatchesPlace, Critical, Answered, validate, Ends, Unanswered
    <2>1. CASE writeHeader(c)
      BY <2>1 DEF writeHeader, May
    <2>2. CASE writeBody(c)
      BY <2>2 DEF writeBody, May
    <2> QED
      BY <2>1, <2>2
  <1> QED
    BY <1>1, <1>2, <1>3, <1>4, <1>5, Frame

\* The end of the process, and a step in which nothing happens.
LEMMA EndStep ==
    ASSUME IInv, (\E c \in Connections : Abort(c)) \/ UNCHANGED vars
    PROVE  IInv'
  <1>1. up' \in BOOLEAN /\ UNCHANGED <<kind, pc, objectVars, parseLock, response, sent>>
    BY DEF Abort, vars, IInv, TypeOK, Types
  <1> QED
    BY <1>1 DEF objectVars, IInv, TypeOK, Types, CreatedInOrder, ParserExclusive,
        ConnectionInv, ObjectsMatchKind,
       ObjectsMatchPlace, ParsedInTime, AnswerMatchesPlace, validate, May

\* Every step keeps the inductive invariant.
LEMMA NextIInv == IInv /\ [Next]_vars => IInv'
  <1> SUFFICES ASSUME IInv, [Next]_vars PROVE IInv'
    OBVIOUS
  <1>1. ASSUME NEW c \in Connections, Accept(c) \/ Step(c)
        PROVE  IInv'
    BY <1>1, AcceptStep, InputStep, ParserStep, DecideStep, WriteStep DEF Step
  <1> QED
    BY <1>1, EndStep DEF Next, Gone

\* The inductive invariant holds in every reachable state.
THEOREM Invariance == Spec => []IInv
  BY InitIInv, NextIInv, PTL DEF Spec

\* Every variable has its type, and the objects of a connection come to be in
\* their order: request, router, handler, parsed query.
THEOREM TypeCorrect == Spec => []TypeOK
  <1>1. IInv => TypeOK
    BY DEF IInv
  <1> QED
    BY <1>1, Invariance, PTL

\* The GraphQL parser, which is not thread-safe, is used by one connection at a
\* time, and its mutex is free as soon as preHandlers is left.
THEOREM ParserIsExclusive == Spec => []ParserExclusive
  <1>1. IInv => ParserExclusive
    BY DEF IInv
  <1> QED
    BY <1>1, Invariance, PTL
-----------------------------------------------------------------------------
(***************************************************************************)
(* Refinement: the requests implement Exchange.                            *)
(***************************************************************************)

\* The stage and the answer of a connection, by the place of its thread.
StageMatchesPlace(c) ==
    /\ stageOf[c] = CASE pc[c] = "idle" -> "idle"
                      [] pc[c] = "body" -> "status"
                      [] pc[c] = "done" -> "answered"
                      [] pc[c] \in Ends \ {"done"} -> "failed"
                      [] OTHER -> "open"
    /\ answerOf[c] = IF pc[c] \in {"body", "done"} THEN response[c] ELSE Unanswered

LEMMA StageOfPlace ==
    ASSUME NEW c \in Connections
    PROVE  /\ IInv => StageMatchesPlace(c)
           /\ IInv' => StageMatchesPlace(c)'
  <1>1. IInv => StageMatchesPlace(c)
    BY DEF StageMatchesPlace, IInv, ConnectionInv, AnswerMatchesPlace, stageOf, answerOf, Ends
  <1>2. IInv' => StageMatchesPlace(c)'
    BY DEF StageMatchesPlace, IInv, ConnectionInv, AnswerMatchesPlace, stageOf, answerOf, Ends
  <1> QED
    BY <1>1, <1>2

\* A step of one connection changes at most its own stage and answer.
LEMMA StageFrame ==
    ASSUME NEW c \in Connections, \A d \in Connections \ {c} : UNCHANGED Own(d)
    PROVE  /\ stageOf' = [stageOf EXCEPT ![c] = stageOf'[c]]
           /\ answerOf' = [answerOf EXCEPT ![c] = answerOf'[c]]
  <1>1. \A d \in Connections \ {c} : stageOf'[d] = stageOf[d] /\ answerOf'[d] = answerOf[d]
    BY DEF stageOf, answerOf, Own
  <1>2. /\ stageOf = [d \in Connections |-> stageOf[d]]
        /\ answerOf = [d \in Connections |-> answerOf[d]]
        /\ stageOf' = [d \in Connections |-> stageOf'[d]]
        /\ answerOf' = [d \in Connections |-> answerOf'[d]]
    BY DEF stageOf, answerOf
  <1> QED
    BY <1>1, <1>2

\* The four ways of a step in terms of Exchange: on the way to an answer, to no
\* answer, the status, the rest.
LEMMA WayOfStep ==
    ASSUME IInv, NEW c \in Connections, Step(c)
    PROVE  /\ UNCHANGED kind
           /\ \/ /\ pc[c] \notin Ends \cup {"idle", "body"}
                 /\ pc'[c] \notin Ends \cup {"idle", "body"}
              \/ /\ pc[c] \notin Ends \cup {"idle", "body"}
                 /\ pc'[c] \in Ends \ {"done"}
              \/ pc[c] = "header" /\ pc'[c] = "body" /\ UNCHANGED response
              \/ pc[c] = "body" /\ pc'[c] = "done" /\ UNCHANGED response
  <1> USE DEF IInv, TypeOK, Types, At, Goto, Ends
  <1>1. CASE inHandler(c) \/ EndOfInput(c) \/ inProcessor(c) \/ Unprocessed(c) \/ preHandler(c)
    BY <1>1 DEF inHandler, EndOfInput, inProcessor, Unprocessed, preHandler
  <1>2. CASE Lock(c) \/ Parse(c) \/ Leave(c) \/ response_(c)
    BY <1>2 DEF Lock, Parse, Leave, LeaveTo, response_
  <1>3. CASE authenticate(c) \/ process(c) \/ run(c)
    BY <1>3 DEF authenticate, process, run
  <1>4. CASE writeHeader(c) \/ writeBody(c)
    BY <1>4 DEF writeHeader, writeBody
  <1> QED
    BY <1>1, <1>2, <1>3, <1>4 DEF Step

\* Every step of a connection is a step of Exchange, or none at all.
LEMMA StepExchange ==
    ASSUME IInv, IInv', NEW c \in Connections, Accept(c) \/ Step(c)
    PROVE  [E!Next]_(E!vars)
  <1>1. /\ stageOf' = [stageOf EXCEPT ![c] = stageOf'[c]]
        /\ answerOf' = [answerOf EXCEPT ![c] = answerOf'[c]]
    BY OthersStay, StageFrame
  <1>2. /\ stageOf = [d \in Connections |-> stageOf[d]]
        /\ answerOf = [d \in Connections |-> answerOf[d]]
    BY DEF stageOf, answerOf
  <1>3. CASE Accept(c)
    <2>1. /\ pc[c] \in {"idle"} \cup Ends /\ pc'[c] = "in"
          /\ \E k \in Kinds : kind' = [kind EXCEPT ![c] = k]
      <3>1. pc' = [pc EXCEPT ![c] = "in"] /\ pc[c] \in {"idle"} \cup Ends
        BY <1>3 DEF Accept, Goto
      <3>2. pc'[c] = "in"
        BY <3>1 DEF IInv, TypeOK, Types
      <3> QED
        BY <1>3, <3>1, <3>2 DEF Accept
    <2>2. /\ stageOf[c] \in {"idle", "answered", "failed"}
          /\ stageOf'[c] = "open" /\ answerOf'[c] = Unanswered
      BY <2>1, StageOfPlace DEF StageMatchesPlace, Ends
    <2>3. E!Open(c)
      BY <1>1, <2>1, <2>2 DEF E!Open
    <2> QED
      BY <2>3 DEF E!Next
  <1>4. CASE Step(c)
    <2>1. UNCHANGED kind
      BY <1>4, WayOfStep
    <2>2. CASE /\ pc[c] \notin Ends \cup {"idle", "body"}
               /\ pc'[c] \notin Ends \cup {"idle", "body"}
      <3>1. stageOf'[c] = stageOf[c] /\ answerOf'[c] = answerOf[c]
        BY <2>2, StageOfPlace DEF StageMatchesPlace, Ends
      <3>2. UNCHANGED <<stageOf, answerOf>>
        BY <1>1, <1>2, <3>1
      <3> QED
        BY <2>1, <3>2 DEF E!vars
    <2>3. CASE pc[c] \notin Ends \cup {"idle", "body"} /\ pc'[c] \in Ends \ {"done"}
      <3>1. stageOf[c] = "open" /\ stageOf'[c] = "failed" /\ answerOf'[c] = answerOf[c]
        BY <2>3, StageOfPlace DEF StageMatchesPlace, Ends
      <3>2. UNCHANGED answerOf
        BY <1>1, <1>2, <3>1
      <3>3. E!Fail(c)
        BY <1>1, <2>1, <3>1, <3>2 DEF E!Fail
      <3> QED
        BY <3>3 DEF E!Next
    <2>4. CASE pc[c] = "header" /\ pc'[c] = "body" /\ UNCHANGED response
      <3>1. stageOf[c] = "open" /\ stageOf'[c] = "status" /\ answerOf'[c] = response[c]
        BY <2>4, StageOfPlace DEF StageMatchesPlace, Ends
      <3>2. May(kind[c], response[c])
        BY <2>4 DEF IInv, ConnectionInv, AnswerMatchesPlace, Answered
      <3>3. E!SendStatus(c, response[c])
        BY <1>1, <2>1, <3>1, <3>2 DEF E!SendStatus
      <3>4. response[c] \in [status : {200, 401, 404}, content : {"data", "error", "none"}]
        BY DEF IInv, TypeOK, Types
      <3> QED
        BY <3>3, <3>4 DEF E!Next
    <2>5. CASE pc[c] = "body" /\ pc'[c] = "done" /\ UNCHANGED response
      <3>1. stageOf[c] = "status" /\ stageOf'[c] = "answered" /\ answerOf'[c] = answerOf[c]
        BY <2>5, StageOfPlace DEF StageMatchesPlace, Ends
      <3>2. UNCHANGED answerOf
        BY <1>1, <1>2, <3>1
      <3>3. E!SendRest(c)
        BY <1>1, <2>1, <3>1, <3>2 DEF E!SendRest
      <3> QED
        BY <3>3 DEF E!Next
    <2> QED
      BY <1>4, <2>2, <2>3, <2>4, <2>5, WayOfStep
  <1> QED
    BY <1>3, <1>4

\* Every step of the program is one of Exchange or leaves it unchanged.
LEMMA NextExchange ==
    ASSUME IInv, IInv', [Next]_vars
    PROVE  [E!Next]_(E!vars)
  <1>1. ASSUME UNCHANGED <<kind, pc, response, sent>>
        PROVE  [E!Next]_(E!vars)
    BY <1>1 DEF E!vars, stageOf, answerOf
  <1>2. CASE \E c \in Connections : Accept(c) \/ Step(c)
    BY <1>2, StepExchange
  <1> QED
    BY <1>1, <1>2 DEF Next, Abort, Gone, vars

\* Behind the methods, the mutex and the exceptions a web server sees Exchange:
\* one answer, the one the request calls for, or nothing at all.
THEOREM RequestsImplementExchange == Spec => ImplementsExchange
  <1>1. Init => E!Init
    <2> SUFFICES ASSUME Init PROVE E!Init
      OBVIOUS
    <2>1. stageOf = [c \in Connections |-> "idle"]
      BY DEF Init, stageOf, Ends
    <2>2. answerOf = [c \in Connections |-> Unanswered]
      BY DEF Init, answerOf
    <2> QED
      BY <2>1, <2>2 DEF Init, E!Init
  <1>2. IInv /\ IInv' /\ [Next]_vars => [E!Next]_(E!vars)
    BY NextExchange
  <1> QED
    BY Invariance, <1>1, <1>2, PTL DEF Spec, ImplementsExchange, E!Spec
=============================================================================
