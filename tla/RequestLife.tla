---------------------------- MODULE RequestLife ----------------------------
(***************************************************************************)
(* A FastCGI request from its parameters to its answer: the three methods  *)
(* of Connection that the FastCGI library calls, the Router behind them    *)
(* and the GraphQL route.  Several connections are served by several       *)
(* threads; they meet at the mutex around the GraphQL parser, and an       *)
(* exception that leaves a method may end the process under all of them.   *)
(* Sessions are in SessionStore and the evaluation of a query is in        *)
(* GraphqlBuild; here each has an outcome.                                 *)
(***************************************************************************)
EXTENDS Naturals

CONSTANTS
    Connections,   \* connections under way
    Kinds,         \* the requests that may come
    NoConnection   \* parseLockMutex is free

\* A request: its content type, its body, its route, what authenticate and
\* the visitor will make of it.
Kind == [type : {"none", "json", "form", "other"},
         body : {"none", "unparsable", "notObject", "noQuery", "badQuery", "query"},
         route : BOOLEAN,
         login : {"session", "none", "throws"},
         run : {"data", "error", "throws"}]

ASSUME RequestAssumption == Kinds \subseteq Kind /\ NoConnection \notin Connections

VARIABLES
    up,          \* the process lives
    kind,        \* the request of each connection
    pc,          \* where its thread is
    request,     \* Connection::request is set
    router,      \* Connection::router is set
    handler,     \* Router::handler is set
    gqlNode,     \* GraphqlRouter::gqlNode is set
    parseLock,   \* who holds parseLockMutex
    response,    \* status and content of the Response
    sent         \* what has left through Fastcgipp's stream

objectVars == <<request, router, handler, gqlNode>>
vars == <<up, kind, pc, objectVars, parseLock, response, sent>>

Ends == {"done", "rejected", "thrown", "stalled"}
None == [c \in Connections |-> FALSE]
Unanswered == [status |-> 404, content |-> "none"]

Init ==
    /\ up = TRUE
    /\ kind \in [Connections -> Kinds]
    /\ pc = [c \in Connections |-> "idle"]
    /\ request = None /\ router = None /\ handler = None /\ gqlNode = None
    /\ parseLock = NoConnection
    /\ response = [c \in Connections |-> Unanswered]
    /\ sent = [c \in Connections |-> "nothing"]
-----------------------------------------------------------------------------
At(c, l) == up /\ pc[c] = l
Goto(c, l) == pc' = [pc EXCEPT ![c] = l]
Set(f, c) == f' = [f EXCEPT ![c] = TRUE]

\* A new Connection object, a Response with the status Not Found in it.
Accept(c) ==
    /\ up /\ pc[c] \in {"idle"} \cup Ends
    /\ \E k \in Kinds : kind' = [kind EXCEPT ![c] = k]
    /\ Goto(c, "in")
    /\ request' = [request EXCEPT ![c] = FALSE]
    /\ router' = [router EXCEPT ![c] = FALSE]
    /\ handler' = [handler EXCEPT ![c] = FALSE]
    /\ gqlNode' = [gqlNode EXCEPT ![c] = FALSE]
    /\ response' = [response EXCEPT ![c] = Unanswered]
    /\ sent' = [sent EXCEPT ![c] = "nothing"]
    /\ UNCHANGED <<up, parseLock>>

\* Each piece of a body; the first one creates the request.
inHandler(c) ==
    /\ At(c, "in")
    /\ kind[c].body # "none"
    /\ ~request[c]
    /\ Set(request, c)
    /\ UNCHANGED <<up, kind, pc, router, handler, gqlNode, parseLock, response, sent>>

\* The end of the input: the library asks inProcessor.
EndOfInput(c) ==
    /\ At(c, "in")
    /\ request[c] \/ kind[c].body = "none"
    /\ Goto(c, "inProcessor")
    /\ UNCHANGED <<up, kind, objectVars, parseLock, response, sent>>

\* Request::validate.
validate(c) == kind[c].type = "json"

\* Mutant: the null test of the request is forgotten.
inProcessorEager(c) ==
    /\ At(c, "inProcessor")
    /\ IF kind[c].type = "none"
       THEN Goto(c, "unprocessed") /\ UNCHANGED router
       ELSE /\ Set(router, c)
            /\ Goto(c, IF validate(c) THEN "preHandler" ELSE "unprocessed")
    /\ UNCHANGED <<up, kind, request, handler, gqlNode, parseLock, response, sent>>

inProcessor(c) ==
    /\ At(c, "inProcessor")
    /\ IF kind[c].type = "none" \/ ~request[c]
       THEN Goto(c, "unprocessed") /\ UNCHANGED router
       ELSE /\ Set(router, c)
            /\ Goto(c, IF validate(c) THEN "preHandler" ELSE "unprocessed")
    /\ UNCHANGED <<up, kind, request, handler, gqlNode, parseLock, response, sent>>

\* The library takes what inProcessor has refused only when it knows what to
\* do with it: a form, or nothing at all.
Unprocessed(c) ==
    /\ At(c, "unprocessed")
    /\ Goto(c, IF kind[c].type = "form" \/ kind[c].body = "none"
               THEN "response" ELSE "rejected")
    /\ UNCHANGED <<up, kind, objectVars, parseLock, response, sent>>

\* An unknown route is left to process.
preHandler(c) ==
    /\ At(c, "preHandler")
    /\ IF kind[c].route THEN Set(handler, c) /\ Goto(c, "lock")
       ELSE UNCHANGED handler /\ Goto(c, "response")
    /\ UNCHANGED <<up, kind, request, router, gqlNode, parseLock, response, sent>>

\* Mutant: no critical section.
LockNot(c) ==
    /\ At(c, "lock")
    /\ parseLock' = c
    /\ Goto(c, "parse")
    /\ UNCHANGED <<up, kind, objectVars, response, sent>>

\* GraphqlRouter::preHandlers: the lock_guard.
Lock(c) ==
    /\ At(c, "lock")
    /\ parseLock = NoConnection
    /\ parseLock' = c
    /\ Goto(c, "parse")
    /\ UNCHANGED <<up, kind, objectVars, response, sent>>

\* A JSON text that is no object has no member "query": the type_error leaves
\* preHandlers.  Any other failure is left to run.
Parse(c) ==
    /\ At(c, "parse")
    /\ gqlNode' = [gqlNode EXCEPT ![c] = kind[c].body = "query"]
    /\ Goto(c, IF kind[c].body = "notObject" THEN "unwind" ELSE "unlock")
    /\ UNCHANGED <<up, kind, request, router, handler, parseLock, response, sent>>

\* The lock_guard's destructor, and where an exception leads.
LeaveTo(c, failed) ==
    /\ up /\ pc[c] \in {"unlock", "unwind"}
    /\ parseLock' = NoConnection
    /\ Goto(c, IF pc[c] = "unlock" THEN "response" ELSE failed)
    /\ UNCHANGED <<up, kind, objectVars, response, sent>>

\* Mutant: a body that throws is parsed again.
LeaveRetries(c) == LeaveTo(c, "lock")

\* The mutex is free again on either way out.
Leave(c) == LeaveTo(c, "thrown")
-----------------------------------------------------------------------------
\* Connection::response.  Without a router it returns false and nobody asks
\* it again.
response_(c) ==
    /\ At(c, "response")
    /\ Goto(c, IF router[c] THEN "authenticate" ELSE "stalled")
    /\ UNCHANGED <<up, kind, objectVars, parseLock, response, sent>>

\* Mutant: the route answers before the session is looked at.
authenticateLate(c) ==
    /\ At(c, "authenticate")
    /\ Goto(c, IF kind[c].login = "throws" THEN "thrown"
               ELSE IF kind[c].login = "none" /\ ~handler[c] THEN "header" ELSE "route")
    /\ response' = [response EXCEPT ![c].status = IF kind[c].login = "none" THEN 401 ELSE @]
    /\ UNCHANGED <<up, kind, objectVars, parseLock, sent>>

\* Router::process: readData and authenticate.
authenticate(c) ==
    /\ At(c, "authenticate")
    /\ Goto(c, CASE kind[c].login = "throws" -> "thrown"
                 [] kind[c].login = "none" -> "header"
                 [] OTHER -> "route")
    /\ response' = [response EXCEPT ![c].status = IF kind[c].login = "none" THEN 401 ELSE @]
    /\ UNCHANGED <<up, kind, objectVars, parseLock, sent>>

\* process: a form has not been through preHandler, so the handler may have to
\* be found here; with no route the answer stays Not Found.
process(c) ==
    /\ At(c, "route")
    /\ handler' = [handler EXCEPT ![c] = kind[c].route]
    /\ Goto(c, IF kind[c].route THEN "run" ELSE "header")
    /\ UNCHANGED <<up, kind, request, router, gqlNode, parseLock, response, sent>>

\* GraphqlRouter::run.  A query that could not be parsed and every
\* GqlException become an error in an answer with the status OK.
run(c) ==
    /\ At(c, "run")
    /\ IF gqlNode[c] /\ kind[c].run = "throws"
       THEN Goto(c, "thrown") /\ UNCHANGED response
       ELSE /\ Goto(c, "header")
            /\ response' = [response EXCEPT ![c] =
                              [status |-> 200,
                               content |-> IF gqlNode[c] THEN kind[c].run ELSE "error"]]
    /\ UNCHANGED <<up, kind, objectVars, parseLock, sent>>

\* writeHeader: std::endl sends the status line, the headers wait.
writeHeader(c) ==
    /\ At(c, "header")
    /\ Goto(c, "body")
    /\ sent' = [sent EXCEPT ![c] = "status"]
    /\ UNCHANGED <<up, kind, objectVars, parseLock, response>>

\* The body goes to the stream, which is flushed; response returns true.
writeBody(c) ==
    /\ At(c, "body")
    /\ Goto(c, "done")
    /\ sent' = [sent EXCEPT ![c] = "all"]
    /\ UNCHANGED <<up, kind, objectVars, parseLock, response>>

\* Nobody in this code catches what leaves a method of Connection.
Abort(c) ==
    /\ At(c, "thrown")
    /\ up' = FALSE
    /\ UNCHANGED <<kind, pc, objectVars, parseLock, response, sent>>

Gone == ~up /\ UNCHANGED vars

Step(c) ==
    \/ inHandler(c) \/ EndOfInput(c) \/ inProcessor(c) \/ Unprocessed(c)
    \/ preHandler(c) \/ Lock(c) \/ Parse(c) \/ Leave(c)
    \/ response_(c) \/ authenticate(c) \/ process(c) \/ run(c)
    \/ writeHeader(c) \/ writeBody(c)

Next == (\E c \in Connections : Accept(c) \/ Step(c) \/ Abort(c)) \/ Gone

Spec == Init /\ [][Next]_vars

\* Threads run, and a thread that waits for parseLockMutex gets it in the end.
FairSpec == Spec /\ \A c \in Connections : WF_vars(Step(c)) /\ SF_vars(Lock(c))
-----------------------------------------------------------------------------
(* Properties. *)

Types ==
    /\ up \in BOOLEAN
    /\ kind \in [Connections -> Kinds]
    /\ pc \in [Connections -> Ends \cup
                 {"idle", "in", "inProcessor", "unprocessed", "preHandler", "lock", "parse",
                  "unlock", "unwind", "response", "authenticate", "route", "run", "header",
                  "body"}]
    /\ request \in [Connections -> BOOLEAN] /\ router \in [Connections -> BOOLEAN]
    /\ handler \in [Connections -> BOOLEAN] /\ gqlNode \in [Connections -> BOOLEAN]
    /\ parseLock \in Connections \cup {NoConnection}
    /\ response \in [Connections -> [status : {200, 401, 404},
                                     content : {"data", "error", "none"}]]
    /\ sent \in [Connections -> {"nothing", "status", "all"}]

CreatedInOrder(c) ==
    (gqlNode[c] => handler[c]) /\ (handler[c] => router[c]) /\ (router[c] => request[c])

\* The type of every variable, and the order in which a connection's objects
\* come to be: no handler without a router, no router without a request.
TypeOK == Types /\ \A c \in Connections : CreatedInOrder(c)

\* "The GraphQL AST parser is not thread-safe": one connection is in it, and
\* the mutex is held only from its lock to the end of preHandlers.
ParserExclusive ==
    \A c \in Connections : pc[c] \in {"parse", "unlock", "unwind"} <=> parseLock = c

\* What a request calls for: 401 without a session, 404 without a route, 200
\* otherwise, and data only for a query that was parsed and evaluated.
May(k, a) ==
    /\ k.type # "none" /\ k.body # "none"
    /\ k.login # "throws"
    /\ a.status = IF k.login = "none" THEN 401 ELSE IF k.route THEN 200 ELSE 404
    /\ a.content = IF a.status # 200 THEN "none"
                   ELSE IF k.type = "json" /\ k.body = "query" THEN k.run ELSE "error"

\* How far the exchange of each connection has got, and what is on its wire.
stageOf == [c \in Connections |->
              CASE pc[c] = "idle" -> "idle"
                [] sent[c] = "status" -> "status"
                [] sent[c] = "all" -> "answered"
                [] sent[c] = "nothing" /\ pc[c] \in Ends -> "failed"
                [] OTHER -> "open"]
answerOf == [c \in Connections |->
               IF sent[c] = "nothing" THEN Unanswered ELSE response[c]]

E == INSTANCE Exchange WITH Silent <- Unanswered, stage <- stageOf, answer <- answerOf

\* The request life implements Exchange: one answer, the right one, and
\* nothing at all on the wire of a request that fails.
ImplementsExchange == E!Spec

\* A request with a body comes to an end, whatever becomes of the others that
\* want the parser; only one without a body may wait for ever.
Completes ==
    \A c \in Connections :
        pc[c] = "in" /\ kind[c].body # "none" ~> pc[c] \in Ends \ {"stalled"} \/ ~up
=============================================================================
