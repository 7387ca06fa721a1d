------------------------------ MODULE Exchange ------------------------------
(***************************************************************************)
(* What the web server behind the FastCGI socket may rely on: each request *)
(* is answered once, with the status and the content that its session, its *)
(* route and its query call for, or it gets nothing at all.  The status    *)
(* line may be on its way before the rest.                                 *)
(***************************************************************************)
CONSTANTS
    Connections,
    Kinds,       \* what a request may be
    Silent,      \* nothing is decided
    May(_, _)    \* May(kind, answer): the answers a kind calls for

VARIABLES
    kind,        \* the request of each connection
    stage,       \* "idle", "open", "status", "answered" or "failed"
    answer       \* what has been decided

vars == <<kind, stage, answer>>

Init ==
    /\ kind \in [Connections -> Kinds]
    /\ stage = [c \in Connections |-> "idle"]
    /\ answer = [c \in Connections |-> Silent]

Open(c) ==
    /\ stage[c] \in {"idle", "answered", "failed"}
    /\ \E k \in Kinds : kind' = [kind EXCEPT ![c] = k]
    /\ stage' = [stage EXCEPT ![c] = "open"]
    /\ answer' = [answer EXCEPT ![c] = Silent]

\* The status line; from here on the request cannot fail.
SendStatus(c, a) ==
    /\ stage[c] = "open"
    /\ May(kind[c], a)
    /\ stage' = [stage EXCEPT ![c] = "status"]
    /\ answer' = [answer EXCEPT ![c] = a]
    /\ UNCHANGED kind

SendRest(c) ==
    /\ stage[c] = "status"
    /\ stage' = [stage EXCEPT ![c] = "answered"]
    /\ UNCHANGED <<kind, answer>>

Fail(c) ==
    /\ stage[c] = "open"
    /\ stage' = [stage EXCEPT ![c] = "failed"]
    /\ UNCHANGED <<kind, answer>>

Next == \E c \in Connections :
    \/ Open(c) \/ SendRest(c) \/ Fail(c)
    \/ \E a \in [status : {200, 401, 404}, content : {"data", "error", "none"}] :
         SendStatus(c, a)

Spec == Init /\ [][Next]_vars
=============================================================================
