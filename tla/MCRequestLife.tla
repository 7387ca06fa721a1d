--------------------------- MODULE MCRequestLife ---------------------------
(* Small instances of RequestLife for TLC. *)
EXTENDS RequestLife

K(t, b, rt, lg, rn) == [type |-> t, body |-> b, route |-> rt, login |-> lg, run |-> rn]

\* Whatever may come in, and whatever becomes of a query and of a form.
MCKinds ==
    { K(t, b, TRUE, "session", "data") :
        t \in {"none", "json", "form", "other"}, b \in {"none", "notObject", "query"} }
    \cup { K("json", "badQuery", TRUE, "session", "data") }
    \cup { K("json", "query", rt, "session", "data") : rt \in BOOLEAN }
    \cup { K("json", "query", TRUE, lg, "data") : lg \in {"none", "throws"} }
    \cup { K("json", "query", TRUE, "session", rn) : rn \in {"error", "throws"} }
    \cup { K("form", "unparsable", rt, "none", "data") : rt \in BOOLEAN }
=============================================================================
