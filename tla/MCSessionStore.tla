--------------------------- MODULE MCSessionStore ---------------------------
(* Small instances of SessionStore for TLC. *)
EXTENDS SessionStore

CONSTANTS t1, long

F(ss, u) == [readable |-> TRUE, on |-> {}, off |-> {}, sessions |-> ss, uuid |-> u,
             timeout |-> None]

\* As bmcweb may leave it: before there is a UUID, with sessions, a timeout and
\* all methods on; with a damaged session and no tokens in Authorization; and a
\* file that cannot be read.
NoUuid == [F({<<t1, TRUE>>, <<long, TRUE>>}, None) EXCEPT !.on = Methods, !.timeout = 1]
Revoked == [F({<<t1, FALSE>>}, TRUE) EXCEPT !.off = {"token"}]
Torn == [NoUuid EXCEPT !.readable = FALSE]

MCFiles == {NoUuid, Revoked, Torn}

Q(x, c, ok, a) == [xtoken |-> x, cookie |-> c, csrf |-> ok, authorization |-> a]

\* An X-Auth-Token of the wrong length with a cookie and a token in
\* Authorization; a cookie without the CSRF token with the Basic scheme.
MCRequests == { Q(long, t1, TRUE, t1), Q(None, t1, FALSE, "basic") }
=============================================================================
