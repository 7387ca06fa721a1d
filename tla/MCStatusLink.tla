---------------------------- MODULE MCStatusLink ----------------------------
(* Small instances of StatusLink for TLC. *)
EXTENDS StatusLink, TLC

CONSTANTS s1, s2

A(s, st) == [sensor |-> s, status |-> st]

\* No association, one, two for different sensors, two for one sensor in
\* falling order, and one with a status outside the table.
MCUpdates == { <<>>, <<A(s1, Warning)>>, <<A(s2, Warning), A(s1, Critical)>>,
               <<A(s1, Critical), A(s1, Warning)>>, <<A(s2, Unknown)>> }

\* One association at most.
FewUpdates == { <<>>, <<A(s1, Critical)>> }

RequestSymmetry == Permutations(Requests)
=============================================================================
