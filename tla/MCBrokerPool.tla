---------------------------- MODULE MCBrokerPool ----------------------------
(* Small instances of BrokerPool for TLC. *)
EXTENDS BrokerPool, TLC

\* Broker 1 is a single shot, broker 2 is periodic; one of them watches.
MCTimeout == <<0, 1>>
MCWatch == <<FALSE, TRUE>>
NoJumps == {}
\* The clock is set forwards or back into the past.
SomeJumps == {1, 9}
WorkerSymmetry == Permutations(Workers)
=============================================================================
