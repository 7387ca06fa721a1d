--------------------------- MODULE RefreshSchedule ---------------------------
(***************************************************************************)
(* What the broker pool promises, with no thread, list or mutex in it: the *)
(* refreshes of one broker follow each other one at a time, each is begun  *)
(* only when the broker is due, publishes exactly once and then stamps the *)
(* time.  Brokers are independent of each other.                           *)
(***************************************************************************)
EXTENDS Integers

CONSTANTS Brokers, Timeout

VARIABLES
    phase,      \* "idle", "refreshing" or "published", for every broker
    last,       \* when each broker's last refresh ended, 0 for never
    count,      \* how many refreshes each broker published
    now         \* the clock

schedule == <<phase, last, count, now>>

Due(b) ==
    \/ last[b] = 0
    \/ Timeout[b] > 0 /\ now > last[b] + Timeout[b]

Init ==
    /\ phase = [b \in Brokers |-> "idle"]
    /\ last = [b \in Brokers |-> 0]
    /\ count = [b \in Brokers |-> 0]
    /\ now \in Nat \ {0}

Begin(b) ==
    /\ phase[b] = "idle"
    /\ Due(b)
    /\ phase' = [phase EXCEPT ![b] = "refreshing"]
    /\ UNCHANGED <<last, count, now>>

Deliver(b) ==
    /\ phase[b] = "refreshing"
    /\ phase' = [phase EXCEPT ![b] = "published"]
    /\ count' = [count EXCEPT ![b] = @ + 1]
    /\ UNCHANGED <<last, now>>

End(b) ==
    /\ phase[b] = "published"
    /\ phase' = [phase EXCEPT ![b] = "idle"]
    /\ last' = [last EXCEPT ![b] = now]
    /\ UNCHANGED <<count, now>>

ClockMoves ==
    /\ now' \in Nat \ {0}
    /\ UNCHANGED <<phase, last, count>>

Next ==
    \/ \E b \in Brokers : Begin(b) \/ Deliver(b) \/ End(b)
    \/ ClockMoves

Spec == Init /\ [][Next]_schedule
=============================================================================
