----------------------------- MODULE BrokerPool -----------------------------
(***************************************************************************)
(* The pool of D-Bus worker threads that keeps the entity cache fresh:     *)
(* core/broker/broker.hpp, core/broker/dbus_broker.{hpp,cpp} and the parts *)
(* of core/application.cpp and main.cpp that start and stop the pool.      *)
(*                                                                         *)
(* Every worker walks the same list of brokers for ever.  A broker is due  *)
(* when it never ran or when its period has passed; a due broker is        *)
(* claimed with a try-lock, tested again under the lock, and then its      *)
(* query runs, its instances are bound to signals and published, and the   *)
(* time is stamped.  What a refresh does to an entity's instances is the   *)
(* subject of module EntityCache.                                          *)
(***************************************************************************)
EXTENDS Integers, FiniteSets

CONSTANTS
    Workers,      \* threads that run doCaptureDbus (5 in application.hpp)
    Observers,    \* threads that run doManageringObjects
    NoThread,     \* the owner of a free mutex
    NBrokers,     \* length of DBusBrokerManager::brokers
    Timeout,      \* Broker::timeout in seconds, 0 for a single shot
    Watch,        \* Broker::watch
    Epoch,        \* what system_clock shows, in seconds, at start
    MaxTime,      \* bound: real seconds the model runs for
    ClockJumps,   \* values the wall clock may be set to ({}: it is steady)
    MaxJumps      \* bound: how often the wall clock is set

Threads == Workers \cup Observers
Brokers == 1..NBrokers

ASSUME ThreadsAssumption ==
    /\ NoThread \notin Threads
    /\ Workers \cap Observers = {}
ASSUME BrokersAssumption ==
    /\ NBrokers \in Nat
    /\ Timeout \in [Brokers -> Nat]
    /\ Watch \in [Brokers -> BOOLEAN]
\* The wall clock never shows the first second of 1970, which is the value
\* that stands for "never run".
ASSUME ClockAssumption ==
    /\ Epoch \in Nat \ {0}
    /\ MaxTime \in Nat
    /\ MaxJumps \in Nat
    /\ ClockJumps \subseteq Nat \ {0}

VARIABLES
    process,            \* "up", "exited" by a return from main, or "aborted"
    main,               \* where the main thread is
    active,             \* DBusBrokerManager::active
    pc,                 \* where each thread of the pool is
    cur,                \* position of each worker in the list of brokers
    owner,              \* who holds each broker's guardMutex
    lastExecutionTime,  \* Broker::lastExecutionTime, wall-clock seconds
    now,                \* system_clock::now(), in seconds
    jumps,              \* how often the wall clock was set
    uptime,             \* history: real seconds since the start
    stampedAt,          \* history: uptime of each broker's last stamp
    published           \* history: number of setInstances of each broker

clockVars == <<now, jumps, uptime>>
brokerVars == <<owner, lastExecutionTime, stampedAt, published>>
vars == <<process, main, active, pc, cur, clockVars, brokerVars>>

MainPC == {"configure", "spawn", "run", "joining", "joined", "returned"}
ThreadPC == {"none", "connect", "loop", "scan", "lock", "recheck", "query",
             "bind", "publish", "stamp", "unlock", "wait", "done"}

\* Between the try-lock and the end of tryProcess the worker holds the mutex.
Holding == {"recheck", "query", "bind", "publish", "stamp", "unlock"}
-----------------------------------------------------------------------------
\* Mutant: the period counts as over one second early.
isTimeoutEarly(b) ==
    \/ lastExecutionTime[b] = 0
    \/ Timeout[b] # 0 /\ now >= lastExecutionTime[b] + Timeout[b]

\* Broker::isTimeout.
isTimeout(b) ==
    LET isNeverRun == lastExecutionTime[b] = 0
        isSingleShot == Timeout[b] = 0
        isActualTimeout == now > lastExecutionTime[b] + Timeout[b]
    IN  isNeverRun \/ (~isSingleShot /\ isActualTimeout)

Init ==
    /\ process = "up"
    /\ main = "configure"
    /\ active = FALSE
    /\ pc = [t \in Threads |-> "none"]
    /\ cur = [t \in Threads |-> 1]
    /\ owner = [b \in Brokers |-> NoThread]
    /\ lastExecutionTime = [b \in Brokers |-> 0]
    /\ now = Epoch
    /\ jumps = 0
    /\ uptime = 0
    /\ stampedAt = [b \in Brokers |-> 0]
    /\ published = [b \in Brokers |-> 0]
-----------------------------------------------------------------------------
(***************************************************************************)
(* The main thread.  SIGINT is handled on it: the kernel prefers it for a  *)
(* signal sent to the process, and the signal stays blocked while its      *)
(* handler runs.                                                           *)
(***************************************************************************)

\* DBusBrokerManager::start raises the flag before the first thread exists.
Start ==
    /\ process = "up"
    /\ main = "configure"
    /\ active' = TRUE
    /\ main' = "spawn"
    /\ UNCHANGED <<process, pc, cur, clockVars, brokerVars>>

\* The loop of start(): one std::thread at a time, already running while the
\* later ones are created.  Only a worker opens connections of its own.
Spawn(t) ==
    /\ process = "up"
    /\ main = "spawn"
    /\ pc[t] = "none"
    /\ pc' = [pc EXCEPT ![t] = IF t \in Workers THEN "connect" ELSE "loop"]
    /\ UNCHANGED <<process, main, active, cur, clockVars, brokerVars>>

\* configure() installs the signal handler and main() goes on to serve
\* requests.
Configured ==
    /\ process = "up"
    /\ main = "spawn"
    /\ \A t \in Threads : pc[t] # "none"
    /\ main' = "run"
    /\ UNCHANGED <<process, active, pc, cur, clockVars, brokerVars>>

\* The first SIGINT: terminate() lowers the flag and begins to join.
Interrupt ==
    /\ process = "up"
    /\ main = "run"
    /\ active' = FALSE
    /\ main' = "joining"
    /\ UNCHANGED <<process, pc, cur, clockVars, brokerVars>>

\* Mutant: terminate() waits for the workers but not for the observers.
JoinedWorkersOnly ==
    /\ process = "up"
    /\ main = "joining"
    /\ \A t \in Workers : pc[t] = "done"
    /\ main' = "joined"
    /\ UNCHANGED <<process, active, pc, cur, clockVars, brokerVars>>

\* The last join returns; the handler ends and requests are served again.
Joined ==
    /\ process = "up"
    /\ main = "joining"
    /\ \A t \in Threads : pc[t] = "done"
    /\ main' = "joined"
    /\ UNCHANGED <<process, active, pc, cur, clockVars, brokerVars>>

\* A second SIGINT joins threads that are no longer joinable: join() throws
\* through the signal handler and nothing catches it.
InterruptAgain ==
    /\ process = "up"
    /\ main = "joined"
    /\ process' = "aborted"
    /\ UNCHANGED <<main, active, pc, cur, clockVars, brokerVars>>

\* The FastCGI manager stops (external) and main() returns.  The static
\* Application is destroyed: a joinable std::thread in it aborts the process.
Return ==
    /\ process = "up"
    /\ main \in {"run", "joined"}
    /\ main' = "returned"
    /\ process' = IF main = "joined" \/ Threads = {} THEN "exited" ELSE "aborted"
    /\ UNCHANGED <<active, pc, cur, clockVars, brokerVars>>
-----------------------------------------------------------------------------
(***************************************************************************)
(* A worker, doCaptureDbus.  Nothing in the thread catches an exception,   *)
(* so every throw is std::terminate.                                       *)
(***************************************************************************)
At(t, l) == process = "up" /\ pc[t] = l
Goto(t, l) == pc' = [pc EXCEPT ![t] = l]

Abort ==
    /\ process' = "aborted"
    /\ UNCHANGED <<main, active, pc, cur, clockVars, brokerVars>>

\* Two connections, one for queries and one for signals.
Connect(t) ==
    /\ At(t, "connect")
    /\ Goto(t, "loop")
    /\ UNCHANGED <<process, main, active, cur, clockVars, brokerVars>>

\* A connection that cannot be opened throws.
ConnectFail(t) ==
    /\ At(t, "connect")
    /\ Abort

\* Mutant: the observer's loop forgets the flag.
LoopObserverForever(t) ==
    /\ At(t, "loop")
    /\ Goto(t, IF t \in Observers THEN "wait" ELSE IF active THEN "scan" ELSE "done")
    /\ cur' = [cur EXCEPT ![t] = 1]
    /\ UNCHANGED <<process, main, active, clockVars, brokerVars>>

\* while (active).  The observer thread has no list of brokers to walk.
Loop(t) ==
    /\ At(t, "loop")
    /\ Goto(t, CASE ~active -> "done"
                 [] active /\ t \in Workers -> "scan"
                 [] OTHER -> "wait")
    /\ cur' = [cur EXCEPT ![t] = 1]
    /\ UNCHANGED <<process, main, active, clockVars, brokerVars>>

\* for (broker : brokers) if (broker->isTimeout()).  This test holds no lock.
\* It may run against the stamp of another worker and then sees the old time
\* or the new one: the half of the 64-bit count that does not change cannot
\* be torn before 2106.
Scan(t) ==
    /\ At(t, "scan")
    /\ \/ /\ cur[t] > NBrokers
          /\ Goto(t, "wait")
          /\ UNCHANGED cur
       \/ /\ cur[t] \in Brokers
          /\ isTimeout(cur[t])
          /\ Goto(t, "lock")
          /\ UNCHANGED cur
       \/ /\ cur[t] \in Brokers
          /\ ~isTimeout(cur[t])
          /\ cur' = [cur EXCEPT ![t] = @ + 1]
          /\ UNCHANGED pc
    /\ UNCHANGED <<process, main, active, clockVars, brokerVars>>

\* Mutant: the lock is deferred and owns_lock() is never asked.
TryLockUnchecked(t) ==
    /\ At(t, "lock")
    /\ owner' = [owner EXCEPT ![cur[t]] = IF @ = NoThread THEN t ELSE @]
    /\ Goto(t, "recheck")
    /\ UNCHANGED <<process, main, active, cur, clockVars, lastExecutionTime,
                   stampedAt, published>>

\* EntityDbusBroker::tryProcess: a broker another worker holds is left alone.
TryLock(t) ==
    /\ At(t, "lock")
    /\ \/ /\ owner[cur[t]] = NoThread
          /\ owner' = [owner EXCEPT ![cur[t]] = t]
          /\ Goto(t, "recheck")
          /\ UNCHANGED cur
       \/ /\ owner[cur[t]] # NoThread
          /\ cur' = [cur EXCEPT ![t] = @ + 1]
          /\ Goto(t, "scan")
          /\ UNCHANGED owner
    /\ UNCHANGED <<process, main, active, clockVars, lastExecutionTime,
                   stampedAt, published>>

\* Mutant: no second test under the lock.
RecheckNot(t) ==
    /\ At(t, "recheck")
    /\ Goto(t, "query")
    /\ UNCHANGED <<process, main, active, cur, clockVars, brokerVars>>

\* DBusBroker::tryProcess tests the timeout again, now under the lock.
Recheck(t) ==
    /\ At(t, "recheck")
    /\ Goto(t, IF isTimeout(cur[t]) THEN "query" ELSE "unlock")
    /\ UNCHANGED <<process, main, active, cur, clockVars, brokerVars>>

\* Mutant: what does not watch is not published either.
QueryUnpublished(t) ==
    /\ At(t, "query")
    /\ Goto(t, IF Watch[cur[t]] THEN "bind" ELSE "stamp")
    /\ UNCHANGED <<process, main, active, cur, clockVars, brokerVars>>

\* entityQuery->process reads the bus; only a watching broker binds.
Query(t) ==
    /\ At(t, "query")
    /\ Goto(t, IF Watch[cur[t]] THEN "bind" ELSE "publish")
    /\ UNCHANGED <<process, main, active, cur, clockVars, brokerVars>>

\* The object mapper answers with an error or not in time: process throws.
QueryFail(t) ==
    /\ At(t, "query")
    /\ Abort

\* bindListeners of every instance, on the worker's own signal connection.
Bind(t) ==
    /\ At(t, "bind")
    /\ Goto(t, "publish")
    /\ UNCHANGED <<process, main, active, cur, clockVars, brokerVars>>

\* A match that the bus refuses throws.
BindFail(t) ==
    /\ At(t, "bind")
    /\ Abort

\* entity->setInstances.
Publish(t) ==
    /\ At(t, "publish")
    /\ published' = [published EXCEPT ![cur[t]] = @ + 1]
    /\ Goto(t, "stamp")
    /\ UNCHANGED <<process, main, active, cur, clockVars, owner,
                   lastExecutionTime, stampedAt>>

\* Broker::setExecutionTime.
setExecutionTime(t) ==
    /\ At(t, "stamp")
    /\ lastExecutionTime' = [lastExecutionTime EXCEPT ![cur[t]] = now]
    /\ stampedAt' = [stampedAt EXCEPT ![cur[t]] = uptime]
    /\ Goto(t, "unlock")
    /\ UNCHANGED <<process, main, active, cur, clockVars, owner, published>>

\* Mutant: the walk skips the broker after the one it refreshed.
UnlockSkips(t) ==
    /\ At(t, "unlock")
    /\ owner' = [owner EXCEPT ![cur[t]] = NoThread]
    /\ cur' = [cur EXCEPT ![t] = @ + 2]
    /\ Goto(t, "scan")
    /\ UNCHANGED <<process, main, active, clockVars, lastExecutionTime,
                   stampedAt, published>>

\* Mutant: the mutex is locked by hand and not released.
UnlockLeaks(t) ==
    /\ At(t, "unlock")
    /\ cur' = [cur EXCEPT ![t] = @ + 1]
    /\ Goto(t, "scan")
    /\ UNCHANGED <<process, main, active, clockVars, brokerVars>>

\* The unique_lock leaves its scope and the walk goes on.
Unlock(t) ==
    /\ At(t, "unlock")
    /\ owner' = [owner EXCEPT ![cur[t]] = NoThread]
    /\ cur' = [cur EXCEPT ![t] = @ + 1]
    /\ Goto(t, "scan")
    /\ UNCHANGED <<process, main, active, clockVars, lastExecutionTime,
                   stampedAt, published>>

\* wait(5s) returns with a signal or after five seconds; process_discard.
WaitProcess(t) ==
    /\ At(t, "wait")
    /\ Goto(t, "loop")
    /\ UNCHANGED <<process, main, active, cur, clockVars, brokerVars>>

\* A signal cannot be read, or a formatter throws in the listener of a worker;
\* the handlers of the observers catch what they may throw.
ListenerThrows(t) ==
    /\ At(t, "wait") /\ t \in Workers
    /\ Abort
-----------------------------------------------------------------------------
\* A second passes.
Tick ==
    /\ process = "up"
    /\ uptime < MaxTime
    /\ uptime' = uptime + 1
    /\ now' = now + 1
    /\ UNCHANGED <<process, main, active, pc, cur, jumps, brokerVars>>

\* system_clock is the wall clock: NTP or an operator may set it (external).
SetClock(v) ==
    /\ process = "up"
    /\ jumps < MaxJumps
    /\ jumps' = jumps + 1
    /\ now' = v
    /\ UNCHANGED <<process, main, active, pc, cur, uptime, brokerVars>>

\* Nothing happens in a process that is gone.
Gone ==
    /\ process # "up"
    /\ UNCHANGED vars

MainStep == Start \/ (\E t \in Threads : Spawn(t)) \/ Configured \/ Joined

\* What a thread of the pool does next when no call of it fails.
ThreadStep(t) ==
    \/ Connect(t) \/ Loop(t) \/ Scan(t) \/ TryLock(t) \/ Recheck(t)
    \/ Query(t) \/ Bind(t) \/ Publish(t) \/ setExecutionTime(t)
    \/ Unlock(t) \/ WaitProcess(t)

ThreadFail(t) == ConnectFail(t) \/ QueryFail(t) \/ BindFail(t) \/ ListenerThrows(t)

Next ==
    \/ MainStep
    \/ Interrupt \/ InterruptAgain \/ Return
    \/ \E t \in Threads : ThreadStep(t) \/ ThreadFail(t)
    \/ Tick
    \/ \E v \in ClockJumps : SetClock(v)
    \/ Gone

Spec == Init /\ [][Next]_vars

(***************************************************************************)
(* The operating system runs every runnable thread, and every call on the  *)
(* bus returns or throws (sd-bus gives up after 25 s, wait after 5 s).     *)
(* Nothing makes a signal arrive, a call fail or the clock move.           *)
(***************************************************************************)
Fairness ==
    /\ WF_vars(MainStep)
    /\ \A t \in Threads : WF_vars(ThreadStep(t))

FairSpec == Spec /\ Fairness
-----------------------------------------------------------------------------
\* The type of every variable.
TypeOK ==
    /\ process \in {"up", "exited", "aborted"}
    /\ main \in MainPC
    /\ active \in BOOLEAN
    /\ pc \in [Threads -> ThreadPC]
    /\ cur \in [Threads -> 1..(NBrokers + 1)]
    /\ owner \in [Brokers -> Threads \cup {NoThread}]
    /\ lastExecutionTime \in [Brokers -> Nat]
    /\ now \in Nat \ {0}
    /\ jumps \in Nat
    /\ uptime \in Nat
    /\ stampedAt \in [Brokers -> Nat]
    /\ published \in [Brokers -> Nat]

\* The mutex of a broker is held by t exactly while t is inside tryProcess
\* for that broker: two workers never refresh one entity at the same time.
MutexMatchesProgress ==
    \A b \in Brokers, t \in Threads :
        owner[b] = t <=> pc[t] \in Holding /\ cur[t] = b

\* A broker with timeout zero publishes at most once in the life of the
\* process, whichever workers pass its unlocked test together and however
\* the wall clock moves.
SingleShotOnce ==
    \A b \in Brokers : Timeout[b] = 0 => published[b] <= 1

\* "The time between brokers process": after the first publication a broker
\* publishes again only if it is periodic and more than its period of real
\* time has passed since it last stamped.
RefreshInterval ==
    [][\A b \in Brokers :
         published'[b] > published[b] /\ published[b] > 0
           => Timeout[b] > 0 /\ uptime - stampedAt[b] > Timeout[b]]_vars

\* Once terminate() has joined the pool no thread runs and no mutex is held;
\* a process that exits without aborting got there.
QuietAfterJoin ==
    main = "joined" \/ process = "exited" =>
        /\ \A t \in Threads : pc[t] = "done"
        /\ \A b \in Brokers : owner[b] = NoThread

\* A broker that is due is refreshed, unless the pool is stopped first.
DueIsRefreshed ==
    \A b \in Brokers :
        main = "run" /\ isTimeout(b)
          ~> ~isTimeout(b) \/ ~active \/ process # "up"

\* terminate() comes back: every worker sees the flag, whatever it was doing.
TerminateReturns ==
    main = "joining" ~> main = "joined" \/ process # "up"
-----------------------------------------------------------------------------
(***************************************************************************)
(* The schedule that the pool implements.  A broker is being refreshed     *)
(* from the second test to the publication by whoever holds its mutex, and *)
(* is published until that worker has stamped the time.                    *)
(***************************************************************************)
Refreshing == {"query", "bind", "publish"}

Engaged(b, ls) == \E t \in Threads : pc[t] \in ls /\ cur[t] = b

phaseOf == [b \in Brokers |-> IF Engaged(b, Refreshing) THEN "refreshing"
                             ELSE IF Engaged(b, {"stamp"}) THEN "published"
                             ELSE "idle"]

Schedule == INSTANCE RefreshSchedule WITH
    phase <- phaseOf, last <- lastExecutionTime, count <- published

\* The threads together behave as a schedule in which each broker's
\* refreshes are serial and due (tryProcess, isTimeout, setExecutionTime).
ImplementsSchedule == Schedule!Spec
=============================================================================
