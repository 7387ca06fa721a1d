-------------------------- MODULE BrokerPoolProofs --------------------------
(***************************************************************************)
(* Machine-checked proofs about BrokerPool, for any number of workers,     *)
(* observers and brokers, any timeouts and any bounds.                     *)
(***************************************************************************)
EXTENDS BrokerPool, TLAPS

\* A worker that tests or holds a broker stands on the list, not past it.
OnTheList ==
    \A t \in Threads : pc[t] \in Holding \cup {"lock"} => cur[t] \in Brokers

\* Published but never stamped: some worker is just between the two.
StampPending ==
    \A b \in Brokers :
        published[b] > 0 /\ lastExecutionTime[b] = 0 => Engaged(b, {"stamp"})

\* A refresh of a single shot under way is its first one.
FirstShot ==
    \A b \in Brokers : Timeout[b] = 0 =>
        /\ published[b] <= 1
        /\ Engaged(b, Refreshing) => published[b] = 0

\* The inductive invariant behind the safety theorems.
IInv == TypeOK /\ OnTheList /\ MutexMatchesProgress /\ StampPending /\ FirstShot
-----------------------------------------------------------------------------
\* The initial state satisfies the inductive invariant: no thread runs, every
\* mutex is free and nothing has been published.
LEMMA InitIInv == Init => IInv
  <1> SUFFICES ASSUME Init PROVE IInv
    OBVIOUS
  <1>1. TypeOK
    <2>1. /\ process \in {"up", "exited", "aborted"} /\ main \in MainPC
          /\ active \in BOOLEAN
      BY DEF Init, MainPC
    <2>2. pc \in [Threads -> ThreadPC] /\ cur \in [Threads -> 1..(NBrokers + 1)]
      BY BrokersAssumption DEF Init, ThreadPC
    <2>3. /\ owner \in [Brokers -> Threads \cup {NoThread}]
          /\ lastExecutionTime \in [Brokers -> Nat]
          /\ stampedAt \in [Brokers -> Nat]
          /\ published \in [Brokers -> Nat]
      BY DEF Init
    <2>4. now \in Nat \ {0} /\ jumps \in Nat /\ uptime \in Nat
      BY ClockAssumption DEF Init
    <2> QED
      BY <2>1, <2>2, <2>3, <2>4 DEF TypeOK
  <1>2. OnTheList /\ MutexMatchesProgress
    BY ThreadsAssumption DEF Init, OnTheList, MutexMatchesProgress, Holding
  <1>3. StampPending /\ FirstShot
    BY DEF Init, StampPending, FirstShot, Engaged, Refreshing
  <1> QED
    BY <1>1, <1>2, <1>3 DEF IInv

\* Two workers inside tryProcess for one broker are one worker.
LEMMA OneHolder ==
    ASSUME MutexMatchesProgress, OnTheList,
           NEW t \in Threads, NEW u \in Threads,
           pc[t] \in Holding, pc[u] \in Holding, cur[t] = cur[u]
    PROVE  t = u
  BY DEF MutexMatchesProgress, OnTheList

\* The steps that neither touch a broker nor move a worker of the pool past
\* a point where it holds one.
LEMMA QuietStep ==
    ASSUME IInv, Next, UNCHANGED <<pc, cur, brokerVars>>
    PROVE  IInv'
  <1>1. TypeOK'
    <2>1. now' \in Nat \ {0} /\ uptime' \in Nat /\ jumps' \in Nat
      BY ClockAssumption DEF IInv, TypeOK, Next, MainStep, Start, Spawn, Configured,
         Joined, Interrupt, InterruptAgain, Return, ThreadStep, ThreadFail, Connect,
         Loop, Scan, TryLock, Recheck, Query, Bind, Publish, setExecutionTime, Unlock,
         WaitProcess, ConnectFail, QueryFail, BindFail, ListenerThrows, Abort, Tick,
         SetClock, Gone,
         clockVars, vars
    <2>2. process' \in {"up", "exited", "aborted"} /\ main' \in MainPC /\ active' \in BOOLEAN
      <3>1. CASE \E t \in Threads : ThreadStep(t) \/ Spawn(t)
        <4>1. UNCHANGED <<process, main, active>>
          BY <3>1 DEF ThreadStep, Spawn, Connect, Loop, Scan, TryLock, Recheck, Query,
             Bind, Publish, setExecutionTime, Unlock, WaitProcess
        <4> QED
          BY <4>1 DEF IInv, TypeOK
      <3>2. CASE \E t \in Threads : ThreadFail(t)
        BY <3>2 DEF ThreadFail, ConnectFail, QueryFail, BindFail, ListenerThrows, Abort,
        IInv, TypeOK
      <3>3. CASE Tick \/ (\E v \in ClockJumps : SetClock(v)) \/ Gone
        BY <3>3 DEF Tick, SetClock, Gone, vars, IInv, TypeOK
      <3>4. CASE Start \/ Configured \/ Joined \/ Interrupt \/ InterruptAgain \/ Return
        BY <3>4 DEF Start, Configured, Joined, Interrupt, InterruptAgain, Return, MainPC,
           IInv, TypeOK
      <3> QED
        BY <3>1, <3>2, <3>3, <3>4 DEF Next, MainStep
    <2> QED
      BY <2>1, <2>2 DEF IInv, TypeOK, brokerVars
  <1>2. (OnTheList /\ MutexMatchesProgress /\ StampPending /\ FirstShot)'
    BY DEF IInv, OnTheList, MutexMatchesProgress, StampPending, FirstShot, Engaged,
    brokerVars
  <1> QED
    BY <1>1, <1>2 DEF IInv

\* A step of one thread that keeps every broker's mutex and record, and moves
\* the thread between places where it holds nothing.
LEMMA WalkStep ==
    ASSUME IInv, NEW t \in Threads,
           Connect(t) \/ Loop(t) \/ Scan(t) \/ WaitProcess(t)
    PROVE  IInv'
  <1>1. /\ pc[t] \in {"connect", "loop", "scan", "wait"}
        /\ pc'[t] \in {"loop", "scan", "wait", "done", "lock"}
        /\ pc' \in [Threads -> ThreadPC] /\ cur' \in [Threads -> 1..(NBrokers + 1)]
        /\ pc'[t] = "lock" => cur'[t] \in Brokers
        /\ \A u \in Threads \ {t} : pc'[u] = pc[u] /\ cur'[u] = cur[u]
    <2>1. CASE Connect(t) \/ WaitProcess(t)
      BY <2>1 DEF IInv, TypeOK, Connect, WaitProcess, At, Goto, ThreadPC
    <2>2. CASE Loop(t)
      BY <2>2, BrokersAssumption DEF IInv, TypeOK, Loop, At, Goto, ThreadPC
    <2>3. CASE Scan(t)
      <3>1. CASE pc' = pc
        <4>1. cur[t] \in 1..NBrokers /\ cur' = [cur EXCEPT ![t] = @ + 1]
          BY <2>3, <3>1 DEF IInv, TypeOK, Scan, At, Goto, Brokers
        <4>2. cur[t] + 1 \in 1..(NBrokers + 1)
          BY <4>1, BrokersAssumption
        <4> QED
          BY <2>3, <3>1, <4>1, <4>2 DEF IInv, TypeOK, Scan, At
      <3>2. CASE pc' # pc
        BY <2>3, <3>2 DEF IInv, TypeOK, Scan, At, Goto, ThreadPC
      <3> QED
        BY <3>1, <3>2
    <2> QED
      BY <2>1, <2>2, <2>3
  <1>2. UNCHANGED <<process, main, active, clockVars, brokerVars>>
    BY DEF Connect, Loop, Scan, WaitProcess
  <1>3. TypeOK'
    BY <1>1, <1>2 DEF IInv, TypeOK, clockVars, brokerVars
  <1>4. OnTheList' /\ MutexMatchesProgress'
    BY <1>1, <1>2 DEF IInv, OnTheList, MutexMatchesProgress, Holding, brokerVars
  <1>5. StampPending' /\ FirstShot'
    BY <1>1, <1>2 DEF IInv, StampPending, FirstShot, Engaged, Refreshing, brokerVars
  <1> QED
    BY <1>3, <1>4, <1>5 DEF IInv

\* Taking a free mutex, or leaving a taken one alone.
LEMMA TryLockStep ==
    ASSUME IInv, NEW t \in Threads, TryLock(t)
    PROVE  IInv'
  <1>1. /\ cur[t] \in Brokers /\ pc[t] = "lock"
        /\ pc'[t] \in {"recheck", "scan"}
        /\ pc' \in [Threads -> ThreadPC] /\ cur' \in [Threads -> 1..(NBrokers + 1)]
        /\ owner' \in [Brokers -> Threads \cup {NoThread}]
        /\ pc'[t] = "recheck" => cur' = cur /\ owner[cur[t]] = NoThread
                                 /\ owner' = [owner EXCEPT ![cur[t]] = t]
        /\ pc'[t] = "scan" => owner' = owner
        /\ \A u \in Threads \ {t} : pc'[u] = pc[u] /\ cur'[u] = cur[u]
    <2>1. cur[t] \in Brokers /\ cur[t] + 1 \in 1..(NBrokers + 1)
      BY BrokersAssumption DEF IInv, OnTheList, TryLock, At, Brokers
    <2>2. CASE owner[cur[t]] = NoThread
      BY <2>1, <2>2 DEF IInv, TypeOK, TryLock, At, Goto, ThreadPC
    <2>3. CASE owner[cur[t]] # NoThread
      BY <2>1, <2>3 DEF IInv, TypeOK, TryLock, At, Goto, ThreadPC
    <2> QED
      BY <2>2, <2>3
  <1>2. UNCHANGED <<process, main, active, clockVars, lastExecutionTime,
                    stampedAt, published>>
    BY DEF TryLock
  <1>3. TypeOK'
    BY <1>1, <1>2 DEF IInv, TypeOK, clockVars
  <1>4. OnTheList'
    BY <1>1 DEF IInv, OnTheList, Holding
  <1>5. MutexMatchesProgress'
    BY <1>1, ThreadsAssumption DEF IInv, TypeOK, MutexMatchesProgress, Holding
  <1>6. StampPending' /\ FirstShot'
    BY <1>1, <1>2 DEF IInv, StampPending, FirstShot, Engaged, Refreshing
  <1> QED
    BY <1>3, <1>4, <1>5, <1>6 DEF IInv

\* The second test admits a single shot only if it never stamped; whoever
\* published without a stamp would still hold the mutex.
LEMMA RecheckStep ==
    ASSUME IInv, NEW t \in Threads, Recheck(t)
    PROVE  IInv'
  <1>1. /\ cur[t] \in Brokers /\ pc[t] = "recheck" /\ cur' = cur
        /\ pc'[t] \in {"query", "unlock"}
        /\ pc'[t] = "query" => isTimeout(cur[t])
        /\ pc' \in [Threads -> ThreadPC]
        /\ \A u \in Threads \ {t} : pc'[u] = pc[u]
    BY DEF IInv, TypeOK, OnTheList, Recheck, At, Goto, ThreadPC, Holding
  <1>2. UNCHANGED <<process, main, active, cur, clockVars, brokerVars>>
    BY DEF Recheck
  <1>3. TypeOK' /\ OnTheList' /\ MutexMatchesProgress'
    BY <1>1, <1>2 DEF IInv, TypeOK, OnTheList, MutexMatchesProgress, Holding,
                      clockVars, brokerVars
  <1>4. StampPending'
    BY <1>1, <1>2 DEF IInv, StampPending, Engaged, brokerVars
  <1>5. ~Engaged(cur[t], {"stamp"})
    BY <1>1, OneHolder DEF IInv, Engaged, Holding
  <1>6. Timeout[cur[t]] = 0 /\ pc'[t] = "query" => published[cur[t]] = 0
    BY <1>1, <1>5 DEF IInv, TypeOK, StampPending, isTimeout
  <1>7. FirstShot'
    BY <1>1, <1>2, <1>6 DEF IInv, FirstShot, Engaged, Refreshing, brokerVars
  <1> QED
    BY <1>3, <1>4, <1>7 DEF IInv

\* A refresh under way goes on under the same mutex.
LEMMA RefreshStep ==
    ASSUME IInv, NEW t \in Threads, Query(t) \/ Bind(t)
    PROVE  IInv'
  <1>1. /\ pc[t] \in {"query", "bind"} /\ pc'[t] \in {"bind", "publish"} /\ cur' = cur
        /\ pc' \in [Threads -> ThreadPC]
        /\ \A u \in Threads \ {t} : pc'[u] = pc[u]
    BY DEF IInv, TypeOK, Query, Bind, At, Goto, ThreadPC
  <1>2. UNCHANGED <<process, main, active, cur, clockVars, brokerVars>>
    BY DEF Query, Bind
  <1>3. TypeOK' /\ OnTheList' /\ MutexMatchesProgress'
    BY <1>1, <1>2 DEF IInv, TypeOK, OnTheList, MutexMatchesProgress, Holding,
                      clockVars, brokerVars
  <1>4. StampPending' /\ FirstShot'
    BY <1>1, <1>2 DEF IInv, StampPending, FirstShot, Engaged, Refreshing, brokerVars
  <1> QED
    BY <1>3, <1>4 DEF IInv

\* After its publication the worker alone is inside tryProcess for the broker.
LEMMA PublishStep ==
    ASSUME IInv, NEW t \in Threads, Publish(t)
    PROVE  IInv'
  <1>1. /\ cur[t] \in Brokers /\ pc[t] = "publish" /\ pc'[t] = "stamp" /\ cur' = cur
        /\ pc' \in [Threads -> ThreadPC]
        /\ \A u \in Threads \ {t} : pc'[u] = pc[u]
    BY DEF IInv, TypeOK, OnTheList, Publish, At, Goto, ThreadPC, Holding
  <1>2. UNCHANGED <<process, main, active, cur, clockVars, owner,
                    lastExecutionTime, stampedAt>>
    BY DEF Publish
  <1>3. /\ published' \in [Brokers -> Nat]
        /\ published'[cur[t]] = published[cur[t]] + 1
        /\ \A b \in Brokers \ {cur[t]} : published'[b] = published[b]
    BY <1>1 DEF IInv, TypeOK, Publish
  <1>4. TypeOK' /\ OnTheList' /\ MutexMatchesProgress'
    BY <1>1, <1>2, <1>3 DEF IInv, TypeOK, OnTheList, MutexMatchesProgress, Holding,
                      clockVars
  <1>5. StampPending'
    BY <1>1, <1>2, <1>3 DEF IInv, StampPending, Engaged
  <1>6. ~Engaged(cur[t], Refreshing)'
    BY <1>1, OneHolder DEF IInv, Engaged, Holding, Refreshing
  <1>7. FirstShot'
    <2> SUFFICES ASSUME NEW b \in Brokers, Timeout[b] = 0
                 PROVE  published'[b] <= 1 /\ (Engaged(b, Refreshing)' => published'[b] = 0)
      BY DEF FirstShot, Engaged
    <2>1. CASE b = cur[t]
      <3>1. published[b] = 0
        BY <1>1, <2>1 DEF IInv, FirstShot, Engaged, Refreshing
      <3> QED
        BY <1>1, <1>3, <1>6, <2>1, <3>1 DEF Engaged
    <2>2. CASE b # cur[t]
      BY <1>1, <1>3, <2>2 DEF IInv, FirstShot, Engaged, Refreshing
    <2> QED
      BY <2>1, <2>2
  <1> QED
    BY <1>4, <1>5, <1>7 DEF IInv

\* A stamp is never zero, so it settles what was pending.
LEMMA StampStep ==
    ASSUME IInv, NEW t \in Threads, setExecutionTime(t)
    PROVE  IInv'
  <1>1. /\ cur[t] \in Brokers /\ pc[t] = "stamp" /\ pc'[t] = "unlock" /\ cur' = cur
        /\ pc' \in [Threads -> ThreadPC]
        /\ \A u \in Threads \ {t} : pc'[u] = pc[u]
    BY DEF IInv, TypeOK, OnTheList, setExecutionTime, At, Goto, ThreadPC, Holding
  <1>2. UNCHANGED <<process, main, active, cur, clockVars, owner, published>>
    BY DEF setExecutionTime
  <1>3. /\ lastExecutionTime' \in [Brokers -> Nat] /\ stampedAt' \in [Brokers -> Nat]
        /\ lastExecutionTime'[cur[t]] # 0
        /\ \A b \in Brokers \ {cur[t]} : lastExecutionTime'[b] = lastExecutionTime[b]
    BY <1>1 DEF IInv, TypeOK, setExecutionTime
  <1>4. TypeOK' /\ OnTheList' /\ MutexMatchesProgress'
    BY <1>1, <1>2, <1>3 DEF IInv, TypeOK, OnTheList, MutexMatchesProgress, Holding,
                      clockVars
  <1>5. StampPending'
    BY <1>1, <1>2, <1>3 DEF IInv, StampPending, Engaged
  <1>6. FirstShot'
    BY <1>1, <1>2 DEF IInv, FirstShot, Engaged, Refreshing
  <1> QED
    BY <1>4, <1>5, <1>6 DEF IInv

\* Leaving the scope of the lock.
LEMMA UnlockStep ==
    ASSUME IInv, NEW t \in Threads, Unlock(t)
    PROVE  IInv'
  <1>1. /\ cur[t] \in Brokers /\ pc[t] = "unlock" /\ pc'[t] = "scan"
        /\ pc' \in [Threads -> ThreadPC] /\ cur' \in [Threads -> 1..(NBrokers + 1)]
        /\ owner' = [owner EXCEPT ![cur[t]] = NoThread]
        /\ owner' \in [Brokers -> Threads \cup {NoThread}]
        /\ \A u \in Threads \ {t} : pc'[u] = pc[u] /\ cur'[u] = cur[u]
    BY BrokersAssumption
    DEF IInv, TypeOK, OnTheList, Unlock, At, Goto, ThreadPC, Brokers, Holding
  <1>2. UNCHANGED <<process, main, active, clockVars, lastExecutionTime,
                    stampedAt, published>>
    BY DEF Unlock
  <1>3. TypeOK'
    BY <1>1, <1>2 DEF IInv, TypeOK, clockVars
  <1>4. OnTheList'
    BY <1>1 DEF IInv, OnTheList, Holding
  <1>5. MutexMatchesProgress'
    BY <1>1, ThreadsAssumption DEF IInv, TypeOK, MutexMatchesProgress, Holding
  <1>6. StampPending' /\ FirstShot'
    BY <1>1, <1>2 DEF IInv, StampPending, FirstShot, Engaged, Refreshing
  <1> QED
    BY <1>3, <1>4, <1>5, <1>6 DEF IInv

\* A new thread holds nothing.
LEMMA SpawnStep ==
    ASSUME IInv, NEW t \in Threads, Spawn(t)
    PROVE  IInv'
  <1>1. /\ pc[t] = "none" /\ pc'[t] \in {"connect", "loop"} /\ cur' = cur
        /\ pc' \in [Threads -> ThreadPC]
        /\ \A u \in Threads \ {t} : pc'[u] = pc[u]
    BY DEF IInv, TypeOK, Spawn, ThreadPC
  <1>2. UNCHANGED <<process, main, active, cur, clockVars, brokerVars>>
    BY DEF Spawn
  <1>3. TypeOK' /\ OnTheList' /\ MutexMatchesProgress'
    BY <1>1, <1>2 DEF IInv, TypeOK, OnTheList, MutexMatchesProgress, Holding,
                      clockVars, brokerVars
  <1>4. StampPending' /\ FirstShot'
    BY <1>1, <1>2 DEF IInv, StampPending, FirstShot, Engaged, Refreshing, brokerVars
  <1> QED
    BY <1>3, <1>4 DEF IInv

\* Every step of the pool keeps the inductive invariant.
LEMMA NextIInv == IInv /\ [Next]_vars => IInv'
  <1> SUFFICES ASSUME IInv, [Next]_vars PROVE IInv'
    OBVIOUS
  <1>1. CASE UNCHANGED vars
    BY <1>1 DEF vars, clockVars, brokerVars, IInv, TypeOK, OnTheList,
                MutexMatchesProgress, StampPending, FirstShot, Engaged
  <1>2. CASE Next
    <2>1. CASE \E t \in Threads : Spawn(t)
      BY <2>1, SpawnStep
    <2>2. CASE \E t \in Threads : ThreadStep(t)
      <3> PICK t \in Threads : ThreadStep(t)
        BY <2>2
      <3>1. CASE Connect(t) \/ Loop(t) \/ Scan(t) \/ WaitProcess(t)
        BY <3>1, WalkStep
      <3>2. CASE TryLock(t)
        BY <3>2, TryLockStep
      <3>3. CASE Recheck(t)
        BY <3>3, RecheckStep
      <3>4. CASE Query(t) \/ Bind(t)
        BY <3>4, RefreshStep
      <3>5. CASE Publish(t)
        BY <3>5, PublishStep
      <3>6. CASE setExecutionTime(t)
        BY <3>6, StampStep
      <3>7. CASE Unlock(t)
        BY <3>7, UnlockStep
      <3> QED
        BY <3>1, <3>2, <3>3, <3>4, <3>5, <3>6, <3>7 DEF ThreadStep
    <2>3. CASE \/ Start \/ Configured \/ Joined \/ Interrupt \/ InterruptAgain
               \/ Return \/ (\E t \in Threads : ThreadFail(t)) \/ Tick
               \/ (\E v \in ClockJumps : SetClock(v)) \/ Gone
      <3>1. UNCHANGED <<pc, cur, brokerVars>>
        BY <2>3 DEF Start, Configured, Joined, Interrupt, InterruptAgain, Return,
           ThreadFail, ConnectFail, QueryFail, BindFail, ListenerThrows, Abort, Tick,
           SetClock, Gone, vars
      <3> QED
        BY <1>2, <3>1, QuietStep
    <2> QED
      BY <1>2, <2>1, <2>2, <2>3 DEF Next, MainStep
  <1> QED
    BY <1>1, <1>2

\* The inductive invariant holds in every reachable state.
THEOREM Invariance == Spec => []IInv
  BY InitIInv, NextIInv, PTL DEF Spec

\* Every variable keeps its type (the mutexes, positions, stamps and flags of
\* DBusBrokerManager and its brokers).
THEOREM TypeCorrect == Spec => []TypeOK
  <1>1. IInv => TypeOK
    BY DEF IInv
  <1> QED
    BY Invariance, <1>1, PTL

\* The mutex of a broker is held exactly by the worker inside tryProcess for
\* it, so no two workers ever refresh one entity together.
THEOREM MutualExclusion == Spec => []MutexMatchesProgress
  <1>1. IInv => MutexMatchesProgress
    BY DEF IInv
  <1> QED
    BY Invariance, <1>1, PTL

\* A broker with timeout zero publishes at most once, however many workers
\* race for it and however the wall clock is set.
THEOREM SingleShot == Spec => []SingleShotOnce
  <1>1. IInv => SingleShotOnce
    BY DEF IInv, FirstShot, SingleShotOnce
  <1> QED
    BY Invariance, <1>1, PTL
-----------------------------------------------------------------------------
(***************************************************************************)
(* With a steady clock the wall clock and real time move together, so the  *)
(* test made under the lock is a fact about real time until publication.   *)
(***************************************************************************)
Steady ==
    /\ now = Epoch + uptime
    /\ \A b \in Brokers : lastExecutionTime[b] # 0 =>
         /\ lastExecutionTime[b] = Epoch + stampedAt[b]
         /\ Engaged(b, Refreshing) =>
              Timeout[b] > 0 /\ uptime - stampedAt[b] > Timeout[b]

\* Every step but a stamp, a second test and a tick keeps the steady clock's
\* invariant because it brings no new worker into a refresh.
LEMMA SteadyFrame ==
    ASSUME IInv, Steady,
           UNCHANGED <<now, uptime, lastExecutionTime, stampedAt>>,
           \A b \in Brokers : Engaged(b, Refreshing)' => Engaged(b, Refreshing)
    PROVE  Steady'
  BY DEF Steady

\* A thread that moves to a place outside Refreshing, or stays within it on
\* the same broker, brings nobody into a refresh.
LEMMA NoEntry ==
    ASSUME NEW t \in Threads, IInv, ThreadStep(t), ~Recheck(t)
    PROVE  \A b \in Brokers : Engaged(b, Refreshing)' => Engaged(b, Refreshing)
  <1>1. \A u \in Threads \ {t} : pc'[u] = pc[u] /\ cur'[u] = cur[u]
    BY DEF IInv, TypeOK, ThreadStep, Connect, Loop, Scan, TryLock, Query, Bind,
       Publish, setExecutionTime, Unlock, WaitProcess, At, Goto
  <1>2. pc'[t] \in Refreshing => pc[t] \in Refreshing /\ cur'[t] = cur[t]
    BY DEF IInv, TypeOK, ThreadStep, Connect, Loop, Scan, TryLock, Query, Bind,
       Publish, setExecutionTime, Unlock, WaitProcess, At, Goto, Refreshing
  <1> QED
    BY <1>1, <1>2 DEF Engaged

\* With no jump of the clock every step keeps Steady.
LEMMA NextSteady ==
    ASSUME ClockJumps = {}, IInv, Steady, [Next]_vars
    PROVE  Steady'
  <1>1. CASE UNCHANGED vars
    BY <1>1, SteadyFrame DEF vars, clockVars, brokerVars, Engaged
  <1>2. ASSUME NEW t \in Threads, ThreadStep(t) PROVE Steady'
    <2>1. CASE Recheck(t)
      <3>1. /\ UNCHANGED <<cur, clockVars, brokerVars>>
            /\ cur[t] \in Brokers
            /\ \A u \in Threads \ {t} : pc'[u] = pc[u]
            /\ pc'[t] \in Refreshing => isTimeout(cur[t])
        BY <2>1 DEF IInv, TypeOK, OnTheList, Holding, Recheck, At, Goto, Refreshing
      <3>2. ASSUME NEW b \in Brokers, lastExecutionTime[b] # 0, Engaged(b, Refreshing)',
                   ~Engaged(b, Refreshing)
            PROVE  Timeout[b] > 0 /\ uptime - stampedAt[b] > Timeout[b]
        <4>1. b = cur[t] /\ isTimeout(b)
          BY <3>1, <3>2 DEF Engaged
        <4>2. /\ now \in Nat /\ uptime \in Nat /\ Epoch \in Nat
              /\ stampedAt[b] \in Nat /\ lastExecutionTime[b] \in Nat /\ Timeout[b] \in Nat
              /\ now = Epoch + uptime /\ lastExecutionTime[b] = Epoch + stampedAt[b]
          BY <3>2, ClockAssumption, BrokersAssumption DEF IInv, TypeOK, Steady
        <4> QED
          BY <3>2, <4>1, <4>2 DEF isTimeout
      <3> QED
        BY <3>1, <3>2 DEF Steady, clockVars, brokerVars
    <2>2. CASE setExecutionTime(t)
      <3>1. /\ UNCHANGED clockVars /\ cur[t] \in Brokers
            /\ lastExecutionTime' = [lastExecutionTime EXCEPT ![cur[t]] = now]
            /\ stampedAt' = [stampedAt EXCEPT ![cur[t]] = uptime]
            /\ cur' = cur /\ pc[t] = "stamp" /\ pc'[t] = "unlock"
            /\ \A u \in Threads \ {t} : pc'[u] = pc[u]
        BY <2>2 DEF IInv, TypeOK, OnTheList, Holding, setExecutionTime, At, Goto
      <3>2. ~Engaged(cur[t], Refreshing)'
        BY <3>1, OneHolder DEF IInv, Engaged, Holding, Refreshing
      <3>3. \A b \in Brokers : Engaged(b, Refreshing)' => Engaged(b, Refreshing) /\ b # cur[t]
        BY <3>1, <3>2 DEF Engaged, Refreshing
      <3> QED
        BY <3>1, <3>3 DEF Steady, clockVars, IInv, TypeOK
    <2>3. CASE ~Recheck(t) /\ ~setExecutionTime(t)
      <3>1. UNCHANGED <<now, uptime, lastExecutionTime, stampedAt>>
        BY <1>2, <2>3 DEF ThreadStep, Connect, Loop, Scan, TryLock, Query, Bind,
           Publish, Unlock, WaitProcess, clockVars, brokerVars
      <3> QED
        BY <1>2, <2>3, <3>1, NoEntry, SteadyFrame
    <2> QED
      BY <2>1, <2>2, <2>3
  <1>3. CASE Tick
    <2>1. UNCHANGED <<pc, cur, lastExecutionTime, stampedAt>> /\ now' = now + 1
          /\ uptime' = uptime + 1
      BY <1>3 DEF Tick, brokerVars
    <2>2. now \in Nat /\ uptime \in Nat /\ Epoch \in Nat /\ now = Epoch + uptime
          /\ \A b \in Brokers : stampedAt[b] \in Nat /\ Timeout[b] \in Nat
      BY ClockAssumption, BrokersAssumption DEF IInv, TypeOK, Steady
    <2> QED
      BY <2>1, <2>2 DEF Steady, Engaged
  <1>4. CASE \E t \in Threads : Spawn(t)
    <2> PICK t \in Threads : Spawn(t)
      BY <1>4
    <2>1. /\ UNCHANGED <<cur, now, uptime, lastExecutionTime, stampedAt>>
          /\ pc'[t] \in {"connect", "loop"}
          /\ \A u \in Threads \ {t} : pc'[u] = pc[u]
      BY DEF Spawn, clockVars, brokerVars, IInv, TypeOK
    <2> QED
      BY <2>1, SteadyFrame DEF Engaged, Refreshing
  <1>5. CASE \/ Start \/ Configured \/ Joined \/ Interrupt \/ InterruptAgain
             \/ Return \/ (\E t \in Threads : ThreadFail(t)) \/ Gone
    <2>1. UNCHANGED <<pc, cur, now, uptime, lastExecutionTime, stampedAt>>
      BY <1>5 DEF Start, Configured, Joined, Interrupt, InterruptAgain, Return,
         ThreadFail, ConnectFail, QueryFail, BindFail, ListenerThrows, Abort, Gone, vars,
         clockVars,
         brokerVars
    <2> QED
      BY <2>1, SteadyFrame DEF Engaged
  <1> QED
    BY <1>1, <1>2, <1>3, <1>4, <1>5 DEF Next, MainStep

\* A worker about to publish a broker that was published before holds its
\* mutex, so the earlier publication was stamped and its period has passed.
LEMMA PublishIsDue ==
    ASSUME IInv, Steady, [Next]_vars,
           NEW b \in Brokers, published'[b] > published[b], published[b] > 0
    PROVE  Timeout[b] > 0 /\ uptime - stampedAt[b] > Timeout[b]
  <1>1. published' # published
    BY DEF IInv, TypeOK
  <1>2. PICK t \in Threads : Publish(t)
    BY <1>1 DEF Next, MainStep, ThreadStep, ThreadFail, Start, Spawn, Configured, Joined,
       Interrupt, InterruptAgain, Return, Connect, Loop, Scan, TryLock, Recheck, Query,
       Bind, setExecutionTime, Unlock, WaitProcess, ConnectFail, QueryFail, BindFail,
       ListenerThrows,
       Abort, Tick, SetClock, Gone, vars, clockVars, brokerVars
  <1>3. cur[t] = b /\ pc[t] = "publish"
    BY <1>2 DEF Publish, At, IInv, TypeOK
  <1>4. ~Engaged(b, {"stamp"})
    BY <1>3, OneHolder DEF IInv, Engaged, Holding
  <1>5. lastExecutionTime[b] # 0
    BY <1>4 DEF IInv, StampPending
  <1> QED
    BY <1>3, <1>5 DEF Steady, Engaged, Refreshing

\* With a steady clock a broker publishes again only if it is periodic and
\* more than its timeout has passed since it last stamped: a refresh is never
\* repeated by workers that passed the unlocked test of isTimeout together.
THEOREM IntervalKept ==
    ASSUME ClockJumps = {}
    PROVE  Spec => RefreshInterval
  <1>1. Init => Steady
    BY ClockAssumption DEF Init, Steady
  <1>2. IInv /\ Steady /\ [Next]_vars => Steady'
    BY NextSteady
  <1>3. IInv /\ Steady /\ [Next]_vars =>
          [\A b \in Brokers :
             published'[b] > published[b] /\ published[b] > 0
               => Timeout[b] > 0 /\ uptime - stampedAt[b] > Timeout[b]]_vars
    BY PublishIsDue
  <1> QED
    BY Invariance, <1>1, <1>2, <1>3, PTL DEF Spec, RefreshInterval
-----------------------------------------------------------------------------
\* Joined threads have ended.
AllDone ==
    main = "joined" \/ process = "exited" => \A t \in Threads : pc[t] = "done"

\* No step wakes a thread that has ended.
LEMMA NextAllDone == IInv /\ AllDone /\ [Next]_vars => AllDone'
  <1> SUFFICES ASSUME IInv, AllDone, [Next]_vars PROVE AllDone'
    OBVIOUS
  <1>1. CASE UNCHANGED vars \/ Gone
    BY <1>1 DEF AllDone, vars, Gone
  <1>2. CASE \E t \in Threads : ThreadStep(t)
    <2>1. PICK t \in Threads : ThreadStep(t)
      BY <1>2
    <2>2. pc[t] # "done" /\ UNCHANGED <<main, process>>
      BY <2>1 DEF ThreadStep, Connect, Loop, Scan, TryLock, Recheck, Query, Bind,
         Publish, setExecutionTime, Unlock, WaitProcess, At
    <2> QED
      BY <2>2 DEF AllDone
  <1>3. CASE (Start \/ (\E t \in Threads : Spawn(t)) \/ Configured \/ Interrupt)
    BY <1>3 DEF Start, Spawn, Configured, Interrupt, AllDone
  <1>4. CASE (Joined \/ InterruptAgain \/ Return)
    BY <1>4 DEF Joined, InterruptAgain, Return, AllDone
  <1>5. CASE (\/ Tick \/ (\E v \in ClockJumps : SetClock(v))
                                \/ \E t \in Threads : ThreadFail(t))
    BY <1>5 DEF Tick, SetClock, ThreadFail, ConnectFail, QueryFail, BindFail,
    ListenerThrows, Abort, AllDone
  <1> QED
    BY <1>1, <1>2, <1>3, <1>4, <1>5 DEF Next, MainStep

\* After terminate() has joined the pool, and in a process that exits without
\* aborting, no thread of the pool runs and no broker's mutex is held.
THEOREM CleanShutdown == Spec => []QuietAfterJoin
  <1>1. Init => AllDone
    BY DEF Init, AllDone
  <1>2. IInv /\ AllDone => QuietAfterJoin
    <2> SUFFICES ASSUME IInv, \A t \in Threads : pc[t] = "done", NEW b \in Brokers
                 PROVE  owner[b] = NoThread
      BY DEF AllDone, QuietAfterJoin
    <2>1. \A t \in Threads : owner[b] # t
      BY DEF IInv, MutexMatchesProgress, Holding
    <2> QED
      BY <2>1 DEF IInv, TypeOK
  <1> QED
    BY Invariance, <1>1, NextAllDone, <1>2, PTL DEF Spec
-----------------------------------------------------------------------------
(***************************************************************************)
(* Refinement: the pool implements RefreshSchedule.                        *)
(***************************************************************************)

\* A step after which the same brokers are refreshing, published and idle.
LEMMA PhaseFrame ==
    ASSUME \A b \in Brokers : Engaged(b, Refreshing)' <=> Engaged(b, Refreshing),
           \A b \in Brokers : Engaged(b, {"stamp"})' <=> Engaged(b, {"stamp"})
    PROVE  phaseOf' = phaseOf
  BY DEF phaseOf

\* The pool's steps that are none of the schedule's.
LEMMA ScheduleStutter ==
    ASSUME IInv, NEW t \in Threads,
           \/ Connect(t) \/ Loop(t) \/ Scan(t) \/ WaitProcess(t) \/ TryLock(t)
           \/ Query(t) \/ Bind(t) \/ Unlock(t) \/ Spawn(t)
    PROVE  UNCHANGED Schedule!schedule
  <1>1. /\ UNCHANGED <<lastExecutionTime, published, now>>
        /\ \A u \in Threads \ {t} : pc'[u] = pc[u] /\ cur'[u] = cur[u]
    BY DEF IInv, TypeOK, Connect, Loop, Scan, WaitProcess, TryLock, Query, Bind,
       Unlock, Spawn, At, Goto, clockVars, brokerVars
  <1>2. /\ pc'[t] \in Refreshing <=> pc[t] \in Refreshing
        /\ pc[t] \in Refreshing => cur'[t] = cur[t]
        /\ pc[t] # "stamp" /\ pc'[t] # "stamp"
    BY DEF IInv, TypeOK, Connect, Loop, Scan, WaitProcess, TryLock, Query, Bind,
       Unlock, Spawn, At, Goto, Refreshing
  <1>3. phaseOf' = phaseOf
    BY <1>1, <1>2, PhaseFrame DEF Engaged
  <1> QED
    BY <1>1, <1>3 DEF Schedule!schedule

\* The phase of a broker is read off the one worker inside tryProcess for it.
LEMMA PhaseOfHolder ==
    ASSUME IInv, NEW t \in Threads, pc[t] \in Holding
    PROVE  /\ cur[t] \in Brokers
           /\ Engaged(cur[t], Refreshing) <=> pc[t] \in Refreshing
           /\ Engaged(cur[t], {"stamp"}) <=> pc[t] = "stamp"
  BY OneHolder DEF IInv, OnTheList, Engaged, Holding, Refreshing

\* A worker that moves within tryProcess changes the phase of its own broker
\* and of no other.
LEMMA PhaseStep ==
    ASSUME IInv, IInv', NEW t \in Threads, pc[t] \in Holding, pc'[t] \in Holding,
           cur' = cur, \A u \in Threads \ {t} : pc'[u] = pc[u]
    PROVE  phaseOf' = [phaseOf EXCEPT ![cur[t]] =
                         IF pc'[t] \in Refreshing THEN "refreshing"
                         ELSE IF pc'[t] = "stamp" THEN "published" ELSE "idle"]
  <1>1. /\ cur[t] \in Brokers
        /\ Engaged(cur[t], Refreshing)' <=> pc'[t] \in Refreshing
        /\ Engaged(cur[t], {"stamp"})' <=> pc'[t] = "stamp"
    <2>1. \A u \in Threads : pc'[u] \in Holding /\ cur'[u] = cur'[t] => u = t
      BY DEF IInv, MutexMatchesProgress, OnTheList
    <2> QED
      BY <2>1 DEF IInv, OnTheList, Engaged, Holding, Refreshing
  <1>2. \A b \in Brokers \ {cur[t]} :
          /\ Engaged(b, Refreshing)' <=> Engaged(b, Refreshing)
          /\ Engaged(b, {"stamp"})' <=> Engaged(b, {"stamp"})
    BY DEF Engaged
  <1> DEFINE new == IF pc'[t] \in Refreshing THEN "refreshing"
                    ELSE IF pc'[t] = "stamp" THEN "published" ELSE "idle"
  <1>3. phaseOf'[cur[t]] = new
    BY <1>1 DEF phaseOf
  <1>4. \A b \in Brokers \ {cur[t]} : phaseOf'[b] = phaseOf[b]
    BY <1>2 DEF phaseOf
  <1> HIDE DEF new
  <1>5. phaseOf' = [b \in Brokers |-> phaseOf'[b]] /\ phaseOf = [b \in Brokers |-> phaseOf[b]]
    BY DEF phaseOf
  <1>6. phaseOf' = [phaseOf EXCEPT ![cur[t]] = new]
    BY <1>1, <1>3, <1>4, <1>5
  <1> QED
    BY <1>6 DEF new

\* Every step of the pool is a step of the schedule or leaves it unchanged.
LEMMA NextSchedule ==
    ASSUME IInv, IInv', [Next]_vars
    PROVE  [Schedule!Next]_(Schedule!schedule)
  <1>1. CASE UNCHANGED vars
    BY <1>1 DEF vars, clockVars, brokerVars, Schedule!schedule, phaseOf, Engaged
  <1>2. ASSUME NEW t \in Threads, ThreadStep(t)
        PROVE  [Schedule!Next]_(Schedule!schedule)
    <2>1. CASE Recheck(t)
      <3>1. /\ UNCHANGED <<cur, clockVars, brokerVars>> /\ pc[t] = "recheck"
            /\ pc'[t] \in {"query", "unlock"}
            /\ \A u \in Threads \ {t} : pc'[u] = pc[u]
            /\ pc'[t] = "query" => isTimeout(cur[t])
        BY <2>1 DEF IInv, TypeOK, Recheck, At, Goto
      <3>2. cur[t] \in Brokers /\ phaseOf[cur[t]] = "idle"
        BY <3>1, PhaseOfHolder DEF Holding, Refreshing, phaseOf
      <3>3. phaseOf' = [phaseOf EXCEPT ![cur[t]] =
                          IF pc'[t] = "query" THEN "refreshing" ELSE "idle"]
        BY <3>1, PhaseStep DEF Holding, Refreshing
      <3>4. CASE pc'[t] = "query"
        <4>1. Schedule!Due(cur[t])
          BY <3>1, <3>2, <3>4, BrokersAssumption DEF isTimeout, Schedule!Due
        <4>2. Schedule!Begin(cur[t])
          BY <3>1, <3>2, <3>3, <3>4, <4>1 DEF Schedule!Begin, clockVars, brokerVars
        <4> QED
          BY <3>2, <4>2 DEF Schedule!Next
      <3>5. CASE pc'[t] = "unlock"
        <4>1. phaseOf' = phaseOf
          BY <3>2, <3>3, <3>5 DEF phaseOf
        <4> QED
          BY <3>1, <4>1 DEF Schedule!schedule, clockVars, brokerVars
      <3> QED
        BY <3>1, <3>4, <3>5
    <2>2. CASE Publish(t)
      <3>1. /\ UNCHANGED <<cur, clockVars, owner, lastExecutionTime, stampedAt>>
            /\ pc[t] = "publish" /\ pc'[t] = "stamp"
            /\ \A u \in Threads \ {t} : pc'[u] = pc[u]
            /\ published' = [published EXCEPT ![cur[t]] = @ + 1]
        BY <2>2 DEF IInv, TypeOK, Publish, At, Goto
      <3>2. cur[t] \in Brokers /\ phaseOf[cur[t]] = "refreshing"
        BY <3>1, PhaseOfHolder DEF Holding, Refreshing, phaseOf
      <3>3. phaseOf' = [phaseOf EXCEPT ![cur[t]] = "published"]
        BY <3>1, PhaseStep DEF Holding, Refreshing
      <3>4. Schedule!Deliver(cur[t])
        BY <3>1, <3>2, <3>3 DEF Schedule!Deliver, clockVars
      <3> QED
        BY <3>2, <3>4 DEF Schedule!Next
    <2>3. CASE setExecutionTime(t)
      <3>1. /\ UNCHANGED <<cur, clockVars, owner, published>>
            /\ pc[t] = "stamp" /\ pc'[t] = "unlock"
            /\ \A u \in Threads \ {t} : pc'[u] = pc[u]
            /\ lastExecutionTime' = [lastExecutionTime EXCEPT ![cur[t]] = now]
        BY <2>3 DEF IInv, TypeOK, setExecutionTime, At, Goto
      <3>2. cur[t] \in Brokers /\ phaseOf[cur[t]] = "published"
        BY <3>1, PhaseOfHolder DEF Holding, Refreshing, phaseOf
      <3>3. phaseOf' = [phaseOf EXCEPT ![cur[t]] = "idle"]
        BY <3>1, PhaseStep DEF Holding, Refreshing
      <3>4. Schedule!End(cur[t])
        BY <3>1, <3>2, <3>3 DEF Schedule!End, clockVars
      <3> QED
        BY <3>2, <3>4 DEF Schedule!Next
    <2>4. CASE \/ Connect(t) \/ Loop(t) \/ Scan(t) \/ WaitProcess(t) \/ TryLock(t)
               \/ Query(t) \/ Bind(t) \/ Unlock(t)
      BY <2>4, ScheduleStutter
    <2> QED
      BY <1>2, <2>1, <2>2, <2>3, <2>4 DEF ThreadStep
  <1>3. CASE \E t \in Threads : Spawn(t)
    BY <1>3, ScheduleStutter
  <1>4. CASE Tick \/ \E v \in ClockJumps : SetClock(v)
    <2>1. UNCHANGED <<pc, cur, lastExecutionTime, published>>
      BY <1>4 DEF Tick, SetClock, brokerVars
    <2>2. now' \in Nat \ {0} /\ phaseOf' = phaseOf
      BY <2>1 DEF IInv, TypeOK, phaseOf, Engaged
    <2> QED
      BY <2>1, <2>2 DEF Schedule!Next, Schedule!ClockMoves
  <1>5. CASE \/ Start \/ Configured \/ Joined \/ Interrupt \/ InterruptAgain
             \/ Return \/ (\E t \in Threads : ThreadFail(t)) \/ Gone
    <2>1. UNCHANGED <<pc, cur, lastExecutionTime, published, now>>
      BY <1>5 DEF Start, Configured, Joined, Interrupt, InterruptAgain, Return,
         ThreadFail, ConnectFail, QueryFail, BindFail, ListenerThrows, Abort, Gone, vars,
         clockVars,
         brokerVars
    <2> QED
      BY <2>1 DEF Schedule!schedule, phaseOf, Engaged
  <1> QED
    BY <1>1, <1>2, <1>3, <1>4, <1>5 DEF Next, MainStep

\* The threads, their list and their mutexes implement a schedule in which a
\* broker's refreshes are serial, due when begun, published once and stamped.
THEOREM PoolImplementsSchedule == Spec => ImplementsSchedule
  <1>1. Init => Schedule!Init
    BY ClockAssumption DEF Init, Schedule!Init, phaseOf, Engaged, Refreshing
  <1>2. IInv /\ IInv' /\ [Next]_vars => [Schedule!Next]_(Schedule!schedule)
    BY NextSchedule
  <1> QED
    BY Invariance, <1>1, <1>2, PTL DEF Spec, ImplementsSchedule, Schedule!Spec
=============================================================================
