------------------------- MODULE SessionStoreProofs -------------------------
(***************************************************************************)
(* Machine-checked proofs about SessionStore, for any number of threads,   *)
(* any tokens, requests and files, and any bounds.                         *)
(***************************************************************************)
EXTENDS SessionStore, TLAPS

(***************************************************************************)
(* Why a revoked session fades out.  The thread that stamps a sweep has    *)
(* the entries it has not looked at in its todo; every other entry in the  *)
(* store is younger, as of the stamp, than the longest timeout.            *)
(***************************************************************************)

\* Idle times are of the past, and no session was used after it was last seen.
StoreIsClocked ==
    /\ lastTimeoutUpdate <= now
    /\ \A t \in Tokens : authTokens[t] <= seen[t] /\ seen[t] <= now

\* A thread that looks for its session has swept, or has seen that another did
\* so at most a second before.
SweptBefore(r) ==
    /\ pc[r] = "erase" => timeNow[r] <= lastTimeoutUpdate
    /\ pc[r] = "find" => timeNow[r] - lastTimeoutUpdate <= Second

YoungOrDue(t) ==
    t \in stored =>
        \/ lastTimeoutUpdate - authTokens[t] < Longest
        \/ \E q \in Threads : /\ pc[q] = "erase" /\ t \in todo[q]
                               /\ timeNow[q] = lastTimeoutUpdate

IInv ==
    /\ TypeOK
    /\ OwnSession
    /\ StoreIsClocked
    /\ \A r \in Threads : SweptBefore(r)
    /\ \A t \in Tokens : YoungOrDue(t)

(***************************************************************************)
(* Why a failing request has read its whole file, provided no file has an  *)
(* empty UUID: until a UUID is captured nobody gets past the file, so      *)
(* nobody sweeps.                                                          *)
(***************************************************************************)
NoEmptyUuid == \A f \in Files : f.uuid # FALSE

InFile == {"idle", "config", "open", "auth_config", "sessions", "timeout", "check",
           "thrown"}

\* The entries of the file that a thread's loop has passed are in the store.
PassedAreStored(r) ==
    /\ pc[r] = "sessions" => todo[r] \subseteq data[r].sessions
    /\ pc[r] \in {"sessions", "timeout", "check"} /\ data[r].readable =>
         \A t \in Tokens : <<t, TRUE>> \in data[r].sessions =>
             t \in stored \/ (pc[r] = "sessions" /\ <<t, TRUE>> \in todo[r])
    /\ pc[r] = "check" /\ data[r].readable /\ data[r].timeout # None =>
         timeoutInSeconds \in Timeouts

FileInv ==
    ~systemUuid => \A r \in Threads : pc[r] \in InFile /\ PassedAreStored(r)
-----------------------------------------------------------------------------
\* What the assumptions say of a file and of the constants.
LEMMA FileFacts ==
    ASSUME NEW f \in Files
    PROVE  /\ f.sessions \subseteq Tokens \X BOOLEAN
           /\ f.uuid = None \/ f.uuid \in BOOLEAN
           /\ f.on \subseteq Methods
           /\ f.timeout # None => f.timeout \in Timeouts
<1>1. [f EXCEPT !.timeout = 0] \in File
  BY SessionAssumption
<1>2. f.timeout # None => f.timeout \in Timeouts
  BY DEF Timeouts
<1>. DEFINE g == [f EXCEPT !.timeout = 0]
<1>3. g.sessions = f.sessions /\ g.uuid = f.uuid /\ g.on = f.on
  BY <1>1 DEF File
<1>4. /\ g.sessions \subseteq Tokens \X BOOLEAN /\ g.on \subseteq Methods
      /\ g.uuid \in BOOLEAN \cup {None}
  BY <1>1 DEF File
<1>. QED  BY <1>2, <1>3, <1>4

LEMMA ConstantFacts ==
    /\ InitFile \in Files /\ WellSized \subseteq Tokens /\ None \notin Tokens
    /\ Second \in Nat \ {0} /\ Start \in Nat /\ MaxNow \in Nat /\ Start <= MaxNow
    /\ MaxWrites \in Nat /\ DefaultTimeout \in Nat \ {0}
    /\ Timeouts \subseteq Nat \ {0}
BY SessionAssumption

\* The longest timeout is one, and none is longer.
LEMMA LongestIsLongest ==
    /\ Longest \in Nat \ {0}
    /\ \A t \in Timeouts \cup {DefaultTimeout} : t <= Longest
<1>. DEFINE S == Timeouts \cup {DefaultTimeout}
<1>1. \E m \in S : \A t \in S : m >= t
  BY LongestAssumption
<1>2. S \subseteq Nat \ {0}
  BY ConstantFacts
<1>. HIDE DEF S
<1>3. Max(S) \in S /\ \A t \in S : Max(S) >= t
  BY <1>1 DEF Max
<1>4. Max(S) \in Nat \ {0} /\ \A t \in S : t <= Max(S)
  BY <1>2, <1>3
<1>. QED  BY <1>4 DEF Longest, S

(***************************************************************************)
(* Types.                                                                  *)
(***************************************************************************)
LEMMA InitTypes == Init => TypeOK
<1>. SUFFICES ASSUME Init PROVE TypeOK
  OBVIOUS
<1>1. \A r \in Threads : (CHOOSE q \in Requests : TRUE) \in Requests
  BY SessionAssumption
<1>2. request \in [Threads -> Requests]
  BY <1>1 DEF Init
<1>3. /\ now \in Start..MaxNow /\ writes \in 0..MaxWrites /\ lastTimeoutUpdate \in 0..MaxNow
      /\ timeNow \in [Threads -> 0..MaxNow] /\ seen \in [Tokens -> 0..MaxNow]
  BY ConstantFacts DEF Init
<1>4. /\ authTokens \in [Tokens -> Start..MaxNow \cup {Absent}]
      /\ channel \in [Threads -> Channels] /\ authMethodsConfig \subseteq Methods
  BY DEF Init, Channels
<1>5. up \in BOOLEAN /\ systemUuid \in BOOLEAN
  BY DEF Init
<1>. QED  BY <1>2, <1>3, <1>4, <1>5, ConstantFacts DEF Init, TypeOK

\* A step of a thread.
LEMMA StepTypes ==
    ASSUME TypeOK, NEW r \in Threads, Step(r)
    PROVE  TypeOK'
<1>1. CASE getConfig(r)
  BY <1>1, ConstantFacts, FileFacts DEF TypeOK, getConfig, At, Goto, Ends, envVars,
     storeVars, configVars, threadVars
<1>2. CASE readData(r)
  BY <1>2, ConstantFacts, FileFacts DEF TypeOK, readData, At, Goto, Ends, envVars,
     storeVars, configVars, threadVars
<1>3. CASE ReadAuthConfig(r)
  BY <1>3, ConstantFacts, FileFacts DEF TypeOK, ReadAuthConfig, At, Goto, Ends, envVars,
     storeVars, configVars, threadVars
<1>4. CASE ReadSession(r)
  <2>1. PICK e \in todo[r] :
          /\ todo' = [todo EXCEPT ![r] = @ \ {e}]
          /\ IF fromJson(e)
             THEN /\ authTokens' = [authTokens EXCEPT ![e[1]] = IF @ = Absent THEN now ELSE @]
                  /\ seen' = [seen EXCEPT ![e[1]] = now]
             ELSE UNCHANGED <<authTokens, seen>>
    BY <1>4 DEF ReadSession
  <2>2. authTokens' \in [Tokens -> Start..MaxNow \cup {Absent}]
    BY <2>1 DEF TypeOK
  <2>3. seen' \in [Tokens -> 0..MaxNow]
    BY <2>1, ConstantFacts DEF TypeOK
  <2>4. todo' \in [Threads -> SUBSET (Tokens \cup Tokens \X BOOLEAN)]
    <3>. DEFINE T == SUBSET (Tokens \cup Tokens \X BOOLEAN)
    <3>1. todo \in [Threads -> T] /\ todo[r] \ {e} \in T
      BY DEF TypeOK
    <3>2. todo' \in [Threads -> T]
      <4>. HIDE DEF T
      <4>. QED  BY <3>1, <2>1
    <3>. QED  BY <3>2
  <2>5. UNCHANGED <<up, now, file, writes, lastTimeoutUpdate, configFile, systemUuid,
                    timeoutInSeconds, authMethodsConfig, pc, request, data, channel, timeNow,
                    session>>
    BY <1>4 DEF ReadSession, envVars, configVars
  <2>. QED  BY <2>2, <2>3, <2>4, <2>5 DEF TypeOK
<1>5. CASE ReadSystemUuid(r)
  BY <1>5, ConstantFacts, FileFacts DEF TypeOK, ReadSystemUuid, At, Goto, Ends, envVars,
     storeVars, configVars, threadVars
<1>6. CASE ReadTimeout(r)
  BY <1>6, ConstantFacts, FileFacts DEF TypeOK, ReadTimeout, At, Goto, Ends, envVars,
     storeVars, configVars, threadVars
<1>7. CASE CheckUuid(r)
  <2>1. /\ configFile' \in Threads \cup {None, "ready"}
        /\ channel' \in [Threads -> Channels] /\ data' \in [Threads -> Files]
    BY <1>7, ConstantFacts DEF TypeOK, CheckUuid, LeaveReadData, Channels
  <2>2. PICK l \in {"thrown", "open", "authenticate"} : Goto(r, l)
    BY <1>7 DEF CheckUuid, LeaveReadData
  <2>. QED  BY <1>7, <2>1, <2>2 DEF TypeOK, CheckUuid, LeaveReadData, Goto, Ends, envVars,
       storeVars
<1>8. CASE TryChannel(r)
  BY <1>8, ConstantFacts, FileFacts DEF TypeOK, TryChannel, At, Goto, Ends, envVars,
     storeVars, configVars, threadVars
<1>9. CASE SkipChannel(r)
  BY <1>9, ConstantFacts, FileFacts DEF TypeOK, SkipChannel, At, Goto, Ends, envVars,
     storeVars, configVars, threadVars, NextChannel, after, Channels
<1>10. CASE BasicChannel(r)
  BY <1>10, ConstantFacts, FileFacts DEF TypeOK, BasicChannel, At, Goto, Ends, envVars,
     storeVars, configVars, threadVars
<1>11. CASE applySessionTimeouts(r)
  BY <1>11, ConstantFacts, FileFacts DEF TypeOK, applySessionTimeouts, At, Goto, Ends, envVars,
     storeVars, configVars, threadVars, stored
<1>12. CASE EraseIdle(r)
  BY <1>12, ConstantFacts, FileFacts DEF TypeOK, EraseIdle, At, Goto, Ends, envVars,
     storeVars, configVars, threadVars, EraseFrom
<1>13. CASE Erased(r)
  BY <1>13, ConstantFacts, FileFacts DEF TypeOK, Erased, At, Goto, Ends, envVars,
     storeVars, configVars, threadVars
<1>14. CASE loginSessionByToken(r)
  <2>. DEFINE t == credential(r)
  <2>1. /\ authTokens' = [authTokens EXCEPT ![t] = now] \/ authTokens' = authTokens
        /\ seen' = [seen EXCEPT ![t] = now]
        /\ timeNow' = [timeNow EXCEPT ![r] = 0]
    BY <1>14 DEF loginSessionByToken, LoginWith
  <2>2. /\ authTokens' \in [Tokens -> Start..MaxNow \cup {Absent}]
        /\ seen' \in [Tokens -> 0..MaxNow] /\ timeNow' \in [Threads -> 0..MaxNow]
    <3>1. now \in Start..MaxNow /\ now \in 0..MaxNow /\ 0 \in 0..MaxNow
      BY ConstantFacts DEF TypeOK
    <3>. QED  BY <2>1, <3>1 DEF TypeOK
  <2>3. session' = session \/ \E w \in WellSized : session' = [session EXCEPT ![r] = w]
    BY <1>14 DEF loginSessionByToken, LoginWith
  <2>4. PICK l \in {"authenticate", "decide"} : Goto(r, l)
    BY <1>14 DEF loginSessionByToken, LoginWith, NextChannel
  <2>5. channel' \in [Threads -> Channels]
    BY <1>14 DEF loginSessionByToken, LoginWith, NextChannel, after, Channels, TypeOK
  <2>6. session' \in [Threads -> WellSized \cup {None}]
    BY <2>3 DEF TypeOK
  <2>7. /\ pc' = [pc EXCEPT ![r] = l]
        /\ UNCHANGED <<envVars, lastTimeoutUpdate, configVars, request, data, todo>>
    BY <1>14, <2>4 DEF loginSessionByToken, LoginWith, Goto
  <2>. QED  BY <2>2, <2>5, <2>6, <2>7 DEF TypeOK, Ends, envVars, configVars
<1>15. CASE Decide(r)
  BY <1>15, ConstantFacts, FileFacts DEF TypeOK, Decide, At, Goto, Ends, envVars,
     storeVars, configVars, threadVars
<1>. QED  BY <1>1, <1>2, <1>3, <1>4, <1>5, <1>6, <1>7, <1>8, <1>9,
     <1>10, <1>11, <1>12, <1>13, <1>14, <1>15 DEF Step

LEMMA NextTypes == TypeOK /\ [Next]_vars => TypeOK'
<1>. SUFFICES ASSUME TypeOK, [Next]_vars PROVE TypeOK'
  OBVIOUS
<1>1. CASE Tick
  BY <1>1, ConstantFacts DEF TypeOK, Tick, storeVars, configVars, threadVars
<1>2. CASE \E f \in Files : Write(f)
  BY <1>2, ConstantFacts DEF TypeOK, Write, storeVars, configVars, threadVars
<1>3. CASE \E r \in Threads : Begin(r)
  BY <1>3 DEF TypeOK, Begin, Goto, Ends, envVars, storeVars, configVars
<1>4. CASE \E r \in Threads : Step(r)
  BY <1>4, StepTypes
<1>5. CASE \E r \in Threads : Fault(r)
  BY <1>5 DEF TypeOK, Fault, storeVars, configVars, threadVars
<1>6. CASE UNCHANGED vars
  BY <1>6 DEF TypeOK, vars, envVars, storeVars, configVars, threadVars
<1>. QED  BY <1>1, <1>2, <1>3, <1>4, <1>5, <1>6 DEF Next, Gone

(***************************************************************************)
(* The session of a request.                                               *)
(***************************************************************************)
LEMMA NextOwnSession ==
    ASSUME TypeOK, OwnSession, [Next]_vars
    PROVE  OwnSession'
<1>. DEFINE Own(r) == session[r] # None =>
                        \E c \in Channels : /\ request[r][c] = session[r]
                                            /\ c = "cookie" => request[r].csrf
<1>1. ASSUME NEW r \in Threads
      PROVE  \/ request'[r] = request[r] /\ session'[r] = session[r]
             \/ session'[r] = None
             \/ /\ request'[r] = request[r] /\ session'[r] = request[r][channel[r]]
                /\ channel[r] = "cookie" => request[r].csrf
  <2>1. CASE UNCHANGED <<request, session>>
    BY <2>1
  <2>2. CASE \E q \in Threads : Begin(q)
    BY <2>2 DEF Begin, TypeOK
  <2>3. CASE \E q \in Threads : loginSessionByToken(q)
    <3>1. PICK q \in Threads : loginSessionByToken(q)
      BY <2>3
    <3>2. CASE session' = session
      BY <3>1, <3>2 DEF loginSessionByToken, LoginWith
    <3>3. CASE session' # session
      <4>1. /\ channel[q] = "cookie" => request[q].csrf
            /\ session' = [session EXCEPT ![q] = request[q][channel[q]]]
            /\ request' = request
        BY <3>1, <3>3 DEF loginSessionByToken, LoginWith, credential
      <4>. QED  BY <4>1 DEF TypeOK
    <3>. QED  BY <3>2, <3>3
  <2>4. ASSUME NEW q \in Threads, Step(q), ~loginSessionByToken(q)
        PROVE  UNCHANGED <<request, session>>
    BY <2>4 DEF Step, getConfig, readData, ReadAuthConfig, ReadSession, ReadSystemUuid,
       ReadTimeout, CheckUuid, LeaveReadData, TryChannel, SkipChannel, BasicChannel,
       applySessionTimeouts, EraseIdle, EraseFrom, Erased, Decide, threadVars
  <2>. QED  BY <2>1, <2>2, <2>3, <2>4 DEF Next, Tick, Write, Fault, Gone, threadVars, vars
<1>2. ASSUME NEW r \in Threads
      PROVE  Own(r)'
  <2>1. Own(r)
    BY DEF OwnSession
  <2>2. channel[r] \in Channels
    BY DEF TypeOK
  <2>. QED  BY <1>1, <2>1, <2>2
<1>. QED  BY <1>2 DEF OwnSession

(***************************************************************************)
(* Sweeps.                                                                 *)
(***************************************************************************)
Sweeps ==
    /\ StoreIsClocked
    /\ \A r \in Threads : SweptBefore(r)
    /\ \A t \in Tokens : YoungOrDue(t)

\* A session that was used at the stamp of the last sweep or later is young.
LEMMA UsedNowIsYoung ==
    ASSUME TypeOK, StoreIsClocked
    PROVE  lastTimeoutUpdate - now < Longest
BY ConstantFacts, LongestIsLongest DEF TypeOK, StoreIsClocked

LEMMA InitSweeps == Init => Sweeps
<1>. SUFFICES ASSUME Init PROVE Sweeps
  OBVIOUS
<1>1. StoreIsClocked
  BY ConstantFacts DEF Init, StoreIsClocked, Absent
<1>2. \A r \in Threads : SweptBefore(r)
  BY DEF Init, SweptBefore
<1>3. \A t \in Tokens : t \notin stored
  BY DEF Init, stored
<1>. QED  BY <1>1, <1>2, <1>3 DEF Sweeps, YoungOrDue

\* Steps that touch neither the store nor a sweep.
LEMMA SweepsAlone ==
    ASSUME TypeOK, Sweeps, UNCHANGED <<now, storeVars, seen>>,
           \A q \in Threads :
               /\ pc'[q] \in {"erase", "find"} => pc'[q] = pc[q] /\ timeNow'[q] = timeNow[q]
               /\ pc[q] = "erase" => /\ pc'[q] = "erase" /\ todo'[q] = todo[q]
                                     /\ timeNow'[q] = timeNow[q]
    PROVE  Sweeps'
<1>1. StoreIsClocked'
  BY DEF Sweeps, StoreIsClocked, storeVars
<1>2. \A r \in Threads : SweptBefore(r)'
  BY DEF Sweeps, SweptBefore, storeVars
<1>3. \A t \in Tokens : YoungOrDue(t)'
  BY DEF Sweeps, YoungOrDue, stored, storeVars
<1>. QED  BY <1>1, <1>2, <1>3 DEF Sweeps

LEMMA QuietSteps ==
    ASSUME TypeOK, Sweeps, NEW r \in Threads,
           \/ Begin(r) \/ getConfig(r) \/ readData(r) \/ ReadAuthConfig(r)
           \/ ReadSystemUuid(r) \/ ReadTimeout(r) \/ CheckUuid(r) \/ TryChannel(r)
           \/ SkipChannel(r) \/ BasicChannel(r) \/ Decide(r)
    PROVE  Sweeps'
<1>1. /\ UNCHANGED <<now, storeVars, seen, timeNow>>
      /\ pc[r] # "erase"
      /\ todo' = todo \/ \E x : todo' = [todo EXCEPT ![r] = x]
  BY DEF Begin, Busy, getConfig, readData, ReadAuthConfig, ReadSystemUuid, ReadTimeout,
     CheckUuid, LeaveReadData, TryChannel, SkipChannel, BasicChannel, Decide, At, Ends,
     threadVars, envVars
<1>2. PICK l : pc' = [pc EXCEPT ![r] = l] /\ l \notin {"erase", "find"}
  BY DEF Begin, getConfig, readData, ReadAuthConfig, ReadSystemUuid, ReadTimeout,
     CheckUuid, LeaveReadData, TryChannel, SkipChannel, NextChannel, BasicChannel, Decide, Goto
<1>. QED  BY <1>1, <1>2, SweepsAlone DEF TypeOK

\* An entry of the file is new or keeps its idle time.
LEMMA ReadSessionSweeps ==
    ASSUME TypeOK, Sweeps, NEW r \in Threads, ReadSession(r)
    PROVE  Sweeps'
<1>1. PICK e \in todo[r] :
         /\ todo' = [todo EXCEPT ![r] = @ \ {e}]
         /\ IF fromJson(e)
            THEN /\ authTokens' = [authTokens EXCEPT ![e[1]] = IF @ = Absent THEN now ELSE @]
                 /\ seen' = [seen EXCEPT ![e[1]] = now]
            ELSE UNCHANGED <<authTokens, seen>>
  BY DEF ReadSession
<1>2. /\ pc[r] = "sessions"
      /\ UNCHANGED <<now, lastTimeoutUpdate, pc, timeNow>>
  BY DEF ReadSession, At, envVars
<1>3. ASSUME NEW t \in Tokens
      PROVE  /\ authTokens'[t] = authTokens[t] \/ authTokens'[t] = now
             /\ authTokens'[t] <= seen'[t] /\ seen'[t] <= now
  BY <1>1, ConstantFacts DEF Sweeps, StoreIsClocked, TypeOK, Absent
<1>4. StoreIsClocked'
  BY <1>2, <1>3 DEF Sweeps, StoreIsClocked
<1>5. \A q \in Threads : SweptBefore(q)'
  BY <1>2 DEF Sweeps, SweptBefore
<1>6. ASSUME NEW t \in Tokens, t \in stored'
      PROVE  YoungOrDue(t)'
  <2>1. CASE authTokens'[t] = now
    BY <1>2, <2>1, UsedNowIsYoung DEF Sweeps, YoungOrDue
  <2>2. CASE authTokens'[t] = authTokens[t]
    <3>1. t \in stored
      BY <1>6, <2>2 DEF stored
    <3>2. \A q \in Threads : pc[q] = "erase" => todo'[q] = todo[q]
      BY <1>1, <1>2 DEF TypeOK
    <3>. QED  BY <1>2, <2>2, <3>1, <3>2 DEF Sweeps, YoungOrDue
  <2>. QED  BY <1>3, <2>1, <2>2
<1>7. \A t \in Tokens : YoungOrDue(t)'
  BY <1>6 DEF YoungOrDue
<1>. QED  BY <1>4, <1>5, <1>7 DEF Sweeps

\* A new stamp makes every entry due.
LEMMA ApplySweeps ==
    ASSUME TypeOK, Sweeps, NEW r \in Threads, applySessionTimeouts(r)
    PROVE  Sweeps'
<1>1. /\ pc[r] = "timeouts" /\ timeNow' = [timeNow EXCEPT ![r] = now]
      /\ UNCHANGED <<now, authTokens, seen>>
  BY DEF applySessionTimeouts, At, envVars
<1>2. CASE now - lastTimeoutUpdate > Second
  <2>1. /\ lastTimeoutUpdate' = now /\ todo' = [todo EXCEPT ![r] = stored]
        /\ pc' = [pc EXCEPT ![r] = "erase"]
    BY <1>2 DEF applySessionTimeouts, Goto
  <2>2. StoreIsClocked'
    BY <1>1, <2>1 DEF Sweeps, StoreIsClocked, TypeOK
  <2>3. ASSUME NEW q \in Threads
        PROVE  SweptBefore(q)'
    <3>1. CASE q = r
      BY <1>1, <2>1, <3>1 DEF SweptBefore, TypeOK
    <3>2. CASE q # r
      <4>1. SweptBefore(q) /\ lastTimeoutUpdate <= now /\ timeNow[q] \in Int
        BY DEF Sweeps, StoreIsClocked, TypeOK
      <4>. QED  BY <1>1, <2>1, <3>2, <4>1, ConstantFacts DEF SweptBefore, TypeOK
    <3>. QED  BY <3>1, <3>2
  <2>4. \A t \in Tokens : t \in stored' => /\ pc'[r] = "erase" /\ t \in todo'[r]
                                            /\ timeNow'[r] = lastTimeoutUpdate'
    BY <1>1, <2>1 DEF stored, TypeOK
  <2>. QED  BY <2>2, <2>3, <2>4 DEF Sweeps, YoungOrDue
<1>3. CASE ~(now - lastTimeoutUpdate > Second)
  <2>1. /\ UNCHANGED <<lastTimeoutUpdate, todo>>
        /\ pc' = [pc EXCEPT ![r] = "find"]
    BY <1>3 DEF applySessionTimeouts, Goto
  <2>2. StoreIsClocked'
    BY <1>1, <2>1 DEF Sweeps, StoreIsClocked
  <2>3. ASSUME NEW q \in Threads
        PROVE  SweptBefore(q)'
    <3>1. CASE q = r
      BY <1>1, <1>3, <2>1, <3>1, ConstantFacts DEF SweptBefore, TypeOK
    <3>2. CASE q # r
      BY <1>1, <2>1, <3>2 DEF Sweeps, SweptBefore, TypeOK
    <3>. QED  BY <3>1, <3>2
  <2>4. ASSUME NEW t \in Tokens
        PROVE  YoungOrDue(t)'
    <3>1. \A q \in Threads : pc[q] = "erase" => /\ pc'[q] = "erase" /\ todo'[q] = todo[q]
                                                /\ timeNow'[q] = timeNow[q]
      BY <1>1, <2>1 DEF TypeOK
    <3>. QED  BY <1>1, <2>1, <3>1 DEF Sweeps, YoungOrDue, stored
  <2>. QED  BY <2>2, <2>3, <2>4 DEF Sweeps
<1>. QED  BY <1>2, <1>3

\* An entry that the loop has looked at is gone or young.
LEMMA EraseSweeps ==
    ASSUME TypeOK, Sweeps, NEW r \in Threads, EraseIdle(r)
    PROVE  Sweeps'
<1>1. PICK t \in todo[r] :
         /\ todo' = [todo EXCEPT ![r] = @ \ {t}]
         /\ IF t \in stored /\ timeNow[r] - authTokens[t] >= timeoutInSeconds
            THEN authTokens' = [authTokens EXCEPT ![t] = Absent]
            ELSE UNCHANGED authTokens
  BY DEF EraseIdle, EraseFrom
<1>2. /\ pc[r] = "erase" /\ UNCHANGED <<now, lastTimeoutUpdate, pc, timeNow, seen>>
  BY DEF EraseIdle, EraseFrom, At, envVars
<1>3. StoreIsClocked'
  <2>1. \A u \in Tokens : authTokens'[u] = authTokens[u] \/ authTokens'[u] = Absent
    BY <1>1 DEF TypeOK
  <2>. QED  BY <1>2, <2>1, ConstantFacts DEF Sweeps, StoreIsClocked, TypeOK, Absent
<1>4. \A q \in Threads : SweptBefore(q)'
  BY <1>2 DEF Sweeps, SweptBefore
<1>5. ASSUME NEW u \in Tokens, u \in stored'
      PROVE  YoungOrDue(u)'
  <2>1. u \in stored /\ authTokens'[u] = authTokens[u]
    BY <1>1, <1>5 DEF stored, TypeOK
  <2>2. CASE lastTimeoutUpdate - authTokens[u] < Longest
    BY <1>2, <2>1, <2>2 DEF YoungOrDue
  <2>3. CASE \E q \in Threads : /\ pc[q] = "erase" /\ u \in todo[q]
                                /\ timeNow[q] = lastTimeoutUpdate
    <3>1. PICK q \in Threads : /\ pc[q] = "erase" /\ u \in todo[q]
                               /\ timeNow[q] = lastTimeoutUpdate
      BY <2>3
    <3>2. CASE u = t /\ q = r
      <4>1. ~(timeNow[r] - authTokens[t] >= timeoutInSeconds)
        BY <1>1, <1>5, <2>1, <3>2 DEF stored, TypeOK
      <4>2. /\ authTokens[t] \in Int /\ timeNow[r] \in Int
            /\ timeoutInSeconds \in Nat /\ timeoutInSeconds <= Longest
        BY <3>2, ConstantFacts, LongestIsLongest DEF TypeOK, Absent
      <4>3. lastTimeoutUpdate - authTokens[u] < Longest
        BY <3>1, <3>2, <4>1, <4>2, LongestIsLongest
      <4>. QED  BY <1>2, <2>1, <4>3 DEF YoungOrDue
    <3>3. CASE u # t \/ q # r
      <4>1. u \in todo'[q]
        BY <1>1, <3>1, <3>3 DEF TypeOK
      <4>. QED  BY <1>2, <3>1, <4>1 DEF YoungOrDue
    <3>. QED  BY <3>2, <3>3
  <2>4. YoungOrDue(u)
    BY DEF Sweeps
  <2>. QED  BY <2>1, <2>2, <2>3, <2>4 DEF YoungOrDue
<1>6. \A u \in Tokens : YoungOrDue(u)'
  BY <1>5 DEF YoungOrDue
<1>. QED  BY <1>3, <1>4, <1>6 DEF Sweeps

LEMMA ErasedSweeps ==
    ASSUME TypeOK, Sweeps, NEW r \in Threads, Erased(r)
    PROVE  Sweeps'
<1>1. /\ pc[r] = "erase" /\ todo[r] = {} /\ pc' = [pc EXCEPT ![r] = "find"]
      /\ UNCHANGED <<now, storeVars, timeNow, seen, todo>>
  BY DEF Erased, At, Goto, envVars, threadVars
<1>2. StoreIsClocked'
  BY <1>1 DEF Sweeps, StoreIsClocked, storeVars
<1>3. ASSUME NEW q \in Threads
      PROVE  SweptBefore(q)'
  <2>1. CASE q = r
    <3>1. timeNow[r] <= lastTimeoutUpdate
      BY <1>1 DEF Sweeps, SweptBefore
    <3>2. timeNow[r] - lastTimeoutUpdate <= Second
      BY <3>1, ConstantFacts DEF TypeOK
    <3>. QED  BY <1>1, <2>1, <3>2 DEF SweptBefore, TypeOK, storeVars
  <2>2. CASE q # r
    BY <1>1, <2>2 DEF Sweeps, SweptBefore, TypeOK, storeVars
  <2>. QED  BY <2>1, <2>2
<1>4. ASSUME NEW t \in Tokens
      PROVE  YoungOrDue(t)'
  <2>1. \A q \in Threads : pc[q] = "erase" /\ t \in todo[q] => pc'[q] = "erase"
    BY <1>1 DEF TypeOK
  <2>. QED  BY <1>1, <2>1 DEF Sweeps, YoungOrDue, stored, storeVars
<1>. QED  BY <1>2, <1>3, <1>4 DEF Sweeps

\* A session that is found is used now.
LEMMA LoginSweeps ==
    ASSUME TypeOK, Sweeps, NEW r \in Threads, loginSessionByToken(r)
    PROVE  Sweeps'
<1>. DEFINE c == credential(r)
<1>1. /\ \/ authTokens' = [authTokens EXCEPT ![c] = now] /\ c \in stored
         \/ authTokens' = authTokens
      /\ seen' = [seen EXCEPT ![c] = now]
      /\ timeNow' = [timeNow EXCEPT ![r] = 0]
      /\ UNCHANGED <<now, lastTimeoutUpdate, todo>>
      /\ pc[r] = "find"
  BY DEF loginSessionByToken, LoginWith, At, envVars
<1>2. PICK l \in {"authenticate", "decide"} : pc' = [pc EXCEPT ![r] = l]
  BY DEF loginSessionByToken, LoginWith, NextChannel, Goto
<1>3. StoreIsClocked'
  <2>1. ASSUME NEW t \in Tokens
        PROVE  authTokens'[t] <= seen'[t] /\ seen'[t] <= now
    <3>1. /\ authTokens[t] <= seen[t] /\ seen[t] <= now
          /\ authTokens[t] \in Int /\ seen[t] \in Int /\ now \in Int
      BY ConstantFacts DEF Sweeps, StoreIsClocked, TypeOK, Absent
    <3>2. /\ authTokens'[t] = authTokens[t] \/ (authTokens'[t] = now /\ t = c)
          /\ seen'[t] = IF t = c THEN now ELSE seen[t]
      BY <1>1 DEF TypeOK
    <3>. HIDE DEF c
    <3>. QED  BY <3>1, <3>2
  <2>. QED  BY <1>1, <2>1 DEF Sweeps, StoreIsClocked
<1>4. \A q \in Threads : SweptBefore(q)'
  BY <1>1, <1>2 DEF Sweeps, SweptBefore, TypeOK
<1>5. ASSUME NEW t \in Tokens
      PROVE  YoungOrDue(t)'
  <2>1. CASE authTokens'[t] = now
    BY <1>1, <2>1, UsedNowIsYoung DEF Sweeps, YoungOrDue
  <2>2. CASE authTokens'[t] = authTokens[t]
    <3>1. \A q \in Threads : pc[q] = "erase" => pc'[q] = "erase" /\ timeNow'[q] = timeNow[q]
      BY <1>1, <1>2 DEF TypeOK
    <3>. QED  BY <1>1, <2>2, <3>1 DEF Sweeps, YoungOrDue, stored
  <2>. QED  BY <1>1, <2>1, <2>2 DEF TypeOK
<1>. QED  BY <1>3, <1>4, <1>5 DEF Sweeps

LEMMA NextSweeps ==
    ASSUME TypeOK, Sweeps, [Next]_vars
    PROVE  Sweeps'
<1>1. CASE Tick
  <2>1. StoreIsClocked'
    BY <1>1, ConstantFacts DEF Tick, Sweeps, StoreIsClocked, TypeOK, storeVars
  <2>. QED  BY <1>1, <2>1 DEF Tick, Sweeps, SweptBefore, YoungOrDue, stored, storeVars,
       threadVars
<1>2. CASE \E f \in Files : Write(f)
  BY <1>2, SweepsAlone DEF Write, threadVars
<1>3. CASE \E r \in Threads : Begin(r)
  BY <1>3, QuietSteps
<1>4. CASE \E r \in Threads : Step(r)
  BY <1>4, QuietSteps, ReadSessionSweeps, ApplySweeps, EraseSweeps, ErasedSweeps,
     LoginSweeps DEF Step
<1>5. CASE \E r \in Threads : Fault(r)
  BY <1>5, SweepsAlone DEF Fault, threadVars
<1>6. CASE UNCHANGED vars
  BY <1>6, SweepsAlone DEF vars, envVars, threadVars
<1>. QED  BY <1>1, <1>2, <1>3, <1>4, <1>5, <1>6 DEF Next, Gone

(***************************************************************************)
(* The file.                                                               *)
(***************************************************************************)
LEMMA InitFileInv == Init => FileInv
BY DEF Init, FileInv, InFile, PassedAreStored

\* Without a UUID only these steps are possible, and none of them shrinks the
\* store.
LEMMA StoreOnlyGrows ==
    ASSUME TypeOK, FileInv, ~systemUuid, NEW r \in Threads, Begin(r) \/ Step(r)
    PROVE  /\ \/ Begin(r) \/ getConfig(r) \/ readData(r) \/ ReadAuthConfig(r)
              \/ ReadSession(r) \/ ReadSystemUuid(r) \/ ReadTimeout(r) \/ CheckUuid(r)
           /\ \A t \in stored : t \in stored'
<1>1. pc[r] \in InFile
  BY DEF FileInv
<1>2. \/ Begin(r) \/ getConfig(r) \/ readData(r) \/ ReadAuthConfig(r)
      \/ ReadSession(r) \/ ReadSystemUuid(r) \/ ReadTimeout(r) \/ CheckUuid(r)
  BY <1>1 DEF InFile, Step, TryChannel, SkipChannel, BasicChannel, applySessionTimeouts,
     EraseIdle, EraseFrom, Erased, loginSessionByToken, LoginWith, Decide, At
<1>3. CASE ReadSession(r)
  <2>1. now # Absent
    BY ConstantFacts DEF TypeOK, Absent
  <2>2. authTokens' = authTokens \/
          \E e \in todo[r] : authTokens' = [authTokens EXCEPT ![e[1]] =
                                             IF @ = Absent THEN now ELSE @]
    BY <1>3 DEF ReadSession
  <2>3. \A t \in Tokens : authTokens[t] # Absent => authTokens'[t] # Absent
    BY <2>1, <2>2 DEF TypeOK
  <2>. QED  BY <1>2, <2>3 DEF stored
<1>4. CASE ~ReadSession(r)
  <2>1. authTokens' = authTokens
    BY <1>2, <1>4 DEF Begin, getConfig, readData, ReadAuthConfig, ReadSystemUuid,
       ReadTimeout, CheckUuid, LeaveReadData, storeVars
  <2>. QED  BY <1>2, <2>1 DEF stored
<1>. QED  BY <1>3, <1>4

LEMMA NextFileInv ==
    ASSUME NoEmptyUuid, TypeOK, FileInv, [Next]_vars
    PROVE  FileInv'
<1>. SUFFICES ASSUME ~systemUuid', NEW p \in Threads
              PROVE  pc'[p] \in InFile /\ PassedAreStored(p)'
  BY DEF FileInv
<1>1. ~systemUuid
  <2>1. \A r \in Threads : data[r] \in Files
    BY DEF TypeOK
  <2>2. \A r \in Threads : ReadSystemUuid(r) =>
          systemUuid' = systemUuid \/ systemUuid' \in BOOLEAN \ {FALSE}
    BY <2>1, FileFacts DEF NoEmptyUuid, ReadSystemUuid
  <2>3. \A r \in Threads : Step(r) /\ ~ReadSystemUuid(r) => systemUuid' = systemUuid
    BY DEF Step, getConfig, readData, ReadAuthConfig, ReadSession, ReadTimeout, CheckUuid,
       LeaveReadData, TryChannel, SkipChannel, BasicChannel, applySessionTimeouts, EraseIdle,
       EraseFrom, Erased, loginSessionByToken, LoginWith, Decide, configVars
  <2>4. systemUuid' = systemUuid \/ systemUuid' = TRUE
    BY <2>2, <2>3 DEF Next, Tick, Write, Begin, Fault, Gone, configVars, vars
  <2>. QED  BY <2>4
<1>2. pc[p] \in InFile /\ PassedAreStored(p)
  BY <1>1 DEF FileInv
<1>3. CASE UNCHANGED <<pc, todo, data, authTokens, timeoutInSeconds>>
  BY <1>2, <1>3 DEF PassedAreStored, stored
<1>4. ASSUME NEW r \in Threads, Begin(r) \/ Step(r)
      PROVE  pc'[p] \in InFile /\ PassedAreStored(p)'
  <2>1. \/ Begin(r) \/ getConfig(r) \/ readData(r) \/ ReadAuthConfig(r)
        \/ ReadSession(r) \/ ReadSystemUuid(r) \/ ReadTimeout(r) \/ CheckUuid(r)
    BY <1>1, <1>4, StoreOnlyGrows
  <2>2. \A t \in stored : t \in stored'
    BY <1>1, <1>4, StoreOnlyGrows
  <2>3. timeoutInSeconds' = timeoutInSeconds \/ timeoutInSeconds' \in Timeouts
    BY <2>1, FileFacts DEF TypeOK, Begin, getConfig, readData, ReadAuthConfig, ReadSession,
       ReadSystemUuid, ReadTimeout, CheckUuid, LeaveReadData, configVars
  <2>4. CASE p # r
    <3>1. pc'[p] = pc[p] /\ todo'[p] = todo[p] /\ data'[p] = data[p]
      BY <2>1, <2>4 DEF TypeOK, Begin, getConfig, readData, ReadAuthConfig, ReadSession,
         ReadSystemUuid, ReadTimeout, CheckUuid, LeaveReadData, Goto, threadVars
    <3>. QED  BY <1>2, <2>2, <2>3, <3>1 DEF PassedAreStored
  <2>5. CASE p = r
    <3>1. CASE Begin(r) \/ getConfig(r)
      BY <2>5, <3>1 DEF TypeOK, Begin, getConfig, Goto, InFile, PassedAreStored
    <3>2. CASE readData(r)
      BY <2>5, <3>2 DEF TypeOK, readData, Goto, InFile, PassedAreStored
    <3>3. CASE ReadAuthConfig(r)
      BY <2>5, <3>3 DEF TypeOK, ReadAuthConfig, Goto, InFile, PassedAreStored
    <3>4. CASE ReadSession(r)
      <4>1. PICK e \in todo[r] :
              /\ todo' = [todo EXCEPT ![r] = @ \ {e}]
              /\ fromJson(e) =>
                   authTokens' = [authTokens EXCEPT ![e[1]] = IF @ = Absent THEN now ELSE @]
        BY <3>4 DEF ReadSession
      <4>2. /\ pc[r] = "sessions" /\ UNCHANGED <<pc, data>>
            /\ todo'[r] = todo[r] \ {e} /\ now # Absent
        BY <3>4, <4>1, ConstantFacts DEF TypeOK, ReadSession, At, Absent
      <4>3. \A t \in Tokens : e = <<t, TRUE>> => t \in stored'
        BY <4>1, <4>2 DEF TypeOK, fromJson, stored
      <4>4. /\ todo[r] \subseteq data[r].sessions
            /\ data[r].readable =>
                 \A t \in Tokens : <<t, TRUE>> \in data[r].sessions =>
                     t \in stored \/ <<t, TRUE>> \in todo[r]
        BY <1>2, <2>5, <4>2 DEF PassedAreStored
      <4>5. data[r].readable =>
              \A t \in Tokens : <<t, TRUE>> \in data[r].sessions =>
                  t \in stored' \/ <<t, TRUE>> \in todo'[r]
        BY <2>2, <4>2, <4>3, <4>4
      <4>. QED  BY <2>5, <4>2, <4>4, <4>5 DEF InFile, PassedAreStored
    <3>5. CASE ReadSystemUuid(r)
      BY <1>2, <2>5, <3>5 DEF TypeOK, ReadSystemUuid, At, Goto, InFile, PassedAreStored,
         stored, storeVars, threadVars
    <3>6. CASE ReadTimeout(r)
      BY <1>2, <2>5, <3>6, FileFacts DEF TypeOK, ReadTimeout, At, Goto, InFile,
         PassedAreStored, stored, storeVars, threadVars
    <3>7. CASE CheckUuid(r)
      BY <1>1, <2>5, <3>7 DEF TypeOK, CheckUuid, LeaveReadData, Goto, InFile, PassedAreStored
    <3>. QED  BY <2>1, <3>1, <3>2, <3>3, <3>4, <3>5, <3>6, <3>7
  <2>. QED  BY <2>4, <2>5
<1>. QED  BY <1>3, <1>4 DEF Next, Tick, Write, Fault, Gone, storeVars, configVars,
     threadVars, vars
-----------------------------------------------------------------------------
\* The inductive invariant holds in every reachable state.
THEOREM Invariance == Spec => []IInv
<1>1. Init => IInv
  BY InitTypes, InitSweeps DEF IInv, Sweeps, Init, OwnSession
<1>2. IInv /\ [Next]_vars => IInv'
  BY NextTypes, NextOwnSession, NextSweeps DEF IInv, Sweeps
<1>. QED  BY <1>1, <1>2, PTL DEF Spec

\* Every variable keeps its type; a session a request holds is of a token of the
\* right length (loginSessionByToken).
THEOREM TypeCorrect == Spec => []TypeOK
<1>1. IInv => TypeOK
  BY DEF IInv
<1>. QED  BY <1>1, Invariance, PTL

\* A request gets the session of a token it carries, and of its cookie only with
\* the CSRF token, whatever the other requests do to the store meanwhile.
THEOREM SessionIsOwn == Spec => []OwnSession
<1>1. IInv => OwnSession
  BY DEF IInv
<1>. QED  BY <1>1, Invariance, PTL

\* A session that bmcweb has dropped opens nothing once neither the file nor a
\* request has named it for the longest timeout and a second, but to a request
\* that looks for it before the sweep of another has come to it.
THEOREM RevokedSessionsFadeOut == Spec => RevokedFadesOut
<1>. DEFINE Fades ==
       \A r \in Threads : session[r] = None /\ session'[r] # None =>
         \/ timeNow[r] - seen[session'[r]] < Longest + Second
         \/ \E q \in Threads \ {r} : pc[q] = "erase" /\ session'[r] \in todo[q]
<1>1. IInv /\ [Next]_vars => [Fades]_vars
  <2>. SUFFICES ASSUME IInv, [Next]_vars, NEW r \in Threads,
                       session[r] = None, session'[r] # None
                PROVE  \/ timeNow[r] - seen[session'[r]] < Longest + Second
                       \/ \E q \in Threads \ {r} : pc[q] = "erase" /\ session'[r] \in todo[q]
    OBVIOUS
  <2>. DEFINE t == session'[r]
  <2>1. loginSessionByToken(r)
    <3>1. PICK q \in Threads : loginSessionByToken(q)
      BY DEF IInv, TypeOK, Next, Tick, Write, Begin, Step, getConfig, readData,
         ReadAuthConfig, ReadSession, ReadSystemUuid, ReadTimeout, CheckUuid, LeaveReadData,
         TryChannel, SkipChannel, BasicChannel, applySessionTimeouts, EraseIdle, EraseFrom,
         Erased, Decide, Fault, Gone, threadVars, vars
    <3>2. q = r
      BY <3>1 DEF IInv, TypeOK, loginSessionByToken, LoginWith
    <3>. QED  BY <3>1, <3>2
  <2>2. t \in stored /\ pc[r] = "find"
    BY <2>1 DEF IInv, TypeOK, loginSessionByToken, LoginWith, At
  <2>3. t \in Tokens /\ YoungOrDue(t) /\ SweptBefore(r) /\ authTokens[t] <= seen[t]
    BY <2>2 DEF IInv, StoreIsClocked, stored
  <2>4. CASE lastTimeoutUpdate - authTokens[t] < Longest
    <3>1. timeNow[r] - lastTimeoutUpdate <= Second
      BY <2>2, <2>3 DEF SweptBefore
    <3>2. /\ timeNow[r] \in Int /\ lastTimeoutUpdate \in Int
          /\ authTokens[t] \in Int /\ seen[t] \in Int
      BY <2>3, ConstantFacts DEF IInv, TypeOK, Absent
    <3>. QED  BY <2>3, <2>4, <3>1, <3>2, ConstantFacts, LongestIsLongest
  <2>5. CASE \E q \in Threads : pc[q] = "erase" /\ t \in todo[q]
    BY <2>2, <2>5
  <2>. QED  BY <2>2, <2>3, <2>4, <2>5 DEF YoungOrDue
<1>. QED  BY <1>1, Invariance, PTL DEF Spec, RevokedFadesOut

\* Provided bmcweb never writes an empty UUID, a request that fails for want of
\* one has brought every session and the timeout of its file into the store.
THEOREM FailuresReadTheFile ==
    ASSUME NoEmptyUuid
    PROVE  Spec => FailureReadsAll
<1>. DEFINE ReadsAll ==
       \A r \in Threads :
         /\ pc[r] \in {"auth_config", "sessions", "timeout", "check"}
         /\ pc'[r] = "thrown"
         /\ data[r].readable
         => /\ \A t \in Tokens : <<t, TRUE>> \in data[r].sessions => authTokens'[t] # Absent
            /\ data[r].timeout # None => timeoutInSeconds' \in Timeouts
<1>1. Spec => []FileInv
  <2>1. TypeOK /\ FileInv /\ [Next]_vars => FileInv'
    BY NextFileInv
  <2>. QED  BY <2>1, InitFileInv, TypeCorrect, PTL DEF Spec
<1>2. TypeOK /\ FileInv /\ [Next]_vars => [ReadsAll]_vars
  <2>. SUFFICES ASSUME TypeOK, FileInv, [Next]_vars, NEW r \in Threads,
                       pc[r] \in {"auth_config", "sessions", "timeout", "check"},
                       pc'[r] = "thrown", data[r].readable
                PROVE  /\ \A t \in Tokens :
                             <<t, TRUE>> \in data[r].sessions => authTokens'[t] # Absent
                       /\ data[r].timeout # None => timeoutInSeconds' \in Timeouts
    OBVIOUS
  <2>1. CheckUuid(r)
    <3>1. PICK q \in Threads : Begin(q) \/ Step(q)
      BY DEF Next, Tick, Write, Fault, Gone, vars
    <3>2. q = r
      BY <3>1 DEF TypeOK, Step, Begin, getConfig, readData, ReadAuthConfig, ReadSession,
         ReadSystemUuid, ReadTimeout, CheckUuid, LeaveReadData, TryChannel, SkipChannel,
         NextChannel, BasicChannel, applySessionTimeouts, EraseIdle, EraseFrom, Erased,
         loginSessionByToken, LoginWith, Decide, Goto
    <3>. QED  BY <3>1, <3>2 DEF TypeOK, Step, Begin, getConfig, readData, ReadAuthConfig,
         ReadSession, ReadSystemUuid, ReadTimeout, TryChannel, SkipChannel, BasicChannel,
         applySessionTimeouts, EraseIdle, EraseFrom, Erased, loginSessionByToken, LoginWith,
         Decide, Goto, At
  <2>2. ~systemUuid /\ pc[r] = "check" /\ UNCHANGED <<authTokens, timeoutInSeconds>>
    BY <2>1 DEF TypeOK, CheckUuid, LeaveReadData, Goto, At, storeVars
  <2>. QED  BY <2>2 DEF FileInv, PassedAreStored, stored
<1>. QED  BY <1>1, <1>2, TypeCorrect, PTL DEF Spec, FailureReadsAll
=============================================================================
