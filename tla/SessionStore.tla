---------------------------- MODULE SessionStore ----------------------------
(***************************************************************************)
(* The sessions of the web application.  They belong to bmcweb, which      *)
(* keeps them in a file; Router::process reads that file for every request *)
(* and then looks for a session under each of the credentials the request  *)
(* carries (authenticate).  The store only ever gains entries from the     *)
(* file; it loses them by idle time, which it looks at once a second at    *)
(* most.  Every request does this in its own thread and without a lock.    *)
(* Each access to the store is one step here; of what the missing lock may *)
(* do, a fault in the map is modelled, a torn value is not.                *)
(***************************************************************************)
EXTENDS Integers, FiniteSets, FiniteSetsExt

CONSTANTS
    Threads,         \* FastCGI threads
    Tokens,          \* session tokens, in the file or in a request
    WellSized,       \* those of sessionTokenSize characters
    Files,           \* contents bmcweb may leave in the file
    InitFile,        \* the content at start
    Requests,        \* what a request may carry
    None,            \* no token, no value
    Second,          \* clock ticks in a second
    DefaultTimeout,  \* SessionStore's timeout before a file says otherwise
    Start,           \* the steady clock when the process starts
    MaxNow,          \* bound: the clock
    MaxWrites        \* bound: how often bmcweb writes the file

Channels == {"xtoken", "cookie", "authorization"}
Methods == {"xtoken", "cookie", "token", "basic"}
Timeouts == {f.timeout : f \in Files} \ {None}   \* in ticks

File == [readable : BOOLEAN,           \* it opens and it parses
         on : SUBSET Methods, off : SUBSET Methods,  \* auth_config
         sessions : SUBSET (Tokens \X BOOLEAN),  \* FALSE: a field is missing
         uuid : BOOLEAN \cup {None},   \* FALSE: the empty string
         timeout : Int]

Request == [xtoken : Tokens \cup {None}, cookie : Tokens \cup {None},
            csrf : BOOLEAN,            \* a GET, or the token of the session
            authorization : Tokens \cup {None, "basic"}]

ASSUME SessionAssumption ==
    /\ WellSized \subseteq Tokens
    /\ None \notin Tokens /\ "basic" \notin Tokens
    /\ InitFile \in Files
    /\ \A f \in Files : [f EXCEPT !.timeout = 0] \in File
    /\ Timeouts \subseteq Nat \ {0}
    /\ Requests \subseteq Request /\ Requests # {}
    /\ Second \in Nat \ {0} /\ DefaultTimeout \in Nat \ {0}
    /\ Start \in Nat /\ MaxNow \in Nat /\ Start <= MaxNow /\ MaxWrites \in Nat

\* There is a longest timeout: std::chrono::seconds has a largest value.
ASSUME LongestAssumption ==
    \E m \in Timeouts \cup {DefaultTimeout} :
        \A t \in Timeouts \cup {DefaultTimeout} : m >= t

VARIABLES
    up,                \* the process lives
    now,               \* std::chrono::steady_clock
    file,              \* bmcweb_metadata/sessions.json
    writes,            \* how often it was written
    configFile,        \* the static of getConfig: None, who builds it, "ready"
    systemUuid,        \* a UUID was captured
    authTokens,        \* lastUpdated of each session in the store, or -1
    lastTimeoutUpdate,
    timeoutInSeconds,  \* in ticks
    authMethodsConfig, \* the methods that are enabled
    pc,                \* where each thread is
    request,           \* what its request carries
    data,              \* the file as the thread parsed it
    todo,              \* entries its loop over sessions has not reached
    channel,           \* where authenticate is
    timeNow,           \* applySessionTimeouts' local
    session,           \* the session of the request
    seen               \* history: when each token was last read or presented

storeVars == <<authTokens, lastTimeoutUpdate>>
configVars == <<configFile, systemUuid, timeoutInSeconds, authMethodsConfig>>
envVars == <<up, now, file, writes>>
threadVars == <<request, data, todo, channel, timeNow, session>>
vars == <<envVars, storeVars, configVars, pc, threadVars, seen>>

Absent == -1

Init ==
    /\ up = TRUE
    /\ now = Start
    /\ file = InitFile
    /\ writes = 0
    /\ configFile = None
    /\ systemUuid = FALSE
    /\ authTokens = [t \in Tokens |-> Absent]
    /\ lastTimeoutUpdate = 0
    /\ timeoutInSeconds = DefaultTimeout
    /\ authMethodsConfig = Methods
    /\ pc = [r \in Threads |-> "idle"]
    /\ request = [r \in Threads |-> CHOOSE q \in Requests : TRUE]
    /\ data = [r \in Threads |-> InitFile]
    /\ todo = [r \in Threads |-> {}]
    /\ channel = [r \in Threads |-> "xtoken"]
    /\ timeNow = [r \in Threads |-> 0]
    /\ session = [r \in Threads |-> None]
    /\ seen = [t \in Tokens |-> 0]
-----------------------------------------------------------------------------
At(r, l) == up /\ pc[r] = l
Goto(r, l) == pc' = [pc EXCEPT ![r] = l]
Ends == {"accepted", "refused", "thrown"}
Busy(r) == pc[r] \notin {"idle"} \cup Ends
stored == {t \in Tokens : authTokens[t] # Absent}

\* The clock, and bmcweb's side of the file.
Tick ==
    /\ up /\ now < MaxNow
    /\ now' = now + 1
    /\ UNCHANGED <<up, file, writes, storeVars, configVars, pc, threadVars, seen>>

Write(f) ==
    /\ up /\ writes < MaxWrites
    /\ f # file
    /\ file' = f
    /\ writes' = writes + 1
    /\ UNCHANGED <<up, now, storeVars, configVars, pc, threadVars, seen>>
-----------------------------------------------------------------------------
(***************************************************************************)
(* Router::process: getConfig().readData().                                *)
(***************************************************************************)
Begin(r) ==
    /\ up /\ ~Busy(r)
    /\ \E q \in Requests : request' = [request EXCEPT ![r] = q]
    /\ session' = [session EXCEPT ![r] = None]
    /\ Goto(r, "config")
    /\ UNCHANGED <<envVars, storeVars, configVars, data, todo, channel, timeNow,
                   seen>>

\* The first thread builds the static ConfigFile, whose constructor reads the
\* file itself; threads that come meanwhile wait for it.
getConfig(r) ==
    /\ At(r, "config")
    /\ configFile \in {None, "ready"}
    /\ configFile' = IF configFile = None THEN r ELSE "ready"
    /\ Goto(r, "open")
    /\ UNCHANGED <<envVars, storeVars, systemUuid, timeoutInSeconds, authMethodsConfig,
                   threadVars, seen>>

\* Opens and parses.  The members then come in the order of their keys.
readData(r) ==
    /\ At(r, "open")
    /\ data' = [data EXCEPT ![r] = file]
    /\ Goto(r, IF file.readable THEN "auth_config" ELSE "check")
    /\ UNCHANGED <<envVars, storeVars, configVars, request, todo, channel, timeNow,
                   session, seen>>

\* Mutant: a missing UUID is reported before the sessions are read.
ReadAuthConfigThrows(r) ==
    /\ At(r, "auth_config")
    /\ authMethodsConfig' = (authMethodsConfig \cup data[r].on) \ data[r].off
    /\ todo' = [todo EXCEPT ![r] = data[r].sessions]
    /\ Goto(r, IF data[r].uuid = None THEN "thrown" ELSE "sessions")
    /\ UNCHANGED <<envVars, storeVars, configFile, systemUuid, timeoutInSeconds, request,
                   data, channel, timeNow, session, seen>>

\* AuthConfigMethods::fromJson: a method the file does not name stays.
ReadAuthConfig(r) ==
    /\ At(r, "auth_config")
    /\ authMethodsConfig' = (authMethodsConfig \cup data[r].on) \ data[r].off
    /\ todo' = [todo EXCEPT ![r] = data[r].sessions]
    /\ Goto(r, "sessions")
    /\ UNCHANGED <<envVars, storeVars, configFile, systemUuid, timeoutInSeconds, request,
                   data, channel, timeNow, session, seen>>

\* UserSession::fromJson refuses an entry that lacks a field.
fromJson(entry) == entry[2]

\* emplace keeps the entry that is there already, with its idle time.
ReadSession(r) ==
    /\ At(r, "sessions")
    /\ \E e \in todo[r] :
         /\ todo' = [todo EXCEPT ![r] = @ \ {e}]
         /\ IF fromJson(e)
            THEN /\ authTokens' = [authTokens EXCEPT ![e[1]] = IF @ = Absent THEN now ELSE @]
                 /\ seen' = [seen EXCEPT ![e[1]] = now]
            ELSE UNCHANGED <<authTokens, seen>>
    /\ UNCHANGED <<envVars, lastTimeoutUpdate, configVars, pc, request, data, channel,
                   timeNow, session>>

\* A UUID that was read stays when a later file has none.
ReadSystemUuid(r) ==
    /\ At(r, "sessions")
    /\ todo[r] = {}
    /\ systemUuid' = IF data[r].uuid = None THEN systemUuid ELSE data[r].uuid
    /\ Goto(r, "timeout")
    /\ UNCHANGED <<envVars, storeVars, configFile, timeoutInSeconds, authMethodsConfig,
                   threadVars, seen>>

\* updateSessionTimeout.
ReadTimeout(r) ==
    /\ At(r, "timeout")
    /\ timeoutInSeconds' = IF data[r].timeout = None THEN timeoutInSeconds
                           ELSE data[r].timeout
    /\ Goto(r, "check")
    /\ UNCHANGED <<envVars, storeVars, configFile, systemUuid, authMethodsConfig,
                   threadVars, seen>>

\* The end of readData, with what comes next without a UUID.
LeaveReadData(r, failed) ==
    /\ At(r, "check")
    /\ configFile' = IF configFile # r THEN configFile
                     ELSE IF systemUuid THEN "ready" ELSE IF failed = "thrown" THEN None ELSE r
    /\ Goto(r, IF ~systemUuid THEN failed
               ELSE IF configFile = r THEN "open" ELSE "authenticate")
    /\ channel' = [channel EXCEPT ![r] = "xtoken"]
    /\ data' = [data EXCEPT ![r] = InitFile]
    /\ UNCHANGED <<envVars, storeVars, systemUuid, timeoutInSeconds, authMethodsConfig,
                   request, todo, timeNow, session, seen>>

\* Mutant: reads until there is a UUID.
CheckRetries(r) == LeaveReadData(r, "open")

\* A throw out of the constructor leaves the static unbuilt, for the next
\* request to try; otherwise the first request goes on to the readData of
\* Router::process.
CheckUuid(r) == LeaveReadData(r, "thrown")
-----------------------------------------------------------------------------
(***************************************************************************)
(* authenticate: X-Auth-Token, the SESSION cookie, Authorization.  A later *)
(* channel is tried only while the request has no session.                 *)
(***************************************************************************)
credential(r) == request[r][channel[r]]
method(c) == IF c = "authorization" THEN "token" ELSE c
after(c) == IF c = "xtoken" THEN "cookie" ELSE "authorization"

\* This channel gave no session: the next one, or the decision.
NextChannel(r) ==
    IF channel[r] = "authorization"
    THEN Goto(r, "decide") /\ UNCHANGED channel
    ELSE Goto(r, "authenticate") /\ channel' = [channel EXCEPT ![r] = after(@)]

\* performXtokenAuth, performCookieAuth and performTokenAuth have a token to
\* look for: loginSessionByToken, and first applySessionTimeouts.
TryChannel(r) ==
    /\ At(r, "authenticate")
    /\ credential(r) \in Tokens
    /\ method(channel[r]) \in authMethodsConfig
    /\ Goto(r, "timeouts")
    /\ UNCHANGED <<envVars, storeVars, configVars, threadVars, seen>>

\* The channel is disabled or not used by this request.
SkipChannel(r) ==
    /\ At(r, "authenticate")
    /\ credential(r) \notin Tokens \/ method(channel[r]) \notin authMethodsConfig
    /\ ~(credential(r) = "basic" /\ "basic" \in authMethodsConfig)
    /\ NextChannel(r)
    /\ UNCHANGED <<envVars, storeVars, configVars, request, data, todo, timeNow, session,
                   seen>>

\* NotImplemented.
BasicChannel(r) ==
    /\ At(r, "authenticate")
    /\ credential(r) = "basic" /\ "basic" \in authMethodsConfig
    /\ Goto(r, "thrown")
    /\ UNCHANGED <<envVars, storeVars, configVars, threadVars, seen>>

\* A sweep, unless there was one in the last second.  Reading the clock, comparing
\* and stamping are one step here: a delay between them makes the stamp and the time
\* the sweep goes by older, and two threads that compare before either stamps both
\* sweep.
applySessionTimeouts(r) ==
    /\ At(r, "timeouts")
    /\ timeNow' = [timeNow EXCEPT ![r] = now]
    /\ IF now - lastTimeoutUpdate > Second
       THEN /\ lastTimeoutUpdate' = now
            /\ todo' = [todo EXCEPT ![r] = stored]
            /\ Goto(r, "erase")
       ELSE UNCHANGED <<lastTimeoutUpdate, todo>> /\ Goto(r, "find")
    /\ UNCHANGED <<envVars, authTokens, configVars, request, data, channel, session, seen>>

EraseFrom(r, idle) ==
    /\ At(r, "erase")
    /\ \E t \in todo[r] :
         /\ todo' = [todo EXCEPT ![r] = @ \ {t}]
         /\ IF t \in stored /\ timeNow[r] - authTokens[t] >= idle
            THEN authTokens' = [authTokens EXCEPT ![t] = Absent]
            ELSE UNCHANGED authTokens
    /\ UNCHANGED <<envVars, lastTimeoutUpdate, configVars, pc, request, data, channel,
                   timeNow, session, seen>>

\* Mutant: a session that is exactly at its timeout stays.
EraseIdleLate(r) == EraseFrom(r, timeoutInSeconds + 1)

\* The loop over authTokens, one entry at a time.
EraseIdle(r) == EraseFrom(r, timeoutInSeconds)

Erased(r) ==
    /\ At(r, "erase")
    /\ todo[r] = {}
    /\ Goto(r, "find")
    /\ UNCHANGED <<envVars, storeVars, configVars, threadVars, seen>>

LoginWith(r, tokens, csrf) ==
    /\ At(r, "find")
    /\ LET t == credential(r)
           found == t \in tokens \cap stored
       IN  /\ authTokens' = IF found THEN [authTokens EXCEPT ![t] = now] ELSE authTokens
           /\ seen' = [seen EXCEPT ![t] = now]
           /\ IF found /\ (channel[r] = "cookie" => csrf)
              THEN session' = [session EXCEPT ![r] = t] /\ Goto(r, "decide") /\ UNCHANGED channel
              ELSE UNCHANGED session /\ NextChannel(r)
    /\ timeNow' = [timeNow EXCEPT ![r] = 0]
    /\ UNCHANGED <<envVars, lastTimeoutUpdate, configVars, request, data, todo>>

\* Mutant: the cookie alone gives the session.
LoginUnchecked(r) == LoginWith(r, WellSized, TRUE)

\* Mutant: a token of any length may be found.
LoginAnySize(r) == LoginWith(r, Tokens, request[r].csrf)

\* The rest of loginSessionByToken; for a cookie the CSRF token of a request
\* that is no GET comes after that, when the idle time is already reset.
loginSessionByToken(r) == LoginWith(r, WellSized, request[r].csrf)

\* UserSession::isPermitted: /run/bmc-booting, which may be there or not.
isPermitted(booting) == ~booting

Decide(r) ==
    /\ At(r, "decide")
    /\ IF session[r] = None THEN Goto(r, "refused")
       ELSE \E booting \in BOOLEAN :
              Goto(r, IF isPermitted(booting) THEN "accepted" ELSE "thrown")
    /\ UNCHANGED <<envVars, storeVars, configVars, threadVars, seen>>

\* An insertion or an erasure while another thread uses the map.
Fault(r) ==
    /\ up /\ pc[r] \in {"sessions", "erase"} /\ todo[r] # {}
    /\ \E q \in Threads \ {r} : pc[q] \in {"sessions", "erase", "find"}
    /\ up' = FALSE
    /\ UNCHANGED <<now, file, writes, storeVars, configVars, pc, threadVars, seen>>

Gone == ~up /\ UNCHANGED vars

Step(r) ==
    \/ getConfig(r) \/ readData(r) \/ ReadAuthConfig(r) \/ ReadSession(r)
    \/ ReadSystemUuid(r) \/ ReadTimeout(r) \/ CheckUuid(r)
    \/ TryChannel(r) \/ SkipChannel(r) \/ BasicChannel(r)
    \/ applySessionTimeouts(r) \/ EraseIdle(r) \/ Erased(r)
    \/ loginSessionByToken(r) \/ Decide(r)

Next ==
    \/ Tick
    \/ \E f \in Files : Write(f)
    \/ \E r \in Threads : Begin(r) \/ Step(r) \/ Fault(r)
    \/ Gone

Spec == Init /\ [][Next]_vars

\* A thread that runs goes on until its request is over; the threads that
\* wait for the static are all woken when its guard is released, and none is
\* overtaken for ever.
FairSpec == Spec /\ \A r \in Threads : WF_vars(Step(r)) /\ SF_vars(getConfig(r))
-----------------------------------------------------------------------------
(* Properties. *)

\* The type of every variable.
TypeOK ==
    /\ up \in BOOLEAN
    /\ now \in Start..MaxNow
    /\ file \in Files /\ writes \in 0..MaxWrites
    /\ configFile \in Threads \cup {None, "ready"}
    /\ systemUuid \in BOOLEAN
    /\ authTokens \in [Tokens -> Start..MaxNow \cup {Absent}]
    /\ lastTimeoutUpdate \in 0..MaxNow
    /\ timeoutInSeconds \in Timeouts \cup {DefaultTimeout}
    /\ authMethodsConfig \subseteq Methods
    /\ pc \in [Threads -> {"idle", "config", "open", "auth_config", "sessions", "timeout",
                           "check", "authenticate", "timeouts", "erase", "find",
                           "decide"} \cup Ends]
    /\ request \in [Threads -> Requests]
    /\ data \in [Threads -> Files]
    /\ todo \in [Threads -> SUBSET (Tokens \cup Tokens \X BOOLEAN)]
    /\ channel \in [Threads -> Channels]
    /\ timeNow \in [Threads -> 0..MaxNow]
    /\ session \in [Threads -> WellSized \cup {None}]
    /\ seen \in [Tokens -> 0..MaxNow]

Longest == Max(Timeouts \cup {DefaultTimeout})

\* A session that bmcweb has dropped fades out: it opens nothing once neither
\* the file nor a request has named it for the longest timeout and the second
\* between two sweeps (applySessionTimeouts, loginSessionByToken, readData).
\* Only a request that skips its sweep because another has just stamped one,
\* and looks before that other has come to its erasures, may be later.
RevokedFadesOut ==
    [][\A r \in Threads : session[r] = None /\ session'[r] # None =>
         \/ timeNow[r] - seen[session'[r]] < Longest + Second
         \/ \E q \in Threads \ {r} : pc[q] = "erase" /\ session'[r] \in todo[q]]_vars

\* Of a file that is read, all sessions and the timeout reach the store even
\* when the request then fails because no UUID was captured: a failure never
\* leaves the next request with half of a file.  The timeout in force may be
\* that of a file another thread has read since.
FailureReadsAll ==
    [][\A r \in Threads :
         /\ pc[r] \in {"auth_config", "sessions", "timeout", "check"}
         /\ pc'[r] = "thrown"
         /\ data[r].readable
         => /\ \A t \in Tokens : <<t, TRUE>> \in data[r].sessions => authTokens'[t] # Absent
            /\ data[r].timeout # None => timeoutInSeconds' \in Timeouts]_vars

\* A request gets the session of a token it carries, and of its cookie only
\* together with the CSRF token (performCookieAuth), although the rejected
\* cookie leaves its traces in the store and other channels follow.
OwnSession ==
    \A r \in Threads : session[r] # None =>
        \E c \in Channels : /\ request[r][c] = session[r]
                            /\ c = "cookie" => request[r].csrf

\* Every request comes to an end, whichever of them builds the ConfigFile and
\* however often its constructor throws.
RequestEnds == \A r \in Threads : Busy(r) ~> ~Busy(r) \/ ~up
=============================================================================
