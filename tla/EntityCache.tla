---------------------------- MODULE EntityCache ----------------------------
(***************************************************************************)
(* One watched entity while the pool of BrokerPool refreshes it and its    *)
(* D-Bus objects change: FindObjectDBusQuery::process, createInstance and  *)
(* queryProperties, DBusInstance::bindListeners and its callback, and      *)
(* Entity::setInstances.                                                   *)
(*                                                                         *)
(* A refresh reads the objects one call at a time, subscribes to them one  *)
(* call at a time and then replaces the instances of the entity; the bus   *)
(* changes between any two of these steps.  Two generations of instances   *)
(* are alive meanwhile: the one the entity serves and the draft.  At most  *)
(* one refresh is under way (BrokerPool!MutexMatchesProgress).             *)
(*                                                                         *)
(* One property stands for an object.  Its value is a version number: 0 is *)
(* "N/A", and each change on the bus makes the next version.               *)
(***************************************************************************)
EXTENDS Integers, Sequences, FiniteSets

CONSTANTS
    Objects,      \* D-Bus objects that match the query's criteria
    Workers,      \* threads of the pool, each with a signal connection
    NoWorker,     \* nobody
    Periods,      \* whether the entity's broker may have a timeout
    MaxVersion,   \* bound: versions of one object
    MaxFails      \* bound: GetAll calls that fail although the object exists

ASSUME WorkersAssumption == NoWorker \notin Workers
ASSUME BoundsAssumption ==
    MaxVersion \in Nat \ {0} /\ MaxFails \in Nat /\ Periods \subseteq BOOLEAN

VARIABLES
    periodic,   \* the broker has a timeout; it never changes
    present,    \* objects on the bus (external)
    version,    \* version of each object's property on the bus (external)
    instances,  \* Entity::instances, the objects that are keys of the map
    live,       \* per object: the instance the entity serves
    carrier,    \* worker on whose connection live instances listen
    stage,      \* what the refresh under way is doing
    refresher,  \* the worker inside tryProcess, or NoWorker
    found,      \* what GetSubTree returned
    todo,       \* objects of found the present stage has not handled
    draft,      \* per object: the instance being built
    ran,        \* the broker has been stamped
    fails       \* how many GetAll calls have failed so far

busVars == <<present, version>>
cacheVars == <<instances, live, carrier>>
refreshVars == <<stage, refresher, found, todo, draft>>
vars == <<periodic, busVars, cacheVars, refreshVars, ran, fails>>

NA == 0

(***************************************************************************)
(* An instance: how far the refresh has got with it, the value of its      *)
(* member, the signals its connection has queued for it and, as a history, *)
(* whether it missed a change that no later signal has made up for.        *)
(***************************************************************************)
Unread == [state |-> "unread", value |-> NA, pending |-> <<>>, missed |-> FALSE]

Versions == 1..MaxVersion
Instance == [state : {"unread", "read", "bound"}, value : Versions \cup {NA},
             pending : Seq(Versions), missed : BOOLEAN]

Stages == {"idle", "reading", "binding", "inserting"}

Init ==
    /\ periodic \in Periods
    /\ present \in SUBSET Objects
    /\ version = [o \in Objects |-> 1]
    /\ instances = {}
    /\ live = [o \in Objects |-> Unread]
    /\ carrier = NoWorker
    /\ stage = "idle"
    /\ refresher = NoWorker
    /\ found = {}
    /\ todo = {}
    /\ draft = [o \in Objects |-> Unread]
    /\ ran = FALSE
    /\ fails = 0
-----------------------------------------------------------------------------
(***************************************************************************)
(* The refresh, EntityDbusBroker::tryProcess from the query to the stamp.  *)
(***************************************************************************)

\* FindObjectDBusQuery::process asks the mapper for the objects.
GetSubTree(w) ==
    /\ stage = "idle"
    /\ ~ran \/ periodic
    /\ stage' = "reading"
    /\ refresher' = w
    /\ found' = present
    /\ todo' = present
    /\ UNCHANGED <<periodic, busVars, cacheVars, draft, ran, fails>>

\* DBusInstance::queryProperties: the value as it is on the bus now.  A GetAll
\* that fails, as it must for an object that has gone, yields no property.
queryProperties(o) == IF o \in present THEN version[o] ELSE NA

\* DBusInstance::fillMembers: a property that was not received leaves the
\* member as it is.
fillMembers(i, v) == IF v = NA THEN i ELSE [i EXCEPT !.value = v]

\* createInstance for the next object found; its GetAll may also fail for a
\* reason of the bus (a timeout), and is not repeated.
GetAll(o) ==
    /\ stage = "reading"
    /\ o \in todo
    /\ todo' = todo \ {o}
    /\ \/ /\ draft' = [draft EXCEPT
                         ![o] = [fillMembers(@, queryProperties(o)) EXCEPT !.state = "read"]]
          /\ UNCHANGED fails
       \/ /\ o \in present
          /\ fails < MaxFails
          /\ fails' = fails + 1
          /\ draft' = [draft EXCEPT ![o].state = "read", ![o].missed = TRUE]
    /\ UNCHANGED <<periodic, busVars, cacheVars, stage, refresher, found, ran>>

\* Mutant: binds what is on the bus by now instead of what was read.
QueryDoneAnew ==
    /\ stage = "reading"
    /\ todo = {}
    /\ stage' = "binding"
    /\ todo' = present
    /\ UNCHANGED <<periodic, busVars, cacheVars, refresher, found, draft, ran, fails>>

\* process returns; tryProcess goes on with the first instance.
QueryDone ==
    /\ stage = "reading"
    /\ todo = {}
    /\ stage' = "binding"
    /\ todo' = found
    /\ UNCHANGED <<periodic, busVars, cacheVars, refresher, found, draft, ran, fails>>

\* bindListeners: from the reply to AddMatch on, the refresher's connection
\* queues the signals of the object for the new instance.
BindListeners(o) ==
    /\ stage = "binding"
    /\ o \in todo
    /\ todo' = todo \ {o}
    /\ draft' = [draft EXCEPT ![o].state = "bound"]
    /\ UNCHANGED <<periodic, busVars, cacheVars, stage, refresher, found, ran, fails>>

\* What the mutants of ClearInstances share.
Replace(guard, kept, new) ==
    /\ stage = "binding"
    /\ guard
    /\ stage' = "inserting"
    /\ todo' = found
    /\ instances' = kept
    /\ live' = new
    /\ draft' = [o \in Objects |-> Unread]
    /\ carrier' = refresher
    /\ UNCHANGED <<periodic, busVars, refresher, found, ran, fails>>

\* Mutant: publishes while instances are still being bound.
ClearInstancesEarly == Replace(TRUE, {}, draft)

\* Mutant: the old instances stay in the map.
ClearInstancesNot == Replace(todo = {}, instances, draft)

\* Mutant: signals queued since the match was added are thrown away.
ClearInstancesDeaf ==
    Replace(todo = {}, {}, [o \in Objects |-> [draft[o] EXCEPT !.pending = <<>>]])

\* Mutant: the new instance hears what was queued for the old one.
ClearInstancesInherits ==
    Replace(todo = {}, {},
            [o \in Objects |-> [draft[o] EXCEPT !.pending = live[o].pending \o @]])

\* setInstances begins with instances.clear().  The draft becomes what the
\* entity serves; the listeners of the old instances live on with them, out
\* of the entity's reach.
ClearInstances ==
    /\ stage = "binding"
    /\ todo = {}
    /\ stage' = "inserting"
    /\ todo' = found
    /\ instances' = {}
    /\ live' = draft
    /\ draft' = [o \in Objects |-> Unread]
    /\ carrier' = refresher
    /\ UNCHANGED <<periodic, busVars, refresher, found, ran, fails>>

\* setInstances goes on with insert_or_assign.
InsertInstance(o) ==
    /\ stage = "inserting"
    /\ o \in todo
    /\ todo' = todo \ {o}
    /\ instances' = instances \cup {o}
    /\ UNCHANGED <<periodic, busVars, live, carrier, stage, refresher, found, draft, ran, fails>>

\* setExecutionTime, and the worker leaves tryProcess.
Stamp ==
    /\ stage = "inserting"
    /\ todo = {}
    /\ stage' = "idle"
    /\ refresher' = NoWorker
    /\ found' = {}
    /\ ran' = TRUE
    /\ UNCHANGED <<periodic, busVars, cacheVars, todo, draft, fails>>

\* Mutant: a signal is taken off the queue but fills no member that is there.
DispatchOnlyNew(o) ==
    /\ carrier # refresher
    /\ live[o].pending # <<>>
    /\ live' = [live EXCEPT ![o].value = IF @ = NA THEN Head(live[o].pending) ELSE @,
                            ![o].pending = Tail(@)]
    /\ UNCHANGED <<periodic, busVars, instances, carrier, refreshVars, ran, fails>>

\* The callback of bindListeners fills the members from the oldest signal.
callback(i) == [fillMembers(i, Head(i.pending)) EXCEPT !.pending = Tail(i.pending)]

\* process_discard on the connection of the live instances.  A worker inside
\* tryProcess does not get there.
Dispatch(o) ==
    /\ carrier # refresher
    /\ live[o].pending # <<>>
    /\ live' = [live EXCEPT ![o] = callback(@)]
    /\ UNCHANGED <<periodic, busVars, instances, carrier, refreshVars, ran, fails>>
-----------------------------------------------------------------------------
(***************************************************************************)
(* The bus (external).  A signal goes to the instances whose match was     *)
(* there before it; sd-bus hands a match nothing it read before the match. *)
(***************************************************************************)
\* What a change to version v does to one instance of the object: one that
\* listens gets a signal, one that was only read misses the change.
Changed(i, v) ==
    CASE i.state = "bound" -> [i EXCEPT !.pending = Append(@, v), !.missed = FALSE]
      [] i.state = "read" -> [i EXCEPT !.missed = TRUE]
      [] OTHER -> i

\* Objects that come back send InterfacesAdded, which no instance listens to.
Recreated(i) == IF i.state = "unread" THEN i ELSE [i EXCEPT !.missed = TRUE]

\* A property changes and PropertiesChanged is sent.
Change(o) ==
    /\ o \in present
    /\ version[o] < MaxVersion
    /\ version' = [version EXCEPT ![o] = @ + 1]
    /\ live' = [live EXCEPT ![o] = Changed(@, version[o] + 1)]
    /\ draft' = [draft EXCEPT ![o] = Changed(@, version[o] + 1)]
    /\ UNCHANGED <<periodic, present, instances, carrier, stage, refresher, found, todo,
                   ran, fails>>

\* An object appears with values of its own.  The observers registered by
\* registerObjectCreationObserver only write a log line.
Appear(o) ==
    /\ o \notin present
    /\ version[o] < MaxVersion
    /\ present' = present \cup {o}
    /\ version' = [version EXCEPT ![o] = @ + 1]
    /\ live' = [live EXCEPT ![o] = Recreated(@)]
    /\ draft' = [draft EXCEPT ![o] = Recreated(@)]
    /\ UNCHANGED <<periodic, instances, carrier, stage, refresher, found, todo, ran, fails>>

\* An object goes.  registerObjectRemovingObserver, too, only logs.
Disappear(o) ==
    /\ o \in present
    /\ present' = present \ {o}
    /\ UNCHANGED <<periodic, version, cacheVars, refreshVars, ran, fails>>

Begin == \E w \in Workers : GetSubTree(w)

Refresh ==
    \/ \E o \in Objects : GetAll(o) \/ BindListeners(o) \/ InsertInstance(o)
    \/ QueryDone \/ ClearInstances \/ Stamp

Bus == \E o \in Objects : Change(o) \/ Appear(o) \/ Disappear(o)

\* A single shot that has run, with nothing to hear, may rest for ever.
Rest ==
    /\ ran /\ ~periodic
    /\ UNCHANGED vars

Next == Begin \/ Refresh \/ (\E o \in Objects : Dispatch(o)) \/ Bus \/ Rest

Spec == Init /\ [][Next]_vars

(***************************************************************************)
(* The pool begins a refresh that is due and carries it through, and every *)
(* worker comes back to its signals (BrokerPool!DueIsRefreshed and the     *)
(* fairness there).  Nothing makes the bus change.                         *)
(***************************************************************************)
Fairness ==
    /\ WF_vars(Begin)
    /\ WF_vars(Refresh)
    /\ \A o \in Objects : SF_vars(Dispatch(o))

FairSpec == Spec /\ Fairness
-----------------------------------------------------------------------------
\* The type of every variable.
TypeOK ==
    /\ periodic \in Periods
    /\ present \subseteq Objects
    /\ version \in [Objects -> Versions]
    /\ instances \subseteq Objects
    /\ live \in [Objects -> Instance]
    /\ carrier \in Workers \cup {NoWorker}
    /\ stage \in Stages
    /\ refresher \in Workers \cup {NoWorker}
    /\ found \subseteq Objects
    /\ todo \subseteq found
    /\ draft \in [Objects -> Instance]
    /\ ran \in BOOLEAN
    /\ fails \in 0..MaxFails

\* The value an instance will have once its queue is empty.
Latest(i) == IF i.pending = <<>> THEN i.value ELSE i.pending[Len(i.pending)]

\* An instance that the entity serves is stale only by what is still queued
\* for it, unless it missed a change: between its GetAll and its match, in a
\* GetAll that failed, or when the object was created anew.
StaleOnlyIfMissed ==
    \A o \in instances \cap present :
        ~live[o].missed => Latest(live[o]) = version[o]

\* While the entity serves an instance its value never goes back to an older
\* one, whatever signals the queues of earlier generations still hold.
NeverBackwards ==
    [][\A o \in instances \cap instances' : live'[o].value >= live[o].value]_vars

\* What a reader finds in the map is always bound and read, and the map holds
\* nothing but what the last GetSubTree found: a refresh never publishes an
\* instance that no signal reaches.
ServedIsBound == \A o \in instances : live[o].state = "bound"

\* A periodic entity converges: when the bus has come to rest, every refresh
\* leaves exactly the objects that exist, with the values they have.
Converges ==
    <>[](periodic /\ stage = "idle" =>
           instances = present /\ \A o \in present : live[o].value = version[o])

\* A single shot never reads again, so its signals must carry it: in the end
\* every instance shows its object, unless it missed a change.
SettlesUnlessMissed ==
    <>[](\A o \in instances \cap present :
           ~live[o].missed => live[o].value = version[o])
=============================================================================
