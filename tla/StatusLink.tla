----------------------------- MODULE StatusLink -----------------------------
(***************************************************************************)
(* How a request computes the Status of the sensors.  Status is no D-Bus   *)
(* property: Entity::getInstances resets it to its default in the shared   *)
(* instance and Sensors::linkStatus raises it from the associations of the *)
(* Status provider, each time a request asks.  The provider is an entity   *)
(* too: asking it for its instances gives each of them the default Status  *)
(* of its own.  Meanwhile a worker of the pool may replace the             *)
(* associations (captureDBusAssociations).  Nothing of this takes a lock.  *)
(*                                                                         *)
(* One supplement("Status") of graphql_handler.cpp is a request here.  The *)
(* instances themselves stay (their replacement is in EntityCache).        *)
(***************************************************************************)
EXTENDS Integers, Sequences, FiniteSets, FiniteSetsExt

CONSTANTS
    Requests,    \* FastCGI threads that serve requests
    Sensors,     \* instances of the Sensors entity
    Providers,   \* instances of the Status provider
    Updates,     \* values of the Associations property: lists of
                 \* [sensor, status] in the order of the property
    MaxUpdates   \* bound: PropertiesChanged signals

(***************************************************************************)
(* The priorities of Status::getHigherStatus.  An association may name a   *)
(* status that is not in its table.                                        *)
(***************************************************************************)
OK == 0
Warning == 1
Critical == 2
Known == {OK, Warning, Critical}
Unknown == 3

NoField == -1
Idle == <<[sensor |-> "none", status |-> Unknown]>>

Association == [sensor : Sensors, status : Known \cup {Unknown}]

ASSUME UpdatesAssumption ==
    /\ Updates \subseteq Seq(Association)
    /\ MaxUpdates \in Nat
    /\ "none" \notin Sensors

VARIABLES
    up,        \* the process lives
    children,  \* complexInstances of each provider, keyed by end point: the
               \* status of its child for a sensor, OK where it has none
    update,    \* associations each provider's callback has still to insert
    updates,   \* number of signals so far
    field,     \* the Status member of each sensor, NoField before the first
    own,       \* whether each provider's own instance has its Status, always OK
    pc,        \* where each request is
    todo,      \* sensors its loop over the instances has not reached
    sensor,    \* the sensor it is at
    sources,   \* providers whose children it has not copied yet
    source,    \* the provider whose instance it is at
    cands,     \* copied statuses of children that point to the sensor
    current,   \* linkStatus's copy of the sensor's status
    served,    \* the statuses it put into the answer
    shown      \* history: what each child showed during the request

watcherVars == <<children, update, updates>>
requestVars == <<todo, sensor, sources, source, cands, current, served>>
vars == <<up, watcherVars, field, own, pc, requestVars, shown>>

Init ==
    /\ up = TRUE
    /\ children = [p \in Providers |-> [s \in Sensors |-> OK]]
    /\ update = [p \in Providers |-> Idle]
    /\ updates = 0
    /\ field = [s \in Sensors |-> NoField]
    /\ own = [p \in Providers |-> FALSE]
    /\ pc = [r \in Requests |-> "idle"]
    /\ todo = [r \in Requests |-> {}]
    /\ sensor = [r \in Requests |-> "none"]
    /\ sources = [r \in Requests |-> {}]
    /\ source = [r \in Requests |-> "none"]
    /\ cands = [r \in Requests |-> <<>>]
    /\ current = [r \in Requests |-> OK]
    /\ served = [r \in Requests |-> [s \in Sensors |-> NoField]]
    /\ shown = [r \in Requests |-> [p \in Providers |-> [s \in Sensors |-> {}]]]
-----------------------------------------------------------------------------
At(r, l) == up /\ pc[r] = l
Goto(r, l) == pc' = [pc EXCEPT ![r] = l]
Busy(r) == pc[r] \notin {"idle", "replied", "failed"}

\* What a supplement throws, nothing above it catches: the process ends.
Throw(r) == up' = FALSE /\ Goto(r, "failed")

\* History: every request under way sees the provider's children change.
Show(p, kids) ==
    shown' = [r \in Requests |->
                IF Busy(r)
                THEN [shown[r] EXCEPT ![p] = [s \in Sensors |-> @[s] \cup {kids[s]}]]
                ELSE shown[r]]

\* Status::getHigherStatus, for statuses in its table.
getHigherStatus(left, right) == IF left >= right THEN left ELSE right
-----------------------------------------------------------------------------
(***************************************************************************)
(* The pool's side: DBusInstance::captureDBusAssociations, run by the      *)
(* callback of bindListeners.                                              *)
(***************************************************************************)

\* A signal with a new list of associations: complexInstances.clear().
ClearAssociations(p, list) ==
    /\ up /\ update[p] = Idle
    /\ updates < MaxUpdates
    /\ updates' = updates + 1
    /\ update' = [update EXCEPT ![p] = list]
    /\ children' = [children EXCEPT ![p] = [s \in Sensors |-> OK]]
    /\ Show(p, children'[p])
    /\ UNCHANGED <<up, field, own, pc, requestVars>>

\* insert_or_assign by the hash of the end point and the service: a later
\* association with the same end point replaces an earlier one.
InsertAssociation(p) ==
    /\ up /\ update[p] \notin {Idle, <<>>}
    /\ LET a == Head(update[p])
       IN  children' = [children EXCEPT ![p][a.sensor] = a.status]
    /\ update' = [update EXCEPT ![p] = Tail(@)]
    /\ Show(p, children'[p])
    /\ UNCHANGED <<up, updates, field, own, pc, requestVars>>

\* The callback returns.
CallbackDone(p) ==
    /\ up /\ update[p] = <<>>
    /\ update' = [update EXCEPT ![p] = Idle]
    /\ UNCHANGED <<up, children, updates, field, own, pc, requestVars, shown>>
-----------------------------------------------------------------------------
(***************************************************************************)
(* A request: Entity::getInstances and then the fields of the result.      *)
(***************************************************************************)
Begin(r) ==
    /\ up /\ ~Busy(r)
    /\ Goto(r, "instances")
    /\ todo' = [todo EXCEPT ![r] = Sensors]
    /\ served' = [served EXCEPT ![r] = [s \in Sensors |-> NoField]]
    /\ shown' = [shown EXCEPT ![r] =
                   [p \in Providers |-> [s \in Sensors |-> {children[p][s]}]]]
    /\ UNCHANGED <<up, watcherVars, field, own, sensor, sources, source, cands, current>>

\* What the mutants of initDefaultFieldsValue share.
InitDefault(r, default(_)) ==
    /\ At(r, "instances")
    /\ \E s \in todo[r] :
         /\ sensor' = [sensor EXCEPT ![r] = s]
         /\ todo' = [todo EXCEPT ![r] = @ \ {s}]
         /\ default(s)
    /\ sources' = [sources EXCEPT ![r] = Providers]
    /\ cands' = [cands EXCEPT ![r] = <<>>]
    /\ UNCHANGED <<up, watcherVars, own, source, current, served, shown>>

\* Mutant: the default is given once and never again.
initDefaultOnce(r) ==
    LET D(s) == /\ Goto(r, IF field[s] = NoField THEN "add" ELSE "collect")
                /\ UNCHANGED field
    IN  InitDefault(r, D)

\* Mutant: always supplement, as if the member were new.
initDefaultAlwaysAdds(r) ==
    LET D(s) == UNCHANGED field /\ Goto(r, "add")
    IN  InitDefault(r, D)

\* The loop over instances: initDefaultFieldsValue first.  supplementOrUpdate
\* looks whether the member is there and then sets it or adds it.
initDefaultFieldsValue(r) ==
    /\ At(r, "instances")
    /\ \E s \in todo[r] :
         /\ sensor' = [sensor EXCEPT ![r] = s]
         /\ todo' = [todo EXCEPT ![r] = @ \ {s}]
         /\ IF field[s] # NoField
            THEN field' = [field EXCEPT ![s] = OK] /\ Goto(r, "collect")
            ELSE UNCHANGED field /\ Goto(r, "add")
    /\ sources' = [sources EXCEPT ![r] = Providers]
    /\ cands' = [cands EXCEPT ![r] = <<>>]
    /\ UNCHANGED <<up, watcherVars, own, source, current, served, shown>>

\* supplement: a member that is already there is a logic_error.
supplement(r) ==
    /\ At(r, "add")
    /\ IF field[sensor[r]] = NoField
       THEN field' = [field EXCEPT ![sensor[r]] = OK] /\ Goto(r, "collect") /\ UNCHANGED up
       ELSE Throw(r) /\ UNCHANGED field
    /\ UNCHANGED <<watcherVars, own, requestVars, shown>>

\* supplementInstance asks the provider for its instances: getInstances gives the
\* instance of the provider its own default first, set or added like the sensor's.
initOwnDefault(r, p) ==
    /\ At(r, "collect")
    /\ p \in sources[r]
    /\ source' = [source EXCEPT ![r] = p]
    /\ Goto(r, IF own[p] THEN "copy" ELSE "addOwn")
    /\ UNCHANGED <<up, watcherVars, field, own, todo, sensor, sources, cands, current,
                   served, shown>>

supplementOwn(r) ==
    /\ At(r, "addOwn")
    /\ IF own[source[r]]
       THEN Throw(r) /\ UNCHANGED own
       ELSE own' = [own EXCEPT ![source[r]] = TRUE] /\ Goto(r, "copy") /\ UNCHANGED up
    /\ UNCHANGED <<watcherVars, field, requestVars, shown>>

\* What getComplex copies of the children that point to the sensor; linkStatus
\* drops the others without effect.
Copied(r) ==
    LET status == children[source[r]][sensor[r]]
    IN  IF status = OK THEN cands ELSE [cands EXCEPT ![r] = Append(@, status)]

\* Mutant: only the first provider is asked.
CollectFirst(r) ==
    /\ At(r, "copy")
    /\ Goto(r, "collect")
    /\ sources' = [sources EXCEPT ![r] = {}]
    /\ cands' = Copied(r)
    /\ UNCHANGED <<up, watcherVars, field, own, todo, sensor, source, current, served,
                   shown>>

\* The children of the provider are copied.
Collect(r) ==
    /\ At(r, "copy")
    /\ Goto(r, "collect")
    /\ sources' = [sources EXCEPT ![r] = @ \ {source[r]}]
    /\ cands' = Copied(r)
    /\ UNCHANGED <<up, watcherVars, field, own, todo, sensor, source, current, served,
                   shown>>

\* The copy of a std::map that a callback is changing may also fault.
CollectFault(r) ==
    /\ At(r, "copy")
    /\ update[source[r]] # Idle
    /\ up' = FALSE
    /\ UNCHANGED <<watcherVars, field, own, pc, requestVars, shown>>

\* supplementInstance has the children and begins to link them.
Collected(r) ==
    /\ At(r, "collect")
    /\ sources[r] = {}
    /\ Goto(r, "link")
    /\ UNCHANGED <<up, watcherVars, field, own, requestVars, shown>>

\* Mutant: an unknown status is passed on.
LinkUnchecked(r) ==
    /\ At(r, "link")
    /\ cands[r] # <<>>
    /\ current' = [current EXCEPT ![r] = field[sensor[r]]]
    /\ Goto(r, "store")
    /\ UNCHANGED <<up, watcherVars, field, own, todo, sensor, sources, source, cands,
                   served, shown>>

\* linkStatus of the next child: the current status is copied; a status that
\* getHigherStatus does not know throws.
Link(r) ==
    /\ At(r, "link")
    /\ cands[r] # <<>>
    /\ current' = [current EXCEPT ![r] = field[sensor[r]]]
    /\ IF Head(cands[r]) \in Known THEN Goto(r, "store") /\ UNCHANGED up ELSE Throw(r)
    /\ UNCHANGED <<watcherVars, field, own, todo, sensor, sources, source, cands, served,
                   shown>>

\* linkStatus's setValue.
Store(r) ==
    /\ At(r, "store")
    /\ field' = [field EXCEPT ![sensor[r]] = getHigherStatus(current[r], Head(cands[r]))]
    /\ cands' = [cands EXCEPT ![r] = Tail(@)]
    /\ Goto(r, "link")
    /\ UNCHANGED <<up, watcherVars, own, todo, sensor, sources, source, current, served,
                   shown>>

\* All children linked: the next instance, or the list is complete.
Linked(r) ==
    /\ At(r, "link")
    /\ cands[r] = <<>>
    /\ IF todo[r] # {}
       THEN Goto(r, "instances") /\ UNCHANGED todo
       ELSE Goto(r, "read") /\ todo' = [todo EXCEPT ![r] = Sensors]
    /\ UNCHANGED <<up, watcherVars, field, own, sensor, sources, source, cands, current,
                   served, shown>>

\* GqlObjectBuild::supplement reads the field of each instance in the list.
Read(r) ==
    /\ At(r, "read")
    /\ \E s \in todo[r] :
         /\ served' = [served EXCEPT ![r][s] = field[s]]
         /\ todo' = [todo EXCEPT ![r] = @ \ {s}]
         /\ Goto(r, IF todo[r] = {s} THEN "replied" ELSE "read")
    /\ UNCHANGED <<up, watcherVars, field, own, sensor, sources, source, cands, current,
                   shown>>

\* Nothing happens in a process that is gone.
Gone == ~up /\ UNCHANGED vars

Watcher(p) ==
    \/ \E list \in Updates : ClearAssociations(p, list)
    \/ InsertAssociation(p)
    \/ CallbackDone(p)

Request(r) ==
    \/ Begin(r) \/ initDefaultFieldsValue(r) \/ supplement(r)
    \/ \E p \in Providers : initOwnDefault(r, p)
    \/ supplementOwn(r) \/ Collect(r) \/ CollectFault(r)
    \/ Collected(r) \/ Link(r) \/ Store(r) \/ Linked(r) \/ Read(r)

Next ==
    \/ \E p \in Providers : Watcher(p)
    \/ \E r \in Requests : Request(r)
    \/ Gone

Spec == Init /\ [][Next]_vars
-----------------------------------------------------------------------------
Statuses == Known \cup {Unknown}
Field == Known \cup {NoField}
Steps == {"idle", "instances", "add", "collect", "addOwn", "copy", "link", "store", "read",
          "replied", "failed"}

\* The type of every variable.
TypeOK ==
    /\ up \in BOOLEAN
    /\ children \in [Providers -> [Sensors -> Statuses]]
    /\ \A p \in Providers : update[p] \in Seq(Association) \cup {Idle}
    /\ updates \in 0..MaxUpdates
    /\ field \in [Sensors -> Field]
    /\ own \in [Providers -> BOOLEAN]
    /\ pc \in [Requests -> Steps]
    /\ todo \in [Requests -> SUBSET Sensors]
    /\ sensor \in [Requests -> Sensors \cup {"none"}]
    /\ sources \in [Requests -> SUBSET Providers]
    /\ source \in [Requests -> Providers \cup {"none"}]
    /\ cands \in [Requests -> Seq(Statuses \ {OK})]
    /\ current \in [Requests -> Known]
    /\ served \in [Requests -> [Sensors -> Field]]
    /\ shown \in [Requests -> [Providers -> [Sensors -> SUBSET Statuses]]]

\* A status in an answer is the highest of what the providers' associations
\* showed during the request, one moment for each provider: nothing of an
\* earlier request is left in the shared instance (getInstances, linkStatus).
ServedWasShown ==
    \A r \in Requests : pc[r] = "replied" =>
        \A s \in Sensors :
            \E v \in [Providers -> Known] :
                /\ \A p \in Providers : v[p] \in shown[r][p][s]
                /\ served[r][s] = Max({v[p] : p \in Providers} \cup {OK})

\* "Have OK value as default if no one instance is found": OK is served for a
\* sensor only if, for each provider, some moment of the request had no
\* association that points to the sensor.
OkOnlyIfNoneFound ==
    \A r \in Requests, s \in Sensors :
        pc[r] = "replied" /\ served[r][s] = OK =>
            \A p \in Providers : OK \in shown[r][p][s]

\* A request fails, and the process with it, only because an association named an
\* unknown status; with one thread no default member is added twice, neither to a
\* sensor nor to a provider's own instance (supplementOrUpdate).
FailsOnlyOnUnknown ==
    \A r \in Requests : pc[r] = "failed" =>
        \E p \in Providers, s \in Sensors : Unknown \in shown[r][p][s]
=============================================================================
