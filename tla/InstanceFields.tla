--------------------------- MODULE InstanceFields ---------------------------
(***************************************************************************)
(* One D-Bus object and the instance that stands for it: how replies and   *)
(* signals become fields.  DBusQuery::createInstance (for a                *)
(* FindObjectDBusQuery) and IntrospectServiceDBusQuery::process build it   *)
(* interface by interface, DBusInstance::fillMembers goes through the      *)
(* dictionary and the formatters of the query (SystemQueries), and         *)
(* Entity::getInstances shows the result to a request.                     *)
(*                                                                         *)
(* Each read and each signal picks the values it brings: texts, numbers    *)
(* and lists, never a list of associations (the type that only the objects *)
(* of Status have; those are the subject of StatusLink).  The order of     *)
(* values against refreshes is the subject of EntityCache.                 *)
(***************************************************************************)
EXTENDS SystemQueries, FiniteSets

CONSTANTS
    QueryNames,  \* the queries whose objects are looked at
    Texts        \* the strings a property may hold

\* The objects of Status have lists of associations; "element" marks the values
\* of the children of any other list.
ASSUME QueryNamesAssumption ==
    /\ QueryNames \subseteq DOMAIN Queries \ {"Status"}
    /\ "element" \notin Texts

VARIABLES
    query,     \* the query this object belongs to
    stage,     \* reading, static, live, or thrown when an exception left
    todo,      \* interfaces of the object that were not read yet
    fields,    \* DBusInstance::memberInstances: member -> value
    complex,   \* DBusInstance::complexInstances: hash -> fields of the child
    shown,     \* what getInstances gives a request, while it reads: the
               \* fields of each instance
    seen,      \* history: the last scalar that came for each property
    foreign    \* history: a property with a formatter came as no string

history == <<seen, foreign>>
fieldsVars == <<query, stage, todo, fields, complex, shown, history>>

dictionary == Queries[query].dictionary
Interfaces == DOMAIN dictionary \cup {"Other"}
Values == {Text(t) : t \in Texts} \cup {Number, List}

\* DBusInstance's constructor: the path and the service are fields.
metaFields == [m \in {metaMembers[1], metaMembers[2]} |-> Text(m)]

\* getHash: of the path and the service, which the children of a list share
\* with the object itself.
hash == "path and service"

FieldsInit ==
    /\ query \in QueryNames
    /\ stage = "reading"
    /\ todo \in SUBSET Interfaces
    /\ fields = metaFields
    /\ complex = <<>>
    /\ shown = {}
    /\ seen = <<>>
    /\ foreign = FALSE
-----------------------------------------------------------------------------
\* DBusInstance::getPropertyMemberDict: no entry means nothing to fill.
getPropertyMemberDict(i) == IF i \in DOMAIN dictionary THEN dictionary[i] ELSE Nothing

\* What fillMembers takes of a reply: the properties the dictionary names,
\* formatted.
Taken(i, reply) ==
    [p \in DOMAIN getPropertyMemberDict(i) \cap DOMAIN reply |->
        processFormatters(query, p, reply[p])]

\* What FieldType can hold.
Scalar(value) == value.kind \in {"string", "number"}

\* std::map::insert_or_assign, insert, which keeps what is there, and the map
\* that many insert_or_assign leave.
insert_or_assign(map, k, value) ==
    [x \in DOMAIN map \cup {k} |-> IF x = k THEN value ELSE map[x]]
insert(map, k, value) == IF k \in DOMAIN map THEN map ELSE insert_or_assign(map, k, value)
Over(news, map) ==
    [x \in DOMAIN news \cup DOMAIN map |-> IF x \in DOMAIN news THEN news[x] ELSE map[x]]

\* Mutant: a field that is there already keeps its value.
supplementFirst(f, m, value) == insert(f, m, value)

\* DBusInstance::supplementOrUpdate.
supplementOrUpdate(f, m, value) == insert_or_assign(f, m, value)

\* DBusInstance::resolveDBusVariant for the scalar values of a reply.
Resolved(f, i, taken) ==
    LET dict == getPropertyMemberDict(i)
        scalars == {p \in DOMAIN taken : Scalar(taken[p])}
        members == {dict[p] : p \in scalars}
        Value(m) == taken[CHOOSE p \in scalars : dict[p] = m]
        news == [m \in members |-> supplementOrUpdate(f, m, Value(m))[m]]
    IN  Over(news, f)

\* captureComplexDBusProperty: a child per element, each under the hash of the
\* object itself, and filled as if the member's name were the interface and
\* the property.
Child(m) == Resolved(metaFields, m, Taken(m, [x \in {m} |-> Text("element")]))

Children(i, taken) ==
    LET dict == getPropertyMemberDict(i)
        lists == {p \in DOMAIN taken : taken[p].kind = "list"}
    IN  IF lists = {} THEN complex
        ELSE insert_or_assign(complex, hash, Child(dict[CHOOSE p \in lists : TRUE]))

\* DBusInstance::fillMembers.  A formatter that throws leaves the process by
\* the worker's thread.
fillMembers(i, reply, next) ==
    LET taken == Taken(i, reply)
    IN  IF \E p \in DOMAIN taken : taken[p] = Invalid
        THEN stage' = "thrown" /\ UNCHANGED <<fields, complex>>
        ELSE /\ fields' = Resolved(fields, i, taken)
             /\ complex' = Children(i, taken)
             /\ stage' = next

\* History.
Formatted == {"ChassisType", "Unit"}
See(i, reply) ==
    LET scalars == {p \in DOMAIN reply : Scalar(reply[p])}
    IN  /\ seen' = Over([k \in {<<i, p>> : p \in scalars} |-> reply[k[2]]], seen)
        /\ foreign' = \E p \in DOMAIN reply \cap Formatted : reply[p].kind # "string"

Replies(i) ==
    UNION {[ps -> Values] : ps \in SUBSET DOMAIN getPropertyMemberDict(i)}

\* The loop of createInstance: GetAll of the next interface, whose failure is
\* an empty reply, and fillMembers.  An introspected object has its values
\* from GetManagedObjects and is filled in the same way.
Read(i) ==
    /\ stage = "reading" /\ i \in todo
    /\ \E reply \in Replies(i) : fillMembers(i, reply, "reading") /\ See(i, reply)
    /\ todo' = todo \ {i}
    /\ UNCHANGED <<query, shown>>

\* supplementByStaticFields: the name of a sensor, from its path.  supplement
\* throws std::logic_error if the field is there; then the instance is bound
\* and inserted (EntityCache).
Complete ==
    /\ stage = "reading" /\ todo = {}
    /\ IF Queries[query].static \cap DOMAIN fields = {}
       THEN /\ fields' = Over([m \in Queries[query].static |-> Text("name")], fields)
            /\ stage' = "live"
       ELSE stage' = "thrown" /\ UNCHANGED fields
    /\ UNCHANGED <<query, todo, complex, shown, history>>

\* The callback of bindListeners: a signal with one changed property.
Signal(i, p, v) ==
    /\ stage = "live"
    /\ i \in DOMAIN dictionary /\ p \in DOMAIN dictionary[i]
    /\ LET changed == [x \in {p} |-> v]
       IN  fillMembers(i, changed, "live") /\ See(i, changed)
    /\ shown' = {}
    /\ UNCHANGED <<query, todo>>

\* Mutant: insert instead of insert_or_assign.
withChildrenFirst(kids, f) == insert(kids, hash, f)

\* getInstances: the object itself replaces a child with its hash.
withObject(kids, f) == insert_or_assign(kids, hash, f)

\* DBusInstance::initDefaultFieldsValue and Entity::getInstances, for this
\* object, as a request calls them.
Show ==
    /\ stage = "live"
    /\ LET defaults == Queries[query].default
       IN  fields' = Over([m \in DOMAIN defaults |-> Text(defaults[m])], fields)
    /\ LET all == withObject(complex, fields')
       IN  shown' = {all[h] : h \in DOMAIN all}
    /\ UNCHANGED <<query, stage, todo, complex, history>>

\* The process has ended.
FieldsGone == stage = "thrown" /\ UNCHANGED fieldsVars

FieldsNext ==
    \/ \E i \in Interfaces : Read(i)
    \/ Complete
    \/ \E i \in DOMAIN dictionary :
          \E p \in DOMAIN dictionary[i], v \in Values : Signal(i, p, v)
    \/ Show
    \/ FieldsGone

FieldsSpec == FieldsInit /\ [][FieldsNext]_fieldsVars
-----------------------------------------------------------------------------
(***************************************************************************)
(* Properties.                                                             *)
(***************************************************************************)
\* Whatever the order of the interfaces, the failed calls and the signals, a
\* field is what the formatters make of the last scalar that came for its
\* property, and a property that never had one has no field: its member reads
\* "N/A" (fillMembers, processFormatters, supplementOrUpdate).
FieldsAreFormatted ==
    stage # "thrown" =>
        \A i \in DOMAIN dictionary : \A p \in DOMAIN dictionary[i] :
            LET m == dictionary[i][p]
            IN  /\ m \in DOMAIN fields <=> <<i, p>> \in DOMAIN seen
                /\ m \in DOMAIN fields =>
                      fields[m] = processFormatters(query, p, seen[<<i, p>>])

\* The process ends exactly when a property with a formatter holds something
\* else than a string: an unknown string is no reason, and nothing catches
\* the std::invalid_argument of formatChassisType or formatSensorUnit.
EndsOnForeignTypeOnly == stage = "thrown" <=> foreign

\* A request is shown the object itself, with all its fields, and nothing
\* else, although each list-valued property left a child with the object's own
\* hash among complexInstances (captureComplexDBusProperty, getInstances).
\* The elements of the list are in no field of it.
ShownIsWhole ==
    shown # {} => /\ shown = {fields}
                  /\ Text("element") \notin {fields[m] : m \in DOMAIN fields}
=============================================================================
