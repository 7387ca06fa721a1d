------------------------------ MODULE EntityMap ------------------------------
(***************************************************************************)
(* The entities of this program: the calls of Application::initEntityMap   *)
(* run on the registry (EntityRegistry) with the queries of the system     *)
(* (SystemQueries), then the brokers publish in any order while requests   *)
(* ask for members.  Beside the program's own calls run those of programs  *)
(* that differ in one: the registry has to stop them, or to serve them     *)
(* without harm.                                                           *)
(***************************************************************************)
EXTENDS EntityRegistry, SystemQueries

VARIABLES
    script,  \* the calls of the configuration
    step     \* the next of them

Call(op, name) == [op |-> op, name |-> name, list |-> <<>>]

\* buildX(name) -> addMembers(members) . linkSupplementProvider(providers)
\* . addQuery() -> addObject<query>() . complete()
Chain(build, name, members, providers, query) ==
    <<Call(build, name), [Call("addMembers", name) EXCEPT !.list = members]>>
    \o [i \in DOMAIN providers |-> Call("linkSupplementProvider", providers[i])]
    \o <<Call("addObject", query)>>

assetMembers == <<"Manufacturer", "Model", "PartNumber", "SerialNumber">>

statusProvider ==
    Chain("buildSupplementProvider", "Status", <<"Status", "Causer">>, <<>>, "Status")
versionProvider ==
    Chain("buildSupplementProvider", "Version", <<"Purpose", "Version">>, <<>>, "Version")
relationsEntity ==
    Chain("buildEntity", "Relations", <<"Endpoint", "Source", "Destination">>,
          <<>>, "Relation")
sensorsEntity ==
    Chain("buildEntity", "Sensors",
          <<"Name", "Reading", "Unit", "LowWarning", "LowCritical", "HighWarning",
            "HighCritical", "Status">>, <<"Status">>, "Sensors")

\* Mutant: the two versions are forgotten.
serverEntityShort ==
    Chain("buildEntity", "Server", <<"Name", "Type">> \o assetMembers \o <<"Status">>,
          <<"Version">>, "Server")

serverEntity ==
    Chain("buildEntity", "Server",
          <<"Name", "Type">> \o assetMembers
            \o <<"BiosVersion", "BmcVersion", "Status">>, <<"Version">>, "Server")
chassisEntity ==
    Chain("buildEntity", "Chassis",
          <<"Type", "PartNumber", "Manufacturer", "Status">>, <<>>, "Chassis")
baseboardEntity ==
    Chain("buildEntity", "Baseboard",
          <<"Name", "Type">> \o assetMembers \o <<"Status", "Endpoint">>, <<>>,
          "Baseboard")

\* Mutant: the sensors are defined before the provider they link.
sensorsFirst ==
    sensorsEntity \o statusProvider \o versionProvider \o relationsEntity
    \o serverEntity \o chassisEntity \o baseboardEntity

initEntityMap ==
    statusProvider \o versionProvider \o relationsEntity \o sensorsEntity
    \o serverEntity \o chassisEntity \o baseboardEntity

-----------------------------------------------------------------------------
(***************************************************************************)
(* Programs near this one: a mistake in one call of its configuration.     *)
(***************************************************************************)
Builds == {"buildSupplementProvider", "buildEntity"}
Slips(s) ==
    LET Chained == {i \in DOMAIN s : s[i].op \notin Builds}
        Named == {i \in DOMAIN s : s[i].op \in Builds \cup {"linkSupplementProvider"}}
    IN  { RemoveAt(s, i) : i \in Chained }              \* a call is left out
        \cup { InsertAt(s, i, s[i]) : i \in Chained }    \* or made twice
        \cup { InsertAt(s, i, Call("addRelations", n)) : i \in Chained, n \in Names }
        \cup { [s EXCEPT ![i].name = n] : i \in Named, n \in Names }

Scripts == {initEntityMap} \cup Slips(initEntityMap)

\* The names, members and queries of these calls are those of the registry, and
\* addObject adds the meta members of definitions.hpp.
Calls ==
    { Call(op, n) :
        op \in Builds \cup {"linkSupplementProvider", "addRelations"}, n \in Names }
    \cup { [Call("addMembers", n) EXCEPT !.list = l] : n \in Names, l \in MemberLists }
    \cup { Call("addObject", q) : q \in Rules }

ASSUME MapAssumption == Scripts \subseteq Seq(Calls) /\ Meta = metaMembers

MapInit ==
    /\ Init
    /\ script \in Scripts
    /\ step = 1

\* The next call.
Configure ==
    /\ step <= Len(script)
    /\ LET c == script[step]
       IN  \/ c.op = "buildSupplementProvider" /\ buildSupplementProvider(c.name)
           \/ c.op = "buildEntity" /\ buildEntity(c.name)
           \/ c.op = "addMembers" /\ addMembers(c.list)
           \/ c.op = "addRelations" /\ addRelations(c.name)
           \/ c.op = "linkSupplementProvider" /\ linkSupplementProvider(c.name)
           \/ c.op = "addObject" /\ addObject(c.name)
    /\ step' = step + 1
    /\ UNCHANGED script

\* The configuration is over.
Serve ==
    /\ step > Len(script) /\ initBrokers
    /\ UNCHANGED <<script, step>>

\* A process that serves or that an exception has ended.
Gone == Quiet /\ UNCHANGED <<script, step>>

MapNext == Configure \/ Serve \/ Gone

MapSpec == MapInit /\ [][MapNext]_<<vars, script, step>>
-----------------------------------------------------------------------------
Serving == process = "serving"

\* The queries whose objects fill an entity or a provider.
Queried(o) == {brokers[b].query : b \in {c \in DOMAIN brokers : brokers[c].object = o}}

\* The configuration of the program never throws: every name it links is
\* registered by then and no member or entity is registered twice
\* (initEntityMap with the exceptions of the registry).
StartsUp == script = initEntityMap => process \in {"configuring", "serving"}

\* A member that a query or a link rule writes into an entity's instances is
\* declared as a member of that entity.  Otherwise the value is there and a
\* request for it ends in "The object Member <...> not found".
WrittenIsDeclared ==
    Serving /\ script = initEntityMap => \A n \in DOMAIN entityDictionary :
        LET o == entityDictionary[n]
            linked == UNION {Queried(l) : l \in ToSet(objects[o].links)}
        IN  /\ UNION {OwnMembers(Queries[q]) : q \in Queried(o)}
                 \subseteq objects[o].members
            /\ UNION {Queries[q].links : q \in linked} \subseteq objects[o].members
=============================================================================
