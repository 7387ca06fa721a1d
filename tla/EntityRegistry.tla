--------------------------- MODULE EntityRegistry ---------------------------
(***************************************************************************)
(* How the entities of the program come into being: EntityManager and its  *)
(* EntityBuilder, DBusQueryBuilder::addObject, and the members, links and  *)
(* relations of Entity.  Application::configure runs them on one thread    *)
(* before any broker or request does; an exception leaves main and ends    *)
(* the process.  After that the workers fill the entities that have a      *)
(* broker, and requests look entities and members up by name: nothing of   *)
(* what is built here changes any more.                                    *)
(*                                                                         *)
(* The configuration is any sequence of builder calls a program could      *)
(* make; the one this program makes, and those near it, are in EntityMap.  *)
(***************************************************************************)
EXTENDS Integers, Sequences, FiniteSets, SequencesExt

CONSTANTS
    Names,        \* names of entities and providers
    Rules,        \* names of queries
    MemberLists,  \* arguments of addMembers: sequences of member names
    Meta,         \* the sequence of members addObject adds
    MaxObjects,   \* bound: entities and providers built
    MaxLinks      \* bound: links of one entity

ASSUME RegistryAssumption ==
    /\ MaxObjects \in Nat /\ MaxLinks \in Nat
    /\ ToSet(Meta) # {}

VARIABLES
    process,              \* configuring, serving, thrown or crashed
    objects,              \* the entities and providers, in building order
    entityDictionary,     \* EntityManager: name -> index into objects
    supplementProviders,  \* EntityManager: name -> index into objects
    builder,              \* the object the current chain of calls is about
    brokers               \* DBusBrokerManager: sequence of [object, query]

registryVars ==
    <<objects, entityDictionary, supplementProviders, builder, brokers>>
vars == <<process, registryVars>>

Members == (UNION {ToSet(l) : l \in MemberLists}) \cup ToSet(Meta)

Init ==
    /\ process = "configuring"
    /\ objects = <<>>
    /\ entityDictionary = <<>>
    /\ supplementProviders = <<>>
    /\ builder = 0
    /\ brokers = <<>>
-----------------------------------------------------------------------------
Configuring == process = "configuring"
Stopped(how) == process' = how
Continue == UNCHANGED process

\* The constructors of Entity and EntitySupplementProvider.
Object(kind, n) == [kind |-> kind, name |-> n, members |-> {},
                    links |-> <<>>]

\* Mutant: the name is registered for the object built before.
FreshLate == Len(objects)

Fresh == Len(objects) + 1

\* Mutant: the registration is forgotten.
Unregistered(map, n, o) == map

\* std::map::emplace: the first of two equal keys stays.
Emplaced(map, n, o) ==
    [k \in DOMAIN map \cup {n} |-> IF k \in DOMAIN map THEN map[k] ELSE o]

\* EntityManager::buildSupplementProvider.  The builder gets the new object
\* whether or not the name was free.
buildSupplementProvider(n) ==
    /\ Configuring /\ Fresh <= MaxObjects
    /\ objects' = Append(objects, Object("provider", n))
    /\ supplementProviders' = Emplaced(supplementProviders, n, Fresh)
    /\ builder' = Fresh
    /\ Continue /\ UNCHANGED <<entityDictionary, brokers>>

\* EntityManager::buildEntity with addEntity.  For a name that is taken,
\* emplace has either moved the argument away before the message asks it for
\* its name, which is a null pointer then, or left it alone: the library
\* decides.
buildEntity(n) ==
    /\ Configuring /\ Fresh <= MaxObjects
    /\ IF n \in DOMAIN entityDictionary
       THEN /\ \E how \in {"thrown", "crashed"} : Stopped(how)
            /\ UNCHANGED registryVars
       ELSE /\ objects' = Append(objects, Object("entity", n))
            /\ entityDictionary' = Emplaced(entityDictionary, n, Fresh)
            /\ builder' = Fresh
            /\ Continue /\ UNCHANGED <<supplementProviders, brokers>>

\* Mutant: a second registration of a member is ignored.
CanAddAgain(o, list) == TRUE

\* Entity::addMember of each name of a list: an EntityException at the first
\* that is already there.
CanAdd(o, list) == IsInjective(list) /\ ToSet(list) \cap objects[o].members = {}

WithMembers(o, list) == [objects EXCEPT ![o].members = @ \cup ToSet(list)]

addMembers(list) ==
    /\ Configuring /\ builder # 0
    /\ IF CanAdd(builder, list)
       THEN objects' = WithMembers(builder, list) /\ Continue
       ELSE UNCHANGED objects /\ Stopped("thrown")
    /\ UNCHANGED <<entityDictionary, supplementProviders, builder, brokers>>

\* EntityBuilder::linkSupplementProvider.
linkSupplementProvider(n) ==
    /\ Configuring /\ builder # 0
    /\ Len(objects[builder].links) < MaxLinks
    /\ IF n \in DOMAIN supplementProviders
       THEN /\ objects' = [objects EXCEPT ![builder].links =
                              Append(@, supplementProviders[n])]
            /\ Continue
       ELSE UNCHANGED objects /\ Stopped("thrown")
    /\ UNCHANGED <<entityDictionary, supplementProviders, builder, brokers>>

\* EntityBuilder::addRelations: the destination must be an entity.
\* Entity::addRelation then returns when its pointer is NOT null, and gets no
\* other: nothing is stored.
addRelations(n) ==
    /\ Configuring /\ builder # 0
    /\ IF n \in DOMAIN entityDictionary THEN Continue ELSE Stopped("thrown")
    /\ UNCHANGED registryVars
-----------------------------------------------------------------------------
\* EntityBuilder::addQuery and DBusQueryBuilder::addObject: the broker is
\* bound before the meta members are added, and the second addObject of an
\* entity throws because they are there.
addObject(q) ==
    /\ Configuring /\ builder # 0
    /\ brokers' = Append(brokers, [object |-> builder, query |-> q])
    /\ IF CanAdd(builder, Meta)
       THEN objects' = WithMembers(builder, Meta) /\ Continue
       ELSE UNCHANGED objects /\ Stopped("thrown")
    /\ UNCHANGED <<entityDictionary, supplementProviders, builder>>

\* Application::initBrokers: the pool starts, main goes on to listen.
initBrokers ==
    /\ Configuring
    /\ process' = "serving"
    /\ UNCHANGED registryVars

\* A process whose configuration is over, one way or the other.
Quiet ==
    /\ ~Configuring
    /\ UNCHANGED vars

Next ==
    \/ \E n \in Names : buildSupplementProvider(n) \/ buildEntity(n)
                        \/ linkSupplementProvider(n) \/ addRelations(n)
    \/ \E list \in MemberLists : addMembers(list)
    \/ \E q \in Rules : addObject(q)
    \/ initBrokers
    \/ Quiet

Spec == Init /\ [][Next]_vars
-----------------------------------------------------------------------------
(***************************************************************************)
(* Properties.                                                             *)
(***************************************************************************)
Indices == 1..Len(objects)

\* Types, and: both maps and the builder name objects that were built.
TypeOK ==
    /\ process \in {"configuring", "serving", "thrown", "crashed"}
    /\ \A o \in Indices :
          /\ objects[o].kind \in {"entity", "provider"}
          /\ objects[o].members \subseteq Members
          /\ ToSet(objects[o].links) \subseteq Indices
    /\ DOMAIN entityDictionary \subseteq Names
    /\ DOMAIN supplementProviders \subseteq Names
    /\ \A n \in DOMAIN entityDictionary :
          entityDictionary[n] \in Indices /\ objects[entityDictionary[n]].name = n
    /\ \A n \in DOMAIN supplementProviders :
          supplementProviders[n] \in Indices
    /\ builder \in 0..Len(objects)
    /\ \A b \in DOMAIN brokers : brokers[b].object \in Indices

\* In a process that got past its configuration no two brokers fill one
\* entity: the second would clear the instances of the first on every
\* refresh (Entity::setInstances), and nothing but the meta members that
\* addObject adds again tells the two apart.
OneBrokerPerEntity ==
    process = "serving" =>
        \A b, c \in DOMAIN brokers : brokers[b].object = brokers[c].object => b = c

\* What a broker fills can be found by its name, except a provider whose name
\* another provider had already: its builder still works on the new object,
\* whose instances no entity can be linked to (buildSupplementProvider).
OrphanOnlyIfNamedTwice ==
    \A b \in DOMAIN brokers :
        LET o == brokers[b].object
            n == objects[o].name
        IN  \/ n \in DOMAIN entityDictionary /\ entityDictionary[n] = o
            \/ n \in DOMAIN supplementProviders /\ supplementProviders[n] = o
            \/ /\ objects[o].kind = "provider"
               /\ \E j \in 1..(o - 1) :
                      objects[j].kind = "provider" /\ objects[j].name = n
=============================================================================
