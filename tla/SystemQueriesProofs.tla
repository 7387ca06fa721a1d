------------------------- MODULE SystemQueriesProofs -------------------------
(***************************************************************************)
(* Machine-checked proofs about the two specifications of SystemQueries:   *)
(* first about EntityRegistry, for any configuration a program could make  *)
(* of any names, members and queries; then about the configuration of this *)
(* program (EntityMap), which runs to its end; then about InstanceFields,  *)
(* for any strings the bus may answer.                                     *)
(***************************************************************************)
EXTENDS EntityMap, InstanceFields, SequenceTheorems, TLAPS

Kinds == {"entity", "provider"}
ObjectRecord == [kind : Kinds, name : Names, members : SUBSET Members, links : Seq(Nat)]
BrokerRecord == [object : Nat, query : Rules]

Types ==
    /\ process \in {"configuring", "serving", "thrown", "crashed"}
    /\ objects \in Seq(ObjectRecord)
    /\ DOMAIN entityDictionary \subseteq Names
    /\ DOMAIN supplementProviders \subseteq Names
    /\ builder \in 0..Len(objects)
    /\ brokers \in Seq(BrokerRecord)

LinksAreBuilt == \A o \in Indices : ToSet(objects[o].links) \subseteq Indices

BrokersAreBuilt == \A b \in DOMAIN brokers : brokers[b].object \in Indices

\* Both maps lead from a name to an object of the map's kind with that name.
IsNamed(o, kind, n) == o \in Indices /\ objects[o].kind = kind /\ objects[o].name = n

MapsLeadToNames ==
    /\ \A n \in DOMAIN entityDictionary : IsNamed(entityDictionary[n], "entity", n)
    /\ \A n \in DOMAIN supplementProviders :
          IsNamed(supplementProviders[n], "provider", n)

\* And every object is found under its name, but a provider that got a name
\* another one had.
IsFound(o) ==
    LET n == objects[o].name
    IN  \/ n \in DOMAIN entityDictionary /\ entityDictionary[n] = o
        \/ n \in DOMAIN supplementProviders /\ supplementProviders[n] = o
        \/ /\ objects[o].kind = "provider"
           /\ \E j \in 1..(o - 1) : IsNamed(j, "provider", n)

ObjectsAreFound == \A o \in Indices : IsFound(o)

\* While no exception has ended the process, the members addObject adds tell
\* the objects that have a broker from those that have none.
BrokersAreMarked ==
    process \in {"configuring", "serving"} =>
        \A b \in DOMAIN brokers :
            /\ ToSet(Meta) \subseteq objects[brokers[b].object].members
            /\ \A c \in DOMAIN brokers : brokers[b].object = brokers[c].object => b = c

IInv ==
    /\ Types
    /\ LinksAreBuilt
    /\ BrokersAreBuilt
    /\ MapsLeadToNames
    /\ ObjectsAreFound
    /\ BrokersAreMarked
-----------------------------------------------------------------------------
LEMMA InitIInv == Init => IInv
<1>. SUFFICES ASSUME Init PROVE IInv
  OBVIOUS
<1>1. /\ <<>> \in Seq(ObjectRecord) /\ <<>> \in Seq(BrokerRecord)
      /\ Len(<<>>) = 0 /\ DOMAIN <<>> = {}
  BY EmptySeq
<1>2. Types
  BY <1>1 DEF Init, Types
<1>. QED  BY <1>1, <1>2 DEF Init, IInv, LinksAreBuilt, BrokersAreBuilt, MapsLeadToNames,
     ObjectsAreFound, BrokersAreMarked, Indices

LEMMA ObjectTypes ==
    ASSUME Types
    PROVE  /\ Len(objects) \in Nat /\ DOMAIN objects = Indices
           /\ \A o \in Indices : objects[o] \in ObjectRecord
BY LenProperties, ElementOfSeq DEF Types, Indices

(***************************************************************************)
(* What a call of the configuration does to the objects: it appends one,   *)
(* or it changes the members or the links of one.                          *)
(***************************************************************************)
Appended(kind, n) ==
    /\ objects' \in Seq(ObjectRecord)
    /\ Len(objects') = Len(objects) + 1
    /\ Indices' = Indices \cup {Fresh}
    /\ \A o \in Indices : o < Fresh /\ objects'[o] = objects[o]
    /\ objects'[Fresh] = Object(kind, n)

LEMMA AppendObject ==
    ASSUME Types, NEW kind \in Kinds, NEW n \in Names,
           objects' = Append(objects, Object(kind, n))
    PROVE  Appended(kind, n)
<1>1. Object(kind, n) \in ObjectRecord
  BY EmptySeq DEF Object, ObjectRecord
<1>2. Len(objects) \in Nat
  BY ObjectTypes
<1>. QED  BY <1>1, <1>2, AppendProperties DEF Types, Appended, Indices, Fresh

\* Name and kind stay, and no member is taken away.
Updated ==
    /\ objects' \in Seq(ObjectRecord)
    /\ Len(objects') = Len(objects)
    /\ Indices' = Indices
    /\ \A o \in Indices : /\ objects'[o].kind = objects[o].kind
                          /\ objects'[o].name = objects[o].name
                          /\ objects[o].members \subseteq objects'[o].members

LEMMA UpdateObject ==
    ASSUME Types, NEW o \in Indices, NEW x \in ObjectRecord,
           x.kind = objects[o].kind, x.name = objects[o].name,
           objects[o].members \subseteq x.members,
           objects' = [objects EXCEPT ![o] = x]
    PROVE  Updated /\ objects'[o] = x /\ \A p \in Indices \ {o} : objects'[p] = objects[p]
<1>1. o \in 1..Len(objects) /\ DOMAIN objects = 1..Len(objects)
  BY ObjectTypes DEF Indices
<1>2. objects' \in Seq(ObjectRecord) /\ Len(objects') = Len(objects)
  BY <1>1, ExceptSeq DEF Types
<1>3. objects'[o] = x /\ \A p \in Indices \ {o} : objects'[p] = objects[p]
  BY <1>1 DEF Indices
<1>. QED  BY <1>2, <1>3 DEF Updated, Indices

\* Entity::addMember of a list.
LEMMA AddMembers ==
    ASSUME Types, NEW o \in Indices, NEW list, ToSet(list) \subseteq Members,
           objects' = WithMembers(o, list)
    PROVE  /\ Updated
           /\ objects'[o].members = objects[o].members \cup ToSet(list)
           /\ \A p \in Indices : objects'[p].links = objects[p].links
<1>. DEFINE x == [objects[o] EXCEPT !.members = objects[o].members \cup ToSet(list)]
<1>1. objects[o] \in ObjectRecord
  BY ObjectTypes
<1>2. /\ x \in ObjectRecord /\ x.kind = objects[o].kind /\ x.name = objects[o].name
      /\ x.members = objects[o].members \cup ToSet(list) /\ x.links = objects[o].links
  BY <1>1 DEF ObjectRecord
<1>3. objects' = [objects EXCEPT ![o] = x]
  BY DEF WithMembers
<1>. HIDE DEF x
<1>4. /\ Updated /\ objects'[o] = x
      /\ \A p \in Indices \ {o} : objects'[p] = objects[p]
  BY <1>2, <1>3, UpdateObject
<1>. QED  BY <1>2, <1>4

\* EntityBuilder::linkSupplementProvider with a provider that was built.
LEMMA AddLink ==
    ASSUME Types, NEW o \in Indices, NEW l \in Indices,
           objects' = [objects EXCEPT ![o].links = Append(@, l)]
    PROVE  /\ Updated
           /\ ToSet(objects'[o].links) = ToSet(objects[o].links) \cup {l}
           /\ \A p \in Indices \ {o} : objects'[p].links = objects[p].links
<1>. DEFINE ls == Append(objects[o].links, l)
            x == [objects[o] EXCEPT !.links = ls]
<1>1. objects[o] \in ObjectRecord /\ objects[o].links \in Seq(Nat) /\ l \in Nat
  BY ObjectTypes DEF ObjectRecord, Indices
<1>2. ls \in Seq(Nat) /\ ToSet(ls) = ToSet(objects[o].links) \cup {l}
  <2>. PICK q : q = objects[o].links
    OBVIOUS
  <2>1. /\ ls \in Seq(Nat) /\ Len(ls) = Len(q) + 1 /\ Len(q) \in Nat
        /\ \A i \in 1..Len(q) : ls[i] = q[i]
        /\ ls[Len(q) + 1] = l
    BY <1>1, AppendProperties
  <2>2. DOMAIN q = 1..Len(q) /\ DOMAIN ls = 1..(Len(q) + 1)
    BY <1>1, <2>1, LenProperties
  <2>3. DOMAIN ls = DOMAIN q \cup {Len(q) + 1}
    BY <2>1, <2>2
  <2>. HIDE DEF ls
  <2>4. PICK n : n = Len(q) + 1
    OBVIOUS
  <2>5. /\ DOMAIN ls = DOMAIN q \cup {n} /\ ls[n] = l
        /\ \A i \in DOMAIN q : ls[i] = q[i]
    BY <2>1, <2>2, <2>3, <2>4
  <2>6. ToSet(ls) = {ls[i] : i \in DOMAIN ls} /\ ToSet(q) = {q[i] : i \in DOMAIN q}
    BY DEF ToSet
  <2>7. ASSUME NEW v \in ToSet(ls)
        PROVE  v \in ToSet(q) \cup {l}
    BY <2>5, <2>6
  <2>8. ASSUME NEW v \in ToSet(q) \cup {l}
        PROVE  v \in ToSet(ls)
    BY <2>5, <2>6
  <2>. QED  BY <2>1, <2>7, <2>8
<1>3. objects' = [objects EXCEPT ![o] = x]
  OBVIOUS
<1>. HIDE DEF ls
<1>4. /\ x \in ObjectRecord /\ x.kind = objects[o].kind /\ x.name = objects[o].name
      /\ x.members = objects[o].members /\ x.links = ls
  BY <1>1, <1>2 DEF ObjectRecord
<1>. HIDE DEF x
<1>5. /\ Updated /\ objects'[o] = x
      /\ \A p \in Indices \ {o} : objects'[p] = objects[p]
  BY <1>3, <1>4, UpdateObject
<1>. QED  BY <1>2, <1>4, <1>5

\* What an update of one object keeps, when maps and brokers stay.
LEMMA UpdateKeeps ==
    ASSUME IInv, Updated, UNCHANGED <<entityDictionary, supplementProviders>>
    PROVE  MapsLeadToNames' /\ ObjectsAreFound'
<1>1. Types /\ MapsLeadToNames /\ ObjectsAreFound /\ Len(objects) \in Nat
  BY ObjectTypes DEF IInv
<1>2. \A o, kind, n : IsNamed(o, kind, n)' <=> IsNamed(o, kind, n)
  BY DEF Updated, IsNamed
<1>3. \A o \in Indices : IsFound(o)'
  <2>. TAKE o \in Indices
  <2>1. objects'[o].name = objects[o].name /\ objects'[o].kind = objects[o].kind
    BY DEF Updated
  <2>. QED  BY <1>1, <1>2, <2>1 DEF ObjectsAreFound, IsFound
<1>. QED  BY <1>1, <1>2, <1>3 DEF MapsLeadToNames, ObjectsAreFound, Updated

(***************************************************************************)
(* The calls of the configuration.                                         *)
(***************************************************************************)
LEMMA BuildProviderStep ==
    ASSUME IInv, NEW n \in Names, buildSupplementProvider(n)
    PROVE  IInv'
<1>0. /\ Types /\ LinksAreBuilt /\ BrokersAreBuilt /\ MapsLeadToNames
      /\ ObjectsAreFound /\ BrokersAreMarked
  BY DEF IInv
<1>1. /\ supplementProviders' = Emplaced(supplementProviders, n, Fresh)
      /\ builder' = Fresh
      /\ UNCHANGED <<process, entityDictionary, brokers>>
  BY DEF buildSupplementProvider, Continue
<1>2. Appended("provider", n)
  BY <1>0, AppendObject DEF buildSupplementProvider, Kinds
<1>3. /\ DOMAIN supplementProviders' = DOMAIN supplementProviders \cup {n}
      /\ \A k \in DOMAIN supplementProviders :
            supplementProviders'[k] = supplementProviders[k]
      /\ n \notin DOMAIN supplementProviders => supplementProviders'[n] = Fresh
  BY <1>1 DEF Emplaced
<1>4. Len(objects) \in Nat /\ Fresh = Len(objects) + 1
  BY <1>0, ObjectTypes DEF Fresh
<1>5. /\ objects'[Fresh].kind = "provider" /\ objects'[Fresh].name = n
      /\ objects'[Fresh].links = <<>>
  BY <1>2 DEF Appended, Object
<1>6. Types'
  BY <1>0, <1>1, <1>2, <1>3, <1>4 DEF Types, Appended
<1>7. LinksAreBuilt'
  <2>1. ToSet(<<>>) = {}
    BY EmptySeq DEF ToSet
  <2>. QED  BY <1>0, <1>2, <1>5, <2>1 DEF LinksAreBuilt, Appended
<1>8. BrokersAreBuilt' /\ BrokersAreMarked'
  BY <1>0, <1>1, <1>2 DEF BrokersAreBuilt, BrokersAreMarked, Appended
<1>9. \A o, kind, k : IsNamed(o, kind, k) => IsNamed(o, kind, k)'
  BY <1>2 DEF IsNamed, Appended
<1>10. MapsLeadToNames'
  BY <1>0, <1>1, <1>2, <1>3, <1>5, <1>9 DEF MapsLeadToNames, IsNamed, Appended
<1>11. ASSUME NEW o \in Indices
       PROVE  IsFound(o)'
  BY <1>0, <1>1, <1>2, <1>3, <1>9 DEF ObjectsAreFound, IsFound, Appended
<1>12. ASSUME NEW o, o = Fresh
       PROVE  IsFound(o)'
  <2>1. CASE n \notin DOMAIN supplementProviders
    BY <1>3, <1>5, <1>12, <2>1 DEF IsFound
  <2>2. CASE n \in DOMAIN supplementProviders
    <3>. PICK j : j = supplementProviders[n]
      OBVIOUS
    <3>1. j \in Indices /\ IsNamed(j, "provider", n)
      BY <1>0, <2>2 DEF MapsLeadToNames, IsNamed
    <3>2. j \in 1..(Fresh - 1)
      BY <1>4, <3>1 DEF Indices
    <3>. QED  BY <1>5, <1>9, <1>12, <3>1, <3>2 DEF IsFound
  <2>. QED  BY <2>1, <2>2
<1>. QED  BY <1>2, <1>6, <1>7, <1>8, <1>10, <1>11, <1>12 DEF IInv, ObjectsAreFound, Appended

LEMMA BuildEntityStep ==
    ASSUME IInv, NEW n \in Names, buildEntity(n), n \notin DOMAIN entityDictionary
    PROVE  IInv'
<1>0. /\ Types /\ LinksAreBuilt /\ BrokersAreBuilt /\ MapsLeadToNames
      /\ ObjectsAreFound /\ BrokersAreMarked
  BY DEF IInv
<1>1. /\ entityDictionary' = Emplaced(entityDictionary, n, Fresh)
      /\ builder' = Fresh
      /\ UNCHANGED <<process, supplementProviders, brokers>>
  BY DEF buildEntity, Continue
<1>2. Appended("entity", n)
  BY <1>0, AppendObject DEF buildEntity, Kinds
<1>3. /\ DOMAIN entityDictionary' = DOMAIN entityDictionary \cup {n}
      /\ \A k \in DOMAIN entityDictionary : entityDictionary'[k] = entityDictionary[k]
      /\ entityDictionary'[n] = Fresh
  BY <1>1 DEF Emplaced
<1>4. Len(objects) \in Nat /\ Fresh = Len(objects) + 1
  BY <1>0, ObjectTypes DEF Fresh
<1>5. /\ objects'[Fresh].kind = "entity" /\ objects'[Fresh].name = n
      /\ objects'[Fresh].links = <<>>
  BY <1>2 DEF Appended, Object
<1>6. Types'
  BY <1>0, <1>1, <1>2, <1>3, <1>4 DEF Types, Appended
<1>7. LinksAreBuilt'
  <2>1. ToSet(<<>>) = {}
    BY EmptySeq DEF ToSet
  <2>. QED  BY <1>0, <1>2, <1>5, <2>1 DEF LinksAreBuilt, Appended
<1>8. BrokersAreBuilt' /\ BrokersAreMarked'
  BY <1>0, <1>1, <1>2 DEF BrokersAreBuilt, BrokersAreMarked, Appended
<1>9. \A o, kind, k : IsNamed(o, kind, k) => IsNamed(o, kind, k)'
  BY <1>2 DEF IsNamed, Appended
<1>10. MapsLeadToNames'
  BY <1>0, <1>1, <1>2, <1>3, <1>5, <1>9 DEF MapsLeadToNames, IsNamed, Appended
<1>11. ASSUME NEW o \in Indices
       PROVE  IsFound(o)'
  BY <1>0, <1>1, <1>2, <1>3, <1>9 DEF ObjectsAreFound, IsFound, Appended
<1>12. ASSUME NEW o, o = Fresh
       PROVE  IsFound(o)'
  BY <1>3, <1>5, <1>12 DEF IsFound
<1>. QED  BY <1>2, <1>6, <1>7, <1>8, <1>10, <1>11, <1>12 DEF IInv, ObjectsAreFound, Appended

\* A call that throws: the process is not serving and will not be.
LEMMA ThrowKeeps ==
    ASSUME IInv, \E how \in {"thrown", "crashed"} : Stopped(how),
           UNCHANGED <<objects, entityDictionary, supplementProviders, builder, brokers>>
    PROVE  IInv'
BY DEF IInv, Stopped, Types, LinksAreBuilt, BrokersAreBuilt, MapsLeadToNames, IsNamed,
   ObjectsAreFound, IsFound, BrokersAreMarked, Indices

LEMMA AddMembersStep ==
    ASSUME IInv, NEW list \in MemberLists, addMembers(list), CanAdd(builder, list)
    PROVE  IInv'
<1>0. /\ Types /\ LinksAreBuilt /\ BrokersAreBuilt /\ BrokersAreMarked
  BY DEF IInv
<1>1. /\ objects' = WithMembers(builder, list)
      /\ UNCHANGED <<process, entityDictionary, supplementProviders, builder,
                     brokers>>
  BY DEF addMembers, Continue
<1>2. builder \in Indices /\ ToSet(list) \subseteq Members
  BY <1>0, ObjectTypes DEF addMembers, Types, Indices, Members
<1>3. Updated /\ \A p \in Indices : objects'[p].links = objects[p].links
  BY <1>0, <1>1, <1>2, AddMembers
<1>4. MapsLeadToNames' /\ ObjectsAreFound'
  BY <1>1, <1>3, UpdateKeeps
<1>5. Types' /\ LinksAreBuilt' /\ BrokersAreBuilt'
  BY <1>0, <1>1, <1>3 DEF Types, LinksAreBuilt, BrokersAreBuilt, Updated
<1>6. BrokersAreMarked'
  BY <1>0, <1>1, <1>3 DEF BrokersAreBuilt, BrokersAreMarked, Updated
<1>. QED  BY <1>4, <1>5, <1>6 DEF IInv

LEMMA LinkStep ==
    ASSUME IInv, NEW n \in Names, linkSupplementProvider(n),
           n \in DOMAIN supplementProviders
    PROVE  IInv'
<1>. DEFINE l == supplementProviders[n]
<1>0. Types /\ LinksAreBuilt /\ BrokersAreBuilt /\ MapsLeadToNames /\ BrokersAreMarked
  BY DEF IInv
<1>1. /\ objects' = [objects EXCEPT ![builder].links = Append(@, l)]
      /\ UNCHANGED <<process, entityDictionary, supplementProviders, builder,
                     brokers>>
  BY DEF linkSupplementProvider, Continue
<1>2. builder \in Indices /\ l \in Indices
  BY <1>0, ObjectTypes DEF linkSupplementProvider, Types, Indices, MapsLeadToNames, IsNamed
<1>. HIDE DEF l
<1>3. /\ Updated
      /\ ToSet(objects'[builder].links) = ToSet(objects[builder].links) \cup {l}
      /\ \A p \in Indices \ {builder} : objects'[p].links = objects[p].links
  BY <1>0, <1>1, <1>2, AddLink
<1>4. MapsLeadToNames' /\ ObjectsAreFound'
  BY <1>1, <1>3, UpdateKeeps
<1>5. LinksAreBuilt'
  BY <1>0, <1>2, <1>3 DEF LinksAreBuilt, Updated
<1>6. Types' /\ BrokersAreBuilt'
  BY <1>0, <1>1, <1>3 DEF Types, BrokersAreBuilt, Updated
<1>7. BrokersAreMarked'
  BY <1>0, <1>1, <1>3 DEF BrokersAreBuilt, BrokersAreMarked, Updated
<1>. QED  BY <1>4, <1>5, <1>6, <1>7 DEF IInv

\* The broker that addObject binds, before it knows whether it may.
LEMMA BindBroker ==
    ASSUME Types, BrokersAreBuilt, NEW q \in Rules, addObject(q)
    PROVE  /\ brokers' \in Seq(BrokerRecord)
           /\ \E new : /\ new \notin DOMAIN brokers
                       /\ DOMAIN brokers' = DOMAIN brokers \cup {new}
                       /\ brokers'[new].object = builder
           /\ \A b \in DOMAIN brokers : brokers'[b] = brokers[b]
           /\ builder \in Indices
           /\ \A b \in DOMAIN brokers' : brokers'[b].object \in Indices
<1>. DEFINE x == [object |-> builder, query |-> q]
            n == Len(brokers) + 1
<1>1. builder \in Indices /\ x \in BrokerRecord
  BY ObjectTypes DEF addObject, Types, Indices, BrokerRecord
<1>2. brokers' = Append(brokers, x) /\ brokers \in Seq(BrokerRecord)
  BY DEF addObject, Types
<1>3. x.object = builder
  OBVIOUS
<1>. HIDE DEF x
<1>4. /\ brokers' \in Seq(BrokerRecord) /\ Len(brokers') = n /\ Len(brokers) \in Nat
      /\ \A b \in 1..Len(brokers) : brokers'[b] = brokers[b]
      /\ brokers'[n] = x
  BY <1>1, <1>2, AppendProperties
<1>5. DOMAIN brokers = 1..Len(brokers) /\ DOMAIN brokers' = 1..n
  BY <1>2, <1>4, LenProperties
<1>6. n \notin DOMAIN brokers /\ DOMAIN brokers' = DOMAIN brokers \cup {n}
  BY <1>4, <1>5
<1>. QED  BY <1>1, <1>3, <1>4, <1>5, <1>6 DEF BrokersAreBuilt

LEMMA AddObjectStep ==
    ASSUME IInv, NEW q \in Rules, addObject(q)
    PROVE  IInv'
<1>0. /\ Types /\ LinksAreBuilt /\ BrokersAreBuilt /\ MapsLeadToNames
      /\ ObjectsAreFound /\ BrokersAreMarked
  BY DEF IInv
<1>1. PICK new : /\ new \notin DOMAIN brokers
                 /\ DOMAIN brokers' = DOMAIN brokers \cup {new}
                 /\ brokers'[new].object = builder
  BY <1>0, BindBroker
<1>2. /\ brokers' \in Seq(BrokerRecord) /\ builder \in Indices
      /\ \A b \in DOMAIN brokers : brokers'[b] = brokers[b]
      /\ \A b \in DOMAIN brokers' : brokers'[b].object \in Indices
      /\ UNCHANGED <<entityDictionary, supplementProviders, builder>>
  BY <1>0, BindBroker DEF addObject, Continue, Stopped
<1>3. CASE ~CanAdd(builder, Meta)
  <2>1. process' = "thrown" /\ UNCHANGED objects
    BY <1>3 DEF addObject, Stopped
  <2>2. Types' /\ LinksAreBuilt' /\ BrokersAreBuilt'
    BY <1>0, <1>1, <1>2, <2>1 DEF Types, LinksAreBuilt, BrokersAreBuilt, Indices
  <2>3. MapsLeadToNames' /\ ObjectsAreFound'
    BY <1>0, <1>2, <2>1 DEF MapsLeadToNames, ObjectsAreFound, IsNamed, IsFound, Indices
  <2>. QED  BY <2>1, <2>2, <2>3 DEF IInv, BrokersAreMarked
<1>4. CASE CanAdd(builder, Meta)
  <2>1. /\ process = "configuring" /\ process' = process
        /\ objects' = WithMembers(builder, Meta)
        /\ ToSet(Meta) \cap objects[builder].members = {}
    BY <1>4 DEF addObject, Configuring, CanAdd, Continue
  <2>2. /\ Updated
        /\ objects'[builder].members = objects[builder].members \cup ToSet(Meta)
        /\ \A p \in Indices : objects'[p].links = objects[p].links
    <3>1. ToSet(Meta) \subseteq Members
      BY DEF Members
    <3>. QED  BY <1>0, <1>2, <2>1, <3>1, AddMembers
  <2>3. MapsLeadToNames' /\ ObjectsAreFound'
    BY <1>2, <2>2, UpdateKeeps
  <2>4. Types' /\ LinksAreBuilt' /\ BrokersAreBuilt'
    BY <1>0, <1>1, <1>2, <2>1, <2>2 DEF Types, LinksAreBuilt, BrokersAreBuilt, Updated
  <2>5. \A b \in DOMAIN brokers : brokers[b].object # builder
    BY <1>0, <2>1, RegistryAssumption DEF BrokersAreMarked
  <2>6. BrokersAreMarked'
    BY <1>0, <1>1, <1>2, <2>1, <2>2, <2>5 DEF BrokersAreMarked, BrokersAreBuilt, Updated
  <2>. QED  BY <2>3, <2>4, <2>6 DEF IInv
<1>. QED  BY <1>3, <1>4

\* The steps that build nothing.
LEMMA OtherStep ==
    ASSUME IInv, UNCHANGED registryVars,
           initBrokers \/ UNCHANGED process
    PROVE  IInv'
<1>0. /\ Types /\ LinksAreBuilt /\ BrokersAreBuilt /\ MapsLeadToNames
      /\ ObjectsAreFound /\ BrokersAreMarked
  BY DEF IInv
<1>1. UNCHANGED <<objects, entityDictionary, supplementProviders, builder, brokers>>
  BY DEF registryVars
<1>2. \/ process' = process
      \/ process = "configuring" /\ process' = "serving"
  BY DEF initBrokers, Configuring
<1>3. LinksAreBuilt' /\ BrokersAreBuilt' /\ MapsLeadToNames' /\ ObjectsAreFound'
  BY <1>0, <1>1 DEF LinksAreBuilt, BrokersAreBuilt, MapsLeadToNames, IsNamed,
     ObjectsAreFound, IsFound, Indices
<1>4. Types' /\ BrokersAreMarked'
  BY <1>0, <1>1, <1>2 DEF Types, BrokersAreMarked
<1>. QED  BY <1>3, <1>4 DEF IInv

LEMMA NextIInv ==
    ASSUME IInv, [Next]_vars
    PROVE  IInv'
<1>1. CASE UNCHANGED vars
  BY <1>1, OtherStep DEF vars
<1>2. CASE initBrokers \/ Quiet
  BY <1>2, OtherStep DEF initBrokers, Quiet, vars
<1>3. ASSUME NEW n \in Names, buildSupplementProvider(n) \/ buildEntity(n)
      PROVE  IInv'
  BY <1>3, BuildProviderStep, BuildEntityStep, ThrowKeeps DEF buildEntity, registryVars
<1>4. ASSUME NEW n \in Names, linkSupplementProvider(n)
      PROVE  IInv'
  BY <1>4, LinkStep, ThrowKeeps DEF linkSupplementProvider
<1>5. ASSUME NEW n \in Names, addRelations(n)
      PROVE  IInv'
  BY <1>5, OtherStep, ThrowKeeps DEF addRelations, registryVars, Continue
<1>6. ASSUME NEW list \in MemberLists, addMembers(list)
      PROVE  IInv'
  BY <1>6, AddMembersStep, ThrowKeeps DEF addMembers
<1>7. ASSUME NEW q \in Rules, addObject(q)
      PROVE  IInv'
  BY <1>7, AddObjectStep
<1>. QED  BY <1>1, <1>2, <1>3, <1>4, <1>5, <1>6, <1>7 DEF Next
-----------------------------------------------------------------------------
(***************************************************************************)
(* The theorems.                                                           *)
(***************************************************************************)

\* The inductive invariant of the registry holds in every run of the builder
\* calls, whatever they are (EntityManager, EntityBuilder, DBusQueryBuilder).
THEOREM Invariance == Spec => []IInv
<1>1. Init => IInv
  BY InitIInv
<1>2. IInv /\ [Next]_vars => IInv'
  BY NextIInv
<1>. QED  BY <1>1, <1>2, PTL DEF Spec

\* Both maps of EntityManager, the builder, the links and the brokers only name
\* objects that were built.
THEOREM TypeCorrect == Spec => []TypeOK
<1>1. IInv => TypeOK
  <2>. SUFFICES ASSUME IInv PROVE TypeOK
    OBVIOUS
  <2>1. Types /\ LinksAreBuilt /\ BrokersAreBuilt /\ MapsLeadToNames
    BY DEF IInv
  <2>2. \A o \in Indices : objects[o] \in ObjectRecord
    BY <2>1, ObjectTypes
  <2>. QED  BY <2>1, <2>2 DEF Types, TypeOK, LinksAreBuilt, BrokersAreBuilt,
       MapsLeadToNames, IsNamed, ObjectRecord, Kinds
<1>. QED  BY <1>1, Invariance, PTL

\* A process that serves has no two brokers that fill one entity: the meta members
\* that addObject adds stop the second in Entity::addMember.
THEOREM ServingEntitiesHaveOneBroker == Spec => []OneBrokerPerEntity
<1>1. IInv => OneBrokerPerEntity
  BY DEF IInv, BrokersAreMarked, OneBrokerPerEntity
<1>. QED  BY <1>1, Invariance, PTL

\* What a broker fills is found under its name, but for a provider whose name
\* another provider had (EntityManager::buildSupplementProvider).
THEOREM OrphansAreNamedTwice == Spec => []OrphanOnlyIfNamedTwice
<1>1. IInv => OrphanOnlyIfNamedTwice
  BY DEF IInv, BrokersAreBuilt, ObjectsAreFound, IsFound, IsNamed, OrphanOnlyIfNamedTwice
<1>. QED  BY <1>1, Invariance, PTL
-----------------------------------------------------------------------------
(***************************************************************************)
(* The program itself.                                                     *)
(***************************************************************************)
AtACall == script \in Seq(Calls) /\ step \in Nat \ {0}

LEMMA CallsAreNext ==
    ASSUME AtACall, Configure
    PROVE  Next
<1>. PICK c : c = script[step]
  OBVIOUS
<1>1. c \in Calls
  <2>1. step \in 1..Len(script)
    BY LenProperties DEF AtACall, Configure
  <2>. QED  BY <2>1, ElementOfSeq DEF AtACall
<1>2. /\ c.op \in Builds \cup {"linkSupplementProvider", "addRelations"} => c.name \in Names
      /\ c.op = "addMembers" => c.list \in MemberLists
      /\ c.op = "addObject" => c.name \in Rules
  <2>1. CASE \E op \in Builds \cup {"linkSupplementProvider", "addRelations"}, n \in Names :
                 c = Call(op, n)
    BY <2>1 DEF Call, Builds
  <2>2. CASE \E n \in Names, l \in MemberLists : c = [Call("addMembers", n) EXCEPT !.list = l]
    <3>1. PICK n \in Names, l \in MemberLists : c = [Call("addMembers", n) EXCEPT !.list = l]
      BY <2>2
    <3>2. c.op = "addMembers" /\ c.list = l
      BY <3>1 DEF Call
    <3>. QED  BY <3>2 DEF Builds
  <2>3. CASE \E q \in Rules : c = Call("addObject", q)
    BY <2>3 DEF Call, Builds
  <2>. QED  BY <1>1, <2>1, <2>2, <2>3 DEF Calls
<1>. QED  BY <1>2 DEF Configure, Next, Builds

\* Whatever the script, the configuration of this program and of those near it are
\* runs of the registry, with the brokers and requests that follow
\* (Application::initEntityMap): the theorems above hold of them.
THEOREM MapIsAConfiguration == MapSpec => Spec
<1>1. MapInit => Init /\ AtACall
  BY MapAssumption DEF MapInit, AtACall
<1>2. AtACall /\ [MapNext]_<<vars, script, step>> => AtACall'
  BY DEF AtACall, MapNext, Configure, Serve, Gone
<1>3. AtACall /\ [MapNext]_<<vars, script, step>> => [Next]_vars
  BY CallsAreNext DEF MapNext, Serve, Gone, Next
<1>. QED  BY <1>1, <1>2, <1>3, PTL DEF MapSpec, Spec
-----------------------------------------------------------------------------
(***************************************************************************)
(* The calls of initEntityMap: sequences by their elements.                *)
(***************************************************************************)
\* s is a sequence, of whatever.
IsSequence(s) == s \in Seq(ToSet(s))

\* A sequence over any set is one over its own elements, and over any wider set.
LEMMA SequenceOf ==
    ASSUME NEW S, NEW s \in Seq(S)
    PROVE  IsSequence(s)
<1>1. Len(s) \in Nat /\ DOMAIN s = 1 .. Len(s) /\ s = [i \in 1 .. Len(s) |-> s[i]]
  BY LenProperties
<1>2. ToSet(s) = {s[i] : i \in 1 .. Len(s)}
  BY <1>1 DEF ToSet
<1>. QED  BY <1>1, <1>2 DEF IsSequence

LEMMA WiderSequence ==
    ASSUME NEW s, IsSequence(s), NEW S, ToSet(s) \subseteq S
    PROVE  s \in Seq(S)
<1>1. Len(s) \in Nat /\ s \in [1 .. Len(s) -> ToSet(s)]
  BY LenProperties DEF IsSequence
<1>2. s \in [1 .. Len(s) -> S]
  BY <1>1
<1>. QED  BY <1>1, <1>2

\* Concatenation, by elements.
Joined(q, s, t) ==
    /\ IsSequence(q) /\ Len(s) \in Nat /\ Len(t) \in Nat
    /\ Len(q) = Len(s) + Len(t)
    /\ \A i \in 1 .. Len(s) : q[i] = s[i]
    /\ \A i \in 1 .. Len(t) : q[Len(s) + i] = t[i]

\* Concatenation of any two sequences.
LEMMA ConcatIs ==
    ASSUME NEW s, IsSequence(s), NEW t, IsSequence(t)
    PROVE  Joined(s \o t, s, t)
<1>. PICK S : S = ToSet(s) \cup ToSet(t)
  OBVIOUS
<1>0. s \in Seq(S) /\ t \in Seq(S)
  BY WiderSequence
<1>1. Len(s) \in Nat /\ Len(t) \in Nat
  BY <1>0, LenProperties
<1>2. s \o t \in Seq(S) /\ Len(s \o t) = Len(s) + Len(t)
  BY <1>0, ConcatProperties
<1>3. \A i \in 1 .. Len(s) + Len(t) :
        (s \o t)[i] = IF i <= Len(s) THEN s[i] ELSE t[i - Len(s)]
  BY <1>0, ConcatProperties
<1>4. ASSUME NEW i \in 1 .. Len(t)
      PROVE  (s \o t)[Len(s) + i] = t[i]
  <2>1. /\ Len(s) + i \in 1 .. Len(s) + Len(t) /\ ~(Len(s) + i <= Len(s))
        /\ Len(s) + i - Len(s) = i
    BY <1>1
  <2>. QED  BY <1>3, <2>1
<1>5. IsSequence(s \o t)
  BY <1>2, SequenceOf
<1>. QED  BY <1>1, <1>2, <1>3, <1>4, <1>5 DEF Joined

\* Two sequences with the same elements are equal.
LEMMA SequenceEqual ==
    ASSUME NEW s, IsSequence(s), NEW t, IsSequence(t), Len(s) = Len(t),
           \A i \in 1 .. Len(s) : s[i] = t[i]
    PROVE  s = t
<1>. PICK S : S = ToSet(s) \cup ToSet(t)
  OBVIOUS
<1>0. s \in Seq(S) /\ t \in Seq(S)
  BY WiderSequence
<1>. QED  BY <1>0, SeqEqual

\* Tuples of the lengths this configuration has, whatever they hold.
LEMMA TuplesAreSequences ==
    /\ \A a : IsSequence(<<a>>)
    /\ \A a, b : IsSequence(<<a, b>>)
    /\ \A a, b, c : IsSequence(<<a, b, c>>)
    /\ \A a, b, c, d : IsSequence(<<a, b, c, d>>)
    /\ \A a, b, c, d, e, f : IsSequence(<<a, b, c, d, e, f>>)
    /\ \A a, b, c, d, e, f, g, h : IsSequence(<<a, b, c, d, e, f, g, h>>)
    /\ \A a, b, c, d, e, f, g, h, i : IsSequence(<<a, b, c, d, e, f, g, h, i>>)
BY DEF IsSequence, ToSet

\* Concatenations of tuples, as Chain makes them.
LEMMA JoinedTuples ==
    ASSUME NEW x, NEW y, NEW z, NEW w
    PROVE  /\ <<x, y>> \o <<>> = <<x, y>>
           /\ <<x, y>> \o <<z>> = <<x, y, z>>
           /\ <<x, y, z>> \o <<w>> = <<x, y, z, w>>
<1>1. PICK s : s = <<x, y>>
  OBVIOUS
<1>2. PICK t : t = <<z>>
  OBVIOUS
<1>3. PICK u : u = <<x, y, z>>
  OBVIOUS
<1>4. PICK v : v = <<w>>
  OBVIOUS
<1>5. PICK r : r = <<x, y, z, w>>
  OBVIOUS
<1>6. IsSequence(s) /\ IsSequence(t) /\ IsSequence(u) /\ IsSequence(v) /\ IsSequence(r)
  BY <1>1, <1>2, <1>3, <1>4, <1>5, TuplesAreSequences
<1>7. s \o t = u
  <2>1. Len(s) = 2 /\ Len(t) = 1 /\ Len(u) = 3
        /\ u[1] = s[1] /\ u[2] = s[2] /\ u[3] = t[1]
    BY <1>1, <1>2, <1>3
  <2>2. PICK q : q = s \o t
    OBVIOUS
  <2>3. IsSequence(q) /\ Len(q) = 3 /\ q[1] = s[1] /\ q[2] = s[2] /\ q[2 + 1] = t[1]
    <3>1. Joined(q, s, t)
      BY <1>6, <2>2, ConcatIs
    <3>. QED  BY <3>1, <2>1 DEF Joined
  <2>4. \A i \in 1 .. Len(q) : q[i] = u[i]
    BY <2>1, <2>3
  <2>5. q = u
    BY <1>6, <2>1, <2>3, <2>4, SequenceEqual
  <2>. QED  BY <2>2, <2>5
<1>8. u \o v = r
  <2>1. Len(u) = 3 /\ Len(v) = 1 /\ Len(r) = 4
        /\ r[1] = u[1] /\ r[2] = u[2] /\ r[3] = u[3] /\ r[4] = v[1]
    BY <1>3, <1>4, <1>5
  <2>2. PICK q : q = u \o v
    OBVIOUS
  <2>3. /\ IsSequence(q) /\ Len(q) = 4
        /\ q[1] = u[1] /\ q[2] = u[2] /\ q[3] = u[3] /\ q[3 + 1] = v[1]
    <3>1. Joined(q, u, v)
      BY <1>6, <2>2, ConcatIs
    <3>. QED  BY <3>1, <2>1 DEF Joined
  <2>4. \A i \in 1 .. Len(q) : q[i] = r[i]
    BY <2>1, <2>3
  <2>5. q = r
    BY <1>6, <2>1, <2>3, <2>4, SequenceEqual
  <2>. QED  BY <2>2, <2>5
<1>9. s \o <<>> = s
  BY <1>6, ConcatEmptySeq DEF IsSequence
<1>. QED  BY <1>1, <1>2, <1>3, <1>4, <1>5, <1>7, <1>8, <1>9

\* The calls for an entity without providers, and with one.
LEMMA NoLinks ==
    ASSUME NEW b, NEW n, NEW m, NEW q
    PROVE  Chain(b, n, m, <<>>, q)
             = <<Call(b, n), [Call("addMembers", n) EXCEPT !.list = m],
                 Call("addObject", q)>>
<1>1. PICK x : x = Call(b, n)
  OBVIOUS
<1>2. PICK y : y = [Call("addMembers", n) EXCEPT !.list = m]
  OBVIOUS
<1>3. PICK z : z = Call("addObject", q)
  OBVIOUS
<1>4. [i \in DOMAIN <<>> |-> Call("linkSupplementProvider", <<>>[i])] = <<>>
  OBVIOUS
<1>5. Chain(b, n, m, <<>>, q) = (<<x, y>> \o <<>>) \o <<z>>
  BY <1>1, <1>2, <1>3, <1>4, Zenon DEF Chain
<1>6. (<<x, y>> \o <<>>) \o <<z>> = <<x, y, z>>
  BY ONLY JoinedTuples, Zenon
<1>. QED  BY <1>1, <1>2, <1>3, <1>5, <1>6, Zenon

LEMMA OneLink ==
    ASSUME NEW b, NEW n, NEW m, NEW p, NEW q
    PROVE  Chain(b, n, m, <<p>>, q)
             = <<Call(b, n), [Call("addMembers", n) EXCEPT !.list = m],
                 Call("linkSupplementProvider", p), Call("addObject", q)>>
<1>1. PICK x : x = Call(b, n)
  OBVIOUS
<1>2. PICK y : y = [Call("addMembers", n) EXCEPT !.list = m]
  OBVIOUS
<1>3. PICK z : z = Call("addObject", q)
  OBVIOUS
<1>4. PICK l : l = Call("linkSupplementProvider", p)
  OBVIOUS
<1>5. [i \in DOMAIN <<p>> |-> Call("linkSupplementProvider", <<p>>[i])] = <<l>>
  BY <1>4
<1>6. Chain(b, n, m, <<p>>, q) = (<<x, y>> \o <<l>>) \o <<z>>
  BY <1>1, <1>2, <1>3, <1>5, Zenon DEF Chain
<1>7. (<<x, y>> \o <<l>>) \o <<z>> = <<x, y, l, z>>
  BY ONLY JoinedTuples, Zenon
<1>. QED  BY <1>1, <1>2, <1>3, <1>4, <1>6, <1>7, Zenon

\* The members of an entity with assets, and those of its own after them.
LEMMA AssetMembers ==
    /\ <<"Name", "Type">> \o assetMembers \o <<"BiosVersion", "BmcVersion", "Status">>
         = <<"Name", "Type", "Manufacturer", "Model", "PartNumber", "SerialNumber",
             "BiosVersion", "BmcVersion", "Status">>
    /\ <<"Name", "Type">> \o assetMembers \o <<"Status", "Endpoint">>
         = <<"Name", "Type", "Manufacturer", "Model", "PartNumber", "SerialNumber",
             "Status", "Endpoint">>
<1>1. PICK s : s = <<"Name", "Type">>
  OBVIOUS
<1>2. PICK t : t = assetMembers
  OBVIOUS
<1>3. /\ IsSequence(s) /\ Len(s) = 2 /\ s[1] = "Name" /\ s[2] = "Type"
  BY <1>1, TuplesAreSequences
<1>4. /\ IsSequence(t) /\ Len(t) = 4 /\ t[1] = "Manufacturer" /\ t[2] = "Model"
      /\ t[3] = "PartNumber" /\ t[4] = "SerialNumber"
  BY <1>2, TuplesAreSequences DEF assetMembers
<1>5. PICK m : m = s \o t
  OBVIOUS
<1>6. /\ IsSequence(m) /\ Len(m) = 6 /\ m[1] = "Name" /\ m[2] = "Type"
      /\ m[3] = "Manufacturer" /\ m[4] = "Model" /\ m[5] = "PartNumber"
      /\ m[6] = "SerialNumber"
  <2>1. Joined(m, s, t)
    BY <1>3, <1>4, <1>5, ConcatIs
  <2>2. m[2 + 1] = t[1] /\ m[2 + 2] = t[2] /\ m[2 + 3] = t[3] /\ m[2 + 4] = t[4]
    BY <2>1, <1>3, <1>4 DEF Joined
  <2>. QED  BY <2>1, <2>2, <1>3, <1>4 DEF Joined
<1>7. m \o <<"BiosVersion", "BmcVersion", "Status">>
        = <<"Name", "Type", "Manufacturer", "Model", "PartNumber", "SerialNumber",
            "BiosVersion", "BmcVersion", "Status">>
  <2>1. PICK e : e = <<"BiosVersion", "BmcVersion", "Status">>
    OBVIOUS
  <2>2. PICK u : u = <<"Name", "Type", "Manufacturer", "Model", "PartNumber",
                       "SerialNumber", "BiosVersion", "BmcVersion", "Status">>
    OBVIOUS
  <2>3. PICK q : q = m \o e
    OBVIOUS
  <2>4. IsSequence(e) /\ IsSequence(u)
    BY <2>1, <2>2, TuplesAreSequences
  <2>5. /\ Len(e) = 3 /\ e[1] = "BiosVersion" /\ e[2] = "BmcVersion" /\ e[3] = "Status"
    BY <2>1
  <2>6. /\ Len(u) = 9 /\ u[1] = "Name" /\ u[2] = "Type" /\ u[3] = "Manufacturer"
        /\ u[4] = "Model" /\ u[5] = "PartNumber" /\ u[6] = "SerialNumber"
        /\ u[7] = "BiosVersion" /\ u[8] = "BmcVersion" /\ u[9] = "Status"
    BY <2>2
  <2>7. Joined(q, m, e)
    BY <1>6, <2>3, <2>4, ConcatIs
  <2>8. /\ IsSequence(q) /\ Len(q) = 9 /\ \A i \in 1 .. 6 : q[i] = u[i]
        /\ q[6 + 1] = u[7] /\ q[6 + 2] = u[8] /\ q[6 + 3] = u[9]
    BY <2>5, <2>6, <2>7, <1>6 DEF Joined
  <2>9. \A i \in 1 .. Len(q) : q[i] = u[i]
    BY <2>8
  <2>10. q = u
    BY <2>4, <2>6, <2>8, <2>9, SequenceEqual
  <2>. QED  BY <2>1, <2>2, <2>3, <2>10
<1>8. m \o <<"Status", "Endpoint">>
        = <<"Name", "Type", "Manufacturer", "Model", "PartNumber", "SerialNumber",
            "Status", "Endpoint">>
  <2>1. PICK e : e = <<"Status", "Endpoint">>
    OBVIOUS
  <2>2. PICK u : u = <<"Name", "Type", "Manufacturer", "Model", "PartNumber",
                       "SerialNumber", "Status", "Endpoint">>
    OBVIOUS
  <2>3. PICK q : q = m \o e
    OBVIOUS
  <2>4. IsSequence(e) /\ IsSequence(u)
    BY <2>1, <2>2, TuplesAreSequences
  <2>5. /\ Len(e) = 2 /\ e[1] = "Status" /\ e[2] = "Endpoint"
    BY <2>1
  <2>6. /\ Len(u) = 8 /\ u[1] = "Name" /\ u[2] = "Type" /\ u[3] = "Manufacturer"
        /\ u[4] = "Model" /\ u[5] = "PartNumber" /\ u[6] = "SerialNumber"
        /\ u[7] = "Status" /\ u[8] = "Endpoint"
    BY <2>2
  <2>7. Joined(q, m, e)
    BY <1>6, <2>3, <2>4, ConcatIs
  <2>8. /\ IsSequence(q) /\ Len(q) = 8 /\ \A i \in 1 .. 6 : q[i] = u[i]
        /\ q[6 + 1] = u[7] /\ q[6 + 2] = u[8]
    BY <2>5, <2>6, <2>7, <1>6 DEF Joined
  <2>9. \A i \in 1 .. Len(q) : q[i] = u[i]
    BY <2>8
  <2>10. q = u
    BY <2>4, <2>6, <2>8, <2>9, SequenceEqual
  <2>. QED  BY <2>1, <2>2, <2>3, <2>10
<1>. QED  BY <1>1, <1>2, <1>5, <1>7, <1>8

\* The calls one after another.
Lies(s, n, t) == \A i \in 1 .. Len(t) : s[n + i] = t[i]

\* Where the two parts of a concatenation lie in it, and the parts of a part.
LEMMA Pieces ==
    ASSUME NEW s, IsSequence(s), NEW t, IsSequence(t)
    PROVE  /\ IsSequence(s \o t) /\ Len(s \o t) = Len(s) + Len(t)
           /\ Lies(s \o t, 0, s) /\ Lies(s \o t, Len(s), t)
<1>1. PICK q : q = s \o t
  OBVIOUS
<1>2. Joined(q, s, t)
  BY <1>1, ConcatIs
<1>3. \A i \in 1 .. Len(s) : q[0 + i] = s[i]
  BY <1>2 DEF Joined
<1>. QED  BY <1>1, <1>2, <1>3 DEF Lies, Joined

LEMMA PiecesOf ==
    ASSUME NEW s, NEW t, NEW u, NEW n \in Nat, Lies(u, 0, t), Lies(t, n, s),
           Len(t) \in Nat, Len(s) \in Nat, n + Len(s) <= Len(t)
    PROVE  Lies(u, n, s)
<1>. SUFFICES ASSUME NEW i \in 1 .. Len(s) PROVE u[n + i] = s[i]
  BY DEF Lies
<1>1. PICK j : j = n + i
  OBVIOUS
<1>2. j \in 1 .. Len(t) /\ 0 + j = j
  BY <1>1
<1>3. u[0 + j] = t[j]
  BY <1>2 DEF Lies
<1>. QED  BY <1>1, <1>2, <1>3 DEF Lies

\* initEntityMap is 23 calls, and where the chains lie in it.
LEMMA ScriptIs ==
    /\ IsSequence(initEntityMap) /\ Len(initEntityMap) = 23
    /\ Lies(initEntityMap, 0, statusProvider) /\ Lies(initEntityMap, 3, versionProvider)
    /\ Lies(initEntityMap, 6, relationsEntity) /\ Lies(initEntityMap, 9, sensorsEntity)
    /\ Lies(initEntityMap, 13, serverEntity) /\ Lies(initEntityMap, 17, chassisEntity)
    /\ Lies(initEntityMap, 20, baseboardEntity)
<1>0. /\ \A k, n, m, q : LET c == Chain(k, n, m, <<>>, q) IN IsSequence(c) /\ Len(c) = 3
      /\ \A k, n, m, p, q : LET c == Chain(k, n, m, <<p>>, q)
                            IN  IsSequence(c) /\ Len(c) = 4
  <2>1. /\ \A x, y, z : IsSequence(<<x, y, z>>) /\ Len(<<x, y, z>>) = 3
        /\ \A x, y, z, w : IsSequence(<<x, y, z, w>>) /\ Len(<<x, y, z, w>>) = 4
    BY TuplesAreSequences
  <2>2. ASSUME NEW k, NEW n, NEW m, NEW q
        PROVE  LET c == Chain(k, n, m, <<>>, q) IN IsSequence(c) /\ Len(c) = 3
    <3>. DEFINE x == Call(k, n)
                y == [Call("addMembers", n) EXCEPT !.list = m]
                z == Call("addObject", q)
    <3>1. Chain(k, n, m, <<>>, q) = <<x, y, z>>
      BY NoLinks
    <3>. HIDE DEF x, y, z
    <3>. QED  BY <2>1, <3>1
  <2>3. ASSUME NEW k, NEW n, NEW m, NEW p, NEW q
        PROVE  LET c == Chain(k, n, m, <<p>>, q) IN IsSequence(c) /\ Len(c) = 4
    <3>. DEFINE x == Call(k, n)
                y == [Call("addMembers", n) EXCEPT !.list = m]
                z == Call("linkSupplementProvider", p)
                w == Call("addObject", q)
    <3>1. Chain(k, n, m, <<p>>, q) = <<x, y, z, w>>
      BY OneLink
    <3>. HIDE DEF x, y, z, w
    <3>. QED  BY <2>1, <3>1
  <2>. QED  BY <2>2, <2>3, Zenon
<1>1. /\ IsSequence(statusProvider) /\ Len(statusProvider) = 3
      /\ IsSequence(versionProvider) /\ Len(versionProvider) = 3
      /\ IsSequence(relationsEntity) /\ Len(relationsEntity) = 3
      /\ IsSequence(chassisEntity) /\ Len(chassisEntity) = 3
      /\ IsSequence(baseboardEntity) /\ Len(baseboardEntity) = 3
  BY <1>0, Zenon
     DEF statusProvider, versionProvider, relationsEntity, chassisEntity, baseboardEntity
<1>2. /\ IsSequence(sensorsEntity) /\ Len(sensorsEntity) = 4
      /\ IsSequence(serverEntity) /\ Len(serverEntity) = 4
  BY <1>0, Zenon DEF sensorsEntity, serverEntity
<1>3. PICK b : b = statusProvider \o versionProvider
  OBVIOUS
<1>4. PICK c : c = b \o relationsEntity
  OBVIOUS
<1>5. PICK d : d = c \o sensorsEntity
  OBVIOUS
<1>6. PICK e : e = d \o serverEntity
  OBVIOUS
<1>7. PICK f : f = e \o chassisEntity
  OBVIOUS
<1>8. initEntityMap = f \o baseboardEntity
  BY <1>3, <1>4, <1>5, <1>6, <1>7 DEF initEntityMap
<1>13. /\ IsSequence(b) /\ Len(b) = 6
       /\ Lies(b, 0, statusProvider) /\ Lies(b, 3, versionProvider)
  <2>1. /\ IsSequence(b) /\ Len(b) = Len(statusProvider) + Len(versionProvider)
        /\ Lies(b, 0, statusProvider) /\ Lies(b, Len(statusProvider), versionProvider)
    BY ONLY <1>1, <1>3, Pieces
  <2>. QED  BY <2>1, <1>1
<1>14. IsSequence(c) /\ Len(c) = 9 /\ Lies(c, 0, b) /\ Lies(c, 6, relationsEntity)
  <2>1. /\ IsSequence(c) /\ Len(c) = Len(b) + Len(relationsEntity)
        /\ Lies(c, 0, b) /\ Lies(c, Len(b), relationsEntity)
    BY ONLY <1>1, <1>13, <1>4, Pieces
  <2>. QED  BY <2>1, <1>1, <1>13
<1>15. IsSequence(d) /\ Len(d) = 13 /\ Lies(d, 0, c) /\ Lies(d, 9, sensorsEntity)
  <2>1. /\ IsSequence(d) /\ Len(d) = Len(c) + Len(sensorsEntity)
        /\ Lies(d, 0, c) /\ Lies(d, Len(c), sensorsEntity)
    BY ONLY <1>2, <1>14, <1>5, Pieces
  <2>. QED  BY <2>1, <1>2, <1>14
<1>16. IsSequence(e) /\ Len(e) = 17 /\ Lies(e, 0, d) /\ Lies(e, 13, serverEntity)
  <2>1. /\ IsSequence(e) /\ Len(e) = Len(d) + Len(serverEntity)
        /\ Lies(e, 0, d) /\ Lies(e, Len(d), serverEntity)
    BY ONLY <1>2, <1>15, <1>6, Pieces
  <2>. QED  BY <2>1, <1>2, <1>15
<1>17. IsSequence(f) /\ Len(f) = 20 /\ Lies(f, 0, e) /\ Lies(f, 17, chassisEntity)
  <2>1. /\ IsSequence(f) /\ Len(f) = Len(e) + Len(chassisEntity)
        /\ Lies(f, 0, e) /\ Lies(f, Len(e), chassisEntity)
    BY ONLY <1>1, <1>16, <1>7, Pieces
  <2>. QED  BY <2>1, <1>1, <1>16
<1>18. /\ IsSequence(initEntityMap) /\ Len(initEntityMap) = 23
       /\ Lies(initEntityMap, 0, f) /\ Lies(initEntityMap, 20, baseboardEntity)
  <2>1. /\ IsSequence(initEntityMap) /\ Len(initEntityMap) = Len(f) + Len(baseboardEntity)
        /\ Lies(initEntityMap, 0, f) /\ Lies(initEntityMap, Len(f), baseboardEntity)
    BY ONLY <1>1, <1>17, <1>8, Pieces
  <2>. QED  BY <2>1, <1>1, <1>17
<1>21. Lies(initEntityMap, 17, chassisEntity) /\ Lies(initEntityMap, 0, e)
  <2>1. 17 + Len(chassisEntity) <= Len(f) /\ 0 + Len(e) <= Len(f)
        /\ Len(chassisEntity) \in Nat /\ Len(f) \in Nat /\ Len(e) \in Nat
    BY <1>1, <1>17, <1>16
  <2>. QED  BY <2>1, <1>17, <1>18, PiecesOf
<1>22. Lies(initEntityMap, 13, serverEntity) /\ Lies(initEntityMap, 0, d)
  <2>1. 13 + Len(serverEntity) <= Len(e) /\ 0 + Len(d) <= Len(e)
        /\ Len(serverEntity) \in Nat /\ Len(e) \in Nat /\ Len(d) \in Nat
    BY <1>2, <1>16, <1>15
  <2>. QED  BY <2>1, <1>16, <1>21, PiecesOf
<1>23. Lies(initEntityMap, 9, sensorsEntity) /\ Lies(initEntityMap, 0, c)
  <2>1. 9 + Len(sensorsEntity) <= Len(d) /\ 0 + Len(c) <= Len(d)
        /\ Len(sensorsEntity) \in Nat /\ Len(d) \in Nat /\ Len(c) \in Nat
    BY <1>2, <1>15, <1>14
  <2>. QED  BY <2>1, <1>15, <1>22, PiecesOf
<1>24. Lies(initEntityMap, 6, relationsEntity) /\ Lies(initEntityMap, 0, b)
  <2>1. 6 + Len(relationsEntity) <= Len(c) /\ 0 + Len(b) <= Len(c)
        /\ Len(relationsEntity) \in Nat /\ Len(c) \in Nat /\ Len(b) \in Nat
    BY <1>1, <1>14, <1>13
  <2>. QED  BY <2>1, <1>14, <1>23, PiecesOf
<1>25. Lies(initEntityMap, 3, versionProvider) /\ Lies(initEntityMap, 0, statusProvider)
  <2>1. 3 + Len(versionProvider) <= Len(b) /\ 0 + Len(statusProvider) <= Len(b)
        /\ Len(versionProvider) \in Nat /\ Len(b) \in Nat /\ Len(statusProvider) \in Nat
    BY <1>1, <1>13
  <2>. QED  BY <2>1, <1>13, <1>24, PiecesOf
<1>. QED  BY <1>18, <1>21, <1>22, <1>23, <1>24, <1>25

WithList(n, l) == [Call("addMembers", n) EXCEPT !.list = l]

\* The calls of a chain, where it lies.
LEMMA ThreeCalls ==
    ASSUME NEW s, NEW n, NEW k, NEW e, NEW l, NEW q, Lies(s, n, Chain(k, e, l, <<>>, q))
    PROVE  /\ s[n + 1] = Call(k, e) /\ s[n + 2] = WithList(e, l)
           /\ s[n + 3] = Call("addObject", q)
<1>1. PICK t : t = Chain(k, e, l, <<>>, q)
  OBVIOUS
<1>2. PICK x, y, z : x = Call(k, e) /\ y = WithList(e, l) /\ z = Call("addObject", q)
  OBVIOUS
<1>3. t = <<x, y, z>>
  BY <1>1, <1>2, NoLinks, Zenon DEF WithList
<1>4. Len(t) = 3 /\ t[1] = x /\ t[2] = y /\ t[3] = z
  BY <1>3
<1>5. \A i \in 1 .. Len(t) : s[n + i] = t[i]
  BY <1>1 DEF Lies
<1>6. s[n + 1] = x /\ s[n + 2] = y /\ s[n + 3] = z
  BY <1>4, <1>5
<1>. QED  BY <1>2, <1>6

LinkedCalls(s, n, k, e, l, p, q) ==
    /\ s[n + 1] = Call(k, e) /\ s[n + 2] = WithList(e, l)
    /\ s[n + 3] = Call("linkSupplementProvider", p) /\ s[n + 4] = Call("addObject", q)

LEMMA FourCalls ==
    ASSUME NEW s, NEW n, NEW k, NEW e, NEW l, NEW p, NEW q,
           NEW t, t = Chain(k, e, l, <<p>>, q), Lies(s, n, t)
    PROVE  LinkedCalls(s, n, k, e, l, p, q)
<1>1. t = Chain(k, e, l, <<p>>, q)
  OBVIOUS
<1>2. PICK x, y, z, w : /\ x = Call(k, e) /\ y = WithList(e, l) /\ w = Call("addObject", q)
                        /\ z = Call("linkSupplementProvider", p)
  OBVIOUS
<1>3. t = <<x, y, z, w>>
  <2>1. y = [Call("addMembers", e) EXCEPT !.list = l]
    BY <1>2 DEF WithList
  <2>2. Chain(k, e, l, <<p>>, q)
          = <<Call(k, e), [Call("addMembers", e) EXCEPT !.list = l],
              Call("linkSupplementProvider", p), Call("addObject", q)>>
    BY ONLY OneLink, Zenon
  <2>. QED  BY ONLY <1>1, <1>2, <2>1, <2>2, Zenon
<1>4. Len(t) = 4 /\ t[1] = x /\ t[2] = y /\ t[3] = z /\ t[4] = w
  BY <1>3
<1>5. \A i \in 1 .. Len(t) : s[n + i] = t[i]
  BY <1>1 DEF Lies
<1>6. s[n + 1] = x /\ s[n + 2] = y /\ s[n + 3] = z /\ s[n + 4] = w
  BY <1>4, <1>5
<1>. QED  BY <1>2, <1>6 DEF LinkedCalls

\* What initEntityMap builds, in order; links are indices of objects.
Planned(kind, n, l, links, q) ==
    [kind |-> kind, name |-> n, list |-> l, links |-> links, query |-> q]

Plan ==
    <<Planned("provider", "Status", <<"Status", "Causer">>, <<>>, "Status"),
      Planned("provider", "Version", <<"Purpose", "Version">>, <<>>, "Version"),
      Planned("entity", "Relations", <<"Endpoint", "Source", "Destination">>, <<>>,
              "Relation"),
      Planned("entity", "Sensors",
              <<"Name", "Reading", "Unit", "LowWarning", "LowCritical", "HighWarning",
                "HighCritical", "Status">>, <<1>>, "Sensors"),
      Planned("entity", "Server",
              <<"Name", "Type", "Manufacturer", "Model", "PartNumber", "SerialNumber",
                "BiosVersion", "BmcVersion", "Status">>, <<2>>, "Server"),
      Planned("entity", "Chassis", <<"Type", "PartNumber", "Manufacturer", "Status">>,
              <<>>, "Chassis"),
      Planned("entity", "Baseboard",
              <<"Name", "Type", "Manufacturer", "Model", "PartNumber", "SerialNumber",
                "Status", "Endpoint">>, <<>>, "Baseboard")>>

\* The number of calls before those of object c.
Before == <<0, 3, 6, 9, 13, 17, 20, 23>>

BuildOf(kind) == IF kind = "provider" THEN "buildSupplementProvider" ELSE "buildEntity"

CallsOf(c) ==
    /\ initEntityMap[Before[c] + 1] = Call(BuildOf(Plan[c].kind), Plan[c].name)
    /\ initEntityMap[Before[c] + 2] = WithList(Plan[c].name, Plan[c].list)
    /\ IF Plan[c].links = <<>>
       THEN Before[c + 1] = Before[c] + 3
       ELSE /\ Before[c + 1] = Before[c] + 4 /\ Plan[c].links = <<Plan[c].links[1]>>
            /\ Plan[c].links[1] \in 1 .. c - 1 /\ Plan[Plan[c].links[1]].kind = "provider"
            /\ initEntityMap[Before[c] + 3]
                 = Call("linkSupplementProvider", Plan[Plan[c].links[1]].name)
    /\ initEntityMap[Before[c + 1]] = Call("addObject", Plan[c].query)

\* The calls of initEntityMap are those of the plan.
LEMMA PlannedCalls == \A c \in 1 .. 7 : CallsOf(c)
<1>. PICK s : s = initEntityMap
  OBVIOUS
<1>1. CallsOf(1)
  <2>1. PICK l : l = <<"Status", "Causer">>
    OBVIOUS
  <2>2. Lies(s, 0, Chain("buildSupplementProvider", "Status", l, <<>>, "Status"))
    BY <2>1, ScriptIs, Zenon DEF statusProvider
  <2>3. /\ s[0 + 1] = Call("buildSupplementProvider", "Status")
        /\ s[0 + 2] = WithList("Status", l)
        /\ s[0 + 3] = Call("addObject", "Status")
    BY <2>2, ThreeCalls
  <2>4. Plan[1] = Planned("provider", "Status", l, <<>>, "Status")
    BY <2>1 DEF Plan
  <2>5. Before[1] = 0 /\ Before[1 + 1] = 3
    BY DEF Before
  <2>. QED  BY <2>3, <2>4, <2>5 DEF CallsOf, BuildOf, Planned
<1>2. CallsOf(2)
  <2>1. PICK l : l = <<"Purpose", "Version">>
    OBVIOUS
  <2>2. Lies(s, 3, Chain("buildSupplementProvider", "Version", l, <<>>, "Version"))
    BY <2>1, ScriptIs, Zenon DEF versionProvider
  <2>3. /\ s[3 + 1] = Call("buildSupplementProvider", "Version")
        /\ s[3 + 2] = WithList("Version", l)
        /\ s[3 + 3] = Call("addObject", "Version")
    BY <2>2, ThreeCalls
  <2>4. Plan[2] = Planned("provider", "Version", l, <<>>, "Version")
    BY <2>1 DEF Plan
  <2>5. Before[2] = 3 /\ Before[2 + 1] = 6
    BY DEF Before
  <2>. QED  BY <2>3, <2>4, <2>5 DEF CallsOf, BuildOf, Planned
<1>3. CallsOf(3)
  <2>1. PICK l : l = <<"Endpoint", "Source", "Destination">>
    OBVIOUS
  <2>2. Lies(s, 6, Chain("buildEntity", "Relations", l, <<>>, "Relation"))
    BY <2>1, ScriptIs, Zenon DEF relationsEntity
  <2>3. /\ s[6 + 1] = Call("buildEntity", "Relations")
        /\ s[6 + 2] = WithList("Relations", l)
        /\ s[6 + 3] = Call("addObject", "Relation")
    BY <2>2, ThreeCalls
  <2>4. Plan[3] = Planned("entity", "Relations", l, <<>>, "Relation")
    BY <2>1 DEF Plan
  <2>5. Before[3] = 6 /\ Before[3 + 1] = 9
    BY DEF Before
  <2>. QED  BY <2>3, <2>4, <2>5 DEF CallsOf, BuildOf, Planned
<1>4. CallsOf(4)
  <2>1. PICK l : l = <<"Name", "Reading", "Unit", "LowWarning", "LowCritical",
                      "HighWarning", "HighCritical", "Status">>
    OBVIOUS
  <2>2. /\ Lies(s, 9, sensorsEntity)
        /\ sensorsEntity = Chain("buildEntity", "Sensors", l, <<"Status">>, "Sensors")
    BY <2>1, ScriptIs, Zenon DEF sensorsEntity
  <2>3. LinkedCalls(s, 9, "buildEntity", "Sensors", l, "Status", "Sensors")
    BY <2>2, FourCalls
  <2>4. /\ Plan[4] = Planned("entity", "Sensors", l, <<1>>, "Sensors")
        /\ Plan[1].kind = "provider" /\ Plan[1].name = "Status"
    BY <2>1 DEF Plan, Planned
  <2>5. Before[4] = 9 /\ Before[4 + 1] = 13
    BY DEF Before
  <2>. QED  BY <2>3, <2>4, <2>5 DEF LinkedCalls, CallsOf, BuildOf, Planned
<1>5. CallsOf(5)
  <2>1. PICK l : l = <<"Name", "Type", "Manufacturer", "Model", "PartNumber",
                      "SerialNumber", "BiosVersion", "BmcVersion", "Status">>
    OBVIOUS
  <2>2. /\ Lies(s, 13, serverEntity)
        /\ serverEntity = Chain("buildEntity", "Server", l, <<"Version">>, "Server")
    BY <2>1, ScriptIs, AssetMembers, Zenon DEF serverEntity
  <2>3. LinkedCalls(s, 13, "buildEntity", "Server", l, "Version", "Server")
    BY <2>2, FourCalls
  <2>4. /\ Plan[5] = Planned("entity", "Server", l, <<2>>, "Server")
        /\ Plan[2].kind = "provider" /\ Plan[2].name = "Version"
    BY <2>1 DEF Plan, Planned
  <2>5. Before[5] = 13 /\ Before[5 + 1] = 17
    BY DEF Before
  <2>. QED  BY <2>3, <2>4, <2>5 DEF LinkedCalls, CallsOf, BuildOf, Planned
<1>6. CallsOf(6)
  <2>1. PICK l : l = <<"Type", "PartNumber", "Manufacturer", "Status">>
    OBVIOUS
  <2>2. Lies(s, 17, Chain("buildEntity", "Chassis", l, <<>>, "Chassis"))
    BY <2>1, ScriptIs, Zenon DEF chassisEntity
  <2>3. /\ s[17 + 1] = Call("buildEntity", "Chassis")
        /\ s[17 + 2] = WithList("Chassis", l)
        /\ s[17 + 3] = Call("addObject", "Chassis")
    BY <2>2, ThreeCalls
  <2>4. Plan[6] = Planned("entity", "Chassis", l, <<>>, "Chassis")
    BY <2>1 DEF Plan
  <2>5. Before[6] = 17 /\ Before[6 + 1] = 20
    BY DEF Before
  <2>. QED  BY <2>3, <2>4, <2>5 DEF CallsOf, BuildOf, Planned
<1>7. CallsOf(7)
  <2>1. PICK l : l = <<"Name", "Type", "Manufacturer", "Model", "PartNumber",
                      "SerialNumber", "Status", "Endpoint">>
    OBVIOUS
  <2>2. Lies(s, 20, Chain("buildEntity", "Baseboard", l, <<>>, "Baseboard"))
    BY <2>1, ScriptIs, AssetMembers, Zenon DEF baseboardEntity
  <2>3. /\ s[20 + 1] = Call("buildEntity", "Baseboard")
        /\ s[20 + 2] = WithList("Baseboard", l)
        /\ s[20 + 3] = Call("addObject", "Baseboard")
    BY <2>2, ThreeCalls
  <2>4. Plan[7] = Planned("entity", "Baseboard", l, <<>>, "Baseboard")
    BY <2>1 DEF Plan
  <2>5. Before[7] = 20 /\ Before[7 + 1] = 23
    BY DEF Before
  <2>. QED  BY <2>3, <2>4, <2>5 DEF CallsOf, BuildOf, Planned
<1>. QED  BY <1>1, <1>2, <1>3, <1>4, <1>5, <1>6, <1>7
-----------------------------------------------------------------------------
(***************************************************************************)
(* Where a process is that runs them.                                      *)
(***************************************************************************)
\* No name is twice in the list, and none is a meta member.
FitList(l) ==
    /\ IsInjective(l)
    /\ \A i \in DOMAIN l : /\ l[i] # "__meta_field__object_path"
                          /\ l[i] # "__meta_field__object_service"

\* Why no call of the plan throws: no name is given twice, and no member is.
LEMMA PlanIsFit ==
    ASSUME Meta = metaMembers
    PROVE  /\ \A c, d \in 1 .. 7 : Plan[c].name = Plan[d].name => c = d
           /\ \A c \in 1 .. 7 : /\ Plan[c].kind \in {"entity", "provider"}
                                /\ IsInjective(Plan[c].list)
                                /\ ToSet(Plan[c].list) \cap ToSet(Meta) = {}
           /\ IsInjective(Meta)
<1>1. \A c, d \in 1 .. 7 : Plan[c].name = Plan[d].name => c = d
  BY DEF Plan, Planned
<1>2. \A c \in 1 .. 7 : Plan[c].kind \in {"entity", "provider"}
  BY DEF Plan, Planned
<1>3. \A c \in 1 .. 7 : FitList(Plan[c].list)
  <2>1. FitList(Plan[1].list)
    <3>1. PICK l : l = Plan[1].list
      OBVIOUS
    <3>2. l = <<"Status", "Causer">>
      BY <3>1 DEF Plan, Planned
    <3>. QED  BY <3>1, <3>2 DEF FitList, IsInjective
  <2>2. FitList(Plan[2].list)
    <3>1. PICK l : l = Plan[2].list
      OBVIOUS
    <3>2. l = <<"Purpose", "Version">>
      BY <3>1 DEF Plan, Planned
    <3>. QED  BY <3>1, <3>2 DEF FitList, IsInjective
  <2>3. FitList(Plan[3].list)
    <3>1. PICK l : l = Plan[3].list
      OBVIOUS
    <3>2. l = <<"Endpoint", "Source", "Destination">>
      BY <3>1 DEF Plan, Planned
    <3>. QED  BY <3>1, <3>2 DEF FitList, IsInjective
  <2>4. FitList(Plan[4].list)
    <3>1. PICK l : l = Plan[4].list
      OBVIOUS
    <3>2. l = <<"Name", "Reading", "Unit", "LowWarning", "LowCritical", "HighWarning",
               "HighCritical", "Status">>
      BY <3>1 DEF Plan, Planned
    <3>. QED  BY <3>1, <3>2 DEF FitList, IsInjective
  <2>5. FitList(Plan[5].list)
    <3>1. PICK l : l = Plan[5].list
      OBVIOUS
    <3>2. l = <<"Name", "Type", "Manufacturer", "Model", "PartNumber", "SerialNumber",
               "BiosVersion", "BmcVersion", "Status">>
      BY <3>1 DEF Plan, Planned
    <3>. QED  BY <3>1, <3>2 DEF FitList, IsInjective
  <2>6. FitList(Plan[6].list)
    <3>1. PICK l : l = Plan[6].list
      OBVIOUS
    <3>2. l = <<"Type", "PartNumber", "Manufacturer", "Status">>
      BY <3>1 DEF Plan, Planned
    <3>. QED  BY <3>1, <3>2 DEF FitList, IsInjective
  <2>7. FitList(Plan[7].list)
    <3>1. PICK l : l = Plan[7].list
      OBVIOUS
    <3>2. l = <<"Name", "Type", "Manufacturer", "Model", "PartNumber", "SerialNumber",
               "Status", "Endpoint">>
      BY <3>1 DEF Plan, Planned
    <3>. QED  BY <3>1, <3>2 DEF FitList, IsInjective
  <2>. QED  BY <2>1, <2>2, <2>3, <2>4, <2>5, <2>6, <2>7
<1>4. ToSet(metaMembers) = {"__meta_field__object_path", "__meta_field__object_service"}
  BY DEF ToSet, metaMembers
<1>5. IsInjective(metaMembers)
  BY DEF metaMembers, IsInjective
<1>6. \A c \in 1 .. 7 : ToSet(Plan[c].list) \cap ToSet(metaMembers) = {}
  BY <1>3, <1>4 DEF FitList, ToSet
<1>. QED  BY <1>1, <1>2, <1>3, <1>5, <1>6 DEF FitList

\* Where the configuration is: at object c, which was built, has its members,
\* has its link, or is done.
Phases == {"built", "filled", "linked", "done"}

Expected(c, phase) ==
    [kind |-> Plan[c].kind, name |-> Plan[c].name,
     members |-> IF phase = "built" THEN {}
                 ELSE ToSet(Plan[c].list) \cup (IF phase = "done" THEN ToSet(Meta) ELSE {}),
     links |-> IF phase \in {"linked", "done"} THEN Plan[c].links ELSE <<>>]

\* The objects of the plan so far are in the map of their kind, and no others.
Holds(map, kind, c) ==
    /\ \A i \in 1 .. c : Plan[i].kind = kind =>
          Plan[i].name \in DOMAIN map /\ map[Plan[i].name] = i
    /\ \A n \in DOMAIN map : \E i \in 1 .. c : Plan[i].kind = kind /\ Plan[i].name = n

ObjectsAre(c, phase) ==
    /\ Len(objects) = c /\ builder = c
    /\ \A i \in 1 .. c : objects[i] = Expected(i, IF i < c THEN "done" ELSE phase)

BrokersAre(n) ==
    /\ Len(brokers) = n
    /\ \A i \in 1 .. n : brokers[i] = [object |-> i, query |-> Plan[i].query]

MapsAre(c) ==
    Holds(entityDictionary, "entity", c) /\ Holds(supplementProviders, "provider", c)

\* The calls made by then.
Made(c, phase) ==
    CASE phase = "built" -> Before[c] + 1
      [] phase = "filled" -> Before[c] + 2
      [] phase = "linked" -> Before[c] + 3
      [] phase = "done" -> Before[c + 1]

Reached(c, phase) ==
    /\ c \in 0 .. 7 /\ phase \in Phases
    /\ c = 0 => phase = "done"
    /\ phase = "linked" => Plan[c].links # <<>>
    /\ ObjectsAre(c, phase)
    /\ BrokersAre(IF phase = "done" THEN c ELSE c - 1)
    /\ MapsAre(c)
    /\ step = Made(c, phase) + 1

OnPlan == \E c \in 0 .. 7, phase \in Phases : Reached(c, phase)

Planning ==
    script = initEntityMap =>
        /\ process \in {"configuring", "serving"}
        /\ OnPlan
        /\ process = "serving" => step > 23

\* How many calls there are before each object.
LEMMA CountCalls ==
    /\ Before[1] = 0 /\ Before[8] = 23
    /\ \A c \in 1 .. 8 : Before[c] \in Nat
    /\ \A c \in 1 .. 7 : Before[c] + 3 <= Before[c + 1]
    /\ \A c \in 0 .. 7 : Before[c + 1] = 23 => c = 7
    /\ \A c \in 0 .. 7 : c + 1 \in 1 .. 8
<1>1. \A c \in 0 .. 7 : c + 1 \in 1 .. 8
  OBVIOUS
<1>. QED  BY <1>1 DEF Before

\* Before the first call.
LEMMA InitPlanning == ASSUME MapInit, IInv PROVE Planning
<1>1. Len(objects) = 0 /\ Len(brokers) = 0 /\ builder = 0 /\ step = Made(0, "done") + 1
      /\ process = "configuring"
  BY CountCalls, EmptySeq DEF MapInit, Init, Made
<1>2. MapsAre(0)
  BY DEF MapInit, Init, MapsAre, Holds
<1>3. Reached(0, "done")
  BY <1>1, <1>2 DEF Reached, Phases, ObjectsAre, BrokersAre
<1>4. OnPlan
  BY <1>3 DEF OnPlan, Phases
<1>. QED  BY <1>1, <1>4 DEF Planning

\* The call that is next, and the only action that it can be.
Runs(x) ==
    \/ x.op = "buildSupplementProvider" /\ buildSupplementProvider(x.name)
    \/ x.op = "buildEntity" /\ buildEntity(x.name)
    \/ x.op = "addMembers" /\ addMembers(x.list)
    \/ x.op = "addRelations" /\ addRelations(x.name)
    \/ x.op = "linkSupplementProvider" /\ linkSupplementProvider(x.name)
    \/ x.op = "addObject" /\ addObject(x.name)

LEMMA NextCall ==
    ASSUME script = initEntityMap, Configure, NEW n, step = n + 1,
           NEW x, initEntityMap[n + 1] = x
    PROVE  Runs(x) /\ step' = n + 1 + 1 /\ step <= 23
<1>1. Len(initEntityMap) = 23
  BY ScriptIs
<1>. QED  BY <1>1 DEF Configure, Runs

\* The next object of the plan: its name is free, and emplacing it keeps the maps.
LEMMA HoldsMore ==
    ASSUME Meta = metaMembers, NEW map, NEW kind, NEW c \in 0 .. 6, NEW d, d = c + 1,
           Holds(map, kind, c)
    PROVE  /\ Plan[d].name \notin DOMAIN map
           /\ Plan[d].kind = kind => Holds(Emplaced(map, Plan[d].name, d), kind, d)
           /\ Plan[d].kind # kind => Holds(map, kind, d)
<1>1. d \in 1 .. 7 /\ \A i \in 1 .. d : i \in 1 .. c \/ i = d
  OBVIOUS
<1>1a. \A i \in 1 .. c : i \in 1 .. 7 /\ i # d /\ i \in 1 .. d
  OBVIOUS
<1>2. \A i \in 1 .. c : Plan[i].name # Plan[d].name
  BY <1>1, <1>1a, PlanIsFit
<1>3. Plan[d].name \notin DOMAIN map
  BY <1>2 DEF Holds
<1>4. ASSUME Plan[d].kind = kind PROVE Holds(Emplaced(map, Plan[d].name, d), kind, d)
  <2>1. PICK m : m = Emplaced(map, Plan[d].name, d)
    OBVIOUS
  <2>2. /\ DOMAIN m = DOMAIN map \cup {Plan[d].name}
        /\ \A n \in DOMAIN map : m[n] = map[n]
        /\ m[Plan[d].name] = d
    BY <2>1, <1>3 DEF Emplaced
  <2>3. \A i \in 1 .. d : Plan[i].kind = kind =>
           Plan[i].name \in DOMAIN m /\ m[Plan[i].name] = i
    BY <2>2, <1>1 DEF Holds
  <2>4. \A n \in DOMAIN m : \E i \in 1 .. d : Plan[i].kind = kind /\ Plan[i].name = n
    <3>. SUFFICES ASSUME NEW n \in DOMAIN m
                  PROVE  \E i \in 1 .. d : Plan[i].kind = kind /\ Plan[i].name = n
      OBVIOUS
    <3>1. CASE n = Plan[d].name
      BY <3>1, <1>4, <1>1
    <3>2. CASE n # Plan[d].name
      BY <3>2, <2>2, <1>1a DEF Holds
    <3>. QED  BY <3>1, <3>2
  <2>. QED  BY <2>1, <2>3, <2>4 DEF Holds
<1>5. ASSUME Plan[d].kind # kind PROVE Holds(map, kind, d)
  BY <1>5, <1>1, <1>1a DEF Holds
<1>. QED  BY <1>3, <1>4, <1>5

\* buildSupplementProvider or buildEntity.
LEMMA PlannedBuild ==
    ASSUME Meta = metaMembers, script = initEntityMap, Configure, Types,
           process = "configuring", NEW c, Reached(c, "done")
    PROVE  Reached(c + 1, "built")' /\ process' = "configuring"
<1>1. PICK d : d = c + 1
  OBVIOUS
<1>2. PICK n : n = Before[d]
  OBVIOUS
<1>3. c \in 0 .. 7 /\ step = n + 1
  BY <1>1, <1>2 DEF Reached, Made
<1>4. step <= 23 /\ step' = n + 1 + 1
  BY <1>3, NextCall
<1>5. c \in 0 .. 6 /\ d \in 1 .. 7 /\ n \in Nat /\ d - 1 = c
  BY <1>1, <1>2, <1>3, <1>4, CountCalls
<1>6. Runs(Call(BuildOf(Plan[d].kind), Plan[d].name))
  BY <1>2, <1>3, <1>5, NextCall, PlannedCalls DEF CallsOf
<1>7. PICK name, kind : name = Plan[d].name /\ kind = Plan[d].kind
  OBVIOUS
<1>8. kind \in {"entity", "provider"}
  BY <1>5, <1>7, PlanIsFit
<1>9. MapsAre(c) /\ ObjectsAre(c, "done") /\ BrokersAre(c)
  BY DEF Reached
<1>10. Fresh = d
  BY <1>9, <1>1 DEF ObjectsAre, Fresh
<1>11. /\ objects' = Append(objects, Object(kind, name)) /\ builder' = d
       /\ UNCHANGED brokers /\ process' = "configuring"
       /\ MapsAre(d)'
  <2>1. CASE kind = "provider"
    <3>1. buildSupplementProvider(name)
      BY <1>6, <1>7, <2>1 DEF Runs, BuildOf, Call
    <3>2. /\ supplementProviders' = Emplaced(supplementProviders, name, d)
          /\ entityDictionary' = entityDictionary
      BY <3>1, <1>10 DEF buildSupplementProvider
    <3>3. MapsAre(d)'
      BY <3>2, <2>1, <1>1, <1>5, <1>7, <1>9, HoldsMore DEF MapsAre
    <3>. QED  BY <3>1, <3>3, <2>1, <1>10 DEF buildSupplementProvider, Continue
  <2>2. CASE kind = "entity"
    <3>1. buildEntity(name)
      BY <1>6, <1>7, <2>2 DEF Runs, BuildOf, Call
    <3>2. name \notin DOMAIN entityDictionary
      BY <1>1, <1>5, <1>7, <1>9, HoldsMore DEF MapsAre
    <3>3. /\ entityDictionary' = Emplaced(entityDictionary, name, d)
          /\ supplementProviders' = supplementProviders
      BY <3>1, <3>2, <1>10 DEF buildEntity
    <3>4. MapsAre(d)'
      BY <3>3, <2>2, <1>1, <1>5, <1>7, <1>9, HoldsMore DEF MapsAre
    <3>. QED  BY <3>1, <3>2, <3>4, <2>2, <1>10 DEF buildEntity, Continue
  <2>. QED  BY <1>8, <2>1, <2>2
<1>12. ObjectsAre(d, "built")'
  <2>1. /\ Len(objects') = d /\ objects'[d] = Object(kind, name)
        /\ \A i \in 1 .. c : objects'[i] = objects[i]
    <3>1. Len(objects) = c /\ objects \in Seq(ObjectRecord)
      BY <1>9 DEF ObjectsAre, Types
    <3>. QED  BY <3>1, <1>1, <1>11, <1>5, AppendProperties
  <2>2. Object(kind, name) = Expected(d, "built")
    BY <1>7 DEF Object, Expected
  <2>3. ASSUME NEW i \in 1 .. d
        PROVE  objects'[i] = Expected(i, IF i < d THEN "done" ELSE "built")
    <3>1. CASE i = d
      BY <3>1, <2>1, <2>2, <1>5
    <3>2. CASE i # d
      <4>1. i \in 1 .. c /\ i < d
        BY <3>2, <1>1, <1>5
      <4>2. objects[i] = Expected(i, "done")
        BY <4>1, <1>9 DEF ObjectsAre
      <4>. QED  BY <4>1, <4>2, <2>1
    <3>. QED  BY <3>1, <3>2
  <2>. QED  BY <2>1, <2>3, <1>11 DEF ObjectsAre, Expected
<1>13. BrokersAre(d - 1)'
  BY <1>5, <1>9, <1>11 DEF BrokersAre
<1>14. step' = Made(d, "built") + 1
  BY <1>2, <1>4 DEF Made
<1>. QED  BY <1>1, <1>5, <1>11, <1>12, <1>13, <1>14 DEF Reached, Phases, Made

\* A call on the last object changes that one only.
LEMMA LastObject ==
    ASSUME Types, Types', NEW c \in 1 .. 7, NEW p, NEW q, ObjectsAre(c, p),
           builder' = builder, DOMAIN objects' = DOMAIN objects,
           \A i \in 1 .. c : i < c => objects'[i] = objects[i],
           objects'[c] = Expected(c, q)
    PROVE  ObjectsAre(c, q)'
<1>1. Len(objects) = c /\ objects \in Seq(ObjectRecord) /\ objects' \in Seq(ObjectRecord)
  BY DEF ObjectsAre, Types
<1>2. Len(objects') = c
  <2>1. /\ DOMAIN objects = 1 .. c /\ DOMAIN objects' = 1 .. Len(objects')
        /\ Len(objects') \in Nat
    BY <1>1, LenProperties
  <2>. QED  BY <2>1
<1>3. ASSUME NEW i \in 1 .. c
      PROVE  objects'[i] = Expected(i, IF i < c THEN "done" ELSE q)
  <2>1. CASE i = c
    BY <2>1
  <2>2. CASE i # c
    <3>1. i < c
      BY <2>2
    <3>. QED  BY <3>1 DEF ObjectsAre
  <2>. QED  BY <2>1, <2>2
<1>. QED  BY <1>2, <1>3 DEF ObjectsAre, Expected

\* addMembers.
LEMMA PlannedMembers ==
    ASSUME Meta = metaMembers, script = initEntityMap, Configure, Types, Types',
           process = "configuring", NEW c, Reached(c, "built")
    PROVE  Reached(c, "filled")' /\ process' = "configuring"
<1>1. PICK n : n = Before[c] + 1
  OBVIOUS
<1>2. c \in 1 .. 7 /\ step = n + 1
  BY <1>1 DEF Reached, Made
<1>3. n + 1 = Before[c] + 2
  <2>1. Before[c] \in Nat
    <3>1. c \in 1 .. 8
      BY <1>2
    <3>. QED  BY ONLY <3>1, CountCalls
  <2>2. PICK b : b = Before[c]
    OBVIOUS
  <2>. QED  BY ONLY <1>1, <2>1, <2>2
<1>4. step' = n + 1 + 1 /\ Runs(WithList(Plan[c].name, Plan[c].list))
  BY <1>2, <1>3, NextCall, PlannedCalls DEF CallsOf
<1>5. addMembers(Plan[c].list)
  BY <1>4 DEF Runs, WithList, Call
<1>6. ObjectsAre(c, "built") /\ BrokersAre(c - 1) /\ MapsAre(c)
  BY DEF Reached
<1>7. objects[c] = Expected(c, "built") /\ builder = c /\ c \in DOMAIN objects
  BY <1>2, <1>6 DEF ObjectsAre, Types
<1>8. CanAdd(c, Plan[c].list)
  BY <1>2, <1>7, PlanIsFit DEF CanAdd, Expected
<1>9. /\ objects' = WithMembers(c, Plan[c].list) /\ process' = "configuring"
      /\ UNCHANGED <<entityDictionary, supplementProviders, builder, brokers>>
  BY <1>5, <1>7, <1>8 DEF addMembers, Continue
<1>10. /\ DOMAIN objects' = DOMAIN objects
       /\ \A i \in 1 .. c : i < c => objects'[i] = objects[i]
       /\ objects'[c] = [objects[c] EXCEPT !.members = @ \cup ToSet(Plan[c].list)]
  BY <1>7, <1>9 DEF WithMembers
<1>11. objects'[c] = Expected(c, "filled")
  BY <1>7, <1>10 DEF Expected
<1>12. ObjectsAre(c, "filled")'
  BY <1>2, <1>6, <1>9, <1>10, <1>11, LastObject
<1>13. BrokersAre(c - 1)' /\ MapsAre(c)'
  BY <1>6, <1>9 DEF BrokersAre, MapsAre
<1>14. step' = Made(c, "filled") + 1
  BY <1>3, <1>4 DEF Made
<1>. QED  BY <1>2, <1>9, <1>12, <1>13, <1>14 DEF Reached, Phases

\* linkSupplementProvider.
LEMMA PlannedLink ==
    ASSUME Meta = metaMembers, script = initEntityMap, Configure, Types, Types',
           process = "configuring", NEW c, Reached(c, "filled"), Plan[c].links # <<>>
    PROVE  Reached(c, "linked")' /\ process' = "configuring"
<1>1. PICK n : n = Before[c] + 2
  OBVIOUS
<1>2. c \in 1 .. 7 /\ step = n + 1
  BY <1>1 DEF Reached, Made
<1>3. n + 1 = Before[c] + 3
  <2>1. Before[c] \in Nat
    <3>1. c \in 1 .. 8
      BY <1>2
    <3>. QED  BY ONLY <3>1, CountCalls
  <2>2. PICK b : b = Before[c]
    OBVIOUS
  <2>. QED  BY ONLY <1>1, <2>1, <2>2
<1>4. PICK p : p = Plan[c].links[1]
  OBVIOUS
<1>5. /\ Plan[c].links = <<p>> /\ p \in 1 .. c - 1 /\ Plan[p].kind = "provider"
      /\ initEntityMap[n + 1] = Call("linkSupplementProvider", Plan[p].name)
  BY <1>2, <1>3, <1>4, PlannedCalls DEF CallsOf
<1>6. step' = n + 1 + 1 /\ Runs(Call("linkSupplementProvider", Plan[p].name))
  BY <1>2, <1>5, NextCall
<1>7. linkSupplementProvider(Plan[p].name)
  BY <1>6 DEF Runs, Call
<1>8. ObjectsAre(c, "filled") /\ BrokersAre(c - 1) /\ MapsAre(c)
  BY DEF Reached
<1>9. objects[c] = Expected(c, "filled") /\ builder = c /\ c \in DOMAIN objects
  BY <1>2, <1>8 DEF ObjectsAre, Types
<1>10. /\ Plan[p].name \in DOMAIN supplementProviders
       /\ supplementProviders[Plan[p].name] = p
  BY <1>2, <1>5, <1>8 DEF MapsAre, Holds
<1>11. /\ objects' = [objects EXCEPT ![c].links = Append(@, p)] /\ process' = "configuring"
       /\ UNCHANGED <<entityDictionary, supplementProviders, builder, brokers>>
  BY <1>7, <1>9, <1>10 DEF linkSupplementProvider, Continue
<1>12. /\ DOMAIN objects' = DOMAIN objects
       /\ \A i \in 1 .. c : i < c => objects'[i] = objects[i]
       /\ objects'[c] = [objects[c] EXCEPT !.links = Append(@, p)]
  BY <1>9, <1>11
<1>13. objects'[c] = Expected(c, "linked")
  <2>1. Append(<<>>, p) = <<p>>
    OBVIOUS
  <2>2. objects[c].links = <<>>
    BY <1>9 DEF Expected
  <2>3. objects'[c] = [objects[c] EXCEPT !.links = <<p>>]
    BY <1>12, <2>1, <2>2
  <2>. QED  BY <2>3, <1>5, <1>9 DEF Expected
<1>14. ObjectsAre(c, "linked")'
  BY <1>2, <1>8, <1>11, <1>12, <1>13, LastObject
<1>15. BrokersAre(c - 1)' /\ MapsAre(c)'
  BY <1>8, <1>11 DEF BrokersAre, MapsAre
<1>16. step' = Made(c, "linked") + 1
  BY <1>3, <1>6 DEF Made
<1>. QED  BY <1>2, <1>11, <1>14, <1>15, <1>16 DEF Reached, Phases

\* A record with more members.
LEMMA MoreMembers ==
    ASSUME NEW o, NEW k, NEW n, NEW ms, NEW ls, NEW more,
           o = [kind |-> k, name |-> n, members |-> ms, links |-> ls]
    PROVE  [o EXCEPT !.members = @ \cup more]
             = [kind |-> k, name |-> n, members |-> ms \cup more, links |-> ls]
OBVIOUS

\* addObject.
LEMMA PlannedObject ==
    ASSUME Meta = metaMembers, script = initEntityMap, Configure, Types, Types',
           process = "configuring", NEW c, NEW phase, Reached(c, phase),
           \/ phase = "filled" /\ Plan[c].links = <<>>
           \/ phase = "linked"
    PROVE  Reached(c, "done")' /\ process' = "configuring"
<1>1. PICK n : n = Made(c, phase)
  OBVIOUS
<1>2. c \in 1 .. 7 /\ step = n + 1
  BY <1>1 DEF Reached
<1>3. n + 1 = Before[c + 1]
  <2>1. Before[c] \in Nat
    <3>1. c \in 1 .. 8
      BY <1>2
    <3>. QED  BY ONLY <3>1, CountCalls
  <2>2. IF Plan[c].links = <<>> THEN Before[c + 1] = Before[c] + 3
        ELSE Before[c + 1] = Before[c] + 4
    BY <1>2, PlannedCalls DEF CallsOf
  <2>3. CASE phase = "filled"
    BY <1>1, <2>1, <2>2, <2>3 DEF Made
  <2>4. CASE phase = "linked"
    <3>1. Plan[c].links # <<>>
      BY <2>4 DEF Reached
    <3>. QED  BY <1>1, <2>1, <2>2, <2>4, <3>1 DEF Made
  <2>. QED  BY <2>3, <2>4
<1>4. step' = n + 1 + 1 /\ Runs(Call("addObject", Plan[c].query))
  BY <1>2, <1>3, NextCall, PlannedCalls DEF CallsOf
<1>5. addObject(Plan[c].query)
  BY <1>4 DEF Runs, Call
<1>6. ObjectsAre(c, phase) /\ BrokersAre(c - 1) /\ MapsAre(c)
  BY DEF Reached
<1>7. objects[c] = Expected(c, phase) /\ builder = c /\ c \in DOMAIN objects
  BY <1>2, <1>6 DEF ObjectsAre, Types
<1>8. CanAdd(c, Meta)
  BY <1>2, <1>7, PlanIsFit DEF CanAdd, Expected
<1>9. /\ objects' = WithMembers(c, Meta) /\ process' = "configuring"
      /\ brokers' = Append(brokers, [object |-> c, query |-> Plan[c].query])
      /\ UNCHANGED <<entityDictionary, supplementProviders, builder>>
  BY <1>5, <1>7, <1>8 DEF addObject, Continue
<1>10. /\ DOMAIN objects' = DOMAIN objects
       /\ \A i \in 1 .. c : i < c => objects'[i] = objects[i]
       /\ objects'[c] = [objects[c] EXCEPT !.members = @ \cup ToSet(Meta)]
  BY <1>7, <1>9 DEF WithMembers
<1>11. objects'[c] = Expected(c, "done")
  <2>1. objects[c] = [kind |-> Plan[c].kind, name |-> Plan[c].name,
                      members |-> ToSet(Plan[c].list), links |-> Plan[c].links]
    <3>1. CASE phase = "filled"
      BY <3>1, <1>7 DEF Expected
    <3>2. CASE phase = "linked"
      BY <3>2, <1>7 DEF Expected
    <3>. QED  BY <3>1, <3>2
  <2>2. objects'[c] = [kind |-> Plan[c].kind, name |-> Plan[c].name,
                       members |-> ToSet(Plan[c].list) \cup ToSet(Meta),
                       links |-> Plan[c].links]
    <3>1. PICK o, k, l, ms, ls, more :
              /\ o = objects[c] /\ k = Plan[c].kind /\ l = Plan[c].name
              /\ ms = ToSet(Plan[c].list) /\ ls = Plan[c].links /\ more = ToSet(Meta)
      OBVIOUS
    <3>2. objects'[c] = [o EXCEPT !.members = @ \cup more]
      BY <1>10, <3>1
    <3>3. o = [kind |-> k, name |-> l, members |-> ms, links |-> ls]
      BY <2>1, <3>1
    <3>4. [o EXCEPT !.members = @ \cup more]
            = [kind |-> k, name |-> l, members |-> ms \cup more, links |-> ls]
      BY ONLY <3>3, MoreMembers
    <3>. QED  BY ONLY <3>1, <3>2, <3>4
  <2>. QED  BY <2>2 DEF Expected
<1>12. ObjectsAre(c, "done")'
  BY <1>2, <1>6, <1>9, <1>10, <1>11, LastObject
<1>13. BrokersAre(c)'
  <2>1. brokers \in Seq(BrokerRecord) /\ Len(brokers) = c - 1 /\ c - 1 \in Nat
    BY <1>2, <1>6 DEF Types, BrokersAre
  <2>2. /\ Len(brokers') = c /\ brokers'[c] = [object |-> c, query |-> Plan[c].query]
        /\ \A i \in 1 .. c - 1 : brokers'[i] = brokers[i]
    BY <2>1, <1>2, <1>9, AppendProperties
  <2>3. \A i \in 1 .. c : i \in 1 .. c - 1 \/ i = c
    BY <1>2
  <2>. QED  BY <2>2, <2>3, <1>6 DEF BrokersAre
<1>14. MapsAre(c)'
  BY <1>6, <1>9 DEF MapsAre
<1>15. step' = Made(c, "done") + 1
  BY <1>3, <1>4 DEF Made
<1>. QED  BY <1>2, <1>9, <1>12, <1>13, <1>14, <1>15 DEF Reached, Phases

LEMMA IsOnPlan ==
    ASSUME NEW c, NEW phase, Reached(c, phase)'
    PROVE  OnPlan'
BY DEF OnPlan, Reached

\* Every call of initEntityMap goes as planned, and what follows changes nothing
\* of it.
LEMMA NextPlanning ==
    ASSUME Meta = metaMembers, Types, Types', Planning, [MapNext]_<<vars, script, step>>
    PROVE  Planning'
<1>. SUFFICES ASSUME script' = initEntityMap
              PROVE  /\ process' \in {"configuring", "serving"}
                     /\ OnPlan'
                     /\ process' = "serving" => step' > 23
  BY DEF Planning
<1>1. script = initEntityMap
  BY DEF MapNext, Configure, Serve, Gone
<1>2. /\ process \in {"configuring", "serving"} /\ OnPlan
      /\ process = "serving" => step > 23
  BY <1>1 DEF Planning
<1>3. PICK c \in 0 .. 7, phase \in Phases : Reached(c, phase)
  BY <1>2 DEF OnPlan
<1>4. CASE Configure
  <2>1. process = "configuring"
    BY <1>4 DEF Configure, buildSupplementProvider, buildEntity, addMembers, addRelations,
       linkSupplementProvider, addObject, Configuring
  <2>2. phase \in Phases
    BY <1>3 DEF Reached
  <2>3. CASE phase = "done"
    BY <2>1, <2>3, <1>1, <1>3, <1>4, PlannedBuild, IsOnPlan
  <2>4. CASE phase = "built"
    BY <2>1, <2>4, <1>1, <1>3, <1>4, PlannedMembers, IsOnPlan
  <2>5. CASE phase = "filled"
    <3>1. CASE Plan[c].links # <<>>
      BY <2>1, <2>5, <3>1, <1>1, <1>3, <1>4, PlannedLink, IsOnPlan
    <3>2. CASE Plan[c].links = <<>>
      BY <2>1, <2>5, <3>2, <1>1, <1>3, <1>4, PlannedObject, IsOnPlan
    <3>. QED  BY <3>1, <3>2
  <2>6. CASE phase = "linked"
    BY <2>1, <2>6, <1>1, <1>3, <1>4, PlannedObject, IsOnPlan
  <2>. QED  BY <2>2, <2>3, <2>4, <2>5, <2>6 DEF Phases
<1>5. CASE ~Configure
  <2>1. /\ UNCHANGED <<registryVars, step>> /\ process' \in {"configuring", "serving"}
        /\ process' = "serving" => process = "serving" \/ step > Len(script)
    BY <1>2, <1>5 DEF MapNext, Serve, Gone, Quiet, initBrokers, vars
  <2>2. Len(script) = 23
    BY <1>1, ScriptIs
  <2>3. Reached(c, phase)'
    BY <1>3, <2>1 DEF Reached, ObjectsAre, BrokersAre, MapsAre, registryVars
  <2>4. OnPlan'
    BY <2>3, IsOnPlan
  <2>. QED  BY <2>1, <2>2, <2>4, <1>2
<1>. QED  BY <1>4, <1>5

\* Entity i of the plan declares what its query and its providers' links write.
Declared(i) ==
    /\ OwnMembers(Queries[Plan[i].query]) \subseteq ToSet(Plan[i].list)
    /\ \A l \in ToSet(Plan[i].links) :
          l \in 1 .. 7 /\ Queries[Plan[l].query].links \subseteq ToSet(Plan[i].list)

\* The members an object of a query can get by itself, one source at a time.
LEMMA OwnIs ==
    ASSUME NEW q, NEW S, DOMAIN q.default \subseteq S, q.static \subseteq S,
           \A i \in DOMAIN q.dictionary : \A p \in DOMAIN q.dictionary[i] :
              q.dictionary[i][p] \in S
    PROVE  OwnMembers(q) \subseteq S
BY DEF OwnMembers, Mapped

\* Entities 3 to 7 of the plan declare what their queries and providers write.
LEMMA PlanDeclares == \A i \in 3 .. 7 : Declared(i)
<1>0. DOMAIN Nothing = {}
  BY EmptySeq, LenProperties DEF Nothing
<1>1. Declared(3)
  <2>1. PICK S : S = ToSet(Plan[3].list)
    OBVIOUS
  <2>2. /\ S = {"Endpoint", "Source", "Destination"}
        /\ Plan[3].links = <<>> /\ Plan[3].query = "Relation"
    BY <2>1 DEF Plan, Planned, ToSet
  <2>3. OwnMembers(Relation) \subseteq S
    <3>1. Relation.default = Nothing /\ Relation.static = {}
      BY DEF Relation
    <3>2. Relation.dictionary = [Association |-> [endpoints |-> "Endpoint"]]
      BY DEF Relation
    <3>3. \A i \in DOMAIN Relation.dictionary : \A p \in DOMAIN Relation.dictionary[i] :
             Relation.dictionary[i][p] \in S
      BY <2>2, <3>2
    <3>4. DOMAIN Relation.default \subseteq S /\ Relation.static \subseteq S
      BY <3>1, <1>0
    <3>. QED  BY <3>3, <3>4, OwnIs
  <2>4. Queries["Relation"] = Relation
    BY DEF Queries
  <2>. QED  BY <2>1, <2>2, <2>3, <2>4 DEF Declared, ToSet
<1>2. Declared(4)
  <2>1. PICK S : S = ToSet(Plan[4].list)
    OBVIOUS
  <2>2. /\ S = {"Name", "Reading", "Unit", "LowWarning", "LowCritical", "HighWarning",
               "HighCritical", "Status"}
        /\ Plan[4].links = <<1>> /\ Plan[4].query = "Sensors" /\ Plan[1].query = "Status"
    BY <2>1 DEF Plan, Planned, ToSet
  <2>3. OwnMembers(Sensors) \subseteq S
    BY <2>2, OwnIs DEF Sensors
  <2>4. Queries["Sensors"] = Sensors /\ Queries["Status"].links = {}
    BY DEF Queries, Status
  <2>5. ToSet(<<1>>) = {1}
    BY DEF ToSet
  <2>. QED  BY <2>1, <2>2, <2>3, <2>4, <2>5 DEF Declared
<1>3. Declared(5)
  <2>1. PICK S : S = ToSet(Plan[5].list)
    OBVIOUS
  <2>2. /\ S = {"Name", "Type", "Manufacturer", "Model", "PartNumber", "SerialNumber",
               "BiosVersion", "BmcVersion", "Status"}
        /\ Plan[5].links = <<2>> /\ Plan[5].query = "Server" /\ Plan[2].query = "Version"
    BY <2>1 DEF Plan, Planned, ToSet
  <2>3. OwnMembers(Server) \subseteq S
    <3>1. Server.default = Nothing /\ Server.static = {}
      BY DEF Server
    <3>2. \A i \in DOMAIN Server.dictionary : \A p \in DOMAIN Server.dictionary[i] :
             Server.dictionary[i][p]
               \in {"Name", "Type", "Manufacturer", "Model", "PartNumber", "SerialNumber"}
      BY DEF Server, assets
    <3>. QED  BY <2>2, <3>1, <3>2, <1>0, OwnIs
  <2>4. /\ Queries["Server"] = Server
        /\ Queries["Version"].links = {"BmcVersion", "BiosVersion"}
    BY DEF Queries, Version
  <2>5. ToSet(<<2>>) = {2}
    BY DEF ToSet
  <2>. QED  BY <2>1, <2>2, <2>3, <2>4, <2>5 DEF Declared
<1>4. Declared(6)
  <2>1. PICK S : S = ToSet(Plan[6].list)
    OBVIOUS
  <2>2. /\ S = {"Type", "PartNumber", "Manufacturer", "Status"}
        /\ Plan[6].links = <<>> /\ Plan[6].query = "Chassis"
    BY <2>1 DEF Plan, Planned, ToSet
  <2>3. OwnMembers(Chassis) \subseteq S
    BY <2>2, <1>0, OwnIs DEF Chassis
  <2>4. Queries["Chassis"] = Chassis
    BY DEF Queries
  <2>. QED  BY <2>1, <2>2, <2>3, <2>4 DEF Declared, ToSet
<1>5. Declared(7)
  <2>1. PICK S : S = ToSet(Plan[7].list)
    OBVIOUS
  <2>2. /\ S = {"Name", "Type", "Manufacturer", "Model", "PartNumber", "SerialNumber",
               "Status", "Endpoint"}
        /\ Plan[7].links = <<>> /\ Plan[7].query = "Baseboard"
    BY <2>1 DEF Plan, Planned, ToSet
  <2>3. OwnMembers(Baseboard) \subseteq S
    <3>1. Baseboard.default = Nothing /\ Baseboard.static = {}
      BY DEF Baseboard
    <3>2. \A i \in DOMAIN Baseboard.dictionary : \A p \in DOMAIN Baseboard.dictionary[i] :
             Baseboard.dictionary[i][p]
               \in {"Name", "Type", "Manufacturer", "Model", "PartNumber", "SerialNumber"}
      BY DEF Baseboard, assets
    <3>. QED  BY <2>2, <3>1, <3>2, <1>0, OwnIs
  <2>4. Queries["Baseboard"] = Baseboard
    BY DEF Queries
  <2>. QED  BY <2>1, <2>2, <2>3, <2>4 DEF Declared, ToSet
<1>. QED  BY <1>1, <1>2, <1>3, <1>4, <1>5

\* A process that serves made every call.
LEMMA ServingIsDone ==
    ASSUME NEW c, NEW phase, Reached(c, phase), step > 23
    PROVE  c = 7 /\ phase = "done"
<1>1. c \in 0 .. 7 /\ phase \in Phases /\ c + 1 \in 1 .. 8
  BY DEF Reached
<1>2. PICK b, e : b = Before[c] /\ e = Before[c + 1]
  OBVIOUS
<1>3. e \in Nat /\ e <= 23 /\ (e = 23 => c = 7)
  BY <1>1, <1>2 DEF Before
<1>4. CASE phase = "done"
  <2>1. step = e + 1
    BY <1>2, <1>4 DEF Reached, Made
  <2>. QED  BY <2>1, <1>3, <1>4
<1>5. CASE phase # "done"
  <2>1. c \in 1 .. 7
    BY <1>1, <1>5 DEF Reached
  <2>2. b \in Nat /\ b + 3 <= e
    <3>1. c \in 1 .. 8
      BY <2>1
    <3>. QED  BY <1>2, <2>1, <3>1, CountCalls
  <2>3. phase = "linked" => b + 4 = e
    BY <2>1, <1>2, PlannedCalls DEF Reached, CallsOf
  <2>4. \/ step \in {b + 1 + 1, b + 2 + 1}
        \/ phase = "linked" /\ step = b + 3 + 1
    BY <1>1, <1>2, <1>5 DEF Reached, Made, Phases
  <2>. QED  BY <2>2, <2>3, <2>4, <1>3
<1>. QED  BY <1>4, <1>5

\* When every call was made, what is written into an entity was declared.
LEMMA DoneIsDeclared ==
    ASSUME Meta = metaMembers, Types, Reached(7, "done")
    PROVE  \A n \in DOMAIN entityDictionary :
              LET o == entityDictionary[n]
                  linked == UNION {Queried(l) :
                                      l \in ToSet(objects[o].links)}
              IN  /\ UNION {OwnMembers(Queries[q]) : q \in Queried(o)}
                       \subseteq objects[o].members
                  /\ UNION {Queries[q].links : q \in linked} \subseteq objects[o].members
<1>1. ObjectsAre(7, "done") /\ BrokersAre(7) /\ MapsAre(7)
  BY DEF Reached
<1>2. \A l \in 1 .. 7 : Queried(l) = {Plan[l].query}
  <2>1. DOMAIN brokers = 1 .. 7
    BY <1>1 DEF Types, BrokersAre
  <2>2. \A b \in 1 .. 7 : brokers[b].object = b /\ brokers[b].query = Plan[b].query
    BY <1>1 DEF BrokersAre
  <2>. QED  BY <2>1, <2>2 DEF Queried
<1>3. ASSUME NEW n \in DOMAIN entityDictionary, NEW o, o = entityDictionary[n]
      PROVE  /\ UNION {OwnMembers(Queries[q]) : q \in Queried(o)}
                   \subseteq objects[o].members
             /\ \A l \in ToSet(objects[o].links) : \A q \in Queried(l) :
                   Queries[q].links \subseteq objects[o].members
  <2>1. o \in 1 .. 7 /\ Plan[o].kind = "entity"
    BY <1>1, <1>3 DEF MapsAre, Holds
  <2>2. Plan[1].kind = "provider" /\ Plan[2].kind = "provider"
    BY DEF Plan, Planned
  <2>3. o \in 3 .. 7
    BY <2>1, <2>2
  <2>4. Declared(o)
    BY <2>3, PlanDeclares
  <2>5. objects[o] = Expected(o, "done")
    BY <2>1, <1>1 DEF ObjectsAre
  <2>6. ToSet(Plan[o].list) \subseteq objects[o].members /\ objects[o].links = Plan[o].links
    BY <2>5 DEF Expected
  <2>7. UNION {OwnMembers(Queries[q]) : q \in Queried(o)}
          = OwnMembers(Queries[Plan[o].query])
    BY <1>2, <2>1
  <2>. QED  BY <1>2, <2>4, <2>6, <2>7 DEF Declared
<1>. QED  BY <1>3

\* In every run of the program the configuration goes as planned.
LEMMA MapPlanning == MapSpec => [](IInv /\ Planning)
<1>1. Meta = metaMembers
  BY MapAssumption
<1>2. MapSpec => []IInv
  BY MapIsAConfiguration, Invariance, PTL
<1>3. MapInit /\ IInv => Planning
  BY InitPlanning
<1>4. IInv /\ IInv' /\ Planning /\ [MapNext]_<<vars, script, step>> => Planning'
  <2>1. IInv => Types
    BY DEF IInv
  <2>2. IInv' => Types'
    BY DEF IInv
  <2>. QED  BY <1>1, <2>1, <2>2, NextPlanning
<1>. QED  BY <1>2, <1>3, <1>4, PTL DEF MapSpec

\* The configuration of this program never throws, whatever names and members
\* the registry knows: every provider it links is registered by then, and no entity
\* or member twice (Application::initEntityMap, the exceptions of EntityManager,
\* EntityBuilder and Entity).
THEOREM ConfigurationStartsUp == MapSpec => []StartsUp
<1>1. Planning => StartsUp
  BY DEF Planning, StartsUp
<1>. QED  BY <1>1, MapPlanning, PTL

\* In a process that serves, every member the query of an entity fills, and every
\* one the link rule of its provider writes, is a declared member of that entity
\* (Application::initEntityMap with the dictionaries of the queries).
THEOREM WrittenMembersAreDeclared == MapSpec => []WrittenIsDeclared
<1>1. IInv /\ Planning => WrittenIsDeclared
  <2>. SUFFICES ASSUME IInv, Planning, Serving, script = initEntityMap
                PROVE  WrittenIsDeclared
    BY DEF WrittenIsDeclared
  <2>1. PICK c, phase : Reached(c, phase) /\ step > 23
    BY DEF Planning, OnPlan, Serving
  <2>2. Reached(7, "done")
    BY <2>1, ServingIsDone
  <2>3. Meta = metaMembers /\ Types
    BY MapAssumption DEF IInv
  <2>. QED  BY <2>2, <2>3, DoneIsDeclared DEF WrittenIsDeclared
<1>. QED  BY <1>1, MapPlanning, PTL
-----------------------------------------------------------------------------
(***************************************************************************)
(* The fields of an object.                                                *)
(***************************************************************************)
MetaNames == {metaMembers[1], metaMembers[2]}

\* The dictionary of query q names property p of interface i.
IsEntry(q, i, p) ==
    i \in DOMAIN Queries[q].dictionary /\ p \in DOMAIN Queries[q].dictionary[i]

(***************************************************************************)
(* What the dictionaries of this system have in common.                    *)
(***************************************************************************)
LEMMA QueriesOfObjects ==
    DOMAIN Queries = {"Server", "Chassis", "Baseboard", "Sensors", "Status", "Version",
                      "Relation"}
BY DEF Queries

LEMMA RelationEntries ==
    ASSUME NEW i, NEW p, IsEntry("Relation", i, p)
    PROVE  /\ i = "Association" /\ p = "endpoints"
           /\ Queries.Relation.dictionary[i][p] = "Endpoint"
<1>1. Queries.Relation = Relation
  BY DEF Queries
<1>2. Relation.dictionary = [Association |-> [endpoints |-> "Endpoint"]]
  BY DEF Relation
<1>. QED  BY <1>1, <1>2 DEF IsEntry

LEMMA ChassisType ==
    ASSUME NEW q \in DOMAIN Queries \ {"Status"}, NEW i, NEW p, IsEntry(q, i, p)
    PROVE  /\ p = "ChassisType" => q = "Chassis"
           /\ p = "Unit" => q = "Sensors"
<1>1. CASE q = "Server"
  BY <1>1 DEF Queries, Server, IsEntry, assets
<1>2. CASE q = "Chassis"
  BY <1>2 DEF Queries, Chassis, IsEntry, assets
<1>3. CASE q = "Baseboard"
  BY <1>3 DEF Queries, Baseboard, IsEntry, assets
<1>4. CASE q = "Sensors"
  BY <1>4 DEF Queries, Sensors, IsEntry, assets
<1>5. CASE q = "Version"
  BY <1>5 DEF Queries, Version, IsEntry, assets
<1>6. CASE q = "Relation"
  BY <1>6, RelationEntries
<1>. QED  BY <1>1, <1>2, <1>3, <1>4, <1>5, <1>6, QueriesOfObjects

LEMMA MembersAreDistinct ==
    ASSUME NEW q \in DOMAIN Queries \ {"Status"}, NEW i, NEW p, IsEntry(q, i, p),
           NEW j, NEW r, IsEntry(q, j, r),
           Queries[q].dictionary[i][p] = Queries[q].dictionary[j][r]
    PROVE  i = j /\ p = r
<1>1. CASE q = "Server"
  BY <1>1 DEF Queries, Server, IsEntry, assets
<1>2. CASE q = "Chassis"
  BY <1>2 DEF Queries, Chassis, IsEntry, assets
<1>3. CASE q = "Baseboard"
  BY <1>3 DEF Queries, Baseboard, IsEntry, assets
<1>4. CASE q = "Sensors"
  BY <1>4 DEF Queries, Sensors, IsEntry, assets
<1>5. CASE q = "Version"
  BY <1>5 DEF Queries, Version, IsEntry, assets
<1>6. CASE q = "Relation"
  BY <1>6, RelationEntries
<1>. QED  BY <1>1, <1>2, <1>3, <1>4, <1>5, <1>6, QueriesOfObjects

LEMMA MembersAreOwn ==
    ASSUME NEW q \in DOMAIN Queries \ {"Status"}
    PROVE  /\ \A i, p : IsEntry(q, i, p) =>
                 Queries[q].dictionary[i][p] \notin
                    MetaNames \cup Queries[q].static \cup DOMAIN Queries[q].default
           /\ Queries[q].static \cap (MetaNames \cup DOMAIN Queries[q].default) = {}
           /\ \A m \in DOMAIN Queries[q].default : Queries[q].default[m] = "OK"
<1>. USE DEF MetaNames, metaMembers, Nothing
<1>0. DOMAIN Nothing = {}
  BY EmptySeq, LenProperties
<1>1. CASE q = "Server"
  BY <1>0, <1>1 DEF Queries, Server, IsEntry, assets
<1>2. CASE q = "Chassis"
  BY <1>0, <1>2 DEF Queries, Chassis, IsEntry, assets
<1>3. CASE q = "Baseboard"
  BY <1>0, <1>3 DEF Queries, Baseboard, IsEntry, assets
<1>4. CASE q = "Sensors"
  <2>1. Queries[q].static = {"Name"} /\ Queries[q].default = [Status |-> "OK"]
    BY <1>4 DEF Queries, Sensors
  <2>2. \A i, p : IsEntry(q, i, p) =>
           Queries[q].dictionary[i][p] \notin MetaNames \cup {"Name", "Status"}
    BY <1>4 DEF Queries, Sensors, IsEntry
  <2>. QED  BY <2>1, <2>2
<1>5. CASE q = "Version"
  BY <1>0, <1>5 DEF Queries, Version, IsEntry, assets
<1>6. CASE q = "Relation"
  <2>1. Queries[q].static = {} /\ Queries[q].default = Nothing
    BY <1>6 DEF Queries, Relation
  <2>. QED  BY <1>0, <1>6, <2>1, RelationEntries
<1>. QED  BY <1>1, <1>2, <1>3, <1>4, <1>5, <1>6, QueriesOfObjects

(***************************************************************************)
(* What the formatters do.                                                 *)
(***************************************************************************)
Element == Text("element")

LEMMA ValueKinds ==
    ASSUME NEW v \in Values
    PROVE  /\ v # Invalid /\ v # Element
           /\ v.kind \in {"string", "number", "list"}
<1>1. /\ Element.kind = "string" /\ Element.text = "element"
      /\ Invalid.kind = "invalid_argument"
  BY DEF Element, Text, Invalid
<1>2. ASSUME NEW t \in Texts, v = Text(t)
      PROVE  v.kind = "string" /\ v.text # "element"
  BY <1>2, QueryNamesAssumption DEF Text
<1>3. CASE v \in {Number, List}
  <2>1. Number.kind = "number" /\ List.kind = "list"
    BY DEF Number, List
  <2>2. v.kind \in {"number", "list"}
    BY <1>3, <2>1
  <2>. QED  BY <1>1, <2>2
<1>. QED  BY <1>1, <1>2, <1>3 DEF Values

LEMMA TranslatedTexts ==
    ASSUME NEW table, NEW fallback, NEW v \in Values,
           fallback # "element", \A t \in DOMAIN table : table[t] # "element"
    PROVE  LET w == Translated(table, fallback, v)
           IN  /\ w = Invalid <=> v.kind # "string"
               /\ v.kind = "string" => Scalar(w)
               /\ w # Element
BY DEF Translated, Text, Invalid, Scalar, Element

\* A formatter throws for what is no string, and makes a string of a string.
LEMMA Formats ==
    ASSUME NEW q \in QueryNames, NEW i, NEW p, IsEntry(q, i, p), NEW v \in Values
    PROVE  LET w == processFormatters(q, p, v)
           IN  /\ w = Invalid <=> p \in Formatted /\ v.kind # "string"
               /\ w # Invalid => (Scalar(w) <=> Scalar(v))
               /\ w # Element
<1>1. /\ p = "ChassisType" => q = "Chassis"
      /\ p = "Unit" => q = "Sensors"
  BY ChassisType, QueryNamesAssumption
<1>2. CASE p = "ChassisType"
  <2>1. processFormatters(q, p, v) = Translated(chassisTypesNames, "Other", v)
    BY <1>1, <1>2 DEF processFormatters, formatChassisType
  <2>2. \A t \in DOMAIN chassisTypesNames : chassisTypesNames[t] # "element"
    BY DEF chassisTypesNames
  <2>. QED  BY <1>2, <2>1, <2>2, TranslatedTexts DEF Formatted, Scalar, Invalid
<1>3. CASE p = "Unit"
  <2>1. processFormatters(q, p, v) = Translated(sensorUnitsMap, "Unit", v)
    BY <1>1, <1>3 DEF processFormatters, formatSensorUnit
  <2>2. \A t \in DOMAIN sensorUnitsMap : sensorUnitsMap[t] # "element"
    BY DEF sensorUnitsMap
  <2>. QED  BY <1>3, <2>1, <2>2, TranslatedTexts DEF Formatted, Scalar, Invalid
<1>4. CASE p \notin Formatted
  <2>1. processFormatters(q, p, v) = v
    BY <1>4 DEF processFormatters, Formatted
  <2>. QED  BY <1>4, <2>1, ValueKinds
<1>. QED  BY <1>2, <1>3, <1>4 DEF Formatted

(***************************************************************************)
(* What a reply makes of the fields.                                       *)
(***************************************************************************)
ScalarsOf(taken) == {p \in DOMAIN taken : Scalar(taken[p])}

\* r holds what was taken, under the members' names, and the rest of f.
IsResolved(r, f, dict, taken) ==
    /\ DOMAIN r = DOMAIN f \cup {dict[p] : p \in ScalarsOf(taken)}
    /\ \A p \in ScalarsOf(taken) : r[dict[p]] = taken[p]
    /\ \A m \in DOMAIN f \ {dict[p] : p \in ScalarsOf(taken)} : r[m] = f[m]

LEMMA ResolvedFields ==
    ASSUME NEW f, NEW i, NEW taken, NEW dict, dict = getPropertyMemberDict(i),
           \A p, r \in DOMAIN taken : dict[p] = dict[r] => p = r
    PROVE  IsResolved(Resolved(f, i, taken), f, dict, taken)
<1>. DEFINE S == ScalarsOf(taken)
            Value(m) == taken[CHOOSE p \in S : dict[p] = m]
            news == [m \in {dict[p] : p \in S} |-> supplementOrUpdate(f, m, Value(m))[m]]
<1>1. Resolved(f, i, taken) = Over(news, f)
  BY DEF Resolved, ScalarsOf
<1>2. ASSUME NEW p \in S
      PROVE  Value(dict[p]) = taken[p]
  <2>1. \E r \in S : dict[r] = dict[p]
    OBVIOUS
  <2>2. (CHOOSE r \in S : dict[r] = dict[p]) = p
    BY <2>1 DEF ScalarsOf
  <2>. QED  BY <2>2
<1>3. \A p \in S : news[dict[p]] = taken[p]
  BY <1>2 DEF supplementOrUpdate, insert_or_assign
<1>4. DOMAIN news = {dict[p] : p \in S}
  OBVIOUS
<1>. HIDE DEF news, S
<1>5. /\ DOMAIN Over(news, f) = DOMAIN news \cup DOMAIN f
      /\ \A m \in DOMAIN news : Over(news, f)[m] = news[m]
      /\ \A m \in DOMAIN f \ DOMAIN news : Over(news, f)[m] = f[m]
  BY DEF Over
<1>. QED  BY <1>1, <1>3, <1>4, <1>5 DEF S, IsResolved

(***************************************************************************)
(* The inductive invariant.  A name that comes from the path is no field   *)
(* while the replies are read; no value is that of a list element.         *)
(***************************************************************************)
FieldsTypes ==
    /\ query \in QueryNames
    /\ stage \in {"reading", "live", "thrown"}
    /\ DOMAIN complex \subseteq {hash}
    /\ foreign \in BOOLEAN

FieldsAreOwn ==
    /\ stage = "reading" => DOMAIN fields \cap Queries[query].static = {}
    /\ \A m \in DOMAIN fields : fields[m] # Element

ShownIsNow == shown # {} => stage # "reading" /\ shown = {fields}

\* The field of an entry of the dictionary, whatever the stage.
EntryIsFormatted(i, p) ==
    LET m == dictionary[i][p]
    IN  /\ m \in DOMAIN fields <=> <<i, p>> \in DOMAIN seen
        /\ m \in DOMAIN fields => fields[m] = processFormatters(query, p, seen[<<i, p>>])

FieldsIInv ==
    /\ FieldsTypes
    /\ FieldsAreOwn
    /\ ShownIsNow
    /\ stage # "thrown" => \A i, p : IsEntry(query, i, p) => EntryIsFormatted(i, p)
    /\ stage = "thrown" <=> foreign
-----------------------------------------------------------------------------
LEMMA InitFieldsIInv == FieldsInit => FieldsIInv
<1>. SUFFICES ASSUME FieldsInit PROVE FieldsIInv
  OBVIOUS
<1>1. DOMAIN <<>> = {}
  BY EmptySeq, LenProperties
<1>2. query \in DOMAIN Queries \ {"Status"}
  BY QueryNamesAssumption DEF FieldsInit
<1>3. fields = [m \in MetaNames |-> Text(m)] /\ DOMAIN fields = MetaNames
  BY DEF FieldsInit, metaFields, MetaNames
<1>4. FieldsTypes
  BY <1>1 DEF FieldsInit, FieldsTypes
<1>5. FieldsAreOwn
  <2>1. \A m \in MetaNames : Text(m) # Element
    BY DEF MetaNames, metaMembers, Text, Element
  <2>. QED  BY <1>2, <1>3, <2>1, MembersAreOwn DEF FieldsAreOwn
<1>6. ASSUME NEW i, NEW p, IsEntry(query, i, p)
      PROVE  EntryIsFormatted(i, p)
  <2>1. dictionary[i][p] \notin DOMAIN fields
    BY <1>2, <1>3, <1>6, MembersAreOwn DEF dictionary
  <2>2. DOMAIN seen = {}
    BY <1>1 DEF FieldsInit
  <2>. QED  BY <2>1, <2>2 DEF EntryIsFormatted
<1>. QED  BY <1>4, <1>5, <1>6 DEF FieldsInit, FieldsIInv, ShownIsNow

\* A reply or a signal, taken by fillMembers.  An entry is overwritten in the
\* fields and in the history together, because no two entries of a query share
\* a member (MembersAreDistinct).
LEMMA FillStep ==
    ASSUME FieldsIInv, NEW i, NEW reply, NEW next \in {"reading", "live"},
           \A p \in DOMAIN reply : /\ p \in DOMAIN getPropertyMemberDict(i)
                                   /\ reply[p] \in Values,
           stage = next, fillMembers(i, reply, next), See(i, reply),
           query' = query, shown' = {}
    PROVE  FieldsIInv'
<1>. DEFINE dict == getPropertyMemberDict(i)
            taken == Taken(i, reply)
            S == ScalarsOf(taken)
<1>0. /\ FieldsTypes /\ FieldsAreOwn /\ stage # "thrown"
      /\ \A j, r : IsEntry(query, j, r) => EntryIsFormatted(j, r)
      /\ query \in DOMAIN Queries \ {"Status"}
  BY QueryNamesAssumption DEF FieldsIInv, FieldsTypes
<1>1. ASSUME NEW p \in DOMAIN reply
      PROVE  IsEntry(query, i, p) /\ dict[p] = dictionary[i][p]
  <2>1. DOMAIN Nothing = {}
    BY EmptySeq, LenProperties DEF Nothing
  <2>2. i \in DOMAIN dictionary
    BY <2>1 DEF getPropertyMemberDict
  <2>. QED  BY <2>2 DEF getPropertyMemberDict, IsEntry, dictionary
<1>2. /\ DOMAIN taken = DOMAIN reply
      /\ \A p \in DOMAIN reply : taken[p] = processFormatters(query, p, reply[p])
  BY DEF Taken
<1>3. \A p \in DOMAIN reply :
         /\ taken[p] = Invalid <=> p \in Formatted /\ reply[p].kind # "string"
         /\ taken[p] # Invalid => (Scalar(taken[p]) <=> Scalar(reply[p]))
         /\ taken[p] # Element
  BY <1>0, <1>1, <1>2, Formats DEF FieldsTypes
<1>4. foreign' = \E p \in DOMAIN taken : taken[p] = Invalid
  BY <1>2, <1>3 DEF See
<1>5. foreign' \in BOOLEAN
  BY DEF See
<1>6. CASE \E p \in DOMAIN taken : taken[p] = Invalid
  <2>1. stage' = "thrown" /\ UNCHANGED <<fields, complex>>
    BY <1>6 DEF fillMembers
  <2>. QED  BY <1>0, <1>4, <1>5, <1>6, <2>1 DEF FieldsIInv, FieldsTypes, FieldsAreOwn,
        ShownIsNow
<1>7. CASE ~\E p \in DOMAIN taken : taken[p] = Invalid
  <2>1. /\ fields' = Resolved(fields, i, taken)
        /\ complex' = Children(i, taken)
        /\ stage' = next
    BY <1>7 DEF fillMembers
  <2>2. \A p, r \in DOMAIN taken : dict[p] = dict[r] => p = r
    BY <1>0, <1>1, <1>2, MembersAreDistinct DEF dictionary
  <2>3. /\ DOMAIN fields' = DOMAIN fields \cup {dict[p] : p \in S}
        /\ \A p \in S : fields'[dict[p]] = taken[p]
        /\ \A m \in DOMAIN fields \ {dict[p] : p \in S} : fields'[m] = fields[m]
    <3>1. PICK d : d = getPropertyMemberDict(i)
      OBVIOUS
    <3>2. PICK t : t = taken
      OBVIOUS
    <3>5. PICK f : f = fields
      OBVIOUS
    <3>3. \A p, r \in DOMAIN t : d[p] = d[r] => p = r
      BY <2>2, <3>1, <3>2
    <3>. HIDE DEF taken, dict, S
    <3>4. IsResolved(Resolved(f, i, t), f, d, t)
      BY <3>1, <3>3, ResolvedFields
    <3>6. dict = d /\ S = ScalarsOf(t) /\ fields' = Resolved(f, i, t)
      BY <2>1, <3>1, <3>2, <3>5 DEF dict, S
    <3>7. taken = t /\ fields = f
      BY <3>2, <3>5
    <3>. QED  BY <3>4, <3>6, <3>7 DEF IsResolved
  <2>4. S = {p \in DOMAIN reply : Scalar(reply[p])}
    BY <1>2, <1>3, <1>7 DEF ScalarsOf
  <2>5. seen' = Over([k \in {<<i, p>> : p \in S} |-> reply[k[2]]], seen)
    BY <2>4 DEF See
  <2>6. /\ DOMAIN seen' = DOMAIN seen \cup {<<i, p>> : p \in S}
        /\ \A p \in S : seen'[<<i, p>>] = reply[p]
        /\ \A k \in DOMAIN seen \ {<<i, p>> : p \in S} : seen'[k] = seen[k]
    BY <2>5 DEF Over
  <2>7. \A p \in S : /\ p \in DOMAIN reply /\ IsEntry(query, i, p)
                     /\ dict[p] = dictionary[i][p]
                     /\ taken[p] = processFormatters(query, p, reply[p])
                     /\ taken[p] # Element
    BY <1>1, <1>2, <1>3, <2>4
  <2>8. DOMAIN complex' \subseteq {hash}
    BY <1>0, <2>1 DEF Children, insert_or_assign, FieldsTypes
  <2>. HIDE DEF dict, taken, S
  <2>9. dictionary' = dictionary
    BY DEF dictionary
  <2>10. ASSUME NEW j, NEW r, IsEntry(query, j, r)
         PROVE  EntryIsFormatted(j, r)'
    <3>. DEFINE m == dictionary[j][r]
    <3>1. EntryIsFormatted(j, r)
      BY <1>0, <2>10
    <3>2. CASE j = i /\ r \in S
      <4>1. /\ m \in DOMAIN fields' /\ <<j, r>> \in DOMAIN seen'
            /\ fields'[m] = processFormatters(query, r, seen'[<<j, r>>])
        BY <2>3, <2>6, <2>7, <3>2
      <4>. QED  BY <2>9, <4>1 DEF EntryIsFormatted
    <3>3. CASE ~(j = i /\ r \in S)
      <4>1. m \notin {dict[p] : p \in S}
        BY <1>0, <2>7, <2>10, <3>3, MembersAreDistinct DEF dictionary
      <4>2. <<j, r>> \notin {<<i, p>> : p \in S}
        BY <3>3
      <4>3. /\ m \in DOMAIN fields' <=> m \in DOMAIN fields
            /\ <<j, r>> \in DOMAIN seen' <=> <<j, r>> \in DOMAIN seen
            /\ m \in DOMAIN fields => fields'[m] = fields[m]
            /\ <<j, r>> \in DOMAIN seen => seen'[<<j, r>>] = seen[<<j, r>>]
        BY <2>3, <2>6, <4>1, <4>2
      <4>. QED  BY <2>9, <3>1, <4>3 DEF EntryIsFormatted
    <3>. QED  BY <3>2, <3>3
  <2>11. FieldsAreOwn'
    <3>1. \A p \in S : dict[p] \notin Queries[query].static
      BY <1>0, <2>7, MembersAreOwn DEF dictionary
    <3>2. stage' = stage
      BY <2>1
    <3>3. ASSUME NEW m \in DOMAIN fields'
          PROVE  fields'[m] # Element
      BY <1>0, <2>3, <2>7 DEF FieldsAreOwn
    <3>. QED  BY <1>0, <2>3, <3>1, <3>2, <3>3 DEF FieldsAreOwn
  <2>12. FieldsTypes' /\ stage' # "thrown"
    BY <1>0, <1>5, <2>1, <2>8 DEF FieldsTypes
  <2>13. foreign' = FALSE
    BY <1>4, <1>7 DEF taken
  <2>. QED  BY <2>10, <2>11, <2>12, <2>13 DEF FieldsIInv, ShownIsNow
<1>. QED  BY <1>6, <1>7

\* Fields that come from no property: the name from the path, and the defaults.
LEMMA OwnFieldsStep ==
    ASSUME FieldsIInv, NEW own, stage # "thrown", stage' = "live",
           fields' = Over(own, fields),
           DOMAIN own \subseteq Queries[query].static \cup DOMAIN Queries[query].default,
           \A m \in DOMAIN own : own[m] # Element,
           UNCHANGED <<query, complex, seen, foreign>>,
           shown' = {} \/ shown' = {fields'}
    PROVE  FieldsIInv'
<1>0. /\ FieldsTypes /\ FieldsAreOwn
      /\ \A j, r : IsEntry(query, j, r) => EntryIsFormatted(j, r)
      /\ query \in DOMAIN Queries \ {"Status"}
  BY QueryNamesAssumption DEF FieldsIInv, FieldsTypes
<1>1. /\ DOMAIN fields' = DOMAIN fields \cup DOMAIN own
      /\ \A m \in DOMAIN own : fields'[m] = own[m]
      /\ \A m \in DOMAIN fields \ DOMAIN own : fields'[m] = fields[m]
  BY DEF Over
<1>2. FieldsTypes' /\ ShownIsNow'
  BY <1>0 DEF FieldsTypes, ShownIsNow
<1>3. FieldsAreOwn'
  BY <1>0, <1>1 DEF FieldsAreOwn
<1>4. ASSUME NEW j, NEW r, IsEntry(query, j, r)
      PROVE  EntryIsFormatted(j, r)'
  <2>1. EntryIsFormatted(j, r) /\ dictionary' = dictionary
    BY <1>0, <1>4 DEF dictionary
  <2>2. dictionary[j][r] \notin DOMAIN own
    BY <1>0, <1>4, MembersAreOwn DEF dictionary
  <2>. QED  BY <1>1, <2>1, <2>2 DEF EntryIsFormatted
<1>5. stage' = "thrown" <=> foreign'
  BY DEF FieldsIInv
<1>. QED  BY <1>2, <1>3, <1>4, <1>5 DEF FieldsIInv

LEMMA NextFieldsIInv == FieldsIInv /\ [FieldsNext]_fieldsVars => FieldsIInv'
<1>. SUFFICES ASSUME FieldsIInv, [FieldsNext]_fieldsVars PROVE FieldsIInv'
  OBVIOUS
<1>0. /\ FieldsTypes /\ FieldsAreOwn /\ ShownIsNow
      /\ query \in DOMAIN Queries \ {"Status"}
  BY QueryNamesAssumption DEF FieldsIInv, FieldsTypes
<1>1. ASSUME NEW i \in Interfaces, Read(i) PROVE FieldsIInv'
  <2>1. PICK reply \in Replies(i) : fillMembers(i, reply, "reading") /\ See(i, reply)
    BY <1>1 DEF Read
  <2>2. \A p \in DOMAIN reply : p \in DOMAIN getPropertyMemberDict(i) /\ reply[p] \in Values
    BY DEF Replies
  <2>3. stage = "reading" /\ query' = query /\ shown' = {}
    BY <1>0, <1>1 DEF Read, ShownIsNow
  <2>. QED  BY <2>1, <2>2, <2>3, FillStep
<1>2. ASSUME Complete PROVE FieldsIInv'
  <2>. DEFINE own == [m \in Queries[query].static |-> Text("name")]
  <2>1. Queries[query].static \cap DOMAIN fields = {} /\ shown = {}
    BY <1>0, <1>2 DEF Complete, FieldsAreOwn, ShownIsNow
  <2>2. /\ stage # "thrown" /\ stage' = "live" /\ fields' = Over(own, fields)
        /\ UNCHANGED <<query, complex, seen, foreign>> /\ shown' = {}
    BY <1>2, <2>1 DEF Complete, history
  <2>3. /\ DOMAIN own = Queries[query].static
        /\ \A m \in DOMAIN own : own[m] # Element
    BY DEF Text, Element
  <2>. HIDE DEF own
  <2>. QED  BY <2>2, <2>3, OwnFieldsStep
<1>3. ASSUME NEW i \in DOMAIN dictionary, NEW p \in DOMAIN dictionary[i], NEW v \in Values,
             Signal(i, p, v)
      PROVE  FieldsIInv'
  <2>. DEFINE changed == [x \in {p} |-> v]
  <2>1. /\ stage = "live" /\ query' = query /\ shown' = {}
        /\ fillMembers(i, changed, "live") /\ See(i, changed)
    BY <1>3 DEF Signal
  <2>2. \A r \in DOMAIN changed :
           r \in DOMAIN getPropertyMemberDict(i) /\ changed[r] \in Values
    BY DEF getPropertyMemberDict
  <2>. HIDE DEF changed
  <2>. QED  BY <2>1, <2>2, FillStep
<1>4. ASSUME Show PROVE FieldsIInv'
  <2>. DEFINE defaults == Queries[query].default
              own == [m \in DOMAIN defaults |-> Text(defaults[m])]
              all == withObject(complex, fields')
  <2>1. /\ stage = "live" /\ stage' = "live" /\ fields' = Over(own, fields)
        /\ UNCHANGED <<query, complex, seen, foreign>>
        /\ shown' = {all[h] : h \in DOMAIN all}
    BY <1>4 DEF Show, history
  <2>2. /\ DOMAIN own = DOMAIN defaults
        /\ \A m \in DOMAIN own : own[m] # Element
    BY <1>0, MembersAreOwn DEF Text, Element
  <2>3. DOMAIN all = {hash} /\ all[hash] = fields'
    BY <1>0 DEF withObject, insert_or_assign, FieldsTypes
  <2>4. shown' = {fields'}
    BY <2>1, <2>3
  <2>. HIDE DEF own
  <2>. QED  BY <2>1, <2>2, <2>4, OwnFieldsStep
<1>5. CASE UNCHANGED fieldsVars
  BY <1>5
  DEF FieldsIInv, FieldsTypes, FieldsAreOwn, ShownIsNow, EntryIsFormatted, dictionary,
  fieldsVars, history
<1>. QED  BY <1>1, <1>2, <1>3, <1>4, <1>5 DEF FieldsNext, FieldsGone

THEOREM FieldsInvariance == FieldsSpec => []FieldsIInv
<1>. QED  BY InitFieldsIInv, NextFieldsIInv, PTL DEF FieldsSpec

\* In whatever order the interfaces are read, whichever calls fail and whatever
\* signals come, a field is what the formatters make of the last scalar that
\* came for its property (fillMembers, processFormatters, supplementOrUpdate),
\* for every set of strings a property may hold.
THEOREM FieldsAreLastFormatted == FieldsSpec => []FieldsAreFormatted
<1>1. FieldsIInv => FieldsAreFormatted
  BY DEF FieldsIInv, FieldsAreFormatted, EntryIsFormatted, IsEntry, dictionary
<1>. QED  BY <1>1, FieldsInvariance, PTL

\* The process ends exactly when ChassisType or Unit came as something else
\* than a string; above all, supplementByStaticFields never throws.
THEOREM OnlyForeignTypesThrow == FieldsSpec => []EndsOnForeignTypeOnly
<1>1. FieldsIInv => EndsOnForeignTypeOnly
  BY DEF FieldsIInv, EndsOnForeignTypeOnly
<1>. QED  BY <1>1, FieldsInvariance, PTL

\* A request is shown the object itself with all its fields and no child of a
\* list in its place (captureComplexDBusProperty, getInstances).
THEOREM ObjectsAreShownWhole == FieldsSpec => []ShownIsWhole
<1>1. FieldsIInv => ShownIsWhole
  BY DEF FieldsIInv, ShownIsWhole, ShownIsNow, FieldsAreOwn, Element
<1>. QED  BY <1>1, FieldsInvariance, PTL
=============================================================================
