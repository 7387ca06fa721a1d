---------------------------- MODULE GraphqlBuild ----------------------------
(***************************************************************************)
(* The evaluation of a GraphQL query.  GraphqlRouter::run lets a visitor   *)
(* walk the syntax tree; for each object in the query it puts a builder on *)
(* a stack, which holds a JSON fragment with one item for each instance of *)
(* the entity, fills in the fields, and hands the fragment to the builder  *)
(* below.  Meanwhile a worker of the broker pool may replace the instances *)
(* of an entity (Entity::setInstances): first it clears the map and then   *)
(* it inserts one instance after another.  Every builder asks the entity   *)
(* for its instances several times, and nothing of this takes a lock.      *)
(* Each time Entity::getInstances runs the defaults and link rules of the  *)
(* instances, which may throw.                                             *)
(*                                                                         *)
(* The value of a field does not matter here (see EntityCache, StatusLink) *)
(* and is named by its instance.  Hashes are ordered as their decimal      *)
(* strings, which are the keys of a fragment.                              *)
(***************************************************************************)
EXTENDS Integers, Sequences, FiniteSets, FiniteSetsExt, SequencesExt

CONSTANTS
    Requests,      \* FastCGI threads
    Members,       \* Members[e]: the members of entity e
    Supplemented,  \* entities whose instances have link rules or defaults
    InitInstances, \* InitInstances[e]: the hashes of its instances at start
    Generations,   \* sets of hashes a refresh may bring
    Queries,       \* sequences of operations
    Depth,         \* Depth[s]: how deep selection set s of their syntax trees is
    MaxRefreshes   \* bound: refreshes

Entities == DOMAIN Members
Selections == DOMAIN Depth
NoAlias == ""
NoEntity == "query"  \* the root builder's name; its entity is a null pointer
Idle == {-1}

\* What the parser makes: a field holds a selection set, that of a scalar is
\* empty, and no tree holds itself.
ASSUME SyntaxAssumption ==
    /\ Selections \subseteq
          Seq([name : STRING, alias : STRING, object : BOOLEAN, fields : Selections])
    /\ Depth \in [Selections -> Nat]
    /\ \A s \in Selections : \A i \in DOMAIN s :
          s[i].object => Depth[s[i].fields] < Depth[s]
    /\ Queries \subseteq
          Seq([type : STRING, variables : BOOLEAN, fields : Selections]) \ {<<>>}

ASSUME InstancesAssumption ==
    /\ NoEntity \notin Entities
    /\ Supplemented \subseteq Entities
    /\ InitInstances \in [Entities -> SUBSET Nat]
    /\ \A e \in Entities : IsFiniteSet(InitInstances[e])
    /\ Generations \subseteq SUBSET Nat

VARIABLES
    up,         \* the process lives
    instances,  \* Entity::instances, by hash
    pending,    \* instances a refresh has still to insert, or Idle
    refreshes,  \* how often one was begun
    pc,         \* where each request is
    query,      \* its operations
    operation,  \* the number of the operation it is at
    path,       \* where the visitor is in its syntax tree: the selection sets
                \* from the operation's own to the current one
    stack,      \* its builders, the current one last
    document,   \* the visitor's result, {} before the first operation's
    disturbed   \* history: a refresh was at work since the request began

entityVars == <<instances, pending, refreshes>>
visitVars == <<query, operation, path, stack, document>>
vars == <<up, entityVars, pc, visitVars, disturbed>>
-----------------------------------------------------------------------------
(* The syntax tree and what a depth-first visitor sees of it. *)

\* A field of the query; one with a selection set is an object.
Scalar(n) == [name |-> n, alias |-> NoAlias, object |-> FALSE, fields |-> <<>>]
Aliased(n, a) == [Scalar(n) EXCEPT !.alias = a]
Object(n, fs) == [name |-> n, alias |-> NoAlias, object |-> TRUE, fields |-> fs]

\* GqlObjectBuild::getFieldName, and the name visitField gives a scalar: an
\* alias takes the place of the name, for a scalar even as the member.
getFieldName(f) == IF f.alias = NoAlias THEN f.name ELSE f.alias

\* Node::accept calls the visitor depth first: a selection set that it is in,
\* and the number of the field it is at.
Level(fields) == [fields |-> fields, at |-> 1]
Advanced(p) == [p EXCEPT ![Len(p)].at = @ + 1]
-----------------------------------------------------------------------------
(* JSON: an item is an object, or the array that a null becomes when a     *)
(* pair is pushed to it.                                                   *)

EmptyObject == [shape |-> "object", fields |-> {}]
Null == [shape |-> "array", fields |-> {}]

\* push_back of a pair: an object keeps a member it has.
Push(item, name, value) ==
    IF item.shape = "object" /\ \E p \in item.fields : p[1] = name THEN item
    ELSE [item EXCEPT !.fields = @ \cup {<<name, value>>}]

Value(h) == [of |-> h]
Nested(kind, items) == [kind |-> kind, items |-> items]

\* The root builder of a visitor has no entity and one item.
Builder(e, n, f) == [entity |-> e, name |-> n, fragment |-> f]
Root == Builder(NoEntity, NoEntity, [h \in {0} |-> EmptyObject])

\* The stack once the last builder has a new fragment.
Filled(s, f) == [s EXCEPT ![Len(s)].fragment = f]

Init ==
    /\ up = TRUE
    /\ instances = InitInstances
    /\ pending = [e \in Entities |-> Idle]
    /\ refreshes = 0
    /\ pc = [r \in Requests |-> "idle"]
    /\ query = [r \in Requests |-> <<>>]
    /\ operation = [r \in Requests |-> 0]
    /\ path = [r \in Requests |-> <<>>]
    /\ stack = [r \in Requests |-> <<>>]
    /\ document = [r \in Requests |-> EmptyObject]
    /\ disturbed = [r \in Requests |-> FALSE]
-----------------------------------------------------------------------------
At(r, l) == up /\ pc[r] = l
Goto(r, l) == pc' = [pc EXCEPT ![r] = l]
Busy(r) == pc[r] \notin {"idle", "data", "error"}
Top(r) == Last(stack[r])
Here(r) == Last(path[r])
AtEnd(r) == At(r, "visit") /\ Here(r).at > Len(Here(r).fields)
FieldAt(r) == Here(r).fields[Here(r).at]
AtField(r, object) ==
    At(r, "visit") /\ Here(r).at <= Len(Here(r).fields) /\ FieldAt(r).object = object

Disturb == disturbed' = [r \in Requests |-> pc[r] # "idle"]

\* Entity::setInstances by a worker.
ClearInstances(e) ==
    /\ up /\ pending[e] = Idle
    /\ refreshes < MaxRefreshes
    /\ refreshes' = refreshes + 1
    /\ \E g \in Generations : pending' = [pending EXCEPT ![e] = g]
    /\ instances' = [instances EXCEPT ![e] = {}]
    /\ Disturb
    /\ UNCHANGED <<up, pc, visitVars>>

InsertInstance(e) ==
    /\ up /\ pending[e] \notin {Idle, {}}
    /\ \E h \in pending[e] :
         /\ instances' = [instances EXCEPT ![e] = @ \cup {h}]
         /\ pending' = [pending EXCEPT ![e] = @ \ {h}]
    /\ Disturb
    /\ UNCHANGED <<up, refreshes, pc, visitVars>>

Refreshed(e) ==
    /\ up /\ pending[e] = {}
    /\ pending' = [pending EXCEPT ![e] = Idle]
    /\ Disturb
    /\ UNCHANGED <<up, instances, refreshes, pc, visitVars>>
-----------------------------------------------------------------------------
(* GraphqlRouter::run. *)
Begin(r) ==
    /\ up /\ ~Busy(r)
    /\ \E q \in Queries : query' = [query EXCEPT ![r] = q]
    /\ operation' = [operation EXCEPT ![r] = 1]
    /\ document' = [document EXCEPT ![r] = EmptyObject]
    /\ path' = [path EXCEPT ![r] = <<>>]
    /\ stack' = [stack EXCEPT ![r] = <<>>]
    /\ disturbed' = [disturbed EXCEPT ![r] = \E e \in Entities : pending[e] # Idle]
    /\ Goto(r, "operation")
    /\ UNCHANGED <<up, entityVars>>

\* ObmcGqlVisitor::visitOperationDefinition: the factory knows a visitor for
\* queries only.  visitVariableDefinition throws as well.
visitOperationDefinition(r) ==
    /\ At(r, "operation")
    /\ LET op == query[r][operation[r]]
       IN  IF op.type # "query" THEN Goto(r, "error") /\ UNCHANGED <<path, stack>>
           ELSE /\ stack' = [stack EXCEPT ![r] = <<Root>>]
                /\ path' = [path EXCEPT ![r] = <<Level(op.fields)>>]
                /\ Goto(r, IF op.variables THEN "unwind" ELSE "visit")
    /\ UNCHANGED <<up, entityVars, query, operation, document, disturbed>>

\* A new builder with items for some hashes; an unknown entity is an AST error.
Enter(r, hashes) ==
    /\ AtField(r, TRUE)
    /\ LET f == FieldAt(r)
           items == [h \in hashes[f.name] |-> EmptyObject]
       IN  IF f.name \notin Entities THEN Goto(r, "unwind") /\ UNCHANGED <<path, stack>>
           ELSE /\ stack' = [stack EXCEPT ![r] =
                               Append(@, Builder(f.name, getFieldName(f), items))]
                /\ path' = [path EXCEPT ![r] = Append(@, Level(f.fields))]
                /\ UNCHANGED pc
    /\ UNCHANGED <<up, entityVars, query, operation, document, disturbed>>

\* Mutant: the instances get their items with their first field.
visitObjectLazy(r) == Enter(r, [e \in Entities |-> {}])

\* visitField of an object: the constructor of GqlObjectBuild inits an item
\* for each instance.
visitObject(r) == Enter(r, instances)

\* GqlObjectBuild::supplement of a field, for the instances there are now.
supplementField(fragment, name, hs) ==
    [h \in DOMAIN fragment \cup hs |->
        LET item == IF h \in DOMAIN fragment THEN fragment[h] ELSE Null
        IN  IF h \in hs THEN Push(item, name, Value(h)) ELSE item]

\* visitField of a scalar; a member the entity does not have is an error.
visitScalar(r) ==
    /\ AtField(r, FALSE)
    /\ Top(r).entity # NoEntity
    /\ LET e == Top(r).entity
           name == getFieldName(FieldAt(r))
       IN  IF name \notin Members[e] THEN Goto(r, "unwind") /\ UNCHANGED <<path, stack>>
           ELSE /\ stack' = [stack EXCEPT ![r] =
                       Filled(@, supplementField(Top(r).fragment, name, instances[e]))]
                /\ path' = [path EXCEPT ![r] = Advanced(@)]
                /\ UNCHANGED pc
    /\ UNCHANGED <<up, entityVars, query, operation, document, disturbed>>

\* A scalar outside every object: the root builder's null entity is used.
RootScalar(r) ==
    /\ AtField(r, FALSE)
    /\ Top(r).entity = NoEntity
    /\ up' = FALSE
    /\ UNCHANGED <<entityVars, pc, visitVars, disturbed>>

\* endVisitField, getFragment: is there one instance?
getFragment(r) ==
    /\ AtEnd(r) /\ Len(path[r]) > 1
    /\ Goto(r, IF Cardinality(instances[Top(r).entity]) = 1 THEN "one" ELSE "notOne")
    /\ UNCHANGED <<up, entityVars, visitVars, disturbed>>

\* pushFragmentToParent: the supplement of every item of the parent.
PushToParent(r, value) ==
    LET fragment == Last(Front(stack[r])).fragment
        items == [h \in DOMAIN fragment |-> Push(fragment[h], Top(r).name, value)]
    IN  /\ stack' = [stack EXCEPT ![r] = Filled(Front(@), items)]
        /\ path' = [path EXCEPT ![r] = Advanced(Front(@))]
        /\ Goto(r, "visit")

\* There was one: fragment.back(), the item with the greatest key.
LeaveOne(r) ==
    /\ At(r, "one")
    /\ LET f == Top(r).fragment
       IN  /\ DOMAIN f # {}
           /\ PushToParent(r, Nested("one", [h \in {Max(DOMAIN f)} |-> f[h]]))
    /\ UNCHANGED <<up, entityVars, query, operation, document, disturbed>>

\* Mutant: instances are a list from the second question on.
LeaveListAlways(r) ==
    /\ At(r, "notOne")
    /\ PushToParent(r, Nested("list", Top(r).fragment))
    /\ UNCHANGED <<up, entityVars, query, operation, document, disturbed>>

\* Not one; asked again, are there more?  Otherwise the object is empty.
LeaveList(r) ==
    /\ At(r, "notOne")
    /\ PushToParent(r, IF Cardinality(instances[Top(r).entity]) > 1
                       THEN Nested("list", Top(r).fragment)
                       ELSE Nested("none", [h \in {} |-> EmptyObject]))
    /\ UNCHANGED <<up, entityVars, query, operation, document, disturbed>>

\* back() of an empty fragment: instances have appeared since the builder was
\* made.  The visitor's destructor asks the same when a query is given up.
BackOfEmpty(r) ==
    /\ up
    /\ \/ pc[r] = "one"
       \/ /\ pc[r] = "unwind" /\ Top(r).entity # NoEntity
          /\ Cardinality(instances[Top(r).entity]) = 1
    /\ DOMAIN Top(r).fragment = {}
    /\ up' = FALSE
    /\ UNCHANGED <<entityVars, pc, visitVars, disturbed>>

\* Mutant: the query goes on after a field that does not exist.
UnwindSkips(r) ==
    /\ At(r, "unwind")
    /\ Goto(r, "visit")
    /\ path' = [path EXCEPT ![r] =
                   IF Here(r).at > Len(Here(r).fields) THEN @ ELSE Advanced(@)]
    /\ UNCHANGED <<up, entityVars, query, operation, stack, document, disturbed>>

\* A GqlException reaches run: an answer with an error and no data.
Unwind(r) ==
    /\ At(r, "unwind")
    /\ Top(r).entity # NoEntity /\ DOMAIN Top(r).fragment = {}
         => Cardinality(instances[Top(r).entity]) # 1
    /\ Goto(r, "error")
    /\ UNCHANGED <<up, entityVars, visitVars, disturbed>>

\* ~GqlQueryVisitor: the root's item becomes the result of the operation, of
\* the last one where there are several.
EndOperation(r) ==
    /\ AtEnd(r) /\ Len(path[r]) = 1
    /\ document' = [document EXCEPT ![r] = Top(r).fragment[0]]
    /\ IF operation[r] < Len(query[r])
       THEN operation' = [operation EXCEPT ![r] = @ + 1] /\ Goto(r, "operation")
       ELSE UNCHANGED operation /\ Goto(r, "data")
    /\ UNCHANGED <<up, entityVars, query, path, stack, disturbed>>

\* The next thing the request does is to ask entity e for its instances.
Asks(r, e) ==
    \/ AtField(r, TRUE) /\ FieldAt(r).name = e
    \/ AtField(r, FALSE) /\ Top(r).entity = e /\ getFieldName(FieldAt(r)) \in Members[e]
    \/ AtEnd(r) /\ Top(r).entity = e
    \/ up /\ pc[r] \in {"notOne", "unwind"} /\ Top(r).entity = e

\* getInstances iterates the map while a worker clears or fills it.
CopyFault(r) ==
    /\ \E e \in Entities : pending[e] # Idle /\ Asks(r, e)
    /\ up' = FALSE
    /\ UNCHANGED <<entityVars, pc, visitVars, disturbed>>

\* getInstances throws from a default or a link rule of an instance: a status
\* nobody knows, a member that another request added first (StatusLink and
\* VersionLink say when).  Neither the visitor nor run catches it, and it may
\* come in the visitor's destructor.
SupplementThrows(r) ==
    /\ \E e \in Supplemented : instances[e] # {} /\ Asks(r, e)
    /\ up' = FALSE
    /\ UNCHANGED <<entityVars, pc, visitVars, disturbed>>

Gone == ~up /\ UNCHANGED vars

Visit(r) ==
    \/ visitOperationDefinition(r) \/ visitObject(r) \/ visitScalar(r) \/ RootScalar(r)
    \/ getFragment(r) \/ LeaveOne(r) \/ LeaveList(r) \/ BackOfEmpty(r)
    \/ Unwind(r) \/ EndOperation(r)

Refresh(e) == ClearInstances(e) \/ InsertInstance(e) \/ Refreshed(e)

Next ==
    \/ \E e \in Entities : Refresh(e)
    \/ \E r \in Requests : Begin(r) \/ Visit(r) \/ CopyFault(r) \/ SupplementThrows(r)
    \/ Gone

Spec == Init /\ [][Next]_vars
-----------------------------------------------------------------------------
(* What a query means, for instances that stay. *)

\* The value of field f of instance h, where F gives what the selection sets in
\* f mean.
FieldValue(F, f, of, h) ==
    LET n == Cardinality(of[f.name])
    IN  IF ~f.object THEN Value(h)
        ELSE Nested(CASE n = 0 -> "none" [] n = 1 -> "one" [] OTHER -> "list",
                    [k \in of[f.name] |->
                        [shape |-> "object", fields |-> F[f.fields][of][k]]])

\* The first n fields of a selection; of two with one name the first counts.
IsFirst(s, i) == \A j \in 1 .. i - 1 : getFieldName(s[j]) # getFieldName(s[i])
Firsts(F, s, n, of, h) ==
    {<<getFieldName(s[i]), FieldValue(F, s[i], of, h)>> :
        i \in {j \in 1 .. n : IsFirst(s, j)}}

\* All fields of a selection, for any instances of and any of them, h.
Evaluate[s \in Selections] ==
    [of \in [Entities -> SUBSET Nat] |-> [h \in Nat |-> Firsts(Evaluate, s, Len(s), of, h)]]

\* The names of a field of entity e are known, K being the entities for which
\* those of a selection are.
IsKnown(K, e, f) ==
    IF f.object THEN f.name \in Entities /\ f.name \in K[f.fields]
    ELSE e # NoEntity /\ getFieldName(f) \in Members[e]

Known[s \in Selections] ==
    {e \in Entities \cup {NoEntity} : \A i \in DOMAIN s : IsKnown(Known, e, s[i])}

IsValid(op) == op.type = "query" /\ ~op.variables /\ NoEntity \in Known[op.fields]
Valid(q) == \A i \in DOMAIN q : IsValid(q[i])

\* Some scalar of the query is in no object.
HasRootScalar(q) == \E i \in DOMAIN q : \E j \in DOMAIN q[i].fields : ~q[i].fields[j].object

\* No object of the query is one of the entities es: there are selection sets,
\* closed under those of their fields, that hold the query's and name none.
Avoids(q, es) ==
    \E S \in SUBSET Selections :
        /\ \A i \in DOMAIN q : q[i].fields \in S
        /\ \A s \in S : \A i \in DOMAIN s :
              s[i].object => s[i].name \notin es /\ s[i].fields \in S
-----------------------------------------------------------------------------
(* Properties. *)

\* A request that no refresh disturbs is answered with what its last operation
\* means: the stack of builders is back at its root, each object is one item,
\* a list or empty as its entity has one, more or no instances, and each item
\* has every field that was asked for.
AnswerIsEvaluation ==
    \A r \in Requests : pc[r] = "data" /\ ~disturbed[r] =>
        /\ Len(stack[r]) = 1
        /\ document[r] = [shape |-> "object",
                          fields |-> Evaluate[Last(query[r]).fields][instances][0]]

\* A query with known names gets data and any other gets an error, whatever
\* the refreshes do to the instances meanwhile.
ErrorIffInvalid ==
    \A r \in Requests : /\ pc[r] = "error" => ~Valid(query[r])
                        /\ pc[r] = "data" => Valid(query[r])

\* What makes a request able to bring the process down.
Exposed(r) ==
    disturbed[r] \/ HasRootScalar(query[r]) \/ ~Avoids(query[r], Supplemented)

\* A request that no refresh disturbs, whose scalars are all in objects and none
\* of whose objects is an entity with link rules or defaults never brings the
\* process down: fragments are never empty when back() is called on them, also
\* while an exception unwinds the builders (getFragment, ~GqlQueryVisitor).
FaultOnlyIfExposed ==
    ~up => \E r \in Requests : Busy(r) /\ Exposed(r)
=============================================================================
