------------------------- MODULE GraphqlBuildProofs -------------------------
(***************************************************************************)
(* Machine-checked proofs about GraphqlBuild, for any number of FastCGI    *)
(* threads, entities, members and instances, any refreshes, and any        *)
(* queries, however wide and deep.                                         *)
(***************************************************************************)
EXTENDS GraphqlBuild, WellFoundedInduction, FiniteSetTheorems, TLAPS

-----------------------------------------------------------------------------
(***************************************************************************)
(* The inductive invariant.  Beside what the properties say of answers and *)
(* faults, it says where the visitor is: path and stack are the way from   *)
(* the operation down to the current object (Matches), the fields it has   *)
(* passed have known names (SoFarKnown), those still to come too if the    *)
(* query is valid (AllKnown), and each fragment holds what the fields      *)
(* passed mean, as long as no refresh disturbed the request (Filling).     *)
(***************************************************************************)

Labels == {"idle", "operation", "visit", "one", "notOne", "unwind", "data", "error"}
Levels == [fields : Selections, at : Nat]

Types ==
    /\ up \in BOOLEAN
    /\ instances \in [Entities -> SUBSET Nat]
    /\ \A e \in Entities : IsFiniteSet(instances[e])
    /\ pending \in [Entities -> (SUBSET Nat) \cup {Idle}]
    /\ pc \in [Requests -> Labels]
    /\ query \in [Requests -> Queries \cup {<<>>}]
    /\ operation \in [Requests -> Nat]
    /\ path \in [Requests -> Seq(Levels)]
    /\ stack = [r \in Requests |-> stack[r]]
    /\ document = [r \in Requests |-> document[r]]
    /\ disturbed \in [Requests -> BOOLEAN]

\* Level k + 1 of path p is the object field that level k is at, and builder
\* k + 1 of stack s is that object's.
Above(p, s, k) ==
    LET f == p[k].fields[p[k].at]
    IN  /\ p[k].at <= Len(p[k].fields) /\ f.object /\ f.name \in Entities
        /\ p[k + 1].fields = f.fields
        /\ s[k + 1].entity = f.name /\ s[k + 1].name = getFieldName(f)

\* The builders are those of the path, which starts at the operation's fields.
Matches(fields, p, s) ==
    /\ p \in Seq(Levels) /\ s \in Seq(Range(s))
    /\ Len(p) > 0 /\ Len(s) = Len(p)
    /\ p[1].fields = fields /\ s[1].entity = NoEntity
    /\ \A k \in 1 .. Len(p) : /\ p[k].at \in 1 .. Len(p[k].fields) + 1
                              /\ s[k] = Builder(s[k].entity, s[k].name, s[k].fragment)
    /\ \A k \in 1 .. Len(p) - 1 : Above(p, s, k)

\* The fields of every level up to where the visitor is are known.
SoFarKnown(p, s) ==
    \A k \in 1 .. Len(p) : \A i \in 1 .. p[k].at - 1 :
        IsKnown(Known, s[k].entity, p[k].fields[i])

\* All of them are.
AllKnown(p, s) == \A k \in 1 .. Len(p) : s[k].entity \in Known[p[k].fields]

\* The instances that a builder of entity e has an item for.
Items(e, of) == IF e = NoEntity THEN {0} ELSE of[e]

\* The fragment after the first n fields.
Item(fs) == [shape |-> "object", fields |-> fs]
Partial(fields, n, e, of) ==
    [h \in Items(e, of) |-> Item(Firsts(Evaluate, fields, n, of, h))]

Filling(p, s, of) ==
    \A k \in 1 .. Len(p) :
        s[k].fragment = Partial(p[k].fields, p[k].at - 1, s[k].entity, of)

\* What holds of a request whatever the refreshes do.
Sound(l, q, n, p, s) ==
    /\ l # "idle" => /\ q \in Queries /\ n \in 1 .. Len(q)
                     /\ \A i \in 1 .. n - 1 : IsValid(q[i])
    /\ l \in {"visit", "one", "notOne", "unwind"} =>
          /\ Matches(q[n].fields, p, s)
          /\ SoFarKnown(p, s)
          /\ q[n].type = "query"
    /\ l \in {"visit", "one", "notOne"} =>
          /\ ~q[n].variables
          /\ Valid(q) => AllKnown(p, s)
    /\ l \in {"one", "notOne"} => Len(p) > 1 /\ Last(p).at = Len(Last(p).fields) + 1
    /\ l \in {"unwind", "error"} => ~Valid(q)
    /\ l = "data" => Valid(q)

\* What holds of one that no refresh has disturbed.
Exact(l, q, p, s, d, of, pe) ==
    /\ \A e \in Entities : pe[e] = Idle
    /\ l \in {"visit", "one", "notOne", "unwind"} => Filling(p, s, of)
    /\ l = "one" => Cardinality(of[Last(s).entity]) = 1
    /\ l = "notOne" => Cardinality(of[Last(s).entity]) # 1
    /\ l = "data" => /\ Len(s) = 1
                     /\ d = [shape |-> "object",
                             fields |-> Evaluate[Last(q).fields][of][0]]

Good(r) ==
    /\ Sound(pc[r], query[r], operation[r], path[r], stack[r])
    /\ pc[r] # "idle" /\ ~disturbed[r] =>
          Exact(pc[r], query[r], path[r], stack[r], document[r], instances, pending)

IInv == Types /\ (\A r \in Requests : Good(r)) /\ FaultOnlyIfExposed
-----------------------------------------------------------------------------
(***************************************************************************)
(* Known and Evaluate are the functions their definitions say: a selection *)
(* set depends on less deep ones only.  For each depth there is a function *)
(* that satisfies the definition so far (the least depth with none would   *)
(* have one), any two of them agree, and together they make one for all.   *)
(***************************************************************************)

\* A set of numbers that is not empty has a least one.
LEMMA LeastNat ==
    ASSUME NEW T, T \subseteq Nat, T # {}
    PROVE  \E n \in T : \A m \in T : n <= m
<1>. DEFINE R == OpToRel(<, Nat)
<1>1. IsWellFoundedOn(R, Nat)
  BY NatLessThanWellFounded
<1>2. \A m, n \in Nat : m < n => <<m, n>> \in R
  BY DEF OpToRel
<1>. HIDE DEF R
<1>3. PICK n \in T : \A m \in T : ~(<<m, n>> \in R)
  BY <1>1, WFMin
<1>4. ASSUME NEW m \in T
      PROVE  n <= m
  <2>1. m \in Nat /\ n \in Nat
    OBVIOUS
  <2>2. ~(m < n)
    BY <1>2, <1>3, <2>1
  <2>. QED  BY <2>1, <2>2
<1>. QED  BY <1>4

\* The fields of a selection set are records, and the selection set of an
\* object among them is less deep.
LEMMA FieldsOf ==
    ASSUME NEW s \in Selections, NEW i \in DOMAIN s
    PROVE  /\ Len(s) \in Nat /\ DOMAIN s = 1 .. Len(s)
           /\ s[i].name \in STRING /\ s[i].object \in BOOLEAN /\ s[i].fields \in Selections
           /\ Depth[s] \in Nat
           /\ s[i].object => Depth[s[i].fields] \in Nat /\ Depth[s[i].fields] < Depth[s]
<1>. DEFINE Fields == [name : STRING, alias : STRING, object : BOOLEAN, fields : Selections]
<1>1. s \in Seq(Fields)
  BY SyntaxAssumption
<1>. HIDE DEF Fields
<1>2. s[i] \in Fields /\ Len(s) \in Nat /\ DOMAIN s = 1 .. Len(s)
  BY <1>1
<1>. USE DEF Fields
<1>3. s[i].name \in STRING /\ s[i].object \in BOOLEAN /\ s[i].fields \in Selections
  BY <1>2
<1>4. \A t \in Selections : Depth[t] \in Nat
  BY SyntaxAssumption
<1>5. s[i].object => Depth[s[i].fields] < Depth[s]
  BY SyntaxAssumption
<1>. QED  BY <1>2, <1>3, <1>4, <1>5

\* Known at s, if f is Known at less deep selection sets.
KnownBy(f, s) ==
    {e \in Entities \cup {NoEntity} : \A i \in DOMAIN s : IsKnown(f, e, s[i])}

Shallow(n) == {s \in Selections : Depth[s] < n}
KnowsTo(f, n) == f = [s \in Shallow(n) |-> KnownBy(f, s)]

\* What is known at a selection set depends on what is at less deep ones.
LEMMA KnownByLocal ==
    ASSUME NEW s \in Selections, NEW f, NEW g,
           \A t \in Selections : Depth[t] < Depth[s] => f[t] = g[t]
    PROVE  KnownBy(f, s) = KnownBy(g, s)
<1>1. ASSUME NEW e, NEW i \in DOMAIN s
      PROVE  IsKnown(f, e, s[i]) <=> IsKnown(g, e, s[i])
  <2>1. s[i].fields \in Selections
        /\ (s[i].object => Depth[s[i].fields] < Depth[s])
    BY FieldsOf
  <2>. QED  BY <2>1 DEF IsKnown
<1>. QED  BY <1>1 DEF KnownBy

\* Two functions that satisfy the definition so far agree where both do: at the
\* least deep selection set where they differed, they would not.
LEMMA KnowsToAgree ==
    ASSUME NEW n \in Nat, NEW m \in Nat, NEW f, NEW g, KnowsTo(f, n), KnowsTo(g, m),
           NEW s \in Selections, Depth[s] < n, Depth[s] < m
    PROVE  f[s] = g[s]
<1>. DEFINE Bad == {Depth[t] : t \in {u \in Selections :
                        Depth[u] < n /\ Depth[u] < m /\ f[u] # g[u]}}
<1>. SUFFICES ASSUME f[s] # g[s] PROVE FALSE
  OBVIOUS
<1>0. \A t \in Selections : Depth[t] \in Nat
  BY SyntaxAssumption
<1>1. Bad # {} /\ Bad \subseteq Nat
  BY <1>0
<1>2. PICK d \in Bad : \A c \in Bad : d <= c
  BY <1>1, LeastNat
<1>3. PICK t \in Selections : Depth[t] = d /\ Depth[t] < n /\ Depth[t] < m /\ f[t] # g[t]
  BY <1>2
<1>4. \A u \in Selections : Depth[u] < Depth[t] => f[u] = g[u]
  <2>. TAKE u \in Selections
  <2>. HAVE Depth[u] < Depth[t]
  <2>. SUFFICES ASSUME f[u] # g[u] PROVE FALSE
    OBVIOUS
  <2>1. Depth[u] \in Nat /\ Depth[t] \in Nat
    BY <1>0
  <2>2. Depth[u] < n /\ Depth[u] < m
    BY <2>1, <1>3
  <2>3. Depth[u] \in Bad
    BY <2>2
  <2>4. d <= Depth[u]
    BY <2>3, <1>2
  <2>. QED  BY <2>4, <1>3, <2>1
<1>5. KnownBy(f, t) = KnownBy(g, t)
  BY <1>4, KnownByLocal
<1>6. f[t] = KnownBy(f, t) /\ g[t] = KnownBy(g, t)
  BY <1>3 DEF KnowsTo, Shallow
<1>. QED  BY <1>3, <1>5, <1>6

\* There is one for every depth.
LEMMA KnowsToExists ==
    ASSUME NEW n \in Nat
    PROVE  \E f : KnowsTo(f, n)
<1>. DEFINE Bad == {m \in Nat : ~ \E f : KnowsTo(f, m)}
<1>0. \A t \in Selections : Depth[t] \in Nat
  BY SyntaxAssumption
<1>. SUFFICES ASSUME Bad # {} PROVE FALSE
  OBVIOUS
<1>1. PICK m \in Bad : \A c \in Bad : m <= c
  BY LeastNat
<1>2. CASE m = 0
  <2>. DEFINE f == [s \in Shallow(0) |-> {}]
  <2>1. Shallow(0) = {}
    BY <1>0 DEF Shallow
  <2>2. f = [s \in Shallow(0) |-> KnownBy(f, s)]
    BY <2>1
  <2>3. KnowsTo(f, 0)
    BY <2>2 DEF KnowsTo
  <2>. QED  BY <1>1, <1>2, <2>3
<1>3. CASE m # 0
  <2>1. m - 1 \in Nat /\ m - 1 \notin Bad
    BY <1>1, <1>3
  <2>2. PICK f : KnowsTo(f, m - 1)
    BY <2>1
  <2>. DEFINE g == [s \in Shallow(m) |-> KnownBy(f, s)]
  <2>3. ASSUME NEW s \in Shallow(m)
        PROVE  KnownBy(f, s) = KnownBy(g, s)
    <3>0. s \in Selections /\ Depth[s] < m
      BY DEF Shallow
    <3>1. ASSUME NEW t \in Selections, Depth[t] < Depth[s]
          PROVE  f[t] = g[t]
      <4>1. Depth[t] < m - 1 /\ Depth[t] < m
        BY <3>0, <3>1, <1>0, <2>1
      <4>2. f[t] = KnownBy(f, t)
        BY <4>1, <2>2 DEF KnowsTo, Shallow
      <4>3. g[t] = KnownBy(f, t)
        BY <4>1 DEF Shallow
      <4>. QED  BY <4>2, <4>3
    <3>. HIDE DEF g
    <3>. QED  BY <3>0, <3>1, KnownByLocal
  <2>4. g = [s \in Shallow(m) |-> KnownBy(g, s)]
    BY <2>3
  <2>5. KnowsTo(g, m)
    BY <2>4 DEF KnowsTo
  <2>. QED  BY <2>5, <1>1
<1>. QED  BY <1>2, <1>3

\* Known is the function its definition says.
LEMMA KnownDefined == Known = [s \in Selections |-> KnownBy(Known, s)]
<1>. DEFINE Stage(n) == CHOOSE f : KnowsTo(f, n)
            F == [s \in Selections |-> Stage(Depth[s] + 1)[s]]
<1>0. \A t \in Selections : Depth[t] \in Nat
  BY SyntaxAssumption
<1>1. ASSUME NEW n \in Nat PROVE KnowsTo(Stage(n), n)
  BY KnowsToExists
<1>. HIDE DEF Stage
<1>2. ASSUME NEW s \in Selections
      PROVE  F[s] = KnownBy(F, s)
  <2>. DEFINE f == Stage(Depth[s] + 1)
  <2>1. KnowsTo(f, Depth[s] + 1) /\ Depth[s] < Depth[s] + 1
    BY <1>0, <1>1
  <2>2. f[s] = KnownBy(f, s)
    BY <2>1 DEF KnowsTo, Shallow
  <2>3. ASSUME NEW t \in Selections, Depth[t] < Depth[s]
        PROVE  f[t] = F[t]
    <3>. DEFINE g == Stage(Depth[t] + 1)
    <3>1. KnowsTo(g, Depth[t] + 1) /\ Depth[t] < Depth[t] + 1 /\ Depth[t] < Depth[s] + 1
          /\ Depth[t] + 1 \in Nat /\ Depth[s] + 1 \in Nat
      BY <1>0, <1>1, <2>3
    <3>2. F[t] = g[t]
      OBVIOUS
    <3>. HIDE DEF f, g, F
    <3>3. f[t] = g[t]
      BY <3>1, <2>1, KnowsToAgree
    <3>. QED  BY <3>2, <3>3
  <2>4. F[s] = f[s]
    OBVIOUS
  <2>. HIDE DEF f, F
  <2>5. KnownBy(f, s) = KnownBy(F, s)
    BY <2>3, KnownByLocal
  <2>. QED  BY <2>2, <2>4, <2>5
<1>3. F = [s \in Selections |-> KnownBy(F, s)]
  BY <1>2
<1>. HIDE DEF F
<1>4. \E f : f = [s \in Selections |-> KnownBy(f, s)]
  BY <1>3
<1>. QED  BY <1>4 DEF Known, KnownBy

\* The same for Evaluate.
EvaluatedBy(f, s) ==
    [of \in [Entities -> SUBSET Nat] |-> [h \in Nat |-> Firsts(f, s, Len(s), of, h)]]

EvaluatesTo(f, n) == f = [s \in Shallow(n) |-> EvaluatedBy(f, s)]

\* What a selection set means depends on what less deep ones mean.
LEMMA EvaluatedByLocal ==
    ASSUME NEW s \in Selections, NEW f, NEW g,
           \A t \in Selections : Depth[t] < Depth[s] => f[t] = g[t]
    PROVE  EvaluatedBy(f, s) = EvaluatedBy(g, s)
<1>1. ASSUME NEW of, NEW h
      PROVE  Firsts(f, s, Len(s), of, h) = Firsts(g, s, Len(s), of, h)
  <2>1. ASSUME NEW i \in 1 .. Len(s)
        PROVE  FieldValue(f, s[i], of, h) = FieldValue(g, s[i], of, h)
    <3>1. i \in DOMAIN s
      BY SyntaxAssumption
    <3>2. CASE s[i].object
      <4>1. f[s[i].fields] = g[s[i].fields]
        BY <3>1, <3>2, FieldsOf
      <4>. QED  BY <4>1 DEF FieldValue
    <3>3. CASE ~s[i].object
      BY <3>3 DEF FieldValue
    <3>. QED  BY <3>2, <3>3
  <2>. QED  BY <2>1 DEF Firsts
<1>. QED  BY <1>1 DEF EvaluatedBy

\* Two functions that satisfy the definition so far agree where both do.
LEMMA EvaluatesToAgree ==
    ASSUME NEW n \in Nat, NEW m \in Nat, NEW f, NEW g, EvaluatesTo(f, n), EvaluatesTo(g, m),
           NEW s \in Selections, Depth[s] < n, Depth[s] < m
    PROVE  f[s] = g[s]
<1>. DEFINE Bad == {Depth[t] : t \in {u \in Selections :
                        Depth[u] < n /\ Depth[u] < m /\ f[u] # g[u]}}
<1>. SUFFICES ASSUME f[s] # g[s] PROVE FALSE
  OBVIOUS
<1>0. \A t \in Selections : Depth[t] \in Nat
  BY SyntaxAssumption
<1>1. Bad # {} /\ Bad \subseteq Nat
  BY <1>0
<1>2. PICK d \in Bad : \A c \in Bad : d <= c
  BY <1>1, LeastNat
<1>3. PICK t \in Selections : Depth[t] = d /\ Depth[t] < n /\ Depth[t] < m /\ f[t] # g[t]
  BY <1>2
<1>4. \A u \in Selections : Depth[u] < Depth[t] => f[u] = g[u]
  <2>. TAKE u \in Selections
  <2>. HAVE Depth[u] < Depth[t]
  <2>. SUFFICES ASSUME f[u] # g[u] PROVE FALSE
    OBVIOUS
  <2>1. Depth[u] \in Nat /\ Depth[t] \in Nat
    BY <1>0
  <2>2. Depth[u] < n /\ Depth[u] < m
    BY <2>1, <1>3
  <2>3. Depth[u] \in Bad
    BY <2>2
  <2>4. d <= Depth[u]
    BY <2>3, <1>2
  <2>. QED  BY <2>4, <1>3, <2>1
<1>5. EvaluatedBy(f, t) = EvaluatedBy(g, t)
  BY <1>4, EvaluatedByLocal
<1>6. f[t] = EvaluatedBy(f, t) /\ g[t] = EvaluatedBy(g, t)
  BY <1>3 DEF EvaluatesTo, Shallow
<1>. QED  BY <1>3, <1>5, <1>6

\* There is one for every depth.
LEMMA EvaluatesToExists ==
    ASSUME NEW n \in Nat
    PROVE  \E f : EvaluatesTo(f, n)
<1>. DEFINE Bad == {m \in Nat : ~ \E f : EvaluatesTo(f, m)}
<1>0. \A t \in Selections : Depth[t] \in Nat
  BY SyntaxAssumption
<1>. SUFFICES ASSUME Bad # {} PROVE FALSE
  OBVIOUS
<1>1. PICK m \in Bad : \A c \in Bad : m <= c
  BY LeastNat
<1>2. CASE m = 0
  <2>. DEFINE f == [s \in Shallow(0) |-> {}]
  <2>1. Shallow(0) = {}
    BY <1>0 DEF Shallow
  <2>2. f = [s \in Shallow(0) |-> EvaluatedBy(f, s)]
    BY <2>1
  <2>3. EvaluatesTo(f, 0)
    BY <2>2 DEF EvaluatesTo
  <2>. QED  BY <1>1, <1>2, <2>3
<1>3. CASE m # 0
  <2>1. m - 1 \in Nat /\ m - 1 \notin Bad
    BY <1>1, <1>3
  <2>2. PICK f : EvaluatesTo(f, m - 1)
    BY <2>1
  <2>. DEFINE g == [s \in Shallow(m) |-> EvaluatedBy(f, s)]
  <2>3. ASSUME NEW s \in Shallow(m)
        PROVE  EvaluatedBy(f, s) = EvaluatedBy(g, s)
    <3>0. s \in Selections /\ Depth[s] < m
      BY DEF Shallow
    <3>1. ASSUME NEW t \in Selections, Depth[t] < Depth[s]
          PROVE  f[t] = g[t]
      <4>1. Depth[t] < m - 1 /\ Depth[t] < m
        BY <3>0, <3>1, <1>0, <2>1
      <4>2. f[t] = EvaluatedBy(f, t)
        BY <4>1, <2>2 DEF EvaluatesTo, Shallow
      <4>3. g[t] = EvaluatedBy(f, t)
        BY <4>1 DEF Shallow
      <4>. QED  BY <4>2, <4>3
    <3>. HIDE DEF g
    <3>. QED  BY <3>0, <3>1, EvaluatedByLocal
  <2>4. g = [s \in Shallow(m) |-> EvaluatedBy(g, s)]
    BY <2>3
  <2>5. EvaluatesTo(g, m)
    BY <2>4 DEF EvaluatesTo
  <2>. QED  BY <2>5, <1>1
<1>. QED  BY <1>2, <1>3

\* Evaluate is the function its definition says.
LEMMA EvaluateDefined == Evaluate = [s \in Selections |-> EvaluatedBy(Evaluate, s)]
<1>. DEFINE Stage(n) == CHOOSE f : EvaluatesTo(f, n)
            F == [s \in Selections |-> Stage(Depth[s] + 1)[s]]
<1>0. \A t \in Selections : Depth[t] \in Nat
  BY SyntaxAssumption
<1>1. ASSUME NEW n \in Nat PROVE EvaluatesTo(Stage(n), n)
  BY EvaluatesToExists
<1>. HIDE DEF Stage
<1>2. ASSUME NEW s \in Selections
      PROVE  F[s] = EvaluatedBy(F, s)
  <2>. DEFINE f == Stage(Depth[s] + 1)
  <2>1. EvaluatesTo(f, Depth[s] + 1) /\ Depth[s] < Depth[s] + 1
    BY <1>0, <1>1
  <2>2. f[s] = EvaluatedBy(f, s)
    BY <2>1 DEF EvaluatesTo, Shallow
  <2>3. ASSUME NEW t \in Selections, Depth[t] < Depth[s]
        PROVE  f[t] = F[t]
    <3>. DEFINE g == Stage(Depth[t] + 1)
    <3>1. EvaluatesTo(g, Depth[t] + 1) /\ Depth[t] < Depth[t] + 1 /\ Depth[t] < Depth[s] + 1
          /\ Depth[t] + 1 \in Nat /\ Depth[s] + 1 \in Nat
      BY <1>0, <1>1, <2>3
    <3>2. F[t] = g[t]
      OBVIOUS
    <3>. HIDE DEF f, g, F
    <3>3. f[t] = g[t]
      BY <3>1, <2>1, EvaluatesToAgree
    <3>. QED  BY <3>2, <3>3
  <2>4. F[s] = f[s]
    OBVIOUS
  <2>. HIDE DEF f, F
  <2>5. EvaluatedBy(f, s) = EvaluatedBy(F, s)
    BY <2>3, EvaluatedByLocal
  <2>. QED  BY <2>2, <2>4, <2>5
<1>3. F = [s \in Selections |-> EvaluatedBy(F, s)]
  BY <1>2
<1>. HIDE DEF F
<1>4. \E f : f = [s \in Selections |-> EvaluatedBy(f, s)]
  BY <1>3
<1>. QED  BY <1>4 DEF Evaluate, EvaluatedBy
-----------------------------------------------------------------------------
(***************************************************************************)
(* Sequences.                                                              *)
(***************************************************************************)

\* A sequence with one element more.
LEMMA AppendIs ==
    ASSUME NEW T, NEW s \in Seq(T), NEW x
    PROVE  LET a == Append(s, x)
           IN  /\ a \in Seq(T \cup {x}) /\ Len(a) = Len(s) + 1
               /\ a[Len(s) + 1] = x
               /\ \A k \in 1 .. Len(s) : a[k] = s[k]
<1>1. s \in Seq(T \cup {x})
  OBVIOUS
<1>. QED  BY <1>1

\* Its elements are those of its range.
LEMMA RangeIs ==
    ASSUME NEW T, NEW s \in Seq(T)
    PROVE  s \in Seq(Range(s)) /\ Len(s) \in Nat
<1>1. DOMAIN s = 1 .. Len(s) /\ Len(s) \in Nat
  OBVIOUS
<1>2. s = [k \in 1 .. Len(s) |-> s[k]]
  OBVIOUS
<1>3. \A k \in 1 .. Len(s) : s[k] \in Range(s)
  BY <1>1 DEF Range
<1>. HIDE DEF Range
<1>. QED  BY <1>1, <1>2, <1>3

\* A sequence without its last element.
LEMMA FrontIs ==
    ASSUME NEW T, NEW s \in Seq(T), Len(s) > 0
    PROVE  LET a == Front(s)
           IN  /\ a \in Seq(T) /\ Len(a) = Len(s) - 1
               /\ \A k \in 1 .. Len(s) - 1 : a[k] = s[k]
<1>1. s # <<>> /\ Len(s) \in Nat /\ Len(s) - 1 \in Nat
  OBVIOUS
<1>2. Front(s) = [k \in 1 .. Len(s) - 1 |-> s[k]]
  BY <1>1 DEF Front
<1>3. \A k \in 1 .. Len(s) - 1 : s[k] \in T
  OBVIOUS
<1>. QED  BY <1>1, <1>2, <1>3

\* A sequence with another last element.
LEMMA ExceptIs ==
    ASSUME NEW T, NEW s \in Seq(T), Len(s) > 0, NEW x
    PROVE  LET a == [s EXCEPT ![Len(s)] = x]
           IN  /\ a \in Seq(T \cup {x}) /\ Len(a) = Len(s)
               /\ a[Len(s)] = x
               /\ \A k \in 1 .. Len(s) - 1 : a[k] = s[k]
<1>1. s \in Seq(T \cup {x})
  OBVIOUS
<1>. QED  BY <1>1
-----------------------------------------------------------------------------
(***************************************************************************)
(* Items and their fields.                                                 *)
(***************************************************************************)

\* Pushing the value of the next field to an item that has those before it
\* makes one that has this one too; a name that is there keeps its value.
LEMMA PushNext ==
    ASSUME NEW s \in Selections, NEW n \in 1 .. Len(s), NEW F, NEW of, NEW h
    PROVE  Push(Item(Firsts(F, s, n - 1, of, h)), getFieldName(s[n]),
                FieldValue(F, s[n], of, h))
             = Item(Firsts(F, s, n, of, h))
<1>. DEFINE V(i) == FieldValue(F, s[i], of, h)
            N(i) == getFieldName(s[i])
            Before == Firsts(F, s, n - 1, of, h)
            After == Firsts(F, s, n, of, h)
<1>0. Len(s) \in Nat
  BY SyntaxAssumption
<1>1. Before = {<<N(i), V(i)>> : i \in {j \in 1 .. n - 1 : IsFirst(s, j)}}
  BY DEF Firsts
<1>2. After = {<<N(i), V(i)>> : i \in {j \in 1 .. n : IsFirst(s, j)}}
  BY DEF Firsts
<1>3. \A i : IsFirst(s, i) <=> \A j \in 1 .. i - 1 : N(j) # N(i)
  BY DEF IsFirst
<1>. HIDE DEF V, N, Before, After
<1>4. CASE \E j \in 1 .. n - 1 : N(j) = N(n)
  <2>. DEFINE Same == {j \in 1 .. n - 1 : N(j) = N(n)}
  <2>1. Same # {} /\ Same \subseteq Nat
    BY <1>4, <1>0
  <2>2. PICK i \in Same : \A m \in Same : i <= m
    BY <2>1, LeastNat
  <2>3. IsFirst(s, i)
    <3>1. i \in 1 .. n - 1 /\ N(i) = N(n)
      BY <2>2
    <3>2. ASSUME NEW j \in 1 .. i - 1, N(j) = N(i)
          PROVE  FALSE
      <4>1. j \in Same
        BY <3>1, <3>2, <1>0
      <4>. QED  BY <4>1, <2>2, <3>1, <1>0
    <3>. QED  BY <3>2, <1>3
  <2>4. <<N(i), V(i)>> \in Before /\ <<N(i), V(i)>>[1] = N(n)
    BY <2>2, <2>3, <1>1
  <2>5. ~IsFirst(s, n)
    BY <1>3, <1>4
  <2>6. After = Before
    BY <2>5, <1>0, <1>1, <1>2
  <2>7. Push(Item(Before), N(n), V(n)) = Item(Before)
    BY <2>4 DEF Push, Item
  <2>. QED  BY <2>6, <2>7 DEF N, V, Before, After
<1>5. CASE \A j \in 1 .. n - 1 : N(j) # N(n)
  <2>1. IsFirst(s, n)
    BY <1>3, <1>5
  <2>2. After = Before \cup {<<N(n), V(n)>>}
    BY <2>1, <1>0, <1>1, <1>2
  <2>3. \A p \in Before : p[1] # N(n)
    BY <1>1, <1>5
  <2>4. Push(Item(Before), N(n), V(n)) = Item(Before \cup {<<N(n), V(n)>>})
    BY <2>3 DEF Push, Item
  <2>. QED  BY <2>2, <2>4 DEF N, V, Before, After
<1>. QED  BY <1>4, <1>5

\* A new builder's items have no field.
LEMMA NothingYet ==
    ASSUME NEW F, NEW s, NEW of, NEW h
    PROVE  EmptyObject = Item(Firsts(F, s, 0, of, h))
<1>1. {j \in 1 .. 0 : IsFirst(s, j)} = {}
  OBVIOUS
<1>. QED  BY <1>1 DEF EmptyObject, Item, Firsts

\* The items of a selection that is done are those it means.
LEMMA AllOfThem ==
    ASSUME NEW s \in Selections, NEW of \in [Entities -> SUBSET Nat], NEW h \in Nat
    PROVE  Evaluate[s][of][h] = Firsts(Evaluate, s, Len(s), of, h)
<1>1. Evaluate[s] = EvaluatedBy(Evaluate, s)
  BY EvaluateDefined
<1>. DEFINE Of(i) == Firsts(Evaluate, s, Len(s), of, i)
<1>2. Evaluate[s][of] = [i \in Nat |-> Of(i)]
  BY <1>1 DEF EvaluatedBy
<1>. HIDE DEF Of
<1>3. Evaluate[s][of][h] = Of(h)
  BY <1>2
<1>. QED  BY <1>3 DEF Of

\* The names in a selection set are known for an entity if each field's is.
LEMMA KnownIs ==
    ASSUME NEW s \in Selections, NEW e \in Entities \cup {NoEntity}
    PROVE  e \in Known[s] <=> \A i \in DOMAIN s : IsKnown(Known, e, s[i])
BY KnownDefined DEF KnownBy
-----------------------------------------------------------------------------
(***************************************************************************)
(* What the visitor's steps do to a path and a stack.                      *)
(***************************************************************************)

\* What Matches says of one level.
LEMMA LevelOf ==
    ASSUME NEW fields, NEW p, NEW s, Matches(fields, p, s), NEW k \in 1 .. Len(p)
    PROVE  /\ Len(p) \in Nat
           /\ p[k].fields \in Selections /\ p[k].at \in Nat /\ Len(p[k].fields) \in Nat
           /\ p[k] \in Levels
           /\ DOMAIN p[k].fields = 1 .. Len(p[k].fields)
           /\ s[k].entity \in Entities \cup {NoEntity}
           /\ s[k].entity = NoEntity <=> k = 1
<1>1. p \in Seq(Levels) /\ Len(p) \in Nat
  BY DEF Matches
<1>2. p[k] \in Levels
  BY <1>1
<1>3. p[k].fields \in Selections /\ p[k].at \in Nat
  BY <1>2 DEF Levels
<1>4. Len(p[k].fields) \in Nat /\ DOMAIN p[k].fields = 1 .. Len(p[k].fields)
  BY <1>3, SyntaxAssumption
<1>5. CASE k = 1
  BY <1>1, <1>2, <1>3, <1>4, <1>5 DEF Matches
<1>6. CASE k # 1
  <2>1. k - 1 \in 1 .. Len(p) - 1 /\ k - 1 + 1 = k
    BY <1>1, <1>6
  <2>2. Above(p, s, k - 1)
    BY <2>1 DEF Matches
  <2>3. s[k].entity \in Entities
    BY <2>1, <2>2 DEF Above
  <2>. QED  BY <1>1, <1>2, <1>3, <1>4, <1>6, <2>3, InstancesAssumption
<1>. QED  BY <1>5, <1>6

\* An operation starts at its fields, with the root builder.
LEMMA RootMatches ==
    ASSUME NEW fields \in Selections, NEW of
    PROVE  LET p == <<Level(fields)>>
               s == <<Root>>
           IN  Matches(fields, p, s) /\ SoFarKnown(p, s) /\ Filling(p, s, of)
<1>. DEFINE p == <<Level(fields)>>
            s == <<Root>>
<1>1. Len(fields) \in Nat
  BY SyntaxAssumption
<1>2. p \in Seq(Levels) /\ Len(p) = 1 /\ p[1] = [fields |-> fields, at |-> 1]
  BY DEF Levels, Level
<1>3. s \in Seq({Root}) /\ Len(s) = 1 /\ s[1] = Root
  OBVIOUS
<1>4. s \in Seq(Range(s))
  BY <1>3, RangeIs
<1>5. Root.entity = NoEntity /\ Root = Builder(Root.entity, Root.name, Root.fragment)
      /\ Root.fragment = [h \in {0} |-> EmptyObject]
  BY DEF Root, Builder
<1>. HIDE DEF p, s
<1>6. Matches(fields, p, s)
  BY <1>1, <1>2, <1>3, <1>4, <1>5 DEF Matches
<1>7. SoFarKnown(p, s)
  BY <1>2 DEF SoFarKnown
<1>8. Partial(fields, 0, NoEntity, of) = [h \in {0} |-> EmptyObject]
  BY NothingYet DEF Partial, Items
<1>9. Filling(p, s, of)
  BY <1>2, <1>3, <1>5, <1>8 DEF Filling
<1>. QED  BY <1>6, <1>7, <1>9 DEF p, s

\* An object: one more level, one more builder.
LEMMA EnterMatches ==
    ASSUME NEW fields, NEW p, NEW s, Matches(fields, p, s), NEW items, NEW f,
           Last(p).at <= Len(Last(p).fields), f = Last(p).fields[Last(p).at],
           f.object, f.name \in Entities
    PROVE  LET p1 == Append(p, Level(f.fields))
               s1 == Append(s, Builder(f.name, getFieldName(f), items))
           IN  /\ Matches(fields, p1, s1)
               /\ SoFarKnown(p, s) => SoFarKnown(p1, s1)
               /\ AllKnown(p, s) => AllKnown(p1, s1)
               /\ \A of : Filling(p, s, of) /\ items = [h \in of[f.name] |-> EmptyObject]
                            => Filling(p1, s1, of)
<1>. DEFINE n == Len(p)
            new == Builder(f.name, getFieldName(f), items)
            p1 == Append(p, Level(f.fields))
            s1 == Append(s, new)
<1>1. /\ p \in Seq(Levels) /\ s \in Seq(Range(s)) /\ Len(s) = n /\ n \in Nat /\ n > 0
      /\ n \in 1 .. n
  BY DEF Matches
<1>2. /\ p[n].fields \in Selections /\ p[n].at \in Nat /\ Len(p[n].fields) \in Nat
      /\ p[n].at \in 1 .. Len(p[n].fields)
      /\ p[n].at \in DOMAIN p[n].fields
      /\ f = p[n].fields[p[n].at]
  <2>1. p[n].at <= Len(p[n].fields) /\ f = p[n].fields[p[n].at]
    BY DEF Last
  <2>2. p[n].at \in 1 .. Len(p[n].fields) + 1
    BY <1>1 DEF Matches
  <2>. QED  BY <1>1, <2>1, <2>2, LevelOf
<1>3. f.fields \in Selections /\ f.name \in STRING
  BY <1>2, FieldsOf
<1>4. Level(f.fields) \in Levels /\ Level(f.fields) = [fields |-> f.fields, at |-> 1]
  BY <1>3 DEF Levels, Level
<1>5. /\ p1 \in Seq(Levels) /\ Len(p1) = n + 1
      /\ p1[n + 1] = [fields |-> f.fields, at |-> 1]
      /\ \A k \in 1 .. n : p1[k] = p[k]
  BY <1>1, <1>4, AppendIs
<1>6. /\ s1 \in Seq(Range(s) \cup {new}) /\ Len(s1) = n + 1
      /\ s1[n + 1] = new
      /\ \A k \in 1 .. n : s1[k] = s[k]
  BY <1>1, AppendIs
<1>7. s1 \in Seq(Range(s1))
  BY <1>6, RangeIs
<1>8. /\ new.entity = f.name /\ new.name = getFieldName(f) /\ new.fragment = items
      /\ new = Builder(new.entity, new.name, new.fragment)
  BY DEF Builder
<1>9. f.name # NoEntity
  BY InstancesAssumption
<1>. HIDE DEF n, new, p1, s1
<1>10. Matches(fields, p1, s1)
  <2>1. Len(p1) > 0 /\ Len(s1) = Len(p1) /\ 1 \in 1 .. n
    BY <1>1, <1>5, <1>6
  <2>2. p1[1].fields = fields /\ s1[1].entity = NoEntity
    BY <2>1, <1>5, <1>6 DEF Matches
  <2>3. ASSUME NEW k \in 1 .. n + 1
        PROVE  p1[k].at \in 1 .. Len(p1[k].fields) + 1
               /\ s1[k] = Builder(s1[k].entity, s1[k].name, s1[k].fragment)
    <3>1. CASE k = n + 1
      <4>1. Len(f.fields) \in Nat
        BY <1>3, SyntaxAssumption
      <4>. QED  BY <3>1, <4>1, <1>5, <1>6, <1>8
    <3>2. CASE k \in 1 .. n
      BY <3>2, <1>5, <1>6 DEF Matches, n
    <3>. QED  BY <3>1, <3>2, <1>1
  <2>4. ASSUME NEW k \in 1 .. n
        PROVE  Above(p1, s1, k)
    <3>1. CASE k = n
      <4>1. /\ p1[n] = p[n] /\ s1[n + 1] = new
            /\ p1[n + 1].fields = f.fields
            /\ f = p[n].fields[p[n].at] /\ p[n].at <= Len(p[n].fields)
        BY <1>1, <1>2, <1>5, <1>6
      <4>2. Above(p1, s1, n)
        BY <4>1, <1>8 DEF Above
      <4>. QED  BY <3>1, <4>2
    <3>2. CASE k # n
      <4>1. k \in 1 .. n - 1 /\ k + 1 \in 1 .. n
        BY <3>2, <1>1
      <4>2. Above(p, s, k)
        BY <4>1 DEF Matches, n
      <4>. QED  BY <4>1, <4>2, <1>5, <1>6 DEF Above
    <3>. QED  BY <3>1, <3>2
  <2>. QED  BY <2>1, <2>2, <2>3, <2>4, <1>1, <1>5, <1>7 DEF Matches
<1>11. ASSUME SoFarKnown(p, s) PROVE SoFarKnown(p1, s1)
  <2>1. ASSUME NEW k \in 1 .. n + 1, NEW i \in 1 .. p1[k].at - 1
        PROVE  IsKnown(Known, s1[k].entity, p1[k].fields[i])
    <3>1. CASE k = n + 1
      BY <3>1, <1>5
    <3>2. CASE k \in 1 .. n
      BY <3>2, <1>11, <1>5, <1>6 DEF SoFarKnown, n
    <3>. QED  BY <3>1, <3>2, <1>1
  <2>. QED  BY <2>1, <1>5 DEF SoFarKnown
<1>12. ASSUME AllKnown(p, s) PROVE AllKnown(p1, s1)
  <2>1. s[n].entity \in Known[p[n].fields]
    BY <1>12, <1>1 DEF AllKnown, n
  <2>2. s[n].entity \in Entities \cup {NoEntity}
    BY <1>1, LevelOf DEF n
  <2>3. IsKnown(Known, s[n].entity, f)
    BY <2>1, <2>2, <1>2, KnownIs
  <2>4. f.name \in Known[f.fields]
    BY <2>3 DEF IsKnown
  <2>5. ASSUME NEW k \in 1 .. n + 1
        PROVE  s1[k].entity \in Known[p1[k].fields]
    <3>1. CASE k = n + 1
      BY <3>1, <2>4, <1>5, <1>6, <1>8
    <3>2. CASE k \in 1 .. n
      BY <3>2, <1>12, <1>5, <1>6 DEF AllKnown, n
    <3>. QED  BY <3>1, <3>2, <1>1
  <2>. QED  BY <2>5, <1>5 DEF AllKnown
<1>13. ASSUME NEW of, Filling(p, s, of), items = [h \in of[f.name] |-> EmptyObject]
       PROVE  Filling(p1, s1, of)
  <2>1. Partial(f.fields, 0, f.name, of) = items
    BY <1>13, <1>9, NothingYet DEF Partial, Items
  <2>2. ASSUME NEW k \in 1 .. n + 1
        PROVE  s1[k].fragment = Partial(p1[k].fields, p1[k].at - 1, s1[k].entity, of)
    <3>1. CASE k = n + 1
      BY <3>1, <2>1, <1>5, <1>6, <1>8
    <3>2. CASE k \in 1 .. n
      BY <3>2, <1>5, <1>6, <1>13 DEF Filling, n
    <3>. QED  BY <3>1, <3>2, <1>1
  <2>. QED  BY <2>2, <1>5 DEF Filling
<1>. QED  BY <1>10, <1>11, <1>12, <1>13 DEF p1, s1, new

\* A fragment whose items, one per instance of e, have field f as well.
Refilled(fragment, below, e, f, of) ==
    fragment = [h \in Items(e, of) |->
                  Push(below[h], getFieldName(f), FieldValue(Evaluate, f, of, h))]

\* After a field: the next one of the same level, whose builder has a fragment.
LEMMA AdvanceMatches ==
    ASSUME NEW fields, NEW p, NEW s, Matches(fields, p, s), NEW fragment, NEW f, NEW e,
           Last(p).at <= Len(Last(p).fields), f = Last(p).fields[Last(p).at],
           e = Last(s).entity
    PROVE  LET p1 == Advanced(p)
               s1 == Filled(s, fragment)
           IN  /\ Matches(fields, p1, s1)
               /\ SoFarKnown(p, s) /\ IsKnown(Known, e, f) => SoFarKnown(p1, s1)
               /\ AllKnown(p, s) => AllKnown(p1, s1)
               /\ \A of : /\ Filling(p, s, of)
                         /\ Refilled(fragment, Last(s).fragment, e, f, of)
                      => Filling(p1, s1, of)
<1>. DEFINE n == Len(p)
            p1 == Advanced(p)
            s1 == Filled(s, fragment)
<1>1. /\ p \in Seq(Levels) /\ s \in Seq(Range(s)) /\ Len(s) = n /\ n \in Nat /\ n > 0
      /\ n \in 1 .. n
  BY DEF Matches
<1>2. /\ p[n].fields \in Selections /\ p[n].at \in Nat /\ Len(p[n].fields) \in Nat
      /\ p[n].at \in 1 .. Len(p[n].fields)
      /\ f = p[n].fields[p[n].at] /\ e = s[n].entity /\ Last(s) = s[n]
  <2>1. p[n].at <= Len(p[n].fields) /\ f = p[n].fields[p[n].at]
        /\ e = s[n].entity /\ Last(s) = s[n]
    BY <1>1 DEF Last
  <2>2. p[n].at \in 1 .. Len(p[n].fields) + 1
    BY <1>1 DEF Matches
  <2>. QED  BY <1>1, <2>1, <2>2, LevelOf
<1>3. PICK next : next = [fields |-> p[n].fields, at |-> p[n].at + 1]
  OBVIOUS
<1>4. p1 = [p EXCEPT ![n] = next] /\ next \in Levels
  <2>1. p[n] \in Levels
    BY <1>1
  <2>2. [p[n] EXCEPT !.at = p[n].at + 1] = next
    BY <2>1, <1>3 DEF Levels
  <2>3. p1 = [p EXCEPT ![n] = [p[n] EXCEPT !.at = p[n].at + 1]]
    BY <1>1 DEF Advanced
  <2>4. next \in Levels
    BY <1>2, <1>3 DEF Levels
  <2>. HIDE DEF p1
  <2>. QED  BY <2>2, <2>3, <2>4
<1>5. p1 \in Seq(Levels) /\ Len(p1) = n /\ p1[n] = next
      /\ \A k \in 1 .. n - 1 : p1[k] = p[k]
  <2>1. Levels \cup {next} = Levels
    BY <1>4
  <2>. QED  BY <2>1, <1>1, <1>4, ExceptIs
<1>6. PICK new : new = Builder(e, s[n].name, fragment)
  OBVIOUS
<1>7. s1 = [s EXCEPT ![n] = new]
  <2>1. s[n] = Builder(s[n].entity, s[n].name, s[n].fragment)
    BY <1>1 DEF Matches
  <2>2. [s[n] EXCEPT !.fragment = fragment] = new
    BY <2>1, <1>2, <1>6 DEF Builder
  <2>. QED  BY <2>2, <1>1 DEF Filled
<1>8. s1 \in Seq(Range(s) \cup {new}) /\ Len(s1) = n /\ s1[n] = new
      /\ \A k \in 1 .. n - 1 : s1[k] = s[k]
  BY <1>1, <1>7, ExceptIs
<1>9. s1 \in Seq(Range(s1))
  BY <1>8, RangeIs
<1>10. /\ new.entity = e /\ new.name = s[n].name /\ new.fragment = fragment
       /\ new = Builder(new.entity, new.name, new.fragment)
  BY <1>6 DEF Builder
<1>11. next.fields = p[n].fields /\ next.at = p[n].at + 1
  BY <1>3
<1>12. \A k \in 1 .. n : /\ p1[k].fields = p[k].fields
                          /\ s1[k].entity = s[k].entity /\ s1[k].name = s[k].name
  <2>. TAKE k \in 1 .. n
  <2>. HIDE DEF n, p1, s1
  <2>1. CASE k = n
    BY <2>1, <1>2, <1>5, <1>8, <1>10, <1>11
  <2>2. CASE k # n
    <3>1. k \in 1 .. n - 1
      BY <2>2, <1>1
    <3>. QED  BY <3>1, <1>5, <1>8
  <2>. QED  BY <2>1, <2>2
<1>. HIDE DEF n, p1, s1
<1>13. Matches(fields, p1, s1)
  <2>1. Len(p1) > 0 /\ Len(s1) = Len(p1) /\ 1 \in 1 .. n
    BY <1>1, <1>5, <1>8
  <2>2. p1[1].fields = fields /\ s1[1].entity = NoEntity
    BY <2>1, <1>12 DEF Matches
  <2>3. ASSUME NEW k \in 1 .. n
        PROVE  p1[k].at \in 1 .. Len(p1[k].fields) + 1
               /\ s1[k] = Builder(s1[k].entity, s1[k].name, s1[k].fragment)
    <3>1. CASE k = n
      BY <3>1, <1>2, <1>5, <1>8, <1>10, <1>11
    <3>2. CASE k # n
      <4>1. k \in 1 .. n - 1
        BY <3>2, <1>1
      <4>. QED  BY <4>1, <1>5, <1>8 DEF Matches, n
    <3>. QED  BY <3>1, <3>2
  <2>4. ASSUME NEW k \in 1 .. n - 1
        PROVE  Above(p1, s1, k)
    <3>1. k \in 1 .. n /\ k + 1 \in 1 .. n
      BY <1>1
    <3>2. Above(p, s, k)
      BY DEF Matches, n
    <3>. QED  BY <3>1, <3>2, <1>5, <1>12 DEF Above
  <2>. QED  BY <2>1, <2>2, <2>3, <2>4, <1>5, <1>9 DEF Matches
<1>14. ASSUME SoFarKnown(p, s), IsKnown(Known, e, f) PROVE SoFarKnown(p1, s1)
  <2>1. ASSUME NEW k \in 1 .. n, NEW i \in 1 .. p1[k].at - 1
        PROVE  IsKnown(Known, s1[k].entity, p1[k].fields[i])
    <3>1. CASE k = n /\ i = p[n].at
      BY <3>1, <1>2, <1>12, <1>14
    <3>2. CASE k = n /\ i # p[n].at
      <4>1. i \in 1 .. p[k].at - 1
        BY <3>2, <1>2, <1>5, <1>11
      <4>. QED  BY <4>1, <1>12, <1>14 DEF SoFarKnown, n
    <3>3. CASE k # n
      <4>1. k \in 1 .. n - 1
        BY <3>3, <1>1
      <4>. QED  BY <4>1, <1>5, <1>12, <1>14 DEF SoFarKnown, n
    <3>. QED  BY <3>1, <3>2, <3>3
  <2>. QED  BY <2>1, <1>5 DEF SoFarKnown
<1>15. ASSUME AllKnown(p, s) PROVE AllKnown(p1, s1)
  BY <1>15, <1>5, <1>12 DEF AllKnown, n
<1>16. ASSUME NEW of, Filling(p, s, of), Refilled(fragment, Last(s).fragment, e, f, of)
       PROVE  Filling(p1, s1, of)
  <2>. DEFINE S == p[n].fields
              a == p[n].at
  <2>1. s[n].fragment = Partial(S, a - 1, e, of)
    BY <1>1, <1>2, <1>16 DEF Filling, n
  <2>2. ASSUME NEW h \in Items(e, of)
        PROVE  Push(s[n].fragment[h], getFieldName(f), FieldValue(Evaluate, f, of, h))
                 = Item(Firsts(Evaluate, S, a, of, h))
    <3>1. s[n].fragment[h] = Item(Firsts(Evaluate, S, a - 1, of, h))
      BY <2>1 DEF Partial
    <3>2. f = S[a] /\ a \in 1 .. Len(S) /\ S \in Selections
      BY <1>2
    <3>. HIDE DEF S, a
    <3>3. Push(Item(Firsts(Evaluate, S, a - 1, of, h)), getFieldName(S[a]),
               FieldValue(Evaluate, S[a], of, h)) = Item(Firsts(Evaluate, S, a, of, h))
      BY <3>2, PushNext
    <3>. QED  BY <3>1, <3>2, <3>3
  <2>3. fragment = Partial(S, a, e, of)
    <3>. HIDE DEF S, a
    <3>. QED  BY <2>2, <1>2, <1>16 DEF Partial, Refilled
  <2>4. next.at - 1 = a
    BY <1>2, <1>11
  <2>5. ASSUME NEW k \in 1 .. n
        PROVE  s1[k].fragment = Partial(p1[k].fields, p1[k].at - 1, s1[k].entity, of)
    <3>1. CASE k = n
      BY <3>1, <2>3, <2>4, <1>5, <1>8, <1>10, <1>11
    <3>2. CASE k # n
      <4>1. k \in 1 .. n - 1
        BY <3>2, <1>1
      <4>. QED  BY <4>1, <1>5, <1>8, <1>16 DEF Filling, n
    <3>. QED  BY <3>1, <3>2
  <2>. QED  BY <2>5, <1>5 DEF Filling
<1>. QED  BY <1>13, <1>14, <1>15, <1>16 DEF p1, s1

\* After an object: its level and its builder are gone, and those below are at
\* its field.
LEMMA FrontMatches ==
    ASSUME NEW fields, NEW p, NEW s, Matches(fields, p, s), Len(p) > 1, NEW of
    PROVE  LET p1 == Front(p)
               s1 == Front(s)
               n == Len(p)
           IN  /\ Matches(fields, p1, s1)
               /\ SoFarKnown(p, s) => SoFarKnown(p1, s1)
               /\ AllKnown(p, s) => AllKnown(p1, s1)
               /\ Filling(p, s, of) => Filling(p1, s1, of)
               /\ Last(p1) = p[n - 1] /\ Last(s1) = s[n - 1]
               /\ Len(p1) = n - 1
<1>. DEFINE p1 == Front(p)
            s1 == Front(s)
            n == Len(p)
<1>1. /\ p \in Seq(Levels) /\ s \in Seq(Range(s)) /\ Len(s) = n /\ n \in Nat /\ n > 1
  BY DEF Matches
<1>2. p1 \in Seq(Levels) /\ Len(p1) = n - 1 /\ \A k \in 1 .. n - 1 : p1[k] = p[k]
  BY <1>1, FrontIs
<1>3. s1 \in Seq(Range(s)) /\ Len(s1) = n - 1 /\ \A k \in 1 .. n - 1 : s1[k] = s[k]
  BY <1>1, FrontIs
<1>4. s1 \in Seq(Range(s1))
  BY <1>3, RangeIs
<1>. HIDE DEF p1, s1, n
<1>5. Last(p1) = p[n - 1] /\ Last(s1) = s[n - 1]
  BY <1>1, <1>2, <1>3 DEF Last
<1>6. Matches(fields, p1, s1)
  <2>1. Len(p1) > 0 /\ Len(s1) = Len(p1) /\ 1 \in 1 .. n - 1
    BY <1>1, <1>2, <1>3
  <2>2. p1[1].fields = fields /\ s1[1].entity = NoEntity
    BY <2>1, <1>2, <1>3 DEF Matches
  <2>3. ASSUME NEW k \in 1 .. n - 1
        PROVE  p1[k].at \in 1 .. Len(p1[k].fields) + 1
               /\ s1[k] = Builder(s1[k].entity, s1[k].name, s1[k].fragment)
    <3>1. k \in 1 .. n /\ p1[k] = p[k] /\ s1[k] = s[k]
      BY <1>1, <1>2, <1>3
    <3>. QED  BY <3>1 DEF Matches, n
  <2>4. ASSUME NEW k \in 1 .. n - 2
        PROVE  Above(p1, s1, k)
    <3>1. k \in 1 .. n - 1 /\ k + 1 \in 1 .. n - 1
      BY <1>1
    <3>2. Above(p, s, k)
      BY <3>1 DEF Matches, n
    <3>. QED  BY <3>1, <3>2, <1>2, <1>3 DEF Above
  <2>5. n - 1 - 1 = n - 2
    BY <1>1
  <2>. QED  BY <2>1, <2>2, <2>3, <2>4, <2>5, <1>2, <1>4 DEF Matches
<1>7. SoFarKnown(p, s) => SoFarKnown(p1, s1)
  BY <1>1, <1>2, <1>3 DEF SoFarKnown, n
<1>8. AllKnown(p, s) => AllKnown(p1, s1)
  BY <1>1, <1>2, <1>3 DEF AllKnown, n
<1>9. Filling(p, s, of) => Filling(p1, s1, of)
  BY <1>1, <1>2, <1>3 DEF Filling, n
<1>. QED  BY <1>2, <1>5, <1>6, <1>7, <1>8, <1>9 DEF p1, s1, n

\* What an object with these items stands for, by how many instances there are.
Answer(hs, fragment) ==
    Nested(CASE Cardinality(hs) = 0 -> "none" [] Cardinality(hs) = 1 -> "one"
             [] OTHER -> "list", fragment)

\* An object whose fields are done: one level and one builder less, and below
\* them the next field.
LEMMA LeaveMatches ==
    ASSUME NEW fields, NEW p, NEW s, Matches(fields, p, s), Len(p) > 1,
           Last(p).at = Len(Last(p).fields) + 1, NEW value, NEW below, NEW items,
           below = Last(Front(s)).fragment,
           items = [h \in DOMAIN below |-> Push(below[h], Last(s).name, value)],
           NEW of \in [Entities -> SUBSET Nat]
    PROVE  LET p1 == Advanced(Front(p))
               s1 == Filled(Front(s), items)
           IN  /\ Matches(fields, p1, s1)
               /\ SoFarKnown(p, s) => SoFarKnown(p1, s1)
               /\ AllKnown(p, s) => AllKnown(p1, s1)
               /\ Filling(p, s, of) /\ value = Answer(of[Last(s).entity], Last(s).fragment)
                    => Filling(p1, s1, of)
<1>. DEFINE n == Len(p)
            p0 == Front(p)
            s0 == Front(s)
            p1 == Advanced(Front(p))
            s1 == Filled(Front(s), items)
<1>1. n \in Nat /\ Len(s) = n /\ n \in 1 .. n /\ n - 1 \in 1 .. n /\ n - 1 \in 1 .. n - 1
      /\ n - 1 + 1 = n
  BY DEF Matches
<1>2. /\ Matches(fields, p0, s0) /\ Last(p0) = p[n - 1] /\ Last(s0) = s[n - 1]
      /\ Len(p0) = n - 1
      /\ SoFarKnown(p, s) => SoFarKnown(p0, s0)
      /\ AllKnown(p, s) => AllKnown(p0, s0)
      /\ Filling(p, s, of) => Filling(p0, s0, of)
  BY FrontMatches
<1>3. PICK f : f = p[n - 1].fields[p[n - 1].at]
  OBVIOUS
<1>4. Above(p, s, n - 1)
  BY <1>1 DEF Matches
<1>5. /\ p[n - 1].at <= Len(p[n - 1].fields) /\ f.object /\ f.name \in Entities
      /\ p[n].fields = f.fields
      /\ s[n].entity = f.name /\ s[n].name = getFieldName(f)
  BY <1>1, <1>3, <1>4 DEF Above
<1>6. /\ Last(p) = p[n] /\ Last(s) = s[n] /\ f.fields \in Selections
      /\ Len(f.fields) \in Nat /\ DOMAIN f.fields = 1 .. Len(f.fields)
      /\ p[n].at = Len(f.fields) + 1
  <2>1. Last(p) = p[n] /\ Last(s) = s[n]
    BY <1>1 DEF Last
  <2>. QED  BY <2>1, <1>1, <1>5, LevelOf
<1>7. PICK e : e = s[n - 1].entity
  OBVIOUS
<1>. HIDE DEF n, p0, s0
<1>8. /\ Matches(fields, p1, s1)
      /\ SoFarKnown(p0, s0) /\ IsKnown(Known, e, f) => SoFarKnown(p1, s1)
      /\ AllKnown(p0, s0) => AllKnown(p1, s1)
      /\ Filling(p0, s0, of) /\ Refilled(items, Last(s0).fragment, e, f, of)
           => Filling(p1, s1, of)
  <2>1. /\ Last(p0).at <= Len(Last(p0).fields) /\ f = Last(p0).fields[Last(p0).at]
        /\ e = Last(s0).entity /\ Matches(fields, p0, s0)
    BY <1>2, <1>3, <1>5, <1>7
  <2>. HIDE DEF p1, s1
  <2>. QED  BY <2>1, AdvanceMatches DEF p1, s1, p0, s0
<1>. HIDE DEF p1, s1
<1>9. ASSUME SoFarKnown(p, s) PROVE IsKnown(Known, e, f)
  <2>1. \A i \in 1 .. Len(f.fields) : IsKnown(Known, f.name, f.fields[i])
    BY <1>1, <1>5, <1>6, <1>9 DEF SoFarKnown, n
  <2>2. f.name \in Known[f.fields]
    BY <2>1, <1>5, <1>6, KnownIs
  <2>. QED  BY <2>2, <1>5 DEF IsKnown
<1>10. ASSUME Filling(p, s, of), value = Answer(of[Last(s).entity], Last(s).fragment)
       PROVE  Refilled(items, Last(s0).fragment, e, f, of)
  <2>1. s[n].fragment = Partial(f.fields, Len(f.fields), f.name, of)
    <3>1. p[n].at - 1 = Len(f.fields)
      BY <1>6
    <3>. QED  BY <3>1, <1>1, <1>5, <1>10 DEF Filling, n
  <2>2. f.name # NoEntity
    BY <1>5, InstancesAssumption
  <2>3. \A k \in of[f.name] : Item(Firsts(Evaluate, f.fields, Len(f.fields), of, k))
                                = [shape |-> "object", fields |-> Evaluate[f.fields][of][k]]
    <3>. TAKE k \in of[f.name]
    <3>1. k \in Nat
      BY <1>5
    <3>. QED  BY <3>1, <1>6, AllOfThem DEF Item
  <2>4. s[n].fragment = [k \in of[f.name] |->
                           [shape |-> "object", fields |-> Evaluate[f.fields][of][k]]]
    BY <2>1, <2>2, <2>3 DEF Partial, Items
  <2>5. ASSUME NEW h
        PROVE  FieldValue(Evaluate, f, of, h) = value
    <3>1. FieldValue(Evaluate, f, of, h) = Answer(of[f.name], s[n].fragment)
      BY <2>4, <1>5 DEF FieldValue, Answer
    <3>. QED  BY <3>1, <1>5, <1>6, <1>10
  <2>6. s[n - 1].fragment = Partial(p[n - 1].fields, p[n - 1].at - 1, e, of)
    BY <1>1, <1>7, <1>10 DEF Filling, n
  <2>7. below = s[n - 1].fragment /\ DOMAIN below = Items(e, of)
    BY <2>6, <1>2 DEF Partial, s0
  <2>8. Last(s).name = getFieldName(f) /\ Last(s0).fragment = below
    BY <1>2, <1>5, <1>6, <2>7
  <2>9. items = [h \in Items(e, of) |-> Push(below[h], getFieldName(f), value)]
    BY <2>7, <2>8
  <2>. QED  BY <2>5, <2>8, <2>9 DEF Refilled
<1>11. ASSUME Filling(p, s, of), value = Answer(of[Last(s).entity], Last(s).fragment)
       PROVE  Filling(p1, s1, of)
  BY <1>2, <1>8, <1>10, <1>11
<1>12. SoFarKnown(p, s) => SoFarKnown(p1, s1)
  BY <1>2, <1>8, <1>9
<1>13. AllKnown(p, s) => AllKnown(p1, s1)
  BY <1>2, <1>8
<1>. QED  BY <1>8, <1>11, <1>12, <1>13 DEF p1, s1

\* What LeaveOne hands to the parent, where the instances stay.
LEMMA OneAnswer ==
    ASSUME NEW fragment, NEW hs \in SUBSET Nat, IsFiniteSet(hs),
           fragment = [h \in hs |-> fragment[h]], Cardinality(hs) = 1
    PROVE  /\ DOMAIN fragment # {}
           /\ Nested("one", [h \in {Max(DOMAIN fragment)} |-> fragment[h]])
                = Answer(hs, fragment)
<1>1. PICK x : hs = {x}
  BY FS_CardinalityType, FS_Singleton
<1>2. DOMAIN fragment = {x} /\ x \in Nat
  BY <1>1
<1>3. Max({x}) = x
  BY <1>2 DEF Max
<1>4. [h \in {x} |-> fragment[h]] = fragment
  BY <1>1
<1>. QED  BY <1>2, <1>3, <1>4 DEF Answer

\* What LeaveList hands to the parent, where the instances stay.
LEMMA ListAnswer ==
    ASSUME NEW fragment, NEW hs, IsFiniteSet(hs),
           fragment = [h \in hs |-> fragment[h]], Cardinality(hs) # 1
    PROVE  IF Cardinality(hs) > 1
           THEN Nested("list", fragment) = Answer(hs, fragment)
           ELSE Nested("none", [h \in {} |-> EmptyObject]) = Answer(hs, fragment)
<1>1. Cardinality(hs) \in Nat
  BY FS_CardinalityType
<1>2. CASE Cardinality(hs) > 1
  BY <1>1, <1>2 DEF Answer
<1>3. CASE Cardinality(hs) = 0
  <2>1. hs = {}
    BY <1>3, FS_EmptySet
  <2>2. fragment = [h \in {} |-> EmptyObject]
    BY <2>1
  <2>. QED  BY <2>2, <1>3 DEF Answer
<1>. QED  BY <1>1, <1>2, <1>3
-----------------------------------------------------------------------------
(***************************************************************************)
(* The steps of requests and refreshes.                                    *)
(***************************************************************************)

\* What the visitor has still to find is known in a valid query.
LEMMA NextKnown ==
    ASSUME NEW fields, NEW p, NEW s, Matches(fields, p, s), AllKnown(p, s),
           Last(p).at <= Len(Last(p).fields)
    PROVE  IsKnown(Known, Last(s).entity, Last(p).fields[Last(p).at])
<1>1. Len(p) \in 1 .. Len(p) /\ Last(p) = p[Len(p)] /\ Last(s) = s[Len(p)]
  BY DEF Matches, Last
<1>2. Last(p).at \in 1 .. Len(Last(p).fields) + 1
  BY <1>1 DEF Matches
<1>3. /\ Last(p).fields \in Selections /\ Last(s).entity \in Entities \cup {NoEntity}
      /\ Last(p).at \in DOMAIN Last(p).fields
  BY <1>1, <1>2, LevelOf
<1>4. Last(s).entity \in Known[Last(p).fields]
  BY <1>1 DEF AllKnown
<1>. QED  BY <1>3, <1>4, KnownIs

\* A request that nothing happens to, or only a refresh.
LEMMA GoodFrame ==
    ASSUME NEW r, Good(r),
           UNCHANGED <<pc[r], query[r], operation[r], path[r], stack[r], document[r]>>,
           \/ pc[r] = "idle"
           \/ disturbed'[r]
           \/ UNCHANGED <<disturbed[r], instances, pending>>
    PROVE  Good(r)'
<1>1. Sound(pc[r], query[r], operation[r], path[r], stack[r])'
  BY DEF Good
<1>2. ASSUME (pc[r] # "idle" /\ ~disturbed[r])'
      PROVE  Exact(pc[r], query[r], path[r], stack[r], document[r], instances, pending)'
  BY <1>2 DEF Good
<1>. QED  BY <1>1, <1>2 DEF Good

\* A step of a request that no refresh has a part in.
LEMMA Moved ==
    ASSUME Types, \A x \in Requests : Good(x),
           NEW r \in Requests, NEW l \in Labels, NEW n \in Nat,
           NEW p \in Seq(Levels), NEW s, NEW d,
           UNCHANGED <<up, instances, pending, query, disturbed>>,
           pc' = [pc EXCEPT ![r] = l], operation' = [operation EXCEPT ![r] = n],
           path' = [path EXCEPT ![r] = p], stack' = [stack EXCEPT ![r] = s],
           document' = [document EXCEPT ![r] = d],
           Sound(l, query[r], n, p, s),
           ~disturbed[r] => Exact(l, query[r], p, s, d, instances, pending)
    PROVE  Types' /\ \A x \in Requests : Good(x)'
<1>1. Types'
  BY DEF Types
<1>2. /\ pc'[r] = l /\ operation'[r] = n /\ path'[r] = p /\ stack'[r] = s
      /\ document'[r] = d
      /\ \A x \in Requests \ {r} : UNCHANGED <<pc[x], operation[x], path[x], stack[x],
                                               document[x]>>
  BY DEF Types
<1>3. Good(r)'
  <2>1. Sound(pc[r], query[r], operation[r], path[r], stack[r])'
    BY <1>2
  <2>2. ASSUME (~disturbed[r])'
        PROVE  Exact(pc[r], query[r], path[r], stack[r], document[r], instances, pending)'
    BY <1>2, <2>2
  <2>. QED  BY <2>1, <2>2 DEF Good
<1>4. ASSUME NEW x \in Requests \ {r} PROVE Good(x)'
  BY <1>2, GoodFrame
<1>. QED  BY <1>1, <1>3, <1>4

\* What is left alone is set to what it was.
LEMMA Same ==
    ASSUME Types, NEW r \in Requests
    PROVE  /\ pc = [pc EXCEPT ![r] = pc[r]]
           /\ operation = [operation EXCEPT ![r] = operation[r]]
           /\ path = [path EXCEPT ![r] = path[r]]
           /\ stack = [stack EXCEPT ![r] = stack[r]]
           /\ document = [document EXCEPT ![r] = document[r]]
           /\ operation[r] \in Nat /\ path[r] \in Seq(Levels) /\ pc[r] \in Labels
<1>. DEFINE S == stack[r]
            D == document[r]
<1>1. stack = [stack EXCEPT ![r] = S]
  BY DEF Types
<1>2. document = [document EXCEPT ![r] = D]
  BY DEF Types
<1>. QED  BY <1>1, <1>2 DEF Types

\* The fields of an operation.
LEMMA OperationOf ==
    ASSUME NEW q \in Queries, NEW n \in 1 .. Len(q)
    PROVE  /\ q[n].type \in STRING /\ q[n].variables \in BOOLEAN
           /\ q[n].fields \in Selections
           /\ Len(q) \in Nat /\ DOMAIN q = 1 .. Len(q)
<1>. DEFINE Operations == [type : STRING, variables : BOOLEAN, fields : Selections]
<1>1. q \in Seq(Operations)
  BY SyntaxAssumption
<1>. HIDE DEF Operations
<1>2. q[n] \in Operations /\ Len(q) \in Nat /\ DOMAIN q = 1 .. Len(q)
  BY <1>1
<1>. QED  BY <1>2 DEF Operations

\* visitOperationDefinition: the visitor is at the root, or the query is invalid.
LEMMA OperationStep ==
    ASSUME Types, \A x \in Requests : Good(x), NEW r \in Requests,
           visitOperationDefinition(r)
    PROVE  Types' /\ \A x \in Requests : Good(x)'
<1>1. PICK q, n, op, s, d, p : q = query[r] /\ n = operation[r] /\ op = q[n]
                               /\ s = stack[r] /\ d = document[r] /\ p = path[r]
  OBVIOUS
<1>2. /\ q \in Queries /\ n \in 1 .. Len(q) /\ n \in Nat
      /\ \A i \in 1 .. n - 1 : IsValid(q[i])
      /\ ~disturbed[r] => \A e \in Entities : pending[e] = Idle
      /\ p \in Seq(Levels)
  BY <1>1 DEF Good, Sound, Exact, visitOperationDefinition, At, Types
<1>3. op.fields \in Selections /\ n \in DOMAIN q
  BY <1>1, <1>2, OperationOf
<1>4. operation' = [operation EXCEPT ![r] = n] /\ document' = [document EXCEPT ![r] = d]
      /\ stack = [stack EXCEPT ![r] = s] /\ path = [path EXCEPT ![r] = p]
      /\ UNCHANGED <<up, instances, pending, query, disturbed>>
  BY <1>1, Same DEF visitOperationDefinition, entityVars
<1>5. CASE op.type # "query"
  <2>1. pc' = [pc EXCEPT ![r] = "error"] /\ UNCHANGED <<path, stack>>
    BY <1>1, <1>5 DEF visitOperationDefinition, Goto
  <2>2. ~Valid(q)
    BY <1>1, <1>3, <1>5 DEF Valid, IsValid
  <2>3. Sound("error", q, n, p, s)
    BY <1>2, <2>2 DEF Sound
  <2>4. ~disturbed[r] => Exact("error", q, p, s, d, instances, pending)
    BY <1>2 DEF Exact
  <2>5. "error" \in Labels
    BY DEF Labels
  <2>. QED  BY <1>1, <1>2, <1>4, <2>1, <2>3, <2>4, <2>5, Moved
<1>6. CASE op.type = "query"
  <2>1. PICK p1, s1 : p1 = <<Level(op.fields)>> /\ s1 = <<Root>>
    OBVIOUS
  <2>2. PICK l : l = IF op.variables THEN "unwind" ELSE "visit"
    OBVIOUS
  <2>3. /\ path' = [path EXCEPT ![r] = p1] /\ stack' = [stack EXCEPT ![r] = s1]
        /\ pc' = [pc EXCEPT ![r] = l]
    BY <1>1, <1>6, <2>1, <2>2 DEF visitOperationDefinition, Goto
  <2>4. \A of : Matches(op.fields, p1, s1) /\ SoFarKnown(p1, s1) /\ Filling(p1, s1, of)
    BY <1>3, <2>1, RootMatches
  <2>5. l \in Labels /\ p1 \in Seq(Levels)
    BY <2>2, <2>4 DEF Labels, Matches
  <2>6. op.variables => ~Valid(q)
    BY <1>1, <1>3 DEF Valid, IsValid
  <2>7. Valid(q) => AllKnown(p1, s1)
    <3>1. Valid(q) => NoEntity \in Known[op.fields]
      BY <1>1, <1>3 DEF Valid, IsValid
    <3>2. Len(p1) = 1 /\ p1[1].fields = op.fields /\ s1[1].entity = NoEntity
      BY <2>1, <2>4 DEF Matches
    <3>. QED  BY <3>1, <3>2 DEF AllKnown
  <2>8. Sound(l, q, n, p1, s1)
    BY <1>1, <1>2, <1>6, <2>2, <2>4, <2>6, <2>7 DEF Sound
  <2>9. ~disturbed[r] => Exact(l, q, p1, s1, d, instances, pending)
    BY <1>2, <2>2, <2>4 DEF Exact
  <2>. QED  BY <1>1, <1>2, <1>4, <2>3, <2>5, <2>8, <2>9, Moved
<1>. QED  BY <1>5, <1>6

\* What the invariant says of a request whose query is visited.
InVisit(r, q, n, p, s) ==
    /\ q \in Queries /\ n \in 1 .. Len(q) /\ n \in Nat
    /\ \A i \in 1 .. n - 1 : IsValid(q[i])
    /\ Matches(q[n].fields, p, s) /\ SoFarKnown(p, s) /\ q[n].type = "query"
    /\ p \in Seq(Levels)
    /\ Len(p) \in 1 .. Len(p) /\ Last(p) = p[Len(p)] /\ Last(s) = s[Len(p)]
    /\ Here(r) = Last(p) /\ Top(r) = Last(s)
    /\ ~disturbed[r] => /\ \A e \in Entities : pending[e] = Idle
                        /\ Filling(p, s, instances)

LEMMA Visiting ==
    ASSUME Types, NEW r \in Requests, Good(r),
           pc[r] \in {"visit", "one", "notOne", "unwind"},
           NEW q, NEW n, NEW p, NEW s,
           q = query[r], n = operation[r], p = path[r], s = stack[r]
    PROVE  InVisit(r, q, n, p, s)
<1>1. Sound(pc[r], q, n, p, s)
  BY DEF Good
<1>2. pc[r] # "idle"
  OBVIOUS
<1>3. /\ q \in Queries /\ n \in 1 .. Len(q)
      /\ \A i \in 1 .. n - 1 : IsValid(q[i])
      /\ Matches(q[n].fields, p, s) /\ SoFarKnown(p, s) /\ q[n].type = "query"
  BY <1>1, <1>2 DEF Sound
<1>4. p \in Seq(Levels) /\ Len(p) \in 1 .. Len(p) /\ Len(s) = Len(p)
  BY <1>3 DEF Matches
<1>5. n \in Nat
  BY DEF Types
<1>6. ~disturbed[r] => /\ \A e \in Entities : pending[e] = Idle
                       /\ Filling(p, s, instances)
  BY <1>2 DEF Good, Exact
<1>. QED  BY <1>3, <1>4, <1>5, <1>6 DEF InVisit, Here, Top, Last

\* A step that only the program counter shows.
OnlyPc == UNCHANGED <<up, entityVars, visitVars, disturbed>>

\* It leaves path, stack and the rest of the request as they were.
LEMMA OnlyPcIs ==
    ASSUME Types, NEW r \in Requests, OnlyPc, NEW n, NEW s, NEW d, NEW p,
           n = operation[r], s = stack[r], d = document[r], p = path[r]
    PROVE  /\ operation' = [operation EXCEPT ![r] = n]
           /\ document' = [document EXCEPT ![r] = d]
           /\ stack' = [stack EXCEPT ![r] = s] /\ path' = [path EXCEPT ![r] = p]
           /\ UNCHANGED <<up, instances, pending, query, disturbed>>
BY Same DEF OnlyPc, entityVars, visitVars

\* A name that does not exist: the query is not valid.
LEMMA UnwindStep ==
    ASSUME Types, \A x \in Requests : Good(x), NEW r \in Requests,
           pc[r] = "visit", OnlyPc,
           pc' = [pc EXCEPT ![r] = "unwind"],
           Here(r).at <= Len(Here(r).fields),
           ~IsKnown(Known, Top(r).entity, FieldAt(r))
    PROVE  Types' /\ \A x \in Requests : Good(x)'
<1>1. PICK q, n, s, d, p : q = query[r] /\ n = operation[r]
                           /\ s = stack[r] /\ d = document[r] /\ p = path[r]
  OBVIOUS
<1>2. /\ q \in Queries /\ n \in 1 .. Len(q) /\ n \in Nat
      /\ \A i \in 1 .. n - 1 : IsValid(q[i])
      /\ Matches(q[n].fields, p, s) /\ SoFarKnown(p, s) /\ q[n].type = "query"
      /\ p \in Seq(Levels)
      /\ Here(r) = Last(p) /\ Top(r) = Last(s)
      /\ ~disturbed[r] => /\ \A e \in Entities : pending[e] = Idle
                          /\ Filling(p, s, instances)
  <2>1. Good(r) /\ pc[r] \in {"visit", "one", "notOne", "unwind"}
    OBVIOUS
  <2>2. InVisit(r, q, n, p, s)
    BY <1>1, <2>1, Visiting
  <2>. QED  BY <2>2 DEF InVisit
<1>3. operation' = [operation EXCEPT ![r] = n] /\ document' = [document EXCEPT ![r] = d]
      /\ stack' = [stack EXCEPT ![r] = s] /\ path' = [path EXCEPT ![r] = p]
      /\ UNCHANGED <<up, instances, pending, query, disturbed>>
  BY <1>1, OnlyPcIs
<1>4. ~AllKnown(p, s)
  BY <1>2, NextKnown DEF FieldAt
<1>5. Sound("visit", q, n, p, s)
  BY <1>1 DEF Good
<1>6. ~Valid(q)
  BY <1>4, <1>5 DEF Sound
<1>7. Sound("unwind", q, n, p, s)
  BY <1>2, <1>6 DEF Sound
<1>8. ~disturbed[r] => Exact("unwind", q, p, s, d, instances, pending)
  BY <1>2 DEF Exact
<1>9. "unwind" \in Labels
  BY DEF Labels
<1>. QED  BY <1>1, <1>2, <1>3, <1>7, <1>8, <1>9, Moved

\* visitObject: one level and one builder more, or an entity nobody knows.
LEMMA EnterStep ==
    ASSUME Types, \A x \in Requests : Good(x), NEW r \in Requests, visitObject(r)
    PROVE  Types' /\ \A x \in Requests : Good(x)'
<1>1. PICK q, n, s, d, p, f : q = query[r] /\ n = operation[r] /\ f = FieldAt(r)
                              /\ s = stack[r] /\ d = document[r] /\ p = path[r]
  OBVIOUS
<1>2. /\ pc[r] = "visit" /\ Here(r).at <= Len(Here(r).fields) /\ f.object = TRUE
      /\ UNCHANGED <<up, entityVars, query, operation, document, disturbed>>
  BY <1>1 DEF visitObject, Enter, AtField, At
<1>3. /\ q \in Queries /\ n \in 1 .. Len(q) /\ n \in Nat
      /\ \A i \in 1 .. n - 1 : IsValid(q[i])
      /\ Matches(q[n].fields, p, s) /\ SoFarKnown(p, s) /\ q[n].type = "query"
      /\ p \in Seq(Levels)
      /\ Here(r) = Last(p) /\ Top(r) = Last(s)
      /\ ~disturbed[r] => /\ \A e \in Entities : pending[e] = Idle
                          /\ Filling(p, s, instances)
  <2>1. Good(r) /\ pc[r] \in {"visit", "one", "notOne", "unwind"}
    BY <1>2
  <2>2. InVisit(r, q, n, p, s)
    BY <1>1, <2>1, Visiting
  <2>. QED  BY <2>2 DEF InVisit
<1>4. CASE f.name \notin Entities
  <2>1. pc' = [pc EXCEPT ![r] = "unwind"] /\ UNCHANGED <<path, stack>>
    BY <1>1, <1>4 DEF visitObject, Enter, Goto
  <2>2. ~IsKnown(Known, Top(r).entity, FieldAt(r))
    BY <1>1, <1>2, <1>4 DEF IsKnown
  <2>3. OnlyPc
    BY <1>2, <2>1 DEF OnlyPc, visitVars
  <2>4. pc' = [pc EXCEPT ![r] = "unwind"]
    BY <2>1
  <2>. QED  BY <1>2, <2>2, <2>3, <2>4, UnwindStep
<1>5. CASE f.name \in Entities
  <2>1. PICK items : items = [h \in instances[f.name] |-> EmptyObject]
    OBVIOUS
  <2>2. PICK p1, s1 : p1 = Append(p, Level(f.fields))
                      /\ s1 = Append(s, Builder(f.name, getFieldName(f), items))
    OBVIOUS
  <2>3. /\ pc' = pc
        /\ path' = [path EXCEPT ![r] = p1] /\ stack' = [stack EXCEPT ![r] = s1]
    BY <1>1, <1>5, <2>1, <2>2 DEF visitObject, Enter
  <2>4. Last(p).at <= Len(Last(p).fields) /\ f = Last(p).fields[Last(p).at] /\ f.object
    BY <1>1, <1>2, <1>3 DEF FieldAt
  <2>5. /\ Matches(q[n].fields, p1, s1)
        /\ SoFarKnown(p, s) => SoFarKnown(p1, s1)
        /\ AllKnown(p, s) => AllKnown(p1, s1)
        /\ Filling(p, s, instances) => Filling(p1, s1, instances)
    <3>. DEFINE F == q[n].fields
    <3>. HIDE DEF F
    <3>1. Matches(F, p, s)
      BY <1>3 DEF F
    <3>2. PICK of : of = instances
      OBVIOUS
    <3>3. /\ Matches(F, p1, s1)
          /\ SoFarKnown(p, s) => SoFarKnown(p1, s1)
          /\ AllKnown(p, s) => AllKnown(p1, s1)
          /\ Filling(p, s, of) => Filling(p1, s1, of)
      BY <3>1, <3>2, <1>5, <2>1, <2>2, <2>4, EnterMatches
    <3>. QED  BY <3>2, <3>3 DEF F
  <2>6. Sound("visit", q, n, p, s)
    BY <1>1, <1>2 DEF Good
  <2>7. Sound("visit", q, n, p1, s1)
    BY <1>3, <2>5, <2>6 DEF Sound
  <2>8. ~disturbed[r] => Exact("visit", q, p1, s1, d, instances, pending)
    BY <1>3, <2>5 DEF Exact
  <2>9. p1 \in Seq(Levels)
    BY <2>5 DEF Matches
  <2>10. /\ pc' = [pc EXCEPT ![r] = "visit"]
         /\ operation' = [operation EXCEPT ![r] = n]
         /\ document' = [document EXCEPT ![r] = d]
         /\ UNCHANGED <<up, instances, pending, query, disturbed>>
         /\ "visit" \in Labels
    BY <1>1, <1>2, <2>3, Same DEF entityVars, Labels
  <2>. QED  BY <1>1, <1>3, <2>3, <2>7, <2>8, <2>9, <2>10, Moved
<1>. QED  BY <1>4, <1>5

\* visitScalar: the field is in the fragment, or it is no member of the entity.
LEMMA ScalarStep ==
    ASSUME Types, \A x \in Requests : Good(x), NEW r \in Requests, visitScalar(r)
    PROVE  Types' /\ \A x \in Requests : Good(x)'
<1>1. PICK q, n, s, d, p, f, e, name :
                  q = query[r] /\ n = operation[r] /\ f = FieldAt(r)
                  /\ s = stack[r] /\ d = document[r] /\ p = path[r]
                  /\ e = Top(r).entity /\ name = getFieldName(f)
  OBVIOUS
<1>2. /\ pc[r] = "visit" /\ Here(r).at <= Len(Here(r).fields) /\ f.object = FALSE
      /\ e # NoEntity
      /\ UNCHANGED <<up, entityVars, query, operation, document, disturbed>>
  BY <1>1 DEF visitScalar, AtField, At
<1>3. /\ q \in Queries /\ n \in 1 .. Len(q) /\ n \in Nat
      /\ \A i \in 1 .. n - 1 : IsValid(q[i])
      /\ Matches(q[n].fields, p, s) /\ SoFarKnown(p, s) /\ q[n].type = "query"
      /\ p \in Seq(Levels)
      /\ Len(p) \in 1 .. Len(p) /\ Last(p) = p[Len(p)] /\ Last(s) = s[Len(p)]
      /\ Here(r) = Last(p) /\ Top(r) = Last(s)
      /\ ~disturbed[r] => /\ \A x \in Entities : pending[x] = Idle
                          /\ Filling(p, s, instances)
  <2>1. Good(r) /\ pc[r] \in {"visit", "one", "notOne", "unwind"}
    BY <1>2
  <2>2. InVisit(r, q, n, p, s)
    BY <1>1, <2>1, Visiting
  <2>. QED  BY <2>2 DEF InVisit
<1>4. CASE name \notin Members[e]
  <2>1. pc' = [pc EXCEPT ![r] = "unwind"] /\ UNCHANGED <<path, stack>>
    BY <1>1, <1>4 DEF visitScalar, Goto
  <2>2. ~IsKnown(Known, Top(r).entity, FieldAt(r))
    BY <1>1, <1>2, <1>4 DEF IsKnown
  <2>3. OnlyPc
    BY <1>2, <2>1 DEF OnlyPc, visitVars
  <2>4. pc' = [pc EXCEPT ![r] = "unwind"]
    BY <2>1
  <2>. QED  BY <1>2, <2>2, <2>3, <2>4, UnwindStep
<1>5. CASE name \in Members[e]
  <2>1. PICK fragment : fragment = supplementField(Last(s).fragment, name, instances[e])
    OBVIOUS
  <2>2. PICK p1, s1 : p1 = Advanced(p) /\ s1 = Filled(s, fragment)
    OBVIOUS
  <2>3. /\ pc' = pc
        /\ path' = [path EXCEPT ![r] = p1] /\ stack' = [stack EXCEPT ![r] = s1]
    BY <1>1, <1>3, <1>5, <2>1, <2>2 DEF visitScalar
  <2>4. Last(p).at <= Len(Last(p).fields) /\ f = Last(p).fields[Last(p).at]
        /\ e = Last(s).entity
    BY <1>1, <1>2, <1>3 DEF FieldAt
  <2>5. IsKnown(Known, e, f)
    BY <1>1, <1>2, <1>5 DEF IsKnown
  <2>6. ASSUME Filling(p, s, instances)
        PROVE  Refilled(fragment, Last(s).fragment, e, f, instances)
    <3>1. PICK below, hs : below = Last(s).fragment /\ hs = instances[e]
      OBVIOUS
    <3>2. below = Partial(Last(p).fields, Last(p).at - 1, e, instances)
      BY <1>3, <2>4, <2>6, <3>1 DEF Filling
    <3>3. Items(e, instances) = hs /\ DOMAIN below = hs
      BY <1>2, <3>1, <3>2 DEF Items, Partial
    <3>4. fragment = [h \in hs |-> Push(below[h], name, Value(h))]
      BY <2>1, <3>1, <3>3 DEF supplementField
    <3>5. \A h : FieldValue(Evaluate, f, instances, h) = Value(h)
      BY <1>2 DEF FieldValue
    <3>. QED  BY <1>1, <3>1, <3>3, <3>4, <3>5 DEF Refilled
  <2>7. /\ Matches(q[n].fields, p1, s1)
        /\ SoFarKnown(p1, s1)
        /\ AllKnown(p, s) => AllKnown(p1, s1)
        /\ Filling(p, s, instances) => Filling(p1, s1, instances)
    <3>. DEFINE F == q[n].fields
    <3>. HIDE DEF F
    <3>1. Matches(F, p, s)
      BY <1>3 DEF F
    <3>2. PICK of : of = instances
      OBVIOUS
    <3>3. /\ Matches(F, p1, s1)
          /\ SoFarKnown(p, s) /\ IsKnown(Known, e, f) => SoFarKnown(p1, s1)
          /\ AllKnown(p, s) => AllKnown(p1, s1)
          /\ Filling(p, s, of) /\ Refilled(fragment, Last(s).fragment, e, f, of)
               => Filling(p1, s1, of)
      BY <3>1, <2>2, <2>4, AdvanceMatches
    <3>. QED  BY <1>3, <2>5, <2>6, <3>2, <3>3 DEF F
  <2>8. Sound("visit", q, n, p, s)
    BY <1>1, <1>2 DEF Good
  <2>9. Sound("visit", q, n, p1, s1)
    BY <1>3, <2>7, <2>8 DEF Sound
  <2>10. ~disturbed[r] => Exact("visit", q, p1, s1, d, instances, pending)
    BY <1>3, <2>7 DEF Exact
  <2>11. p1 \in Seq(Levels)
    BY <2>7 DEF Matches
  <2>12. /\ pc' = [pc EXCEPT ![r] = "visit"]
         /\ operation' = [operation EXCEPT ![r] = n]
         /\ document' = [document EXCEPT ![r] = d]
         /\ UNCHANGED <<up, instances, pending, query, disturbed>>
         /\ "visit" \in Labels
    BY <1>1, <1>2, <2>3, Same DEF entityVars, Labels
  <2>. QED  BY <1>1, <1>3, <2>3, <2>9, <2>10, <2>11, <2>12, Moved
<1>. QED  BY <1>4, <1>5

\* getFragment: the object is done, and has one instance or not.
LEMMA FragmentStep ==
    ASSUME Types, \A x \in Requests : Good(x), NEW r \in Requests, getFragment(r)
    PROVE  Types' /\ \A x \in Requests : Good(x)'
<1>1. PICK q, n, s, d, p, e, l :
                  q = query[r] /\ n = operation[r]
                  /\ s = stack[r] /\ d = document[r] /\ p = path[r] /\ e = Top(r).entity
                  /\ l = IF Cardinality(instances[e]) = 1 THEN "one" ELSE "notOne"
  OBVIOUS
<1>2. /\ pc[r] = "visit" /\ Here(r).at > Len(Here(r).fields) /\ Len(p) > 1
      /\ pc' = [pc EXCEPT ![r] = l] /\ OnlyPc
  BY <1>1 DEF getFragment, AtEnd, At, Goto, OnlyPc
<1>3. /\ q \in Queries /\ n \in 1 .. Len(q) /\ n \in Nat
      /\ \A i \in 1 .. n - 1 : IsValid(q[i])
      /\ Matches(q[n].fields, p, s) /\ SoFarKnown(p, s) /\ q[n].type = "query"
      /\ p \in Seq(Levels)
      /\ Len(p) \in 1 .. Len(p) /\ Last(p) = p[Len(p)] /\ Last(s) = s[Len(p)]
      /\ Here(r) = Last(p) /\ Top(r) = Last(s)
      /\ ~disturbed[r] => /\ \A x \in Entities : pending[x] = Idle
                          /\ Filling(p, s, instances)
  <2>1. Good(r) /\ pc[r] \in {"visit", "one", "notOne", "unwind"}
    BY <1>2
  <2>2. InVisit(r, q, n, p, s)
    BY <1>1, <2>1, Visiting
  <2>. QED  BY <2>2 DEF InVisit
<1>4. Last(p).at = Len(Last(p).fields) + 1
  <2>1. Last(p).at \in 1 .. Len(Last(p).fields) + 1
    BY <1>3 DEF Matches
  <2>2. Len(Last(p).fields) \in Nat
    BY <1>3, LevelOf
  <2>. QED  BY <1>2, <1>3, <2>1, <2>2
<1>5. /\ operation' = [operation EXCEPT ![r] = n]
      /\ document' = [document EXCEPT ![r] = d]
      /\ stack' = [stack EXCEPT ![r] = s] /\ path' = [path EXCEPT ![r] = p]
      /\ UNCHANGED <<up, instances, pending, query, disturbed>>
  BY <1>1, <1>2, OnlyPcIs
<1>6. Sound("visit", q, n, p, s)
  BY <1>1, <1>2 DEF Good
<1>7. Sound(l, q, n, p, s)
  BY <1>1, <1>2, <1>3, <1>4, <1>6 DEF Sound
<1>8. ~disturbed[r] => Exact(l, q, p, s, d, instances, pending)
  BY <1>1, <1>3 DEF Exact
<1>9. l \in Labels
  BY <1>1 DEF Labels
<1>. HIDE <1>2
<1>. QED  BY <1>1, <1>2, <1>3, <1>5, <1>7, <1>8, <1>9, Moved

\* A step that leaves all but path, stack and program counter.
Kept == UNCHANGED <<up, entityVars, query, operation, document, disturbed>>

\* pushFragmentToParent: the parent has the object's field.
LEMMA PushStep ==
    ASSUME Types, \A x \in Requests : Good(x), NEW r \in Requests, NEW value,
           pc[r] \in {"one", "notOne"}, PushToParent(r, value), Kept,
           ~disturbed[r] => value = Answer(instances[Top(r).entity], Top(r).fragment)
    PROVE  Types' /\ \A x \in Requests : Good(x)'
<1>1. PICK q, n, s, d, p : q = query[r] /\ n = operation[r]
                           /\ s = stack[r] /\ d = document[r] /\ p = path[r]
  OBVIOUS
<1>2. /\ q \in Queries /\ n \in 1 .. Len(q) /\ n \in Nat
      /\ \A i \in 1 .. n - 1 : IsValid(q[i])
      /\ Matches(q[n].fields, p, s) /\ SoFarKnown(p, s) /\ q[n].type = "query"
      /\ p \in Seq(Levels)
      /\ Here(r) = Last(p) /\ Top(r) = Last(s)
      /\ ~disturbed[r] => /\ \A e \in Entities : pending[e] = Idle
                          /\ Filling(p, s, instances)
  <2>1. Good(r) /\ pc[r] \in {"visit", "one", "notOne", "unwind"}
    OBVIOUS
  <2>2. InVisit(r, q, n, p, s)
    BY <1>1, <2>1, Visiting
  <2>. QED  BY <2>2 DEF InVisit
<1>3. PICK l : l = pc[r] /\ l \in {"one", "notOne"}
  OBVIOUS
<1>4. Sound(l, q, n, p, s)
  BY <1>1, <1>3 DEF Good
<1>5. Len(p) > 1 /\ Last(p).at = Len(Last(p).fields) + 1
  BY <1>3, <1>4 DEF Sound
<1>6. PICK below, items : below = Last(Front(s)).fragment
           /\ items = [h \in DOMAIN below |-> Push(below[h], Last(s).name, value)]
  OBVIOUS
<1>7. PICK p1, s1 : p1 = Advanced(Front(p)) /\ s1 = Filled(Front(s), items)
  OBVIOUS
<1>8. /\ pc' = [pc EXCEPT ![r] = "visit"]
      /\ path' = [path EXCEPT ![r] = p1] /\ stack' = [stack EXCEPT ![r] = s1]
  BY <1>1, <1>2, <1>6, <1>7 DEF PushToParent, Goto
<1>9. /\ Matches(q[n].fields, p1, s1)
      /\ SoFarKnown(p1, s1)
      /\ AllKnown(p, s) => AllKnown(p1, s1)
      /\ ~disturbed[r] => Filling(p1, s1, instances)
  <2>. DEFINE F == q[n].fields
  <2>. HIDE DEF F
  <2>1. Matches(F, p, s)
    BY <1>2 DEF F
  <2>2. PICK of \in [Entities -> SUBSET Nat] : of = instances
    BY DEF Types
  <2>3. /\ Matches(F, p1, s1)
        /\ SoFarKnown(p, s) => SoFarKnown(p1, s1)
        /\ AllKnown(p, s) => AllKnown(p1, s1)
        /\ Filling(p, s, of) /\ value = Answer(of[Last(s).entity], Last(s).fragment)
             => Filling(p1, s1, of)
    BY <2>1, <1>5, <1>6, <1>7, LeaveMatches
  <2>. QED  BY <1>2, <2>2, <2>3 DEF F
<1>10. Sound("visit", q, n, p1, s1)
  BY <1>2, <1>3, <1>4, <1>9 DEF Sound
<1>11. ~disturbed[r] => Exact("visit", q, p1, s1, d, instances, pending)
  BY <1>2, <1>9 DEF Exact
<1>12. p1 \in Seq(Levels)
  BY <1>9 DEF Matches
<1>13. /\ operation' = [operation EXCEPT ![r] = n]
       /\ document' = [document EXCEPT ![r] = d]
       /\ UNCHANGED <<up, instances, pending, query, disturbed>>
       /\ "visit" \in Labels
  BY <1>1, Same DEF Kept, entityVars, Labels
<1>. QED  BY <1>1, <1>2, <1>8, <1>10, <1>11, <1>12, <1>13, Moved

\* The fragment of an object whose fields are done, where the instances stay.
LEMMA DoneFragment ==
    ASSUME Types, NEW r \in Requests, Good(r), pc[r] \in {"one", "notOne"}, ~disturbed[r],
           NEW e, NEW fragment, e = Top(r).entity, fragment = Top(r).fragment
    PROVE  /\ instances[e] \in SUBSET Nat /\ IsFiniteSet(instances[e])
           /\ fragment = [h \in instances[e] |-> fragment[h]]
           /\ pc[r] = "one" <=> Cardinality(instances[e]) = 1
<1>1. PICK q, n, s, p : q = query[r] /\ n = operation[r] /\ s = stack[r] /\ p = path[r]
  OBVIOUS
<1>2. /\ Matches(q[n].fields, p, s) /\ Len(p) \in 1 .. Len(p)
      /\ Last(p) = p[Len(p)] /\ Last(s) = s[Len(p)] /\ Top(r) = Last(s)
      /\ Filling(p, s, instances)
  <2>1. Good(r) /\ pc[r] \in {"visit", "one", "notOne", "unwind"}
    OBVIOUS
  <2>2. InVisit(r, q, n, p, s)
    BY <1>1, <2>1, Visiting
  <2>. QED  BY <2>2 DEF InVisit
<1>3. Len(p) > 1
  BY <1>1 DEF Good, Sound
<1>4. e \in Entities
  <2>1. PICK k, F : k = Len(p) /\ F = q[n].fields
    OBVIOUS
  <2>2. /\ s[k].entity \in Entities \cup {NoEntity}
        /\ s[k].entity = NoEntity <=> k = 1
    BY <1>2, <2>1, LevelOf
  <2>3. e = s[k].entity /\ k # 1
    BY <1>2, <1>3, <2>1
  <2>. QED  BY <2>2, <2>3
<1>5. fragment = Partial(Last(p).fields, Last(p).at - 1, e, instances)
  BY <1>2 DEF Filling
<1>6. fragment = [h \in instances[e] |-> fragment[h]]
  BY <1>4, <1>5, InstancesAssumption DEF Partial, Items
<1>7. pc[r] = "one" <=> Cardinality(instances[e]) = 1
  <2>1. Exact(pc[r], q, p, s, document[r], instances, pending)
    BY <1>1 DEF Good
  <2>. QED  BY <1>2, <2>1 DEF Exact
<1>. QED  BY <1>4, <1>6, <1>7 DEF Types

\* LeaveOne: the only item is that of the only instance.
LEMMA LeaveOneStep ==
    ASSUME Types, \A x \in Requests : Good(x), NEW r \in Requests, LeaveOne(r)
    PROVE  Types' /\ \A x \in Requests : Good(x)'
<1>1. PICK e, fragment, value :
          e = Top(r).entity /\ fragment = Top(r).fragment
          /\ value = Nested("one", [h \in {Max(DOMAIN fragment)} |-> fragment[h]])
  OBVIOUS
<1>2. /\ pc[r] = "one" /\ PushToParent(r, value)
      /\ Kept
  BY <1>1 DEF LeaveOne, At, Kept
<1>3. ASSUME ~disturbed[r] PROVE value = Answer(instances[e], fragment)
  <2>1. PICK hs : hs = instances[e]
    OBVIOUS
  <2>2. hs \in SUBSET Nat /\ IsFiniteSet(hs) /\ fragment = [h \in hs |-> fragment[h]]
        /\ Cardinality(hs) = 1
    BY <1>1, <1>2, <1>3, <2>1, DoneFragment
  <2>. QED  BY <1>1, <2>1, <2>2, OneAnswer
<1>. QED  BY <1>1, <1>2, <1>3, PushStep

\* LeaveList: more instances are a list, none an empty object.
LEMMA LeaveListStep ==
    ASSUME Types, \A x \in Requests : Good(x), NEW r \in Requests, LeaveList(r)
    PROVE  Types' /\ \A x \in Requests : Good(x)'
<1>1. PICK e, fragment, value :
          e = Top(r).entity /\ fragment = Top(r).fragment
          /\ value = IF Cardinality(instances[e]) > 1
                     THEN Nested("list", fragment)
                     ELSE Nested("none", [h \in {} |-> EmptyObject])
  OBVIOUS
<1>2. /\ pc[r] = "notOne" /\ PushToParent(r, value)
      /\ Kept
  BY <1>1 DEF LeaveList, At, Kept
<1>3. ASSUME ~disturbed[r] PROVE value = Answer(instances[e], fragment)
  <2>1. PICK hs : hs = instances[e]
    OBVIOUS
  <2>2. hs \in SUBSET Nat /\ IsFiniteSet(hs) /\ fragment = [h \in hs |-> fragment[h]]
        /\ Cardinality(hs) # 1
    BY <1>1, <1>2, <1>3, <2>1, DoneFragment
  <2>. QED  BY <1>1, <2>1, <2>2, ListAnswer
<1>. QED  BY <1>1, <1>2, <1>3, PushStep

\* Unwind: the query is invalid by then.
LEMMA GiveUpStep ==
    ASSUME Types, \A x \in Requests : Good(x), NEW r \in Requests, Unwind(r)
    PROVE  Types' /\ \A x \in Requests : Good(x)'
<1>1. PICK q, n, s, d, p : q = query[r] /\ n = operation[r]
                           /\ s = stack[r] /\ d = document[r] /\ p = path[r]
  OBVIOUS
<1>2. pc[r] = "unwind" /\ OnlyPc /\ pc' = [pc EXCEPT ![r] = "error"]
  BY DEF Unwind, At, Goto, OnlyPc
<1>3. /\ operation' = [operation EXCEPT ![r] = n]
      /\ document' = [document EXCEPT ![r] = d]
      /\ stack' = [stack EXCEPT ![r] = s] /\ path' = [path EXCEPT ![r] = p]
      /\ UNCHANGED <<up, instances, pending, query, disturbed>>
  BY <1>1, <1>2, OnlyPcIs
<1>4. Sound("unwind", q, n, p, s) /\ n \in Nat /\ p \in Seq(Levels)
  BY <1>1, <1>2 DEF Good, Types
<1>5. Sound("error", q, n, p, s)
  BY <1>4 DEF Sound
<1>6. ~disturbed[r] => Exact("error", q, p, s, d, instances, pending)
  BY <1>1, <1>2 DEF Good, Exact
<1>7. "error" \in Labels
  BY DEF Labels
<1>. QED  BY <1>1, <1>2, <1>3, <1>4, <1>5, <1>6, <1>7, Moved

\* EndOperation: all fields of the operation are known, and the root's item has
\* them all.
LEMMA EndStep ==
    ASSUME Types, \A x \in Requests : Good(x), NEW r \in Requests, EndOperation(r)
    PROVE  Types' /\ \A x \in Requests : Good(x)'
<1>1. PICK q, n, s, d, p : q = query[r] /\ n = operation[r]
                           /\ s = stack[r] /\ d = Top(r).fragment[0] /\ p = path[r]
  OBVIOUS
<1>2. /\ pc[r] = "visit" /\ Here(r).at > Len(Here(r).fields) /\ Len(p) = 1
      /\ document' = [document EXCEPT ![r] = d]
      /\ UNCHANGED <<up, instances, pending, query, disturbed>>
  BY <1>1 DEF EndOperation, AtEnd, At, entityVars
<1>3. /\ q \in Queries /\ n \in 1 .. Len(q) /\ n \in Nat
      /\ \A i \in 1 .. n - 1 : IsValid(q[i])
      /\ Matches(q[n].fields, p, s) /\ SoFarKnown(p, s) /\ q[n].type = "query"
      /\ p \in Seq(Levels)
      /\ Len(p) \in 1 .. Len(p) /\ Last(p) = p[Len(p)] /\ Last(s) = s[Len(p)]
      /\ Here(r) = Last(p) /\ Top(r) = Last(s)
      /\ ~disturbed[r] => /\ \A x \in Entities : pending[x] = Idle
                          /\ Filling(p, s, instances)
  <2>1. Good(r) /\ pc[r] \in {"visit", "one", "notOne", "unwind"}
    BY <1>2
  <2>2. InVisit(r, q, n, p, s)
    BY <1>1, <2>1, Visiting
  <2>. QED  BY <2>2 DEF InVisit
<1>4. PICK F : F = q[n].fields
  OBVIOUS
<1>5. /\ p[1].fields = F /\ s[1].entity = NoEntity /\ Len(s) = 1
      /\ F \in Selections /\ Len(F) \in Nat /\ DOMAIN F = 1 .. Len(F)
      /\ p[1].at = Len(F) + 1
      /\ q \in Queries /\ Len(q) \in Nat /\ DOMAIN q = 1 .. Len(q)
  <2>1. p[1].fields = F /\ s[1].entity = NoEntity /\ Len(s) = 1
        /\ p[1].at \in 1 .. Len(p[1].fields) + 1
    BY <1>2, <1>3, <1>4 DEF Matches
  <2>2. p[1].at > Len(F)
    BY <1>2, <1>3, <2>1
  <2>3. F \in Selections /\ Len(q) \in Nat /\ DOMAIN q = 1 .. Len(q)
    BY <1>3, <1>4, OperationOf
  <2>4. Len(F) \in Nat /\ DOMAIN F = 1 .. Len(F)
    BY <2>3, SyntaxAssumption
  <2>. QED  BY <1>3, <2>1, <2>2, <2>3, <2>4
<1>6. Sound("visit", q, n, p, s)
  BY <1>1, <1>2 DEF Good
<1>7. IsValid(q[n])
  <2>1. \A i \in 1 .. Len(F) : IsKnown(Known, NoEntity, F[i])
    BY <1>2, <1>3, <1>5 DEF SoFarKnown
  <2>2. NoEntity \in Known[F]
    BY <2>1, <1>5, KnownIs
  <2>3. ~q[n].variables
    BY <1>6 DEF Sound
  <2>. QED  BY <1>3, <1>4, <2>2, <2>3 DEF IsValid
<1>8. stack' = [stack EXCEPT ![r] = s] /\ path' = [path EXCEPT ![r] = p]
  BY <1>1, Same DEF EndOperation
<1>9. CASE n < Len(q)
  <2>1. PICK m : m = n + 1 /\ m \in 1 .. Len(q) /\ m \in Nat
    BY <1>3, <1>5, <1>9
  <2>2. operation' = [operation EXCEPT ![r] = m] /\ pc' = [pc EXCEPT ![r] = "operation"]
    BY <1>1, <1>9, <2>1 DEF EndOperation, Goto
  <2>3. \A i \in 1 .. m - 1 : IsValid(q[i])
    BY <1>3, <1>7, <2>1
  <2>4. Sound("operation", q, m, p, s)
    BY <1>3, <2>1, <2>3 DEF Sound
  <2>5. ~disturbed[r] => Exact("operation", q, p, s, d, instances, pending)
    BY <1>3 DEF Exact
  <2>6. "operation" \in Labels
    BY DEF Labels
  <2>. QED  BY <1>1, <1>2, <1>3, <1>8, <2>1, <2>2, <2>4, <2>5, <2>6, Moved
<1>10. CASE ~(n < Len(q))
  <2>1. n = Len(q)
    BY <1>3, <1>5, <1>10
  <2>2. operation' = [operation EXCEPT ![r] = n] /\ pc' = [pc EXCEPT ![r] = "data"]
    BY <1>1, <1>10, Same DEF EndOperation, Goto
  <2>3. Valid(q)
    BY <1>3, <1>5, <1>7, <2>1 DEF Valid
  <2>4. Sound("data", q, n, p, s)
    BY <1>3, <2>3 DEF Sound
  <2>5. ASSUME ~disturbed[r]
        PROVE  d = [shape |-> "object", fields |-> Evaluate[F][instances][0]]
    <3>1. s[1].fragment = Partial(F, Len(F), NoEntity, instances)
      <4>1. p[1].at - 1 = Len(F)
        BY <1>5
      <4>. QED  BY <4>1, <2>5, <1>2, <1>3, <1>5 DEF Filling
    <3>2. d = Item(Firsts(Evaluate, F, Len(F), instances, 0))
      <4>1. d = s[1].fragment[0]
        BY <1>1, <1>2, <1>3
      <4>. QED  BY <4>1, <3>1 DEF Partial, Items
    <3>3. PICK of \in [Entities -> SUBSET Nat] : of = instances
      BY DEF Types
    <3>4. Evaluate[F][of][0] = Firsts(Evaluate, F, Len(F), of, 0)
      BY <1>5, AllOfThem
    <3>. QED  BY <3>2, <3>3, <3>4 DEF Item
  <2>6. Last(q).fields = F
    BY <1>4, <2>1 DEF Last
  <2>7. ~disturbed[r] => Exact("data", q, p, s, d, instances, pending)
    BY <1>3, <1>5, <2>5, <2>6 DEF Exact
  <2>8. "data" \in Labels
    BY DEF Labels
  <2>. QED  BY <1>1, <1>2, <1>3, <1>8, <2>2, <2>4, <2>7, <2>8, Moved
<1>. QED  BY <1>9, <1>10

\* Begin: a refresh at work disturbs the request from its first step.
LEMMA BeginStep ==
    ASSUME Types, \A x \in Requests : Good(x), NEW r \in Requests, Begin(r)
    PROVE  Types' /\ \A x \in Requests : Good(x)'
<1>1. PICK q \in Queries : query' = [query EXCEPT ![r] = q]
  BY DEF Begin
<1>2. PICK b \in BOOLEAN : b = \E e \in Entities : pending[e] # Idle
  OBVIOUS
<1>3. /\ operation' = [operation EXCEPT ![r] = 1]
      /\ document' = [document EXCEPT ![r] = EmptyObject]
      /\ path' = [path EXCEPT ![r] = <<>>]
      /\ stack' = [stack EXCEPT ![r] = <<>>]
      /\ disturbed' = [disturbed EXCEPT ![r] = b]
      /\ pc' = [pc EXCEPT ![r] = "operation"]
      /\ UNCHANGED <<up, instances, pending>>
  BY <1>2 DEF Begin, Goto, entityVars
<1>4. Types'
  <2>1. PICK none, empty : none = <<>> /\ empty = EmptyObject
    OBVIOUS
  <2>2. none \in Seq(Levels)
    BY <2>1
  <2>3. stack' = [stack EXCEPT ![r] = none] /\ document' = [document EXCEPT ![r] = empty]
        /\ path' = [path EXCEPT ![r] = none]
    BY <1>3, <2>1
  <2>4. /\ stack' = [x \in Requests |-> stack'[x]]
        /\ document' = [x \in Requests |-> document'[x]]
    BY <2>3 DEF Types
  <2>5. path' \in [Requests -> Seq(Levels)]
    BY <2>2, <2>3 DEF Types
  <2>6. /\ pc' \in [Requests -> Labels] /\ operation' \in [Requests -> Nat]
        /\ disturbed' \in [Requests -> BOOLEAN]
    BY <1>3 DEF Types, Labels
  <2>7. query' \in [Requests -> Queries \cup {<<>>}]
    BY <1>1 DEF Types
  <2>8. up' \in BOOLEAN /\ instances' \in [Entities -> SUBSET Nat]
        /\ (\A e \in Entities : IsFiniteSet(instances'[e]))
        /\ pending' \in [Entities -> (SUBSET Nat) \cup {Idle}]
    BY <1>3 DEF Types
  <2>. QED  BY <2>4, <2>5, <2>6, <2>7, <2>8 DEF Types
<1>5. Good(r)'
  <2>1. /\ pc'[r] = "operation" /\ query'[r] = q /\ operation'[r] = 1
        /\ disturbed'[r] = b
    BY <1>1, <1>3 DEF Types
  <2>2. 1 \in 1 .. Len(q)
    BY SyntaxAssumption
  <2>3. Sound(pc[r], query[r], operation[r], path[r], stack[r])'
    BY <2>1, <2>2 DEF Sound
  <2>4. (pc[r] # "idle" /\ ~disturbed[r] =>
          Exact(pc[r], query[r], path[r], stack[r], document[r], instances, pending))'
    BY <1>2, <1>3, <2>1 DEF Exact
  <2>. QED  BY <2>3, <2>4 DEF Good
<1>6. ASSUME NEW x \in Requests \ {r} PROVE Good(x)'
  <2>1. UNCHANGED <<pc[x], query[x], operation[x], path[x], stack[x], document[x],
                    disturbed[x], instances, pending>>
    BY <1>1, <1>3 DEF Types
  <2>. QED  BY <2>1, GoodFrame
<1>. QED  BY <1>4, <1>5, <1>6

\* A refresh disturbs every request there is.
LEMMA RefreshStep ==
    ASSUME Types, \A x \in Requests : Good(x), NEW e \in Entities, Refresh(e)
    PROVE  Types' /\ \A x \in Requests : Good(x)'
<1>1. UNCHANGED <<up, pc, query, operation, path, stack, document>> /\ Disturb
  BY DEF Refresh, ClearInstances, InsertInstance, Refreshed, visitVars
<1>2. ASSUME NEW x \in Requests PROVE Good(x)'
  BY <1>1, GoodFrame DEF Disturb
<1>3. /\ instances' \in [Entities -> SUBSET Nat]
      /\ \A x \in Entities : IsFiniteSet(instances'[x])
      /\ pending' \in [Entities -> (SUBSET Nat) \cup {Idle}]
  <2>1. CASE ClearInstances(e)
    <3>1. PICK g \in Generations : pending' = [pending EXCEPT ![e] = g]
      BY <2>1 DEF ClearInstances
    <3>2. instances' = [instances EXCEPT ![e] = {}]
      BY <2>1 DEF ClearInstances
    <3>3. IsFiniteSet({})
      BY FS_EmptySet
    <3>. QED  BY <3>1, <3>2, <3>3, InstancesAssumption DEF Types
  <2>2. CASE InsertInstance(e)
    <3>1. PICK h \in pending[e] : /\ instances' = [instances EXCEPT ![e] = @ \cup {h}]
                                  /\ pending' = [pending EXCEPT ![e] = @ \ {h}]
      BY <2>2 DEF InsertInstance
    <3>2. pending[e] \in SUBSET Nat
      <4>1. PICK set, idle : set = pending[e] /\ idle = Idle
        OBVIOUS
      <4>2. set \in (SUBSET Nat) \cup {idle} /\ set # idle
        BY <2>2, <4>1 DEF InsertInstance, Types
      <4>. QED  BY <4>1, <4>2
    <3>3. IsFiniteSet(instances[e] \cup {h})
      BY FS_AddElement DEF Types
    <3>. QED  BY <3>1, <3>2, <3>3 DEF Types
  <2>3. CASE Refreshed(e)
    <3>1. PICK idle : idle = Idle
      OBVIOUS
    <3>2. pending' = [pending EXCEPT ![e] = idle] /\ UNCHANGED instances
      BY <2>3, <3>1 DEF Refreshed
    <3>3. pending \in [Entities -> (SUBSET Nat) \cup {idle}]
      BY <3>1 DEF Types
    <3>4. pending' \in [Entities -> (SUBSET Nat) \cup {idle}]
      BY <3>2, <3>3
    <3>. QED  BY <3>1, <3>2, <3>4 DEF Types
  <2>. QED  BY <2>1, <2>2, <2>3 DEF Refresh
<1>4. disturbed' \in [Requests -> BOOLEAN]
  BY <1>1 DEF Disturb
<1>5. Types'
  BY <1>1, <1>3, <1>4 DEF Types
<1>. QED  BY <1>2, <1>5

\* Nothing but the process ends.
LEMMA FaultStep ==
    ASSUME Types, \A x \in Requests : Good(x), up' = FALSE,
           UNCHANGED <<entityVars, pc, visitVars, disturbed>>
    PROVE  Types' /\ \A x \in Requests : Good(x)'
<1>1. Types'
  BY DEF Types, entityVars, visitVars
<1>2. ASSUME NEW x \in Requests PROVE Good(x)'
  BY GoodFrame DEF entityVars, visitVars
<1>. QED  BY <1>1, <1>2

\* The visitor is among the selection sets of the query: it asks no entity that
\* the query avoids.  The least level outside them would be the fields of an
\* object one level up, which is inside.
LEMMA OnTheWay ==
    ASSUME NEW fields, NEW p, NEW s, Matches(fields, p, s), NEW S \in SUBSET Selections,
           NEW es, NoEntity \notin es, fields \in S,
           \A t \in S : \A i \in DOMAIN t :
               t[i].object => t[i].name \notin es /\ t[i].fields \in S
    PROVE  \A k \in 1 .. Len(p) : p[k].fields \in S /\ s[k].entity \notin es
<1>0. /\ p[1].fields = fields /\ s[1].entity = NoEntity /\ Len(p) \in Nat
      /\ \A k \in 1 .. Len(p) : p[k].at \in 1 .. Len(p[k].fields) + 1
      /\ \A k \in 1 .. Len(p) - 1 : Above(p, s, k)
  BY DEF Matches
<1>1. ASSUME NEW k \in 1 .. Len(p) - 1, p[k].fields \in S
      PROVE  p[k + 1].fields \in S /\ s[k + 1].entity \notin es
  <2>1. PICK t, i : t = p[k].fields /\ i = p[k].at
    OBVIOUS
  <2>2. /\ i <= Len(t) /\ t[i].object
        /\ p[k + 1].fields = t[i].fields /\ s[k + 1].entity = t[i].name
    BY <1>0, <2>1 DEF Above
  <2>3. i \in DOMAIN t
    <3>1. k \in 1 .. Len(p)
      BY <1>0
    <3>2. i \in 1 .. Len(t) + 1
      BY <1>0, <2>1, <3>1
    <3>3. t \in Selections
      BY <1>1, <2>1
    <3>4. DOMAIN t = 1 .. Len(t) /\ Len(t) \in Nat
      BY <3>3, SyntaxAssumption
    <3>. QED  BY <2>2, <3>2, <3>4
  <2>. QED  BY <1>1, <2>1, <2>2, <2>3
<1>2. ASSUME NEW k \in 1 .. Len(p)
      PROVE  p[k].fields \in S
  <2>. DEFINE Bad == {j \in 1 .. Len(p) : p[j].fields \notin S}
  <2>. SUFFICES ASSUME Bad # {} PROVE FALSE
    OBVIOUS
  <2>0. Bad \subseteq Nat
    BY <1>0
  <2>1. PICK j \in Bad : \A i \in Bad : j <= i
    BY <2>0, LeastNat
  <2>2. j \in 1 .. Len(p) /\ p[j].fields \notin S
    BY <2>1
  <2>3. j # 1
    BY <1>0, <2>2
  <2>4. j - 1 \in 1 .. Len(p) - 1 /\ j - 1 \in 1 .. Len(p) /\ (j - 1) + 1 = j /\ ~(j <= j - 1)
    BY <1>0, <2>2, <2>3
  <2>5. j - 1 \notin Bad
    BY <2>1, <2>4
  <2>6. p[j - 1].fields \in S
    BY <2>4, <2>5
  <2>. QED  BY <1>1, <2>2, <2>4, <2>6
<1>3. ASSUME NEW k \in 1 .. Len(p)
      PROVE  s[k].entity \notin es
  <2>1. CASE k = 1
    BY <1>0, <2>1
  <2>2. CASE k # 1
    <3>1. k - 1 \in 1 .. Len(p) - 1 /\ k - 1 \in 1 .. Len(p) /\ (k - 1) + 1 = k
      BY <1>0, <2>2
    <3>2. p[k - 1].fields \in S
      BY <1>2, <3>1
    <3>. QED  BY <1>1, <3>1, <3>2
  <2>. QED  BY <2>1, <2>2
<1>. QED  BY <1>2, <1>3

\* It ends under a request that a refresh disturbs, has a scalar outside of every
\* object or asks for an entity with link rules or defaults.
LEMMA FaultWhy ==
    ASSUME Types, \A x \in Requests : Good(x), NEW r \in Requests,
           RootScalar(r) \/ BackOfEmpty(r) \/ CopyFault(r) \/ SupplementThrows(r)
    PROVE  Busy(r) /\ Exposed(r)
<1>1. PICK q, n, s, p, e : q = query[r] /\ n = operation[r]
                           /\ s = stack[r] /\ p = path[r] /\ e = Top(r).entity
  OBVIOUS
<1>2. pc[r] \in {"visit", "one", "notOne", "unwind"}
  BY DEF RootScalar, BackOfEmpty, CopyFault, SupplementThrows, Asks, AtField, AtEnd, At
<1>3. Busy(r)
  BY <1>2 DEF Busy
<1>4. /\ n \in 1 .. Len(q) /\ q \in Queries
      /\ Matches(q[n].fields, p, s)
      /\ Len(p) \in 1 .. Len(p) /\ Last(p) = p[Len(p)] /\ Last(s) = s[Len(p)]
      /\ Here(r) = Last(p) /\ Top(r) = Last(s)
      /\ ~disturbed[r] => /\ \A x \in Entities : pending[x] = Idle
                          /\ Filling(p, s, instances)
  <2>1. Good(r) /\ pc[r] \in {"visit", "one", "notOne", "unwind"}
    BY <1>2
  <2>2. InVisit(r, q, n, p, s)
    BY <1>1, <2>1, Visiting
  <2>. QED  BY <2>2 DEF InVisit
<1>5. PICK k, F : k = Len(p) /\ F = q[n].fields
  OBVIOUS
<1>6. /\ e = s[k].entity /\ Here(r) = p[k]
      /\ e = NoEntity <=> k = 1
      /\ e \in Entities \cup {NoEntity}
      /\ p[k].at \in 1 .. Len(p[k].fields) + 1
      /\ DOMAIN p[k].fields = 1 .. Len(p[k].fields) /\ Len(p[k].fields) \in Nat
  <2>1. p[k].at \in 1 .. Len(p[k].fields) + 1
    BY <1>4, <1>5 DEF Matches
  <2>2. /\ s[k].entity = NoEntity <=> k = 1
        /\ s[k].entity \in Entities \cup {NoEntity}
        /\ DOMAIN p[k].fields = 1 .. Len(p[k].fields) /\ Len(p[k].fields) \in Nat
    BY <1>4, <1>5, LevelOf
  <2>. QED  BY <1>1, <1>4, <1>5, <2>1, <2>2
<1>7. CASE RootScalar(r)
  <2>1. e = NoEntity /\ p[k].at <= Len(p[k].fields) /\ ~p[k].fields[p[k].at].object
    BY <1>1, <1>6, <1>7 DEF RootScalar, AtField, FieldAt
  <2>2. p[k].fields = F
    BY <1>4, <1>5, <1>6, <2>1 DEF Matches
  <2>3. PICK i : i = p[k].at /\ i \in DOMAIN F /\ ~F[i].object
    BY <1>6, <2>1, <2>2
  <2>4. n \in DOMAIN q
    BY <1>4, OperationOf
  <2>5. HasRootScalar(q)
    BY <1>5, <2>3, <2>4 DEF HasRootScalar
  <2>. QED  BY <1>1, <1>3, <2>5 DEF Exposed
<1>8. CASE BackOfEmpty(r)
  <2>. SUFFICES ASSUME ~disturbed[r] PROVE FALSE
    BY <1>3 DEF Exposed
  <2>1. e # NoEntity /\ Cardinality(instances[e]) = 1
    <3>1. CASE pc[r] = "one"
      <4>1. Len(p) > 1
        BY <1>1, <3>1 DEF Good, Sound
      <4>2. Exact(pc[r], q, p, s, document[r], instances, pending)
        BY <1>1, <1>2 DEF Good
      <4>. QED  BY <4>1, <4>2, <3>1, <1>1, <1>4, <1>5, <1>6 DEF Exact
    <3>2. CASE pc[r] # "one"
      BY <1>1, <1>8, <3>2 DEF BackOfEmpty
    <3>. QED  BY <3>1, <3>2
  <2>2. s[k].fragment = Partial(p[k].fields, p[k].at - 1, e, instances)
    BY <1>4, <1>5, <1>6 DEF Filling
  <2>3. DOMAIN s[k].fragment = instances[e]
    BY <2>1, <2>2 DEF Partial, Items
  <2>4. instances[e] = {}
    BY <1>4, <1>5, <1>8, <2>3 DEF BackOfEmpty
  <2>. QED  BY <2>1, <2>4, FS_EmptySet
<1>9. CASE CopyFault(r)
  BY <1>3, <1>4, <1>9 DEF CopyFault, Exposed
<1>10. CASE SupplementThrows(r)
  <2>. SUFFICES ASSUME Avoids(q, Supplemented) PROVE FALSE
    BY <1>1, <1>3 DEF Exposed
  <2>1. PICK S \in SUBSET Selections :
           /\ \A i \in DOMAIN q : q[i].fields \in S
           /\ \A t \in S : \A i \in DOMAIN t :
                 t[i].object => t[i].name \notin Supplemented /\ t[i].fields \in S
    BY DEF Avoids
  <2>2. q[n].fields \in S /\ NoEntity \notin Supplemented
    BY <1>4, <2>1, OperationOf, InstancesAssumption
  <2>3. p[k].fields \in S /\ e \notin Supplemented
    <3>1. \A j \in 1 .. Len(p) : p[j].fields \in S /\ s[j].entity \notin Supplemented
      BY <1>4, <2>1, <2>2, OnTheWay
    <3>. QED  BY <1>4, <1>5, <1>6, <3>1
  <2>4. PICK x \in Supplemented : Asks(r, x)
    BY <1>10 DEF SupplementThrows
  <2>5. AtField(r, TRUE) /\ FieldAt(r).name = x
    BY <1>1, <2>3, <2>4 DEF Asks
  <2>6. PICK i : /\ i = p[k].at /\ i \in DOMAIN p[k].fields
                 /\ p[k].fields[i].object /\ p[k].fields[i].name = x
    BY <1>6, <2>5 DEF AtField, FieldAt
  <2>. QED  BY <2>1, <2>3, <2>4, <2>6
<1>. QED  BY <1>7, <1>8, <1>9, <1>10
-----------------------------------------------------------------------------
(***************************************************************************)
(* The theorems.                                                           *)
(***************************************************************************)

\* The invariant holds at first.
LEMMA InitIInv == Init => IInv
<1>. SUFFICES ASSUME Init PROVE IInv
  OBVIOUS
<1>1. Types
  <2>1. PICK none, empty, idle : none = <<>> /\ empty = EmptyObject /\ idle = Idle
    OBVIOUS
  <2>2. none \in Seq(Levels)
    BY <2>1
  <2>3. /\ stack = [r \in Requests |-> none] /\ document = [r \in Requests |-> empty]
        /\ path = [r \in Requests |-> none] /\ query = [r \in Requests |-> none]
        /\ pending = [e \in Entities |-> idle]
    BY <2>1 DEF Init
  <2>4. /\ stack = [r \in Requests |-> stack[r]]
        /\ document = [r \in Requests |-> document[r]]
        /\ path \in [Requests -> Seq(Levels)]
        /\ query \in [Requests -> Queries \cup {none}]
        /\ pending \in [Entities -> (SUBSET Nat) \cup {idle}]
    BY <2>2, <2>3
  <2>5. /\ up \in BOOLEAN /\ pc \in [Requests -> Labels] /\ operation \in [Requests -> Nat]
        /\ disturbed \in [Requests -> BOOLEAN]
    BY DEF Init, Labels
  <2>6. /\ instances \in [Entities -> SUBSET Nat]
        /\ \A e \in Entities : IsFiniteSet(instances[e])
    <3>1. instances = InitInstances
      BY DEF Init
    <3>. QED  BY <3>1, InstancesAssumption
  <2>. QED  BY <2>1, <2>4, <2>5, <2>6 DEF Types
<1>2. ASSUME NEW r \in Requests PROVE Good(r)
  BY DEF Init, Good, Sound
<1>3. FaultOnlyIfExposed
  BY DEF Init, FaultOnlyIfExposed
<1>. QED  BY <1>1, <1>2, <1>3 DEF IInv

\* Every step keeps it.
LEMMA NextIInv == IInv /\ [Next]_vars => IInv'
<1>. SUFFICES ASSUME IInv, [Next]_vars PROVE IInv'
  OBVIOUS
<1>0. Types /\ (\A x \in Requests : Good(x)) /\ FaultOnlyIfExposed
  BY DEF IInv
<1>1. ASSUME NEW e \in Entities, Refresh(e) PROVE IInv'
  <2>1. Types' /\ \A x \in Requests : Good(x)'
    BY <1>0, <1>1, RefreshStep
  <2>2. up'
    BY <1>1 DEF Refresh, ClearInstances, InsertInstance, Refreshed
  <2>. QED  BY <2>1, <2>2 DEF IInv, FaultOnlyIfExposed
<1>2. ASSUME NEW r \in Requests, Begin(r) PROVE IInv'
  <2>1. Types' /\ \A x \in Requests : Good(x)'
    BY <1>0, <1>2, BeginStep
  <2>2. up'
    BY <1>2 DEF Begin
  <2>. QED  BY <2>1, <2>2 DEF IInv, FaultOnlyIfExposed
<1>3. ASSUME NEW r \in Requests,
             \/ visitOperationDefinition(r) \/ visitObject(r) \/ visitScalar(r)
             \/ getFragment(r) \/ LeaveOne(r) \/ LeaveList(r)
             \/ Unwind(r) \/ EndOperation(r)
      PROVE  IInv'
  <2>1. Types' /\ \A x \in Requests : Good(x)'
    BY <1>0, <1>3, OperationStep, EnterStep, ScalarStep, FragmentStep, LeaveOneStep,
       LeaveListStep, GiveUpStep, EndStep
  <2>2. up'
    BY <1>3 DEF visitOperationDefinition, visitObject, Enter, visitScalar, getFragment,
       LeaveOne, LeaveList, Unwind, EndOperation, At, AtField, AtEnd
  <2>. QED  BY <2>1, <2>2 DEF IInv, FaultOnlyIfExposed
<1>4. ASSUME NEW r \in Requests,
             RootScalar(r) \/ BackOfEmpty(r) \/ CopyFault(r) \/ SupplementThrows(r)
      PROVE  IInv'
  <2>1. up' = FALSE /\ UNCHANGED <<entityVars, pc, visitVars, disturbed>>
    BY <1>4 DEF RootScalar, BackOfEmpty, CopyFault, SupplementThrows
  <2>2. Types' /\ \A x \in Requests : Good(x)'
    BY <1>0, <2>1, FaultStep
  <2>3. Busy(r) /\ Exposed(r)
    BY <1>0, <1>4, FaultWhy
  <2>4. (Busy(r) /\ Exposed(r))'
    BY <2>1, <2>3 DEF Busy, visitVars, Exposed
  <2>. QED  BY <2>2, <2>4 DEF IInv, FaultOnlyIfExposed
<1>5. ASSUME UNCHANGED vars PROVE IInv'
  <2>1. UNCHANGED <<up, instances, pending, pc, query, operation, path, stack,
                    document, disturbed>>
    BY <1>5 DEF vars, entityVars, visitVars
  <2>2. Types'
    BY <1>0, <2>1 DEF Types
  <2>3. ASSUME NEW x \in Requests PROVE Good(x)'
    BY <1>0, <2>1, GoodFrame
  <2>4. FaultOnlyIfExposed'
    BY <1>0, <2>1 DEF FaultOnlyIfExposed, Busy, Exposed
  <2>. QED  BY <2>2, <2>3, <2>4 DEF IInv
<1>. QED  BY <1>1, <1>2, <1>3, <1>4, <1>5 DEF Next, Visit, Gone

\* Every reachable state satisfies the invariant, whatever the queries, the
\* instances and the refreshes.
THEOREM Invariance == Spec => []IInv
BY InitIInv, NextIInv, PTL DEF Spec

\* A request that no refresh disturbs is answered with what its last operation
\* means (GqlObjectBuild, GqlQueryVisitor): the builders' stack, pushed to and
\* popped from field by field, computes the recursive meaning of any query.
THEOREM AnswersAreEvaluations == Spec => []AnswerIsEvaluation
<1>1. IInv => AnswerIsEvaluation
  <2>. SUFFICES ASSUME IInv, NEW r \in Requests, pc[r] = "data", ~disturbed[r]
                PROVE  /\ Len(stack[r]) = 1
                       /\ document[r] = [shape |-> "object",
                            fields |-> Evaluate[Last(query[r]).fields][instances][0]]
    BY DEF AnswerIsEvaluation
  <2>1. Exact(pc[r], query[r], path[r], stack[r], document[r], instances, pending)
    BY DEF IInv, Good
  <2>. QED  BY <2>1 DEF Exact
<1>. QED  BY <1>1, Invariance, PTL

\* An error is the answer to a query with an unknown name, a variable or a
\* mutation, and data that to any other, whatever the refreshes do meanwhile
\* (ObmcGqlVisitor, GraphqlRouter::run).
THEOREM ErrorsAreInvalid == Spec => []ErrorIffInvalid
<1>1. IInv => ErrorIffInvalid
  BY DEF IInv, Good, Sound, ErrorIffInvalid
<1>. QED  BY <1>1, Invariance, PTL

\* The process ends only under a request that a refresh disturbs, whose query has
\* a scalar outside of every object or asks for an entity with link rules or
\* defaults.  Any other query is safe, however deep, also when it is given up and
\* the visitor's destructor asks for a fragment (getFragment, getInstances).
THEOREM OnlyExposedFault == Spec => []FaultOnlyIfExposed
<1>1. IInv => FaultOnlyIfExposed
  BY DEF IInv
<1>. QED  BY <1>1, Invariance, PTL
=============================================================================
