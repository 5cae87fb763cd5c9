---------------------------- MODULE Policy_proofs ----------------------------
(***************************************************************************)
(* Lemmas about expressions and policies: the recursive functions on trees *)
(* are what they say they are, what is emitted for a policy is what CEL    *)
(* says of it, and more attributes do not change what an expression says.  *)
(***************************************************************************)
EXTENDS Policy, NaturalsInduction, WellFoundedInduction, TLAPS

-----------------------------------------------------------------------------
(* Trees.                                                                  *)

\* A set of numbers has a least one.
LEMMA LeastNumber ==
    ASSUME NEW N, N \subseteq Nat, N # {}
    PROVE  \E n \in N : \A m \in N : n <= m
<1> DEFINE R == {p \in Nat \X Nat : p[1] < p[2]}
<1>1. IsWellFoundedOn(R, Nat)
  BY NatLessThanWellFounded DEF OpToRel
<1>2. PICK n \in N : \A m \in N : <<m, n>> \notin R
  <2> HIDE DEF R
  <2> QED BY <1>1, WFMin
<1>3. \A m \in N : m \in Nat /\ n \in Nat /\ ~(m < n)
  BY <1>2
<1> QED BY <1>3

SameBelow(D, n, f, g) == \A m \in D : m < n => f[m] = g[m]

\* What a step gives at a number depends on what there is below it.
IsRecursion(D, V, step) ==
    /\ D \subseteq Nat
    /\ V # {}
    /\ step \in [[D -> V] -> [D -> V]]
    /\ \A f, g \in [D -> V], n \in D : SameBelow(D, n, f, g) => step[f][n] = step[g][n]

\* A step that reads a function below a number only has a fixed point: the
\* definitions by recursion over the nodes of a tree define something.
LEMMA Recursion ==
    ASSUME NEW D, NEW V, NEW step, IsRecursion(D, V, step)
    PROVE  \E f \in [D -> V] : f = step[f]
<1> USE DEF IsRecursion, SameBelow
<1> DEFINE Below(n) == {f \in [D -> V] : \A m \in D : m < n => f[m] = step[f][m]}
<1>1. \A n \in Nat : \A f, g \in Below(n) : \A m \in D : m < n => f[m] = g[m]
  <2> SUFFICES ASSUME NEW n \in Nat, NEW f \in Below(n), NEW g \in Below(n),
                      \E m \in D : m < n /\ f[m] # g[m]
               PROVE  FALSE
    OBVIOUS
  <2> DEFINE N == {m \in D : m < n /\ f[m] # g[m]}
  <2>1. PICK m \in N : \A o \in N : m <= o
    BY LeastNumber
  <2>2. \A o \in D : o < m => f[o] = g[o]
    BY <2>1
  <2>3. step[f][m] = step[g][m]
    BY <2>2
  <2> QED BY <2>3
<1>2. \A n \in Nat : Below(n) # {}
  <2> SUFFICES ASSUME \E n \in Nat : Below(n) = {}
               PROVE  FALSE
    OBVIOUS
  <2> DEFINE N == {n \in Nat : Below(n) = {}}
  <2>1. PICK n \in N : \A o \in N : n <= o
    <3> HIDE DEF Below
    <3> QED BY LeastNumber
  <2>2. n # 0
    <3>1. PICK v \in V : TRUE
      OBVIOUS
    <3>2. [m \in D |-> v] \in Below(0)
      BY <3>1
    <3> QED BY <3>2
  <2>3. n - 1 \in Nat /\ n - 1 \notin N
    <3>1. n \in Nat /\ n - 1 \in Nat /\ ~(n <= n - 1)
      BY <2>2
    <3> HIDE DEF N
    <3> QED BY <2>1, <3>1
  <2>4. PICK f \in Below(n - 1) : TRUE
    BY <2>3
  <2>5. step[f] \in [D -> V]
    OBVIOUS
  <2>6. ASSUME NEW m \in D, m < n
        PROVE  step[f][m] = step[step[f]][m]
    <3>1. \A o \in D : o < m => o < n - 1
      BY <2>3, <2>6
    <3>2. \A o \in D : o < m => f[o] = step[f][o]
      BY <3>1, <2>4
    <3> QED BY <3>2, <2>5
  <2>7. step[f] \in Below(n)
    BY <2>5, <2>6
  <2> QED BY <2>7
<1> DEFINE pick(n) == CHOOSE g \in Below(n) : TRUE
           fix == [n \in D |-> pick(n + 1)[n]]
<1>3. \A n \in Nat : pick(n) \in Below(n)
  BY <1>2
<1>4. fix \in [D -> V]
  <2> SUFFICES ASSUME NEW n \in D
               PROVE  pick(n + 1)[n] \in V
    OBVIOUS
  <2>1. n + 1 \in Nat /\ Below(n + 1) \subseteq [D -> V]
    OBVIOUS
  <2>2. pick(n + 1) \in [D -> V]
    <3> HIDE DEF Below, pick
    <3> QED BY <1>3, <2>1
  <2> HIDE DEF pick
  <2> QED BY <2>2
<1>5. ASSUME NEW n \in D
      PROVE  fix[n] = step[fix][n]
  <2> DEFINE g == pick(n + 1)
  <2>1. g \in Below(n + 1) /\ n + 1 \in Nat
    <3>1. n + 1 \in Nat
      OBVIOUS
    <3> HIDE DEF Below, pick
    <3> QED BY <1>3, <3>1
  <2>2. ASSUME NEW m \in D, m < n
        PROVE  fix[m] = g[m]
    <3>1. m + 1 \in Nat /\ n + 1 \in Nat /\ m < n + 1 /\ m < m + 1
      BY <2>2
    <3>2. pick(m + 1) \in Below(m + 1)
      BY <1>3, <3>1
    <3>3. g \in Below(m + 1)
      BY <2>1, <2>2
    <3>4. pick(m + 1)[m] = g[m]
      <4> HIDE DEF Below, pick, g
      <4> QED BY <1>1, <3>1, <3>2, <3>3
    <3> HIDE DEF g, pick
    <3> QED BY <3>4
  <2>3. g \in [D -> V] /\ g[n] = step[g][n]
    <3> HIDE DEF g
    <3> QED BY <2>1
  <2>4. step[fix][n] = step[g][n]
    <3> HIDE DEF g, fix
    <3> QED BY <2>2, <2>3, <1>4
  <2>5. fix[n] = g[n]
    OBVIOUS
  <2> HIDE DEF g, fix
  <2> QED BY <2>3, <2>4, <2>5
<1>6. step[fix] \in [D -> V]
  <2> HIDE DEF fix
  <2> QED BY <1>4
<1>7. fix = step[fix]
  <2>1. fix = [n \in D |-> fix[n]]
    OBVIOUS
  <2>2. step[fix] = [n \in D |-> step[fix][n]]
    <3> HIDE DEF fix
    <3> QED BY <1>6
  <2> HIDE DEF fix
  <2> QED BY <1>5, <2>1, <2>2
<1> QED BY <1>4, <1>7

\* What the recursive functions on a tree need: a connective reads the nodes
\* below it, and there are such nodes.
Ranked(D, n, op, children) ==
    /\ op \in {"and", "or"} => Elements(children) \subseteq {m \in D : m < n}
    /\ op = "not" => children[1] \in {m \in D : m < n}

RankedExpression(e) ==
    /\ DOMAIN e.node \subseteq Nat
    /\ \A n \in DOMAIN e.node : Ranked(DOMAIN e.node, n, e.node[n].op, e.node[n].children)

Truths == {"T", "F", "N"}

LEMMA TruthsClosed ==
    /\ \A b : Truth(b) \in Truths
    /\ \A t : Flip(t) \in Truths
    /\ \A S : Conj(S) \in Truths /\ Disj(S) \in Truths
BY DEF Truth, Flip, Conj, Disj, Truths

LEMMA GuardedTyped ==
    ASSUME NEW e, NEW negated, NEW attrs, NEW row
    PROVE  Guarded(e, negated, attrs, row) \in Truths
<1>1. Test(e, negated, attrs, row[e.field]) \in Truths
  BY TruthsClosed DEF Test, Truths
<1> QED BY <1>1 DEF Guarded, Truths

\* What is emitted for a node depends on its children only, and is a truth if it is for them.
LEMMA EmitNodeTyped ==
    ASSUME NEW D, NEW n, NEW e, Ranked(D, n, e.op, e.children),
           NEW sql \in [D -> [BOOLEAN -> Truths]], NEW negated \in BOOLEAN, NEW attrs, NEW row
    PROVE  EmitNode(e, negated, sql, attrs, row) \in Truths
<1>1. CASE e.op = "not"
  <2>1. e.children[1] \in D
    BY <1>1 DEF Ranked
  <2>2. sql[e.children[1]][~negated] \in Truths
    BY <2>1
  <2> QED BY <1>1, <2>2 DEF EmitNode
<1>2. CASE e.op # "not"
  BY <1>2, TruthsClosed, GuardedTyped DEF EmitNode
<1> QED BY <1>1, <1>2

LEMMA EmitNodeLocal ==
    ASSUME NEW D, NEW n, NEW e, Ranked(D, n, e.op, e.children), NEW negated \in BOOLEAN, NEW attrs, NEW row,
           NEW f, NEW g, SameBelow(D, n, f, g)
    PROVE  EmitNode(e, negated, f, attrs, row) = EmitNode(e, negated, g, attrs, row)
<1>1. CASE e.op = "not"
  BY <1>1 DEF EmitNode, Ranked, SameBelow
<1>2. CASE e.op \in {"and", "or"}
  <2>1. {f[m][negated] : m \in Elements(e.children)} = {g[m][negated] : m \in Elements(e.children)}
    BY <1>2 DEF Ranked, SameBelow
  <2> QED BY <1>2, <2>1 DEF EmitNode
<1>3. CASE e.op \notin {"not", "and", "or"}
  BY <1>3 DEF EmitNode
<1> QED BY <1>1, <1>2, <1>3

LEMMA EmitIsDefined ==
    ASSUME NEW e, RankedExpression(e), NEW attrs, NEW row
    PROVE  Emit(e, attrs, row) =
               [n \in DOMAIN e.node |->
                   [negated \in BOOLEAN |-> EmitNode(e.node[n], negated, Emit(e, attrs, row), attrs, row)]]
<1> DEFINE D == DOMAIN e.node
           V == [BOOLEAN -> Truths]
           body(f) == [n \in D |-> [negated \in BOOLEAN |-> EmitNode(e.node[n], negated, f, attrs, row)]]
           step == [f \in [D -> V] |-> body(f)]
<1>1. D \subseteq Nat /\ V # {}
  <2>1. [negated \in BOOLEAN |-> "T"] \in V
    BY DEF Truths
  <2> QED BY <2>1 DEF RankedExpression
<1>2. \A f \in [D -> V] : body(f) \in [D -> V]
  <2> SUFFICES ASSUME NEW f \in [D -> V], NEW n \in D, NEW negated \in BOOLEAN
               PROVE  EmitNode(e.node[n], negated, f, attrs, row) \in Truths
    OBVIOUS
  <2>1. Ranked(D, n, e.node[n].op, e.node[n].children)
    BY DEF RankedExpression
  <2> QED BY <2>1, EmitNodeTyped
<1>3. ASSUME NEW f \in [D -> V], NEW g \in [D -> V], NEW n \in D, SameBelow(D, n, f, g)
      PROVE  step[f][n] = step[g][n]
  <2>1. Ranked(D, n, e.node[n].op, e.node[n].children)
    BY DEF RankedExpression
  <2>2. ASSUME NEW negated \in BOOLEAN
        PROVE  EmitNode(e.node[n], negated, f, attrs, row) = EmitNode(e.node[n], negated, g, attrs, row)
    <3> HIDE DEF D, V
    <3> QED BY <1>3, <2>1, EmitNodeLocal
  <2>3. body(f)[n] = body(g)[n]
    BY <2>2
  <2> QED BY <2>3
<1>4. step \in [[D -> V] -> [D -> V]]
  <2> HIDE DEF V, D, body
  <2> QED BY <1>2
<1>5. \E f \in [D -> V] : f = step[f]
  <2> HIDE DEF V, D, step
  <2>1. IsRecursion(D, V, step)
    BY <1>1, <1>3, <1>4 DEF IsRecursion
  <2> QED BY <2>1, Recursion
<1>6. \E f : f = body(f)
  BY <1>5
<1>7. Emit(e, attrs, row) = CHOOSE f : f = body(f)
  BY DEF Emit
<1>8. Emit(e, attrs, row) = body(Emit(e, attrs, row))
  <2> HIDE DEF body
  <2> QED BY <1>6, <1>7
<1> QED BY <1>8

\* The same of what CEL says: it has a meaning for what a policy may be made of.
Meaningful == {"true", "false"} \cup Connective \cup Comparison \cup {"in"}

RankedSource(source) ==
    /\ DOMAIN source.node \subseteq Nat
    /\ \A n \in DOMAIN source.node :
          /\ source.node[n][1] \in Meaningful
          /\ Ranked(DOMAIN source.node, n, source.node[n][1], source.node[n][2])

CelTruths(source, attrs, row) ==
    CHOOSE f : f = [n \in DOMAIN source.node |-> CelNode(source.node[n], f, attrs, row)]

LEMMA CelIsOfTheRoot ==
    ASSUME NEW source, NEW attrs, NEW row
    PROVE  Cel(source, attrs, row) = CelTruths(source, attrs, row)[source.root]
BY DEF Cel, CelTruths

LEMMA CelNodeTyped ==
    ASSUME NEW n, n[1] \in Meaningful, NEW f, NEW attrs, NEW row
    PROVE  CelNode(n, f, attrs, row) \in Truths
<1>1. CelIn(n[2], n[3], attrs, row) \in Truths
  BY TruthsClosed DEF CelIn, Truths
<1>2. CASE n[1] \in Comparison
  BY <1>2, TruthsClosed DEF CelNode, Comparison, Ordering, Truths
<1>3. CASE n[1] \in {"true", "false"}
  BY <1>3 DEF CelNode, Truth, Truths
<1>4. CASE n[1] = "in"
  <2>1. CelNode(n, f, attrs, row) = CelIn(n[2], n[3], attrs, row)
    BY <1>4 DEF CelNode, Comparison, Ordering
  <2> QED BY <1>1, <2>1
<1>5. CASE n[1] \in Connective
  BY <1>5 DEF CelNode, Connective, Comparison, Ordering, Flip, Conj, Disj, Truths
<1> QED BY <1>2, <1>3, <1>4, <1>5 DEF Meaningful

LEMMA CelNodeLocal ==
    ASSUME NEW D, NEW k, NEW n, n[1] \in Meaningful, Ranked(D, k, n[1], n[2]),
           NEW f, NEW g, SameBelow(D, k, f, g), NEW attrs, NEW row
    PROVE  CelNode(n, f, attrs, row) = CelNode(n, g, attrs, row)
<1>1. CASE n[1] = "not"
  BY <1>1 DEF CelNode, Ranked, SameBelow
<1>2. CASE n[1] \in {"and", "or"}
  <2>1. {f[m] : m \in Elements(n[2])} = {g[m] : m \in Elements(n[2])}
    BY <1>2 DEF Ranked, SameBelow
  <2> QED BY <1>2, <2>1 DEF CelNode
<1>3. CASE n[1] \notin Connective
  BY <1>3 DEF CelNode, Meaningful, Connective
<1> QED BY <1>1, <1>2, <1>3 DEF Connective

LEMMA CelIsDefined ==
    ASSUME NEW source, RankedSource(source), NEW attrs, NEW row
    PROVE  CelTruths(source, attrs, row) =
               [n \in DOMAIN source.node |-> CelNode(source.node[n], CelTruths(source, attrs, row), attrs, row)]
<1> DEFINE D == DOMAIN source.node
           body(f) == [n \in D |-> CelNode(source.node[n], f, attrs, row)]
           step == [f \in [D -> Truths] |-> body(f)]
<1>1. D \subseteq Nat /\ Truths # {}
  BY DEF RankedSource, Truths
<1>2. \A f \in [D -> Truths] : body(f) \in [D -> Truths]
  BY CelNodeTyped DEF RankedSource
<1>3. ASSUME NEW f \in [D -> Truths], NEW g \in [D -> Truths], NEW n \in D, SameBelow(D, n, f, g)
      PROVE  step[f][n] = step[g][n]
  <2>1. CelNode(source.node[n], f, attrs, row) = CelNode(source.node[n], g, attrs, row)
    BY <1>3, CelNodeLocal DEF RankedSource
  <2>2. body(f)[n] = body(g)[n]
    BY <2>1
  <2> QED BY <2>2
<1>4. step \in [[D -> Truths] -> [D -> Truths]]
  <2> HIDE DEF D, body
  <2> QED BY <1>2
<1>5. \E f \in [D -> Truths] : f = step[f]
  <2> HIDE DEF D, step
  <2>1. IsRecursion(D, Truths, step)
    BY <1>1, <1>3, <1>4 DEF IsRecursion
  <2> QED BY <2>1, Recursion
<1>6. \E f : f = body(f)
  BY <1>5
<1>7. CelTruths(source, attrs, row) = CHOOSE f : f = body(f)
  BY DEF CelTruths
<1>8. CelTruths(source, attrs, row) = body(CelTruths(source, attrs, row))
  <2> HIDE DEF body
  <2> QED BY <1>6, <1>7
<1> QED BY <1>8

-----------------------------------------------------------------------------
(* Leaves.                                                                 *)

\* A field that a policy may use, and its value.
LEMMA FieldMeans ==
    ASSUME NEW n \in SourceOperands, FieldRef(n) # "", NEW attrs, NEW row
    PROVE  /\ FieldRef(n) \in Key
           /\ CelValue(n, attrs, row) =
                  IF row[FieldRef(n)] \in {Missing, Null, Malformed} THEN Unknown ELSE row[FieldRef(n)]
<1>1. n[1] = "field" /\ FieldRef(n) = n[2]
  BY DEF FieldRef
<1>2. n[2] \in Key
  <2>1. <<"other">>[1] = "other"
    OBVIOUS
  <2> QED BY <1>1, <2>1 DEF SourceOperands, SourceOperand
<1> QED BY <1>1, <1>2 DEF CelValue

\* An operand that was not refused is one value, the same to SQL and to CEL.
LEMMA OperandMeans ==
    ASSUME NEW n \in SourceOperands, NEW want, PolicyValue(n, want) # RefusedValue,
           NEW attrs, Known(PolicyValue(n, want), attrs), NEW row
    PROVE  /\ PolicyValue(n, want)[1] \in {"attr", "literal"}
           /\ ValueOf(PolicyValue(n, want), attrs) = CelValue(n, attrs, row)
           /\ CelValue(n, attrs, row)[1] \in {"string", "boolean", "number"}
           /\ n[1] = "attr" => want = "string"
           /\ n[1] = "literal" => n[2][1] = want
           /\ n[1] \in {"attr", "literal"}
<1>1. CASE n[1] = "attr"
  BY <1>1 DEF PolicyValue, Attr, Known, ValueOf, CelValue
<1>2. CASE n[1] = "literal"
  <2>1. n[2] \in Literals
    BY <1>2 DEF SourceOperands, SourceOperand
  <2>2. n[2][1] \in {"string", "boolean", "number"}
    BY <2>1 DEF Literals, Typed
  <2> QED BY <1>2, <2>2 DEF PolicyValue, Literal, Known, ValueOf, CelValue
<1>3. CASE n[1] \notin {"attr", "literal"}
  BY <1>3 DEF PolicyValue
<1> QED BY <1>1, <1>2, <1>3

\* What a row may have in a field.
Fits(row, k) ==
    \/ row[k] \in Typed(FieldOf[k].type)
    \/ row[k] = Null
    \/ row[k] \in {Missing, Malformed} /\ FieldOf[k].map

\* An array that does not parse is left to the run that expects a violation.
Parses(row, k) == row[k] = Malformed => FieldOf[k].type # "string_array"

ValueIn(row, k) == IF row[k] \in {Missing, Null, Malformed} THEN Unknown ELSE row[k]

LEMMA TagsDiffer ==
    /\ Missing[1] = "missing" /\ Null[1] = "null" /\ Malformed[1] = "malformed"
    /\ NoValue[1] = "no value" /\ Unknown[1] = "unknown" /\ RefusedValue[1] = "refused"
    /\ \A l : Literal(l)[1] = "literal" /\ Literal(l)[2] = l
    /\ \A a : Attr(a)[1] = "attr" /\ Attr(a)[2] = a
BY DEF Missing, Null, Malformed, NoValue, Unknown, RefusedValue, Literal, Attr

LEMMA TypedTag ==
    ASSUME NEW t \in Type, NEW cell \in Typed(t)
    PROVE  cell[1] = t /\ cell \notin {Missing, Null, Malformed, Unknown}
<1>1. cell[1] = t
  BY DEF Typed
<1> QED BY <1>1, TagsDiffer DEF Type

LEMMA ValueInIs ==
    ASSUME NEW k \in Key, NEW row, Fits(row, k)
    PROVE  /\ ValueIn(row, k) # Unknown => ValueIn(row, k) = row[k] /\ row[k] \in Typed(FieldOf[k].type)
           /\ ValueIn(row, k) = Unknown <=> row[k] \in {Missing, Null, Malformed}
<1>1. FieldOf[k].type \in Type
  BY FieldAssumption
<1> QED BY <1>1, TypedTag DEF Fits, ValueIn

\* A guarded test, when its value is there and when it is not.
LEMMA GuardedWithoutValue ==
    ASSUME NEW e, e.field \in Key, NEW attrs, NEW row, Fits(row, e.field), Parses(row, e.field),
           ValueIn(row, e.field) = Unknown, NEW negated
    PROVE  Guarded(e, negated, attrs, row) \in {"F", "N"}
<1>1. row[e.field] \in {Missing, Null, Malformed}
  BY ValueInIs
<1>2. CASE row[e.field] = Missing
  <2>1. FieldOf[e.field].map
    <3>1. FieldOf[e.field].type \in Type
      BY FieldAssumption
    <3> QED BY <1>2, <3>1, TypedTag, TagsDiffer DEF Fits
  <2> QED BY <1>2, <2>1 DEF Guarded
<1>3. CASE row[e.field] # Missing
  <2>1. row[e.field] \in {Null, Malformed}
    BY <1>1, <1>3
  <2>2. Read(e.field, row[e.field]) = Null
    BY <2>1, TagsDiffer DEF Read, Parses
  <2>3. Test(e, negated, attrs, row[e.field]) = "N"
    BY <2>2 DEF Test
  <2> QED BY <1>3, <2>3 DEF Guarded
<1> QED BY <1>2, <1>3

LEMMA GuardedWithValue ==
    ASSUME NEW e, e.field \in Key, NEW attrs, NEW row, row[e.field] \in Typed(FieldOf[e.field].type),
           NEW negated \in BOOLEAN
    PROVE  LET x == row[e.field]
               v == IF e.value = NoValue THEN NoValue ELSE ValueOf(e.value, attrs)
               vs == [i \in DOMAIN e.values |-> ValueOf(e.values[i], attrs)]
           IN Guarded(e, negated, attrs, row) =
                  IF e.op \in Comparison THEN Truth(Compare(IF negated THEN Negation(e.op) ELSE e.op, x, v))
                  ELSE Truth(Applied(e.op, x, v, vs) # negated)
<1>1. FieldOf[e.field].type \in Type
  BY FieldAssumption
<1>2. row[e.field] \notin {Missing, Null, Malformed}
  BY <1>1, TypedTag
<1>3. Read(e.field, row[e.field]) = row[e.field]
  BY <1>2 DEF Read
<1> QED BY <1>2, <1>3 DEF Guarded, Test

\* The test of an operator that is no comparison.
LEMMA GuardedApplied ==
    ASSUME NEW e, e.field \in Key, e.op \notin Comparison, NEW attrs, NEW row,
           row[e.field] \in Typed(FieldOf[e.field].type), NEW p \in BOOLEAN,
           LET v == IF e.value = NoValue THEN NoValue ELSE ValueOf(e.value, attrs)
               vs == [i \in DOMAIN e.values |-> ValueOf(e.values[i], attrs)]
           IN Applied(e.op, row[e.field], v, vs) = p
    PROVE  /\ Guarded(e, FALSE, attrs, row) = "T" <=> p
           /\ Guarded(e, TRUE, attrs, row) = "T" <=> ~p
<1> DEFINE v == IF e.value = NoValue THEN NoValue ELSE ValueOf(e.value, attrs)
           vs == [i \in DOMAIN e.values |-> ValueOf(e.values[i], attrs)]
<1>1. Applied(e.op, row[e.field], v, vs) = p
  OBVIOUS
<1>2. \A negated \in BOOLEAN : Guarded(e, negated, attrs, row) = Truth(p # negated)
  BY <1>1, GuardedWithValue
<1>3. Guarded(e, FALSE, attrs, row) = Truth(p # FALSE) /\ Guarded(e, TRUE, attrs, row) = Truth(p # TRUE)
  BY <1>2
<1>4. CASE p = TRUE
  BY <1>3, <1>4 DEF Truth
<1>5. CASE p = FALSE
  BY <1>3, <1>5 DEF Truth
<1> QED BY <1>4, <1>5

LEMMA ComparisonAgrees ==
    ASSUME NEW e, e.field \in Key, e.op \in {"==", "!="}, e.value # NoValue, NEW attrs,
           NEW row, Fits(row, e.field), Parses(row, e.field)
    PROVE  LET x == ValueIn(row, e.field)
               y == ValueOf(e.value, attrs)
           IN /\ Guarded(e, FALSE, attrs, row) = "T" <=> x # Unknown /\ Compare(e.op, x, y)
              /\ Guarded(e, TRUE, attrs, row) = "T" <=> x # Unknown /\ ~Compare(e.op, x, y)
<1>1. CASE ValueIn(row, e.field) = Unknown
  BY <1>1, GuardedWithoutValue
<1>2. CASE ValueIn(row, e.field) # Unknown
  <2>1. ValueIn(row, e.field) = row[e.field] /\ row[e.field] \in Typed(FieldOf[e.field].type)
    BY <1>2, ValueInIs
  <2>2. e.op \in Comparison
    BY DEF Comparison
  <2>3. /\ Guarded(e, FALSE, attrs, row) = Truth(Compare(e.op, row[e.field], ValueOf(e.value, attrs)))
        /\ Guarded(e, TRUE, attrs, row) = Truth(Compare(Negation(e.op), row[e.field], ValueOf(e.value, attrs)))
    BY <2>1, <2>2, GuardedWithValue
  <2> QED BY <1>2, <2>1, <2>3 DEF Truth, Compare, Negation
<1> QED BY <1>1, <1>2

LEMMA LeafFields ==
    ASSUME NEW op, NEW k, NEW v, NEW vs
    PROVE  LET e == Leaf(op, k, v, vs)
           IN e.op = op /\ e.field = k /\ e.value = v /\ e.values = vs /\ e.children = <<>>
BY DEF Leaf

LEMMA NodeFields ==
    ASSUME NEW op, NEW children
    PROVE  LET e == Node(op, children)
           IN e.op = op /\ e.field \notin Key /\ e.value = NoValue /\ e.values = <<>> /\ e.children = children
BY FieldAssumption DEF Node

\* A leaf that was not refused has the operator it was given.
LEMMA LeafOfIs ==
    ASSUME NEW op, NEW k, NEW v, NEW vs, LeafOf(op, k, v, vs) # RefusedNode
    PROVE  /\ LeafOf(op, k, v, vs) = Leaf(op, k, v, vs)
           /\ LeafOf(op, k, v, vs).op = op
<1>1. LeafOf(op, k, v, vs) = Leaf(op, k, v, vs)
  BY DEF LeafOf
<1>2. Leaf(op, k, v, vs).op = op
  BY LeafFields
<1> QED BY <1>1, <1>2

\* Every attribute that a node reads is one the caller has.
KnownNode(e, attrs) == Known(e.value, attrs) /\ \A v \in Elements(e.values) : Known(v, attrs)

\* A policy compares strings and booleans for equality, on either side of the operator.
LEMMA ComparingAgrees ==
    ASSUME NEW m, m[1] \in Comparison, m[2] \in SourceOperands, m[3] \in SourceOperands, NEW e,
           e = Comparing(m[1], m[2], m[3]), e # RefusedNode, ValidLeaf(e, FieldOf[e.field].type, "policy"),
           NEW attrs, Known(e.value, attrs), NEW row, Fits(row, e.field), Parses(row, e.field), NEW f
    PROVE  /\ Guarded(e, FALSE, attrs, row) = "T" <=> CelNode(m, f, attrs, row) = "T"
           /\ Guarded(e, TRUE, attrs, row) = "T" <=> CelNode(m, f, attrs, row) = "F"
<1> DEFINE op == m[1]
           a == m[2]
           b == m[3]
           t == FieldOf[e.field].type
           x == CelValue(a, attrs, row)
           y == CelValue(b, attrs, row)
<1>1. CelNode(m, f, attrs, row) = IF Unknown \in {x, y} THEN "N" ELSE Truth(Compare(op, x, y))
  BY DEF CelNode, Comparison, Ordering
<1>2. ASSUME NEW k, NEW v, NEW o \in Comparison, e = Leaf(o, k, v, <<>>), k \in Key, v # RefusedValue
      PROVE  o \in {"==", "!="} /\ e.op = o /\ e.field = k /\ e.value = v
  <2>1. e.op = o /\ e.field = k /\ e.value = v
    BY <1>2 DEF Leaf
  <2>2. t \in Type
    BY <1>2, <2>1, FieldAssumption
  <2>3. o \in InPolicies(t)
    BY <2>1 DEF ValidLeaf, Allowed
  <2> QED BY <2>1, <2>2, <2>3 DEF InPolicies, Type, Comparison, Ordering
<1>3. CASE FieldRef(a) # ""
  <2> DEFINE k == FieldRef(a)
             v == PolicyValue(b, FieldOf[k].type)
  <2>1. k \in Key /\ x = ValueIn(row, k)
    BY <1>3, FieldMeans DEF ValueIn
  <2>2. e = Leaf(op, k, v, <<>>) /\ v # RefusedValue
    BY <1>3 DEF Comparing, LeafOf
  <2>3. op \in {"==", "!="} /\ e.op = op /\ e.field = k /\ e.value = v
    BY <1>2, <2>1, <2>2
  <2>4. v[1] \in {"attr", "literal"} /\ ValueOf(v, attrs) = y /\ y[1] \in {"string", "boolean", "number"}
    BY <2>2, <2>3, OperandMeans
  <2>5. v # NoValue /\ y # Unknown
    BY <2>4, TagsDiffer
  <2>6. /\ Guarded(e, FALSE, attrs, row) = "T" <=> x # Unknown /\ Compare(op, x, y)
        /\ Guarded(e, TRUE, attrs, row) = "T" <=> x # Unknown /\ ~Compare(op, x, y)
    <3> HIDE DEF k, v, x, y
    <3> QED BY <2>1, <2>3, <2>4, <2>5, ComparisonAgrees
  <2> HIDE DEF k, v, x, y
  <2> QED BY <1>1, <2>5, <2>6 DEF Truth
<1>4. CASE FieldRef(a) = ""
  <2> DEFINE k == FieldRef(b)
             v == PolicyValue(a, FieldOf[k].type)
  <2>1. k # "" /\ e = Leaf(Reversed(op), k, v, <<>>) /\ v # RefusedValue
    BY <1>4 DEF Comparing, LeafOf
  <2>2. k \in Key /\ y = ValueIn(row, k)
    BY <2>1, FieldMeans DEF ValueIn
  <2>3. Reversed(op) \in Comparison
    BY DEF Reversed, Comparison, Ordering
  <2>4. Reversed(op) \in {"==", "!="} /\ e.op = Reversed(op) /\ e.field = k /\ e.value = v
    <3> HIDE DEF k, v
    <3> QED BY <1>2, <2>1, <2>2, <2>3
  <2>5. op \in {"==", "!="} /\ e.op = op
    BY <2>4 DEF Reversed, Comparison, Ordering
  <2>6. v[1] \in {"attr", "literal"} /\ ValueOf(v, attrs) = x /\ x[1] \in {"string", "boolean", "number"}
    <3>1. Known(v, attrs) /\ v # RefusedValue
      BY <2>1, <2>4
    <3> HIDE DEF k
    <3> QED BY <3>1, OperandMeans
  <2>7. v # NoValue /\ x # Unknown
    BY <2>6, TagsDiffer
  <2>8. /\ Guarded(e, FALSE, attrs, row) = "T" <=> y # Unknown /\ Compare(op, y, x)
        /\ Guarded(e, TRUE, attrs, row) = "T" <=> y # Unknown /\ ~Compare(op, y, x)
    <3> HIDE DEF k, v, x, y
    <3> QED BY <2>2, <2>4, <2>5, <2>6, <2>7, ComparisonAgrees
  <2>9. Compare(op, y, x) = Compare(op, x, y)
    BY <2>5 DEF Compare
  <2> HIDE DEF k, v, x, y
  <2> QED BY <1>1, <2>7, <2>8, <2>9 DEF Truth
<1> QED BY <1>3, <1>4

\* A list that was not refused is the values of its elements.
LEMMA ListMeans ==
    ASSUME NEW n \in SourceOperands, RefusedValue \notin Elements(ListOf(n, "string")),
           NEW attrs, \A v \in Elements(ListOf(n, "string")) : Known(v, attrs), NEW row
    PROVE  LET vs == [i \in DOMAIN ListOf(n, "string") |-> ValueOf(ListOf(n, "string")[i], attrs)]
           IN /\ n[1] = "list"
              /\ Elements(vs) = {CelValue(y, attrs, row) : y \in Elements(n[2])}
              /\ Unknown \notin Elements(vs)
<1> DEFINE us == ListOf(n, "string")
           vs == [i \in DOMAIN us |-> ValueOf(us[i], attrs)]
<1>1. n[1] = "list"
  <2>1. RefusedValue \in Elements(<<RefusedValue>>)
    BY DEF Elements
  <2> QED BY <2>1 DEF ListOf
<1>2. n[2] \in Seq(SourceOperand)
  BY <1>1, <<"other">>[1] = "other" DEF SourceOperands, SourceOperand
<1>3. us = [i \in DOMAIN n[2] |-> PolicyValue(n[2][i], "string")]
  BY <1>1 DEF ListOf
<1>4. ASSUME NEW i \in DOMAIN n[2]
      PROVE  vs[i] = CelValue(n[2][i], attrs, row) /\ vs[i] # Unknown
  <2>1. n[2][i] \in SourceOperands
    BY <1>2 DEF SourceOperands
  <2>2. us[i] = PolicyValue(n[2][i], "string") /\ us[i] \in Elements(us) /\ DOMAIN us = DOMAIN n[2]
    BY <1>3 DEF Elements
  <2>3. PolicyValue(n[2][i], "string") # RefusedValue /\ Known(PolicyValue(n[2][i], "string"), attrs)
    BY <2>2
  <2>4. /\ ValueOf(PolicyValue(n[2][i], "string"), attrs) = CelValue(n[2][i], attrs, row)
        /\ CelValue(n[2][i], attrs, row)[1] \in {"string", "boolean", "number"}
    BY <2>1, <2>3, OperandMeans
  <2> QED BY <2>2, <2>4, TagsDiffer
<1>5. DOMAIN vs = DOMAIN n[2]
  BY <1>3
<1>6. Elements(vs) = {CelValue(y, attrs, row) : y \in Elements(n[2])}
  <2>1. Elements(vs) = {vs[i] : i \in DOMAIN n[2]}
    BY <1>5 DEF Elements
  <2>2. {vs[i] : i \in DOMAIN n[2]} = {CelValue(n[2][i], attrs, row) : i \in DOMAIN n[2]}
    <3> HIDE DEF vs
    <3> QED BY <1>4
  <2> HIDE DEF vs
  <2> QED BY <2>1, <2>2 DEF Elements
<1>7. Unknown \notin Elements(vs)
  <2> HIDE DEF vs
  <2> QED BY <1>4, <1>5 DEF Elements
<1> QED BY <1>1, <1>6, <1>7

\* A string in a list, or a string in an array.
LEMMA MembershipAgrees ==
    ASSUME NEW m, m[1] = "in", m[2] \in SourceOperands, m[3] \in SourceOperands, NEW e,
           e = Membership(m[2], m[3]), e # RefusedNode, NEW attrs, KnownNode(e, attrs),
           NEW row, Fits(row, e.field), Parses(row, e.field), NEW f
    PROVE  /\ e.op = "in"
           /\ Guarded(e, FALSE, attrs, row) = "T" <=> CelNode(m, f, attrs, row) = "T"
           /\ Guarded(e, TRUE, attrs, row) = "T" <=> CelNode(m, f, attrs, row) = "F"
<1> DEFINE a == m[2]
           b == m[3]
           x == ValueIn(row, e.field)
           cel == CelNode(m, f, attrs, row)
           vs == [i \in DOMAIN e.values |-> ValueOf(e.values[i], attrs)]
           w == IF e.value = NoValue THEN NoValue ELSE ValueOf(e.value, attrs)
<1> USE DEF KnownNode
<1>1. cel = CelIn(a, b, attrs, row)
  BY DEF CelNode, Comparison, Ordering
<1>2. "in" \notin Comparison
  BY DEF Comparison, Ordering
<1>3. CASE FieldRef(a) # ""
  <2> DEFINE us == ListOf(b, "string")
  <2>1. /\ e = Leaf("in", FieldRef(a), NoValue, us) /\ RefusedValue \notin Elements(us)
        /\ FieldOf[FieldRef(a)].type = "string"
    BY <1>3 DEF Membership, LeafOf
  <2>2. e.op = "in" /\ e.field = FieldRef(a) /\ e.values = us
    BY <2>1 DEF Leaf
  <2>3. e.field \in Key /\ x = CelValue(a, attrs, row)
    BY <1>3, <2>2, FieldMeans DEF ValueIn
  <2>4. b[1] = "list" /\ Elements(vs) = {CelValue(y, attrs, row) : y \in Elements(b[2])} /\ Unknown \notin Elements(vs)
    BY <2>1, <2>2, ListMeans
  <2>5. cel = IF x = Unknown THEN "N" ELSE Truth(x \in Elements(vs))
    <3> HIDE DEF x, cel, vs
    <3> QED BY <1>1, <2>3, <2>4 DEF CelIn
  <2>6. CASE x = Unknown
    <3> HIDE DEF vs
    <3> QED BY <2>2, <2>3, <2>5, <2>6, GuardedWithoutValue
  <2>7. CASE x # Unknown
    <3>1. x = row[e.field] /\ row[e.field] \in Typed(FieldOf[e.field].type)
      BY <2>3, <2>7, ValueInIs
    <3>2. x[1] # "string_array"
      BY <2>1, <2>2, <3>1, TypedTag DEF Type
    <3>3. Applied("in", x, w, vs) = (x \in Elements(vs))
      <4> HIDE DEF x, w, vs
      <4> QED BY <1>2, <3>2 DEF Applied
    <3>4. /\ Guarded(e, FALSE, attrs, row) = "T" <=> x \in Elements(vs)
          /\ Guarded(e, TRUE, attrs, row) = "T" <=> x \notin Elements(vs)
      <4>1. (x \in Elements(vs)) \in BOOLEAN /\ e.op \notin Comparison
        BY <1>2, <2>2
      <4>2. Applied(e.op, row[e.field], w, vs) = (x \in Elements(vs))
        BY <2>2, <3>1, <3>3
      <4> QED BY <2>3, <3>1, <4>1, <4>2, GuardedApplied
    <3> HIDE DEF x, vs
    <3> QED BY <2>2, <2>5, <2>7, <3>4 DEF Truth
  <2> QED BY <2>6, <2>7
<1>4. CASE FieldRef(a) = ""
  <2> DEFINE v == PolicyValue(a, "string")
             y == CelValue(a, attrs, row)
  <2>1. /\ e = Leaf("in", FieldRef(b), v, <<>>) /\ v # RefusedValue
        /\ FieldRef(b) # "" /\ FieldOf[FieldRef(b)].type = "string_array"
    BY <1>4 DEF Membership, LeafOf
  <2>2. e.op = "in" /\ e.field = FieldRef(b) /\ e.value = v
    <3> DEFINE l == Leaf("in", FieldRef(b), v, <<>>)
    <3>1. l.op = "in" /\ l.field = FieldRef(b) /\ l.value = v
      BY LeafFields
    <3> HIDE DEF l
    <3>2. e = l
      BY <2>1 DEF l
    <3> QED BY <3>1, <3>2
  <2>3. e.field \in Key /\ x = CelValue(b, attrs, row)
    BY <2>1, <2>2, FieldMeans DEF ValueIn
  <2>4. v[1] \in {"attr", "literal"} /\ ValueOf(v, attrs) = y /\ y[1] \in {"string", "boolean", "number"}
    <3>1. Known(v, attrs)
      BY <2>2
    <3>2. v # RefusedValue
      BY <2>1
    <3> QED BY <3>1, <3>2, OperandMeans
  <2>5. y # Unknown /\ w = y
    BY <2>2, <2>4, TagsDiffer
  <2>6. \/ y = <<"string", y[2]>>
        \/ a[1] = "attr" /\ y = <<"string", attrs[a[2]]>>
    <3>1. a[1] \in {"attr", "literal"} /\ (a[1] = "literal" => a[2][1] = "string")
      <4>1. Known(v, attrs)
        BY <2>2
      <4>2. v # RefusedValue
        BY <2>1
      <4> HIDE DEF x, y, vs, w, cel
      <4> QED BY <4>1, <4>2, OperandMeans
    <3>2. CASE a[1] = "attr"
      BY <2>4, <3>2, TagsDiffer DEF CelValue, PolicyValue, ValueOf
    <3>3. CASE a[1] = "literal"
      <4>1. a[2] \in Literals
        BY <3>3, <<"other">>[1] = "other" DEF SourceOperands, SourceOperand
      <4>2. a[2] = <<"string", a[2][2]>>
        BY <3>1, <3>3, <4>1 DEF Literals, Typed
      <4>3. y = a[2]
        BY <3>3 DEF CelValue
      <4> HIDE DEF y
      <4> QED BY <4>2, <4>3
    <3> QED BY <3>1, <3>2, <3>3
  <2>7. y = <<"string", y[2]>>
    BY <2>6
  <2>8. b[1] # "list"
    BY <2>1 DEF FieldRef
  <2>9. cel = IF x = Unknown THEN "N" ELSE Truth(y[2] \in x[2])
    <3>1. CASE x = Unknown
      <4> HIDE DEF x, y, cel
      <4> QED BY <1>1, <2>3, <2>8, <3>1 DEF CelIn
    <3>2. CASE x # Unknown
      <4> DEFINE ys == {<<"string", s>> : s \in x[2]}
      <4>1. Unknown \notin ys
        <5>1. \A s : <<"string", s>>[1] = "string"
          OBVIOUS
        <5> QED BY <5>1, TagsDiffer
      <4>2. y \in ys <=> y[2] \in x[2]
        <5>1. \A s : <<"string", s>>[2] = s
          OBVIOUS
        <5> HIDE DEF y, x
        <5> QED BY <2>7, <5>1
      <4>3. cel = IF Unknown \in {y} \cup ys THEN "N" ELSE Truth(y \in ys)
        <5> HIDE DEF x
        <5> QED BY <1>1, <2>3, <2>8, <3>2 DEF CelIn
      <4> HIDE DEF x, y, ys, cel
      <4> QED BY <2>5, <3>2, <4>1, <4>2, <4>3 DEF Truth
    <3> QED BY <3>1, <3>2
  <2>10. CASE x = Unknown
    <3> HIDE DEF vs, y
    <3> QED BY <2>2, <2>3, <2>9, <2>10, GuardedWithoutValue
  <2>11. CASE x # Unknown
    <3>1. x = row[e.field] /\ row[e.field] \in Typed(FieldOf[e.field].type)
      BY <2>3, <2>11, ValueInIs
    <3>2. x[1] = "string_array"
      BY <2>1, <2>2, <3>1, TypedTag DEF Type
    <3>3. Applied("in", x, w, vs) = (y[2] \in x[2])
      <4> HIDE DEF x, w, vs, y
      <4> QED BY <1>2, <2>5, <3>2 DEF Applied
    <3>4. /\ Guarded(e, FALSE, attrs, row) = "T" <=> y[2] \in x[2]
          /\ Guarded(e, TRUE, attrs, row) = "T" <=> y[2] \notin x[2]
      <4>1. (y[2] \in x[2]) \in BOOLEAN /\ e.op \notin Comparison
        BY <1>2, <2>2
      <4>2. Applied(e.op, row[e.field], w, vs) = (y[2] \in x[2])
        BY <2>2, <3>1, <3>3
      <4> QED BY <2>3, <3>1, <4>1, <4>2, GuardedApplied
    <3> HIDE DEF x, vs, y
    <3> QED BY <2>2, <2>9, <2>11, <3>4 DEF Truth
  <2> QED BY <2>10, <2>11
<1> QED BY <1>3, <1>4

\* What only a filter may ask is refused in a policy.
LEMMA OnlyFiltersMay ==
    ASSUME NEW n \in SourceOperands, NEW op \in {"exists", "startsWith", "between", "hasAny", "hasAll"}, NEW v, NEW vs,
           NEW e, e = LeafOf(op, FieldRef(n), v, vs), e # RefusedNode
    PROVE  ~ValidNode(e, "policy")
<1>1. FieldRef(n) # "" /\ e = Leaf(op, FieldRef(n), v, vs)
  BY DEF LeafOf
<1>2. e.op = op /\ e.field = FieldRef(n)
  <2> DEFINE l == Leaf(op, FieldRef(n), v, vs)
  <2>1. l.op = op /\ l.field = FieldRef(n)
    BY LeafFields
  <2> HIDE DEF l
  <2>2. e = l
    BY <1>1 DEF l
  <2> QED BY <2>1, <2>2
<1>3. FieldRef(n) \in Key
  BY <1>1, FieldMeans
<1>4. FieldOf[e.field].type \in Type
  BY <1>2, <1>3, FieldAssumption
<1>5. e.op \notin InPolicies(FieldOf[e.field].type)
  BY <1>2, <1>4 DEF InPolicies, Type
<1> QED BY <1>2, <1>5 DEF ValidNode, ValidLeaf, Allowed, TypeOf, Connective

LEMMA LeafAgrees ==
    ASSUME NEW m \in SourceNode, m[1] \notin Connective \cup {"true", "false"}, NEW e,
           e = Convert(m), e # RefusedNode, ValidNode(e, "policy"), NEW attrs, KnownNode(e, attrs),
           NEW row, Fits(row, e.field), Parses(row, e.field), NEW f
    PROVE  /\ m[1] \in Comparison \cup {"in"}
           /\ e.op \notin Connective \cup {"true", "false", "exists"}
           /\ Guarded(e, FALSE, attrs, row) = "T" <=> CelNode(m, f, attrs, row) = "T"
           /\ Guarded(e, TRUE, attrs, row) = "T" <=> CelNode(m, f, attrs, row) = "F"
<1>1. CASE m \in (Comparison \cup {"in"}) \X SourceOperands \X SourceOperands
  <2>1. m[1] \in Comparison \cup {"in"} /\ m[2] \in SourceOperands /\ m[3] \in SourceOperands
    BY <1>1
  <2>2. CASE m[1] \in Comparison
    <3>1. e = Comparing(m[1], m[2], m[3])
      BY <2>2 DEF Convert, Comparison, Ordering, Connective
    <3>2. e.op \in Comparison
      <4>1. Reversed(m[1]) \in Comparison
        BY <2>2 DEF Reversed, Comparison, Ordering
      <4>2. PICK o \in Comparison : \E k, v : e = LeafOf(o, k, v, <<>>)
        BY <2>2, <3>1, <4>1 DEF Comparing
      <4>3. PICK k, v : e = LeafOf(o, k, v, <<>>)
        BY <4>2
      <4>4. LeafOf(o, k, v, <<>>).op = o
        BY <4>3, LeafOfIs
      <4> QED BY <4>3, <4>4
    <3>3. ValidLeaf(e, FieldOf[e.field].type, "policy") /\ e.op \notin Connective \cup {"true", "false", "exists"}
      BY <3>2 DEF ValidNode, TypeOf, Comparison, Ordering, Connective
    <3>4. Known(e.value, attrs)
      BY DEF KnownNode
    <3>5. /\ Guarded(e, FALSE, attrs, row) = "T" <=> CelNode(m, f, attrs, row) = "T"
          /\ Guarded(e, TRUE, attrs, row) = "T" <=> CelNode(m, f, attrs, row) = "F"
      BY <2>1, <2>2, <3>1, <3>3, <3>4, ComparingAgrees, ZenonT(60)
    <3> QED BY <2>2, <3>3, <3>5
  <2>3. CASE m[1] = "in"
    <3>1. e = Membership(m[2], m[3])
      BY <2>3 DEF Convert, Comparison, Ordering, Connective
    <3>2. /\ e.op = "in"
          /\ Guarded(e, FALSE, attrs, row) = "T" <=> CelNode(m, f, attrs, row) = "T"
          /\ Guarded(e, TRUE, attrs, row) = "T" <=> CelNode(m, f, attrs, row) = "F"
      BY <2>1, <2>3, <3>1, MembershipAgrees, ZenonT(60)
    <3> QED BY <2>3, <3>2 DEF Connective
  <2> QED BY <2>1, <2>2, <2>3
<1>2. CASE m \in {"exists"} \X SourceOperands
  <2>1. m[1] = "exists" /\ m[2] \in SourceOperands
    BY <1>2
  <2>2. e = LeafOf("exists", FieldRef(m[2]), NoValue, <<>>)
    BY <2>1 DEF Convert, Comparison, Ordering, Connective
  <2> QED BY <2>1, <2>2, OnlyFiltersMay
<1>3. CASE m \in {"member"} \X {"startsWith", "between", "hasAny", "hasAll"} \X SourceOperands \X Seq(SourceOperands)
  <2>1. m[1] = "member" /\ m[2] \in {"startsWith", "between", "hasAny", "hasAll"} /\ m[3] \in SourceOperands
    BY <1>3
  <2>2. e = Member(m[2], m[3], m[4])
    BY <2>1 DEF Convert, Comparison, Ordering, Connective
  <2>3. \E v, vs : e = LeafOf(m[2], FieldRef(m[3]), v, vs)
    BY <2>1, <2>2 DEF Member
  <2> QED BY <2>1, <2>3, OnlyFiltersMay
<1>4. CASE m \in {<<"true">>, <<"false">>} \cup (Connective \X Seq(Nat))
  <2>1. <<"true">>[1] = "true" /\ <<"false">>[1] = "false"
    OBVIOUS
  <2> QED BY <1>4, <2>1
<1> QED BY <1>1, <1>2, <1>3, <1>4 DEF SourceNode

-----------------------------------------------------------------------------
(* Trees of policies.                                                      *)

\* A source that was not refused.
Compiled(source) == IsSource(source) /\ Compile(source) # Refused

LEMMA CompiledIs ==
    ASSUME NEW source, Compiled(source)
    PROVE  /\ Compile(source) = Converted(source)
           /\ Converted(source).root = source.root
           /\ Converted(source).node = [n \in DOMAIN source.node |-> Convert(source.node[n])]
           /\ \A n \in DOMAIN source.node :
                  Convert(source.node[n]) # RefusedNode /\ ValidNode(Convert(source.node[n]), "policy")
<1>1. /\ Converted(source).root = source.root
      /\ Converted(source).node = [n \in DOMAIN source.node |-> Convert(source.node[n])]
  BY DEF Converted
<1>2. /\ RefusedNode \notin {Converted(source).node[n] : n \in DOMAIN Converted(source).node}
      /\ Validate(Converted(source), "policy") /\ Compile(source) = Converted(source)
  BY DEF Compiled, Compile
<1> QED BY <1>1, <1>2 DEF Validate

\* A node of a source, when it is converted.
LEMMA ConnectiveIs ==
    ASSUME NEW m \in SourceNode, NEW e, e = Convert(m), e # RefusedNode, ValidNode(e, "policy")
    PROVE  /\ m[1] \in {"true", "false"} => e.op = m[1] /\ e.field \notin Key
           /\ m[1] \in Connective => e.op = m[1] /\ e.field \notin Key /\ e.children = m[2] /\ m[2] \in Seq(Nat)
           /\ m[1] = "not" => Len(m[2]) = 1
<1>1. CASE m[1] \in {"true", "false"}
  <2>1. e = Node(m[1], <<>>)
    BY <1>1 DEF Convert, Connective, Comparison, Ordering
  <2> QED BY <1>1, <2>1, NodeFields DEF Connective
<1>2. CASE m[1] \in Connective
  <2>1. e = Node(m[1], m[2])
    BY <1>2 DEF Convert, Connective, Comparison, Ordering
  <2>2. e.op = m[1] /\ e.field \notin Key /\ e.children = m[2]
    <3> DEFINE l == Node(m[1], m[2])
    <3>1. l.op = m[1] /\ l.field \notin Key /\ l.children = m[2]
      BY NodeFields
    <3> HIDE DEF l
    <3>2. e = l
      BY <2>1 DEF l
    <3> QED BY <3>1, <3>2
  <2>3. m[2] \in Seq(Nat)
    <3>1. <<"true">>[1] = "true" /\ <<"false">>[1] = "false"
      OBVIOUS
    <3> QED BY <1>2, <3>1 DEF SourceNode, Connective, Comparison, Ordering
  <2> QED BY <1>2, <2>2, <2>3 DEF ValidNode, Connective
<1> QED BY <1>1, <1>2 DEF Connective

\* A leaf is not converted to a connective.
LEMMA LeafOperator ==
    ASSUME NEW m \in SourceNode, m[1] \notin Connective \cup {"true", "false"}, Convert(m) # RefusedNode
    PROVE  Convert(m).op \notin Connective \cup {"true", "false"} /\ Convert(m).field \in Key
<1> DEFINE Op == Comparison \cup {"in", "exists", "startsWith", "between", "hasAny", "hasAll"}
<1>1. ASSUME NEW o \in Op, NEW n \in SourceOperands, NEW v, NEW vs, Convert(m) = LeafOf(o, FieldRef(n), v, vs)
      PROVE  Convert(m).op \in Op /\ Convert(m).field \in Key
  <2> DEFINE k == FieldRef(n)
             l == Leaf(o, k, v, vs)
  <2>1. Convert(m) = l /\ k # ""
    BY <1>1 DEF LeafOf
  <2>2. l.op = o /\ l.field = k
    BY LeafFields
  <2>3. k \in Key
    BY <2>1, FieldMeans
  <2> HIDE DEF l, k, Op
  <2> QED BY <2>1, <2>2, <2>3
<1>2. \E o \in Op, n \in SourceOperands : \E v, vs : Convert(m) = LeafOf(o, FieldRef(n), v, vs)
  <2>1. CASE m \in (Comparison \cup {"in"}) \X SourceOperands \X SourceOperands
    <3>1. m[1] \in Comparison \cup {"in"} /\ m[2] \in SourceOperands /\ m[3] \in SourceOperands
      BY <2>1
    <3>2. CASE m[1] \in Comparison
      <4>1. Convert(m) = Comparing(m[1], m[2], m[3])
        BY <3>2 DEF Convert, Comparison, Ordering, Connective
      <4>2. m[1] \in Op /\ Reversed(m[1]) \in Op
        BY <3>2 DEF Reversed, Comparison, Ordering
      <4> HIDE DEF Op
      <4> QED BY <3>1, <4>1, <4>2 DEF Comparing
    <3>3. CASE m[1] = "in"
      <4>1. Convert(m) = Membership(m[2], m[3])
        BY <3>3 DEF Convert, Comparison, Ordering, Connective
      <4>2. "in" \in Op
        OBVIOUS
      <4> HIDE DEF Op
      <4> QED BY <3>1, <4>1, <4>2 DEF Membership
    <3> QED BY <3>1, <3>2, <3>3
  <2>2. CASE m \in {"exists"} \X SourceOperands
    <3>1. m[1] = "exists" /\ m[2] \in SourceOperands /\ "exists" \in Op
      BY <2>2
    <3>2. Convert(m) = LeafOf("exists", FieldRef(m[2]), NoValue, <<>>)
      BY <3>1 DEF Convert, Comparison, Ordering, Connective
    <3> HIDE DEF Op
    <3> QED BY <3>1, <3>2
  <2>3. CASE m \in {"member"} \X {"startsWith", "between", "hasAny", "hasAll"} \X SourceOperands \X Seq(SourceOperands)
    <3>1. m[1] = "member" /\ m[2] \in {"startsWith", "between", "hasAny", "hasAll"} /\ m[3] \in SourceOperands
      BY <2>3
    <3>2. Convert(m) = Member(m[2], m[3], m[4])
      BY <3>1 DEF Convert, Comparison, Ordering, Connective
    <3>3. \E v, vs : Convert(m) = LeafOf(m[2], FieldRef(m[3]), v, vs)
      BY <3>1, <3>2 DEF Member
    <3>4. m[2] \in Op
      BY <3>1
    <3> HIDE DEF Op
    <3> QED BY <3>1, <3>3, <3>4
  <2>4. CASE m \in {<<"true">>, <<"false">>} \cup (Connective \X Seq(Nat))
    <3>1. <<"true">>[1] = "true" /\ <<"false">>[1] = "false"
      OBVIOUS
    <3> QED BY <2>4, <3>1
  <2> QED BY <2>1, <2>2, <2>3, <2>4 DEF SourceNode
<1>3. Convert(m).op \in Op /\ Convert(m).field \in Key
  <2> HIDE DEF Op
  <2> QED BY <1>1, <1>2
<1> QED BY <1>3 DEF Comparison, Ordering, Connective

\* What is emitted for a node, operator by operator.
LEMMA EmitNot ==
    ASSUME NEW e, e.op = "not", NEW sql, NEW attrs, NEW row
    PROVE  /\ EmitNode(e, FALSE, sql, attrs, row) = sql[e.children[1]][TRUE]
           /\ EmitNode(e, TRUE, sql, attrs, row) = sql[e.children[1]][FALSE]
<1>1. ~FALSE = TRUE /\ ~TRUE = FALSE
  OBVIOUS
<1> QED BY <1>1 DEF EmitNode

LEMMA EmitLeaf ==
    ASSUME NEW e, e.op \notin Connective \cup {"true", "false", "exists"}, NEW sql, NEW negated, NEW attrs, NEW row
    PROVE  EmitNode(e, negated, sql, attrs, row) = Guarded(e, negated, attrs, row)
BY DEF EmitNode, Connective

LEMMA CelConstant ==
    ASSUME NEW m, m[1] \in {"true", "false"}, NEW cel, NEW attrs, NEW row
    PROVE  CelNode(m, cel, attrs, row) = IF m[1] = "true" THEN "T" ELSE "F"
BY DEF CelNode, Truth, Comparison, Ordering

LEMMA CelConnective ==
    ASSUME NEW m, NEW cel, NEW attrs, NEW row
    PROVE  /\ m[1] = "and" => CelNode(m, cel, attrs, row) = Conj({cel[o] : o \in Elements(m[2])})
           /\ m[1] = "or" => CelNode(m, cel, attrs, row) = Disj({cel[o] : o \in Elements(m[2])})
           /\ m[1] = "not" => CelNode(m, cel, attrs, row) = Flip(cel[m[2][1]])
BY DEF CelNode, Comparison, Ordering

LEMMA ConjAndDisj ==
    ASSUME NEW S, S \subseteq Truths
    PROVE  /\ Conj(S) = "T" <=> S \subseteq {"T"}
           /\ Conj(S) = "F" <=> "F" \in S
           /\ Disj(S) = "T" <=> "T" \in S
           /\ Disj(S) = "F" <=> S \subseteq {"F"}
<1>1. \A R \in SUBSET Truths : (Conj(R) = "T" <=> R \subseteq {"T"}) /\ (Conj(R) = "F" <=> "F" \in R)
  BY DEF Conj, Truths
<1> DEFINE flipped == {Flip(t) : t \in S}
<1>2. flipped \in SUBSET Truths
  BY TruthsClosed
<1>3. ("F" \in flipped <=> "T" \in S) /\ (flipped \subseteq {"T"} <=> S \subseteq {"F"})
  BY DEF Flip, Truths
<1>4. Disj(S) = Flip(Conj(flipped)) /\ Conj(flipped) \in Truths
  BY TruthsClosed DEF Disj
<1>5. (Disj(S) = "T" <=> Conj(flipped) = "F") /\ (Disj(S) = "F" <=> Conj(flipped) = "T")
  <2> HIDE DEF flipped
  <2> QED BY <1>4 DEF Flip, Truths
<1>6. (Conj(flipped) = "T" <=> flipped \subseteq {"T"}) /\ (Conj(flipped) = "F" <=> "F" \in flipped)
  <2> HIDE DEF flipped
  <2> QED BY <1>1, <1>2
<1> HIDE DEF flipped
<1> QED BY <1>1, <1>3, <1>5, <1>6

\* What is emitted for a node and for its negation, and what CEL says of it.
Agree(yes, no, cel) ==
    /\ {yes, no, cel} \subseteq Truths
    /\ yes = "T" <=> cel = "T"
    /\ no = "T" <=> cel = "F"

\* A node agrees if its children do.
LEMMA NodeAgrees ==
    ASSUME NEW D, NEW n, NEW m \in SourceNode, NEW e, e = Convert(m), e # RefusedNode, ValidNode(e, "policy"),
           Ranked(D, n, m[1], m[2]), Ranked(D, n, e.op, e.children), NEW attrs, KnownNode(e, attrs), NEW row,
           e.field \in Key => Fits(row, e.field) /\ Parses(row, e.field),
           e.op \notin Connective \cup {"true", "false"} => e.field \in Key,
           NEW sql, NEW cel, \A o \in D : o < n => Agree(sql[o][FALSE], sql[o][TRUE], cel[o])
    PROVE  Agree(EmitNode(e, FALSE, sql, attrs, row), EmitNode(e, TRUE, sql, attrs, row), CelNode(m, cel, attrs, row))
<1> DEFINE yes == {sql[o][FALSE] : o \in Elements(e.children)}
           no == {sql[o][TRUE] : o \in Elements(e.children)}
           cels == {cel[o] : o \in Elements(m[2])}
<1>1. CASE m[1] \in {"true", "false"}
  <2>1. e.op = m[1]
    BY <1>1, ConnectiveIs
  <2>2. CelNode(m, cel, attrs, row) = IF m[1] = "true" THEN "T" ELSE "F"
    BY <1>1, CelConstant
  <2>3. /\ EmitNode(e, FALSE, sql, attrs, row) = IF m[1] = "true" THEN "T" ELSE "F"
        /\ EmitNode(e, TRUE, sql, attrs, row) = IF m[1] = "true" THEN "F" ELSE "T"
    <3>1. e.op \in {"true", "false"}
      BY <1>1, <2>1
    <3>2. /\ EmitNode(e, FALSE, sql, attrs, row) = IF e.op = "true" THEN "T" ELSE "F"
          /\ EmitNode(e, TRUE, sql, attrs, row) = IF e.op = "true" THEN "F" ELSE "T"
      BY <3>1 DEF EmitNode, Truth
    <3> QED BY <2>1, <3>2
  <2> QED BY <2>2, <2>3 DEF Agree, Truths
<1>2. CASE m[1] \in {"and", "or"}
  <2>1. e.op = m[1] /\ e.children = m[2]
    BY <1>2, ConnectiveIs DEF Connective
  <2>2. \A o \in Elements(m[2]) : Agree(sql[o][FALSE], sql[o][TRUE], cel[o])
    BY <1>2 DEF Ranked
  <2>3. /\ "F" \in cels <=> \E o \in Elements(m[2]) : sql[o][TRUE] = "T"
        /\ "T" \in cels <=> \E o \in Elements(m[2]) : sql[o][FALSE] = "T"
        /\ cels \subseteq {"T"} <=> \A o \in Elements(m[2]) : sql[o][FALSE] = "T"
        /\ cels \subseteq {"F"} <=> \A o \in Elements(m[2]) : sql[o][TRUE] = "T"
    BY <2>2 DEF Agree, Truths
  <2>4. yes \subseteq Truths /\ no \subseteq Truths /\ cels \subseteq Truths
    BY <2>1, <2>2 DEF Agree
  <2>5. /\ "F" \in cels <=> "T" \in no
        /\ "T" \in cels <=> "T" \in yes
        /\ cels \subseteq {"T"} <=> yes \subseteq {"T"}
        /\ cels \subseteq {"F"} <=> no \subseteq {"T"}
    BY <2>1, <2>3
  <2>6. CASE m[1] = "and"
    <3>1. /\ EmitNode(e, FALSE, sql, attrs, row) = Conj(yes)
          /\ EmitNode(e, TRUE, sql, attrs, row) = Disj(no)
      BY <2>1, <2>6 DEF EmitNode
    <3>2. CelNode(m, cel, attrs, row) = Conj(cels)
      BY <2>6, CelConnective
    <3>3. Agree(Conj(yes), Disj(no), Conj(cels))
      <4> HIDE DEF yes, no, cels
      <4>1. {Conj(yes), Disj(no), Conj(cels)} \subseteq Truths
        BY TruthsClosed
      <4>2. (Conj(yes) = "T" <=> Conj(cels) = "T") /\ (Disj(no) = "T" <=> Conj(cels) = "F")
        BY <2>4, <2>5, ConjAndDisj
      <4> QED BY <4>1, <4>2 DEF Agree
    <3> QED BY <3>1, <3>2, <3>3
  <2>7. CASE m[1] = "or"
    <3>1. /\ EmitNode(e, FALSE, sql, attrs, row) = Disj(yes)
          /\ EmitNode(e, TRUE, sql, attrs, row) = Conj(no)
      BY <2>1, <2>7 DEF EmitNode
    <3>2. CelNode(m, cel, attrs, row) = Disj(cels)
      BY <2>7 DEF CelNode, Comparison, Ordering
    <3>3. Agree(Disj(yes), Conj(no), Disj(cels))
      <4> HIDE DEF yes, no, cels
      <4>1. {Disj(yes), Conj(no), Disj(cels)} \subseteq Truths
        BY TruthsClosed
      <4>2. (Disj(yes) = "T" <=> Disj(cels) = "T") /\ (Conj(no) = "T" <=> Disj(cels) = "F")
        BY <2>4, <2>5, ConjAndDisj
      <4> QED BY <4>1, <4>2 DEF Agree
    <3> QED BY <3>1, <3>2, <3>3
  <2> QED BY <1>2, <2>6, <2>7
<1>3. CASE m[1] = "not"
  <2> DEFINE c == m[2][1]
  <2>1. e.op = "not" /\ e.children = m[2]
    BY <1>3, ConnectiveIs DEF Connective
  <2>2. c \in D /\ c < n
    BY <1>3 DEF Ranked
  <2>3. Agree(sql[c][FALSE], sql[c][TRUE], cel[c])
    BY <2>2
  <2>4. /\ EmitNode(e, FALSE, sql, attrs, row) = sql[c][TRUE]
        /\ EmitNode(e, TRUE, sql, attrs, row) = sql[c][FALSE]
    BY <2>1, EmitNot
  <2>5. CelNode(m, cel, attrs, row) = Flip(cel[c])
    BY <1>3, CelConnective
  <2> QED BY <2>3, <2>4, <2>5 DEF Agree, Flip, Truths
<1>4. CASE m[1] \notin Connective \cup {"true", "false"}
  <2>1. e.op \notin Connective \cup {"true", "false"}
    BY <1>4, LeafOperator
  <2>2. Fits(row, e.field) /\ Parses(row, e.field)
    BY <2>1
  <2>3. /\ m[1] \in Meaningful
        /\ e.op \notin Connective \cup {"true", "false", "exists"}
        /\ Guarded(e, FALSE, attrs, row) = "T" <=> CelNode(m, cel, attrs, row) = "T"
        /\ Guarded(e, TRUE, attrs, row) = "T" <=> CelNode(m, cel, attrs, row) = "F"
    BY <1>4, <2>2, LeafAgrees DEF Meaningful
  <2>4. /\ EmitNode(e, FALSE, sql, attrs, row) = Guarded(e, FALSE, attrs, row)
        /\ EmitNode(e, TRUE, sql, attrs, row) = Guarded(e, TRUE, attrs, row)
    BY <2>3 DEF EmitNode, Connective
  <2>5. /\ Guarded(e, FALSE, attrs, row) \in Truths
        /\ Guarded(e, TRUE, attrs, row) \in Truths
        /\ CelNode(m, cel, attrs, row) \in Truths
    BY <2>3, GuardedTyped, CelNodeTyped
  <2>6. Agree(Guarded(e, FALSE, attrs, row), Guarded(e, TRUE, attrs, row), CelNode(m, cel, attrs, row))
    BY <2>3, <2>5 DEF Agree
  <2> QED BY <2>4, <2>6
<1> QED BY <1>1, <1>2, <1>3, <1>4 DEF Connective

\* The children of a node of a source are nodes with smaller numbers.
LEMMA SourceRanked ==
    ASSUME NEW source, IsSource(source), NEW n \in DOMAIN source.node,
           source.node[n][1] = "not" => Len(source.node[n][2]) = 1
    PROVE  Ranked(DOMAIN source.node, n, source.node[n][1], source.node[n][2]) /\ DOMAIN source.node \subseteq Nat
<1> DEFINE D == DOMAIN source.node
           m == source.node[n]
<1>1. DOMAIN SourceChildren(source) = D /\ D \subseteq Nat
  BY DEF SourceChildren, IsSource, IsTree
<1>2. CASE m[1] \in Connective
  <2>1. SourceChildren(source)[n] = m[2]
    BY <1>2 DEF SourceChildren
  <2>2. m[2] \in Seq(Nat) /\ Elements(m[2]) \subseteq {o \in D : o < n}
    BY <1>1, <2>1 DEF IsSource, IsTree
  <2>3. m[1] = "not" => m[2][1] \in Elements(m[2])
    BY <2>2 DEF Elements
  <2> QED BY <1>1, <2>2, <2>3 DEF Ranked
<1>3. CASE m[1] \notin Connective
  BY <1>1, <1>3 DEF Ranked, Connective
<1> QED BY <1>2, <1>3

\* For the rows that have what their fields may have, the SQL of a policy holds
\* exactly if CEL says true of it: by induction on the numbers of the nodes, of
\* the emitted node and its negation at once.
THEOREM PolicyAgrees ==
    ASSUME NEW source, Compiled(source), NEW attrs, Satisfiable(Compile(source), attrs), NEW row,
           \A k \in FieldsIn(Compile(source)) : Fits(row, k) /\ Parses(row, k)
    PROVE  Holds(Compile(source), attrs, row) <=> Cel(source, attrs, row) = "T"
<1> DEFINE D == DOMAIN source.node
           M(n) == source.node[n]
           E(n) == Convert(M(n))
           e == Compile(source)
           sql == Emit(e, attrs, row)
           cel == CelTruths(source, attrs, row)
           Agrees(n) == Agree(sql[n][FALSE], sql[n][TRUE], cel[n])
<1>1. /\ e.root = source.root /\ e.node = [n \in D |-> E(n)]
      /\ \A n \in D : E(n) # RefusedNode /\ ValidNode(E(n), "policy")
  BY CompiledIs
<1>2. IsSource(source) /\ source.root \in D /\ \A n \in D : M(n) \in SourceNode
  BY DEF Compiled, IsSource, IsTree, SourceChildren
<1>3. ASSUME NEW n \in D
      PROVE  /\ KnownNode(E(n), attrs)
             /\ E(n).field \in Key => Fits(row, E(n).field) /\ Parses(row, E(n).field)
  <2>1. n \in DOMAIN e.node /\ e.node[n] = E(n)
    BY <1>1
  <2>2. KnownNode(E(n), attrs)
    <3>1. Satisfiable(e, attrs)
      OBVIOUS
    <3> HIDE DEF E, e
    <3> QED BY <2>1, <3>1 DEF Satisfiable, KnownNode
  <2>3. E(n).field \in Key => E(n).field \in FieldsIn(e)
    <3> HIDE DEF E, e
    <3> QED BY <2>1, FieldAssumption DEF FieldsIn
  <2> HIDE DEF E
  <2> QED BY <2>2, <2>3
<1>4. ASSUME NEW n \in D
      PROVE  /\ M(n)[1] \in Meaningful
             /\ Ranked(D, n, M(n)[1], M(n)[2])
             /\ Ranked(D, n, E(n).op, E(n).children)
             /\ E(n).op \notin Connective \cup {"true", "false"} => E(n).field \in Key
  <2>1. M(n) \in SourceNode /\ E(n) # RefusedNode /\ ValidNode(E(n), "policy")
    BY <1>1, <1>2
  <2>2. Ranked(D, n, M(n)[1], M(n)[2])
    BY <1>2, <2>1, ConnectiveIs, SourceRanked
  <2>3. CASE M(n)[1] \in Connective
    <3>1. E(n).op = M(n)[1] /\ E(n).children = M(n)[2]
      BY <2>1, <2>3, ConnectiveIs
    <3> HIDE DEF E, M
    <3> QED BY <2>2, <2>3, <3>1 DEF Meaningful
  <2>4. CASE M(n)[1] \in {"true", "false"}
    <3>1. E(n).op = M(n)[1]
      BY <2>1, <2>4, ConnectiveIs
    <3>2. E(n).op \in {"true", "false"}
      BY <2>4, <3>1
    <3> HIDE DEF E, M
    <3> QED BY <2>2, <2>4, <3>2 DEF Meaningful, Ranked
  <2>5. CASE M(n)[1] \notin Connective \cup {"true", "false"}
    <3>1. E(n).op \notin Connective \cup {"true", "false"} /\ E(n).field \in Key
      BY <2>1, <2>5, LeafOperator
    <3>2. M(n)[1] \in Comparison \cup {"in"}
      BY <1>3, <2>1, <2>5, <3>1, LeafAgrees
    <3> HIDE DEF E, M
    <3> QED BY <2>2, <3>1, <3>2 DEF Meaningful, Ranked, Connective
  <2> QED BY <2>3, <2>4, <2>5
<1>5. D \subseteq Nat
  BY <1>2 DEF IsSource, IsTree, SourceChildren
<1>6. sql = [n \in D |-> [negated \in BOOLEAN |-> EmitNode(E(n), negated, sql, attrs, row)]]
  <2>1. RankedExpression(e)
    <3> HIDE DEF E
    <3> QED BY <1>1, <1>4, <1>5 DEF RankedExpression
  <2> QED BY <1>1, <2>1, EmitIsDefined
<1>7. cel = [n \in D |-> CelNode(M(n), cel, attrs, row)]
  <2>1. RankedSource(source)
    BY <1>4, <1>5 DEF RankedSource
  <2> QED BY <2>1, CelIsDefined
<1>8. ASSUME NEW n \in D, \A o \in D : o < n => Agrees(o)
      PROVE  Agrees(n)
  <2>1. Agree(EmitNode(E(n), FALSE, sql, attrs, row), EmitNode(E(n), TRUE, sql, attrs, row),
              CelNode(M(n), cel, attrs, row))
    <3> HIDE DEF sql, cel, D
    <3> QED BY <1>1, <1>2, <1>3, <1>4, <1>8, NodeAgrees
  <2>2. sql[n][FALSE] = EmitNode(E(n), FALSE, sql, attrs, row) /\ sql[n][TRUE] = EmitNode(E(n), TRUE, sql, attrs, row)
    <3> HIDE DEF sql, D, E
    <3>1. sql[n] = [negated \in BOOLEAN |-> EmitNode(E(n), negated, sql, attrs, row)]
      BY <1>6
    <3> QED BY <3>1
  <2>3. cel[n] = CelNode(M(n), cel, attrs, row)
    <3> HIDE DEF cel, D, M
    <3> QED BY <1>7
  <2> HIDE DEF sql, cel, E, M
  <2> QED BY <2>1, <2>2, <2>3
<1>9. \A n \in D : Agrees(n)
  <2> SUFFICES ASSUME \E n \in D : ~Agrees(n)
               PROVE  FALSE
    OBVIOUS
  <2> DEFINE N == {n \in D : ~Agrees(n)}
  <2>1. PICK n \in N : \A o \in N : n <= o
    <3>1. N \subseteq Nat /\ N # {}
      BY <1>5
    <3> HIDE DEF N
    <3> QED BY <3>1, LeastNumber
  <2>2. \A o \in D : o < n => Agrees(o)
    <3> HIDE DEF D, Agrees
    <3> QED BY <1>5, <2>1
  <2> HIDE DEF Agrees, D
  <2> QED BY <1>8, <2>1, <2>2
<1>10. Agrees(source.root)
  BY <1>2, <1>9
<1>11. Cel(source, attrs, row) = cel[source.root]
  BY CelIsOfTheRoot
<1>12. Holds(e, attrs, row) <=> sql[source.root][FALSE] = "T"
  BY <1>1 DEF Holds
<1>13. sql[source.root][FALSE] = "T" <=> cel[source.root] = "T"
  <2> HIDE DEF sql, cel
  <2> QED BY <1>10 DEF Agree
<1> HIDE DEF sql, cel
<1> QED BY <1>11, <1>12, <1>13

-----------------------------------------------------------------------------
(* More attributes.                                                        *)

Extends(more, attrs) == \A a \in DOMAIN attrs : a \in DOMAIN more /\ more[a] = attrs[a]

LEMMA ExtendedValue ==
    ASSUME NEW attrs, NEW more, Extends(more, attrs), NEW v, Known(v, attrs)
    PROVE  Known(v, more) /\ ValueOf(v, more) = ValueOf(v, attrs)
BY DEF Extends, Known, ValueOf

LEMMA ExtendedTest ==
    ASSUME NEW attrs, NEW more, Extends(more, attrs), NEW e, KnownNode(e, attrs), NEW negated, NEW row
    PROVE  Guarded(e, negated, more, row) = Guarded(e, negated, attrs, row)
<1> DEFINE v(A) == IF e.value = NoValue THEN NoValue ELSE ValueOf(e.value, A)
           vs(A) == [i \in DOMAIN e.values |-> ValueOf(e.values[i], A)]
<1>1. v(more) = v(attrs)
  BY ExtendedValue DEF KnownNode
<1>2. \A i \in DOMAIN e.values : ValueOf(e.values[i], more) = ValueOf(e.values[i], attrs)
  <2>1. \A i \in DOMAIN e.values : Known(e.values[i], attrs)
    BY DEF KnownNode, Elements
  <2> QED BY <2>1, ExtendedValue
<1>3. vs(more) = vs(attrs)
  BY <1>2
<1>4. \A A : Test(e, negated, A, row[e.field]) =
              LET x == Read(e.field, row[e.field])
              IN IF x = Null THEN "N"
                 ELSE IF e.op \in Comparison
                      THEN Truth(Compare(IF negated THEN Negation(e.op) ELSE e.op, x, v(A)))
                      ELSE Truth(Applied(e.op, x, v(A), vs(A)) # negated)
  BY DEF Test
<1>5. Test(e, negated, more, row[e.field]) = Test(e, negated, attrs, row[e.field])
  <2> HIDE DEF v, vs
  <2> QED BY <1>1, <1>3, <1>4
<1> QED BY <1>5 DEF Guarded

LEMMA ExtendedNode ==
    ASSUME NEW attrs, NEW more, Extends(more, attrs), NEW e, KnownNode(e, attrs), NEW negated, NEW f, NEW row
    PROVE  EmitNode(e, negated, f, more, row) = EmitNode(e, negated, f, attrs, row)
<1>1. Guarded(e, negated, more, row) = Guarded(e, negated, attrs, row)
  BY ExtendedTest
<1>2. CASE e.op = "exists"
  BY <1>2 DEF EmitNode
<1>3. CASE e.op \in {"and", "or"}
  BY <1>3 DEF EmitNode
<1>4. CASE e.op \in {"not", "true", "false"}
  BY <1>4 DEF EmitNode
<1>5. CASE e.op \notin Connective \cup {"true", "false", "exists"}
  BY <1>1, <1>5 DEF EmitNode, Connective
<1> QED BY <1>2, <1>3, <1>4, <1>5 DEF Connective

\* A predicate that could be translated says the same when the caller has more attributes.
THEOREM ExtendedEmit ==
    ASSUME NEW e, NEW attrs, NEW more, Extends(more, attrs), Satisfiable(e, attrs), NEW row
    PROVE  Satisfiable(e, more) /\ (Holds(e, attrs, row) <=> Holds(e, more, row))
<1> DEFINE D == DOMAIN e.node
           body(A, f) == [n \in D |-> [negated \in BOOLEAN |-> EmitNode(e.node[n], negated, f, A, row)]]
<1>1. \A n \in D : KnownNode(e.node[n], attrs)
  BY DEF Satisfiable, KnownNode
<1>2. Satisfiable(e, more)
  BY ExtendedValue DEF Satisfiable
<1>3. ASSUME NEW f, NEW n \in D, NEW negated
      PROVE  EmitNode(e.node[n], negated, f, more, row) = EmitNode(e.node[n], negated, f, attrs, row)
  BY <1>1, ExtendedNode
<1>4. \A f : body(more, f) = body(attrs, f)
  <2> SUFFICES ASSUME NEW f
               PROVE  body(more, f) = body(attrs, f)
    OBVIOUS
  <2>1. ASSUME NEW n \in D
        PROVE  [negated \in BOOLEAN |-> EmitNode(e.node[n], negated, f, more, row)]
                   = [negated \in BOOLEAN |-> EmitNode(e.node[n], negated, f, attrs, row)]
    BY <1>3
  <2> QED BY <2>1
<1>5. \A A : Emit(e, A, row) = CHOOSE f : f = body(A, f)
  BY DEF Emit
<1>6. Emit(e, more, row) = Emit(e, attrs, row)
  <2>1. (CHOOSE f : f = body(more, f)) = (CHOOSE f : f = body(attrs, f))
    <3> HIDE DEF body
    <3> QED BY <1>4
  <2> HIDE DEF body
  <2> QED BY <1>5, <2>1
<1> QED BY <1>2, <1>6 DEF Holds
=============================================================================
