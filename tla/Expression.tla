----------------------------- MODULE Expression -----------------------------
(***************************************************************************)
(* The typed predicates that policies and filters are both made of         *)
(* (internal/expression/expression.go): what is valid, and what the SQL    *)
(* that is emitted says of a row, in the three values of SQL.              *)
(*                                                                         *)
(* A literal is <<type, value>>, and a cell holds a literal, an array, or  *)
(* one of Missing (a key its map lacks), Null (a column without a value)   *)
(* and Malformed (a string that its type does not parse).                  *)
(*                                                                         *)
(* An expression is a tree: nodes by number, of which one is the root, and *)
(* the children of a node have smaller numbers than it has.                *)
(***************************************************************************)
EXTENDS Integers, Sequences

CONSTANTS Key,     \* fields
          FieldOf, \* [Key -> [map : BOOLEAN, type : Type, filterable, policy : BOOLEAN]]
          Prefix   \* the pairs of strings of which one begins the other

Type == {"string", "string_array", "boolean", "number"}

ASSUME FieldAssumption ==
    /\ "" \notin Key
    /\ FieldOf \in [Key -> [map : BOOLEAN, type : Type, filterable : BOOLEAN, policy : BOOLEAN]]

Missing == <<"missing">>
Null == <<"null">>
Malformed == <<"malformed">>
NoValue == <<"no value">>
Literal(l) == <<"literal", l>>
Attr(a) == <<"attr", a>>

\* What a cell of a type may hold when there is a value.
Typed(t) ==
    {t} \X (CASE t = "string" -> STRING [] t = "string_array" -> SUBSET STRING
               [] t = "boolean" -> BOOLEAN [] t = "number" -> Int)
Literals == Typed("string") \cup Typed("boolean") \cup Typed("number")
Operand == {"literal"} \X Literals

Ordering == {">", ">=", "<", "<="}
Comparison == Ordering \cup {"==", "!="}

\* Expr. A connective has no field, a leaf no children.
Connective == {"and", "or", "not"}
Node(op, children) == [op |-> op, field |-> "", value |-> NoValue, values |-> <<>>, children |-> children]
Leaf(op, k, v, vs) == [op |-> op, field |-> k, value |-> v, values |-> vs, children |-> <<>>]

\* The children of a node, and a tree, whatever its nodes are made of.
Elements(s) == {s[i] : i \in DOMAIN s}
IsTree(root, children) ==
    /\ root \in DOMAIN children
    /\ DOMAIN children \subseteq Nat
    /\ \A n \in DOMAIN children :
          /\ children[n] \in Seq(Nat)
          /\ Elements(children[n]) \subseteq {m \in DOMAIN children : m < n}
          /\ n = root \/ \E m \in DOMAIN children : n \in Elements(children[m])

ChildrenOf(e) == [n \in DOMAIN e.node |-> e.node[n].children]
Single(n) == [root |-> 1, node |-> <<n>>]

TypeOf(e) == FieldOf[e.field].type
ElementType(t) == IF t = "string_array" THEN "string" ELSE t

-----------------------------------------------------------------------------
(* Validate.                                                               *)

\* What a policy may ask of a type, and what only a filter may.
InPolicies(t) ==
    CASE t = "string" -> {"==", "!=", "in"}
      [] t = "string_array" -> {"in"}
      [] t = "boolean" -> {"==", "!="}
      [] t = "number" -> {}
OnlyInFilters(t) ==
    CASE t = "string" -> {"startsWith", "exists"}
      [] t = "string_array" -> {"hasAny", "hasAll"}
      [] t = "boolean" -> {}
      [] t = "number" -> Comparison \cup {"between"}
Allowed(t, profile) == InPolicies(t) \cup IF profile = "filter" THEN OnlyInFilters(t) ELSE {}

ValidValue(v, t) ==
    CASE v[1] = "attr" -> t = "string"
      [] v[1] = "literal" -> v[2][1] = t
      [] OTHER -> FALSE

\* Operators of a list read their values and no other operand, as the rest read their value.
TakesList(op, t) == op \in {"hasAny", "hasAll", "between"} \/ (op = "in" /\ t = "string")

ValidValues(e, t) ==
    CASE e.op = "exists" -> e.value = NoValue /\ e.values = <<>>
      [] TakesList(e.op, t) ->
             /\ IF e.op = "between" THEN Len(e.values) = 2 ELSE e.values # <<>>
             /\ \A i \in DOMAIN e.values : ValidValue(e.values[i], ElementType(t))
      [] OTHER -> ValidValue(e.value, ElementType(t))

ValidLeaf(e, t, profile) == e.op \in Allowed(t, profile) /\ ValidValues(e, t)

ValidNode(e, profile) ==
    CASE e.op \in Connective -> IF e.op = "not" THEN Len(e.children) = 1 ELSE e.children # <<>>
      [] e.op \in {"true", "false"} -> TRUE
      [] OTHER -> ValidLeaf(e, TypeOf(e), profile)

Validate(e, profile) == \A n \in DOMAIN e.node : ValidNode(e.node[n], profile)

-----------------------------------------------------------------------------
(* The three values of SQL.                                                *)

Truth(b) == IF b THEN "T" ELSE "F"
Flip(t) == CASE t = "T" -> "F" [] t = "F" -> "T" [] OTHER -> "N"
Conj(S) == IF "F" \in S THEN "F" ELSE IF "N" \in S THEN "N" ELSE "T"
Disj(S) == Flip(Conj({Flip(t) : t \in S}))

-----------------------------------------------------------------------------
(* Compile: emit and leaf.  A caller has attrs, a function.                *)

\* Every attribute is looked up when the text is emitted, wherever it occurs.
Known(v, attrs) == v[1] = "attr" => v[2] \in DOMAIN attrs
Satisfiable(e, attrs) ==
    \A n \in DOMAIN e.node :
        /\ Known(e.node[n].value, attrs)
        /\ \A v \in Elements(e.node[n].values) : Known(v, attrs)

ValueOf(v, attrs) == IF v[1] = "attr" THEN <<"string", attrs[v[2]]>> ELSE v[2]

\* toBoolOrNull and toFloat64OrNull have no value where JSONExtract has an empty array.
Read(k, cell) ==
    IF cell # Malformed THEN cell
    ELSE IF FieldOf[k].type = "string_array" THEN <<"string_array", {}>> ELSE Null

Negation(op) ==
    CASE op = "==" -> "!=" [] op = "!=" -> "=="
      [] op = ">" -> "<=" [] op = "<=" -> ">"
      [] op = "<" -> ">=" [] op = ">=" -> "<"

Compare(op, x, y) ==
    CASE op = "==" -> x = y [] op = "!=" -> x # y
      [] op = ">" -> x[2] > y[2] [] op = ">=" -> x[2] >= y[2]
      [] op = "<" -> x[2] < y[2] [] op = "<=" -> x[2] <= y[2]

\* What one operator says of the value of a cell and the values it is given.
Applied(op, x, v, vs) ==
    CASE op \in Comparison -> Compare(op, x, v)
      [] op = "startsWith" -> <<v[2], x[2]>> \in Prefix
      [] op = "in" -> IF x[1] = "string_array" THEN v[2] \in x[2] ELSE x \in Elements(vs)
      [] op = "hasAny" -> \E w \in Elements(vs) : w[2] \in x[2]
      [] op = "hasAll" -> \A w \in Elements(vs) : w[2] \in x[2]
      [] op = "between" -> vs[1][2] <= x[2] /\ x[2] <= vs[2][2]

\* A comparison is negated by its operator, and anything else by a NOT before it.
Test(e, negated, attrs, cell) ==
    LET x == Read(e.field, cell)
        v == IF e.value = NoValue THEN NoValue ELSE ValueOf(e.value, attrs)
        vs == [i \in DOMAIN e.values |-> ValueOf(e.values[i], attrs)]
    IN IF x = Null THEN "N"
       ELSE IF e.op \in Comparison THEN Truth(Compare(IF negated THEN Negation(e.op) ELSE e.op, x, v))
       ELSE Truth(Applied(e.op, x, v, vs) # negated)

\* Fault: the guard of a key its map lacks is negated with the rest.
NegatedGuard(e, negated, attrs, row) ==
    IF FieldOf[e.field].map /\ row[e.field] = Missing THEN Truth(negated)
    ELSE Test(e, negated, attrs, row[e.field])

\* mapContains(...) AND the test, negated or not.
Guarded(e, negated, attrs, row) ==
    IF FieldOf[e.field].map /\ row[e.field] = Missing THEN "F"
    ELSE Test(e, negated, attrs, row[e.field])

\* What is emitted for a node, negated or not, when that for its children is sql.
EmitNode(e, negated, sql, attrs, row) ==
    LET parts == {sql[n][negated] : n \in Elements(e.children)}
    IN CASE e.op \in {"true", "false"} -> Truth((e.op = "true") # negated)
         [] e.op = "not" -> sql[e.children[1]][~negated]
         [] e.op \in {"and", "or"} -> IF (e.op = "or") # negated THEN Disj(parts) ELSE Conj(parts)
         [] e.op = "exists" -> Truth((~FieldOf[e.field].map \/ row[e.field] # Missing) # negated)
         [] OTHER -> Guarded(e, negated, attrs, row)

Emit(e, attrs, row) ==
    LET sql[n \in DOMAIN e.node] ==
            [negated \in BOOLEAN |-> EmitNode(e.node[n], negated, sql, attrs, row)]
    IN sql

\* The rows for which the predicate holds: what WHERE and countIf count.
Holds(e, attrs, row) == Emit(e, attrs, row)[e.root][FALSE] = "T"

FieldsIn(e) == {e.node[n].field : n \in DOMAIN e.node} \ {""}
=============================================================================
