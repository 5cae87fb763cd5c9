------------------------------- MODULE Policy -------------------------------
(***************************************************************************)
(* Policies (internal/policy): from the source, a tree of CEL, to a typed  *)
(* predicate, and from the predicates of a caller's roles to one.          *)
(*                                                                         *)
(* A node of a source is <<"true">>, <<"and", children>>, <<"==", left,    *)
(* right>>, <<"in", left, right>>, <<"member", name, target, args>> or     *)
(* <<"exists", operand>>.  An operand is <<"field", k>>, <<"attr", a>>,    *)
(* <<"literal", l>>, <<"list", operands>>, or <<"other">>: a name that is  *)
(* not declared, a bare map.                                               *)
(***************************************************************************)
EXTENDS Expression

CONSTANTS UserAttr   \* what user.<name> may name

\* The sources there are, and the children of the nodes of one.
SourceOperand ==
    ({"field"} \X Key) \cup ({"attr"} \X STRING) \cup ({"literal"} \X Literals) \cup {<<"other">>}
SourceOperands == SourceOperand \cup ({"list"} \X Seq(SourceOperand))
SourceNode ==
    {<<"true">>, <<"false">>} \cup (Connective \X Seq(Nat)) \cup ({"exists"} \X SourceOperands)
        \cup ((Comparison \cup {"in"}) \X SourceOperands \X SourceOperands)
        \cup ({"member"} \X {"startsWith", "between", "hasAny", "hasAll"} \X SourceOperands \X Seq(SourceOperands))
SourceChildren(source) ==
    [n \in DOMAIN source.node |-> IF source.node[n][1] \in Connective THEN source.node[n][2] ELSE <<>>]
IsSource(source) ==
    /\ \A n \in DOMAIN source.node : source.node[n] \in SourceNode
    /\ IsTree(source.root, SourceChildren(source))

RefusedNode == Node("refused", <<>>)
Refused == Single(RefusedNode)
RefusedValue == <<"refused">>

FieldRef(n) == IF n[1] = "field" /\ FieldOf[n[2]].policy THEN n[2] ELSE ""

PolicyValue(n, want) ==
    CASE n[1] = "attr" -> IF n[2] \in UserAttr /\ want = "string" THEN Attr(n[2]) ELSE RefusedValue
      [] n[1] = "literal" -> IF n[2][1] = want THEN Literal(n[2]) ELSE RefusedValue
      [] OTHER -> RefusedValue

ListOf(n, want) ==
    IF n[1] = "list" THEN [i \in DOMAIN n[2] |-> PolicyValue(n[2][i], want)] ELSE <<RefusedValue>>

\* A leaf, unless a field or an operand was refused.
LeafOf(op, k, v, vs) ==
    IF k = "" \/ RefusedValue \in {v} \cup Elements(vs) THEN RefusedNode ELSE Leaf(op, k, v, vs)

Reversed(op) ==
    CASE op = ">" -> "<" [] op = ">=" -> "<=" [] op = "<" -> ">" [] op = "<=" -> ">="
      [] OTHER -> op

\* The field may be on either side.
Comparing(op, a, b) ==
    IF FieldRef(a) # "" THEN LeafOf(op, FieldRef(a), PolicyValue(b, FieldOf[FieldRef(a)].type), <<>>)
    ELSE IF FieldRef(b) # "" THEN LeafOf(Reversed(op), FieldRef(b), PolicyValue(a, FieldOf[FieldRef(b)].type), <<>>)
    ELSE RefusedNode

\* A string field in a list, or a string in an array field.
Membership(left, right) ==
    IF FieldRef(left) # ""
    THEN IF FieldOf[FieldRef(left)].type = "string"
         THEN LeafOf("in", FieldRef(left), NoValue, ListOf(right, "string")) ELSE RefusedNode
    ELSE IF FieldRef(right) # "" /\ FieldOf[FieldRef(right)].type = "string_array"
         THEN LeafOf("in", FieldRef(right), PolicyValue(left, "string"), <<>>) ELSE RefusedNode

Member(name, target, args) ==
    CASE name = "startsWith" -> IF Len(args) # 1 THEN RefusedNode
             ELSE LeafOf(name, FieldRef(target), PolicyValue(args[1], "string"), <<>>)
      [] name = "between" -> IF Len(args) # 2 THEN RefusedNode
             ELSE LeafOf(name, FieldRef(target), NoValue, ListOf(<<"list", args>>, "number"))
      [] OTHER -> IF Len(args) # 1 THEN RefusedNode
             ELSE LeafOf(name, FieldRef(target), NoValue, ListOf(args[1], "string"))

Convert(n) ==
    CASE n[1] \in {"true", "false"} -> Node(n[1], <<>>)
      [] n[1] \in Connective -> Node(n[1], n[2])
      [] n[1] \in Comparison -> Comparing(n[1], n[2], n[3])
      [] n[1] = "in" -> Membership(n[2], n[3])
      [] n[1] = "member" -> Member(n[2], n[3], n[4])
      [] n[1] = "exists" -> LeafOf("exists", FieldRef(n[2]), NoValue, <<>>)
      [] OTHER -> RefusedNode

\* The nodes are converted one by one, each in its place.
Converted(source) ==
    [root |-> source.root, node |-> [n \in DOMAIN source.node |-> Convert(source.node[n])]]

\* Fault: what only a filter may ask is taken from a policy.
CompileAny(source) ==
    LET e == Converted(source)
    IN IF RefusedNode \notin {e.node[n] : n \in DOMAIN e.node} /\ Validate(e, "filter") THEN e ELSE Refused

Compile(source) ==
    LET e == Converted(source)
    IN IF RefusedNode \notin {e.node[n] : n \in DOMAIN e.node} /\ Validate(e, "policy") THEN e ELSE Refused

\* BuildRegistry: the programs of a role, none of which was refused when it was stored.
Registry(sources) ==
    LET programs == {Compile(s) : s \in sources}
    IN IF Refused \in programs THEN {} ELSE programs

\* Fault: one program that cannot be translated denies what the others permit.
PredicateOfAll(programs, attrs) ==
    IF \A p \in programs : Satisfiable(p, attrs) THEN programs ELSE {}

\* The clauses that are ORed; a caller without one is permitted nothing.
Predicate(programs, attrs) == {p \in programs : Satisfiable(p, attrs)}

Permits(clauses, attrs, row) == \E p \in clauses : Holds(p, attrs, row)

-----------------------------------------------------------------------------
(* What CEL says of the same source, where a missing key, a value that is  *)
(* not there or does not parse, and a missing attribute are errors: && and *)
(* || give their answer when one side decides it, whatever the other is.   *)

Unknown == <<"unknown">>

CelValue(n, attrs, row) ==
    CASE n[1] = "field" -> IF row[n[2]] \in {Missing, Null, Malformed} THEN Unknown ELSE row[n[2]]
      [] n[1] = "attr" -> IF n[2] \in DOMAIN attrs THEN <<"string", attrs[n[2]]>> ELSE Unknown
      [] n[1] = "literal" -> n[2]

CelIn(left, right, attrs, row) ==
    LET x == CelValue(left, attrs, row)
        ys == IF right[1] = "list" THEN {CelValue(y, attrs, row) : y \in Elements(right[2])}
              ELSE LET y == CelValue(right, attrs, row)
                   IN IF y = Unknown THEN {Unknown} ELSE {<<"string", s>> : s \in y[2]}
    IN IF Unknown \in {x} \cup ys THEN "N" ELSE Truth(x \in ys)

CelNode(n, cel, attrs, row) ==
    CASE n[1] \in {"true", "false"} -> Truth(n[1] = "true")
      [] n[1] = "not" -> Flip(cel[n[2][1]])
      [] n[1] = "and" -> Conj({cel[m] : m \in Elements(n[2])})
      [] n[1] = "or" -> Disj({cel[m] : m \in Elements(n[2])})
      [] n[1] = "in" -> CelIn(n[2], n[3], attrs, row)
      [] n[1] \in Comparison ->
             LET x == CelValue(n[2], attrs, row)
                 y == CelValue(n[3], attrs, row)
             IN IF Unknown \in {x, y} THEN "N" ELSE Truth(Compare(n[1], x, y))

Cel(source, attrs, row) ==
    LET cel[n \in DOMAIN source.node] == CelNode(source.node[n], cel, attrs, row)
    IN cel[source.root]
=============================================================================
