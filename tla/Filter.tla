------------------------------- MODULE Filter -------------------------------
(***************************************************************************)
(* Filters as they come over the wire (internal/filter/filter.go): a       *)
(* sequence of conditions, all of which must hold on one span.  A          *)
(* condition is [field, op, value, values], its values literals.           *)
(***************************************************************************)
EXTENDS Policy, FiniteSets

CONSTANTS MaxConditions, MaxValues,
          NumberText   \* what JSON writes for a number

ASSUME LimitAssumption == MaxConditions \in Nat /\ MaxValues \in Nat /\ MaxValues >= 2
ASSUME TextAssumption ==
    \A m, n \in DOMAIN NumberText : NumberText[m] = NumberText[n] => m = n

Condition == [field : Key, op : STRING, value : {NoValue} \cup Operand, values : Seq(Operand)]

\* A value that JSON can write.
Written(v) == v # NoValue /\ v[2][1] = "number" => v[2][2] \in DOMAIN NumberText
IsFilter(f) ==
    /\ f \in Seq(Condition)
    /\ \A i \in DOMAIN f : \A v \in {f[i].value} \cup Elements(f[i].values) : Written(v)

wireOps(op) ==
    CASE op = "eq" -> "==" [] op = "ne" -> "!=" [] op = "gt" -> ">" [] op = "gte" -> ">="
      [] op = "lt" -> "<" [] op = "lte" -> "<=" [] op = "prefix" -> "startsWith"
      [] op \in {"in", "has"} -> "in" [] op = "has_any" -> "hasAny" [] op = "has_all" -> "hasAll"
      [] OTHER -> op

Operators == {"eq", "ne", "in", "not_in", "prefix", "exists", "not_exists", "has", "has_any", "has_all",
              "gt", "gte", "lt", "lte", "between"}
Base(op) == CASE op = "not_in" -> "in" [] op = "not_exists" -> "exists" [] OTHER -> op

Sample(t) ==
    Literal(CASE t = "boolean" -> <<t, TRUE>> [] t = "number" -> <<t, 1>> [] OTHER -> <<"string", "x">>)

Probe(op, t) ==
    IF op = "exists" THEN Leaf(op, "", NoValue, <<>>)
    ELSE Leaf(op, "", Sample(t), <<Sample(ElementType(t)), Sample(ElementType(t))>>)

\* What a caller is told it may ask of a type.
OperatorsFor(t) ==
    {op \in Operators : /\ t = "string_array" => op \notin {"in", "not_in"}
                        /\ op = "has" => t = "string_array"
                        /\ ValidLeaf(Probe(wireOps(Base(op)), t), t, "filter")}

-----------------------------------------------------------------------------
(* Condition.expression.                                                   *)

LeafOfCondition(c) == Leaf(wireOps(Base(c.op)), c.field, c.value, c.values)

UsesValues(c) == TakesList(wireOps(Base(c.op)), FieldOf[c.field].type)

\* Each operator has its own operands and no others.
OperandsFit(c) ==
    CASE UsesValues(c) -> c.value = NoValue /\ Len(c.values) \in 1..MaxValues
      [] Base(c.op) = "exists" -> c.value = NoValue /\ c.values = <<>>
      [] OTHER -> c.values = <<>> /\ c.value # NoValue

\* Fault: a membership is taken from a field of one value.
AcceptedLoosely(c) ==
    /\ c.op \in Operators
    /\ ~(c.op = "prefix" /\ c.value = Literal(<<"string", "">>))
    /\ OperandsFit(c)
    /\ ValidLeaf(LeafOfCondition(c), FieldOf[c.field].type, "filter")

Accepted(c) ==
    /\ c.op \in Operators
    /\ wireOps(Base(c.op)) = "in" => (FieldOf[c.field].type = "string_array") = (c.op = "has")
    /\ ~(c.op = "prefix" /\ c.value = Literal(<<"string", "">>))
    /\ OperandsFit(c)
    /\ ValidLeaf(LeafOfCondition(c), FieldOf[c.field].type, "filter")

Negates(c) == c.op \in {"not_in", "not_exists"}

\* The conjunction of the conditions: leaf n is numbered n, its negation comes after all leaves.
Conjunction(f) ==
    LET L == Len(f)
        place(n) == IF Negates(f[n]) THEN L + n ELSE n
    IN [root |-> 2 * L + 1,
        node |-> [n \in DOMAIN f \cup {place(m) : m \in DOMAIN f} \cup {2 * L + 1} |->
                     IF n \in DOMAIN f THEN LeafOfCondition(f[n])
                     ELSE IF n = 2 * L + 1 THEN Node("and", [m \in DOMAIN f |-> place(m)])
                     ELSE Node("not", <<n - L>>)]]

\* Build: the predicate, or a refusal.
Build(f) ==
    IF \/ Len(f) > MaxConditions
       \/ \E i \in DOMAIN f : ~FieldOf[f[i].field].filterable \/ ~Accepted(f[i])
    THEN Refused
    ELSE IF f = <<>> THEN Single(Node("true", <<>>)) ELSE Conjunction(f)

-----------------------------------------------------------------------------
(* Canonical.                                                              *)

\* The text of a value as JSON has it, a string without its quotes.
CanonicalValue(v) ==
    IF v = NoValue THEN ""
    ELSE CASE v[2][1] = "string" -> v[2][2]
           [] v[2][1] = "boolean" -> IF v[2][2] THEN "true" ELSE "false"
           [] OTHER -> NumberText[v[2][2]]

\* What is left of a sequence when it is sorted: how often each element occurs.
Sorted(s) == [x \in Elements(s) |-> Cardinality({i \in DOMAIN s : s[i] = x})]

\* Fault: a condition without its operator.
CanonicalByField(f) ==
    Sorted([i \in DOMAIN f |->
        <<f[i].field, CanonicalValue(f[i].value),
          Sorted([j \in DOMAIN f[i].values |-> CanonicalValue(f[i].values[j])])>>])

\* The same for every order of the conditions and of the values of one.
Canonical(f) ==
    Sorted([i \in DOMAIN f |->
        <<f[i].field, f[i].op, CanonicalValue(f[i].value),
          Sorted([j \in DOMAIN f[i].values |-> CanonicalValue(f[i].values[j])])>>])
=============================================================================
