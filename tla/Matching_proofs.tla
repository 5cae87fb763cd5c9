--------------------------- MODULE Matching_proofs ---------------------------
(***************************************************************************)
(* Proofs about Matching: what a caller is permitted is what CEL says, a   *)
(* filter means what its conditions mean, and a cursor selects what its    *)
(* filter selects, for any fields, policies, attributes, rows and filters. *)
(***************************************************************************)
EXTENDS Matching, Policy_proofs

-----------------------------------------------------------------------------
(* Conditions.                                                             *)

LEMMA ConditionIs ==
    ASSUME NEW c \in Condition
    PROVE  /\ c.field \in Key /\ FieldOf[c.field].type \in Type /\ c.values \in Seq(Operand)
           /\ c.value = NoValue \/ c.value \in Operand
BY FieldAssumption DEF Condition

LEMMA OperandIs ==
    ASSUME NEW v \in Operand
    PROVE  /\ v[1] = "literal" /\ v[2] \in Literals /\ v # NoValue
           /\ v = Literal(v[2])
           /\ \A A : ValueOf(v, A) = v[2]
           /\ \A t : ValidValue(v, t) <=> v[2][1] = t
<1>1. v[1] = "literal" /\ v[2] \in Literals /\ v = <<"literal", v[2]>>
  BY DEF Operand
<1>2. v # NoValue
  BY <1>1, TagsDiffer
<1> QED BY <1>1, <1>2 DEF Literal, ValueOf, ValidValue

LEMMA LiteralIs ==
    ASSUME NEW l \in Literals
    PROVE  /\ l = <<l[1], l[2]>>
           /\ l[1] \in {"string", "boolean", "number"}
           /\ l[1] = "number" => l[2] \in Int
           /\ l[1] = "boolean" => l[2] \in BOOLEAN
           /\ l[1] = "string" => l[2] \in STRING
BY DEF Literals, Typed

\* The operators of the wire and what they are lowered to.
LEMMA WireOperators ==
    /\ wireOps(Base("eq")) = "==" /\ wireOps(Base("ne")) = "!="
    /\ wireOps(Base("gt")) = ">" /\ wireOps(Base("gte")) = ">="
    /\ wireOps(Base("lt")) = "<" /\ wireOps(Base("lte")) = "<="
    /\ wireOps(Base("in")) = "in" /\ wireOps(Base("not_in")) = "in" /\ wireOps(Base("has")) = "in"
    /\ wireOps(Base("has_any")) = "hasAny" /\ wireOps(Base("has_all")) = "hasAll"
    /\ wireOps(Base("prefix")) = "startsWith" /\ wireOps(Base("between")) = "between"
    /\ wireOps(Base("exists")) = "exists" /\ wireOps(Base("not_exists")) = "exists"
BY DEF wireOps, Base

LEMMA SampleFits ==
    ASSUME NEW t \in Type
    PROVE  ValidValue(Sample(t), ElementType(t)) /\ ValidValue(Sample(ElementType(t)), ElementType(t))
<1>1. \A l : ValidValue(Literal(l), ElementType(t)) <=> l[1] = ElementType(t)
  BY TagsDiffer DEF ValidValue
<1>2. Sample(t) = Literal(IF t = "boolean" THEN <<t, TRUE>> ELSE IF t = "number" THEN <<t, 1>> ELSE <<"string", "x">>)
  BY DEF Sample
<1>3. Sample(ElementType(t)) = Sample(t)
  BY DEF Sample, ElementType
<1> QED BY <1>1, <1>2, <1>3 DEF ElementType, Type

\* The probe of an operator fits if the operator does.
LEMMA ProbeFits ==
    ASSUME NEW t \in Type, NEW op
    PROVE  ValidLeaf(Probe(op, t), t, "filter") <=> op \in Allowed(t, "filter")
<1> DEFINE x == Sample(ElementType(t))
           p == Probe(op, t)
<1>1. CASE op = "exists"
  <2>1. p = Leaf(op, "", NoValue, <<>>)
    BY <1>1 DEF Probe
  <2>2. p.op = op /\ p.value = NoValue /\ p.values = <<>>
    <3> DEFINE l == Leaf(op, "", NoValue, <<>>)
    <3>1. l.op = op /\ l.value = NoValue /\ l.values = <<>>
      BY DEF Leaf
    <3> HIDE DEF l
    <3>2. p = l
      BY <2>1 DEF l
    <3> HIDE DEF p
    <3> QED BY <3>1, <3>2
  <2> HIDE DEF p
  <2>3. ValidValues(p, t)
    BY <1>1, <2>2 DEF ValidValues, TakesList
  <2>4. ValidLeaf(p, t, "filter") <=> op \in Allowed(t, "filter")
    BY <2>2, <2>3 DEF ValidLeaf
  <2> QED BY <2>4 DEF p
<1>2. CASE op # "exists"
  <2>1. p = Leaf(op, "", Sample(t), <<x, x>>)
    BY <1>2 DEF Probe
  <2>2. p.op = op /\ p.value = Sample(t) /\ p.values = <<x, x>>
    <3> DEFINE l == Leaf(op, "", Sample(t), <<x, x>>)
    <3>1. l.op = op /\ l.value = Sample(t) /\ l.values = <<x, x>>
      BY DEF Leaf
    <3> HIDE DEF l
    <3>2. p = l
      BY <2>1 DEF l
    <3> HIDE DEF p
    <3> QED BY <3>1, <3>2
  <2> HIDE DEF p
  <2>3. Len(p.values) = 2 /\ p.values # <<>> /\ \A i \in DOMAIN p.values : p.values[i] = x
    BY <2>2
  <2>4. ValidValues(p, t)
    <3> HIDE DEF x
    <3> QED BY <1>2, <2>2, <2>3, SampleFits DEF ValidValues, x
  <2>5. ValidLeaf(p, t, "filter") <=> op \in Allowed(t, "filter")
    BY <2>2, <2>4 DEF ValidLeaf
  <2> QED BY <2>5 DEF p
<1> QED BY <1>1, <1>2

Offered(op, t) ==
    /\ t = "string_array" => op \notin {"in", "not_in"}
    /\ op = "has" => t = "string_array"
    /\ wireOps(Base(op)) \in Allowed(t, "filter")

LEMMA OfferedWhen ==
    ASSUME NEW t \in Type, NEW op
    PROVE  op \in OperatorsFor(t) <=> op \in Operators /\ Offered(op, t)
<1> DEFINE w == wireOps(Base(op))
<1>1. ValidLeaf(Probe(w, t), t, "filter") <=> w \in Allowed(t, "filter")
  <2> HIDE DEF w
  <2> QED BY ProbeFits
<1>2. ASSUME op \in Operators, Offered(op, t)
      PROVE  op \in OperatorsFor(t)
  BY <1>1, <1>2 DEF OperatorsFor, Offered
<1>3. ASSUME op \in OperatorsFor(t)
      PROVE  op \in Operators /\ Offered(op, t)
  <2>1. t = "string_array" => op \notin {"in", "not_in"}
    BY <1>3 DEF OperatorsFor
  <2>2. op = "has" => t = "string_array"
    BY <1>3 DEF OperatorsFor
  <2>3. ValidLeaf(Probe(w, t), t, "filter")
    BY <1>3 DEF OperatorsFor
  <2>4. op \in Operators
    BY <1>3 DEF OperatorsFor
  <2> QED BY <1>1, <2>1, <2>2, <2>3, <2>4 DEF Offered
<1> QED BY <1>2, <1>3

\* What a caller is told, type by type.
LEMMA OperatorsOfTypes ==
    /\ OperatorsFor("string") = {"eq", "ne", "in", "not_in", "prefix", "exists", "not_exists"}
    /\ OperatorsFor("string_array") = {"has", "has_any", "has_all"}
    /\ OperatorsFor("boolean") = {"eq", "ne"}
    /\ OperatorsFor("number") = {"eq", "ne", "gt", "gte", "lt", "lte", "between"}
<1>1. \A t \in Type, op \in Operators : op \in OperatorsFor(t) <=> Offered(op, t)
  BY OfferedWhen
<1>2. /\ Allowed("string", "filter") = {"==", "!=", "in", "startsWith", "exists"}
      /\ Allowed("string_array", "filter") = {"in", "hasAny", "hasAll"}
      /\ Allowed("boolean", "filter") = {"==", "!="}
      /\ Allowed("number", "filter") = {"==", "!=", ">", ">=", "<", "<=", "between"}
  BY DEF Allowed, InPolicies, OnlyInFilters, Comparison, Ordering
<1>3. "string" \in Type /\ "string_array" \in Type /\ "boolean" \in Type /\ "number" \in Type
  BY DEF Type
<1>4. \A t : OperatorsFor(t) \subseteq Operators
  BY DEF OperatorsFor
<1>5. OperatorsFor("string") = {"eq", "ne", "in", "not_in", "prefix", "exists", "not_exists"}
  <2>1. \A op \in Operators : op \in OperatorsFor("string") <=> op \in {"eq", "ne", "in", "not_in", "prefix", "exists", "not_exists"}
    <3>1. \A op \in Operators : Offered(op, "string") <=> op \in {"eq", "ne", "in", "not_in", "prefix", "exists", "not_exists"}
      BY <1>2, WireOperators DEF Operators, Offered
    <3> QED BY <1>1, <1>3, <3>1
  <2>2. {"eq", "ne", "in", "not_in", "prefix", "exists", "not_exists"} \subseteq Operators
    BY DEF Operators
  <2> QED BY <1>4, <2>1, <2>2
<1>6. OperatorsFor("string_array") = {"has", "has_any", "has_all"}
  <2>1. \A op \in Operators : op \in OperatorsFor("string_array") <=> op \in {"has", "has_any", "has_all"}
    <3>1. \A op \in Operators : Offered(op, "string_array") <=> op \in {"has", "has_any", "has_all"}
      BY <1>2, WireOperators DEF Operators, Offered
    <3> QED BY <1>1, <1>3, <3>1
  <2>2. {"has", "has_any", "has_all"} \subseteq Operators
    BY DEF Operators
  <2> QED BY <1>4, <2>1, <2>2
<1>7. OperatorsFor("boolean") = {"eq", "ne"}
  <2>1. \A op \in Operators : op \in OperatorsFor("boolean") <=> op \in {"eq", "ne"}
    <3>1. \A op \in Operators : Offered(op, "boolean") <=> op \in {"eq", "ne"}
      BY <1>2, WireOperators DEF Operators, Offered
    <3> QED BY <1>1, <1>3, <3>1
  <2>2. {"eq", "ne"} \subseteq Operators
    BY DEF Operators
  <2> QED BY <1>4, <2>1, <2>2
<1>8. OperatorsFor("number") = {"eq", "ne", "gt", "gte", "lt", "lte", "between"}
  <2>1. \A op \in Operators : op \in OperatorsFor("number") <=> op \in {"eq", "ne", "gt", "gte", "lt", "lte", "between"}
    <3>1. \A op \in Operators : Offered(op, "number") <=> op \in {"eq", "ne", "gt", "gte", "lt", "lte", "between"}
      BY <1>2, WireOperators DEF Operators, Offered
    <3> QED BY <1>1, <1>3, <3>1
  <2>2. {"eq", "ne", "gt", "gte", "lt", "lte", "between"} \subseteq Operators
    BY DEF Operators
  <2> QED BY <1>4, <2>1, <2>2
<1> QED BY <1>5, <1>6, <1>7, <1>8

\* What the filter accepts of an operator is what is advertised.
LEMMA OfferedIs ==
    ASSUME NEW t \in Type, NEW op \in Operators
    PROVE  Offered(op, t) <=> /\ wireOps(Base(op)) \in Allowed(t, "filter")
                              /\ wireOps(Base(op)) = "in" => ((t = "string_array") = (op = "has"))
<1>1. wireOps(Base(op)) = "in" <=> op \in {"in", "not_in", "has"}
  BY WireOperators DEF Operators
<1>2. CASE op \in {"in", "not_in"}
  <2>1. op # "has"
    BY <1>2
  <2> QED BY <1>1, <1>2, <2>1 DEF Offered
<1>3. CASE op = "has"
  BY <1>1, <1>3 DEF Offered
<1>4. CASE op \notin {"in", "not_in", "has"}
  BY <1>1, <1>4 DEF Offered
<1> QED BY <1>2, <1>3, <1>4

LEMMA LeafOfConditionIs ==
    ASSUME NEW c
    PROVE  LET e == LeafOfCondition(c)
           IN /\ e.op = wireOps(Base(c.op)) /\ e.field = c.field
              /\ e.value = c.value /\ e.values = c.values /\ e.children = <<>>
BY DEF LeafOfCondition, Leaf

\* The operands that an operator of a type is given.
HasOperands(c) ==
    LET t == FieldOf[c.field].type
        fits(v) == v # NoValue /\ v[2][1] = ElementType(t)
        listed == \A i \in DOMAIN c.values : fits(c.values[i])
    IN CASE c.op \in {"exists", "not_exists"} -> c.value = NoValue /\ c.values = <<>>
         [] c.op \in {"in", "not_in", "has_any", "has_all"} ->
                c.value = NoValue /\ Len(c.values) \in 1..MaxValues /\ listed
         [] c.op = "between" -> c.value = NoValue /\ Len(c.values) = 2 /\ listed
         [] OTHER -> fits(c.value) /\ c.values = <<>> /\ ~(c.op = "prefix" /\ c.value[2][2] = "")

LEMMA WellFormedIs ==
    ASSUME NEW c
    PROVE  WellFormed(c) <=> /\ FieldOf[c.field].filterable
                             /\ c.op \in OperatorsFor(FieldOf[c.field].type)
                             /\ HasOperands(c)
BY DEF WellFormed, HasOperands

OperandsAccepted(c) ==
    /\ ~(c.op = "prefix" /\ c.value = Literal(<<"string", "">>))
    /\ OperandsFit(c)
    /\ ValidValues(LeafOfCondition(c), FieldOf[c.field].type)

LEMMA OperandsAcceptedIs ==
    ASSUME NEW c \in Condition, c.op \in OperatorsFor(FieldOf[c.field].type)
    PROVE  OperandsAccepted(c) <=> HasOperands(c)
<1> DEFINE t == FieldOf[c.field].type
           w == wireOps(Base(c.op))
           e == LeafOfCondition(c)
           fits(v) == v # NoValue /\ v[2][1] = ElementType(t)
           listed == \A i \in DOMAIN c.values : fits(c.values[i])
<1>1. t \in Type /\ c.values \in Seq(Operand) /\ (c.value = NoValue \/ c.value \in Operand)
  BY ConditionIs
<1>2. e.op = w /\ e.value = c.value /\ e.values = c.values
  BY LeafOfConditionIs
<1>3. /\ \A i \in DOMAIN c.values : ValidValue(c.values[i], ElementType(t)) <=> fits(c.values[i])
      /\ c.value # NoValue => (ValidValue(c.value, ElementType(t)) <=> fits(c.value))
  <2>1. \A v \in Operand : ValidValue(v, ElementType(t)) <=> fits(v)
    <3> HIDE DEF t
    <3> QED BY OperandIs
  <2>2. \A i \in DOMAIN c.values : c.values[i] \in Operand
    BY <1>1
  <2> QED BY <1>1, <2>1, <2>2
<1>4. CASE c.op \in {"exists", "not_exists"}
  <2>1. w = "exists" /\ c.op # "prefix"
    BY <1>4, WireOperators
  <2>2. ~UsesValues(c) /\ Base(c.op) = "exists"
    BY <1>4, <2>1 DEF UsesValues, TakesList, Base
  <2>3. OperandsFit(c) <=> c.value = NoValue /\ c.values = <<>>
    BY <2>2 DEF OperandsFit
  <2>4. ValidValues(e, t) <=> c.value = NoValue /\ c.values = <<>>
    <3> HIDE DEF e, t
    <3> QED BY <1>2, <2>1 DEF ValidValues, TakesList
  <2>5. HasOperands(c) <=> c.value = NoValue /\ c.values = <<>>
    BY <1>4 DEF HasOperands
  <2> QED BY <2>1, <2>3, <2>4, <2>5 DEF OperandsAccepted
<1>5. CASE c.op \in {"in", "not_in", "has_any", "has_all"}
  <2>1. w \in {"in", "hasAny", "hasAll"} /\ (w = "in" => t = "string") /\ c.op # "prefix"
    BY <1>1, <1>5, WireOperators, OperatorsOfTypes DEF Type
  <2>2. UsesValues(c) /\ TakesList(w, t)
    BY <2>1 DEF UsesValues, TakesList
  <2>3. OperandsFit(c) <=> c.value = NoValue /\ Len(c.values) \in 1..MaxValues
    <3>1. Base(c.op) # "exists"
      BY <1>5 DEF Base
    <3> QED BY <2>2, <3>1 DEF OperandsFit
  <2>4. ValidValues(e, t) <=> c.values # <<>> /\ listed
    <3>1. w # "exists" /\ w # "between"
      BY <2>1
    <3>2. ValidValues(e, t) <=> c.values # <<>> /\ \A i \in DOMAIN c.values : ValidValue(c.values[i], ElementType(t))
      <4> HIDE DEF e, t, w
      <4> QED BY <1>2, <2>2, <3>1 DEF ValidValues
    <3> QED BY <1>3, <3>2
  <2>5. HasOperands(c) <=> c.value = NoValue /\ Len(c.values) \in 1..MaxValues /\ listed
    <3> HIDE DEF listed
    <3> QED BY <1>5 DEF HasOperands, listed
  <2>6. Len(c.values) \in 1..MaxValues => c.values # <<>>
    OBVIOUS
  <2> HIDE DEF listed, t, w, e
  <2> QED BY <2>1, <2>3, <2>4, <2>5, <2>6 DEF OperandsAccepted, e, t
<1>6. CASE c.op = "between"
  <2>1. w = "between" /\ c.op # "prefix"
    BY <1>6, WireOperators
  <2>2. UsesValues(c) /\ TakesList(w, t)
    BY <2>1 DEF UsesValues, TakesList
  <2>3. OperandsFit(c) <=> c.value = NoValue /\ Len(c.values) \in 1..MaxValues
    <3>1. Base(c.op) # "exists"
      BY <1>6 DEF Base
    <3> QED BY <2>2, <3>1 DEF OperandsFit
  <2>4. ValidValues(e, t) <=> Len(c.values) = 2 /\ listed
    <3>1. ValidValues(e, t) <=> Len(c.values) = 2 /\ \A i \in DOMAIN c.values : ValidValue(c.values[i], ElementType(t))
      <4> HIDE DEF e, t, w
      <4> QED BY <1>2, <2>1, <2>2 DEF ValidValues
    <3> QED BY <1>3, <3>1
  <2>5. HasOperands(c) <=> c.value = NoValue /\ Len(c.values) = 2 /\ listed
    <3> HIDE DEF listed
    <3> QED BY <1>6 DEF HasOperands, listed
  <2>6. Len(c.values) = 2 => Len(c.values) \in 1..MaxValues
    BY LimitAssumption
  <2> HIDE DEF listed, t, w, e
  <2> QED BY <2>1, <2>3, <2>4, <2>5, <2>6 DEF OperandsAccepted, e, t
<1>7. CASE c.op \in {"eq", "ne", "prefix", "has", "gt", "gte", "lt", "lte"}
  <2>1. /\ w \in {"==", "!=", "startsWith", "in", ">", ">=", "<", "<="}
        /\ w = "in" => t = "string_array"
        /\ c.op = "prefix" => t = "string"
    BY <1>1, <1>7, WireOperators, OperatorsOfTypes DEF Type
  <2>2. ~UsesValues(c) /\ ~TakesList(w, t)
    BY <2>1 DEF UsesValues, TakesList
  <2>3. OperandsFit(c) <=> c.values = <<>> /\ c.value # NoValue
    <3>1. Base(c.op) # "exists"
      BY <1>7 DEF Base
    <3> QED BY <2>2, <3>1 DEF OperandsFit
  <2>4. ValidValues(e, t) <=> ValidValue(c.value, ElementType(t))
    <3>1. w # "exists"
      BY <2>1
    <3> HIDE DEF e, t, w
    <3> QED BY <1>2, <2>2, <3>1 DEF ValidValues
  <2>5. HasOperands(c) <=> fits(c.value) /\ c.values = <<>> /\ ~(c.op = "prefix" /\ c.value[2][2] = "")
    <3> HIDE DEF fits
    <3> QED BY <1>7 DEF HasOperands, fits
  <2>6. c.op = "prefix" /\ fits(c.value) => (c.value = Literal(<<"string", "">>) <=> c.value[2][2] = "")
    <3> SUFFICES ASSUME c.op = "prefix", fits(c.value)
                 PROVE  c.value = Literal(<<"string", "">>) <=> c.value[2][2] = ""
      OBVIOUS
    <3> DEFINE l == c.value[2]
    <3>1. l[1] = "string" /\ c.value = Literal(l) /\ l = <<l[1], l[2]>>
      BY <1>1, <2>1, OperandIs, LiteralIs DEF ElementType
    <3>2. Literal(<<"string", "">>)[2][2] = ""
      BY DEF Literal
    <3> HIDE DEF l
    <3> QED BY <3>1, <3>2 DEF l
  <2>7. c.value # NoValue => (ValidValue(c.value, ElementType(t)) <=> fits(c.value))
    BY <1>3
  <2>8. fits(c.value) => c.value # NoValue
    OBVIOUS
  <2> HIDE DEF fits, t, w, e
  <2> QED BY <2>3, <2>4, <2>5, <2>6, <2>7, <2>8 DEF OperandsAccepted, e, t
<1>8. c.op \in {"exists", "not_exists", "in", "not_in", "has_any", "has_all", "between",
               "eq", "ne", "prefix", "has", "gt", "gte", "lt", "lte"}
  BY DEF OperatorsFor, Operators
<1> QED BY <1>4, <1>5, <1>6, <1>7, <1>8

\* A condition is taken exactly if it is as advertised.
LEMMA AcceptedIs ==
    ASSUME NEW c \in Condition
    PROVE  FieldOf[c.field].filterable /\ Accepted(c) <=> WellFormed(c)
<1> DEFINE t == FieldOf[c.field].type
           w == wireOps(Base(c.op))
           e == LeafOfCondition(c)
<1>1. t \in Type
  BY ConditionIs
<1>2. Accepted(c) <=> c.op \in Operators /\ Offered(c.op, t) /\ OperandsAccepted(c)
  <2>1. ValidLeaf(e, t, "filter") <=> w \in Allowed(t, "filter") /\ ValidValues(e, t)
    <3>1. e.op = w
      BY LeafOfConditionIs
    <3> HIDE DEF e, w
    <3> QED BY <3>1 DEF ValidLeaf
  <2>2. c.op \in Operators => (Offered(c.op, t) <=> w \in Allowed(t, "filter") /\ (w = "in" => ((t = "string_array") = (c.op = "has"))))
    BY <1>1, OfferedIs
  <2> QED BY <2>1, <2>2 DEF Accepted, OperandsAccepted
<1>3. c.op \in OperatorsFor(t) <=> c.op \in Operators /\ Offered(c.op, t)
  BY <1>1, OfferedWhen
<1> QED BY <1>2, <1>3, OperandsAcceptedIs, WellFormedIs
-----------------------------------------------------------------------------
(* What a condition selects.                                               *)

\* The operator of a condition, and the operands that go with it.
LEMMA WellFormedCases ==
    ASSUME NEW c \in Condition, WellFormed(c)
    PROVE  LET t == FieldOf[c.field].type
               fits(v) == v \in Operand /\ v[2][1] = ElementType(t)
               listed == \A i \in DOMAIN c.values : fits(c.values[i])
           IN \/ c.op \in {"exists", "not_exists"} /\ t = "string"
              \/ c.op \in {"eq", "ne"} /\ fits(c.value)
              \/ c.op \in {"gt", "gte", "lt", "lte"} /\ t = "number" /\ fits(c.value)
              \/ c.op = "prefix" /\ t = "string" /\ fits(c.value)
              \/ c.op = "has" /\ t = "string_array" /\ fits(c.value)
              \/ c.op \in {"in", "not_in"} /\ t = "string" /\ listed
              \/ c.op \in {"has_any", "has_all"} /\ t = "string_array" /\ listed
              \/ c.op = "between" /\ t = "number" /\ listed /\ Len(c.values) = 2
<1> DEFINE t == FieldOf[c.field].type
           fits(v) == v \in Operand /\ v[2][1] = ElementType(t)
           listed == \A i \in DOMAIN c.values : fits(c.values[i])
<1>1. t \in Type /\ c.values \in Seq(Operand) /\ (c.value = NoValue \/ c.value \in Operand)
  BY ConditionIs
<1>2. c.op \in OperatorsFor(t) /\ HasOperands(c)
  BY WellFormedIs
<1>3. \A i \in DOMAIN c.values : c.values[i] \in Operand
  BY <1>1
<1>4. CASE c.op \in {"exists", "not_exists"}
  BY <1>1, <1>2, <1>4, OperatorsOfTypes DEF Type
<1>5. CASE c.op \in {"in", "not_in", "has_any", "has_all"}
  <2>1. listed
    BY <1>2, <1>3, <1>5 DEF HasOperands
  <2>2. c.op \in {"in", "not_in"} => t = "string"
    BY <1>1, <1>2, OperatorsOfTypes DEF Type
  <2>3. c.op \in {"has_any", "has_all"} => t = "string_array"
    BY <1>1, <1>2, OperatorsOfTypes DEF Type
  <2> HIDE DEF listed, fits, t
  <2> QED BY <1>5, <2>1, <2>2, <2>3 DEF listed, fits, t
<1>6. CASE c.op = "between"
  <2>1. listed /\ Len(c.values) = 2
    BY <1>2, <1>3, <1>6 DEF HasOperands
  <2>2. t = "number"
    BY <1>1, <1>2, <1>6, OperatorsOfTypes DEF Type
  <2> HIDE DEF listed, fits, t
  <2> QED BY <1>6, <2>1, <2>2 DEF listed, fits, t
<1>7. CASE c.op \in {"eq", "ne", "prefix", "has", "gt", "gte", "lt", "lte"}
  <2>1. fits(c.value)
    BY <1>1, <1>2, <1>7 DEF HasOperands
  <2>2. c.op = "prefix" => t = "string"
    BY <1>1, <1>2, OperatorsOfTypes DEF Type
  <2>3. c.op = "has" => t = "string_array"
    BY <1>1, <1>2, OperatorsOfTypes DEF Type
  <2>4. c.op \in {"gt", "gte", "lt", "lte"} => t = "number"
    BY <1>1, <1>2, OperatorsOfTypes DEF Type
  <2> HIDE DEF listed, fits, t
  <2> QED BY <1>7, <2>1, <2>2, <2>3, <2>4 DEF listed, fits, t
<1>8. c.op \in {"exists", "not_exists", "in", "not_in", "has_any", "has_all", "between",
               "eq", "ne", "prefix", "has", "gt", "gte", "lt", "lte"}
  BY <1>2 DEF OperatorsFor, Operators
<1> HIDE DEF listed, fits, t
<1> QED BY <1>4, <1>5, <1>6, <1>7, <1>8 DEF listed, fits, t

LEMMA TypedIs ==
    ASSUME NEW t, NEW x \in Typed(t)
    PROVE  t = "number" => x[1] = "number" /\ x[2] \in Int
BY DEF Typed

\* The guarded test of a condition says what the condition says of a value.
LEMMA ConditionTest ==
    ASSUME NEW c \in Condition, WellFormed(c), c.op \notin {"exists", "not_exists"},
           NEW row, row[c.field] \in Typed(FieldOf[c.field].type)
    PROVE  Guarded(LeafOfCondition(c), Negates(c), <<>>, row) = "T" <=> Says(c, row[c.field])
<1> DEFINE t == FieldOf[c.field].type
           x == row[c.field]
           e == LeafOfCondition(c)
           w == wireOps(Base(c.op))
           v == IF e.value = NoValue THEN NoValue ELSE ValueOf(e.value, <<>>)
           vs == [i \in DOMAIN e.values |-> ValueOf(e.values[i], <<>>)]
           fits(u) == u \in Operand /\ u[2][1] = ElementType(t)
           listed == \A i \in DOMAIN c.values : fits(c.values[i])
<1>1. c.field \in Key /\ t \in Type /\ c.values \in Seq(Operand)
  BY ConditionIs
<1>2. e.op = w /\ e.field = c.field /\ e.value = c.value /\ e.values = c.values
  BY LeafOfConditionIs
<1>3. c.value \in Operand => v = c.value[2] /\ v \in Literals
  BY <1>2, OperandIs
<1>4. DOMAIN vs = DOMAIN c.values /\ \A i \in DOMAIN c.values : vs[i] = c.values[i][2] /\ vs[i] \in Literals
  BY <1>1, <1>2, OperandIs
<1>5. ASSUME w \in Comparison, ~Negates(c)
      PROVE  Guarded(e, Negates(c), <<>>, row) = "T" <=> Compare(w, x, v)
  <2>1. Negates(c) = FALSE
    BY <1>5 DEF Negates
  <2>2. Guarded(e, FALSE, <<>>, row) = Truth(Compare(w, x, v))
    BY <1>1, <1>2, <1>5, GuardedWithValue
  <2> HIDE DEF e, w, x, v
  <2> QED BY <2>1, <2>2 DEF Truth
<1>6. ASSUME w \notin Comparison, NEW p \in BOOLEAN, Applied(w, x, v, vs) = p
      PROVE  Guarded(e, Negates(c), <<>>, row) = "T" <=> (IF Negates(c) THEN ~p ELSE p)
  <2>1. Negates(c) \in BOOLEAN
    BY DEF Negates
  <2>2. /\ Guarded(e, FALSE, <<>>, row) = "T" <=> p
        /\ Guarded(e, TRUE, <<>>, row) = "T" <=> ~p
    <3>1. e.field \in Key /\ e.op \notin Comparison /\ row[e.field] \in Typed(FieldOf[e.field].type)
      BY <1>1, <1>2, <1>6
    <3>2. Applied(e.op, row[e.field], v, vs) = p
      BY <1>2, <1>6
    <3> HIDE DEF e
    <3> QED BY <3>1, <3>2, GuardedApplied
  <2> HIDE DEF e
  <2> QED BY <2>1, <2>2
<1>7. x \in Typed(t)
  OBVIOUS
<1>8. CASE c.op \in {"eq", "ne"} /\ fits(c.value)
  <2>1. w = (IF c.op = "eq" THEN "==" ELSE "!=") /\ ~Negates(c)
    BY <1>8, WireOperators DEF Negates
  <2>2. w \in Comparison /\ (Compare(w, x, v) <=> (IF c.op = "eq" THEN x = c.value[2] ELSE x # c.value[2]))
    <3> HIDE DEF w, x, v
    <3> QED BY <1>3, <1>8, <2>1 DEF Compare, Comparison
  <2>3. Says(c, x) <=> (IF c.op = "eq" THEN x = c.value[2] ELSE x # c.value[2])
    <3> HIDE DEF x
    <3> QED BY <1>8 DEF Says
  <2> HIDE DEF w, x, v, e
  <2> QED BY <1>5, <2>1, <2>2, <2>3 DEF x, e
<1>9. CASE c.op \in {"gt", "gte", "lt", "lte"} /\ t = "number" /\ fits(c.value)
  <2>1. /\ w = CASE c.op = "gt" -> ">" [] c.op = "gte" -> ">=" [] c.op = "lt" -> "<" [] c.op = "lte" -> "<="
        /\ ~Negates(c)
    BY <1>9, WireOperators DEF Negates
  <2>2. x[2] \in Int /\ v[2] \in Int /\ v = c.value[2]
    <3>1. v = c.value[2] /\ v \in Literals /\ v[1] = "number"
      BY <1>3, <1>9 DEF ElementType
    <3>2. v[2] \in Int
      <4> HIDE DEF v
      <4> QED BY <3>1, LiteralIs
    <3>3. x[2] \in Int
      <4> HIDE DEF x, t
      <4> QED BY <1>7, <1>9, TypedIs
    <3> HIDE DEF x, v
    <3> QED BY <3>1, <3>2, <3>3
  <2>3. w \in Comparison
    BY <1>9, <2>1 DEF Comparison, Ordering
  <2>4. Compare(w, x, v) <=> Says(c, x)
    <3> DEFINE y == c.value[2][2]
    <3>1. y \in Int /\ y = v[2]
      BY <2>2
    <3>2. CASE c.op = "gt"
      <4>1. (Says(c, x) <=> x[2] > y) /\ (Compare(">", x, v) <=> x[2] > v[2])
        BY <3>2 DEF Says, Compare
      <4> HIDE DEF w, x, v, y
      <4> QED BY <2>1, <3>1, <3>2, <4>1
    <3>3. CASE c.op = "gte"
      <4>1. (Says(c, x) <=> ~(x[2] < y)) /\ (Compare(">=", x, v) <=> x[2] >= v[2])
        BY <3>3 DEF Says, Compare
      <4> HIDE DEF w, x, v, y
      <4>2. ~(x[2] < y) <=> x[2] >= v[2]
        BY <2>2, <3>1
      <4>3. w = ">="
        BY <2>1, <3>3
      <4> QED BY <4>1, <4>2, <4>3
    <3>4. CASE c.op = "lt"
      <4>1. (Says(c, x) <=> x[2] < y) /\ (Compare("<", x, v) <=> x[2] < v[2])
        BY <3>4 DEF Says, Compare
      <4> HIDE DEF w, x, v, y
      <4> QED BY <2>1, <3>1, <3>4, <4>1
    <3>5. CASE c.op = "lte"
      <4>1. (Says(c, x) <=> ~(x[2] > y)) /\ (Compare("<=", x, v) <=> x[2] <= v[2])
        BY <3>5 DEF Says, Compare
      <4> HIDE DEF w, x, v, y
      <4>2. ~(x[2] > y) <=> x[2] <= v[2]
        BY <2>2, <3>1
      <4>3. w = "<="
        BY <2>1, <3>5
      <4> QED BY <4>1, <4>2, <4>3
    <3> QED BY <1>9, <3>2, <3>3, <3>4, <3>5
  <2> HIDE DEF w, x, v, e
  <2> QED BY <1>5, <2>1, <2>3, <2>4 DEF x, e
<1>10. CASE c.op = "prefix" /\ t = "string" /\ fits(c.value)
  <2> DEFINE p == <<c.value[2][2], x[2]>> \in Prefix
  <2>1. w = "startsWith" /\ ~Negates(c) /\ w \notin Comparison
    BY <1>10, WireOperators DEF Negates, Comparison, Ordering
  <2>2. Applied(w, x, v, vs) = p
    <3>1. v = c.value[2]
      BY <1>3, <1>10
    <3> HIDE DEF w, x, v, vs
    <3> QED BY <2>1, <3>1 DEF Applied
  <2>3. Says(c, x) <=> p
    <3> HIDE DEF x
    <3> QED BY <1>10 DEF Says
  <2>4. p \in BOOLEAN
    OBVIOUS
  <2> HIDE DEF w, x, v, vs, e, p
  <2> QED BY <1>6, <2>1, <2>2, <2>3, <2>4 DEF x, e
<1>11. CASE c.op = "has" /\ t = "string_array" /\ fits(c.value)
  <2> DEFINE p == c.value[2][2] \in x[2]
  <2>1. w = "in" /\ ~Negates(c) /\ w \notin Comparison
    BY <1>11, WireOperators DEF Negates, Comparison, Ordering
  <2>2. Applied(w, x, v, vs) = p
    <3>1. v = c.value[2]
      BY <1>3, <1>11
    <3>2. x[1] = "string_array"
      BY <1>1, <1>7, <1>11, TypedTag
    <3> HIDE DEF w, x, v, vs
    <3> QED BY <2>1, <3>1, <3>2 DEF Applied
  <2>3. Says(c, x) <=> p
    <3> HIDE DEF x
    <3> QED BY <1>11 DEF Says
  <2>4. p \in BOOLEAN
    OBVIOUS
  <2> HIDE DEF w, x, v, vs, e, p
  <2> QED BY <1>6, <2>1, <2>2, <2>3, <2>4 DEF x, e
<1>12. CASE c.op \in {"in", "not_in"} /\ t = "string" /\ listed
  <2> DEFINE p == \E i \in DOMAIN c.values : c.values[i][2] = x
  <2>1. w = "in" /\ (Negates(c) <=> c.op = "not_in") /\ w \notin Comparison
    BY <1>12, WireOperators DEF Negates, Comparison, Ordering
  <2>2. Applied(w, x, v, vs) = p
    <3>1. x[1] # "string_array"
      BY <1>1, <1>7, <1>12, TypedTag
    <3>2. Applied(w, x, v, vs) = (x \in Elements(vs))
      <4> HIDE DEF w, x, v, vs
      <4> QED BY <2>1, <3>1 DEF Applied
    <3>3. x \in Elements(vs) <=> p
      <4> HIDE DEF x, vs
      <4> QED BY <1>4 DEF Elements
    <3> HIDE DEF w, x, v, vs, p
    <3> QED BY <3>2, <3>3
  <2>3. Says(c, x) <=> (IF c.op = "not_in" THEN ~p ELSE p)
    <3> HIDE DEF x
    <3> QED BY <1>12 DEF Says
  <2>4. p \in BOOLEAN
    OBVIOUS
  <2> HIDE DEF w, x, v, vs, e, p
  <2> QED BY <1>6, <2>1, <2>2, <2>3, <2>4 DEF x, e
<1>13. CASE c.op \in {"has_any", "has_all"} /\ t = "string_array" /\ listed
  <2> DEFINE some == \E i \in DOMAIN c.values : c.values[i][2][2] \in x[2]
             all == \A i \in DOMAIN c.values : c.values[i][2][2] \in x[2]
             p == IF c.op = "has_any" THEN some ELSE all
  <2>1. w = (IF c.op = "has_any" THEN "hasAny" ELSE "hasAll") /\ ~Negates(c) /\ w \notin Comparison
    BY <1>13, WireOperators DEF Negates, Comparison, Ordering
  <2>2. Applied(w, x, v, vs) = p
    <3>1. ((\E u \in Elements(vs) : u[2] \in x[2]) <=> some) /\ ((\A u \in Elements(vs) : u[2] \in x[2]) <=> all)
      <4> HIDE DEF x, vs
      <4> QED BY <1>4 DEF Elements
    <3>2. /\ Applied("hasAny", x, v, vs) = \E u \in Elements(vs) : u[2] \in x[2]
          /\ Applied("hasAll", x, v, vs) = \A u \in Elements(vs) : u[2] \in x[2]
      <4> HIDE DEF x, v, vs
      <4> QED BY DEF Applied, Comparison, Ordering
    <3>3. CASE c.op = "has_any"
      <4>1. w = "hasAny" /\ p = some
        BY <2>1, <3>3
      <4> HIDE DEF w, x, v, vs, p
      <4> QED BY <3>1, <3>2, <4>1
    <3>4. CASE c.op = "has_all"
      <4>1. w = "hasAll" /\ p = all
        BY <2>1, <3>4
      <4> HIDE DEF w, x, v, vs, p
      <4> QED BY <3>1, <3>2, <4>1
    <3> HIDE DEF w, x, v, vs, p
    <3> QED BY <1>13, <3>3, <3>4
  <2>3. Says(c, x) <=> p
    <3> HIDE DEF x
    <3> QED BY <1>13 DEF Says
  <2>4. p \in BOOLEAN
    OBVIOUS
  <2> HIDE DEF w, x, v, vs, e, p
  <2> QED BY <1>6, <2>1, <2>2, <2>3, <2>4 DEF x, e
<1>14. CASE c.op = "between" /\ t = "number" /\ listed /\ Len(c.values) = 2
  <2> DEFINE lo == c.values[1][2][2]
             hi == c.values[2][2][2]
             p == lo <= x[2] /\ x[2] <= hi
  <2>1. w = "between" /\ ~Negates(c) /\ w \notin Comparison
    BY <1>14, WireOperators DEF Negates, Comparison, Ordering
  <2>2. 1 \in DOMAIN c.values /\ 2 \in DOMAIN c.values
    BY <1>1, <1>14
  <2>3. Applied(w, x, v, vs) = p
    <3>1. vs[1] = c.values[1][2] /\ vs[2] = c.values[2][2]
      BY <1>4, <2>2
    <3> HIDE DEF w, x, v, vs
    <3> QED BY <2>1, <3>1 DEF Applied
  <2>4. lo \in Int /\ hi \in Int /\ x[2] \in Int
    <3>1. x[2] \in Int
      <4> HIDE DEF x, t
      <4> QED BY <1>7, <1>14, TypedIs
    <3>2. \A i \in DOMAIN c.values : c.values[i][2] \in Literals /\ c.values[i][2][1] = "number"
      BY <1>4, <1>14 DEF ElementType
    <3>3. \A i \in DOMAIN c.values : c.values[i][2][2] \in Int
      BY <3>2, LiteralIs
    <3> HIDE DEF x
    <3> QED BY <2>2, <3>1, <3>3
  <2>5. Says(c, x) <=> p
    <3>1. Says(c, x) <=> x[2] \in lo..hi
      <4> HIDE DEF x, lo, hi
      <4> QED BY <1>14 DEF Says, lo, hi
    <3> HIDE DEF x, lo, hi
    <3> QED BY <2>4, <3>1
  <2>6. p \in BOOLEAN
    OBVIOUS
  <2> HIDE DEF w, x, v, vs, e, p
  <2> QED BY <1>6, <2>1, <2>3, <2>5, <2>6 DEF x, e
<1> QED BY <1>8, <1>9, <1>10, <1>11, <1>12, <1>13, <1>14, WellFormedCases

\* What a condition selects, by the SQL that is emitted for it.
Selects(c, row) ==
    IF c.op \in {"exists", "not_exists"}
    THEN (~FieldOf[c.field].map \/ row[c.field] # Missing) # Negates(c)
    ELSE Guarded(LeafOfCondition(c), Negates(c), <<>>, row) = "T"

LEMMA ConditionEmits ==
    ASSUME NEW c, c.op \in Operators, NEW sql, NEW row
    PROVE  /\ LeafOfCondition(c).op \notin Connective \cup {"true", "false"}
           /\ \A negated : EmitNode(LeafOfCondition(c), negated, sql, <<>>, row) \in Truths
           /\ Selects(c, row) <=> EmitNode(LeafOfCondition(c), Negates(c), sql, <<>>, row) = "T"
<1> DEFINE e == LeafOfCondition(c)
           w == wireOps(Base(c.op))
<1>1. e.op = w /\ e.field = c.field
  BY LeafOfConditionIs
<1>2. /\ w \in {"==", "!=", ">", ">=", "<", "<=", "in", "hasAny", "hasAll", "startsWith", "between", "exists"}
      /\ w = "exists" <=> c.op \in {"exists", "not_exists"}
  BY WireOperators DEF Operators
<1>3. w \notin Connective \cup {"true", "false"}
  BY <1>2 DEF Connective
<1>4. CASE w = "exists"
  <2> DEFINE there(negated) == (~FieldOf[c.field].map \/ row[c.field] # Missing) # negated
  <2>1. \A negated : EmitNode(e, negated, sql, <<>>, row) = Truth(there(negated))
    <3> HIDE DEF e, w
    <3> QED BY <1>1, <1>4 DEF EmitNode
  <2>2. Selects(c, row) <=> there(Negates(c))
    BY <1>2, <1>4 DEF Selects
  <2> HIDE DEF e, w, there
  <2> QED BY <1>1, <1>3, <2>1, <2>2, TruthsClosed DEF Truth, e
<1>5. CASE w # "exists"
  <2>1. \A negated : EmitNode(e, negated, sql, <<>>, row) = Guarded(e, negated, <<>>, row)
    <3>1. e.op \notin Connective \cup {"true", "false", "exists"}
      BY <1>1, <1>3, <1>5
    <3> HIDE DEF e
    <3> QED BY <3>1, EmitLeaf
  <2>2. Selects(c, row) <=> Guarded(e, Negates(c), <<>>, row) = "T"
    BY <1>2, <1>5 DEF Selects
  <2>3. \A negated : Guarded(e, negated, <<>>, row) \in Truths
    BY GuardedTyped
  <2> HIDE DEF e, w
  <2> QED BY <1>1, <1>3, <2>1, <2>2, <2>3 DEF e
<1> QED BY <1>4, <1>5

\* A condition that is as advertised selects what it means.
LEMMA ConditionMeans ==
    ASSUME NEW c \in Condition, WellFormed(c), NEW row, Fits(row, c.field), Parses(row, c.field)
    PROVE  Selects(c, row) <=> Meant(c, row[c.field])
<1> DEFINE x == row[c.field]
           t == FieldOf[c.field].type
           e == LeafOfCondition(c)
<1>1. c.field \in Key /\ t \in Type /\ e.field = c.field
  BY ConditionIs, LeafOfConditionIs
<1>2. CASE c.op \in {"exists", "not_exists"}
  <2>1. x = Missing => FieldOf[c.field].map
    BY <1>1, TypedTag, TagsDiffer DEF Fits
  <2>2. Selects(c, row) <=> (IF Negates(c) THEN x = Missing ELSE x # Missing)
    <3>1. Negates(c) \in BOOLEAN
      BY DEF Negates
    <3>2. Selects(c, row) <=> ((~FieldOf[c.field].map \/ x # Missing) # Negates(c))
      BY <1>2 DEF Selects
    <3> HIDE DEF x
    <3>3. CASE Negates(c) = TRUE
      BY <2>1, <3>2, <3>3
    <3>4. CASE Negates(c) = FALSE
      BY <2>1, <3>2, <3>4
    <3> QED BY <3>1, <3>3, <3>4
  <2>3. Negates(c) <=> c.op = "not_exists"
    BY <1>2 DEF Negates
  <2>4. Meant(c, x) <=> (IF c.op = "not_exists" THEN x = Missing ELSE x # Missing)
    <3> HIDE DEF x
    <3> QED BY <1>2 DEF Meant
  <2> HIDE DEF x
  <2> QED BY <1>2, <2>2, <2>3, <2>4 DEF x
<1>3. CASE c.op \notin {"exists", "not_exists"}
  <2>1. Selects(c, row) <=> Guarded(e, Negates(c), <<>>, row) = "T"
    BY <1>3 DEF Selects
  <2>2. Meant(c, x) <=> x \notin {Missing, Null, Malformed} /\ Says(c, x)
    <3> HIDE DEF x
    <3> QED BY <1>3 DEF Meant
  <2>3. CASE ValueIn(row, c.field) = Unknown
    <3>1. x \in {Missing, Null, Malformed}
      BY <1>1, <2>3, ValueInIs
    <3>2. Guarded(e, Negates(c), <<>>, row) \in {"F", "N"}
      <4> HIDE DEF e
      <4> QED BY <1>1, <2>3, GuardedWithoutValue
    <3> HIDE DEF e, x
    <3> QED BY <2>1, <2>2, <3>1, <3>2 DEF x
  <2>4. CASE ValueIn(row, c.field) # Unknown
    <3>1. x \notin {Missing, Null, Malformed} /\ x \in Typed(t)
      BY <1>1, <2>4, ValueInIs
    <3>2. Guarded(e, Negates(c), <<>>, row) = "T" <=> Says(c, x)
      BY <1>3, <3>1, ConditionTest
    <3> HIDE DEF e, x
    <3> QED BY <2>1, <2>2, <3>1, <3>2 DEF x
  <2> QED BY <2>3, <2>4
<1> QED BY <1>2, <1>3

-----------------------------------------------------------------------------
(* The conjunction of the conditions.                                      *)

Place(f, n) == IF Negates(f[n]) THEN Len(f) + n ELSE n
Places(f) == {Place(f, m) : m \in DOMAIN f}

\* The node of the conjunction for each number.
LEMMA ConjunctionIs ==
    ASSUME NEW f \in Seq(Condition)
    PROVE  LET e == Conjunction(f)
               top == 2 * Len(f) + 1
           IN /\ e.root = top
              /\ DOMAIN e.node = DOMAIN f \cup Places(f) \cup {top}
              /\ \A n \in DOMAIN f : e.node[n] = LeafOfCondition(f[n])
              /\ e.node[top].op = "and"
              /\ e.node[top].children = [m \in DOMAIN f |-> Place(f, m)]
              /\ \A n \in DOMAIN f : Negates(f[n]) =>
                    e.node[Len(f) + n].op = "not" /\ e.node[Len(f) + n].children = <<n>>
<1> DEFINE L == Len(f)
           top == 2 * L + 1
           e == Conjunction(f)
           D == DOMAIN f \cup Places(f) \cup {top}
           children == [m \in DOMAIN f |-> Place(f, m)]
           node(n) == IF n \in DOMAIN f THEN LeafOfCondition(f[n])
                      ELSE IF n = top THEN Node("and", children) ELSE Node("not", <<n - L>>)
<1>1. e.root = top /\ e.node = [n \in D |-> node(n)]
  BY DEF Conjunction, Place, Places
<1>2. DOMAIN f = 1..L /\ L \in Nat
  OBVIOUS
<1>3. top \notin DOMAIN f /\ \A n \in DOMAIN f : L + n \notin DOMAIN f /\ L + n # top /\ (L + n) - L = n
  BY <1>2
<1>4. \A n \in DOMAIN f : Negates(f[n]) => L + n \in D
  BY DEF Places, Place
<1>5. e.node[top] = Node("and", children)
  <2>1. e.node[top] = node(top)
    BY <1>1
  <2> QED BY <1>3, <2>1
<1>6. ASSUME NEW n \in DOMAIN f, Negates(f[n])
      PROVE  e.node[L + n] = Node("not", <<n>>)
  <2>1. e.node[L + n] = node(L + n)
    <3> HIDE DEF node, e, D
    <3> QED BY <1>1, <1>4, <1>6
  <2>2. (L + n) - L = n
    BY <1>2
  <2> QED BY <1>3, <1>6, <2>1, <2>2
<1>7. \A n \in DOMAIN f : e.node[n] = LeafOfCondition(f[n])
  BY <1>1
<1>8. DOMAIN e.node = D
  BY <1>1
<1>9. e.node[top].op = "and" /\ e.node[top].children = children
  <2> HIDE DEF e, children, top
  <2> QED BY <1>5, NodeFields
<1>10. \A n \in DOMAIN f : Negates(f[n]) => e.node[L + n].op = "not" /\ e.node[L + n].children = <<n>>
  <2> SUFFICES ASSUME NEW n \in DOMAIN f, Negates(f[n])
               PROVE  e.node[L + n].op = "not" /\ e.node[L + n].children = <<n>>
    OBVIOUS
  <2> DEFINE l == Node("not", <<n>>)
  <2>1. l.op = "not" /\ l.children = <<n>>
    BY NodeFields
  <2>2. e.node[L + n] = l
    BY <1>6
  <2> HIDE DEF e, L, l
  <2> QED BY <2>1, <2>2
<1>11. e.root = top
  BY <1>1
<1> QED BY <1>7, <1>8, <1>9, <1>10, <1>11

LEMMA ConjunctionRanked ==
    ASSUME NEW f \in Seq(Condition), \A i \in DOMAIN f : f[i].op \in Operators
    PROVE  RankedExpression(Conjunction(f))
<1> DEFINE L == Len(f)
           top == 2 * L + 1
           e == Conjunction(f)
           D == DOMAIN e.node
           NodeRanked(n) == Ranked(D, n, e.node[n].op, e.node[n].children)
<1>1. DOMAIN f = 1..L /\ L \in Nat
  OBVIOUS
<1>2. D = DOMAIN f \cup Places(f) \cup {top}
  BY ConjunctionIs
<1>3. \A m \in DOMAIN f : Place(f, m) \in Nat /\ Place(f, m) < top /\ Place(f, m) \in D
  BY <1>1, <1>2 DEF Place, Places
<1>4. D \subseteq Nat
  BY <1>1, <1>2, <1>3 DEF Places
<1>5. ASSUME NEW n \in DOMAIN f
      PROVE  NodeRanked(n)
  <2>1. e.node[n] = LeafOfCondition(f[n])
    BY ConjunctionIs
  <2>2. LeafOfCondition(f[n]).op \notin Connective
    BY ConditionEmits
  <2> HIDE DEF e, D
  <2> QED BY <2>1, <2>2 DEF Ranked, Connective
<1>6. NodeRanked(top)
  <2>1. e.node[top].op = "and" /\ e.node[top].children = [m \in DOMAIN f |-> Place(f, m)]
    BY ConjunctionIs
  <2>2. Elements([m \in DOMAIN f |-> Place(f, m)]) \subseteq {o \in D : o < top}
    <3> HIDE DEF e, top, D
    <3> QED BY <1>3 DEF Elements
  <2> HIDE DEF e, D, top
  <2> QED BY <2>1, <2>2 DEF Ranked
<1>7. ASSUME NEW n \in DOMAIN f, Negates(f[n])
      PROVE  NodeRanked(L + n)
  <2>1. e.node[L + n].op = "not" /\ e.node[L + n].children = <<n>>
    BY <1>7, ConjunctionIs
  <2>2. n \in D /\ n < L + n
    BY <1>1, <1>2
  <2> HIDE DEF e, D, L
  <2> QED BY <2>1, <2>2 DEF Ranked
<1>8. \A n \in D : NodeRanked(n)
  <2> HIDE DEF NodeRanked, top, D
  <2> QED BY <1>2, <1>5, <1>6, <1>7 DEF Places, Place
<1> HIDE DEF e, D
<1> QED BY <1>4, <1>8 DEF RankedExpression, D, e

\* The conjunction selects what all of the conditions select.
LEMMA ConjunctionHolds ==
    ASSUME NEW f \in Seq(Condition), \A i \in DOMAIN f : f[i].op \in Operators, NEW row
    PROVE  Holds(Conjunction(f), <<>>, row) <=> \A i \in DOMAIN f : Selects(f[i], row)
<1> DEFINE L == Len(f)
           top == 2 * L + 1
           e == Conjunction(f)
           D == DOMAIN e.node
           sql == Emit(e, <<>>, row)
<1>1. sql = [n \in D |-> [negated \in BOOLEAN |-> EmitNode(e.node[n], negated, sql, <<>>, row)]]
  BY ConjunctionRanked, EmitIsDefined
<1>2. \A n \in D : \A negated \in BOOLEAN : sql[n][negated] = EmitNode(e.node[n], negated, sql, <<>>, row)
  <2> HIDE DEF sql, D, e
  <2> SUFFICES ASSUME NEW n \in D, NEW negated \in BOOLEAN
               PROVE  sql[n][negated] = EmitNode(e.node[n], negated, sql, <<>>, row)
    OBVIOUS
  <2>1. sql[n] = [b \in BOOLEAN |-> EmitNode(e.node[n], b, sql, <<>>, row)]
    BY <1>1
  <2> QED BY <2>1
<1>3. /\ D = DOMAIN f \cup Places(f) \cup {top}
      /\ \A n \in DOMAIN f : e.node[n] = LeafOfCondition(f[n])
      /\ e.node[top].op = "and" /\ e.node[top].children = [m \in DOMAIN f |-> Place(f, m)]
  BY ConjunctionIs
<1>4. ASSUME NEW n \in DOMAIN f
      PROVE  sql[Place(f, n)][FALSE] \in Truths /\ (sql[Place(f, n)][FALSE] = "T" <=> Selects(f[n], row))
  <2>1. \A negated \in BOOLEAN : sql[n][negated] = EmitNode(LeafOfCondition(f[n]), negated, sql, <<>>, row)
    BY <1>2, <1>3
  <2>2. sql[Place(f, n)][FALSE] = sql[n][Negates(f[n])]
    <3>1. CASE Negates(f[n]) = TRUE
      <4>1. Place(f, n) = L + n /\ Place(f, n) \in D
        BY <1>3, <3>1 DEF Place, Places
      <4>2. e.node[L + n].op = "not" /\ e.node[L + n].children = <<n>>
        BY <3>1, ConjunctionIs
      <4>3. EmitNode(e.node[L + n], FALSE, sql, <<>>, row) = sql[n][TRUE]
        <5>1. <<n>>[1] = n
          OBVIOUS
        <5> HIDE DEF e, sql
        <5> QED BY <4>2, <5>1, EmitNot, ZenonT(60)
      <4> HIDE DEF e, sql, D, L
      <4> QED BY <1>2, <3>1, <4>1, <4>3
    <3>2. CASE Negates(f[n]) = FALSE
      BY <3>2 DEF Place
    <3>3. Negates(f[n]) \in BOOLEAN
      BY DEF Negates
    <3> QED BY <3>1, <3>2, <3>3
  <2>3. sql[n][Negates(f[n])] = EmitNode(LeafOfCondition(f[n]), Negates(f[n]), sql, <<>>, row)
    <3>1. Negates(f[n]) \in BOOLEAN
      BY DEF Negates
    <3> HIDE DEF sql
    <3> QED BY <2>1, <3>1
  <2> HIDE DEF sql
  <2> QED BY <2>2, <2>3, ConditionEmits
<1>5. sql[top][FALSE] = Conj({sql[o][FALSE] : o \in Places(f)})
  <2>1. Elements(e.node[top].children) = Places(f)
    <3> HIDE DEF e, top
    <3> QED BY <1>3 DEF Elements, Places
  <2>2. EmitNode(e.node[top], FALSE, sql, <<>>, row) = Conj({sql[o][FALSE] : o \in Elements(e.node[top].children)})
    <3>1. e.node[top].op = "and"
      BY <1>3
    <3> HIDE DEF e, top, sql
    <3> QED BY <3>1 DEF EmitNode
  <2> HIDE DEF sql, e, top, D
  <2> QED BY <1>2, <1>3, <2>1, <2>2
<1>6. {sql[o][FALSE] : o \in Places(f)} \subseteq Truths
  <2> HIDE DEF sql
  <2> QED BY <1>4 DEF Places
<1>7. {sql[o][FALSE] : o \in Places(f)} \subseteq {"T"} <=> \A i \in DOMAIN f : Selects(f[i], row)
  <2> HIDE DEF sql
  <2> QED BY <1>4 DEF Places
<1>8. Holds(e, <<>>, row) <=> sql[top][FALSE] = "T"
  <2>1. e.root = top
    BY ConjunctionIs
  <2> QED BY <2>1 DEF Holds
<1> DEFINE S == {sql[o][FALSE] : o \in Places(f)}
<1>9. sql[top][FALSE] = "T" <=> S \subseteq {"T"}
  <2>1. sql[top][FALSE] = Conj(S) /\ S \subseteq Truths
    BY <1>5, <1>6
  <2> HIDE DEF sql, S
  <2> QED BY <2>1, ConjAndDisj
<1>10. sql[top][FALSE] = "T" <=> \A i \in DOMAIN f : Selects(f[i], row)
  BY <1>7, <1>9
<1> QED BY <1>8, <1>10

\* A predicate without a condition.
LEMMA TrueHolds ==
    ASSUME NEW A, NEW row
    PROVE  /\ Holds(Single(Node("true", <<>>)), A, row)
           /\ Satisfiable(Single(Node("true", <<>>)), A)
           /\ FieldsIn(Single(Node("true", <<>>))) = {}
           /\ \A profile : Validate(Single(Node("true", <<>>)), profile)
<1> DEFINE n == Node("true", <<>>)
           e == Single(n)
           sql == Emit(e, A, row)
<1>1. n.op = "true" /\ n.field = "" /\ n.value = NoValue /\ n.values = <<>> /\ n.children = <<>>
  BY DEF Node
<1>2. e.root = 1 /\ DOMAIN e.node = {1} /\ e.node[1] = n
  <2> HIDE DEF n
  <2> QED BY DEF Single
<1> HIDE DEF n, e
<1>3. RankedExpression(e)
  <2>1. Ranked({1}, 1, n.op, n.children)
    BY <1>1 DEF Ranked
  <2> QED BY <1>2, <2>1 DEF RankedExpression
<1>4. sql = [m \in DOMAIN e.node |-> [negated \in BOOLEAN |-> EmitNode(e.node[m], negated, sql, A, row)]]
  BY <1>3, EmitIsDefined
<1>5. sql[1][FALSE] = EmitNode(n, FALSE, sql, A, row)
  <2> HIDE DEF sql
  <2>1. sql[1] = [negated \in BOOLEAN |-> EmitNode(n, negated, sql, A, row)]
    BY <1>2, <1>4
  <2> QED BY <2>1
<1>6. EmitNode(n, FALSE, sql, A, row) = "T"
  <2> HIDE DEF sql
  <2> QED BY <1>1 DEF EmitNode, Truth
<1>7. Holds(e, A, row)
  BY <1>2, <1>5, <1>6 DEF Holds
<1>8. Satisfiable(e, A)
  <2>1. Known(n.value, A)
    BY <1>1, TagsDiffer DEF Known
  <2>2. Elements(n.values) = {}
    <3>1. Elements(<<>>) = {}
      BY DEF Elements
    <3> QED BY <1>1, <3>1
  <2> QED BY <1>2, <2>1, <2>2 DEF Satisfiable
<1>9. FieldsIn(e) = {}
  BY <1>1, <1>2 DEF FieldsIn
<1>10. \A profile : Validate(e, profile)
  BY <1>1, <1>2 DEF Validate, ValidNode, Connective
<1> QED BY <1>7, <1>8, <1>9, <1>10 DEF e, n

-----------------------------------------------------------------------------
(* Filters.                                                                *)

\* What is accepted is a valid node.
LEMMA AcceptedIsValid ==
    ASSUME NEW c \in Condition, Accepted(c)
    PROVE  ValidNode(LeafOfCondition(c), "filter") /\ c.op \in Operators
<1> DEFINE e == LeafOfCondition(c)
<1>1. c.op \in Operators /\ ValidLeaf(e, FieldOf[c.field].type, "filter")
  BY DEF Accepted
<1>2. e.op \notin Connective \cup {"true", "false"} /\ e.field = c.field
  BY <1>1, ConditionEmits, LeafOfConditionIs
<1> HIDE DEF e
<1>3. ValidNode(e, "filter")
  BY <1>1, <1>2 DEF ValidNode, TypeOf
<1> QED BY <1>1, <1>3 DEF e

LEMMA ConjunctionIsValid ==
    ASSUME NEW f \in Seq(Condition), f # <<>>, \A i \in DOMAIN f : Accepted(f[i])
    PROVE  Validate(Conjunction(f), "filter") /\ Conjunction(f) # Refused
<1> DEFINE L == Len(f)
           top == 2 * L + 1
           e == Conjunction(f)
           D == DOMAIN e.node
           valid(n) == ValidNode(e.node[n], "filter")
<1>1. DOMAIN f = 1..L /\ L \in Nat /\ L # 0
  OBVIOUS
<1>2. D = DOMAIN f \cup Places(f) \cup {top} /\ e.root = top
  BY ConjunctionIs
<1>3. \A n \in DOMAIN f : valid(n)
  <2>1. \A n \in DOMAIN f : f[n] \in Condition
    OBVIOUS
  <2>2. \A n \in DOMAIN f : e.node[n] = LeafOfCondition(f[n])
    BY ConjunctionIs
  <2> HIDE DEF e
  <2> QED BY <2>1, <2>2, AcceptedIsValid
<1>4. valid(top)
  <2>1. e.node[top].op = "and" /\ e.node[top].children = [m \in DOMAIN f |-> Place(f, m)]
    BY ConjunctionIs
  <2>2. [m \in DOMAIN f |-> Place(f, m)] # <<>>
    <3>1. 1 \in DOMAIN [m \in DOMAIN f |-> Place(f, m)] /\ 1 \notin DOMAIN <<>>
      BY <1>1
    <3> QED BY <3>1
  <2> HIDE DEF e, top
  <2> QED BY <2>1, <2>2 DEF ValidNode, Connective
<1>5. ASSUME NEW n \in DOMAIN f, Negates(f[n])
      PROVE  valid(L + n)
  <2>1. e.node[L + n].op = "not" /\ e.node[L + n].children = <<n>>
    BY <1>5, ConjunctionIs
  <2>2. Len(<<n>>) = 1
    OBVIOUS
  <2> HIDE DEF e, L
  <2> QED BY <2>1, <2>2 DEF ValidNode, Connective
<1>6. \A n \in D : valid(n)
  <2> HIDE DEF valid, top, D
  <2> QED BY <1>2, <1>3, <1>4, <1>5 DEF Places, Place
<1>7. e # Refused
  <2>1. Refused.root = 1
    BY DEF Refused, Single
  <2>2. e.root # 1
    BY <1>1, <1>2
  <2> HIDE DEF e
  <2> QED BY <2>1, <2>2
<1> HIDE DEF e
<1>8. Validate(e, "filter")
  BY <1>6 DEF Validate
<1> QED BY <1>7, <1>8 DEF e

\* What Build gives: a refusal of a filter with too many conditions or one that
\* is not as advertised, or else what all of the conditions select.
THEOREM BuildSelects ==
    ASSUME NEW f \in Seq(Condition)
    PROVE  /\ Build(f) = Refused <=> Len(f) > MaxConditions \/ \E i \in DOMAIN f : ~WellFormed(f[i])
           /\ Build(f) # Refused =>
                 /\ Validate(Build(f), "filter")
                 /\ \A row : Holds(Build(f), <<>>, row) <=> \A i \in DOMAIN f : Selects(f[i], row)
<1> DEFINE taken(c) == FieldOf[c.field].filterable /\ Accepted(c)
           bad == Len(f) > MaxConditions \/ \E i \in DOMAIN f : ~taken(f[i])
           one == Single(Node("true", <<>>))
<1>1. \A i \in DOMAIN f : f[i] \in Condition /\ (taken(f[i]) <=> WellFormed(f[i]))
  BY AcceptedIs
<1>2. bad => Build(f) = Refused
  BY DEF Build
<1>3. ASSUME ~bad, f = <<>>
      PROVE  /\ Build(f) # Refused
             /\ Validate(Build(f), "filter")
             /\ \A row : Holds(Build(f), <<>>, row) <=> \A i \in DOMAIN f : Selects(f[i], row)
  <2>1. Build(f) = one
    BY <1>3 DEF Build
  <2>2. one # Refused
    <3>1. Node("true", <<>>).op = "true" /\ RefusedNode.op = "refused"
      BY DEF Node, RefusedNode
    <3>2. Single(Node("true", <<>>)).node[1] = Node("true", <<>>) /\ Refused.node[1] = RefusedNode
      BY DEF Single, Refused
    <3> QED BY <3>1, <3>2
  <2>3. Validate(one, "filter") /\ \A row : Holds(one, <<>>, row)
    BY TrueHolds
  <2>4. DOMAIN f = {}
    BY <1>3
  <2> HIDE DEF one
  <2> QED BY <2>1, <2>2, <2>3, <2>4
<1>4. ASSUME ~bad, f # <<>>
      PROVE  /\ Build(f) # Refused
             /\ Validate(Build(f), "filter")
             /\ \A row : Holds(Build(f), <<>>, row) <=> \A i \in DOMAIN f : Selects(f[i], row)
  <2>1. Build(f) = Conjunction(f)
    BY <1>4 DEF Build
  <2>2. \A i \in DOMAIN f : Accepted(f[i])
    BY <1>4
  <2>3. Validate(Conjunction(f), "filter") /\ Conjunction(f) # Refused
    BY <1>4, <2>2, ConjunctionIsValid
  <2>4. \A i \in DOMAIN f : f[i].op \in Operators
    BY <2>2 DEF Accepted
  <2>5. \A row : Holds(Conjunction(f), <<>>, row) <=> \A i \in DOMAIN f : Selects(f[i], row)
    BY <2>4, ConjunctionHolds
  <2> QED BY <2>1, <2>3, <2>5
<1>5. bad <=> Len(f) > MaxConditions \/ \E i \in DOMAIN f : ~WellFormed(f[i])
  BY <1>1
<1> HIDE DEF bad
<1> QED BY <1>2, <1>3, <1>4, <1>5

\* A cell of a row is one its field may have.
LEMMA RowFits ==
    ASSUME NEW ks, ks \subseteq Key, NEW row \in Rows(ks), NEW k \in ks
    PROVE  Fits(row, k) /\ (row[k] = Malformed => k \in DOMAIN row)
<1>1. row[k] \in Cells[k] /\ DOMAIN row = ks
  BY DEF Rows
<1> QED BY <1>1, CellAssumption DEF Fits

-----------------------------------------------------------------------------
(* Cursors.                                                                *)

LEMMA SortedElements ==
    ASSUME NEW s, NEW t, Sorted(s) = Sorted(t)
    PROVE  Elements(s) = Elements(t)
<1>1. DOMAIN Sorted(s) = Elements(s) /\ DOMAIN Sorted(t) = Elements(t)
  BY DEF Sorted
<1> QED BY <1>1

\* Values of one type have different texts.
LEMMA SameText ==
    ASSUME NEW v \in Operand, NEW u \in Operand, Written(v), Written(u), v[2][1] = u[2][1],
           CanonicalValue(v) = CanonicalValue(u)
    PROVE  v = u
<1> DEFINE l == v[2]
           m == u[2]
<1>1. /\ l \in Literals /\ m \in Literals /\ v # NoValue /\ u # NoValue
      /\ v = Literal(l) /\ u = Literal(m)
  BY OperandIs
<1>2. /\ l = <<l[1], l[2]>> /\ m = <<m[1], m[2]>>
      /\ l[1] \in {"string", "boolean", "number"}
      /\ l[1] = "boolean" => l[2] \in BOOLEAN /\ m[2] \in BOOLEAN
  <2> HIDE DEF l, m
  <2> QED BY <1>1, LiteralIs DEF l, m
<1>3. CASE l[1] = "string"
  <2>1. CanonicalValue(v) = l[2] /\ CanonicalValue(u) = m[2]
    BY <1>1, <1>3 DEF CanonicalValue
  <2> QED BY <1>1, <1>2, <2>1
<1>4. CASE l[1] = "boolean"
  <2>1. /\ CanonicalValue(v) = IF l[2] THEN "true" ELSE "false"
        /\ CanonicalValue(u) = IF m[2] THEN "true" ELSE "false"
    BY <1>1, <1>4 DEF CanonicalValue
  <2>2. l[2] = m[2]
    <3> HIDE DEF l, m
    <3> QED BY <1>2, <1>4, <2>1
  <2> QED BY <1>1, <1>2, <2>2
<1>5. CASE l[1] = "number"
  <2>1. CanonicalValue(v) = NumberText[l[2]] /\ CanonicalValue(u) = NumberText[m[2]]
    BY <1>1, <1>5 DEF CanonicalValue
  <2>2. l[2] \in DOMAIN NumberText /\ m[2] \in DOMAIN NumberText
    BY <1>1, <1>5 DEF Written
  <2>3. l[2] = m[2]
    <3> HIDE DEF l, m
    <3> QED BY <2>1, <2>2, TextAssumption
  <2> QED BY <1>1, <1>2, <2>3
<1> QED BY <1>2, <1>3, <1>4, <1>5

\* A condition in the canonical form, and one whose bounds are in order.
CanonicalCondition(c) ==
    <<c.field, c.op, CanonicalValue(c.value), Sorted([j \in DOMAIN c.values |-> CanonicalValue(c.values[j])])>>
Ordered(c) == c.op = "between" => c.values[1][2][2] <= c.values[2][2][2]
WrittenCondition(c) == \A v \in {c.value} \cup Elements(c.values) : Written(v)

LEMMA CanonicalIs ==
    ASSUME NEW f, NEW g, Canonical(f) = Canonical(g)
    PROVE  \A i \in DOMAIN f : \E j \in DOMAIN g : CanonicalCondition(f[i]) = CanonicalCondition(g[j])
<1> DEFINE S(h) == [i \in DOMAIN h |-> CanonicalCondition(h[i])]
<1>1. Canonical(f) = Sorted(S(f)) /\ Canonical(g) = Sorted(S(g))
  BY DEF Canonical, CanonicalCondition
<1>2. Elements(S(f)) = Elements(S(g))
  <2> HIDE DEF S
  <2> QED BY <1>1, SortedElements
<1>3. {CanonicalCondition(f[i]) : i \in DOMAIN f} = {CanonicalCondition(g[i]) : i \in DOMAIN g}
  <2>1. \A h : Elements(S(h)) = {CanonicalCondition(h[i]) : i \in DOMAIN h}
    BY DEF Elements
  <2> HIDE DEF S
  <2> QED BY <1>2, <2>1, Zenon
<1> SUFFICES ASSUME NEW i \in DOMAIN f
             PROVE  \E j \in DOMAIN g : CanonicalCondition(f[i]) = CanonicalCondition(g[j])
  OBVIOUS
<1>4. CanonicalCondition(f[i]) \in {CanonicalCondition(g[j]) : j \in DOMAIN g}
  BY <1>3
<1> QED BY <1>4

\* Lists of the same texts are lists of the same values.
LEMMA SameList ==
    ASSUME NEW s \in Seq(Operand), NEW t \in Seq(Operand), NEW type,
           \A i \in DOMAIN s : s[i][2][1] = type /\ Written(s[i]),
           \A i \in DOMAIN t : t[i][2][1] = type /\ Written(t[i]),
           Sorted([j \in DOMAIN s |-> CanonicalValue(s[j])]) = Sorted([j \in DOMAIN t |-> CanonicalValue(t[j])])
    PROVE  Elements(s) = Elements(t)
<1> DEFINE text(h) == [j \in DOMAIN h |-> CanonicalValue(h[j])]
<1>1. Elements(text(s)) = Elements(text(t))
  <2> HIDE DEF text
  <2>1. Sorted(text(s)) = Sorted(text(t))
    BY DEF text
  <2> QED BY <2>1, SortedElements
<1>2. \A h : Elements(text(h)) = {CanonicalValue(h[j]) : j \in DOMAIN h}
  BY DEF Elements
<1>3. /\ \A i \in DOMAIN s : \E j \in DOMAIN t : CanonicalValue(s[i]) = CanonicalValue(t[j])
      /\ \A j \in DOMAIN t : \E i \in DOMAIN s : CanonicalValue(s[i]) = CanonicalValue(t[j])
  <2>1. {CanonicalValue(s[j]) : j \in DOMAIN s} = {CanonicalValue(t[j]) : j \in DOMAIN t}
    <3> HIDE DEF text
    <3> QED BY <1>1, <1>2, Zenon
  <2>2. ASSUME NEW i \in DOMAIN s
        PROVE  \E j \in DOMAIN t : CanonicalValue(s[i]) = CanonicalValue(t[j])
    <3>1. CanonicalValue(s[i]) \in {CanonicalValue(t[j]) : j \in DOMAIN t}
      BY <2>1
    <3> QED BY <3>1
  <2>3. ASSUME NEW j \in DOMAIN t
        PROVE  \E i \in DOMAIN s : CanonicalValue(s[i]) = CanonicalValue(t[j])
    <3>1. CanonicalValue(t[j]) \in {CanonicalValue(s[i]) : i \in DOMAIN s}
      BY <2>1
    <3> QED BY <3>1
  <2> QED BY <2>2, <2>3
<1>4. \A i \in DOMAIN s, j \in DOMAIN t : CanonicalValue(s[i]) = CanonicalValue(t[j]) => s[i] = t[j]
  <2> SUFFICES ASSUME NEW i \in DOMAIN s, NEW j \in DOMAIN t, CanonicalValue(s[i]) = CanonicalValue(t[j])
               PROVE  s[i] = t[j]
    OBVIOUS
  <2>1. s[i] \in Operand /\ t[j] \in Operand
    OBVIOUS
  <2>2. Written(s[i]) /\ Written(t[j]) /\ s[i][2][1] = t[j][2][1]
    OBVIOUS
  <2> QED BY <2>1, <2>2, SameText
<1> QED BY <1>3, <1>4 DEF Elements

\* Leaves that differ in the order of their values, when an operator does not tell.
LEMMA SameTest ==
    ASSUME NEW e, NEW d, e.op \in {"in", "hasAny", "hasAll"}, d.op = e.op, d.field = e.field,
           d.value = NoValue, e.value = NoValue, NEW A,
           LET vs == [i \in DOMAIN e.values |-> ValueOf(e.values[i], A)]
               us == [i \in DOMAIN d.values |-> ValueOf(d.values[i], A)]
           IN Elements(vs) = Elements(us),
           NEW negated, NEW row
    PROVE  Guarded(e, negated, A, row) = Guarded(d, negated, A, row)
<1> DEFINE vs == [i \in DOMAIN e.values |-> ValueOf(e.values[i], A)]
           us == [i \in DOMAIN d.values |-> ValueOf(d.values[i], A)]
           x == Read(e.field, row[e.field])
<1>1. Elements(vs) = Elements(us)
  OBVIOUS
<1>2. e.op \notin Comparison
  BY DEF Comparison, Ordering
<1>3. Applied(e.op, x, NoValue, vs) = Applied(e.op, x, NoValue, us)
  <2> HIDE DEF vs, us, x
  <2> QED BY <1>1, <1>2 DEF Applied
<1>4. /\ Test(e, negated, A, row[e.field]) = IF x = Null THEN "N" ELSE Truth(Applied(e.op, x, NoValue, vs) # negated)
      /\ Test(d, negated, A, row[e.field]) = IF x = Null THEN "N" ELSE Truth(Applied(e.op, x, NoValue, us) # negated)
  BY <1>2 DEF Test
<1>5. Test(e, negated, A, row[e.field]) = Test(d, negated, A, row[e.field])
  <2> HIDE DEF vs, us, x
  <2> QED BY <1>3, <1>4
<1> QED BY <1>5 DEF Guarded

\* Conditions with the same canonical form select the same.
LEMMA SameSelects ==
    ASSUME NEW c \in Condition, NEW d \in Condition, WellFormed(c), WellFormed(d),
           WrittenCondition(c), WrittenCondition(d), Ordered(c), Ordered(d),
           CanonicalCondition(c) = CanonicalCondition(d), NEW row
    PROVE  Selects(c, row) <=> Selects(d, row)
<1> DEFINE t == FieldOf[c.field].type
           text(h) == [j \in DOMAIN h |-> CanonicalValue(h[j])]
<1>1. /\ d.field = c.field /\ d.op = c.op
      /\ CanonicalValue(c.value) = CanonicalValue(d.value)
      /\ Sorted(text(c.values)) = Sorted(text(d.values))
  BY DEF CanonicalCondition
<1>2. HasOperands(c) /\ HasOperands(d)
  BY WellFormedIs
<1>3. c.values \in Seq(Operand) /\ d.values \in Seq(Operand)
  BY ConditionIs
<1>4. /\ Written(c.value) /\ Written(d.value)
      /\ \A i \in DOMAIN c.values : Written(c.values[i])
      /\ \A i \in DOMAIN d.values : Written(d.values[i])
  BY DEF WrittenCondition, Elements
<1>5. Negates(c) = Negates(d)
  BY <1>1 DEF Negates
<1>6. ASSUME c.value = d.value, c.values = d.values
      PROVE  Selects(c, row) <=> Selects(d, row)
  <2>1. LeafOfCondition(c) = LeafOfCondition(d)
    BY <1>1, <1>6 DEF LeafOfCondition
  <2> QED BY <1>1, <1>5, <2>1 DEF Selects
<1>7. CASE c.op \in {"exists", "not_exists"}
  BY <1>1, <1>5, <1>7 DEF Selects
<1>8. CASE c.op \in {"eq", "ne", "prefix", "has", "gt", "gte", "lt", "lte"}
  <2>1. /\ c.value # NoValue /\ c.value[2][1] = ElementType(t) /\ c.values = <<>>
        /\ d.value # NoValue /\ d.value[2][1] = ElementType(t) /\ d.values = <<>>
    <3>1. c.value # NoValue /\ c.value[2][1] = ElementType(t) /\ c.values = <<>>
      BY <1>2, <1>8 DEF HasOperands
    <3>2. d.value # NoValue /\ d.value[2][1] = ElementType(t) /\ d.values = <<>>
      BY <1>1, <1>2, <1>8 DEF HasOperands
    <3> QED BY <3>1, <3>2
  <2>2. c.value \in Operand /\ d.value \in Operand
    BY <2>1, ConditionIs
  <2>3. c.value = d.value
    BY <1>1, <1>4, <2>1, <2>2, SameText
  <2> QED BY <1>6, <2>1, <2>3
<1>9. ASSUME c.op \in {"in", "not_in", "has_any", "has_all", "between"}
      PROVE  c.value = NoValue /\ d.value = NoValue /\ Elements(c.values) = Elements(d.values)
  <2>1. c.value = NoValue /\ \A i \in DOMAIN c.values : c.values[i][2][1] = ElementType(t)
    BY <1>2, <1>9 DEF HasOperands
  <2>2. d.value = NoValue /\ \A i \in DOMAIN d.values : d.values[i][2][1] = ElementType(t)
    BY <1>1, <1>2, <1>9 DEF HasOperands
  <2>3. Elements(c.values) = Elements(d.values)
    <3> HIDE DEF t
    <3> QED BY <1>1, <1>3, <1>4, <2>1, <2>2, SameList
  <2> QED BY <2>1, <2>2, <2>3
<1>10. CASE c.op \in {"in", "not_in", "has_any", "has_all"}
  <2> DEFINE e == LeafOfCondition(c)
             l == LeafOfCondition(d)
             vs == [i \in DOMAIN e.values |-> ValueOf(e.values[i], <<>>)]
             us == [i \in DOMAIN l.values |-> ValueOf(l.values[i], <<>>)]
  <2>1. /\ e.op = wireOps(Base(c.op)) /\ e.field = c.field /\ e.value = c.value /\ e.values = c.values
        /\ l.op = wireOps(Base(c.op)) /\ l.field = c.field /\ l.value = d.value /\ l.values = d.values
    <3>1. e.op = wireOps(Base(c.op)) /\ e.field = c.field /\ e.value = c.value /\ e.values = c.values
      BY LeafOfConditionIs
    <3>2. l.op = wireOps(Base(d.op)) /\ l.field = d.field /\ l.value = d.value /\ l.values = d.values
      BY LeafOfConditionIs
    <3> HIDE DEF e, l
    <3> QED BY <1>1, <3>1, <3>2
  <2>2. wireOps(Base(c.op)) \in {"in", "hasAny", "hasAll"}
    BY <1>10, WireOperators
  <2>3. Elements(vs) = Elements(us)
    <3>1. Elements(vs) = {ValueOf(v, <<>>) : v \in Elements(c.values)}
      <4> HIDE DEF e
      <4> QED BY <2>1 DEF Elements
    <3>2. Elements(us) = {ValueOf(v, <<>>) : v \in Elements(d.values)}
      <4> HIDE DEF l
      <4> QED BY <2>1 DEF Elements
    <3> HIDE DEF vs, us
    <3> QED BY <1>9, <1>10, <3>1, <3>2
  <2>4. Guarded(e, Negates(c), <<>>, row) = Guarded(l, Negates(c), <<>>, row)
    <3>1. e.op \in {"in", "hasAny", "hasAll"} /\ l.op = e.op /\ l.field = e.field
      BY <2>1, <2>2
    <3>2. l.value = NoValue /\ e.value = NoValue
      BY <1>9, <1>10, <2>1
    <3> HIDE DEF e, l
    <3> QED BY <2>3, <3>1, <3>2, SameTest
  <2>5. /\ Selects(c, row) <=> Guarded(e, Negates(c), <<>>, row) = "T"
        /\ Selects(d, row) <=> Guarded(l, Negates(d), <<>>, row) = "T"
    BY <1>1, <1>10 DEF Selects
  <2> HIDE DEF e, l
  <2> QED BY <1>5, <2>4, <2>5
<1>11. CASE c.op = "between"
  <2> DEFINE s == c.values
             r == d.values
  <2>1. Len(s) = 2 /\ Len(r) = 2 /\ t = "number"
    <3>1. Len(s) = 2
      BY <1>2, <1>11 DEF HasOperands
    <3>2. Len(r) = 2
      BY <1>1, <1>2, <1>11 DEF HasOperands
    <3>3. t = "number"
      BY <1>11, WellFormedCases
    <3> QED BY <3>1, <3>2, <3>3
  <2>2. {s[1], s[2]} = {r[1], r[2]}
    <3>1. Elements(s) = {s[1], s[2]} /\ Elements(r) = {r[1], r[2]}
      BY <1>3, <2>1 DEF Elements
    <3> QED BY <1>9, <1>11, <3>1
  <2>3. \A u \in {s[1], s[2]} : u \in Operand /\ u[2][2] \in Int /\ u = Literal(<<"number", u[2][2]>>)
    <3>1. \A i \in DOMAIN s : s[i] \in Operand /\ s[i][2][1] = "number"
      BY <1>11, <2>1, WellFormedCases DEF ElementType
    <3>2. \A i \in DOMAIN s : s[i][2] \in Literals /\ s[i] = Literal(s[i][2])
      BY <3>1, OperandIs
    <3>3. \A i \in DOMAIN s : s[i][2][2] \in Int /\ s[i][2] = <<"number", s[i][2][2]>>
      BY <3>1, <3>2, LiteralIs
    <3>4. 1 \in DOMAIN s /\ 2 \in DOMAIN s
      BY <1>3, <2>1
    <3> HIDE DEF s
    <3> QED BY <3>1, <3>2, <3>3, <3>4
  <2>4. s[1][2][2] <= s[2][2][2] /\ r[1][2][2] <= r[2][2][2]
    BY <1>1, <1>11 DEF Ordered
  <2>5. s[1] = r[1] /\ s[2] = r[2]
    <3> DEFINE n(u) == u[2][2]
    <3>1. \A u \in {s[1], s[2]} : n(u) \in Int /\ u = Literal(<<"number", n(u)>>)
      BY <2>3
    <3>2. n(s[1]) <= n(s[2]) /\ n(r[1]) <= n(r[2])
      BY <2>4
    <3> HIDE DEF n, s, r
    <3> QED BY <2>2, <3>1, <3>2
  <2>6. s = r
    BY <1>3, <2>1, <2>5
  <2> QED BY <1>6, <1>9, <1>11, <2>6
<1>12. c.op \in {"exists", "not_exists", "in", "not_in", "has_any", "has_all", "between",
                "eq", "ne", "prefix", "has", "gt", "gte", "lt", "lte"}
  BY WellFormedCases
<1> QED BY <1>7, <1>8, <1>10, <1>11, <1>12

LEMMA CanonicalSelectsOneWay ==
    ASSUME NEW f, NEW g, IsFilter(f), IsFilter(g), Canonical(f) = Canonical(g),
           \A i \in DOMAIN f : WellFormed(f[i]) /\ Ordered(f[i]),
           \A j \in DOMAIN g : WellFormed(g[j]) /\ Ordered(g[j]),
           NEW row, \A i \in DOMAIN f : Selects(f[i], row)
    PROVE  \A j \in DOMAIN g : Selects(g[j], row)
<1> SUFFICES ASSUME NEW j \in DOMAIN g
             PROVE  Selects(g[j], row)
  OBVIOUS
<1>1. PICK i \in DOMAIN f : CanonicalCondition(g[j]) = CanonicalCondition(f[i])
  BY CanonicalIs
<1>2. f[i] \in Condition /\ g[j] \in Condition /\ WrittenCondition(f[i]) /\ WrittenCondition(g[j])
  BY DEF IsFilter, WrittenCondition
<1>3. Selects(g[j], row) <=> Selects(f[i], row)
  BY <1>1, <1>2, SameSelects
<1> QED BY <1>3

\* Filters with the same canonical form select the same rows, whatever the order
\* of their conditions and of the values of one: the hash of a cursor is of
\* what it was served for.
THEOREM CanonicalSelects ==
    ASSUME NEW f, NEW g, IsFilter(f), IsFilter(g), Canonical(f) = Canonical(g),
           \A i \in DOMAIN f : WellFormed(f[i]) /\ Ordered(f[i]),
           \A j \in DOMAIN g : WellFormed(g[j]) /\ Ordered(g[j]),
           NEW row
    PROVE  (\A i \in DOMAIN f : Selects(f[i], row)) <=> \A j \in DOMAIN g : Selects(g[j], row)
<1>1. ASSUME \A i \in DOMAIN f : Selects(f[i], row)
      PROVE  \A j \in DOMAIN g : Selects(g[j], row)
  BY <1>1, CanonicalSelectsOneWay
<1>2. ASSUME \A j \in DOMAIN g : Selects(g[j], row)
      PROVE  \A i \in DOMAIN f : Selects(f[i], row)
  BY <1>2, CanonicalSelectsOneWay
<1> QED BY <1>1, <1>2

-----------------------------------------------------------------------------
(* Programs.                                                               *)

\* The fields of a predicate that was compiled are fields.
LEMMA FieldsAreKeys ==
    ASSUME NEW source, Compiled(source)
    PROVE  FieldsIn(Compile(source)) \subseteq Key
<1> DEFINE E(n) == Convert(source.node[n])
           D == DOMAIN source.node
<1>1. Compile(source).node = [n \in D |-> E(n)]
  BY CompiledIs
<1>2. ASSUME NEW n \in D
      PROVE  E(n).field = "" \/ E(n).field \in Key
  <2> DEFINE m == source.node[n]
  <2>1. m \in SourceNode /\ Convert(m) # RefusedNode
    BY CompiledIs DEF Compiled, IsSource
  <2>2. CASE m[1] \in Connective \cup {"true", "false"}
    <3>1. PICK children : Convert(m) = Node(m[1], children)
      BY <2>2 DEF Convert, Connective, Comparison, Ordering
    <3>2. Node(m[1], children).field = ""
      BY DEF Node
    <3> QED BY <3>1, <3>2
  <2>3. CASE m[1] \notin Connective \cup {"true", "false"}
    BY <2>1, <2>3, LeafOperator
  <2> QED BY <2>2, <2>3
<1>3. FieldsIn(Compile(source)) = {E(n).field : n \in D} \ {""}
  <2> HIDE DEF E, D
  <2> QED BY <1>1 DEF FieldsIn
<1> HIDE DEF E, D
<1> QED BY <1>2, <1>3

\* A program of a caller is the true of the admin, or compiled from a source of a role.
LEMMA ProgramIs ==
    ASSUME NEW R, R \subseteq RoleName, NEW p \in Programs(R)
    PROVE  /\ Validate(p, "policy")
           /\ \/ Admin \in R /\ p = Single(Node("true", <<>>))
              \/ \E r \in R : \E s \in Sources[r] :
                    RoleProgram[r] # {} /\ Compiled(s) /\ p = Compile(s)
<1>1. CASE Admin \in R /\ p = Single(Node("true", <<>>))
  <2>1. Validate(Single(Node("true", <<>>)), "policy")
    BY TrueHolds
  <2> QED BY <1>1, <2>1
<1>2. CASE ~(Admin \in R /\ p = Single(Node("true", <<>>)))
  <2>1. PICK r \in R : p \in RoleProgram[r]
    BY <1>2 DEF Programs
  <2>2. p \in Registry(Sources[r])
    BY <2>1 DEF RoleProgram
  <2>3. PICK s \in Sources[r] : p = Compile(s) /\ Compile(s) # Refused
    BY <2>2 DEF Registry
  <2>4. IsSource(s)
    BY <2>3, SourceAssumption
  <2>5. Compiled(s)
    BY <2>3, <2>4 DEF Compiled
  <2>6. Validate(p, "policy")
    BY <2>3 DEF Compile
  <2> QED BY <2>1, <2>3, <2>5, <2>6
<1> QED BY <1>1, <1>2

\* A source that governs a caller is one of its programs, if the caller is not the admin.
LEMMA GoverningIs ==
    ASSUME NEW R, R \subseteq RoleName, Admin \notin R, NEW A, NEW s \in Governing(R, A)
    PROVE  Compiled(s) /\ Compile(s) \in Clauses(R, A)
<1>1. PICK r \in R : RoleProgram[r] # {} /\ s \in Sources[r]
  BY DEF Governing
<1>2. Satisfiable(Compile(s), A)
  BY DEF Governing
<1>3. RoleProgram[r] = Registry(Sources[r]) /\ IsSource(s)
  BY <1>1, SourceAssumption DEF RoleProgram
<1>4. Compile(s) \in RoleProgram[r] /\ Compile(s) # Refused
  BY <1>1, <1>3 DEF Registry
<1>5. Compile(s) \in Programs(R)
  BY <1>4 DEF Programs
<1> QED BY <1>2, <1>3, <1>4, <1>5 DEF Compiled, Clauses, Predicate

FieldsParse(row) == \A k \in DOMAIN row : row[k] = Malformed => FieldOf[k].type # "string_array"

\* A row of the fields of a caller has what the fields of a program may have.
LEMMA ProgramFits ==
    ASSUME NEW R, R \subseteq RoleName, NEW p \in Programs(R), NEW row \in Rows(FieldsOf(R)), FieldsParse(row),
           NEW k \in FieldsIn(p)
    PROVE  Fits(row, k) /\ Parses(row, k)
<1>1. FieldsOf(R) \subseteq Key
  <2>1. \A q \in Programs(R) : FieldsIn(q) \subseteq Key
    BY ProgramIs, TrueHolds, FieldsAreKeys
  <2> QED BY <2>1 DEF FieldsOf
<1>2. k \in FieldsOf(R)
  BY DEF FieldsOf
<1>3. Fits(row, k) /\ (row[k] = Malformed => k \in DOMAIN row)
  BY <1>1, <1>2, RowFits
<1> QED BY <1>3 DEF Parses, FieldsParse

-----------------------------------------------------------------------------
(* The invariant.                                                          *)

LEMMA FiltersAre ==
    \A f \in Filters \cup {<<>>} : IsFilter(f) /\ f \in Seq(Condition)
<1>1. IsFilter(<<>>)
  BY DEF IsFilter
<1> QED BY <1>1, FilterAssumption DEF IsFilter

\* What is planned, refused and carried by a cursor, in every step.
LEMMA MatchingInvInductive ==
    /\ Init => MatchingInv
    /\ MatchingInv /\ [Next]_vars => MatchingInv'
<1> DEFINE validFor(R) == \A p \in Programs(R) : Validate(p, "policy")
<1>1. \A R \in SUBSET RoleName : validFor(R)
  BY ProgramIs
<1>2. Init => MatchingInv
  <2> SUFFICES ASSUME Init
               PROVE  MatchingInv
    OBVIOUS
  <2>1. TypeOK
    BY <1>1 DEF Init, TypeOK, Idle
  <2> QED BY <2>1 DEF Init, MatchingInv, Idle, Elements
<1>3. MatchingInv /\ [Next]_vars => MatchingInv'
  <2> SUFFICES ASSUME MatchingInv, [Next]_vars
               PROVE  MatchingInv'
    OBVIOUS
  <2> USE DEF MatchingInv
  <2>1. ASSUME NEW R \in SUBSET RoleName, SetRoles(R)
        PROVE  MatchingInv'
    <3>1. TypeOK'
      BY <1>1, <2>1 DEF SetRoles, TypeOK, Idle
    <3> QED BY <2>1, <3>1 DEF SetRoles, CursorFits
  <2>2. ASSUME NEW A \in Attributes, SetAttributes(A)
        PROVE  MatchingInv'
    <3>1. TypeOK'
      BY <2>2 DEF SetAttributes, TypeOK, Idle
    <3> QED BY <2>2, <3>1 DEF SetAttributes, CursorFits
  <2>3. ASSUME NEW f \in Filters, NEW cursor \in {<<>>} \cup {<<g>> : g \in Scrolls}, Receive(f, cursor)
        PROVE  MatchingInv'
    <3>1. /\ request' = [Idle EXCEPT !.phase = "asked", !.filter = f, !.cursor = cursor]
          /\ roles' = roles /\ attrs' = attrs
          /\ \A g \in Elements(cursor) : Build(g) # Refused
      BY <2>3 DEF Receive
    <3>2. /\ request'.phase = "asked" /\ request'.filter = f /\ request'.cursor = cursor
          /\ request'.plan = Refused /\ request'.why = "none" /\ DOMAIN request' = DOMAIN Idle
      BY <3>1 DEF Idle
    <3>3. TypeOK'
      BY <1>1, <3>1, <3>2 DEF TypeOK
    <3> QED BY <3>1, <3>2, <3>3
  <2>4. CASE RefuseCursor
    <3>1. /\ request'.phase = "refused" /\ request'.filter = request.filter /\ request'.cursor = request.cursor
          /\ request'.plan = request.plan /\ request'.why = "cursor" /\ DOMAIN request' = DOMAIN request
      BY <2>4 DEF RefuseCursor, TypeOK, Idle
    <3>2. TypeOK'
      BY <2>4, <3>1 DEF RefuseCursor, TypeOK
    <3> QED BY <2>4, <3>1, <3>2
  <2>5. CASE RefuseFilter
    <3>1. /\ request'.phase = "refused" /\ request'.filter = request.filter /\ request'.cursor = request.cursor
          /\ request'.plan = request.plan /\ request'.why = "filter" /\ DOMAIN request' = DOMAIN request
      BY <2>5 DEF RefuseFilter, TypeOK, Idle
    <3>2. TypeOK'
      BY <2>5, <3>1 DEF RefuseFilter, TypeOK
    <3> QED BY <2>5, <3>1, <3>2 DEF RefuseFilter
  <2>6. CASE Plan
    <3>1. /\ request'.phase = "planned" /\ request'.filter = request.filter /\ request'.cursor = request.cursor
          /\ request'.plan = Build(request.filter) /\ request'.why = request.why /\ DOMAIN request' = DOMAIN request
      BY <2>6 DEF Plan, TypeOK, Idle
    <3>2. Build(request.filter) # Refused /\ CursorFits /\ roles' = roles /\ attrs' = attrs
      BY <2>6 DEF Plan
    <3>3. Validate(Build(request.filter), "filter")
      BY <3>2, FiltersAre, BuildSelects DEF TypeOK
    <3>4. TypeOK'
      BY <3>1, <3>2, <3>3 DEF TypeOK
    <3> QED BY <3>1, <3>2, <3>4 DEF CursorFits
  <2>7. CASE Answer
    <3>1. TypeOK'
      BY <2>7 DEF Answer, TypeOK, Idle
    <3> QED BY <2>7, <3>1 DEF Answer, Idle, Elements
  <2>8. CASE UNCHANGED vars
    <3>1. TypeOK'
      BY <2>8 DEF vars, TypeOK
    <3> QED BY <2>8, <3>1 DEF vars, CursorFits
  <2>9. ASSUME Next
        PROVE  MatchingInv'
    <3>1. ASSUME NEW f \in Filters, Receive(f, <<>>)
          PROVE  MatchingInv'
      BY <2>3, <3>1
    <3>2. ASSUME NEW f \in Scrolls, NEW g \in Scrolls, Receive(f, <<g>>)
          PROVE  MatchingInv'
      BY <2>3, <3>2, FilterAssumption
    <3> HIDE DEF MatchingInv
    <3> QED BY <2>1, <2>2, <2>4, <2>5, <2>6, <2>7, <2>9, <3>1, <3>2 DEF Next
  <2> QED BY <2>8, <2>9
<1> QED BY <1>2, <1>3

\* A read is planned with what was built from its filter, is refused because its
\* filter cannot be built, and has a cursor of a filter that could be.
THEOREM MatchingInvariant == Spec => []MatchingInv
<1>1. Init => MatchingInv
  BY MatchingInvInductive
<1>2. MatchingInv /\ [Next]_vars => MatchingInv'
  BY MatchingInvInductive
<1> QED BY <1>1, <1>2, PTL DEF Spec

\* Every variable has its type, and every program of a caller is a valid policy.
THEOREM MatchingTyped == Spec => []TypeOK
<1>1. MatchingInv => TypeOK
  BY DEF MatchingInv
<1> QED BY <1>1, MatchingInvariant, PTL

-----------------------------------------------------------------------------
(* What a caller is permitted.                                             *)

\* For any roles and attributes of a caller.
LEMMA PermitsWhatCelSays ==
    ASSUME NEW R, R \subseteq RoleName, NEW A, NEW row \in Rows(FieldsOf(R)), FieldsParse(row)
    PROVE  Permits(Clauses(R, A), A, row) <=> Admin \in R \/ \E s \in Governing(R, A) : Cel(s, A, row) = "T"
<1>1. ASSUME NEW p \in Clauses(R, A)
      PROVE  /\ p \in Programs(R) /\ Satisfiable(p, A)
             /\ \A k \in FieldsIn(p) : Fits(row, k) /\ Parses(row, k)
  <2>1. p \in Programs(R) /\ Satisfiable(p, A)
    BY <1>1 DEF Clauses, Predicate
  <2> QED BY <2>1, ProgramFits
<1>2. ASSUME Permits(Clauses(R, A), A, row), Admin \notin R
      PROVE  \E s \in Governing(R, A) : Cel(s, A, row) = "T"
  <2>1. PICK p \in Clauses(R, A) : Holds(p, A, row)
    BY <1>2 DEF Permits
  <2>2. PICK r \in R : \E s \in Sources[r] : RoleProgram[r] # {} /\ Compiled(s) /\ p = Compile(s)
    BY <1>1, <1>2, ProgramIs
  <2>3. PICK s \in Sources[r] : RoleProgram[r] # {} /\ Compiled(s) /\ p = Compile(s)
    BY <2>2
  <2>4. s \in Governing(R, A)
    BY <1>1, <2>2, <2>3 DEF Governing
  <2>5. Cel(s, A, row) = "T"
    BY <1>1, <2>1, <2>3, PolicyAgrees
  <2> QED BY <2>4, <2>5
<1>3. ASSUME Admin \in R
      PROVE  Permits(Clauses(R, A), A, row)
  <2>1. Single(Node("true", <<>>)) \in Clauses(R, A)
    BY <1>3, TrueHolds DEF Clauses, Predicate, Programs
  <2> QED BY <2>1, TrueHolds DEF Permits
<1>4. ASSUME Admin \notin R, NEW s \in Governing(R, A), Cel(s, A, row) = "T"
      PROVE  Permits(Clauses(R, A), A, row)
  <2>1. Compiled(s) /\ Compile(s) \in Clauses(R, A)
    BY <1>4, GoverningIs
  <2>2. Holds(Compile(s), A, row)
    BY <1>1, <1>4, <2>1, PolicyAgrees
  <2> QED BY <2>1, <2>2 DEF Permits
<1> QED BY <1>2, <1>3, <1>4

\* A caller is permitted exactly the rows of which CEL says true for a policy
\* that governs the caller: the predicate that is planned, on any row whose
\* arrays parse, for any policies, fields, attributes and cells.
THEOREM PolicyCorrectness == Spec => []SqlAgreesWithCel
<1>1. TypeOK => SqlAgreesWithCel
  <2> SUFFICES ASSUME TypeOK, NEW row \in Rows(FieldsOf(roles)),
                      \A k \in DOMAIN row : row[k] = Malformed => FieldOf[k].type # "string_array"
               PROVE  Permits(Clauses(roles, attrs), attrs, row) <=>
                          Admin \in roles \/ \E s \in Governing(roles, attrs) : Cel(s, attrs, row) = "T"
    BY DEF SqlAgreesWithCel
  <2> QED BY PermitsWhatCelSays DEF TypeOK, FieldsParse
<1> QED BY <1>1, MatchingTyped, PTL

\* More roles and more attributes never take away a row, whatever step gives them.
THEOREM RolesWiden == Spec => RolesOnlyWiden
<1> DEFINE widens ==
        roles \subseteq roles' /\ (\A a \in DOMAIN attrs : a \in DOMAIN attrs' /\ attrs'[a] = attrs[a]) =>
            \A row \in Rows(FieldsOf(roles')) :
                Permits(Clauses(roles, attrs), attrs, row) => Permits(Clauses(roles', attrs'), attrs', row)
<1>1. widens
  <2> SUFFICES ASSUME roles \subseteq roles', Extends(attrs', attrs), NEW row,
                      NEW p \in Clauses(roles, attrs), Holds(p, attrs, row)
               PROVE  p \in Clauses(roles', attrs') /\ Holds(p, attrs', row)
    BY DEF Extends, Permits
  <2>1. p \in Programs(roles) /\ Satisfiable(p, attrs)
    BY DEF Clauses, Predicate
  <2>2. p \in Programs(roles')
    BY <2>1 DEF Programs
  <2>3. Satisfiable(p, attrs') /\ Holds(p, attrs', row)
    BY <2>1, ExtendedEmit
  <2> QED BY <2>2, <2>3 DEF Clauses, Predicate
<1>2. [widens]_<<roles, attrs>>
  BY <1>1
<1>3. Spec => [][widens]_<<roles, attrs>>
  BY <1>2, PTL
<1> QED BY <1>3 DEF RolesOnlyWiden

-----------------------------------------------------------------------------
(* What a filter selects.                                                  *)

\* Every condition that was taken selects the spans of which it is true, and
\* nothing else was taken or refused: any filter, fields and cells.
THEOREM FilterCorrectness == Spec => []FilterMeansWhatItSays
<1> DEFINE f == request.filter
           ks == {f[i].field : i \in DOMAIN f}
           bad == Len(f) > MaxConditions \/ \E i \in DOMAIN f : ~WellFormed(f[i])
<1>1. MatchingInv => FilterMeansWhatItSays
  <2> SUFFICES ASSUME MatchingInv
               PROVE  FilterMeansWhatItSays
    OBVIOUS
  <2>1. f \in Seq(Condition)
    BY FiltersAre DEF MatchingInv, TypeOK
  <2>2. Build(f) = Refused <=> bad
    BY <2>1, BuildSelects
  <2>3. request.why = "filter" => bad
    BY <2>2 DEF MatchingInv
  <2>4. ASSUME request.phase = "planned"
        PROVE  Len(f) <= MaxConditions /\ \A i \in DOMAIN f : WellFormed(f[i])
    <3>1. ~bad
      BY <2>2, <2>4 DEF MatchingInv
    <3> QED BY <2>1, <3>1, LimitAssumption
  <2>5. ASSUME request.phase = "planned", NEW row \in Rows(ks),
               \A k \in ks : row[k] = Malformed => FieldOf[k].type # "string_array"
        PROVE  Holds(request.plan, <<>>, row) <=> \A i \in DOMAIN f : Meant(f[i], row[f[i].field])
    <3>1. request.plan = Build(f) /\ Build(f) # Refused
      BY <2>5 DEF MatchingInv
    <3>2. Holds(request.plan, <<>>, row) <=> \A i \in DOMAIN f : Selects(f[i], row)
      BY <2>1, <3>1, BuildSelects
    <3>3. \A i \in DOMAIN f : f[i] \in Condition /\ f[i].field \in ks /\ f[i].field \in Key
      BY <2>1, ConditionIs
    <3>4. ks \subseteq Key
      BY <3>3
    <3>5. ASSUME NEW i \in DOMAIN f
          PROVE  Selects(f[i], row) <=> Meant(f[i], row[f[i].field])
      <4>1. f[i] \in Condition /\ WellFormed(f[i]) /\ f[i].field \in ks
        BY <2>4, <2>5, <3>3
      <4>2. Fits(row, f[i].field) /\ Parses(row, f[i].field)
        BY <2>5, <3>4, <4>1, RowFits DEF Parses
      <4> HIDE DEF f
      <4> QED BY <4>1, <4>2, ConditionMeans
    <3> QED BY <3>2, <3>5
  <2> QED BY <2>3, <2>4, <2>5 DEF FilterMeansWhatItSays
<1> QED BY <1>1, MatchingInvariant, PTL

\* A page that is served under a cursor selects what the filter of the cursor
\* selects, for any two filters with bounds in order.
THEOREM CursorCorrectness == Spec => []CursorBinds
<1> DEFINE f == request.filter
           g == Head(request.cursor)
<1>1. MatchingInv => CursorBinds
  <2> SUFFICES ASSUME MatchingInv, request.phase = "planned", request.cursor # <<>>,
                      \A i \in DOMAIN f : Ordered(f[i]), \A j \in DOMAIN g : Ordered(g[j]), NEW row
               PROVE  Holds(request.plan, <<>>, row) <=> Holds(Build(g), <<>>, row)
    BY DEF CursorBinds, Ordered
  <2>1. PICK h \in Scrolls : request.cursor = <<h>>
    BY DEF MatchingInv, TypeOK
  <2>2. g = h /\ g \in Elements(request.cursor)
    BY <2>1 DEF Elements
  <2>3. /\ request.plan = Build(f) /\ Build(f) # Refused /\ Build(g) # Refused
        /\ Canonical(g) = Canonical(f)
    BY <2>2 DEF MatchingInv, CursorFits
  <2>4. IsFilter(f) /\ IsFilter(g) /\ f \in Seq(Condition) /\ g \in Seq(Condition)
    BY <2>1, <2>2, FiltersAre, FilterAssumption DEF MatchingInv, TypeOK
  <2> HIDE DEF f, g
  <2>5. /\ Holds(Build(f), <<>>, row) <=> \A i \in DOMAIN f : Selects(f[i], row)
        /\ Holds(Build(g), <<>>, row) <=> \A j \in DOMAIN g : Selects(g[j], row)
        /\ \A i \in DOMAIN f : WellFormed(f[i])
        /\ \A j \in DOMAIN g : WellFormed(g[j])
    BY <2>3, <2>4, BuildSelects
  <2>6. (\A i \in DOMAIN f : Selects(f[i], row)) <=> \A j \in DOMAIN g : Selects(g[j], row)
    BY <2>3, <2>4, <2>5, CanonicalSelects
  <2> QED BY <2>3, <2>5, <2>6
<1> QED BY <1>1, MatchingInvariant, PTL
=============================================================================
