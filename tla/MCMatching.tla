----------------------------- MODULE MCMatching -----------------------------
(* Eight fields of every type, in maps and out of them; roles for the forms a
   policy takes; every operator on every field, with operands that fit and not. *)
EXTENDS Matching, TLC

Field(map, type, filterable, policy) ==
    [map |-> map, type |-> type, filterable |-> filterable, policy |-> policy]

MCFieldOf ==
    "service" :> Field(FALSE, "string", TRUE, TRUE) @@
    "tenant" :> Field(TRUE, "string", TRUE, TRUE) @@
    "secret" :> Field(TRUE, "string", FALSE, FALSE) @@
    "flag" :> Field(TRUE, "boolean", TRUE, TRUE) @@
    "count" :> Field(TRUE, "number", TRUE, TRUE) @@
    "duration" :> Field(FALSE, "number", TRUE, FALSE) @@
    "tags" :> Field(TRUE, "string_array", TRUE, TRUE) @@
    "labels" :> Field(FALSE, "string_array", TRUE, FALSE)
MCKey == DOMAIN MCFieldOf
MCPrefix == {<<"a", "a">>, <<"a", "ab">>, <<"ab", "ab">>, <<"b", "b">>}

Str(s) == <<"string", s>>
Num(n) == <<"number", n>>
Bool(b) == <<"boolean", b>>
Arr(S) == <<"string_array", S>>

Strings == {Str("a"), Str("ab"), Str("b")}
Numbers == {Num(1), Num(2), Num(3)}
Arrays == {Arr({}), Arr({"a"}), Arr({"a", "b"})}
MCCells ==
    "service" :> Strings \cup {Null} @@
    "tenant" :> Strings \cup {Missing} @@
    "secret" :> Strings \cup {Missing} @@
    "flag" :> {Bool(TRUE), Bool(FALSE), Missing, Malformed} @@
    "count" :> Numbers \cup {Missing, Malformed} @@
    "duration" :> Numbers \cup {Null} @@
    "tags" :> Arrays \cup {Missing, Malformed} @@
    "labels" :> Arrays

F(k) == <<"field", k>>
L(l) == <<"literal", l>>
Tenant == <<"attr", "tenant">>
Not(n) == <<"not", <<n>>>>
Own == <<"==", F("tenant"), Tenant>>
Tagged == <<"in", L(Str("a")), F("tags")>>
Flagged == <<"==", L(Bool(TRUE)), F("flag")>>

\* The nodes of a nested source, each after those of its children, put behind nodes.
RECURSIVE Flatten(_, _), FlattenAll(_, _, _)
FlattenAll(children, nodes, numbers) ==
    IF children = <<>> THEN <<nodes, numbers>>
    ELSE LET first == Flatten(Head(children), nodes)
         IN FlattenAll(Tail(children), first, Append(numbers, Len(first)))
Flatten(n, nodes) ==
    IF n[1] \in Connective
    THEN LET below == FlattenAll(n[2], nodes, <<>>) IN Append(below[1], <<n[1], below[2]>>)
    ELSE Append(nodes, n)
Tree(n) == LET nodes == Flatten(n, <<>>) IN [root |-> Len(nodes), node |-> nodes]
Trees(sources) == [r \in DOMAIN sources |-> {Tree(sources[r][i]) : i \in DOMAIN sources[r]}]

Nested ==
    "admin" :> <<<<"true">>>> @@
    "own" :> <<Own>> @@
    "others" :> <<Not(Own), <<"!=", F("service"), L(Str("a"))>>>> @@
    "listed" :> <<Not(<<"in", F("service"), <<"list", <<L(Str("a")), Tenant>>>>>>)>> @@
    "tagged" :> <<Tagged, <<"false">>>> @@
    "untagged" :> <<Not(Tagged)>> @@
    "either" :> <<<<"or", <<Own, Not(Flagged), <<"!=", L(Str("b")), F("service")>>>>>>>> @@
    "neither" :> <<Not(<<"and", <<Flagged, <<"or", <<Own, Not(Not(Tagged))>>>>>>>>)>> @@
    "numbers" :> <<Own, <<"<", L(Num(1)), F("count")>>>> @@
    "members" :> <<<<"member", "startsWith", F("tenant"), <<L(Str("a"))>>>>>>
MCSources == Trees(Nested)
MCRoleName == DOMAIN MCSources
MCAttributes == {<<>>, "tenant" :> "a"}

\* One negated membership alone.
MCUntagged == Trees("admin" :> <<<<"true">>>> @@ "untagged" :> <<Not(Tagged)>>)
MCUntaggedRoles == DOMAIN MCUntagged

MCNumberText == [n \in 1..3 |-> ToString(n)]

Value(l) == Literal(l)
Cond(k, op, v, vs) == [field |-> k, op |-> op, value |-> v, values |-> vs]
Of(t) == CASE t = "number" -> <<Value(Num(1)), Value(Num(2)), Value(Num(3))>>
           [] t = "boolean" -> <<Value(Bool(TRUE)), Value(Bool(FALSE)), Value(Bool(TRUE))>>
           [] OTHER -> <<Value(Str("a")), Value(Str("ab")), Value(Str("b"))>>
Operands(t) ==
    LET x == Of(t)
    IN {<<NoValue, <<>>>>, <<x[1], <<>>>>, <<x[2], <<>>>>, <<NoValue, <<x[1]>>>>, <<NoValue, <<x[1], x[2]>>>>,
        <<NoValue, <<x[2], x[1]>>>>, <<NoValue, x>>, <<x[1], <<x[2]>>>>}
Wrong == {<<Value(Str("")), <<>>>>, <<Value(Num(2)), <<>>>>, <<NoValue, <<Value(Bool(TRUE)), Value(Str("a"))>>>>}
Alone ==
    UNION {{<<Cond(k, op, o[1], o[2])>> : op \in Operators \cup {"like"}, o \in Operands(MCFieldOf[k].type) \cup Wrong}
           : k \in MCKey \ {"secret"}}

HasTag == Cond("tags", "has", Value(Str("a")), <<>>)
Long == Cond("duration", "gt", Value(Num(1)), <<>>)
NotLong == Cond("duration", "lte", Value(Num(1)), <<>>)
Among(op, x, y) == Cond("tenant", op, NoValue, <<Value(Str(x)), Value(Str(y))>>)
Middle(m, n) == Cond("count", "between", NoValue, <<Value(Num(m)), Value(Num(n))>>)
MCScrolls ==
    {<<>>, <<HasTag>>, <<Long>>, <<NotLong>>, <<HasTag, Long>>, <<Long, HasTag>>, <<Long, Long>>,
     <<Among("in", "a", "b")>>, <<Among("in", "b", "a")>>, <<Among("not_in", "a", "b")>>, <<Among("in", "a", "a")>>,
     <<Middle(1, 2)>>, <<Middle(2, 1)>>, <<Cond("tenant", "exists", NoValue, <<>>)>>,
     <<Cond("tenant", "not_exists", NoValue, <<>>)>>, <<Cond("secret", "eq", Value(Str("a")), <<>>)>>,
     <<HasTag, Long, NotLong>>}
MCFilters == Alone \cup MCScrolls
=============================================================================
