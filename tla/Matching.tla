------------------------------ MODULE Matching ------------------------------
(***************************************************************************)
(* What one read is planned to select (internal/httpapi/traces.go: query   *)
(* and planSpans): the caller's programs and its filter meet in one        *)
(* predicate, and a cursor is held against the filter it came from.  The   *)
(* caller's roles and attributes change between requests, each of which    *)
(* has a session of its own.                                               *)
(***************************************************************************)
EXTENDS Filter

CONSTANTS RoleName, Sources,   \* [RoleName -> the sources of its policies]
          Attributes,          \* what a caller's attributes may be: functions
          Filters, Scrolls,    \* filters that are asked, and those whose cursors are sent
          Cells,               \* [Key -> what a row may have there]
          MaxRoles,            \* bound on the roles of a caller
          Readers              \* bound: the roles with which requests are explored, as no
                               \* filter is built from them

Admin == "admin"
ASSUME RoleAssumption == Admin \in RoleName /\ MaxRoles \in Nat /\ Readers \subseteq SUBSET RoleName
ASSUME SourceAssumption ==
    /\ DOMAIN Sources = RoleName
    /\ \A r \in RoleName : \A s \in Sources[r] : IsSource(s)

\* A key is missing from a map, and what was a string there may not parse.
ASSUME CellAssumption ==
    \A k \in Key : \A cell \in Cells[k] :
        \/ cell \in Typed(FieldOf[k].type)
        \/ cell = Null
        \/ cell \in {Missing, Malformed} /\ FieldOf[k].map
ASSUME FilterAssumption ==
    /\ Scrolls \subseteq Filters
    /\ \A f \in Filters : IsFilter(f)

VARIABLES roles, attrs,  \* the session
          request

vars == <<roles, attrs, request>>

Idle == [phase |-> "idle", filter |-> <<>>, cursor |-> <<>>, plan |-> Refused, why |-> "none"]

\* The rows that differ in the fields that are named, which is all a predicate tells apart.
Rows(ks) ==
    {row \in [ks -> UNION {Cells[k] : k \in ks}] : \A k \in ks : row[k] \in Cells[k]}

\* Server.query: the admin has the program true, once.
RoleProgram == [r \in RoleName |-> Registry(Sources[r])]
Programs(R) ==
    (IF Admin \in R THEN {Single(Node("true", <<>>))} ELSE {})
        \cup UNION {RoleProgram[r] : r \in R \ {Admin}}

\* The clauses of what the caller is permitted.
Clauses(R, A) == Predicate(Programs(R), A)

TypeOK ==
    /\ roles \in SUBSET RoleName /\ attrs \in Attributes
    /\ DOMAIN request = DOMAIN Idle
    /\ request.phase \in {"idle", "asked", "planned", "refused"}
    /\ request.filter \in Filters \cup {<<>>}
    /\ request.cursor \in {<<>>} \cup {<<g>> : g \in Scrolls}
    /\ request.why \in {"none", "cursor", "filter"}
    /\ IF request.phase = "planned" THEN Validate(request.plan, "filter") ELSE request.plan = Refused
    /\ \A p \in Programs(roles) : Validate(p, "policy")

Init ==
    /\ roles = {} /\ attrs \in Attributes
    /\ request = Idle

SetRoles(R) ==
    /\ request = Idle
    /\ roles' = R
    /\ UNCHANGED <<attrs, request>>

SetAttributes(A) ==
    /\ request = Idle
    /\ attrs' = A
    /\ UNCHANGED <<roles, request>>

\* A filter, with a cursor of a page that was served for some filter or without one.
Receive(f, cursor) ==
    /\ request = Idle
    /\ roles \in Readers
    /\ \A g \in Elements(cursor) : Build(g) # Refused
    /\ request' = [Idle EXCEPT !.phase = "asked", !.filter = f, !.cursor = cursor]
    /\ UNCHANGED <<roles, attrs>>

\* "this cursor belongs to a different filter": what is compared is a hash of the canonical form.
CursorFits == \A g \in Elements(request.cursor) : Canonical(g) = Canonical(request.filter)

RefuseCursor ==
    /\ request.phase = "asked"
    /\ ~CursorFits
    /\ request' = [request EXCEPT !.phase = "refused", !.why = "cursor"]
    /\ UNCHANGED <<roles, attrs>>

RefuseFilter ==
    /\ request.phase = "asked"
    /\ CursorFits
    /\ Build(request.filter) = Refused
    /\ request' = [request EXCEPT !.phase = "refused", !.why = "filter"]
    /\ UNCHANGED <<roles, attrs>>

Plan ==
    /\ request.phase = "asked"
    /\ CursorFits
    /\ Build(request.filter) # Refused
    /\ request' = [request EXCEPT !.phase = "planned", !.plan = Build(request.filter)]
    /\ UNCHANGED <<roles, attrs>>

Answer ==
    /\ request.phase \in {"planned", "refused"}
    /\ request' = Idle
    /\ UNCHANGED <<roles, attrs>>

Next ==
    \/ \E R \in SUBSET RoleName : Cardinality(R) <= MaxRoles /\ SetRoles(R)
    \/ \E A \in Attributes : SetAttributes(A)
    \/ \E f \in Filters : Receive(f, <<>>)
    \/ \E f, g \in Scrolls : Receive(f, <<g>>)
    \/ RefuseCursor \/ RefuseFilter \/ Plan \/ Answer

Spec == Init /\ [][Next]_vars

-----------------------------------------------------------------------------
(* Properties.                                                             *)

\* Inductive: a plan is what was built from the filter, a filter was refused because
\* it cannot be built, and a cursor comes from a filter that could be.
MatchingInv ==
    /\ TypeOK
    /\ request.phase = "planned" =>
          request.plan = Build(request.filter) /\ Build(request.filter) # Refused /\ CursorFits
    /\ request.why = "filter" => Build(request.filter) = Refused
    /\ \A g \in Elements(request.cursor) : Build(g) # Refused

FieldsOf(R) == UNION {FieldsIn(p) : p \in Programs(R)}

\* The sources that could be translated for the caller.
Governing(R, A) ==
    {s \in UNION {Sources[r] : r \in {q \in R : RoleProgram[q] # {}}} : Satisfiable(Compile(s), A)}

\* A caller is permitted a row exactly if CEL says true of it, for a policy whose
\* attributes the caller has all of, in every form the source may take, under
\* every negation, with keys that are missing and values that are null or do not
\* parse ("the rows the translated SQL returns must equal the rows a direct CEL
\* evaluation permits"); arrays that do not parse are the business of the next one.
SqlAgreesWithCel ==
    request = Idle =>
        LET clauses == Clauses(roles, attrs)
            sources == Governing(roles, attrs)
        IN \A row \in Rows(FieldsOf(roles)) :
            (\A k \in DOMAIN row : row[k] = Malformed => FieldOf[k].type # "string_array") =>
                (Permits(clauses, attrs, row) <=>
                    Admin \in roles \/ \E s \in sources : Cel(s, attrs, row) = "T")

\* "Missing keys and malformed serialized arrays do not satisfy a policy
\* expression, including under negation": the same, arrays and all.
MalformedNeverMatches ==
    request = Idle =>
        LET clauses == Clauses(roles, attrs)
            sources == Governing(roles, attrs)
        IN \A row \in Rows(FieldsOf(roles)) :
            Permits(clauses, attrs, row) =>
                Admin \in roles \/ \E s \in sources : Cel(s, attrs, row) = "T"

\* Another role never takes anything away, nor does an attribute that was not
\* there before ("holding another role can only widen what a caller sees").
RolesOnlyWiden ==
    [][roles \subseteq roles' /\ (\A a \in DOMAIN attrs : a \in DOMAIN attrs' /\ attrs'[a] = attrs[a]) =>
           LET before == Clauses(roles, attrs)
               after == Clauses(roles', attrs')
           IN \A row \in Rows(FieldsOf(roles')) :
                  Permits(before, attrs, row) => Permits(after, attrs', row)]_<<roles, attrs>>

\* What one condition means, of a value that is there.
Says(c, x) ==
    CASE c.op = "eq" -> x = c.value[2]
      [] c.op = "ne" -> x # c.value[2]
      [] c.op = "in" -> \E i \in DOMAIN c.values : c.values[i][2] = x
      [] c.op = "not_in" -> \A i \in DOMAIN c.values : c.values[i][2] # x
      [] c.op = "prefix" -> <<c.value[2][2], x[2]>> \in Prefix
      [] c.op = "has" -> c.value[2][2] \in x[2]
      [] c.op = "has_any" -> {c.values[i][2][2] : i \in DOMAIN c.values} \cap x[2] # {}
      [] c.op = "has_all" -> {c.values[i][2][2] : i \in DOMAIN c.values} \subseteq x[2]
      [] c.op = "gt" -> x[2] > c.value[2][2]
      [] c.op = "gte" -> ~(x[2] < c.value[2][2])
      [] c.op = "lt" -> x[2] < c.value[2][2]
      [] c.op = "lte" -> ~(x[2] > c.value[2][2])
      [] c.op = "between" -> x[2] \in c.values[1][2][2]..c.values[2][2][2]

Meant(c, x) ==
    CASE c.op = "exists" -> x # Missing
      [] c.op = "not_exists" -> x = Missing
      [] OTHER -> x \notin {Missing, Null, Malformed} /\ Says(c, x)

\* An operator that is advertised for the type of the field, with its own operands.
WellFormed(c) ==
    LET t == FieldOf[c.field].type
        fits(v) == v # NoValue /\ v[2][1] = ElementType(t)
        listed == \A i \in DOMAIN c.values : fits(c.values[i])
    IN /\ FieldOf[c.field].filterable
       /\ c.op \in OperatorsFor(t)
       /\ CASE c.op \in {"exists", "not_exists"} -> c.value = NoValue /\ c.values = <<>>
            [] c.op \in {"in", "not_in", "has_any", "has_all"} ->
                   c.value = NoValue /\ Len(c.values) \in 1..MaxValues /\ listed
            [] c.op = "between" -> c.value = NoValue /\ Len(c.values) = 2 /\ listed
            [] OTHER -> fits(c.value) /\ c.values = <<>> /\ ~(c.op = "prefix" /\ c.value[2][2] = "")

\* A filter is accepted exactly if each condition is as advertised (OperatorsFor),
\* and then it selects the rows for which all of them say what they mean: the
\* wire operators are lowered to typed predicates, and those to SQL.
FilterMeansWhatItSays ==
    LET f == request.filter
        ks == {f[i].field : i \in DOMAIN f}
    IN /\ request.why = "filter" => Len(f) > MaxConditions \/ \E i \in DOMAIN f : ~WellFormed(f[i])
       /\ request.phase = "planned" =>
              /\ Len(f) <= MaxConditions /\ \A i \in DOMAIN f : WellFormed(f[i])
              /\ \A row \in Rows(ks) :
                     (\A k \in ks : row[k] = Malformed => FieldOf[k].type # "string_array") =>
                         (Holds(request.plan, <<>>, row) <=> \A i \in DOMAIN f : Meant(f[i], row[f[i].field]))

\* A page that is served under a cursor selects what the filter the cursor came
\* from selects ("page 2 of a different filter is not page 2 of anything").  The
\* canonical form takes the bounds of between for a set, so two filters that
\* differ in their order share their cursors: they are left out here.
CursorBinds ==
    request.phase = "planned" /\ request.cursor # <<>> =>
        LET f == request.filter
            g == Head(request.cursor)
            fields(h) == {h[i].field : i \in DOMAIN h}
            ordered(h) == \A i \in DOMAIN h :
                h[i].op = "between" => h[i].values[1][2][2] <= h[i].values[2][2][2]
        IN ordered(f) /\ ordered(g) =>
               \A row \in Rows(fields(f) \cup fields(g)) :
                   Holds(request.plan, <<>>, row) <=> Holds(Build(g), <<>>, row)
=============================================================================
