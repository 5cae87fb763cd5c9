--------------------------- MODULE MCAccessModel ---------------------------
(***************************************************************************)
(* A small deployment for model checking AccessModel: two tables, one      *)
(* field that a policy may use and that can be marked at two types, and a  *)
(* role whose policy uses it together with a user attribute.               *)
(***************************************************************************)
EXTENDS AccessModel

MCColumns == [t1 |-> {"id", "tenant"}, t2 |-> {"id"}]

Bind(t) == [op |-> "binding", binding |-> [table |-> t, columns |-> {"id"}]]
Mark(type) == [map |-> Scalar, name |-> "tenant", type |-> type, policy |-> TRUE]
FilterOnly == [Mark("string") EXCEPT !.policy = FALSE]
Reserved == [Mark("string") EXCEPT !.name = User]
PutMarks(F) == [op |-> "fields", fields |-> F]

ByTenant == [uses |-> {[map |-> Scalar, name |-> "tenant", type |-> "string"]},
             attrs |-> {"org"}]
Grant(r) == [op |-> "role", role |-> r, policies |-> {ByTenant}]
Drop(r) == [op |-> "delete", role |-> r]
Attrs(K) == [op |-> "keys", keys |-> K]

MCRequests ==
    {Bind("t1"), Bind("t2"),
     PutMarks({Mark("string")}), PutMarks({Mark("boolean")}), PutMarks({Mark("string"), Mark("boolean")}),
     PutMarks({FilterOnly}), PutMarks({Reserved}),
     Grant("analyst"), Grant(AdminRole), Drop("analyst"), Drop(AdminRole),
     Attrs({"org"}), Attrs({"org", "team"}),
     [op |-> "boot"]}

\* Requests that wait for one another: for the row lock, and for each other's keys.
MCContenders == {Bind("t1"), Drop("analyst"), Attrs({"org", "team"}), [op |-> "boot"]}
=============================================================================
