---------------------------- MODULE SerialModel ----------------------------
(***************************************************************************)
(* The access model and what its write API promises: every change is one   *)
(* atomic step between its request and its answer.                         *)
(*                                                                         *)
(*   - A change is admitted against the very model it is applied to, so a  *)
(*     model that is stored always compiles.                               *)
(*   - Every change gives the model the next version number.               *)
(*   - A request answered with success was applied exactly once; one that  *)
(*     was refused never is.                                               *)
(*                                                                         *)
(* A model is a record: the source binding, the marked fields, the keys    *)
(* that user attributes have been stored under, and the roles, each a set  *)
(* of policies.  A field is [map, name, type, policy], map being Scalar    *)
(* for a column of its own.  A policy is abstracted to what decides        *)
(* whether it compiles: the fields it uses, each with the type its         *)
(* operators want, and the user attributes it names.                       *)
(*                                                                         *)
(* AccessModel, which says how the server does it, implements this module. *)
(***************************************************************************)
EXTENDS Naturals

CONSTANTS Handler,    \* request goroutines, of every replica
          Requests,   \* the changes they may be asked for
          Columns,    \* the columns of each table of the trace store
          Unbound,    \* the binding of a fresh deployment
          Scalar,     \* the map of a field that is a column of its own
          User,       \* the identifier reserved for caller attributes
          AdminRole,
          NoRequest   \* what an idle handler was asked

VARIABLES model,     \* the committed access model
          version,   \* its version
          asked,     \* the request each handler works on
          outcome    \* how far it has got, or how it ended

serialVars == <<model, version, asked, outcome>>

Outcomes == {"none",      \* nothing asked yet
             "pending",   \* asked, not applied
             "applied",   \* applied, not answered
             "ok",        \* answered: done
             "refused",   \* answered: an error, and nothing was applied
             "lost"}      \* answered: an error, although it was applied

-----------------------------------------------------------------------------
(* Compilation.                                                            *)

ColumnOf(f) == IF f.map = Scalar THEN f.name ELSE f.map

\* The fields a policy may be written against.
Vocabulary(m) == {f \in m.fields : f.policy}

\* policy.NewEnv: a marked column becomes a CEL variable, so it may not hide
\* the caller's attributes, nor be both a scalar and a map.
EnvCompiles(m) ==
    /\ \A f \in Vocabulary(m) : ColumnOf(f) # User
    /\ \A f, g \in Vocabulary(m) : f.map = Scalar /\ g.map # Scalar => f.name # g.map

\* Env.Compile: every field it uses is in the vocabulary at the type it is
\* used at, and every attribute it names is registered.
PolicyCompiles(p, m) ==
    /\ \A u \in p.uses :
          \E f \in Vocabulary(m) : f.map = u.map /\ f.name = u.name /\ f.type = u.type
    /\ p.attrs \subseteq m.keys

\* model.Compile: the environment, then every policy of every role.
Compiles(m) ==
    /\ EnvCompiles(m)
    /\ \A r \in DOMAIN m.roles : \A p \in m.roles[r] : PolicyCompiles(p, m)

-----------------------------------------------------------------------------
(* The changes: what each transaction does to the model.                   *)

\* `true`, the policy of the admin role.
AdminPolicy == [uses |-> {}, attrs |-> {}]

WithRole(roles, r, ps) == [n \in DOMAIN roles \cup {r} |-> IF n = r THEN ps ELSE roles[n]]

SetBinding(m, b) == [m EXCEPT !.binding = b]
PutFields(m, F) == [m EXCEPT !.fields = F]
PutRole(m, r, ps) == [m EXCEPT !.roles = WithRole(m.roles, r, ps)]
DeleteRole(m, r) == [m EXCEPT !.roles = [n \in DOMAIN m.roles \ {r} |-> m.roles[n]]]
AddKeys(m, K) == [m EXCEPT !.keys = @ \cup K]
PoliciesOf(m, r) == IF r \in DOMAIN m.roles THEN m.roles[r] ELSE {}
EnsureAdmin(m) == PutRole(m, AdminRole, PoliciesOf(m, AdminRole) \cup {AdminPolicy})

Applied(m, q) ==
    CASE q.op = "binding" -> SetBinding(m, q.binding)
      [] q.op = "fields"  -> PutFields(m, q.fields)
      [] q.op = "role"    -> PutRole(m, q.role, q.policies)
      [] q.op = "delete"  -> DeleteRole(m, q.role)
      [] q.op = "keys"    -> AddKeys(m, q.keys)
      [] q.op = "boot"    -> EnsureAdmin(m)

-----------------------------------------------------------------------------
(* Admission.                                                              *)

\* checkColumns, of a binding: the columns of its roles exist in its table.
BindingFits(b) == b.columns \subseteq Columns[b.table]

\* checkColumns, of fields: each is a column of the bound table, if there is one.
FieldsFit(F, b) == b # Unbound => \A f \in F : ColumnOf(f) \in Columns[b.table]

\* unique (map_column, name)
NoFieldTwice(F) == \A f, g \in F : f.map = g.map /\ f.name = g.name => f = g

\* What the handlers check of a proposal, against the model they have read.
\* Attributes and the admin role are stored without compiling anything.
Valid(m, q) ==
    CASE q.op = "binding" -> BindingFits(q.binding) /\ Compiles(Applied(m, q))
      [] q.op = "fields"  -> FieldsFit(q.fields, m.binding) /\ Compiles(Applied(m, q))
      [] q.op = "role"    -> Compiles(Applied(m, q))
      [] OTHER            -> TRUE

\* Fault: the admin role is like any other.
NeverProtected(q) == FALSE

\* ErrProtected: PutRole and DeleteRole do not touch the admin role.
Protected(q) == q.op \in {"role", "delete"} /\ q.role = AdminRole

\* What the transactions then check themselves: a unique constraint, ErrNotFound.
Storable(m, q) ==
    /\ ~Protected(q)
    /\ q.op = "fields" => NoFieldTwice(q.fields)
    /\ q.op = "delete" => q.role \in DOMAIN m.roles

\* Attributes stored under keys that are all known leave the model alone.
NothingNew(m, q) == q.op = "keys" /\ q.keys \subseteq m.keys

-----------------------------------------------------------------------------

Answered == {"none", "ok", "refused", "lost"}

\* What the migrations leave.
FreshModel == [binding |-> Unbound, fields |-> {}, keys |-> {}, roles |-> [r \in {} |-> {}]]

SerialInit ==
    /\ model = FreshModel
    /\ version = 1
    /\ asked = [h \in Handler |-> NoRequest]
    /\ outcome = [h \in Handler |-> "none"]

Ask(h) ==
    /\ outcome[h] \in Answered
    /\ \E q \in Requests : asked' = [asked EXCEPT ![h] = q]
    /\ outcome' = [outcome EXCEPT ![h] = "pending"]
    /\ UNCHANGED <<model, version>>

\* The request is over, with outcome o.
Answer(h, o) ==
    /\ outcome' = [outcome EXCEPT ![h] = o]
    /\ asked' = [asked EXCEPT ![h] = NoRequest]

\* What a commit does to the request: the handler learns of it, or does not.
Conclude(h) ==
    \/ outcome' = [outcome EXCEPT ![h] = "applied"] /\ UNCHANGED asked
    \/ Answer(h, "lost")

Apply(h) ==
    /\ outcome[h] = "pending"
    /\ Valid(model, asked[h])
    /\ Storable(model, asked[h])
    /\ ~NothingNew(model, asked[h])
    /\ model' = Applied(model, asked[h])
    /\ version' = version + 1
    /\ Conclude(h)

ApplyNothing(h) ==
    /\ outcome[h] = "pending"
    /\ NothingNew(model, asked[h])
    /\ Conclude(h)
    /\ UNCHANGED <<model, version>>

Acknowledge(h) ==
    /\ outcome[h] = "applied"
    /\ Answer(h, "ok")
    /\ UNCHANGED <<model, version>>

Refuse(h) ==
    /\ outcome[h] = "pending"
    /\ Answer(h, "refused")
    /\ UNCHANGED <<model, version>>

SerialNext ==
    \E h \in Handler : Ask(h) \/ Apply(h) \/ ApplyNothing(h) \/ Acknowledge(h) \/ Refuse(h)

SerialSpec == SerialInit /\ [][SerialNext]_serialVars
=============================================================================
