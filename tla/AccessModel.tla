---------------------------- MODULE AccessModel ----------------------------
(***************************************************************************)
(* How the server changes the access model: the handlers of                *)
(* internal/httpapi/schema.go and the transactions of                      *)
(* internal/store/store.go under them, run by any number of goroutines of  *)
(* any number of replicas over one Postgres.                               *)
(*                                                                         *)
(* A handler that changes the model reads it, validates its proposal       *)
(* against what it read, and only then opens a transaction: this locks the *)
(* model_version row, gives up if the version moved, applies the change,   *)
(* bumps the version and commits.  Two writers go without the reading:     *)
(* setAttrs, which registers attribute keys inside whatever transaction    *)
(* stores a user's attributes and takes the row lock only when it bumps    *)
(* the version; and EnsureAdmin, at the boot of a replica.                 *)
(*                                                                         *)
(* The steps here are the points where one transaction may see or block    *)
(* another.  Uncommitted rows are nobody else's business until commit,     *)
(* except that inserting a key another transaction has inserted waits for  *)
(* that transaction to end.  A transaction may end in failure at any step  *)
(* (connection lost, request cancelled, process killed) and a commit may   *)
(* succeed unacknowledged.  The Refresh of the replica's cache that        *)
(* follows a commit is module ModelCache's; the audit row, which nothing   *)
(* here reads, is left out.                                                *)
(***************************************************************************)
EXTENDS SerialModel, FiniteSets

CONSTANTS MaxVersion,   \* bound: no request arrives that could exceed it
          Unlocked,     \* the model_version row when nobody has locked it
          NotRead,      \* a handler has not read the model
          NoKey         \* setAttrs is not at any key

ASSUME UnlockedAssumption == Unlocked \notin Handler

\* What decode, Binding.Validate, Field.Validate and putRole let through.
ASSUME RequestsAssumption ==
    \A q \in Requests :
        /\ q.op \in {"binding", "fields", "role", "delete", "keys", "boot"}
        /\ q.op = "binding" => q.binding # Unbound
        /\ q.op = "role" => q.policies # {}
        /\ q.op = "keys" => q.keys # {} /\ NoKey \notin q.keys

VARIABLES pc,     \* where each handler is
          base,   \* the model and version the handler read
          lock,   \* who holds the row lock on model_version
          at,     \* setAttrs: the key it is about to insert
          left,   \* setAttrs: the keys after that one
          added   \* setAttrs: the keys it has inserted, uncommitted

vars == <<model, version, asked, outcome, pc, base, lock, at, left, added>>
attrs == <<at, left, added>>

Locations == {"idle",
              "asked",       \* decoded, nothing read yet
              "proposed",    \* validated against base, wants the row lock
              "inserting",   \* setAttrs: inside its loop
              "inserted",    \* setAttrs: has added a key, wants to bump
              "known",       \* setAttrs: every key was known
              "writing",     \* holds the row lock
              "committed"}   \* committed, not answered

IsModel(m) ==
    m = [binding |-> m.binding, fields |-> m.fields, keys |-> m.keys, roles |-> m.roles]

\* The handler has read the model it proposes to change.
HasRead(h) == pc[h] \in {"proposed", "writing"} /\ asked[h].op \notin {"keys", "boot"}

TypeOK ==
    /\ IsModel(model)
    /\ version \in Nat \ {0}
    /\ asked \in [Handler -> Requests \cup {NoRequest}]
    /\ outcome \in [Handler -> Outcomes]
    /\ pc \in [Handler -> Locations]
    /\ DOMAIN base = Handler
    /\ \A h \in Handler : HasRead(h) => IsModel(base[h].model) /\ base[h].version \in Nat \ {0}
    /\ lock \in Handler \cup {Unlocked}
    /\ DOMAIN at = Handler
    /\ DOMAIN left = Handler
    /\ DOMAIN added = Handler

Init ==
    /\ SerialInit
    /\ pc = [h \in Handler |-> "idle"]
    /\ base = [h \in Handler |-> NotRead]
    /\ lock = Unlocked
    /\ at = [h \in Handler |-> NoKey]
    /\ left = [h \in Handler |-> {}]
    /\ added = [h \in Handler |-> {}]

-----------------------------------------------------------------------------

Goto(h, l) == pc' = [pc EXCEPT ![h] = l]

\* The transaction ends, and with it everything it held.
EndTransaction(h) ==
    /\ base' = [base EXCEPT ![h] = NotRead]
    /\ lock' = IF lock = h THEN Unlocked ELSE lock
    /\ at' = [at EXCEPT ![h] = NoKey]
    /\ left' = [left EXCEPT ![h] = {}]
    /\ added' = [added EXCEPT ![h] = {}]

\* The handler answers an error; a transaction it had open is rolled back.
GiveUp(h) == Refuse(h) /\ Goto(h, "idle") /\ EndTransaction(h)

Room == version + Cardinality({h \in Handler : pc[h] # "idle"}) < MaxVersion

-----------------------------------------------------------------------------
(* putBinding, putFields, putRole and deleteRole.                          *)

Receive(h) ==
    /\ pc[h] = "idle"
    /\ Room
    /\ Ask(h)
    /\ asked'[h].op \in {"binding", "fields", "role", "delete"}
    /\ Goto(h, "asked")
    /\ UNCHANGED <<base, lock, attrs>>

\* Fault: the proposal is not validated.
ProposeUnchecked(h) ==
    /\ pc[h] = "asked"
    /\ base' = [base EXCEPT ![h] = [model |-> model, version |-> version]]
    /\ Goto(h, "proposed")
    /\ UNCHANGED <<serialVars, lock, attrs>>

\* Fault: the version is not read with the model.
ProposeUnversioned(h) ==
    /\ pc[h] = "asked"
    /\ Valid(model, asked[h])
    /\ base' = [base EXCEPT ![h] = [model |-> model, version |-> 0]]
    /\ Goto(h, "proposed")
    /\ UNCHANGED <<serialVars, lock, attrs>>

\* The model is read in one snapshot; checkColumns and Validate look at nothing
\* else that changes, so what they find is settled by that read.
Propose(h) ==
    /\ pc[h] = "asked"
    /\ Valid(model, asked[h])
    /\ base' = [base EXCEPT ![h] = [model |-> model, version |-> version]]
    /\ Goto(h, "proposed")
    /\ UNCHANGED <<serialVars, lock, attrs>>

\* 400
Reject(h) ==
    /\ pc[h] = "asked"
    /\ ~Valid(model, asked[h])
    /\ GiveUp(h)

\* PutRole and DeleteRole refuse before they open a transaction.
Forbid(h) ==
    /\ pc[h] = "proposed"
    /\ Protected(asked[h])
    /\ GiveUp(h)

\* The version this handler read is still the version; EnsureAdmin has read none.
Current(h) == asked[h].op # "boot" => version = base[h].version

\* Fault: the version is not compared under the lock.
LockUnchecked(h) ==
    /\ pc[h] = "proposed"
    /\ ~Protected(asked[h])
    /\ lock = Unlocked
    /\ lock' = h
    /\ Goto(h, "writing")
    /\ UNCHANGED <<serialVars, base, attrs>>

\* select version from model_version for update, and the comparison.
Lock(h) ==
    /\ pc[h] = "proposed"
    /\ ~Protected(asked[h])
    /\ lock = Unlocked
    /\ Current(h)
    /\ lock' = h
    /\ Goto(h, "writing")
    /\ UNCHANGED <<serialVars, base, attrs>>

\* ErrModelConflict
Conflict(h) ==
    /\ pc[h] = "proposed"
    /\ ~Protected(asked[h])
    /\ lock = Unlocked
    /\ ~Current(h)
    /\ GiveUp(h)

-----------------------------------------------------------------------------
(* EnsureAdmin, and setAttrs inside CreateUser or PatchAttributes.         *)

Boot(h) ==
    /\ pc[h] = "idle"
    /\ Room
    /\ Ask(h)
    /\ asked'[h].op = "boot"
    /\ Goto(h, "proposed")
    /\ UNCHANGED <<base, lock, attrs>>

\* A Go map is ranged over in no particular order.
StartAttrs(h) ==
    /\ pc[h] = "idle"
    /\ Room
    /\ Ask(h)
    /\ asked'[h].op = "keys"
    /\ \E k \in asked'[h].keys :
          /\ at' = [at EXCEPT ![h] = k]
          /\ left' = [left EXCEPT ![h] = asked'[h].keys \ {k}]
    /\ Goto(h, "inserting")
    /\ UNCHANGED <<base, lock, added>>

\* g has inserted the key h is about to insert, and has not ended.
WaitsFor(h, g) == pc[h] = "inserting" /\ g # h /\ at[h] \in added[g]

\* insert ... on conflict do nothing, and whether it affected a row.
InsertKey(h) ==
    /\ added' = [added EXCEPT ![h] = IF at[h] \in model.keys THEN @ ELSE @ \cup {at[h]}]
    /\ IF left[h] # {}
       THEN /\ \E k \in left[h] :
                  /\ at' = [at EXCEPT ![h] = k]
                  /\ left' = [left EXCEPT ![h] = @ \ {k}]
            /\ UNCHANGED pc
       ELSE /\ Goto(h, IF added'[h] # {} THEN "inserted" ELSE "known")
            /\ at' = [at EXCEPT ![h] = NoKey]
            /\ UNCHANGED left
    /\ UNCHANGED <<serialVars, base, lock>>

Insert(h) ==
    /\ pc[h] = "inserting"
    /\ \A g \in Handler : ~WaitsFor(h, g)
    /\ InsertKey(h)

\* bumpVersion: its update takes the row lock.
LockToBump(h) ==
    /\ pc[h] = "inserted"
    /\ lock = Unlocked
    /\ lock' = h
    /\ Goto(h, "writing")
    /\ UNCHANGED <<serialVars, base, attrs>>

\* Commit returns, or returns an error although Postgres has committed.
Committed(h) ==
    /\ Conclude(h)
    /\ Goto(h, IF outcome'[h] = "applied" THEN "committed" ELSE "idle")
    /\ EndTransaction(h)

CommitKnown(h) ==
    /\ pc[h] = "known"
    /\ Committed(h)
    /\ UNCHANGED <<model, version>>

-----------------------------------------------------------------------------
(* The end of a transaction.                                               *)

\* The rows the transaction leaves behind.
Written(h) ==
    IF asked[h].op = "keys" THEN AddKeys(model, added[h]) ELSE Applied(model, asked[h])

\* Fault: new keys do not bump the version.
CommitUnversioned(h) ==
    /\ pc[h] = "writing"
    /\ Storable(model, asked[h])
    /\ model' = Written(h)
    /\ version' = IF asked[h].op = "keys" THEN version ELSE version + 1
    /\ Committed(h)

\* The change and the next version become visible together.
Commit(h) ==
    /\ pc[h] = "writing"
    /\ Storable(model, asked[h])
    /\ model' = Written(h)
    /\ version' = version + 1
    /\ Committed(h)

\* Fault: an error return leaves the transaction open.
UndoWithoutRollback(h) ==
    /\ pc[h] = "writing"
    /\ ~Storable(model, asked[h])
    /\ Refuse(h)
    /\ Goto(h, "idle")
    /\ UNCHANGED <<base, lock, attrs>>

\* ErrNotFound, or a unique constraint.
Undo(h) ==
    /\ pc[h] = "writing"
    /\ ~Storable(model, asked[h])
    /\ GiveUp(h)

\* Anything else that ends a handler early.
Fail(h) ==
    /\ pc[h] \in {"asked", "proposed", "inserting", "inserted", "known", "writing"}
    /\ GiveUp(h)

\* Postgres aborts a transaction that waits in a cycle of such transactions.
AbortDeadlocked(h) ==
    /\ \E S \in SUBSET Handler :
          /\ h \in S
          /\ \A x \in S : (\E y \in S : WaitsFor(x, y)) /\ (\E y \in S : WaitsFor(y, x))
    /\ GiveUp(h)

\* Refresh, audit, and the answer.
Finish(h) ==
    /\ pc[h] = "committed"
    /\ Acknowledge(h)
    /\ Goto(h, "idle")
    /\ UNCHANGED <<base, lock, attrs>>

-----------------------------------------------------------------------------

Validate(h) == Propose(h) \/ Reject(h) \/ Forbid(h)
Acquire(h) == Lock(h) \/ Conflict(h) \/ LockToBump(h)
End(h) == Commit(h) \/ CommitKnown(h) \/ Undo(h) \/ AbortDeadlocked(h) \/ Finish(h)

Next ==
    \E h \in Handler :
        \/ Receive(h) \/ Boot(h) \/ StartAttrs(h)
        \/ Validate(h) \/ Acquire(h) \/ Insert(h) \/ End(h) \/ Fail(h)

\* A handler keeps running, the database answers it, and a deadlock is found.
\* Postgres queues those who wait for a row, so a handler that wants the row
\* lock, or a key, is not passed over for ever.  Nothing has to fail.
Fairness ==
    \A h \in Handler :
        /\ WF_vars(Validate(h))
        /\ SF_vars(Acquire(h))
        /\ SF_vars(Insert(h))
        /\ WF_vars(End(h))

Spec == Init /\ [][Next]_vars
FairSpec == Spec /\ Fairness

-----------------------------------------------------------------------------
(* Properties.                                                             *)

\* Every change takes effect at one instant between request and answer, on the
\* model as it then is, and is admitted against that model; success is answered
\* exactly for changes that took effect.
ImplementsSerial == SerialSpec

\* "A stored model should never fail to compile" (schema.go, stored): no
\* interleaving of writers stores a policy whose fields or attributes are gone,
\* which every replica would answer by refusing all queries.
StoredModelCompiles == Compiles(model)

\* The version tells models apart, as the comparison in checkModelVersion and
\* the caches suppose: a model that was read at the current version is the
\* current model.
VersionTellsModel ==
    \A h \in Handler : HasRead(h) /\ base[h].version = version => base[h].model = model

AdminStays ==
    AdminRole \in DOMAIN model.roles =>
        /\ AdminRole \in DOMAIN model'.roles
        /\ model'.roles[AdminRole] = {AdminPolicy}

\* Once a replica has booted, the admin role is there and sees every row:
\* whoever can write the model cannot lock the administrator out by it.
AdminRoleKept == [][AdminStays]_vars

\* Every request is answered, whatever locks it meets.
EveryRequestAnswered == \A h \in Handler : pc[h] # "idle" ~> pc[h] = "idle"

\* The comment of checkColumns: without it "a binding can be pointed at a
\* different table while the marked fields still name the old one's columns".
MarkedFieldsExist == FieldsFit(model.fields, model.binding)
-----------------------------------------------------------------------------
(* The inductive invariant behind the safety properties.                   *)

\* Where a handler is, what it was asked and how far that has got agree.
RequestsInProgress ==
    \A h \in Handler :
        /\ pc[h] = "idle" => outcome[h] \in Answered
        /\ pc[h] = "committed" => outcome[h] = "applied"
        /\ pc[h] \notin {"idle", "committed"} =>
              outcome[h] = "pending" /\ asked[h] \in Requests
        /\ pc[h] = "asked" => asked[h].op \notin {"keys", "boot"}
        /\ pc[h] = "proposed" => asked[h].op # "keys"
        /\ pc[h] \in {"inserting", "inserted", "known"} => asked[h].op = "keys"

LockHeld == \A h \in Handler : pc[h] = "writing" <=> lock = h

\* A model read is the current one or an earlier one.
ReadsHonest == \A h \in Handler : HasRead(h) => base[h].version <= version

\* A handler that has proposed a change validated it against what it read,
\* which is still current once it holds the lock.
ProposalsValid ==
    \A h \in Handler : HasRead(h) =>
        /\ Valid(base[h].model, asked[h])
        /\ pc[h] = "writing" => base[h].version = version

\* The keys setAttrs is past are known or its own; no two transactions have
\* inserted the same key, nor one that is already known.
KeysAccounted ==
    \A h \in Handler :
        /\ added[h] \cap model.keys = {}
        /\ \A g \in Handler \ {h} : added[g] \cap added[h] = {}
        /\ pc[h] \notin {"inserting", "inserted", "writing"} => added[h] = {}
        /\ asked[h] \in Requests /\ asked[h].op = "keys" =>
              /\ added[h] \subseteq asked[h].keys
              /\ pc[h] = "inserting" =>
                    asked[h].keys \subseteq model.keys \cup added[h] \cup left[h] \cup {at[h]}
                    /\ at[h] \in asked[h].keys /\ left[h] \subseteq asked[h].keys
              /\ pc[h] \in {"inserted", "writing"} =>
                    added[h] # {} /\ asked[h].keys \subseteq model.keys \cup added[h]
              /\ pc[h] = "known" => asked[h].keys \subseteq model.keys

\* Only EnsureAdmin writes the policies of the admin role.
AdminIntact == AdminRole \in DOMAIN model.roles => model.roles[AdminRole] = {AdminPolicy}

ModelInv ==
    /\ TypeOK
    /\ RequestsInProgress
    /\ LockHeld
    /\ ReadsHonest
    /\ VersionTellsModel
    /\ ProposalsValid
    /\ KeysAccounted
    /\ StoredModelCompiles
    /\ AdminIntact
=============================================================================
