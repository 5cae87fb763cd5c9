------------------------- MODULE AccessModel_proofs -------------------------
(***************************************************************************)
(* Proofs about AccessModel, for any handlers, requests and tables.        *)
(*                                                                         *)
(* The argument: a handler validates its change against the model it has   *)
(* read, and holds the row lock with the version it read when it commits;  *)
(* the version tells models apart, so the model it validated against is    *)
(* the model it changes.  The writers that do not validate cannot break a  *)
(* policy: attribute keys only grow, deleting a role removes policies, and *)
(* `true` compiles against anything.                                       *)
(***************************************************************************)
EXTENDS AccessModel, TLAPS

-----------------------------------------------------------------------------
(* Facts about the changes.                                                *)

\* A change to a model gives a model.
LEMMA AppliedIsModel ==
    ASSUME NEW m, IsModel(m), NEW q \in Requests
    PROVE  IsModel(Applied(m, q))
<1>1. CASE q.op = "binding"
  BY <1>1 DEF IsModel, Applied, SetBinding
<1>2. CASE q.op = "fields"
  BY <1>2 DEF IsModel, Applied, PutFields
<1>3. CASE q.op = "role"
  BY <1>3 DEF IsModel, Applied, PutRole
<1>4. CASE q.op = "delete"
  BY <1>4 DEF IsModel, Applied, DeleteRole
<1>5. CASE q.op = "keys"
  BY <1>5 DEF IsModel, Applied, AddKeys
<1>6. CASE q.op = "boot"
  BY <1>6 DEF IsModel, Applied, EnsureAdmin, PutRole
<1> QED
  BY <1>1, <1>2, <1>3, <1>4, <1>5, <1>6, RequestsAssumption

\* More attribute keys invalidate no policy.
LEMMA AddKeysCompiles ==
    ASSUME NEW m, IsModel(m), Compiles(m), NEW K
    PROVE  Compiles(AddKeys(m, K))
<1>1. /\ AddKeys(m, K).fields = m.fields
      /\ AddKeys(m, K).roles = m.roles
      /\ AddKeys(m, K).keys = m.keys \cup K
  BY DEF IsModel, AddKeys
<1> QED
  BY <1>1 DEF Compiles, EnvCompiles, PolicyCompiles, Vocabulary

\* Changing roles leaves compiling what each remaining policy needs.
LEMMA RolesCompile ==
    ASSUME NEW m, IsModel(m), Compiles(m), NEW roles,
           \A r \in DOMAIN roles : \A p \in roles[r] :
               \/ p = AdminPolicy
               \/ r \in DOMAIN m.roles /\ p \in m.roles[r]
    PROVE  Compiles([m EXCEPT !.roles = roles])
<1> DEFINE n == [m EXCEPT !.roles = roles]
<1>1. n.fields = m.fields /\ n.keys = m.keys /\ n.roles = roles
  BY DEF IsModel
<1>2. EnvCompiles(n)
  BY <1>1 DEF Compiles, EnvCompiles, Vocabulary
<1>3. ASSUME NEW p
      PROVE  PolicyCompiles(p, n) <=> PolicyCompiles(p, m)
  BY <1>1 DEF PolicyCompiles, Vocabulary
<1>4. PolicyCompiles(AdminPolicy, n)
  BY DEF PolicyCompiles, AdminPolicy
<1> HIDE DEF n
<1> QED
  BY <1>1, <1>2, <1>3, <1>4 DEF Compiles, n

\* A request that was validated against a model that compiles, and that its
\* transaction does not reject, gives a model that compiles.
LEMMA ValidCompiles ==
    ASSUME NEW m, IsModel(m), Compiles(m), NEW q \in Requests, Valid(m, q)
    PROVE  Compiles(Applied(m, q))
<1>1. CASE q.op \in {"binding", "fields", "role"}
  BY <1>1 DEF Valid
<1>2. CASE q.op = "delete"
  <2>1. Applied(m, q) =
            [m EXCEPT !.roles = [n \in DOMAIN m.roles \ {q.role} |-> m.roles[n]]]
    BY <1>2 DEF Applied, DeleteRole
  <2> QED
    BY <2>1, RolesCompile
<1>3. CASE q.op = "keys"
  BY <1>3, AddKeysCompiles DEF Applied
<1>4. CASE q.op = "boot"
  <2> DEFINE ps == PoliciesOf(m, AdminRole) \cup {AdminPolicy}
  <2>1. Applied(m, q) = [m EXCEPT !.roles = WithRole(m.roles, AdminRole, ps)]
    BY <1>4 DEF Applied, EnsureAdmin, PutRole
  <2>2. \A r \in DOMAIN WithRole(m.roles, AdminRole, ps) :
            \A p \in WithRole(m.roles, AdminRole, ps)[r] :
               \/ p = AdminPolicy
               \/ r \in DOMAIN m.roles /\ p \in m.roles[r]
    BY DEF WithRole, PoliciesOf
  <2> QED
    BY <2>1, <2>2, RolesCompile
<1> QED
  BY <1>1, <1>2, <1>3, <1>4, RequestsAssumption

\* A change that its transaction does not reject leaves the admin role alone.
LEMMA AppliedKeepsAdmin ==
    ASSUME NEW m, IsModel(m), NEW q \in Requests, Storable(m, q),
           AdminRole \in DOMAIN m.roles => m.roles[AdminRole] = {AdminPolicy}
    PROVE  LET n == Applied(m, q) IN
           /\ AdminRole \in DOMAIN m.roles => AdminRole \in DOMAIN n.roles
           /\ AdminRole \in DOMAIN n.roles => n.roles[AdminRole] = {AdminPolicy}
<1>1. CASE q.op = "binding"
  BY <1>1 DEF IsModel, Applied, SetBinding
<1>2. CASE q.op = "fields"
  BY <1>2 DEF IsModel, Applied, PutFields
<1>3. CASE q.op = "role"
  BY <1>3 DEF IsModel, Applied, PutRole, WithRole, Storable, Protected
<1>4. CASE q.op = "delete"
  BY <1>4 DEF IsModel, Applied, DeleteRole, Storable, Protected
<1>5. CASE q.op = "keys"
  BY <1>5 DEF IsModel, Applied, AddKeys
<1>6. CASE q.op = "boot"
  BY <1>6 DEF IsModel, Applied, EnsureAdmin, PutRole, WithRole, PoliciesOf
<1> QED
  BY <1>1, <1>2, <1>3, <1>4, <1>5, <1>6, RequestsAssumption
-----------------------------------------------------------------------------
(* The inductive invariant.                                                *)

LEMMA InitModelInv == Init => ModelInv
<1> SUFFICES ASSUME Init PROVE ModelInv
  OBVIOUS
<1> USE UnlockedAssumption DEF Init, SerialInit
<1>1. TypeOK
  BY DEF TypeOK, HasRead, IsModel, FreshModel, Outcomes, Locations
<1>2. RequestsInProgress /\ LockHeld
  BY DEF RequestsInProgress, LockHeld, Answered
<1>3. ReadsHonest /\ VersionTellsModel /\ ProposalsValid
  BY DEF ReadsHonest, VersionTellsModel, ProposalsValid, HasRead
<1>4. KeysAccounted
  BY DEF KeysAccounted
<1>5. StoredModelCompiles /\ AdminIntact
  BY DEF StoredModelCompiles, AdminIntact, FreshModel, Compiles, EnvCompiles, Vocabulary
<1> QED
  BY <1>1, <1>2, <1>3, <1>4, <1>5 DEF ModelInv

\* A step that leaves the model alone leaves these parts of the invariant alone.
LEMMA ModelUnchanged ==
    ASSUME ModelInv, UNCHANGED <<model, version>>
    PROVE  StoredModelCompiles' /\ AdminIntact' /\ IsModel(model)' /\ version' \in Nat \ {0}
  BY DEF ModelInv, TypeOK, StoredModelCompiles, AdminIntact

\* A request arrives.
LEMMA ArrivalKeepsModelInv ==
    ASSUME ModelInv, NEW h \in Handler, Receive(h) \/ Boot(h) \/ StartAttrs(h)
    PROVE  ModelInv'
<1>1. PICK q \in Requests : asked' = [asked EXCEPT ![h] = q]
  BY DEF Receive, Boot, StartAttrs, Ask
<1>2. /\ pc[h] = "idle"
      /\ outcome' = [outcome EXCEPT ![h] = "pending"]
      /\ UNCHANGED <<model, version>>
      /\ base' = base /\ lock' = lock /\ added' = added
  BY DEF Receive, Boot, StartAttrs, Ask, attrs
<1>3. \/ pc' = [pc EXCEPT ![h] = "asked"] /\ q.op \notin {"keys", "boot"} /\ at' = at /\ left' = left
      \/ pc' = [pc EXCEPT ![h] = "proposed"] /\ q.op = "boot" /\ at' = at /\ left' = left
      \/ /\ pc' = [pc EXCEPT ![h] = "inserting"]
         /\ q.op = "keys"
         /\ \E k \in q.keys :
               at' = [at EXCEPT ![h] = k] /\ left' = [left EXCEPT ![h] = q.keys \ {k}]
  BY <1>1 DEF Receive, Boot, StartAttrs, Goto, attrs, ModelInv, TypeOK
<1> USE <1>1, <1>2, <1>3, ModelUnchanged DEF ModelInv, TypeOK
<1>4. TypeOK'
  BY DEF Outcomes, Locations, HasRead
<1>5. RequestsInProgress'
  BY DEF RequestsInProgress
<1>6. LockHeld'
  BY DEF LockHeld
<1>7. ReadsHonest' /\ VersionTellsModel'
  BY DEF ReadsHonest, VersionTellsModel, HasRead
<1>8. ProposalsValid'
  BY DEF ProposalsValid, HasRead
<1>9. KeysAccounted'
  BY DEF KeysAccounted
<1> QED
  BY <1>4, <1>5, <1>6, <1>7, <1>8, <1>9

\* A handler gives up: whatever it held is gone.
LEMMA GiveUpKeepsModelInv ==
    ASSUME ModelInv, NEW h \in Handler, GiveUp(h)
    PROVE  ModelInv'
<1>1. /\ UNCHANGED <<model, version>>
      /\ pc' = [pc EXCEPT ![h] = "idle"]
      /\ outcome' = [outcome EXCEPT ![h] = "refused"]
      /\ asked' = [asked EXCEPT ![h] = NoRequest]
      /\ base' = [base EXCEPT ![h] = NotRead]
      /\ lock' = IF lock = h THEN Unlocked ELSE lock
      /\ at' = [at EXCEPT ![h] = NoKey]
      /\ left' = [left EXCEPT ![h] = {}]
      /\ added' = [added EXCEPT ![h] = {}]
  BY DEF GiveUp, Refuse, Answer, Goto, EndTransaction
<1> USE <1>1, UnlockedAssumption, ModelUnchanged DEF ModelInv, TypeOK
<1>4. TypeOK'
  BY DEF Outcomes, Locations, HasRead
<1>5. RequestsInProgress'
  BY DEF RequestsInProgress, Answered
<1>6. LockHeld'
  BY DEF LockHeld
<1>7. ReadsHonest' /\ VersionTellsModel'
  BY DEF ReadsHonest, VersionTellsModel, HasRead
<1>8. ProposalsValid'
  BY DEF ProposalsValid, HasRead
<1>9. KeysAccounted'
  BY DEF KeysAccounted
<1> QED
  BY <1>4, <1>5, <1>6, <1>7, <1>8, <1>9

LEMMA ProposeKeepsModelInv ==
    ASSUME ModelInv, NEW h \in Handler, Propose(h)
    PROVE  ModelInv'
<1> USE ModelUnchanged DEF ModelInv, TypeOK, Propose, Goto, serialVars, attrs
<1>4. TypeOK'
  BY DEF Locations, HasRead
<1>5. RequestsInProgress'
  BY DEF RequestsInProgress
<1>6. LockHeld'
  BY DEF LockHeld
<1>7. ReadsHonest' /\ VersionTellsModel'
  BY DEF ReadsHonest, VersionTellsModel, HasRead
<1>8. ProposalsValid'
  BY DEF ProposalsValid, HasRead
<1>9. KeysAccounted'
  BY DEF KeysAccounted
<1> QED
  BY <1>4, <1>5, <1>6, <1>7, <1>8, <1>9

LEMMA LockKeepsModelInv ==
    ASSUME ModelInv, NEW h \in Handler, Lock(h) \/ LockToBump(h)
    PROVE  ModelInv'
<1> USE ModelUnchanged, UnlockedAssumption
    DEF ModelInv, TypeOK, Lock, LockToBump, Goto, serialVars, attrs
<1>4. TypeOK'
  BY DEF Locations, HasRead, RequestsInProgress
<1>5. RequestsInProgress'
  BY DEF RequestsInProgress
<1>6. LockHeld'
  BY DEF LockHeld
<1>7. ReadsHonest' /\ VersionTellsModel'
  BY DEF ReadsHonest, VersionTellsModel, HasRead, RequestsInProgress
<1>8. ProposalsValid'
  BY DEF ProposalsValid, HasRead, Current, RequestsInProgress
<1>9. KeysAccounted'
  BY DEF KeysAccounted, RequestsInProgress
<1> QED
  BY <1>4, <1>5, <1>6, <1>7, <1>8, <1>9

\* A key is inserted only once nobody else holds it.
LEMMA InsertKeepsModelInv ==
    ASSUME ModelInv, NEW h \in Handler, Insert(h)
    PROVE  ModelInv'
<1>1. /\ pc[h] = "inserting"
      /\ asked[h] \in Requests /\ asked[h].op = "keys"
      /\ \A g \in Handler \ {h} : at[h] \notin added[g]
  BY DEF Insert, WaitsFor, ModelInv, RequestsInProgress
<1>2. /\ added' = [added EXCEPT ![h] = IF at[h] \in model.keys THEN @ ELSE @ \cup {at[h]}]
      /\ UNCHANGED <<model, version>>
      /\ asked' = asked /\ outcome' = outcome /\ base' = base /\ lock' = lock
  BY DEF Insert, InsertKey, serialVars
<1>3. \/ /\ left[h] # {}
         /\ \E k \in left[h] :
               at' = [at EXCEPT ![h] = k] /\ left' = [left EXCEPT ![h] = @ \ {k}]
         /\ pc' = pc
      \/ /\ left[h] = {} /\ left' = left /\ at' = [at EXCEPT ![h] = NoKey]
         /\ \/ added'[h] # {} /\ pc' = [pc EXCEPT ![h] = "inserted"]
            \/ added'[h] = {} /\ pc' = [pc EXCEPT ![h] = "known"]
  BY DEF Insert, InsertKey, Goto
<1> USE <1>1, <1>2, <1>3, ModelUnchanged DEF ModelInv, TypeOK
<1>4. TypeOK'
  BY DEF Locations, HasRead
<1>5. RequestsInProgress'
  BY DEF RequestsInProgress
<1>6. LockHeld'
  BY DEF LockHeld
<1>7. ReadsHonest' /\ VersionTellsModel'
  BY DEF ReadsHonest, VersionTellsModel, HasRead
<1>8. ProposalsValid'
  BY DEF ProposalsValid, HasRead
<1>9. KeysAccounted'
  BY DEF KeysAccounted
<1> QED
  BY <1>4, <1>5, <1>6, <1>7, <1>8, <1>9
\* The end of a transaction that committed, as the handler experiences it.
LEMMA CommittedStep ==
    ASSUME NEW h \in Handler, Committed(h), DOMAIN outcome = Handler
    PROVE  /\ \/ /\ outcome' = [outcome EXCEPT ![h] = "applied"]
                 /\ asked' = asked
                 /\ pc' = [pc EXCEPT ![h] = "committed"]
              \/ /\ outcome' = [outcome EXCEPT ![h] = "lost"]
                 /\ asked' = [asked EXCEPT ![h] = NoRequest]
                 /\ pc' = [pc EXCEPT ![h] = "idle"]
           /\ base' = [base EXCEPT ![h] = NotRead]
           /\ lock' = IF lock = h THEN Unlocked ELSE lock
           /\ at' = [at EXCEPT ![h] = NoKey]
           /\ left' = [left EXCEPT ![h] = {}]
           /\ added' = [added EXCEPT ![h] = {}]
  BY DEF Committed, Conclude, Answer, Goto, EndTransaction

LEMMA CommitKnownKeepsModelInv ==
    ASSUME ModelInv, NEW h \in Handler, CommitKnown(h)
    PROVE  ModelInv'
<1> USE CommittedStep, UnlockedAssumption, ModelUnchanged DEF ModelInv, TypeOK, CommitKnown
<1>4. TypeOK'
  BY DEF Outcomes, Locations, HasRead
<1>5. RequestsInProgress'
  BY DEF RequestsInProgress, Answered
<1>6. LockHeld'
  BY DEF LockHeld
<1>7. ReadsHonest' /\ VersionTellsModel'
  BY DEF ReadsHonest, VersionTellsModel, HasRead
<1>8. ProposalsValid'
  BY DEF ProposalsValid, HasRead
<1>9. KeysAccounted'
  BY DEF KeysAccounted
<1> QED
  BY <1>4, <1>5, <1>6, <1>7, <1>8, <1>9

\* The heart of the matter: a change that commits is valid for the model it
\* changes, and writes what was asked.
LEMMA CommitIsApplied ==
    ASSUME ModelInv, NEW h \in Handler, Commit(h)
    PROVE  /\ asked[h] \in Requests
           /\ outcome[h] = "pending"
           /\ Valid(model, asked[h])
           /\ Storable(model, asked[h])
           /\ ~NothingNew(model, asked[h])
           /\ model' = Applied(model, asked[h])
<1>1. /\ pc[h] = "writing"
      /\ asked[h] \in Requests /\ outcome[h] = "pending"
      /\ Storable(model, asked[h])
      /\ model' = Written(h)
  BY DEF Commit, ModelInv, RequestsInProgress
<1>2. CASE asked[h].op \in {"keys", "boot"}
  <2>1. Valid(model, asked[h])
    BY <1>2 DEF Valid
  <2>2. CASE asked[h].op = "keys"
    <3>1. /\ added[h] # {} /\ added[h] \subseteq asked[h].keys
          /\ asked[h].keys \subseteq model.keys \cup added[h]
          /\ added[h] \cap model.keys = {}
      BY <1>1, <2>2 DEF ModelInv, KeysAccounted
    <3>2. model.keys \cup added[h] = model.keys \cup asked[h].keys
      BY <3>1
    <3>3. Written(h) = Applied(model, asked[h])
      BY <2>2, <3>2 DEF Written, Applied, AddKeys
    <3> QED
      BY <1>1, <2>1, <3>1, <3>3 DEF NothingNew
  <2>3. CASE asked[h].op = "boot"
    BY <1>1, <2>1, <2>3 DEF Written, NothingNew
  <2> QED
    BY <1>2, <2>2, <2>3
<1>3. CASE asked[h].op \notin {"keys", "boot"}
  <2>1. base[h].version = version /\ Valid(base[h].model, asked[h])
    BY <1>1, <1>3 DEF ModelInv, ProposalsValid, HasRead
  <2>2. base[h].model = model
    BY <1>1, <1>3, <2>1 DEF ModelInv, VersionTellsModel, HasRead
  <2> QED
    BY <1>1, <1>3, <2>1, <2>2 DEF Written, NothingNew
<1> QED
  BY <1>2, <1>3

\* Attribute keys are only ever added, and only by the handler that inserted them.
LEMMA CommitAddsOwnKeys ==
    ASSUME ModelInv, NEW h \in Handler, Commit(h)
    PROVE  model.keys \subseteq model'.keys /\ model'.keys \subseteq model.keys \cup added[h]
<1>1. asked[h] \in Requests /\ model' = Written(h) /\ IsModel(model)
  BY CommitIsApplied DEF Commit, ModelInv, TypeOK
<1>2. CASE asked[h].op = "keys"
  BY <1>1, <1>2 DEF Written, AddKeys, IsModel
<1>3. CASE asked[h].op = "binding"
  BY <1>1, <1>3 DEF Written, Applied, SetBinding, IsModel
<1>4. CASE asked[h].op = "fields"
  BY <1>1, <1>4 DEF Written, Applied, PutFields, IsModel
<1>5. CASE asked[h].op = "role"
  BY <1>1, <1>5 DEF Written, Applied, PutRole, IsModel
<1>6. CASE asked[h].op = "delete"
  BY <1>1, <1>6 DEF Written, Applied, DeleteRole, IsModel
<1>7. CASE asked[h].op = "boot"
  BY <1>1, <1>7 DEF Written, Applied, EnsureAdmin, PutRole, IsModel
<1> QED
  BY <1>1, <1>2, <1>3, <1>4, <1>5, <1>6, <1>7, RequestsAssumption

LEMMA CommitKeepsModelInv ==
    ASSUME ModelInv, NEW h \in Handler, Commit(h)
    PROVE  ModelInv'
<1>1. /\ IsModel(model')
      /\ Compiles(model')
      /\ AdminRole \in DOMAIN model'.roles => model'.roles[AdminRole] = {AdminPolicy}
  BY CommitIsApplied, AppliedIsModel, ValidCompiles, AppliedKeepsAdmin
  DEF ModelInv, TypeOK, StoredModelCompiles, AdminIntact
<1>2. pc[h] = "writing" /\ lock = h /\ version' = version + 1
  BY DEF Commit, ModelInv, LockHeld
<1>3. Committed(h)
  BY DEF Commit
<1> USE <1>1, <1>2, <1>3, CommittedStep, UnlockedAssumption DEF ModelInv, TypeOK
<1>4. TypeOK'
  BY DEF Outcomes, Locations, HasRead
<1>5. RequestsInProgress'
  BY DEF RequestsInProgress, Answered
<1>6. LockHeld'
  BY DEF LockHeld
<1>7. ReadsHonest' /\ VersionTellsModel'
  BY DEF ReadsHonest, VersionTellsModel, HasRead
<1>8. ProposalsValid'
  BY DEF ProposalsValid, LockHeld, HasRead
<1>9. KeysAccounted'
  BY CommitAddsOwnKeys DEF KeysAccounted
<1>10. StoredModelCompiles' /\ AdminIntact'
  BY DEF StoredModelCompiles, AdminIntact
<1> QED
  BY <1>4, <1>5, <1>6, <1>7, <1>8, <1>9, <1>10

LEMMA FinishKeepsModelInv ==
    ASSUME ModelInv, NEW h \in Handler, Finish(h)
    PROVE  ModelInv'
<1> USE ModelUnchanged DEF ModelInv, TypeOK, Finish, Acknowledge, Answer, Goto, attrs
<1>4. TypeOK'
  BY DEF Outcomes, Locations, HasRead
<1>5. RequestsInProgress'
  BY DEF RequestsInProgress, Answered
<1>6. LockHeld'
  BY DEF LockHeld
<1>7. ReadsHonest' /\ VersionTellsModel'
  BY DEF ReadsHonest, VersionTellsModel, HasRead
<1>8. ProposalsValid'
  BY DEF ProposalsValid, HasRead
<1>9. KeysAccounted'
  BY DEF KeysAccounted
<1> QED
  BY <1>4, <1>5, <1>6, <1>7, <1>8, <1>9

LEMMA StutterKeepsModelInv ==
    ASSUME ModelInv, UNCHANGED vars
    PROVE  ModelInv'
<1> USE ModelUnchanged DEF ModelInv, vars
<1>1. TypeOK' /\ RequestsInProgress' /\ LockHeld'
  BY DEF TypeOK, RequestsInProgress, LockHeld, HasRead
<1>2. ReadsHonest' /\ VersionTellsModel' /\ ProposalsValid'
  BY DEF ReadsHonest, VersionTellsModel, ProposalsValid, HasRead
<1>3. KeysAccounted'
  BY DEF KeysAccounted
<1> QED
  BY <1>1, <1>2, <1>3

\* The six ways to give up.
Refused(h) == Reject(h) \/ Forbid(h) \/ Conflict(h) \/ Undo(h) \/ Fail(h) \/ AbortDeadlocked(h)

LEMMA NextKeepsModelInv == ModelInv /\ [Next]_vars => ModelInv'
<1> SUFFICES ASSUME ModelInv, [Next]_vars
             PROVE  ModelInv'
  OBVIOUS
<1>1. CASE UNCHANGED vars
  BY <1>1, StutterKeepsModelInv
<1>2. ASSUME NEW h \in Handler, Receive(h) \/ Boot(h) \/ StartAttrs(h)
      PROVE  ModelInv'
  BY <1>2, ArrivalKeepsModelInv
<1>3. ASSUME NEW h \in Handler, Refused(h)
      PROVE  ModelInv'
  BY <1>3, GiveUpKeepsModelInv
  DEF Refused, Reject, Forbid, Conflict, Undo, Fail, AbortDeadlocked
<1>4. ASSUME NEW h \in Handler, Propose(h) \/ Lock(h) \/ LockToBump(h) \/ Insert(h)
      PROVE  ModelInv'
  BY <1>4, ProposeKeepsModelInv, LockKeepsModelInv, InsertKeepsModelInv
<1>5. ASSUME NEW h \in Handler, Commit(h) \/ CommitKnown(h) \/ Finish(h)
      PROVE  ModelInv'
  BY <1>5, CommitKeepsModelInv, CommitKnownKeepsModelInv, FinishKeepsModelInv
<1> QED
  BY <1>1, <1>2, <1>3, <1>4, <1>5 DEF Next, Validate, Acquire, End, Refused

\* The invariant holds in every reachable state.
THEOREM ModelInvariant == Spec => []ModelInv
  BY InitModelInv, NextKeepsModelInv, PTL DEF Spec

\* Every variable of the write path keeps its type.
THEOREM TypeCorrect == Spec => []TypeOK
<1>1. ModelInv => TypeOK
  BY DEF ModelInv
<1> QED
  BY <1>1, ModelInvariant, PTL

\* Whatever writers interleave, the stored model compiles: no replica is left
\* unable to load it.
THEOREM StoredModelAlwaysCompiles == Spec => []StoredModelCompiles
<1>1. ModelInv => StoredModelCompiles
  BY DEF ModelInv
<1> QED
  BY <1>1, ModelInvariant, PTL

\* A model that was read at the current version is the current model.
THEOREM VersionAlwaysTells == Spec => []VersionTellsModel
<1>1. ModelInv => VersionTellsModel
  BY DEF ModelInv
<1> QED
  BY <1>1, ModelInvariant, PTL

\* No write removes the admin role or narrows what it grants.
THEOREM AdminAlwaysKept == Spec => AdminRoleKept
<1>1. ModelInv /\ [Next]_vars => [AdminStays]_vars
  <2> SUFFICES ASSUME ModelInv, Next, AdminRole \in DOMAIN model.roles
               PROVE  /\ AdminRole \in DOMAIN model'.roles
                      /\ model'.roles[AdminRole] = {AdminPolicy}
    BY DEF AdminStays
  <2>1. CASE UNCHANGED model
    BY <2>1 DEF ModelInv, AdminIntact
  <2>2. ASSUME NEW h \in Handler, Commit(h)
        PROVE  AdminRole \in DOMAIN model'.roles
    BY <2>2, CommitIsApplied, AppliedKeepsAdmin DEF ModelInv, TypeOK, AdminIntact
  <2>3. ASSUME NEW h \in Handler, ~Commit(h), Next
        PROVE  UNCHANGED model \/ \E g \in Handler : Commit(g)
    BY <2>3
    DEF Next, Receive, Boot, StartAttrs, Ask, Validate, Propose, Reject, Forbid, Acquire, Lock, Conflict,
        LockToBump, Insert, InsertKey, End, CommitKnown, Undo, AbortDeadlocked, Finish,
        Acknowledge, Fail, GiveUp, Refuse, serialVars
  <2>4. ModelInv'
    BY NextKeepsModelInv
  <2> QED
    BY <2>1, <2>2, <2>3, <2>4 DEF ModelInv, AdminIntact, Next
<1> QED
  BY <1>1, ModelInvariant, PTL DEF Spec, AdminRoleKept

-----------------------------------------------------------------------------
(* Writes are serial.                                                      *)

\* Every step of the write path is a step of SerialModel or changes nothing of it.
LEMMA NextImplementsSerialNext ==
    ASSUME ModelInv, [Next]_vars
    PROVE  [SerialNext]_serialVars
<1>1. ASSUME NEW h \in Handler, Receive(h) \/ Boot(h) \/ StartAttrs(h)
      PROVE  SerialNext
  BY <1>1 DEF Receive, Boot, StartAttrs, SerialNext
<1>2. ASSUME NEW h \in Handler, Refused(h)
      PROVE  SerialNext
  BY <1>2
  DEF Refused, Reject, Forbid, Conflict, Undo, Fail, AbortDeadlocked, GiveUp, SerialNext
<1>3. ASSUME NEW h \in Handler, Propose(h) \/ Lock(h) \/ LockToBump(h) \/ Insert(h)
      PROVE  UNCHANGED serialVars
  BY <1>3 DEF Propose, Lock, LockToBump, Insert, InsertKey
<1>4. ASSUME NEW h \in Handler, Commit(h)
      PROVE  SerialNext
  <2>1. Apply(h)
    BY <1>4, CommitIsApplied DEF Commit, Committed, Apply
  <2> QED
    BY <2>1 DEF SerialNext
<1>5. ASSUME NEW h \in Handler, CommitKnown(h)
      PROVE  SerialNext
  <2>1. /\ outcome[h] = "pending"
        /\ NothingNew(model, asked[h])
    BY <1>5 DEF CommitKnown, ModelInv, RequestsInProgress, KeysAccounted, NothingNew
  <2> QED
    BY <1>5, <2>1 DEF CommitKnown, Committed, ApplyNothing, SerialNext
<1>6. ASSUME NEW h \in Handler, Finish(h)
      PROVE  SerialNext
  BY <1>6 DEF Finish, SerialNext
<1>7. CASE UNCHANGED vars
  BY <1>7 DEF vars, serialVars
<1> QED
  BY <1>1, <1>2, <1>3, <1>4, <1>5, <1>6, <1>7 DEF Next, Validate, Acquire, End, Refused

\* The write path implements the serial model.
THEOREM WritesAreSerial == Spec => ImplementsSerial
<1>1. Init => SerialInit
  BY DEF Init
<1>2. ModelInv /\ [Next]_vars => [SerialNext]_serialVars
  BY NextImplementsSerialNext
<1> QED
  BY <1>1, <1>2, ModelInvariant, PTL DEF Spec, ImplementsSerial, SerialSpec
=============================================================================
