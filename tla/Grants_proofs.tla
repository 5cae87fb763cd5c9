---------------------------- MODULE Grants_proofs ----------------------------
(***************************************************************************)
(* Proofs about Grants: GrantsInv is inductive, and the safety properties  *)
(* follow from it, for any calls, roles, attributes and patches, and       *)
(* however often a user or a role is deleted and created anew.             *)
(***************************************************************************)
EXTENDS Grants, TLAPS

\* An attribute set stays one when it is patched.
LEMMA PatchedTyped ==
    ASSUME NEW A \in Attributes, NEW p \in Patches
    PROVE  Patched(A, p) \in Attributes
BY PatchAssumption DEF Attributes, Patched

LEMMA Initially == Init => GrantsInv
<1> SUFFICES ASSUME Init PROVE GrantsInv
  OBVIOUS
<1>1. NoAttributes \in Attributes
  BY DEF NoAttributes, Attributes
<1>2. TablesTyped /\ RowsExist
  <2>1. PICK p \in Patches : attr = [u \in Users |-> IF u = 1 THEN Patched(NoAttributes, p) ELSE NoAttributes]
    BY DEF Init
  <2>2. attr \in [Users -> Attributes] /\ \A u \in Users \ {user} : attr[u] = NoAttributes
    BY <1>1, <2>1, PatchedTyped DEF Init
  <2>3. PICK L \in Lists : assigned = {1} \X (L \X {1})
    BY DEF Init
  <2>4. L \X {1} \subseteq Roles
    BY NamesAssumption, BoundAssumption DEF Roles
  <2>5. assigned \in SUBSET (Users \X Roles)
    BY <2>3, <2>4, BoundAssumption DEF Users
  <2>6. \A given \in assigned : given[1] = user /\ role[given[2][1]] = given[2][2]
    BY <2>3, NamesAssumption DEF Init
  <2>7. TablesTyped
    BY <2>2, <2>5, BoundAssumption DEF Init, TablesTyped
  <2>8. RowsExist
    BY <2>2, <2>6 DEF Init, RowsExist
  <2> QED BY <2>7, <2>8
<1>3. CallsTyped
  BY <1>1, BoundAssumption DEF Init, CallsTyped, Tx, NoTx
<1>4. RowsCounted /\ WrittenExist /\ PriorDeleted /\ PatchWitnessed
  BY DEF Init, RowsCounted, WrittenExist, PriorDeleted, PatchWitnessed, NoTx
<1>5. RequestInv
  BY <1>1, BoundAssumption DEF Init, RequestInv, RequestTyped, RequestWitnessed, NoReq, NotHeld
<1> QED
  BY <1>2, <1>3, <1>4, <1>5 DEF GrantsInv, CallsInv

-----------------------------------------------------------------------------
(* Steps of a call that write no table.                                    *)

\* Such a step changes one call, which stays in order if the others are.
Moves(a, t) ==
    /\ t \in Tx
    /\ tx' = [tx EXCEPT ![a] = t]
    /\ calls' \in 0..MaxCalls
    /\ UNCHANGED table

InOrder(t) ==
    /\ t.uid <= users
    /\ t.step \in {"delete", "insert", "patch", "commit"} => t.uid # 0
    /\ t.inserted \cup t.locked # {} => t.uid = user /\ user # 0
    /\ \A r \in t.inserted : role[r[1]] = r[2] /\ r[1] \in t.list
    /\ t.todo \subseteq t.list
    /\ t.step = "delete" => \A r \in t.prior \cap RolesOf(t.uid) : r \in t.sees \cup t.regranted
    /\ t.step = "insert" => \A r \in t.prior \cap RolesOf(t.uid) : r \in t.deleted \cup t.regranted
    /\ t.left \cup t.locked \subseteq DOMAIN t.patch
    /\ t.step \in {"patch", "commit"} => attr[t.uid] \in t.was
    /\ t.step = "commit" =>
          \A k \in Key : IF k \in t.locked THEN t.after[k] = t.patch[k]
                         ELSE \E w \in t.was : w[k] = t.after[k]

LEMMA InOrderCalls ==
    ASSUME CallsInv, NEW a \in Admin
    PROVE  InOrder(tx[a])
BY DEF CallsInv, RowsCounted, WrittenExist, PriorDeleted, PatchWitnessed, InOrder

LEMMA MovesKeep ==
    ASSUME CallsInv, NEW a \in Admin, NEW t, Moves(a, t), InOrder(t)
    PROVE  CallsInv'
<1> USE DEF CallsInv
<1>1. user' = user /\ users' = users /\ role' = role /\ roles' = roles /\ assigned' = assigned
      /\ attr' = attr /\ key' = key
  BY DEF Moves, table
<1>2. TablesTyped' /\ RowsExist'
  BY <1>1 DEF TablesTyped, RowsExist
<1>3. CallsTyped'
  BY DEF CallsTyped, Moves
<1>4. \A b \in Admin : InOrder(tx'[b])
  <2>1. \A b \in Admin : tx'[b] = IF b = a THEN t ELSE tx[b]
    BY DEF CallsTyped, Moves
  <2> QED BY <2>1, InOrderCalls
<1>5. \A u : (RolesOf(u))' = RolesOf(u)
  BY <1>1 DEF RolesOf, RolesIn
<1>6. RowsCounted' /\ WrittenExist'
  BY <1>1, <1>4 DEF RowsCounted, WrittenExist, InOrder
<1>7. PriorDeleted'
  BY <1>4, <1>5 DEF PriorDeleted, InOrder
<1>8. PatchWitnessed'
  BY <1>1, <1>4 DEF PatchWitnessed, InOrder
<1> QED BY <1>2, <1>3, <1>6, <1>7, <1>8

LEMMA UpdateUserKeeps ==
    ASSUME CallsInv, NEW a \in Admin, NEW L \in Lists, UpdateUser(a, L)
    PROVE  CallsInv'
<1> DEFINE t == [NoTx EXCEPT !.step = "delete", !.uid = user, !.list = L, !.todo = L,
                             !.sees = RolesOf(user), !.prior = RolesOf(user)]
<1>1. RolesOf(user) \subseteq Roles
  BY DEF CallsInv, TablesTyped, RolesOf, RolesIn
<1>2. t \in Tx
  BY <1>1, NamesAssumption, BoundAssumption DEF CallsInv, TablesTyped, Tx, NoTx, Attributes, NoAttributes
<1>3. Moves(a, t)
  BY <1>2, BoundAssumption DEF Moves, UpdateUser, CallsInv, CallsTyped
<1>4. InOrder(t)
  BY <1>2 DEF InOrder, CallsInv, RowsCounted, UpdateUser, NoTx
<1> QED BY <1>3, <1>4, MovesKeep

LEMMA DeleteRolesKeeps ==
    ASSUME CallsInv, NEW a \in Admin, DeleteRoles(a)
    PROVE  CallsInv'
<1> DEFINE t == [tx[a] EXCEPT !.deleted = tx[a].sees \cap RolesOf(tx[a].uid), !.sees = {}, !.step = "insert"]
<1>1. tx[a] \in Tx
  BY DEF CallsInv, CallsTyped
<1>2. t \in Tx
  BY <1>1 DEF Tx
<1>3. Moves(a, t)
  BY <1>1, <1>2 DEF Moves, DeleteRoles, CallsInv, CallsTyped
<1>4. InOrder(t)
  BY <1>1, InOrderCalls DEF InOrder, DeleteRoles, Tx
<1> QED BY <1>3, <1>4, MovesKeep

LEMMA SetRoleKeeps ==
    ASSUME CallsInv, NEW a \in Admin, NEW n \in RoleName, SetRole(a, n)
    PROVE  CallsInv'
<1> DEFINE more == IF <<n, role[n]>> \in RolesOf(user) \ tx[a].deleted
                   THEN tx[a].inserted ELSE tx[a].inserted \cup {<<n, role[n]>>}
           t == [tx[a] EXCEPT !.todo = @ \ {n}, !.inserted = more]
<1>1. tx[a] \in Tx
  BY DEF CallsInv, CallsTyped
<1>2. <<n, role[n]>> \in Roles
  BY BoundAssumption DEF CallsInv, TablesTyped, Roles, SetRole
<1>3. t \in Tx
  BY <1>1, <1>2 DEF Tx
<1>4. Moves(a, t)
  BY <1>1, <1>3 DEF Moves, SetRole, CallsInv, CallsTyped
<1>5. InOrder(t)
  <2>1. InOrder(tx[a]) /\ tx[a].uid # 0
    BY InOrderCalls DEF InOrder, SetRole
  <2>2. n \in tx[a].list /\ tx[a].step = "insert" /\ tx[a].uid = user
    BY <2>1 DEF InOrder, SetRole
  <2> QED BY <1>1, <2>1, <2>2 DEF InOrder, Tx
<1> QED BY <1>4, <1>5, MovesKeep

LEMMA PatchAttributesKeeps ==
    ASSUME CallsInv, NEW a \in Admin, NEW p \in Patches, PatchAttributes(a, p)
    PROVE  CallsInv'
<1> DEFINE t == [NoTx EXCEPT !.step = "patch", !.uid = user, !.patch = p,
                             !.left = DOMAIN p, !.was = {attr[user]}]
<1>1. user \in Users /\ attr[user] \in Attributes
  BY BoundAssumption DEF CallsInv, TablesTyped, Users, PatchAttributes
<1>a. NoAttributes \in Attributes
  BY DEF Attributes, NoAttributes
<1>b. DOMAIN p \subseteq Key /\ {attr[user]} \subseteq Attributes /\ 0 \in 0..MaxUser /\ user \in 0..MaxUser
  BY <1>1, PatchAssumption, BoundAssumption DEF Users
<1>2. t \in Tx
  BY <1>a, <1>b DEF Tx, NoTx
<1>3. Moves(a, t)
  BY <1>2, BoundAssumption DEF Moves, PatchAttributes, CallsInv, CallsTyped
<1>4. InOrder(t)
  BY <1>2 DEF InOrder, CallsInv, RowsCounted, PatchAttributes, NoTx
<1> QED BY <1>3, <1>4, MovesKeep

LEMMA PatchKeyKeeps ==
    ASSUME CallsInv, NEW a \in Admin, NEW k \in Key, PatchKey(a, k)
    PROVE  CallsInv'
<1>1. tx[a] \in Tx /\ InOrder(tx[a])
  BY InOrderCalls DEF CallsInv, CallsTyped
<1>2. CASE tx[a].patch[k] = None /\ attr[tx[a].uid][k] = None
  <2> DEFINE t == [tx[a] EXCEPT !.left = @ \ {k}]
  <2>1. t \in Tx
    BY <1>1 DEF Tx
  <2>2. Moves(a, t)
    BY <1>1, <1>2, <2>1 DEF Moves, PatchKey, CallsInv, CallsTyped
  <2>3. InOrder(t)
    BY <1>1 DEF InOrder, PatchKey, Tx
  <2> QED BY <2>2, <2>3, MovesKeep
<1>3. CASE ~(tx[a].patch[k] = None /\ attr[tx[a].uid][k] = None)
  <2> DEFINE t == [tx[a] EXCEPT !.left = @ \ {k}, !.locked = @ \cup {k}]
  <2>1. t \in Tx
    BY <1>1 DEF Tx
  <2>2. Moves(a, t)
    BY <1>1, <1>3, <2>1 DEF Moves, PatchKey, CallsInv, CallsTyped
  <2>3. InOrder(t)
    BY <1>1, <1>3 DEF InOrder, PatchKey, Tx
  <2> QED BY <2>2, <2>3, MovesKeep
<1> QED BY <1>2, <1>3

\* What a patch sees is a set of attributes.
LEMMA SeenTyped ==
    ASSUME CallsInv, NEW a \in Admin, tx[a].uid \in Users
    PROVE  Seen(a) \in Attributes
<1>1. tx[a] \in Tx /\ InOrder(tx[a])
  BY InOrderCalls DEF CallsInv, CallsTyped
<1>2. attr[tx[a].uid] \in Attributes
  BY DEF CallsInv, TablesTyped
<1>3. \A k \in tx[a].locked : tx[a].patch[k] \in Value \cup {None}
  BY <1>1, PatchAssumption DEF InOrder, Tx, NoAttributes
<1> QED BY <1>2, <1>3 DEF Seen, Attributes

\* The user of a call that is under way is a row.
LEMMA CallOfUser ==
    ASSUME CallsInv, NEW a \in Admin, tx[a].step \in {"delete", "insert", "patch", "commit"}
    PROVE  tx[a].uid \in Users
BY BoundAssumption DEF CallsInv, CallsTyped, RowsCounted, Tx, Users

LEMMA ReadAfterKeeps ==
    ASSUME CallsInv, NEW a \in Admin, ReadAfter(a)
    PROVE  CallsInv'
<1> DEFINE t == [tx[a] EXCEPT !.after = Seen(a), !.step = "commit"]
<1>1. tx[a] \in Tx /\ InOrder(tx[a])
  BY InOrderCalls DEF CallsInv, CallsTyped
<1>2. Seen(a) \in Attributes
  BY CallOfUser, SeenTyped DEF ReadAfter
<1>3. t \in Tx
  BY <1>1, <1>2 DEF Tx
<1>4. Moves(a, t)
  BY <1>1, <1>3 DEF Moves, ReadAfter, CallsInv, CallsTyped
<1>5. InOrder(t)
  <2>1. attr[tx[a].uid] \in tx[a].was
    BY <1>1 DEF InOrder, ReadAfter
  <2>2. \A k \in Key : IF k \in tx[a].locked THEN Seen(a)[k] = tx[a].patch[k]
                       ELSE Seen(a)[k] = attr[tx[a].uid][k]
    BY DEF Seen
  <2> QED BY <1>1, <2>1, <2>2 DEF InOrder, ReadAfter, Tx
<1> QED BY <1>4, <1>5, MovesKeep

\* A call ends, with its entry or without.
LEMMA EndKeeps ==
    ASSUME CallsInv, NEW a \in Admin, AuditPatch(a) \/ Abort(a)
    PROVE  CallsInv'
<1>1. NoTx \in Tx
  BY BoundAssumption DEF NoTx, Tx, Attributes, NoAttributes
<1>2. Moves(a, NoTx)
  BY <1>1 DEF Moves, AuditPatch, Abort, CallsInv, CallsTyped
<1>3. InOrder(NoTx)
  BY BoundAssumption DEF InOrder, NoTx, CallsInv, RowsCounted, TablesTyped
<1> QED BY <1>2, <1>3, MovesKeep

-----------------------------------------------------------------------------
(* Steps that write a table.                                               *)

LEMMA CommitRolesKeeps ==
    ASSUME CallsInv, NEW a \in Admin, CommitRoles(a)
    PROVE  CallsInv'
<1> USE DEF CallsInv
<1> DEFINE s == tx[a]
<1>1. s \in Tx /\ s.uid \in Users /\ InOrder(s) /\ s.step = "insert"
  BY InOrderCalls, CallOfUser DEF CallsTyped, CommitRoles
<1>2. /\ assigned' = (assigned \ ({s.uid} \X s.deleted)) \cup ({s.uid} \X s.inserted)
      /\ UNCHANGED <<user, users, role, roles, attr, key, calls>>
  BY DEF CommitRoles
<1>3. \A b \in Admin :
        tx'[b] = IF b = a THEN NoTx
                 ELSE IF tx[b].uid = s.uid
                      THEN [tx[b] EXCEPT !.sees = @ \ s.deleted, !.regranted = @ \cup s.inserted]
                      ELSE tx[b]
  BY DEF CommitRoles
<1>4. TablesTyped'
  BY <1>1, <1>2 DEF TablesTyped, Tx
<1>5. CallsTyped'
  <2>1. NoTx \in Tx
    BY BoundAssumption DEF NoTx, Tx, Attributes, NoAttributes
  <2>2. ASSUME NEW b \in Admin
        PROVE  tx'[b] \in Tx
    <3>1. [tx[b] EXCEPT !.sees = @ \ s.deleted, !.regranted = @ \cup s.inserted] \in Tx
      BY <1>1 DEF CallsTyped, Tx
    <3> QED BY <1>3, <2>1, <3>1 DEF CallsTyped
  <2>3. tx' = [b \in Admin |-> tx'[b]]
    BY DEF CommitRoles
  <2> QED BY <1>2, <2>2, <2>3 DEF CallsTyped
<1>6. RowsExist'
  <2>1. \A r \in s.inserted : s.uid = user /\ role[r[1]] = r[2]
    BY <1>1 DEF InOrder
  <2> QED BY <1>2, <2>1 DEF RowsExist
<1>7. \A b \in Admin : tx[b] \in Tx /\ InOrder(tx[b])
  BY InOrderCalls DEF CallsTyped
<1>8. RowsCounted' /\ WrittenExist' /\ PatchWitnessed'
  <2>1. \A b \in Admin \ {a} :
          /\ tx'[b].uid = tx[b].uid /\ tx'[b].step = tx[b].step /\ tx'[b].inserted = tx[b].inserted
          /\ tx'[b].locked = tx[b].locked /\ tx'[b].left = tx[b].left /\ tx'[b].patch = tx[b].patch
          /\ tx'[b].was = tx[b].was /\ tx'[b].after = tx[b].after
    BY <1>3, <1>7 DEF Tx
  <2>2. tx'[a] = NoTx
    BY <1>3
  <2> QED BY <1>2, <2>1, <2>2, BoundAssumption
        DEF RowsCounted, WrittenExist, PatchWitnessed, NoTx, TablesTyped
<1>9. PriorDeleted'
  <2>1. \A u : u # s.uid => RolesIn(assigned', u) = RolesOf(u)
    BY <1>2 DEF RolesOf, RolesIn
  <2>2. RolesIn(assigned', s.uid) \subseteq (RolesOf(s.uid) \ s.deleted) \cup s.inserted
    <3> SUFFICES ASSUME NEW q \in assigned', q[1] = s.uid, q[2] \notin s.inserted
                 PROVE  q[2] \in RolesOf(s.uid) \ s.deleted
      BY DEF RolesOf, RolesIn
    <3>1. q = <<s.uid, q[2]>>
      BY <1>4 DEF TablesTyped
    <3>2. q \in assigned /\ q[2] \notin s.deleted
      BY <1>2, <3>1
    <3> QED BY <3>2 DEF RolesOf, RolesIn
  <2>3. \A b \in Admin :
          /\ tx[b].todo \subseteq tx[b].list
          /\ \A r \in tx[b].inserted : r[1] \in tx[b].list
          /\ tx[b].step = "delete" =>
                \A r \in tx[b].prior \cap RolesOf(tx[b].uid) : r \in tx[b].sees \cup tx[b].regranted
          /\ tx[b].step = "insert" =>
                \A r \in tx[b].prior \cap RolesOf(tx[b].uid) : r \in tx[b].deleted \cup tx[b].regranted
    BY DEF PriorDeleted
  <2>4. tx'[a].todo = {} /\ tx'[a].inserted = {} /\ tx'[a].step = "idle"
    <3>1. tx'[a] = NoTx
      BY <1>3
    <3> QED BY <3>1 DEF NoTx
  <2>5. ASSUME NEW b \in Admin \ {a}, tx[b].uid # s.uid
        PROVE  tx'[b] = tx[b] /\ RolesIn(assigned', tx'[b].uid) = RolesOf(tx[b].uid)
    <3>1. tx'[b] = tx[b]
      BY <1>3, <2>5
    <3> QED BY <2>1, <2>5, <3>1
  <2>6. ASSUME NEW b \in Admin \ {a}, tx[b].uid = s.uid
        PROVE  /\ tx'[b].uid = s.uid /\ tx'[b].step = tx[b].step /\ tx'[b].list = tx[b].list
               /\ tx'[b].todo = tx[b].todo /\ tx'[b].inserted = tx[b].inserted
               /\ tx'[b].prior = tx[b].prior /\ tx'[b].deleted = tx[b].deleted
               /\ tx'[b].sees = tx[b].sees \ s.deleted
               /\ tx'[b].regranted = tx[b].regranted \cup s.inserted
    BY <1>3, <1>7, <2>6 DEF Tx
  <2>7. ASSUME NEW b \in Admin
        PROVE  /\ tx'[b].todo \subseteq tx'[b].list
               /\ \A r \in tx'[b].inserted : r[1] \in tx'[b].list
               /\ tx'[b].step = "delete" =>
                     \A r \in tx'[b].prior \cap RolesIn(assigned', tx'[b].uid) :
                         r \in tx'[b].sees \cup tx'[b].regranted
               /\ tx'[b].step = "insert" =>
                     \A r \in tx'[b].prior \cap RolesIn(assigned', tx'[b].uid) :
                         r \in tx'[b].deleted \cup tx'[b].regranted
    <3>1. CASE b = a
      BY <2>4, <3>1
    <3>2. CASE b # a /\ tx[b].uid # s.uid
      BY <2>3, <2>5, <3>2
    <3>3. CASE b # a /\ tx[b].uid = s.uid
      <4>1. RolesIn(assigned', tx'[b].uid) \subseteq (RolesOf(tx[b].uid) \ s.deleted) \cup s.inserted
        BY <2>2, <2>6, <3>3
      <4> QED BY <2>3, <2>6, <3>3, <4>1
    <3> QED BY <3>1, <3>2, <3>3
  <2> QED BY <2>7 DEF PriorDeleted, RolesOf
<1> QED BY <1>4, <1>5, <1>6, <1>8, <1>9

\* The patches of a user take the new attributes into their histories.
LEMMA WitnessedInOrder ==
    ASSUME CallsInv, NEW u \in Users, attr'[u] \in Attributes, NEW b \in Admin
    PROVE  /\ Witnessed(u)[b] \in Tx
           /\ \A f \in {"step", "uid", "list", "todo", "sees", "deleted", "inserted", "prior",
                        "regranted", "patch", "left", "locked", "after"} :
                  Witnessed(u)[b][f] = tx[b][f]
           /\ tx[b].was \subseteq Witnessed(u)[b].was
           /\ tx[b].uid = u /\ tx[b].step \in {"patch", "commit"} => attr'[u] \in Witnessed(u)[b].was
<1>1. tx[b] \in Tx
  BY DEF CallsInv, CallsTyped
<1>2. [tx[b] EXCEPT !.was = @ \cup {attr'[u]}] \in Tx
  BY <1>1 DEF Tx
<1> QED BY <1>1, <1>2 DEF Witnessed, Tx

LEMMA CommitPatchKeeps ==
    ASSUME CallsInv, NEW a \in Admin, CommitPatch(a)
    PROVE  CallsInv'
<1> USE DEF CallsInv
<1> DEFINE u == tx[a].uid
<1>1. tx[a] \in Tx /\ u \in Users
  BY CallOfUser DEF CallsTyped, CommitPatch
<1>2. Seen(a) \in Attributes
  BY <1>1, SeenTyped
<1>3. /\ attr' = [attr EXCEPT ![u] = Seen(a)]
      /\ UNCHANGED <<user, users, role, roles, assigned, key, calls>>
  BY DEF CommitPatch
<1>4. TablesTyped' /\ attr'[u] = Seen(a)
  BY <1>1, <1>2, <1>3 DEF TablesTyped
<1>5. RowsExist'
  <2>1. u # user => Seen(a) = attr[u]
    BY <1>1, InOrderCalls DEF InOrder, Seen, TablesTyped, Attributes
  <2> QED BY <1>1, <1>3, <2>1 DEF RowsExist, TablesTyped
<1>6. \A b \in Admin : tx'[b] = IF b = a THEN [NoTx EXCEPT !.step = "audit"] ELSE Witnessed(u)[b]
  BY DEF CommitPatch, Witnessed
<1>7. [NoTx EXCEPT !.step = "audit"] \in Tx
  <2>1. NoAttributes \in Attributes
    BY DEF Attributes, NoAttributes
  <2> QED BY <2>1, BoundAssumption DEF NoTx, Tx
<1>8. CallsTyped'
  <2>1. \A b \in Admin : tx'[b] \in Tx
    BY <1>1, <1>2, <1>4, <1>6, <1>7, WitnessedInOrder
  <2>2. tx' = [b \in Admin |-> tx'[b]]
    BY DEF CommitPatch, Witnessed
  <2> QED BY <1>3, <2>1, <2>2 DEF CallsTyped
<1>9. \A b \in Admin \ {a} :
        /\ tx'[b].step = tx[b].step /\ tx'[b].uid = tx[b].uid /\ tx'[b].list = tx[b].list
        /\ tx'[b].todo = tx[b].todo /\ tx'[b].sees = tx[b].sees /\ tx'[b].deleted = tx[b].deleted
        /\ tx'[b].inserted = tx[b].inserted /\ tx'[b].prior = tx[b].prior
        /\ tx'[b].regranted = tx[b].regranted /\ tx'[b].patch = tx[b].patch /\ tx'[b].left = tx[b].left
        /\ tx'[b].locked = tx[b].locked /\ tx'[b].after = tx[b].after
        /\ tx[b].was \subseteq tx'[b].was
        /\ tx[b].uid = u /\ tx[b].step \in {"patch", "commit"} => attr'[u] \in tx'[b].was
  BY <1>1, <1>2, <1>4, <1>6, WitnessedInOrder
<1>10. /\ tx'[a].step = "audit" /\ tx'[a].uid = 0 /\ tx'[a].list = {} /\ tx'[a].todo = {}
       /\ tx'[a].inserted = {} /\ tx'[a].locked = {} /\ tx'[a].left = {}
  BY <1>6 DEF NoTx
<1>11. RowsCounted' /\ WrittenExist'
  BY <1>3, <1>9, <1>10, BoundAssumption DEF RowsCounted, WrittenExist, TablesTyped
<1>12. PriorDeleted'
  <2>1. \A v : (RolesOf(v))' = RolesOf(v)
    BY <1>3 DEF RolesOf, RolesIn
  <2> QED BY <1>9, <1>10, <2>1 DEF PriorDeleted
<1>13. PatchWitnessed'
  <2>1. \A v \in Users : v # u => attr'[v] = attr[v]
    BY <1>3 DEF TablesTyped
  <2>2. \A b \in Admin : tx[b].step \in {"patch", "commit"} => tx[b].uid \in Users
    BY CallOfUser
  <2> QED BY <1>9, <1>10, <2>1, <2>2 DEF PatchWitnessed
<1> QED BY <1>4, <1>5, <1>8, <1>11, <1>12, <1>13

\* A row that is new has nothing, and no call knows it yet.
LEMMA CreateUserKeeps ==
    ASSUME CallsInv, NEW L \in Lists, NEW p \in Patches, CreateUser(L, p)
    PROVE  CallsInv'
<1> USE DEF CallsInv
<1>1. /\ user = 0 /\ user' = users + 1 /\ users' = users + 1 /\ user' \in Users /\ users' \in 0..MaxUser
      /\ assigned' = assigned \cup ({user'} \X {<<n, role[n]>> : n \in L})
      /\ attr' = [attr EXCEPT ![user'] = Patched(NoAttributes, p)]
      /\ UNCHANGED <<role, roles, key, tx, calls>>
  BY BoundAssumption DEF CreateUser, TablesTyped, Users
<1>2. Patched(NoAttributes, p) \in Attributes
  <2>1. NoAttributes \in Attributes
    BY DEF Attributes, NoAttributes
  <2> QED BY <2>1, PatchedTyped
<1>3. assigned = {}
  <2>1. \A q \in assigned : q[1] \in Users /\ q[1] = 0
    BY <1>1 DEF TablesTyped, RowsExist
  <2> QED BY <2>1 DEF Users
<1>4. {<<n, role[n]>> : n \in L} \subseteq Roles
  BY NamesAssumption, BoundAssumption DEF CreateUser, TablesTyped, Roles
<1>5. TablesTyped'
  BY <1>1, <1>2, <1>4 DEF TablesTyped
<1>6. CallsTyped'
  BY <1>1 DEF CallsTyped
<1>7. \A a \in Admin : tx[a].uid # user' /\ tx[a].uid \in 0..MaxUser
  BY <1>1 DEF RowsCounted, TablesTyped, CallsTyped, Tx
<1>8. \A v \in Users : v # user' => attr'[v] = attr[v]
  BY <1>1 DEF TablesTyped
<1>9. RowsExist'
  <2>1. key = {}
    BY <1>1 DEF RowsExist, TablesTyped, Users
  <2> QED BY <1>1, <1>3, <1>8, <2>1 DEF RowsExist, Users
<1>10. RowsCounted' /\ WrittenExist'
  BY <1>1, <1>7 DEF RowsCounted, WrittenExist, TablesTyped, CallsTyped, Tx
<1>11. PriorDeleted'
  <2>1. \A a \in Admin : RolesIn(assigned', tx[a].uid) = {}
    BY <1>1, <1>3, <1>7 DEF RolesIn
  <2> QED BY <1>1, <2>1 DEF PriorDeleted, RolesOf
<1>12. PatchWitnessed'
  BY <1>1, <1>7, <1>8, CallOfUser DEF PatchWitnessed
<1> QED BY <1>5, <1>6, <1>9, <1>10, <1>11, <1>12

\* Nothing that a call has written is the deleted user's.
LEMMA DeleteUserKeeps ==
    ASSUME CallsInv, DeleteUser
    PROVE  CallsInv'
<1> USE DEF CallsInv
<1>1. /\ user' = 0 /\ assigned' = {q \in assigned : q[1] # user} /\ key' = key \ {user}
      /\ attr' = [attr EXCEPT ![user] = NoAttributes] /\ tx' = Witnessed(user)
      /\ UNCHANGED <<users, role, roles, calls>> /\ user \in Users /\ Idle(user)
  BY BoundAssumption DEF DeleteUser, TablesTyped, Users
<1>2. NoAttributes \in Attributes
  BY DEF Attributes, NoAttributes
<1>3. TablesTyped' /\ attr'[user] = NoAttributes
  BY <1>1, <1>2, BoundAssumption DEF TablesTyped
<1>4. \A b \in Admin :
        /\ tx'[b] \in Tx
        /\ tx'[b].step = tx[b].step /\ tx'[b].uid = tx[b].uid /\ tx'[b].list = tx[b].list
        /\ tx'[b].todo = tx[b].todo /\ tx'[b].sees = tx[b].sees /\ tx'[b].deleted = tx[b].deleted
        /\ tx'[b].inserted = tx[b].inserted /\ tx'[b].prior = tx[b].prior
        /\ tx'[b].regranted = tx[b].regranted /\ tx'[b].patch = tx[b].patch /\ tx'[b].left = tx[b].left
        /\ tx'[b].locked = tx[b].locked /\ tx'[b].after = tx[b].after
        /\ tx[b].was \subseteq tx'[b].was
        /\ tx[b].uid = user /\ tx[b].step \in {"patch", "commit"} => attr'[user] \in tx'[b].was
  BY <1>1, <1>2, <1>3, WitnessedInOrder
<1>5. CallsTyped'
  <2>1. tx' = [b \in Admin |-> tx'[b]]
    BY <1>1 DEF Witnessed
  <2> QED BY <1>1, <1>4, <2>1 DEF CallsTyped
<1>6. RowsExist'
  BY <1>1, <1>3 DEF RowsExist, TablesTyped
<1>7. \A b \in Admin : tx[b].inserted \cup tx[b].locked = {}
  BY <1>1 DEF Idle, WrittenExist
<1>8. RowsCounted' /\ WrittenExist'
  BY <1>1, <1>4, <1>7 DEF RowsCounted, WrittenExist, TablesTyped
<1>9. PriorDeleted'
  <2>1. \A v : RolesIn(assigned', v) \subseteq RolesOf(v)
    BY <1>1 DEF RolesOf, RolesIn
  <2> QED BY <1>4, <2>1 DEF PriorDeleted, RolesOf
<1>10. PatchWitnessed'
  <2>1. \A v \in Users : v # user => attr'[v] = attr[v]
    BY <1>1 DEF TablesTyped
  <2>2. \A b \in Admin : tx[b].step \in {"patch", "commit"} => tx[b].uid \in Users
    BY CallOfUser
  <2> QED BY <1>4, <2>1, <2>2 DEF PatchWitnessed
<1> QED BY <1>3, <1>5, <1>6, <1>8, <1>9, <1>10

\* No call has written an assignment of the deleted role.
LEMMA DeleteRoleKeeps ==
    ASSUME CallsInv, NEW n \in RoleName, DeleteRole(n)
    PROVE  CallsInv'
<1> USE DEF CallsInv
<1>1. /\ role' = [role EXCEPT ![n] = 0] /\ assigned' = {q \in assigned : q[2] # <<n, role[n]>>}
      /\ \A b \in Admin : <<n, role[n]>> \notin tx[b].deleted \cup tx[b].inserted
      /\ UNCHANGED <<user, users, roles, attr, key, tx, calls>>
  BY DEF DeleteRole
<1>2. \A m \in RoleName : role'[m] = IF m = n THEN 0 ELSE role[m]
  BY <1>1 DEF TablesTyped
<1>3. TablesTyped'
  <2>1. MaxRole[n] \in Nat
    BY BoundAssumption
  <2>2. \A m \in RoleName : role'[m] \in 0..MaxRole[m]
    BY <1>2, <2>1 DEF TablesTyped
  <2>3. DOMAIN role' = RoleName
    BY <1>1 DEF TablesTyped
  <2> QED BY <1>1, <2>2, <2>3 DEF TablesTyped
<1>4. CallsTyped' /\ RowsCounted' /\ PatchWitnessed'
  BY <1>1 DEF CallsTyped, RowsCounted, PatchWitnessed
<1>5. \A r \in Roles : r = <<r[1], r[2]>> /\ r[1] \in RoleName
  BY DEF Roles
<1>6. RowsExist'
  <2>1. ASSUME NEW q \in assigned'
        PROVE  q[1] = user' /\ role'[q[2][1]] = q[2][2]
    <3>1. q \in assigned /\ q[2] \in Roles /\ q[2] # <<n, role[n]>>
      BY <1>1 DEF TablesTyped
    <3>2. role[q[2][1]] = q[2][2] /\ q[1] = user
      BY <3>1 DEF RowsExist
    <3> QED BY <1>1, <1>2, <1>5, <3>1, <3>2
  <2> QED BY <1>1, <2>1 DEF RowsExist
<1>7. WrittenExist'
  <2>1. ASSUME NEW a \in Admin, NEW r \in tx[a].inserted
        PROVE  role'[r[1]] = r[2]
    <3>1. r \in Roles /\ r # <<n, role[n]>>
      BY <1>1 DEF CallsTyped, Tx
    <3>2. role[r[1]] = r[2]
      BY DEF WrittenExist
    <3> QED BY <1>2, <1>5, <3>1, <3>2
  <2> QED BY <1>1, <2>1 DEF WrittenExist
<1>8. PriorDeleted'
  <2>1. \A v : RolesIn(assigned', v) \subseteq RolesOf(v)
    BY <1>1 DEF RolesOf, RolesIn
  <2> QED BY <1>1, <2>1 DEF PriorDeleted, RolesOf
<1> QED BY <1>3, <1>4, <1>6, <1>7, <1>8

LEMMA CreateRoleKeeps ==
    ASSUME CallsInv, NEW n \in RoleName, CreateRole(n)
    PROVE  CallsInv'
<1> USE DEF CallsInv
<1>1. /\ role[n] = 0 /\ role' = [role EXCEPT ![n] = roles[n] + 1] /\ roles' = [roles EXCEPT ![n] = @ + 1]
      /\ roles[n] < MaxRole[n]
      /\ UNCHANGED <<user, users, assigned, attr, key, tx, calls>>
  BY DEF CreateRole
<1>2. \A m \in RoleName \ {n} : role'[m] = role[m] /\ roles'[m] = roles[m]
  BY <1>1 DEF TablesTyped
<1>3. TablesTyped'
  <2>1. MaxRole[n] \in Nat /\ roles[n] \in 1..MaxRole[n]
    BY BoundAssumption DEF TablesTyped
  <2>2. role'[n] = roles[n] + 1 /\ roles'[n] = roles[n] + 1
    BY <1>1 DEF TablesTyped
  <2>3. role'[n] \in 0..MaxRole[n] /\ roles'[n] \in 1..MaxRole[n]
    BY <1>1, <2>1, <2>2
  <2>4. \A m \in RoleName : role'[m] \in 0..MaxRole[m] /\ roles'[m] \in 1..MaxRole[m]
    BY <1>2, <2>3 DEF TablesTyped
  <2>5. DOMAIN role' = RoleName /\ DOMAIN roles' = RoleName
    BY <1>1 DEF TablesTyped
  <2> QED BY <1>1, <2>4, <2>5 DEF TablesTyped
<1>4. CallsTyped' /\ RowsCounted' /\ PatchWitnessed'
  BY <1>1 DEF CallsTyped, RowsCounted, PatchWitnessed
<1>5. \A r \in Roles : r[1] \in RoleName /\ r[2] # 0
  BY BoundAssumption DEF Roles
<1>6. RowsExist'
  BY <1>1, <1>2, <1>5 DEF RowsExist, TablesTyped
<1>7. WrittenExist'
  <2>1. \A a \in Admin : tx[a].inserted \subseteq Roles
    BY DEF CallsTyped, Tx
  <2> QED BY <1>1, <1>2, <1>5, <2>1 DEF WrittenExist
<1>8. PriorDeleted'
  BY <1>1 DEF PriorDeleted, RolesOf
<1> QED BY <1>3, <1>4, <1>6, <1>7, <1>8

\* Requests and the end of a key touch the keys only.
LEMMA KeysKeep ==
    ASSUME CallsInv, RequestInv, Request \/ \E u \in Users : RevokeKey(u)
    PROVE  CallsInv'
<1> USE DEF CallsInv
<1>1. UNCHANGED <<user, users, role, roles, assigned, attr, tx, calls>> /\ key' \subseteq key \cup ({user} \ {0})
  BY DEF Request, Lookup, LoadUser, LoadRoles, LoadAttrs, FindOwner, CreateKey, Answer, RevokeKey, table,
         RequestInv, RequestWitnessed
<1>2. user # 0 => user \in Users
  BY BoundAssumption DEF TablesTyped, Users
<1>3. TablesTyped' /\ RowsExist'
  BY <1>1, <1>2 DEF TablesTyped, RowsExist
<1>4. CallsTyped' /\ RowsCounted' /\ WrittenExist' /\ PatchWitnessed'
  BY <1>1 DEF CallsTyped, RowsCounted, WrittenExist, PatchWitnessed
<1>5. PriorDeleted'
  BY <1>1 DEF PriorDeleted, RolesOf
<1> QED BY <1>3, <1>4, <1>5

-----------------------------------------------------------------------------
(* The request, beside any step.                                           *)

LEMMA CallsKeep ==
    ASSUME GrantsInv, Next
    PROVE  CallsInv'
<1> USE DEF GrantsInv
<1>1. ASSUME NEW a \in Admin, Call(a)
      PROVE  CallsInv'
  BY <1>1, UpdateUserKeeps, DeleteRolesKeeps, SetRoleKeeps, CommitRolesKeeps, PatchAttributesKeeps,
     PatchKeyKeeps, ReadAfterKeeps, CommitPatchKeeps, EndKeeps DEF Call
<1>2. CASE Change
  BY <1>2, CreateUserKeeps, DeleteUserKeeps, DeleteRoleKeeps, CreateRoleKeeps, KeysKeep DEF Change
<1>3. CASE Request
  BY <1>3, KeysKeep
<1> QED BY <1>1, <1>2, <1>3 DEF Next

\* What a step of the request makes of it.
RequestStep ==
    \/ req' = req
    \/ req' = NoReq
    \/ \E u \in Users : req.step = "none" /\ req' = [NoReq EXCEPT !.step = "user", !.uid = u]
    \/ req.step = "user" /\ req' = [req EXCEPT !.step = "roles"]
    \/ LoadRoles
    \/ LoadAttrs
    \/ /\ req.step = "loaded" /\ user # 0
       /\ req' = [NoReq EXCEPT !.step = "mint", !.uid = req.uid, !.owner = user]

LEMMA RequestSteps ==
    ASSUME Next
    PROVE  RequestStep
<1>1. ASSUME NEW a \in Admin, Call(a)
      PROVE  req' = req
  BY <1>1 DEF Call, UpdateUser, DeleteRoles, SetRole, CommitRoles, PatchAttributes, PatchKey, ReadAfter,
              CommitPatch, AuditPatch, Abort
<1>2. CASE Change
  BY <1>2 DEF Change, CreateUser, DeleteUser, DeleteRole, CreateRole, RevokeKey, RequestStep
<1>3. CASE Request
  BY <1>3 DEF Request, Lookup, LoadUser, FindOwner, CreateKey, Answer, RequestStep
<1> QED BY <1>1, <1>2, <1>3 DEF Next, RequestStep

LEMMA RequestStepTyped ==
    ASSUME GrantsInv, Next
    PROVE  /\ RequestTyped'
           /\ req'.step \in {"user", "roles", "attrs", "loaded"} => req'.uid # 0
           /\ req'.step = "mint" => req'.owner # 0
<1> USE DEF GrantsInv, CallsInv, RequestInv
<1>1. CallsInv'
  BY CallsKeep
<1>2. NoAttributes \in Attributes /\ 0 \in 0..MaxUser
  BY BoundAssumption DEF Attributes, NoAttributes
<1>3. \A u : Names(RolesOf(u)) \subseteq RoleName /\ Names(RolesIn(assigned', u)) \subseteq RoleName
  <2>1. assigned \subseteq Users \X Roles /\ assigned' \subseteq Users \X Roles
    BY <1>1 DEF TablesTyped
  <2>2. \A r \in Roles : r[1] \in RoleName
    BY DEF Roles
  <2> QED BY <2>1, <2>2 DEF RolesOf, RolesIn, Names
<1>4. /\ req' \in [step : {"none", "user", "roles", "attrs", "loaded", "mint"}, uid : 0..MaxUser,
                    roles : SUBSET RoleName, attrs : Attributes, owner : 0..MaxUser]
      /\ req'.step \in {"user", "roles", "attrs", "loaded"} => req'.uid # 0
      /\ req'.step = "mint" => req'.owner # 0
  <2>1. req \in [step : {"none", "user", "roles", "attrs", "loaded", "mint"}, uid : 0..MaxUser,
                 roles : SUBSET RoleName, attrs : Attributes, owner : 0..MaxUser]
    BY DEF RequestTyped
  <2>2. /\ req.step \in {"user", "roles", "attrs", "loaded"} => req.uid # 0 /\ req.uid \in Users
        /\ req.step = "mint" => req.owner # 0
    BY <2>1, BoundAssumption DEF RequestWitnessed, Users
  <2>3. RequestStep
    BY RequestSteps
  <2>4. CASE req' = req \/ req' = NoReq \/ (req.step = "user" /\ req' = [req EXCEPT !.step = "roles"])
    BY <1>2, <2>1, <2>2, <2>4 DEF NoReq
  <2>5. ASSUME NEW u \in Users, req' = [NoReq EXCEPT !.step = "user", !.uid = u]
        PROVE  /\ req' \in [step : {"none", "user", "roles", "attrs", "loaded", "mint"}, uid : 0..MaxUser,
                            roles : SUBSET RoleName, attrs : Attributes, owner : 0..MaxUser]
               /\ req'.uid # 0 /\ req'.step = "user"
    <3>1. req' = [step |-> "user", uid |-> u, roles |-> {}, attrs |-> NoAttributes, owner |-> 0]
      BY <2>5 DEF NoReq
    <3> QED BY <1>2, <3>1, BoundAssumption DEF Users
  <2>6. CASE LoadRoles
    BY <1>3, <2>1, <2>2, <2>6 DEF LoadRoles
  <2>7. CASE LoadAttrs
    <3>1. attr[req.uid] \in Attributes
      BY <2>2, <2>7 DEF LoadAttrs, TablesTyped
    <3> QED BY <2>1, <2>2, <2>7, <3>1 DEF LoadAttrs
  <2>8. CASE user # 0 /\ req' = [NoReq EXCEPT !.step = "mint", !.uid = req.uid, !.owner = user]
    BY <1>2, <2>1, <2>8 DEF NoReq, TablesTyped
  <2> QED BY <2>3, <2>4, <2>5, <2>6, <2>7, <2>8 DEF RequestStep
<1>5. held' \in [roles : SUBSET RoleName, attrs : SUBSET (Key \X (Value \cup {None}))]
  <2>1. CASE req'.step \in {"none", "loaded", "mint"}
    BY <2>1 DEF Next, Remember, NotHeld
  <2>2. CASE req'.step \in {"user", "roles", "attrs"}
    <3>1. held' = [roles |-> held.roles \cup Names(RolesIn(assigned', req'.uid)),
                   attrs |-> held.attrs \cup {<<k, attr'[req'.uid][k]>> : k \in Key}]
      BY <2>2 DEF Next, Remember
    <3>2. attr'[req'.uid] \in Attributes
      BY <1>1, <1>4, <2>2, BoundAssumption DEF TablesTyped, Users
    <3>3. \A k \in Key : attr'[req'.uid][k] \in Value \cup {None}
      BY <3>2 DEF Attributes
    <3> QED BY <1>3, <3>1, <3>3 DEF RequestTyped
  <2> QED BY <1>4, <2>1, <2>2
<1> QED BY <1>4, <1>5 DEF RequestTyped

LEMMA RequestKeeps ==
    ASSUME GrantsInv, Next
    PROVE  RequestInv'
<1>1. RequestTyped' /\ RequestStep
  BY RequestStepTyped, RequestSteps
<1>2. ASSUME req'.step \in {"user", "roles", "attrs"}
      PROVE  /\ Names(RolesIn(assigned', req'.uid)) \subseteq held'.roles
             /\ \A k \in Key : <<k, attr'[req'.uid][k]>> \in held'.attrs
             /\ held.roles \subseteq held'.roles
  BY <1>2 DEF Next, Remember
<1>3. req'.step = "attrs" => req'.roles \subseteq held'.roles
  <2> SUFFICES ASSUME req'.step = "attrs" PROVE req'.roles \subseteq held'.roles
    OBVIOUS
  <2>0. req \in [step : {"none", "user", "roles", "attrs", "loaded", "mint"}, uid : 0..MaxUser,
                 roles : SUBSET RoleName, attrs : Attributes, owner : 0..MaxUser]
    BY DEF GrantsInv, RequestInv, RequestTyped
  <2>1. req' = req \/ LoadRoles
    <3>1. \A u, s : [NoReq EXCEPT !.step = s, !.uid = u].step = s
      BY DEF NoReq
    <3>2. NoReq.step = "none" /\ [req EXCEPT !.step = "roles"].step = "roles"
      BY <2>0 DEF NoReq
    <3>4. LoadAttrs => req'.step = "loaded"
      BY <2>0 DEF LoadAttrs
    <3>3. req' # [NoReq EXCEPT !.step = "mint", !.uid = req.uid, !.owner = user]
      BY DEF NoReq
    <3> QED BY <1>1, <3>1, <3>2, <3>3, <3>4 DEF RequestStep
  <2>2. CASE req' = req
    BY <1>2, <2>2 DEF GrantsInv, RequestInv, RequestWitnessed
  <2>3. CASE LoadRoles
    <3>1. assigned' = assigned /\ req'.uid = req.uid /\ req'.roles \subseteq Names(RolesOf(req.uid))
      BY <2>0, <2>3 DEF LoadRoles, table
    <3> QED BY <1>2, <3>1 DEF RolesOf
  <2> QED BY <2>1, <2>2, <2>3
<1> QED
  BY <1>1, <1>2, <1>3, RequestStepTyped DEF RequestInv, RequestWitnessed, RolesOf

-----------------------------------------------------------------------------
(* The theorems.                                                           *)

LEMMA Inductive == GrantsInv /\ [Next]_vars => GrantsInv'
<1> SUFFICES ASSUME GrantsInv, [Next]_vars PROVE GrantsInv'
  OBVIOUS
<1>1. CASE Next
  BY <1>1, CallsKeep, RequestKeeps DEF GrantsInv
<1>2. CASE UNCHANGED vars
  BY <1>2 DEF vars, table, GrantsInv, CallsInv, TablesTyped, CallsTyped, RowsExist, RowsCounted, WrittenExist,
              PriorDeleted, PatchWitnessed, RequestInv, RequestTyped, RequestWitnessed, RolesOf, RolesIn
<1> QED BY <1>1, <1>2

\* The inductive invariant holds in every reachable state.
THEOREM GrantsInvariant == Spec => []GrantsInv
BY Initially, Inductive, PTL DEF Spec

\* Every variable keeps its type.
THEOREM TypeCorrect == Spec => []TypeOK
<1>1. GrantsInv => TypeOK
  BY DEF GrantsInv, CallsInv, RequestInv, TypeOK
<1> QED BY GrantsInvariant, <1>1, PTL

\* Assignments, attributes and keys are those of rows that exist: a user or a
\* role created anew under a name inherits nothing from the one before it.
THEOREM RowsAlwaysExist == Spec => []RowsExist
<1>1. GrantsInv => RowsExist
  BY DEF GrantsInv, CallsInv
<1> QED BY GrantsInvariant, <1>1, PTL

\* Only the commit of a replacement ends it and changes the assignments: what is
\* left of the roles it found is on its list, or was granted again beside it.
THEOREM ReplacementsAlwaysHold == Spec => ReplacementsHold
<1>1. ASSUME GrantsInv, GrantsInv', [Next]_vars
      PROVE  [Replaced]_vars
  <2> SUFFICES ASSUME NEW a \in Admin, tx[a].step = "insert", tx'[a] = NoTx, user = tx[a].uid,
                      assigned' # assigned, NEW p \in assigned', p[2] \in tx[a].prior
               PROVE  p[2][1] \in tx[a].list \/ p[2] \in tx[a].regranted
    BY DEF Replaced
  <2>1. CommitRoles(a)
    <3>1. tx[a] # NoTx /\ NoTx.step = "idle" /\ tx[a] \in Tx
      BY <1>1 DEF NoTx, GrantsInv, CallsInv, CallsTyped
    <3>2. Next
      BY <1>1 DEF vars, table
    <3>3. ASSUME NEW b \in Admin, Call(b)
          PROVE  CommitRoles(a)
      <4>1. CommitRoles(b)
        BY <3>3 DEF Call, UpdateUser, DeleteRoles, SetRole, PatchAttributes, PatchKey, ReadAfter,
                    CommitPatch, AuditPatch, Abort, table
      <4>2. CASE b # a
        <5>1. tx'[a] \in {tx[a], [tx[a] EXCEPT !.sees = @ \ tx[b].deleted, !.regranted = @ \cup tx[b].inserted]}
          BY <4>1, <4>2 DEF CommitRoles
        <5>2. [tx[a] EXCEPT !.sees = @ \ tx[b].deleted, !.regranted = @ \cup tx[b].inserted].step = "insert"
          BY <3>1 DEF Tx
        <5> QED BY <3>1, <5>1, <5>2
      <4> QED BY <4>1, <4>2
    <3>4. ~Request
      BY DEF Request, Lookup, LoadUser, LoadRoles, LoadAttrs, FindOwner, CreateKey, Answer, table
    <3>5. CASE Change
      <4>1. tx' = tx \/ tx' = Witnessed(user)
        BY <3>5 DEF Change, CreateUser, DeleteUser, DeleteRole, CreateRole, RevokeKey
      <4>2. Witnessed(user)[a] = tx[a]
        BY DEF Witnessed
      <4> QED BY <3>1, <4>1, <4>2
    <3> QED BY <3>2, <3>3, <3>4, <3>5 DEF Next
  <2>2. CASE p \in {tx[a].uid} \X tx[a].inserted
    BY <1>1, <2>2 DEF GrantsInv, CallsInv, PriorDeleted
  <2>3. CASE p \notin {tx[a].uid} \X tx[a].inserted
    <3>1. p \in assigned /\ p \notin {tx[a].uid} \X tx[a].deleted
      BY <2>1, <2>3 DEF CommitRoles
    <3>2. p = <<tx[a].uid, p[2]>>
      BY <1>1, <3>1 DEF GrantsInv, CallsInv, RowsExist, TablesTyped
    <3>3. p[2] \in RolesOf(tx[a].uid) /\ p[2] \notin tx[a].deleted
      BY <3>1, <3>2 DEF RolesOf, RolesIn
    <3> QED BY <1>1, <3>3 DEF GrantsInv, CallsInv, PriorDeleted
  <2> QED BY <2>2, <2>3
<1> QED BY <1>1, GrantsInvariant, PTL DEF Spec, ReplacementsHold

\* What a request is answered by, its user held since it came.
THEOREM GrantsAlwaysHeld == Spec => GrantsHeld
<1> DEFINE Held == req'.step = "loaded" /\ req.step = "attrs" =>
                       /\ req.roles \subseteq held.roles
                       /\ \A k \in Key : <<k, req'.attrs[k]>> \in held.attrs
<1>1. ASSUME GrantsInv, [Next]_vars
      PROVE  [Held]_vars
  <2> SUFFICES ASSUME Next, req'.step = "loaded", req.step = "attrs"
               PROVE  /\ req.roles \subseteq held.roles
                      /\ \A k \in Key : <<k, req'.attrs[k]>> \in held.attrs
    BY <1>1
  <2>1. req \in [step : {"none", "user", "roles", "attrs", "loaded", "mint"}, uid : 0..MaxUser,
                 roles : SUBSET RoleName, attrs : Attributes, owner : 0..MaxUser]
    BY <1>1 DEF GrantsInv, RequestInv, RequestTyped
  <2>2. RequestStep
    BY RequestSteps
  <2>3. LoadAttrs
    BY <2>1, <2>2 DEF RequestStep, NoReq, LoadRoles
  <2>4. req'.attrs = attr[req.uid]
    BY <2>1, <2>3 DEF LoadAttrs
  <2> QED BY <1>1, <2>4 DEF GrantsInv, RequestInv, RequestWitnessed
<1> QED BY <1>1, GrantsInvariant, PTL DEF Spec, GrantsHeld

\* What a patch returns is right by each attribute.
THEOREM AuditAlwaysTellsKeys == Spec => AuditTellsKeys
<1>1. ASSUME GrantsInv, [Next]_vars
      PROVE  [AfterByKey]_vars
  <2> SUFFICES ASSUME Next, NEW a \in Admin, tx[a].step = "commit", tx'[a].step = "audit", NEW k \in Key
               PROVE  IF k \in tx[a].locked THEN tx[a].after[k] = attr'[tx[a].uid][k]
                      ELSE \E w \in tx[a].was : w[k] = tx[a].after[k]
    BY <1>1 DEF AfterByKey
  <2>0. \A b \in Admin : tx[b] \in Tx
    BY <1>1 DEF GrantsInv, CallsInv, CallsTyped
  <2>1. CommitPatch(a)
    <3>1. \A u : Witnessed(u)[a].step = "commit"
      BY <2>0 DEF Witnessed, Tx
    <3>2. ~Change /\ ~Request
      BY <3>1 DEF Change, CreateUser, DeleteUser, DeleteRole, CreateRole, RevokeKey, Request, Lookup, LoadUser,
                  LoadRoles, LoadAttrs, FindOwner, CreateKey, Answer
    <3>3. PICK b \in Admin : Call(b)
      BY <3>2 DEF Next
    <3>4. CASE CommitPatch(b)
      <4>1. b # a => tx'[a] = Witnessed(tx[b].uid)[a]
        BY <3>4 DEF CommitPatch, Witnessed
      <4> QED BY <3>1, <3>4, <4>1
    <3>5. CASE CommitRoles(b)
      BY <2>0, <3>5 DEF CommitRoles, NoTx, Tx
    <3>6. CASE AuditPatch(b) \/ Abort(b)
      BY <1>1, <3>6 DEF AuditPatch, Abort, NoTx, GrantsInv, CallsInv, CallsTyped
    <3>7. CASE \/ \E L \in Lists : UpdateUser(b, L)
               \/ \E p \in Patches : PatchAttributes(b, p)
      BY <1>1, <3>7 DEF UpdateUser, PatchAttributes, NoTx, GrantsInv, CallsInv, CallsTyped
    <3>8. CASE \/ DeleteRoles(b)
               \/ \E n \in RoleName : SetRole(b, n)
               \/ \E m \in Key : PatchKey(b, m)
               \/ ReadAfter(b)
      BY <1>1, <2>0, <3>8
      DEF DeleteRoles, SetRole, PatchKey, ReadAfter, GrantsInv, CallsInv, CallsTyped, Tx
    <3> QED BY <3>3, <3>4, <3>5, <3>6, <3>7, <3>8 DEF Call
  <2>2. CASE k \in tx[a].locked
    <3>1. attr'[tx[a].uid] = Seen(a)
      BY <1>1, <2>1, CallOfUser DEF CommitPatch, GrantsInv, CallsInv, TablesTyped
    <3> QED BY <1>1, <2>2, <3>1 DEF Seen, GrantsInv, CallsInv, PatchWitnessed
  <2>3. CASE k \notin tx[a].locked
    BY <1>1, <2>3 DEF GrantsInv, CallsInv, PatchWitnessed
  <2> QED BY <2>2, <2>3
<1> QED BY <1>1, GrantsInvariant, PTL DEF Spec, AuditTellsKeys
=============================================================================
