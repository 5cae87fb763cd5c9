------------------------------- MODULE Grants -------------------------------
(***************************************************************************)
(* What a user holds, and who changes it: the administration of users,     *)
(* roles, attributes and keys (internal/httpapi/admin.go and the tables of *)
(* internal/store/store.go), statement by statement under READ COMMITTED,  *)
(* and a request that is resolved meanwhile (LookupKey, loadSession).      *)
(*                                                                         *)
(* There is one username.  A user and a role are rows, and a row that is   *)
(* deleted and created anew under the same name is another row.            *)
(***************************************************************************)
EXTENDS Naturals, FiniteSets

CONSTANTS Admin,      \* calls under way at once
          RoleName,
          Key, Value, \* attributes
          Patches,    \* what may be patched: functions of some keys
          Lists,      \* what roles may be replaced by
          None,
          MaxUser, MaxRole,  \* bounds on rows under one name
          MaxCalls           \* bound on the calls that are begun

ASSUME NamesAssumption == None \notin Value /\ Lists \subseteq SUBSET RoleName
ASSUME PatchAssumption ==
    \A p \in Patches : DOMAIN p \subseteq Key /\ \A k \in DOMAIN p : p[k] \in Value \cup {None}
ASSUME BoundAssumption ==
    MaxUser \in Nat \ {0} /\ MaxRole \in [RoleName -> Nat \ {0}] /\ MaxCalls \in Nat

VARIABLES user,      \* the row under the username, or 0
          users,     \* the last row there was
          role,      \* the row under each name of a role, or 0
          roles,
          assigned,  \* role_assignment: pairs of rows
          attr,      \* user_attribute
          key,       \* api_key: the users that have a live one
          tx,        \* the calls under way
          calls,     \* those that were begun
          req,       \* a request
          held       \* history: what its user held since it came

table == <<user, users, role, roles, assigned, attr, key>>
vars == <<table, tx, calls, req, held>>

Users == 1..MaxUser
Roles == UNION {{n} \X (1..MaxRole[n]) : n \in RoleName}
Attributes == [Key -> Value \cup {None}]
NoAttributes == [k \in Key |-> None]

Tx == [step : {"idle", "delete", "insert", "patch", "commit", "audit"},
       uid : 0..MaxUser,
       list : Lists \cup {{}}, todo : SUBSET RoleName,
       sees : SUBSET Roles, deleted : SUBSET Roles, inserted : SUBSET Roles,
       prior : SUBSET Roles, regranted : SUBSET Roles,
       patch : Patches \cup {NoAttributes}, left : SUBSET Key, locked : SUBSET Key,
       after : Attributes, was : SUBSET Attributes]

NoTx == [step |-> "idle", uid |-> 0, list |-> {}, todo |-> {},
         sees |-> {}, deleted |-> {}, inserted |-> {}, prior |-> {}, regranted |-> {},
         patch |-> NoAttributes, left |-> {}, locked |-> {},
         after |-> NoAttributes, was |-> {}]

NoReq == [step |-> "none", uid |-> 0, roles |-> {}, attrs |-> NoAttributes, owner |-> 0]
NotHeld == [roles |-> {}, attrs |-> {}]

TablesTyped ==
    /\ user \in 0..MaxUser /\ users \in 0..MaxUser
    /\ \A n \in RoleName : role[n] \in 0..MaxRole[n] /\ roles[n] \in 1..MaxRole[n]
    /\ DOMAIN role = RoleName /\ DOMAIN roles = RoleName
    /\ assigned \in SUBSET (Users \X Roles)
    /\ attr \in [Users -> Attributes]
    /\ key \in SUBSET Users

CallsTyped == tx \in [Admin -> Tx] /\ calls \in 0..MaxCalls

RequestTyped ==
    /\ req \in [step : {"none", "user", "roles", "attrs", "loaded", "mint"}, uid : 0..MaxUser,
                roles : SUBSET RoleName, attrs : Attributes, owner : 0..MaxUser]
    /\ held \in [roles : SUBSET RoleName, attrs : SUBSET (Key \X (Value \cup {None}))]

TypeOK == TablesTyped /\ CallsTyped /\ RequestTyped

Patched(A, p) == [k \in Key |-> IF k \in DOMAIN p THEN p[k] ELSE A[k]]

Init ==
    /\ user = 1 /\ users = 1
    /\ role = [n \in RoleName |-> 1] /\ roles = role
    /\ \E L \in Lists : assigned = {1} \X (L \X {1})
    /\ \E p \in Patches : attr = [u \in Users |-> IF u = 1 THEN Patched(NoAttributes, p) ELSE NoAttributes]
    /\ key = {}
    /\ tx = [a \in Admin |-> NoTx] /\ calls = 0
    /\ req = NoReq /\ held = NotHeld

RolesIn(rows, u) == {p[2] : p \in {q \in rows : q[1] = u}}
RolesOf(u) == RolesIn(assigned, u)
Names(R) == {r[1] : r \in R}

\* What a table that changed holds for the user of the request is remembered.
Remember ==
    held' = IF req'.step \in {"none", "loaded", "mint"} THEN NotHeld
            ELSE [roles |-> held.roles \cup Names(RolesIn(assigned', req'.uid)),
                  attrs |-> held.attrs \cup {<<k, attr'[req'.uid][k]>> : k \in Key}]

\* The row locks of other calls, which a statement waits for.
KeyLocked(a, k) == \E b \in Admin \ {a} : tx[b].uid = tx[a].uid /\ k \in tx[b].locked
Idle(u) == \A b \in Admin : tx[b].uid = u => tx[b].deleted \cup tx[b].inserted = {} /\ tx[b].locked = {}

-----------------------------------------------------------------------------
(* UpdateUser with roles.                                                  *)

\* Fault: the roles are added to those there are.
MergeRoles(a, L) ==
    /\ tx[a].step = "idle"
    /\ user # 0
    /\ calls < MaxCalls
    /\ calls' = calls + 1
    /\ tx' = [tx EXCEPT ![a] = [NoTx EXCEPT !.step = "delete", !.uid = user, !.list = L, !.todo = L,
                                            !.prior = RolesOf(user)]]
    /\ UNCHANGED <<table, req>>

\* The row of the user, and what the delete sees when it starts.
UpdateUser(a, L) ==
    /\ tx[a].step = "idle"
    /\ user # 0
    /\ calls < MaxCalls
    /\ calls' = calls + 1
    /\ tx' = [tx EXCEPT ![a] = [NoTx EXCEPT !.step = "delete", !.uid = user, !.list = L, !.todo = L,
                                            !.sees = RolesOf(user), !.prior = RolesOf(user)]]
    /\ UNCHANGED <<table, req>>

\* It waits for whoever is deleting the same assignments.
DeleteRoles(a) ==
    /\ tx[a].step = "delete"
    /\ \A r \in tx[a].sees : \A b \in Admin \ {a} : tx[b].uid = tx[a].uid => r \notin tx[b].deleted
    /\ tx' = [tx EXCEPT ![a].deleted = tx[a].sees \cap RolesOf(tx[a].uid), ![a].sees = {},
                        ![a].step = "insert"]
    /\ UNCHANGED <<table, calls, req>>

\* Fault: a name that is no role is taken for one.
AssignAnyName(a, n) ==
    /\ tx[a].step = "insert"
    /\ n \in tx[a].todo
    /\ user = tx[a].uid
    /\ tx' = [tx EXCEPT ![a].todo = @ \ {n}, ![a].inserted = @ \cup {<<n, role[n]>>}]
    /\ UNCHANGED <<table, calls, req>>

\* setRoles, for one name: an insert that does nothing when the row is there,
\* waits when another call is about to add or to remove it, and refers to rows
\* that exist.
SetRole(a, n) ==
    /\ tx[a].step = "insert"
    /\ n \in tx[a].todo
    /\ role[n] # 0 /\ user = tx[a].uid
    /\ ~\E b \in Admin \ {a} : tx[b].uid = tx[a].uid /\ <<n, role[n]>> \in tx[b].deleted \cup tx[b].inserted
    /\ tx' = [tx EXCEPT ![a].todo = @ \ {n},
                        ![a].inserted = IF <<n, role[n]>> \in RolesOf(user) \ tx[a].deleted
                                        THEN @ ELSE @ \cup {<<n, role[n]>>}]
    /\ UNCHANGED <<table, calls, req>>

\* What one call removes is gone for the delete of another that saw it.
CommitRoles(a) ==
    /\ tx[a].step = "insert"
    /\ tx[a].todo = {}
    /\ LET t == tx[a]
           same(b) == b # a /\ tx[b].uid = t.uid
       IN /\ assigned' = (assigned \ ({t.uid} \X t.deleted)) \cup ({t.uid} \X t.inserted)
          /\ tx' = [b \in Admin |->
                IF b = a THEN NoTx
                ELSE IF same(b)
                     THEN [tx[b] EXCEPT !.sees = @ \ t.deleted, !.regranted = @ \cup t.inserted]
                     ELSE tx[b]]
    /\ UNCHANGED <<user, users, role, roles, attr, key, calls, req>>

-----------------------------------------------------------------------------
(* PatchAttributes.                                                        *)

PatchAttributes(a, p) ==
    /\ tx[a].step = "idle"
    /\ user # 0
    /\ calls < MaxCalls
    /\ calls' = calls + 1
    /\ tx' = [tx EXCEPT ![a] = [NoTx EXCEPT !.step = "patch", !.uid = user, !.patch = p,
                                            !.left = DOMAIN p, !.was = {attr[user]}]]
    /\ UNCHANGED <<table, req>>

\* One attribute is set, or removed: a removal of none locks nothing.
PatchKey(a, k) ==
    /\ tx[a].step = "patch"
    /\ k \in tx[a].left
    /\ IF tx[a].patch[k] = None /\ attr[tx[a].uid][k] = None
       THEN tx' = [tx EXCEPT ![a].left = @ \ {k}]
       ELSE /\ ~KeyLocked(a, k)
            /\ user = tx[a].uid
            /\ tx' = [tx EXCEPT ![a].left = @ \ {k}, ![a].locked = @ \cup {k}]
    /\ UNCHANGED <<table, calls, req>>

\* The attributes as the call sees them: its own changes on what is committed.
Seen(a) == [k \in Key |-> IF k \in tx[a].locked THEN tx[a].patch[k] ELSE attr[tx[a].uid][k]]

\* Fault: what the call returns is read before it changes anything.
ReadBefore(a) ==
    /\ tx[a].step = "patch"
    /\ tx[a].left = {}
    /\ tx' = [tx EXCEPT ![a].after = attr[tx[a].uid], ![a].step = "commit"]
    /\ UNCHANGED <<table, calls, req>>

ReadAfter(a) ==
    /\ tx[a].step = "patch"
    /\ tx[a].left = {}
    /\ tx' = [tx EXCEPT ![a].after = Seen(a), ![a].step = "commit"]
    /\ UNCHANGED <<table, calls, req>>

\* The patches that are under way remember what their user holds now.
Witnessed(u) ==
    [b \in Admin |->
        IF tx[b].uid = u /\ tx[b].step \in {"patch", "commit"}
        THEN [tx[b] EXCEPT !.was = @ \cup {attr'[u]}] ELSE tx[b]]

CommitPatch(a) ==
    /\ tx[a].step = "commit"
    /\ attr' = [attr EXCEPT ![tx[a].uid] = Seen(a)]
    /\ tx' = [Witnessed(tx[a].uid) EXCEPT ![a] = [NoTx EXCEPT !.step = "audit"]]
    /\ UNCHANGED <<user, users, role, roles, assigned, key, calls, req>>

\* The entry of the audit log, or an error in the other one.
AuditPatch(a) ==
    /\ tx[a].step = "audit"
    /\ tx' = [tx EXCEPT ![a] = NoTx]
    /\ UNCHANGED <<table, calls, req>>

\* An unknown role, a row that is gone, a deadlock, a lost connection: rolled back.
Abort(a) ==
    /\ tx[a].step \in {"delete", "insert", "patch", "commit"}
    /\ tx' = [tx EXCEPT ![a] = NoTx]
    /\ UNCHANGED <<table, calls, req>>

-----------------------------------------------------------------------------
(* Calls of one statement, or whose transaction nobody sees the middle of. *)

\* CreateUser: the row, its attributes and its roles, or nothing.
CreateUser(L, p) ==
    /\ user = 0
    /\ users < MaxUser
    /\ \A n \in L : role[n] # 0
    /\ user' = users + 1 /\ users' = users + 1
    /\ assigned' = assigned \cup ({user'} \X {<<n, role[n]>> : n \in L})
    /\ attr' = [attr EXCEPT ![user'] = Patched(NoAttributes, p)]
    /\ UNCHANGED <<role, roles, key, tx, calls, req>>

\* DeleteUser: sessions, keys, assignments and attributes go with the row.
DeleteUser ==
    /\ user # 0
    /\ Idle(user)
    /\ user' = 0
    /\ assigned' = {p \in assigned : p[1] # user}
    /\ attr' = [attr EXCEPT ![user] = NoAttributes]
    /\ key' = key \ {user}
    /\ tx' = Witnessed(user)
    /\ UNCHANGED <<users, role, roles, calls, req>>

\* Fault: the assignments stay behind, for the next role of that name.
DeleteRoleOnly(n) ==
    /\ role[n] # 0
    /\ role' = [role EXCEPT ![n] = 0]
    /\ UNCHANGED <<user, users, roles, assigned, attr, key, tx, calls, req>>

\* DeleteRole: its policies and assignments go with the row, which a call that
\* is assigning it keeps waiting.
DeleteRole(n) ==
    /\ role[n] # 0
    /\ \A b \in Admin : <<n, role[n]>> \notin tx[b].deleted \cup tx[b].inserted
    /\ role' = [role EXCEPT ![n] = 0]
    /\ assigned' = {p \in assigned : p[2] # <<n, role[n]>>}
    /\ UNCHANGED <<user, users, roles, attr, key, tx, calls, req>>

\* PutRole, of a name that is free.
CreateRole(n) ==
    /\ role[n] = 0
    /\ roles[n] < MaxRole[n]
    /\ role' = [role EXCEPT ![n] = roles[n] + 1]
    /\ roles' = [roles EXCEPT ![n] = @ + 1]
    /\ UNCHANGED <<user, users, assigned, attr, key, tx, calls, req>>

\* RevokeKey, or the end of its life.
RevokeKey(u) ==
    /\ u \in key
    /\ key' = key \ {u}
    /\ UNCHANGED <<user, users, role, roles, assigned, attr, tx, calls, req>>

-----------------------------------------------------------------------------
(* A request.                                                              *)

\* Lookup and LookupKey: sessions and keys go with their user, a key may be revoked too.
Lookup(u) ==
    /\ req.step = "none"
    /\ u = user \/ u \in key
    /\ req' = [NoReq EXCEPT !.step = "user", !.uid = u]
    /\ UNCHANGED <<table, tx, calls>>

LoadUser ==
    /\ req.step = "user"
    /\ req' = IF req.uid = user THEN [req EXCEPT !.step = "roles"] ELSE NoReq
    /\ UNCHANGED <<table, tx, calls>>

\* Fault: the roles are looked up by the name of the user.
LoadRolesByName ==
    /\ req.step = "roles"
    /\ \E R \in SUBSET Names(RolesOf(user)) : req' = [req EXCEPT !.step = "attrs", !.roles = R]
    /\ UNCHANGED <<table, tx, calls>>

\* The loop over the rows ends at the last, or where the statement breaks off: its
\* error is not asked for, as that of the next one is.
LoadRoles ==
    /\ req.step = "roles"
    /\ \E R \in SUBSET Names(RolesOf(req.uid)) : req' = [req EXCEPT !.step = "attrs", !.roles = R]
    /\ UNCHANGED <<table, tx, calls>>

LoadAttrs ==
    /\ req.step = "attrs"
    /\ req' = [req EXCEPT !.step = "loaded", !.attrs = attr[req.uid]]
    /\ UNCHANGED <<table, tx, calls>>

\* CreateKey: the row under the name of the caller, and then the key.
FindOwner ==
    /\ req.step = "loaded"
    /\ req' = IF user = 0 THEN NoReq ELSE [NoReq EXCEPT !.step = "mint", !.uid = req.uid, !.owner = user]
    /\ UNCHANGED <<table, tx, calls>>

CreateKey ==
    /\ req.step = "mint"
    /\ key' = IF user = req.owner THEN key \cup {user} ELSE key
    /\ req' = NoReq
    /\ UNCHANGED <<user, users, role, roles, assigned, attr, tx, calls>>

Answer ==
    /\ req.step = "loaded"
    /\ req' = NoReq
    /\ UNCHANGED <<table, tx, calls>>

-----------------------------------------------------------------------------
Call(a) ==
    \/ \E L \in Lists : UpdateUser(a, L)
    \/ DeleteRoles(a)
    \/ \E n \in RoleName : SetRole(a, n)
    \/ CommitRoles(a)
    \/ \E p \in Patches : PatchAttributes(a, p)
    \/ \E k \in Key : PatchKey(a, k)
    \/ ReadAfter(a) \/ CommitPatch(a) \/ AuditPatch(a)
    \/ Abort(a)

Change ==
    \/ \E L \in Lists, p \in Patches : CreateUser(L, p)
    \/ DeleteUser
    \/ \E n \in RoleName : DeleteRole(n) \/ CreateRole(n)
    \/ \E u \in Users : RevokeKey(u)

Request ==
    \/ \E u \in Users : Lookup(u)
    \/ LoadUser \/ LoadRoles \/ LoadAttrs
    \/ FindOwner \/ CreateKey \/ Answer

Next == ((\E a \in Admin : Call(a)) \/ Change \/ Request) /\ Remember

Spec == Init /\ [][Next]_vars

-----------------------------------------------------------------------------
(* Properties.                                                             *)

\* No row refers to one that is gone: who is created anew under a name holds what
\* was given to the new row, and a key dies with its user ("a deleted user").
RowsExist ==
    /\ \A p \in assigned : p[1] = user /\ role[p[2][1]] = p[2][2]
    /\ key \subseteq {user}
    /\ \A u \in Users \ {user} : attr[u] = NoAttributes

\* A replacement of roles leaves none of those there were when it began, unless
\* its list or a call that ran beside it names them: two at once may leave the
\* union of their lists, but never what both of them took away (UpdateUser).
Replaced ==
    \A a \in Admin :
        tx[a].step = "insert" /\ tx'[a] = NoTx /\ user = tx[a].uid /\ assigned' # assigned =>
            \A p \in assigned' : p[2] \in tx[a].prior =>
                p[2][1] \in tx[a].list \/ p[2] \in tx[a].regranted

ReplacementsHold == [][Replaced]_vars

\* A request is answered by roles and by attributes that its own user held since
\* it came ("a role removed is a role gone on the caller's next call"); not always
\* by both at one moment, as they are read by two statements.
GrantsHeld ==
    [][req'.step = "loaded" /\ req.step = "attrs" =>
           /\ req.roles \subseteq held.roles
           /\ \A k \in Key : <<k, req'.attrs[k]>> \in held.attrs]_vars

\* What a patch returns and logs has each attribute it changed as it was committed,
\* and each other one as the user held it at some moment of the call, a deleted
\* one holding none ("what an
\* operator needs in the audit log is the grant the user now holds"); the set as a
\* whole may never have been held, if another patch ran beside it.
AfterByKey ==
    \A a \in Admin :
        tx[a].step = "commit" /\ tx'[a].step = "audit" =>
            \A k \in Key :
                IF k \in tx[a].locked THEN tx[a].after[k] = attr'[tx[a].uid][k]
                ELSE \E w \in tx[a].was : w[k] = tx[a].after[k]

AuditTellsKeys == [][AfterByKey]_vars

-----------------------------------------------------------------------------
(* What the properties rest on.                                            *)

\* Calls are about rows that there are or were.
RowsCounted ==
    /\ user <= users
    /\ \A a \in Admin :
          /\ tx[a].uid <= users
          /\ tx[a].step \in {"delete", "insert", "patch", "commit"} => tx[a].uid # 0

\* The rows that a call has written keep those they refer to.
WrittenExist ==
    \A a \in Admin :
        /\ tx[a].inserted \cup tx[a].locked # {} => tx[a].uid = user /\ user # 0
        /\ \A r \in tx[a].inserted : role[r[1]] = r[2]

\* Of what a replacement found there is nothing left but what it is about to
\* delete, has deleted, or was granted again beside it.
PriorDeleted ==
    \A a \in Admin :
        /\ tx[a].todo \subseteq tx[a].list
        /\ \A r \in tx[a].inserted : r[1] \in tx[a].list
        /\ tx[a].step = "delete" =>
              \A r \in tx[a].prior \cap RolesOf(tx[a].uid) : r \in tx[a].sees \cup tx[a].regranted
        /\ tx[a].step = "insert" =>
              \A r \in tx[a].prior \cap RolesOf(tx[a].uid) : r \in tx[a].deleted \cup tx[a].regranted

\* What a patch knows of its user is in its history.
PatchWitnessed ==
    \A a \in Admin :
        /\ tx[a].left \cup tx[a].locked \subseteq DOMAIN tx[a].patch
        /\ tx[a].step \in {"patch", "commit"} => attr[tx[a].uid] \in tx[a].was
        /\ tx[a].step = "commit" =>
              \A k \in Key :
                  IF k \in tx[a].locked THEN tx[a].after[k] = tx[a].patch[k]
                  ELSE \E w \in tx[a].was : w[k] = tx[a].after[k]

CallsInv ==
    /\ TablesTyped /\ CallsTyped
    /\ RowsExist /\ RowsCounted /\ WrittenExist /\ PriorDeleted /\ PatchWitnessed

\* What the request has read, and what it may read next, is in its history.
RequestWitnessed ==
    /\ req.step \in {"user", "roles", "attrs", "loaded"} => req.uid # 0
    /\ req.step = "mint" => req.owner # 0
    /\ req.step \in {"user", "roles", "attrs"} =>
          /\ Names(RolesOf(req.uid)) \subseteq held.roles
          /\ \A k \in Key : <<k, attr[req.uid][k]>> \in held.attrs
    /\ req.step = "attrs" => req.roles \subseteq held.roles

RequestInv == RequestTyped /\ RequestWitnessed

GrantsInv == CallsInv /\ RequestInv
=============================================================================
