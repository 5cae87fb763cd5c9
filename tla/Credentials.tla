---------------------------- MODULE Credentials ----------------------------
(***************************************************************************)
(* Passwords, sessions and enrolment: login, logout, changePassword and    *)
(* resolve of internal/httpapi/server.go, updateUser, createUser and       *)
(* deleteUser of admin.go, and the statements of internal/store under      *)
(* them, run by any number of goroutines of any number of replicas.        *)
(*                                                                         *)
(* Every statement concerns one user, so the module is about one username. *)
(* The user may be deleted and created anew: the row then has a new id,    *)
(* and sessions and keys belong to an id.  The bootstrap admin is not that *)
(* user; what concerns it alone is left to EnsureAdmin.                    *)
(*                                                                         *)
(* A statement outside a transaction is one step.  The transactions that   *)
(* store a password are three: the update, which locks the user's row; the *)
(* deletion of the sessions it can see; and the commit, which shows both.  *)
(* Inserting a session takes only a key-share lock on the row it refers    *)
(* to, so it does not wait for such a transaction; deleting the row does.  *)
(* A password stands for its hash: hashing is perfect and costs time, not  *)
(* state.                                                                  *)
(***************************************************************************)
EXTENDS Naturals

CONSTANTS Handler,      \* request goroutines, of every replica
          Password,
          Token,        \* session tokens, drawn afresh by each login
          Calls,        \* the requests there may be
          MaxAccounts,  \* bound: how often the user is created
          MaxCalls,     \* bound: how many requests arrive
          NoPassword,   \* password_hash is null
          NoToken,      \* no session cookie
          NoCall,       \* what an idle handler works on
          Unlocked      \* the user's row when nobody has locked it

ASSUME PasswordAssumption == NoPassword \notin Password
ASSUME TokenAssumption == NoToken \notin Token
ASSUME UnlockedAssumption == Unlocked \notin Handler
ASSUME BoundAssumption == MaxAccounts \in Nat /\ MaxCalls \in Nat

VARIABLES row,       \* the committed row of app_user
          created,   \* how many users have had the name
          sessions,  \* the committed rows of session
          lapsed,    \* tokens whose session has expired
          issued,    \* tokens that have been drawn
          lock,      \* who holds the lock on the user's row
          pc,        \* where each handler is
          call,      \* the request it works on
          uid,       \* the user id it has found
          doomed,    \* the sessions its transaction has deleted
          begun,     \* how many requests have arrived
          inForce,   \* history: the rows there have been since the call began
          found,     \* history: the sessions there were when it locked the row
          live       \* history: the credential was good when the call began

vars == <<row, created, sessions, lapsed, issued, lock, pc, call, uid, doomed,
          begun, inForce, found, live>>
tables == <<row, created, sessions, lapsed, issued>>
history == <<begun, inForce, found, live>>

\* 0 is nobody's id: the row of a user who does not exist.
NoUser == [id |-> 0, hash |-> NoPassword, pending |-> FALSE]

Rows == [id : 0..MaxAccounts, hash : Password \cup {NoPassword}, pending : BOOLEAN]
Sessions == [token : Token, uid : 1..MaxAccounts]

\* A cookie, and the id whose API key comes with it, 0 if none does.
Credential == [cookie : Token \cup {NoToken}, key : 0..MaxAccounts]

Logins == [op : {"login"}, typed : Password]
Resets == [op : {"reset"}, new : Password \cup {NoPassword}]
Changes == [op : {"change"}, typed : Password, new : Password, by : Credential]
\* "query" stands for every route but GET /me, POST /me/password and POST /logout.
Uses == [op : {"logout", "query"}, by : Credential]
Authenticated == Changes \cup Uses

ASSUME CallsAssumption == Calls \subseteq Logins \cup Resets \cup Authenticated /\ NoCall \notin Calls

Locations == {"idle",
              "called",     \* nothing read yet
              "known",      \* the user's id is found
              "admitted",   \* resolve has let the request through
              "verified",   \* the password it came with was right
              "updated",    \* transaction: the row is updated, and locked if it is there
              "revoked"}    \* transaction: the sessions are deleted

TypeOK ==
    /\ row \in Rows
    /\ created \in 0..MaxAccounts
    /\ sessions \in SUBSET Sessions
    /\ lapsed \in SUBSET Token
    /\ issued \in SUBSET Token
    /\ lock \in Handler \cup {Unlocked}
    /\ pc \in [Handler -> Locations]
    /\ call \in [Handler -> Calls \cup {NoCall}]
    /\ uid \in [Handler -> 0..MaxAccounts]
    /\ doomed \in [Handler -> SUBSET Sessions]
    /\ begun \in 0..MaxCalls
    /\ inForce \in [Handler -> SUBSET Rows]
    /\ found \in [Handler -> SUBSET Sessions]
    /\ live \in [Handler -> BOOLEAN]

Init ==
    /\ row = NoUser
    /\ created = 0
    /\ sessions = {}
    /\ lapsed = {}
    /\ issued = {}
    /\ lock = Unlocked
    /\ pc = [h \in Handler |-> "idle"]
    /\ call = [h \in Handler |-> NoCall]
    /\ uid = [h \in Handler |-> 0]
    /\ doomed = [h \in Handler |-> {}]
    /\ begun = 0
    /\ inForce = [h \in Handler |-> {}]
    /\ found = [h \in Handler |-> {}]
    /\ live = [h \in Handler |-> FALSE]

-----------------------------------------------------------------------------

Goto(h, l) == pc' = [pc EXCEPT ![h] = l]

\* r becomes the committed row.
SetRow(r) ==
    /\ row' = r
    /\ inForce' = [h \in Handler |-> IF pc[h] = "idle" THEN {} ELSE inForce[h] \cup {r}]

\* The handler answers and forgets; a transaction it had open is over.
Forget(h) ==
    /\ Goto(h, "idle")
    /\ call' = [call EXCEPT ![h] = NoCall]
    /\ uid' = [uid EXCEPT ![h] = 0]
    /\ doomed' = [doomed EXCEPT ![h] = {}]
    /\ found' = [found EXCEPT ![h] = {}]
    /\ live' = [live EXCEPT ![h] = FALSE]
    /\ lock' = IF lock = h THEN Unlocked ELSE lock
    /\ UNCHANGED begun

Return(h) == Forget(h) /\ inForce' = [inForce EXCEPT ![h] = {}]

\* An error, from which nothing follows.
Refuse(h) == Return(h) /\ UNCHANGED tables

Signed(t, u) == [token |-> t, uid |-> u] \in sessions /\ t \notin lapsed

\* c identifies user u: a key of theirs if it brings one, else a live session.
\* A key lives as long as its user (its own revocation is not modelled here).
Identifies(c, u) ==
    IF c.key # 0 THEN c.key = u /\ row.id = u ELSE c.cookie # NoToken /\ Signed(c.cookie, u)

Begin(h) ==
    /\ pc[h] = "idle"
    /\ begun < MaxCalls
    /\ begun' = begun + 1
    /\ \E c \in Calls :
          /\ c \in Authenticated =>
                c.by.cookie \in issued \cup {NoToken} /\ c.by.key <= created
          /\ call' = [call EXCEPT ![h] = c]
          /\ live' = [live EXCEPT ![h] =
                        c \in Authenticated /\ \E u \in 1..MaxAccounts : Identifies(c.by, u)]
    /\ Goto(h, "called")
    /\ inForce' = [inForce EXCEPT ![h] = {row}]
    /\ UNCHANGED <<tables, lock, uid, doomed, found>>

-----------------------------------------------------------------------------
(* login                                                                   *)

\* Fault: a user without a password matches any.
RightOrNone(h) == row.hash \in {call[h].typed, NoPassword}

\* Credentials by username, and Verify against the hash it returned.
Right(h) == row.hash = call[h].typed

VerifyLogin(h) ==
    /\ pc[h] = "called"
    /\ call[h].op = "login"
    /\ Right(h)
    /\ uid' = [uid EXCEPT ![h] = row.id]
    /\ Goto(h, "verified")
    /\ UNCHANGED <<tables, lock, call, doomed, history>>

\* Fault: session has no foreign key.
SignInAnyway(h) ==
    /\ pc[h] = "verified"
    /\ call[h].op = "login"
    /\ \E t \in Token \ issued :
          /\ sessions' = sessions \cup {[token |-> t, uid |-> uid[h]]}
          /\ issued' = issued \cup {t}
    /\ Return(h)
    /\ UNCHANGED <<row, created, lapsed>>

\* CreateSession; its foreign key refuses a user who is gone.
SignIn(h) ==
    /\ pc[h] = "verified"
    /\ call[h].op = "login"
    /\ uid[h] = row.id
    /\ \E t \in Token \ issued :
          /\ sessions' = sessions \cup {[token |-> t, uid |-> uid[h]]}
          /\ issued' = issued \cup {t}
    /\ Return(h)
    /\ UNCHANGED <<row, created, lapsed>>

-----------------------------------------------------------------------------
(* resolve                                                                 *)

\* Fault: expires_at is not compared.
LookupForever(h) ==
    /\ pc[h] = "called"
    /\ call[h] \in Authenticated
    /\ \E u \in 1..MaxAccounts :
          /\ IF call[h].by.key # 0 THEN Identifies(call[h].by, u)
             ELSE [token |-> call[h].by.cookie, uid |-> u] \in sessions
          /\ uid' = [uid EXCEPT ![h] = u]
    /\ Goto(h, "known")
    /\ UNCHANGED <<tables, lock, call, doomed, history>>

\* LookupKey or Lookup: whose credential this is.
Lookup(h) ==
    /\ pc[h] = "called"
    /\ call[h] \in Authenticated
    /\ \E u \in 1..MaxAccounts :
          /\ Identifies(call[h].by, u)
          /\ uid' = [uid EXCEPT ![h] = u]
    /\ Goto(h, "known")
    /\ UNCHANGED <<tables, lock, call, doomed, history>>

\* loadSession, another statement: the user, by id, and the enrolment flag.
LoadSession(h) ==
    /\ pc[h] = "known"
    /\ call[h] \in Authenticated
    /\ row.id = uid[h]
    /\ call[h].op = "query" => ~row.pending
    /\ Goto(h, "admitted")
    /\ UNCHANGED <<tables, lock, call, uid, doomed, history>>

\* The request is served.
Serve(h) ==
    /\ pc[h] = "admitted"
    /\ call[h].op = "query"
    /\ Refuse(h)

\* Waits for a transaction that has deleted the row already; a key is no session.
Logout(h) ==
    /\ pc[h] = "admitted"
    /\ call[h].op = "logout"
    /\ call[h].by.key = 0
    /\ \A g \in Handler : \A s \in doomed[g] : s.token # call[h].by.cookie
    /\ sessions' = {s \in sessions : s.token # call[h].by.cookie}
    /\ Return(h)
    /\ UNCHANGED <<row, created, lapsed, issued>>

-----------------------------------------------------------------------------
(* changePassword, and an administrator's updateUser.                      *)

\* The hash is read by username, whoever has it by now.
VerifyCurrent(h) ==
    /\ pc[h] = "admitted"
    /\ call[h].op = "change"
    /\ Right(h)
    /\ Goto(h, "verified")
    /\ UNCHANGED <<tables, lock, call, uid, doomed, history>>

\* UpdateUser: the id, by username.
FindUser(h) ==
    /\ pc[h] = "called"
    /\ call[h].op = "reset"
    /\ row.id # 0
    /\ uid' = [uid EXCEPT ![h] = row.id]
    /\ Goto(h, "known")
    /\ UNCHANGED <<tables, lock, call, doomed, history>>

BeforeUpdate(h) ==
    \/ pc[h] = "verified" /\ call[h].op = "change"
    \/ pc[h] = "known" /\ call[h].op = "reset"

\* Fault: the row is updated by username.
UpdateByName(h) ==
    /\ BeforeUpdate(h)
    /\ lock = Unlocked
    /\ row.id # 0
    /\ lock' = h
    /\ uid' = [uid EXCEPT ![h] = row.id]
    /\ found' = [found EXCEPT ![h] = sessions]
    /\ Goto(h, "updated")
    /\ UNCHANGED <<tables, call, doomed, begun, inForce, live>>

\* update app_user ... where id = $1 waits for the lock and takes it, if the
\* row is still there; only SetOwnPassword minds if it is not.
Update(h) ==
    /\ BeforeUpdate(h)
    /\ row.id = uid[h] => lock = Unlocked
    /\ call[h].op = "change" => row.id = uid[h]
    /\ lock' = IF row.id = uid[h] THEN h ELSE lock
    /\ found' = [found EXCEPT ![h] = sessions]
    /\ Goto(h, "updated")
    /\ UNCHANGED <<tables, call, uid, doomed, begun, inForce, live>>

\* The session that a change spares: the cookie that came with the request.
Spared(c) == IF c.op = "change" THEN c.by.cookie ELSE NoToken

\* Fault: the caller's session is not spared.
RevokeAll(h) ==
    /\ pc[h] = "updated"
    /\ doomed' = [doomed EXCEPT ![h] = {s \in sessions : s.uid = uid[h]}]
    /\ Goto(h, "revoked")
    /\ UNCHANGED <<tables, lock, call, uid, history>>

\* delete from session where user_id = $1 [and token_sha <> $2]
Revoke(h) ==
    /\ pc[h] = "updated"
    /\ doomed' = [doomed EXCEPT ![h] =
                    {s \in sessions : s.uid = uid[h] /\ s.token # Spared(call[h])}]
    /\ Goto(h, "revoked")
    /\ UNCHANGED <<tables, lock, call, uid, history>>

\* What the transaction of c makes of the row r: a change ends enrolment, a
\* reset begins it anew, unless it takes the password away.
Stored(c, r) ==
    [r EXCEPT !.hash = c.new,
              !.pending = c.op = "reset" /\ (c.new # NoPassword \/ r.pending)]

Commit(h) ==
    /\ pc[h] = "revoked"
    /\ sessions' = sessions \ doomed[h]
    /\ Forget(h)
    /\ IF lock = h
       THEN /\ row' = Stored(call[h], row)
            /\ inForce' = [g \in Handler |->
                             IF g = h \/ pc[g] = "idle" THEN {} ELSE inForce[g] \cup {row'}]
       ELSE UNCHANGED row /\ inForce' = [inForce EXCEPT ![h] = {}]
    /\ UNCHANGED <<created, lapsed, issued>>

-----------------------------------------------------------------------------
(* The answers that change nothing.                                        *)

Deny(h) ==
    /\ \/ pc[h] = "called" /\ call[h].op = "login" /\ ~Right(h)
       \/ pc[h] = "called" /\ call[h].op = "reset" /\ row.id = 0
       \/ pc[h] = "called" /\ call[h] \in Authenticated
            /\ \A u \in 1..MaxAccounts : ~Identifies(call[h].by, u)
       \/ pc[h] = "known" /\ call[h] \in Authenticated
            /\ (row.id = uid[h] => call[h].op = "query" /\ row.pending)
       \/ pc[h] = "admitted" /\ call[h].op = "logout" /\ call[h].by.key # 0
       \/ pc[h] = "admitted" /\ call[h].op = "change" /\ ~Right(h)
       \/ pc[h] = "verified" /\ call[h].op = "login" /\ uid[h] # row.id
       \/ BeforeUpdate(h) /\ call[h].op = "change" /\ row.id # uid[h]
    /\ Refuse(h)

\* The connection is lost, the request cancelled, the process killed.
Fail(h) == pc[h] # "idle" /\ Refuse(h)

-----------------------------------------------------------------------------
(* Statements of their own.                                                *)

\* CreateUser; with or without enrolment, as the administrator says.
CreateUser ==
    /\ row.id = 0
    /\ created < MaxAccounts
    /\ created' = created + 1
    /\ \E p \in Password, e \in BOOLEAN :
          SetRow([id |-> created', hash |-> p, pending |-> e])
    /\ UNCHANGED <<sessions, lapsed, issued, lock, pc, call, uid, doomed, begun, found, live>>

\* DeleteUser, which takes the sessions with it.
DeleteUser ==
    /\ row.id # 0
    /\ lock = Unlocked
    /\ SetRow(NoUser)
    /\ sessions' = {s \in sessions : s.uid # row.id}
    /\ UNCHANGED <<created, lapsed, issued, lock, pc, call, uid, doomed, begun, found, live>>

\* A session reaches expires_at.
Lapse ==
    /\ \E s \in sessions : s.token \notin lapsed /\ lapsed' = lapsed \cup {s.token}
    /\ UNCHANGED <<row, created, sessions, issued, lock, pc, call, uid, doomed, history>>

PruneSessions ==
    /\ \A h \in Handler : \A s \in doomed[h] : s.token \notin lapsed
    /\ sessions' = {s \in sessions : s.token \notin lapsed}
    /\ UNCHANGED <<row, created, lapsed, issued, lock, pc, call, uid, doomed, history>>

-----------------------------------------------------------------------------

Login(h) == VerifyLogin(h) \/ SignIn(h)
Resolve(h) == Lookup(h) \/ LoadSession(h)
Store(h) == VerifyCurrent(h) \/ FindUser(h) \/ Update(h) \/ Revoke(h) \/ Commit(h)

Next ==
    \/ \E h \in Handler :
          Begin(h) \/ Login(h) \/ Resolve(h) \/ Serve(h) \/ Logout(h) \/ Store(h)
            \/ Deny(h) \/ Fail(h)
    \/ CreateUser \/ DeleteUser \/ Lapse \/ PruneSessions

Spec == Init /\ [][Next]_vars

-----------------------------------------------------------------------------
(* Properties.                                                             *)

\* Deleting a user ends every session at that moment, also those of logins
\* under way (DeleteUser, "access ends at the moment of the call"), and a user
\* created later under the name inherits none.
SessionsOwned == \A s \in sessions : s.uid = row.id

\* A request is let through only if, at some instant since it arrived, its
\* credential was good, and at some instant its user had finished enrolment
\* (resolve, "a credential an admin generated ... stops working").
AdmittedInForce ==
    \A h \in Handler :
        pc[h] = "admitted" =>
            /\ live[h]
            /\ \E r \in inForce[h] : r.id = uid[h] /\ (call[h].op = "query" => ~r.pending)

\* h, working on a call of this kind, takes the step.
Moves(h, op) == pc'[h] # pc[h] /\ pc[h] # "idle" /\ call[h].op = op

PasswordWasInForce ==
    \A h \in Handler :
        /\ \A s \in sessions' \ sessions : Moves(h, "login") =>
              \E r \in inForce[h] : r.id = s.uid /\ r.hash = call[h].typed
        /\ Moves(h, "change") /\ row' # row =>
              \E r \in inForce[h] : r.id = row.id /\ r.hash = call[h].typed

\* A session is opened, and a password changed, only for who gave a password
\* that was this very user's at some instant since the call began, whatever
\* resets, deletions and re-creations it crossed.
ProvedInForce == [][PasswordWasInForce]_vars

HeldSessionsEnd ==
    \A h \in Handler :
        pc[h] = "revoked" /\ pc'[h] = "idle" /\ <<row, sessions>>' # <<row, sessions>> =>
            \A s \in sessions \cap found[h] :
                s \in sessions' <=> s.token = Spared(call[h])

\* A stored password ends every session there was when the transaction locked
\* the user's row, but the one that made the change: SetOwnPassword "revokes
\* every session the user holds except the one making the call".
PasswordEndsSessions == [][HeldSessionsEnd]_vars

ReplacesWhatWasVerified ==
    \A h \in Handler : Moves(h, "change") /\ row' # row => row.hash = call[h].typed

\* The comment of changePassword: "knowing the current password is required".
CurrentPasswordKnown == [][ReplacesWhatWasVerified]_vars
-----------------------------------------------------------------------------
(* The inductive invariant behind them.                                    *)

\* Ids are given once: who is not the user now will not be again.
UserCounted ==
    /\ row.id \in {0, created}
    /\ row.id = 0 => row = NoUser

\* Where a handler is and what it works on agree.
CallsPlaced ==
    \A h \in Handler :
        /\ pc[h] # "idle" => call[h] \in Calls /\ row \in inForce[h]
        /\ pc[h] = "known" => call[h].op # "login"
        /\ pc[h] = "admitted" => call[h].op \in {"change", "logout", "query"}
        /\ pc[h] = "verified" => call[h].op \in {"login", "change"}
        /\ pc[h] \in {"updated", "revoked"} => call[h].op \in {"reset", "change"}
        /\ pc[h] \notin {"idle", "called"} => uid[h] \in 1..created

TokensIssued ==
    /\ \A s \in sessions : s.token \in issued
    /\ \A h \in Handler : \A s \in found[h] : s.token \in issued

\* A credential can only get worse.
CredentialsOld ==
    \A h \in Handler :
        pc[h] # "idle" /\ call[h].op \in {"change", "logout", "query"} =>
            /\ call[h].by.cookie \in issued \cup {NoToken}
            /\ call[h].by.key <= created
            /\ pc[h] = "called" =>
                  \A u \in 1..MaxAccounts : Identifies(call[h].by, u) => live[h]
            /\ pc[h] \in {"known", "admitted"} => live[h]

\* Who has verified a password and still names the user knew the user's.  A
\* change may have read the hash of a namesake, but then it names nobody.
PasswordsKnown ==
    \A h \in Handler :
        /\ pc[h] \in {"verified", "updated", "revoked"}
        /\ call[h].op \in {"login", "change"}
        /\ uid[h] = row.id
        => \E r \in inForce[h] : r.id = uid[h] /\ r.hash = call[h].typed

LockHeld ==
    \A h \in Handler :
        lock = h <=> pc[h] \in {"updated", "revoked"} /\ uid[h] = row.id

\* Of the sessions it found, a transaction has deleted all but the spared one.
FoundRevoked ==
    \A h \in Handler :
        pc[h] = "revoked" =>
            /\ \A s \in doomed[h] : s.uid = uid[h] /\ s.token # Spared(call[h])
            /\ \A s \in sessions \cap found[h] :
                  s.uid = uid[h] /\ s.token # Spared(call[h]) => s \in doomed[h]

CredInv ==
    /\ TypeOK
    /\ UserCounted
    /\ SessionsOwned
    /\ CallsPlaced
    /\ TokensIssued
    /\ CredentialsOld
    /\ PasswordsKnown
    /\ LockHeld
    /\ FoundRevoked
    /\ AdmittedInForce
=============================================================================
