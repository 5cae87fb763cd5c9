------------------------- MODULE Credentials_proofs -------------------------
(***************************************************************************)
(* Proofs about Credentials: CredInv is inductive, and the safety          *)
(* properties follow from it, for any handlers, passwords, tokens and      *)
(* requests, and however often the user is deleted and created anew.       *)
(***************************************************************************)
EXTENDS Credentials, TLAPS

\* What a request carries, by its kind.
LEMMA CallKinds ==
    ASSUME NEW c \in Calls
    PROVE  /\ c.op \in {"login", "reset", "change", "logout", "query"}
           /\ c \in Authenticated <=> c.op \in {"change", "logout", "query"}
           /\ c.op \in {"login", "change"} => c.typed \in Password
           /\ c.op = "change" => c.new \in Password
           /\ c.op = "reset" => c.new \in Password \cup {NoPassword}
           /\ c.op \in {"change", "logout", "query"} =>
                 c.by.cookie \in Token \cup {NoToken} /\ c.by.key \in 0..MaxAccounts
<1>1. CASE c \in Logins
  BY <1>1 DEF Logins, Authenticated, Changes, Uses
<1>2. CASE c \in Resets
  BY <1>2 DEF Resets, Authenticated, Changes, Uses
<1>3. CASE c \in Changes
  BY <1>3 DEF Authenticated, Changes, Uses, Credential
<1>4. CASE c \in Uses
  BY <1>4 DEF Authenticated, Changes, Uses, Credential
<1> QED BY <1>1, <1>2, <1>3, <1>4, CallsAssumption DEF Authenticated

\* The invariant holds at first.
LEMMA Initially == Init => CredInv
<1> SUFFICES ASSUME Init PROVE CredInv
  OBVIOUS
<1>1. TypeOK
  BY BoundAssumption DEF Init, TypeOK, NoUser, Rows, Locations
<1> QED
  BY <1>1, UnlockedAssumption
  DEF Init, CredInv, UserCounted, SessionsOwned, CallsPlaced, TokensIssued, CredentialsOld,
      PasswordsKnown, LockHeld, FoundRevoked, AdmittedInForce, NoUser

-----------------------------------------------------------------------------
(* Steps of one handler that change no table.                              *)

\* login's verification, resolve, and the reads before an update.
Reads(h) ==
    VerifyLogin(h) \/ Lookup(h) \/ LoadSession(h) \/ VerifyCurrent(h) \/ FindUser(h)

LEMMA ReadsKeepInvariant ==
    ASSUME CredInv, NEW h \in Handler, Reads(h)
    PROVE  CredInv'
<1> USE DEF CredInv
<1>a. /\ UNCHANGED <<tables, lock, call, doomed, history>>
      /\ \E l \in {"known", "admitted", "verified"} : pc' = [pc EXCEPT ![h] = l]
      /\ \E u \in 0..MaxAccounts : uid' = [uid EXCEPT ![h] = u]
      /\ pc[h] \in {"called", "known", "admitted"}
  <2>1. uid = [uid EXCEPT ![h] = uid[h]] /\ uid[h] \in 0..MaxAccounts /\ row.id \in 0..MaxAccounts
    BY DEF TypeOK, Rows
  <2> QED
    BY <2>1 DEF Reads, VerifyLogin, Lookup, LoadSession, VerifyCurrent, FindUser, Goto
<1>b. call[h] \in Calls
  BY <1>a DEF CallsPlaced
<1>1. TypeOK'
  BY <1>a DEF TypeOK, tables, history, Locations
<1>2. UserCounted' /\ SessionsOwned' /\ TokensIssued'
  BY <1>a DEF UserCounted, SessionsOwned, TokensIssued, tables, history
<1>3. CallsPlaced'
  <2>0. \A g \in Handler \ {h} : pc'[g] = pc[g] /\ uid'[g] = uid[g]
    BY <1>a DEF TypeOK
  <2>1. pc'[h] = "known" => call[h].op # "login"
    BY <1>b, CallKinds DEF Reads, VerifyLogin, Lookup, LoadSession, VerifyCurrent, FindUser, Goto, TypeOK
  <2>2. pc'[h] = "admitted" => call[h].op \in {"change", "logout", "query"}
    BY <1>b, CallKinds DEF Reads, VerifyLogin, Lookup, LoadSession, VerifyCurrent, FindUser, Goto, TypeOK
  <2>3. pc'[h] = "verified" => call[h].op \in {"login", "change"}
    BY <1>b, CallKinds DEF Reads, VerifyLogin, Lookup, LoadSession, VerifyCurrent, FindUser, Goto, TypeOK
  <2>4. uid'[h] \in 1..created
    <3>1. CASE VerifyLogin(h)
      <4>1. row.hash \in Password
        BY <3>1, <1>b, CallKinds DEF VerifyLogin, Right
      <4>2. row.id # 0
        BY <4>1, PasswordAssumption DEF UserCounted, NoUser
      <4> QED BY <3>1, <4>2, BoundAssumption DEF VerifyLogin, UserCounted, TypeOK
    <3>2. CASE Lookup(h)
      <4> PICK u \in 1..MaxAccounts : Identifies(call[h].by, u) /\ uid' = [uid EXCEPT ![h] = u]
        BY <3>2 DEF Lookup
      <4>1. row.id = u
        BY DEF Identifies, Signed, SessionsOwned
      <4> QED BY <4>1, BoundAssumption DEF UserCounted, TypeOK
    <3>3. CASE LoadSession(h) \/ VerifyCurrent(h)
      BY <3>3 DEF LoadSession, VerifyCurrent, CallsPlaced
    <3>4. CASE FindUser(h)
      BY <3>4, BoundAssumption DEF FindUser, UserCounted, TypeOK
    <3> QED BY <3>1, <3>2, <3>3, <3>4 DEF Reads
  <2>5. call'[h] \in Calls /\ row' \in inForce'[h]
    BY <1>a DEF CallsPlaced, tables, history
  <2>6. pc'[h] \in {"known", "admitted", "verified"}
    BY <1>a DEF TypeOK
  <2>7. created' = created /\ call' = call /\ row' = row /\ inForce' = inForce
    BY <1>a DEF tables, history
  <2>8. \A g \in Handler \ {h} :
          /\ pc'[g] # "idle" => call'[g] \in Calls /\ row' \in inForce'[g]
          /\ pc'[g] = "known" => call'[g].op # "login"
          /\ pc'[g] = "admitted" => call'[g].op \in {"change", "logout", "query"}
          /\ pc'[g] = "verified" => call'[g].op \in {"login", "change"}
          /\ pc'[g] \in {"updated", "revoked"} => call'[g].op \in {"reset", "change"}
          /\ pc'[g] \notin {"idle", "called"} => uid'[g] \in 1..created'
    BY <2>0, <2>7 DEF CallsPlaced
  <2> QED BY <2>1, <2>2, <2>3, <2>4, <2>5, <2>6, <2>7, <2>8 DEF CallsPlaced
<1>4. CredentialsOld'
  <2>1. \A g \in Handler \ {h} : pc'[g] = pc[g]
    BY <1>a DEF TypeOK
  <2>2. call' = call /\ issued' = issued /\ created' = created /\ live' = live
    BY <1>a DEF tables, history
  <2>3. \A c, u : Identifies(c, u)' <=> Identifies(c, u)
    BY <1>a DEF Identifies, Signed, tables
  <2>4. pc'[h] \in {"known", "admitted"} /\ call[h].op \in {"change", "logout", "query"} => live[h]
    BY <1>b, CallKinds
    DEF Reads, VerifyLogin, Lookup, LoadSession, VerifyCurrent, FindUser, Goto, TypeOK, CredentialsOld
  <2>5. pc'[h] # "called" /\ pc[h] # "idle"
    BY <1>a DEF TypeOK
  <2> QED BY <2>1, <2>2, <2>3, <2>4, <2>5 DEF CredentialsOld
<1>5. PasswordsKnown'
  <2>1. \A g \in Handler \ {h} : pc'[g] = pc[g] /\ uid'[g] = uid[g]
    BY <1>a DEF TypeOK
  <2>2. call' = call /\ row' = row /\ inForce' = inForce
    BY <1>a DEF tables, history
  <2>3. pc'[h] = "verified" /\ uid'[h] = row.id =>
          \E r \in inForce[h] : r.id = uid'[h] /\ r.hash = call[h].typed
    BY DEF Reads, VerifyLogin, Lookup, LoadSession, VerifyCurrent, FindUser, Goto, TypeOK, CallsPlaced, Right
  <2>4. pc'[h] \notin {"updated", "revoked"}
    BY <1>a DEF TypeOK
  <2> QED BY <2>1, <2>2, <2>3, <2>4 DEF PasswordsKnown
<1>6. LockHeld' /\ FoundRevoked'
  <2>1. \A g \in Handler \ {h} : pc'[g] = pc[g] /\ uid'[g] = uid[g]
    BY <1>a DEF TypeOK
  <2>2. call' = call /\ row' = row /\ lock' = lock /\ doomed' = doomed /\ found' = found
        /\ sessions' = sessions
    BY <1>a DEF tables, history
  <2>3. pc[h] \notin {"updated", "revoked"} /\ pc'[h] \notin {"updated", "revoked"}
    BY <1>a DEF TypeOK
  <2> QED BY <2>1, <2>2, <2>3 DEF LockHeld, FoundRevoked
<1>7. AdmittedInForce'
  <2>1. \A g \in Handler \ {h} : pc'[g] = pc[g] /\ uid'[g] = uid[g]
    BY <1>a DEF TypeOK
  <2>2. call' = call /\ inForce' = inForce /\ live' = live
    BY <1>a DEF tables, history
  <2>3. pc'[h] = "admitted" =>
          live[h] /\ \E r \in inForce[h] : r.id = uid'[h] /\ (call[h].op = "query" => ~r.pending)
    <3> SUFFICES ASSUME pc'[h] = "admitted"
                 PROVE  live[h] /\ \E r \in inForce[h] :
                            r.id = uid'[h] /\ (call[h].op = "query" => ~r.pending)
      OBVIOUS
    <3>1. LoadSession(h)
      BY DEF Reads, VerifyLogin, Lookup, VerifyCurrent, FindUser, Goto, TypeOK
    <3>2. live[h]
      BY <3>1, <1>b, CallKinds DEF LoadSession, CredentialsOld
    <3>3. row \in inForce[h] /\ row.id = uid'[h] /\ (call[h].op = "query" => ~row.pending)
      BY <3>1 DEF LoadSession, CallsPlaced
    <3> QED BY <3>2, <3>3
  <2> QED BY <2>1, <2>2, <2>3 DEF AdmittedInForce
<1> QED BY <1>1, <1>2, <1>3, <1>4, <1>5, <1>6, <1>7

-----------------------------------------------------------------------------
(* The transactions that store a password.                                 *)

LEMMA UpdateKeepsInvariant ==
    ASSUME CredInv, NEW h \in Handler, Update(h)
    PROVE  CredInv'
<1> USE DEF CredInv
<1>1. /\ UNCHANGED <<row, created, sessions, lapsed, issued, call, uid, doomed, begun, inForce, live>>
      /\ pc' = [pc EXCEPT ![h] = "updated"]
      /\ found' = [found EXCEPT ![h] = sessions]
      /\ call[h].op \in {"reset", "change"} /\ pc[h] \in {"verified", "known"}
      /\ call[h].op = "change" => pc[h] = "verified"
  BY DEF Update, BeforeUpdate, Goto, tables
<1>2. lock' = IF row.id = uid[h] THEN h ELSE lock
  BY DEF Update
<1>3. row.id = uid[h] => lock = Unlocked
  BY DEF Update
<1>4. \A g \in Handler \ {h} : pc'[g] = pc[g] /\ found'[g] = found[g]
  BY <1>1 DEF TypeOK
<1>5. pc'[h] = "updated" /\ found'[h] = sessions
  BY <1>1 DEF TypeOK
<1>6. TypeOK'
  BY <1>1, <1>2 DEF TypeOK, Locations
<1>7. UserCounted' /\ SessionsOwned'
  BY <1>1 DEF UserCounted, SessionsOwned
<1>8. CallsPlaced'
  BY <1>1, <1>4, <1>5 DEF CallsPlaced
<1>9. TokensIssued'
  BY <1>1, <1>4, <1>5 DEF TokensIssued
<1>10. CredentialsOld'
  <2>1. \A c, u : Identifies(c, u)' <=> Identifies(c, u)
    BY <1>1 DEF Identifies, Signed
  <2> QED BY <1>1, <1>4, <1>5, <2>1 DEF CredentialsOld
<1>11. PasswordsKnown'
  BY <1>1, <1>4, <1>5 DEF PasswordsKnown
<1>12. LockHeld'
  BY <1>1, <1>2, <1>3, <1>4, <1>5, UnlockedAssumption DEF LockHeld
<1>13. FoundRevoked' /\ AdmittedInForce'
  BY <1>1, <1>4, <1>5 DEF FoundRevoked, AdmittedInForce
<1> QED BY <1>6, <1>7, <1>8, <1>9, <1>10, <1>11, <1>12, <1>13

LEMMA RevokeKeepsInvariant ==
    ASSUME CredInv, NEW h \in Handler, Revoke(h)
    PROVE  CredInv'
<1> USE DEF CredInv
<1> DEFINE D == {s \in sessions : s.uid = uid[h] /\ s.token # Spared(call[h])}
<1>1. /\ UNCHANGED <<row, created, sessions, lapsed, issued, lock, call, uid, begun, inForce, found, live>>
      /\ pc' = [pc EXCEPT ![h] = "revoked"] /\ pc[h] = "updated"
      /\ doomed' = [doomed EXCEPT ![h] = D]
  BY DEF Revoke, Goto, tables, history
<1>2. \A g \in Handler \ {h} : pc'[g] = pc[g] /\ doomed'[g] = doomed[g]
  BY <1>1 DEF TypeOK
<1>3. pc'[h] = "revoked" /\ doomed'[h] = D
  BY <1>1 DEF TypeOK
<1>4. TypeOK'
  BY <1>1 DEF TypeOK, Locations
<1>5. UserCounted' /\ SessionsOwned' /\ TokensIssued'
  BY <1>1 DEF UserCounted, SessionsOwned, TokensIssued
<1>6. CallsPlaced'
  BY <1>1, <1>2, <1>3 DEF CallsPlaced
<1>7. CredentialsOld'
  <2>1. \A c, u : Identifies(c, u)' <=> Identifies(c, u)
    BY <1>1 DEF Identifies, Signed
  <2> QED BY <1>1, <1>2, <1>3, <2>1 DEF CredentialsOld
<1>8. PasswordsKnown' /\ LockHeld' /\ AdmittedInForce'
  BY <1>1, <1>2, <1>3 DEF PasswordsKnown, LockHeld, AdmittedInForce
<1>9. FoundRevoked'
  <2>1. Spared(call'[h]) = Spared(call[h])
    BY <1>1
  <2>2. \A g \in Handler \ {h} : Spared(call'[g]) = Spared(call[g])
    BY <1>1
  <2> QED BY <1>1, <1>2, <1>3, <2>1, <2>2 DEF FoundRevoked
<1> QED BY <1>4, <1>5, <1>6, <1>7, <1>8, <1>9

-----------------------------------------------------------------------------
(* The end of a call.                                                      *)

\* What every way of ending a call does to its handler and to the others.
LEMMA Ended ==
    ASSUME CredInv, NEW h \in Handler, Forget(h)
    PROVE  /\ pc'[h] = "idle" /\ doomed'[h] = {} /\ found'[h] = {}
           /\ \A g \in Handler \ {h} :
                 /\ pc'[g] = pc[g] /\ call'[g] = call[g] /\ uid'[g] = uid[g]
                 /\ doomed'[g] = doomed[g] /\ found'[g] = found[g] /\ live'[g] = live[g]
                 /\ lock' = g <=> lock = g
           /\ lock' # h
           /\ pc' \in [Handler -> Locations]
           /\ call' \in [Handler -> Calls \cup {NoCall}]
           /\ uid' \in [Handler -> 0..MaxAccounts]
           /\ doomed' \in [Handler -> SUBSET Sessions]
           /\ found' \in [Handler -> SUBSET Sessions]
           /\ live' \in [Handler -> BOOLEAN]
           /\ lock' \in Handler \cup {Unlocked}
           /\ begun' = begun
<1>1. TypeOK
  BY DEF CredInv
<1>2. 0 \in 0..MaxAccounts
  BY BoundAssumption
<1>3. /\ pc'[h] = "idle" /\ pc' \in [Handler -> Locations]
      /\ \A g \in Handler \ {h} : pc'[g] = pc[g]
  BY <1>1 DEF TypeOK, Forget, Goto, Locations
<1>4. /\ call' \in [Handler -> Calls \cup {NoCall}]
      /\ \A g \in Handler \ {h} : call'[g] = call[g]
  BY <1>1 DEF TypeOK, Forget
<1>5. /\ uid' \in [Handler -> 0..MaxAccounts]
      /\ \A g \in Handler \ {h} : uid'[g] = uid[g]
  BY <1>1, <1>2 DEF TypeOK, Forget
<1>6. /\ doomed'[h] = {} /\ doomed' \in [Handler -> SUBSET Sessions]
      /\ \A g \in Handler \ {h} : doomed'[g] = doomed[g]
  BY <1>1 DEF TypeOK, Forget
<1>7. /\ found'[h] = {} /\ found' \in [Handler -> SUBSET Sessions]
      /\ \A g \in Handler \ {h} : found'[g] = found[g]
  BY <1>1 DEF TypeOK, Forget
<1>8. /\ live' \in [Handler -> BOOLEAN]
      /\ \A g \in Handler \ {h} : live'[g] = live[g]
  BY <1>1 DEF TypeOK, Forget
<1>9. /\ lock' # h /\ lock' \in Handler \cup {Unlocked} /\ begun' = begun
      /\ \A g \in Handler \ {h} : lock' = g <=> lock = g
  BY <1>1, UnlockedAssumption DEF TypeOK, Forget
<1> QED BY <1>3, <1>4, <1>5, <1>6, <1>7, <1>8, <1>9

LEMMA RefuseKeepsInvariant ==
    ASSUME CredInv, NEW h \in Handler, Refuse(h)
    PROVE  CredInv'
<1> USE DEF CredInv
<1>1. UNCHANGED tables /\ Forget(h) /\ inForce' = [inForce EXCEPT ![h] = {}]
  BY DEF Refuse, Return
<1>2. row' = row /\ created' = created /\ sessions' = sessions /\ lapsed' = lapsed /\ issued' = issued
  BY <1>1 DEF tables
<1>3. (\A g \in Handler \ {h} : inForce'[g] = inForce[g]) /\ inForce' \in [Handler -> SUBSET Rows]
  BY <1>1 DEF TypeOK
<1>4. TypeOK'
  BY <1>1, <1>2, <1>3, Ended DEF TypeOK
<1>5. UserCounted' /\ SessionsOwned'
  BY <1>2 DEF UserCounted, SessionsOwned
<1>6. CallsPlaced'
  BY <1>1, <1>2, <1>3, Ended DEF CallsPlaced
<1>7. TokensIssued'
  BY <1>1, <1>2, Ended DEF TokensIssued
<1>8. CredentialsOld'
  <2>1. \A c, u : Identifies(c, u)' <=> Identifies(c, u)
    BY <1>2 DEF Identifies, Signed
  <2> QED BY <1>1, <1>2, <2>1, Ended DEF CredentialsOld
<1>9. PasswordsKnown'
  BY <1>1, <1>2, <1>3, Ended DEF PasswordsKnown
<1>10. LockHeld'
  BY <1>1, <1>2, Ended DEF LockHeld
<1>11. FoundRevoked'
  BY <1>1, <1>2, Ended DEF FoundRevoked
<1>12. AdmittedInForce'
  BY <1>1, <1>2, <1>3, Ended DEF AdmittedInForce
<1> QED BY <1>4, <1>5, <1>6, <1>7, <1>8, <1>9, <1>10, <1>11, <1>12

\* A new session has a token nobody has seen.
LEMMA SignInKeepsInvariant ==
    ASSUME CredInv, NEW h \in Handler, SignIn(h)
    PROVE  CredInv'
<1> USE DEF CredInv
<1>0. PICK t \in Token \ issued :
        /\ sessions' = sessions \cup {[token |-> t, uid |-> uid[h]]}
        /\ issued' = issued \cup {t}
  BY DEF SignIn
<1>1. Forget(h) /\ inForce' = [inForce EXCEPT ![h] = {}] /\ uid[h] = row.id
  BY DEF SignIn, Return
<1>2. row' = row /\ created' = created /\ lapsed' = lapsed
  BY DEF SignIn
<1>3. (\A g \in Handler \ {h} : inForce'[g] = inForce[g]) /\ inForce' \in [Handler -> SUBSET Rows]
  BY <1>1 DEF TypeOK
<1>4. TypeOK'
  <2>1. [token |-> t, uid |-> uid[h]] \in Sessions
    BY BoundAssumption DEF SignIn, CallsPlaced, Sessions, TypeOK
  <2>2. sessions' \in SUBSET Sessions /\ issued' \in SUBSET Token
    BY <1>0, <2>1 DEF TypeOK
  <2> QED BY <1>1, <1>2, <1>3, <2>2, Ended DEF TypeOK
<1>5. UserCounted' /\ SessionsOwned'
  BY <1>0, <1>1, <1>2 DEF UserCounted, SessionsOwned
<1>6. CallsPlaced'
  BY <1>1, <1>2, <1>3, Ended DEF CallsPlaced
<1>7. TokensIssued'
  BY <1>0, <1>1, <1>2, Ended DEF TokensIssued
<1>8. CredentialsOld'
  <2>1. ASSUME NEW c, c.cookie \in issued \cup {NoToken}, NEW u
        PROVE  Identifies(c, u)' <=> Identifies(c, u)
    <3>1. c.cookie # NoToken => ([token |-> c.cookie, uid |-> u] \in sessions' <=>
                                   [token |-> c.cookie, uid |-> u] \in sessions)
      BY <1>0, <2>1
    <3> QED BY <1>2, <3>1 DEF Identifies, Signed
  <2>2. ASSUME NEW g \in Handler \ {h}, pc[g] # "idle", call[g].op \in {"change", "logout", "query"}
        PROVE  /\ call[g].by.cookie \in issued \cup {NoToken}
               /\ call[g].by.key <= created
               /\ pc[g] = "called" =>
                    \A u \in 1..MaxAccounts : Identifies(call[g].by, u) => live[g]
               /\ pc[g] \in {"known", "admitted"} => live[g]
    BY <2>2 DEF CredentialsOld
  <2>3. ASSUME NEW c, c.cookie \in issued \cup {NoToken}, NEW g \in Handler, c = call'[g].by,
               NEW u \in 1..MaxAccounts
        PROVE  Identifies(call[g].by, u)' <=> Identifies(c, u)
    <3>1. Identifies(call[g].by, u)' <=> Identifies(c, u)'
      BY <2>3 DEF Identifies, Signed
    <3> QED BY <2>1, <2>3, <3>1
  <2>4. ASSUME NEW g \in Handler \ {h}, pc[g] # "idle", call[g].op \in {"change", "logout", "query"}
        PROVE  \A u \in 1..MaxAccounts : Identifies(call[g].by, u)' <=> Identifies(call[g].by, u)
    <3>1. call'[g].by = call[g].by
      BY <1>1, Ended
    <3> QED BY <2>2, <2>3, <2>4, <3>1
  <2>5. issued \in SUBSET issued'
    BY <1>0
  <2> QED BY <1>1, <1>2, <2>2, <2>4, <2>5, Ended DEF CredentialsOld
<1>9. PasswordsKnown'
  BY <1>1, <1>2, <1>3, Ended DEF PasswordsKnown
<1>10. LockHeld'
  BY <1>1, <1>2, Ended DEF LockHeld
<1>11. FoundRevoked'
  <2>1. \A g \in Handler : [token |-> t, uid |-> uid[h]] \notin found[g]
    BY <1>0 DEF TokensIssued
  <2> QED BY <1>0, <1>1, <1>2, <2>1, Ended DEF FoundRevoked
<1>12. AdmittedInForce'
  BY <1>1, <1>2, <1>3, Ended DEF AdmittedInForce
<1> QED BY <1>4, <1>5, <1>6, <1>7, <1>8, <1>9, <1>10, <1>11, <1>12

\* Signing out and pruning only remove sessions.
LEMMA FewerSessions ==
    ASSUME CredInv, sessions' \in SUBSET sessions, row' = row, lapsed' \in SUBSET Token,
           lapsed \in SUBSET lapsed'
    PROVE  /\ SessionsOwned'
           /\ \A c, u : Identifies(c, u)' => Identifies(c, u)
BY DEF CredInv, SessionsOwned, Identifies, Signed

LEMMA LogoutKeepsInvariant ==
    ASSUME CredInv, NEW h \in Handler, Logout(h)
    PROVE  CredInv'
<1> USE DEF CredInv
<1>1. Forget(h) /\ inForce' = [inForce EXCEPT ![h] = {}] /\ sessions' \in SUBSET sessions
  BY DEF Logout, Return
<1>2. row' = row /\ created' = created /\ lapsed' = lapsed /\ issued' = issued
  BY DEF Logout
<1>3. (\A g \in Handler \ {h} : inForce'[g] = inForce[g]) /\ inForce' \in [Handler -> SUBSET Rows]
  BY <1>1 DEF TypeOK
<1>4. TypeOK'
  BY <1>1, <1>2, <1>3, Ended DEF TypeOK
<1>5. UserCounted' /\ SessionsOwned'
  BY <1>1, <1>2 DEF UserCounted, SessionsOwned
<1>6. CallsPlaced'
  BY <1>1, <1>2, <1>3, Ended DEF CallsPlaced
<1>7. TokensIssued'
  BY <1>1, <1>2, Ended DEF TokensIssued
<1>8. CredentialsOld'
  <2>1. \A c, u : Identifies(c, u)' => Identifies(c, u)
    BY <1>1, <1>2, FewerSessions DEF TypeOK
  <2> QED BY <1>1, <1>2, <2>1, Ended DEF CredentialsOld
<1>9. PasswordsKnown'
  BY <1>1, <1>2, <1>3, Ended DEF PasswordsKnown
<1>10. LockHeld'
  BY <1>1, <1>2, Ended DEF LockHeld
<1>11. FoundRevoked'
  BY <1>1, <1>2, Ended DEF FoundRevoked
<1>12. AdmittedInForce'
  BY <1>1, <1>2, <1>3, Ended DEF AdmittedInForce
<1> QED BY <1>4, <1>5, <1>6, <1>7, <1>8, <1>9, <1>10, <1>11, <1>12

LEMMA CommitKeepsInvariant ==
    ASSUME CredInv, NEW h \in Handler, Commit(h)
    PROVE  CredInv'
<1> USE DEF CredInv
<1>1. Forget(h) /\ sessions' = sessions \ doomed[h] /\ pc[h] = "revoked"
  BY DEF Commit
<1>2. created' = created /\ lapsed' = lapsed /\ issued' = issued
  BY DEF Commit
<1>a. call[h] \in Calls /\ call[h].op \in {"reset", "change"} /\ uid[h] \in 1..created
  BY <1>1 DEF CallsPlaced
<1>b. call[h].new \in Password \cup {NoPassword}
  BY <1>a, CallKinds
<1>c. Stored(call[h], row) \in Rows /\ Stored(call[h], row).id = row.id
  <2>1. row \in Rows
    BY DEF TypeOK
  <2>2. (call[h].op = "reset" /\ (call[h].new # NoPassword \/ row.pending)) \in BOOLEAN
    OBVIOUS
  <2> QED BY <2>1, <2>2, <1>b DEF Stored, Rows
<1>3. row' \in Rows /\ row'.id = row.id /\ (row' = row \/ lock = h)
  BY <1>c DEF Commit, TypeOK
<1>4. \A g \in Handler \ {h} : pc[g] # "idle" => inForce[g] \subseteq inForce'[g] /\ row' \in inForce'[g]
  <2>1. CASE lock = h
    <3>1. inForce' = [g \in Handler |->
                        IF g = h \/ pc[g] = "idle" THEN {} ELSE inForce[g] \cup {row'}]
      BY <2>1 DEF Commit
    <3> QED BY <3>1
  <2>2. CASE lock # h
    BY <2>2 DEF Commit, TypeOK, CallsPlaced
  <2> QED BY <2>1, <2>2
<1>5. inForce' \in [Handler -> SUBSET Rows]
  <2>1. CASE lock = h
    <3>1. inForce' = [g \in Handler |->
                        IF g = h \/ pc[g] = "idle" THEN {} ELSE inForce[g] \cup {row'}]
      BY <2>1 DEF Commit
    <3> QED BY <3>1, <1>3 DEF TypeOK
  <2>2. CASE lock # h
    BY <2>2 DEF Commit, TypeOK
  <2> QED BY <2>1, <2>2
<1>6. TypeOK'
  BY <1>1, <1>2, <1>3, <1>5, Ended DEF TypeOK
<1>7. UserCounted'
  <2>1. lock = h => row.id # 0
    BY <1>a DEF LockHeld, TypeOK
  <2> QED BY <1>2, <1>3, <2>1 DEF UserCounted
<1>8. SessionsOwned'
  BY <1>1, <1>3 DEF SessionsOwned
<1>9. CallsPlaced'
  BY <1>1, <1>2, <1>4, Ended DEF CallsPlaced
<1>10. TokensIssued'
  BY <1>1, <1>2, Ended DEF TokensIssued
<1>11. CredentialsOld'
  <2>1. \A c, u : Identifies(c, u)' => Identifies(c, u)
    BY <1>1, <1>2, <1>3 DEF Identifies, Signed
  <2> QED BY <1>1, <1>2, <2>1, Ended DEF CredentialsOld
<1>12. PasswordsKnown'
  BY <1>1, <1>3, <1>4, Ended DEF PasswordsKnown
<1>13. LockHeld'
  BY <1>1, <1>3, Ended DEF LockHeld
<1>14. FoundRevoked'
  BY <1>1, Ended DEF FoundRevoked
<1>15. AdmittedInForce'
  BY <1>1, <1>4, Ended DEF AdmittedInForce
<1> QED BY <1>6, <1>7, <1>8, <1>9, <1>10, <1>11, <1>12, <1>13, <1>14, <1>15

-----------------------------------------------------------------------------
(* The arrival of a request.                                               *)

LEMMA BeginKeepsInvariant ==
    ASSUME CredInv, NEW h \in Handler, Begin(h)
    PROVE  CredInv'
<1> USE DEF CredInv
<1>1. PICK c \in Calls :
        /\ c \in Authenticated => c.by.cookie \in issued \cup {NoToken} /\ c.by.key <= created
        /\ call' = [call EXCEPT ![h] = c]
        /\ live' = [live EXCEPT ![h] =
                      c \in Authenticated /\ \E u \in 1..MaxAccounts : Identifies(c.by, u)]
  BY DEF Begin
<1>2. /\ UNCHANGED <<row, created, sessions, lapsed, issued, lock, uid, doomed, found>>
      /\ pc[h] = "idle" /\ pc' = [pc EXCEPT ![h] = "called"]
      /\ inForce' = [inForce EXCEPT ![h] = {row}]
      /\ begun' = begun + 1 /\ begun < MaxCalls
  BY DEF Begin, Goto, tables
<1>3. /\ pc'[h] = "called" /\ call'[h] = c /\ inForce'[h] = {row}
      /\ \A g \in Handler \ {h} :
            pc'[g] = pc[g] /\ call'[g] = call[g] /\ inForce'[g] = inForce[g] /\ live'[g] = live[g]
  BY <1>1, <1>2 DEF TypeOK
<1>4. live'[h] = (c \in Authenticated /\ \E u \in 1..MaxAccounts : Identifies(c.by, u))
  BY <1>1 DEF TypeOK
<1>5. TypeOK'
  <2>1. begun' \in 0..MaxCalls
    BY <1>2, BoundAssumption DEF TypeOK
  <2>2. live' \in [Handler -> BOOLEAN] /\ call' \in [Handler -> Calls \cup {NoCall}]
    BY <1>1 DEF TypeOK
  <2>3. pc' \in [Handler -> Locations] /\ inForce' \in [Handler -> SUBSET Rows]
    BY <1>2 DEF TypeOK, Locations
  <2> QED BY <1>2, <2>1, <2>2, <2>3 DEF TypeOK
<1>6. UserCounted' /\ SessionsOwned' /\ TokensIssued'
  BY <1>2 DEF UserCounted, SessionsOwned, TokensIssued
<1>7. CallsPlaced'
  BY <1>2, <1>3 DEF CallsPlaced
<1>8. CredentialsOld'
  <2>1. \A b, u : Identifies(b, u)' <=> Identifies(b, u)
    BY <1>2 DEF Identifies, Signed
  <2>2. c \in Authenticated <=> c.op \in {"change", "logout", "query"}
    BY CallKinds
  <2>3. c.op \in {"change", "logout", "query"} =>
          \A u \in 1..MaxAccounts : Identifies(c.by, u) => live'[h]
    BY <1>4, <2>2
  <2> QED BY <1>1, <1>2, <1>3, <2>1, <2>2, <2>3 DEF CredentialsOld
<1>9. PasswordsKnown' /\ FoundRevoked' /\ AdmittedInForce'
  BY <1>2, <1>3 DEF PasswordsKnown, FoundRevoked, AdmittedInForce
<1>10. LockHeld'
  BY <1>2, <1>3 DEF LockHeld
<1> QED BY <1>5, <1>6, <1>7, <1>8, <1>9, <1>10

-----------------------------------------------------------------------------
(* Users come and go, sessions expire.                                     *)

\* Whoever has found an id has found one that was given.
LEMMA IdsGiven ==
    ASSUME CredInv
    PROVE  /\ row.id = 0 => sessions = {} /\ lock = Unlocked
           /\ \A h \in Handler : pc[h] \in {"known", "admitted", "verified", "updated", "revoked"} =>
                 uid[h] # 0 /\ uid[h] # created + 1
<1> USE DEF CredInv
<1>1. \A h \in Handler : pc[h] \in {"known", "admitted", "verified", "updated", "revoked"} =>
         uid[h] # 0 /\ uid[h] # created + 1
  BY BoundAssumption DEF CallsPlaced, TypeOK
<1>2. row.id = 0 => sessions = {}
  BY BoundAssumption DEF SessionsOwned, TypeOK, Sessions
<1>3. row.id = 0 => lock = Unlocked
  BY <1>1 DEF LockHeld, TypeOK
<1> QED BY <1>1, <1>2, <1>3

LEMMA CreateKeepsInvariant ==
    ASSUME CredInv, CreateUser
    PROVE  CredInv'
<1> USE DEF CredInv
<1>1. PICK p \in Password, e \in BOOLEAN : SetRow([id |-> created + 1, hash |-> p, pending |-> e])
  BY DEF CreateUser
<1>2. /\ row' = [id |-> created + 1, hash |-> p, pending |-> e]
      /\ inForce' = [h \in Handler |-> IF pc[h] = "idle" THEN {} ELSE inForce[h] \cup {row'}]
  BY <1>1 DEF SetRow
<1>3. /\ UNCHANGED <<sessions, lapsed, issued, lock, pc, call, uid, doomed, begun, found, live>>
      /\ row.id = 0 /\ created < MaxAccounts /\ created' = created + 1
  BY DEF CreateUser
<1>4. created' \in 0..MaxAccounts /\ created' # 0 /\ created \in 0..MaxAccounts
  BY <1>3, BoundAssumption DEF TypeOK
<1>5. row' \in Rows /\ row'.id = created + 1
  BY <1>2, <1>3, <1>4 DEF Rows
<1>6. sessions = {} /\ lock = Unlocked
  BY <1>3, IdsGiven
<1>7. \A h \in Handler : pc[h] # "idle" => inForce[h] \subseteq inForce'[h] /\ row' \in inForce'[h]
  BY <1>2
<1>8. \A h \in Handler : pc[h] \in {"known", "admitted", "verified", "updated", "revoked"} => uid[h] # row'.id
  BY <1>5, IdsGiven
<1>9. TypeOK'
  <2>1. inForce' \in [Handler -> SUBSET Rows]
    BY <1>2, <1>5 DEF TypeOK
  <2> QED BY <1>3, <1>4, <1>5, <2>1 DEF TypeOK
<1>10. UserCounted' /\ SessionsOwned' /\ TokensIssued'
  BY <1>3, <1>4, <1>5, <1>6 DEF UserCounted, SessionsOwned, TokensIssued
<1>11. CallsPlaced'
  <2>1. \A n \in 1..created : n \in 1..created'
    BY <1>3, <1>4
  <2> QED BY <1>3, <1>7, <2>1 DEF CallsPlaced
<1>12. CredentialsOld'
  <2>1. ASSUME NEW h \in Handler, pc[h] # "idle", call[h].op \in {"change", "logout", "query"}
        PROVE  /\ call[h].by.cookie \in issued \cup {NoToken}
               /\ call[h].by.key <= created'
               /\ \A u : ~Identifies(call[h].by, u)'
               /\ pc[h] \in {"known", "admitted"} => live[h]
    <3>1. call[h].by.key \in 0..MaxAccounts /\ call[h].by.key <= created
      BY <2>1, CallKinds DEF CallsPlaced, CredentialsOld
    <3>2. call[h].by.key <= created' /\ call[h].by.key # row'.id
      BY <1>3, <1>4, <1>5, <3>1
    <3>3. \A u : ~Identifies(call[h].by, u)'
      BY <1>3, <1>6, <3>2 DEF Identifies, Signed
    <3> QED BY <2>1, <3>2, <3>3 DEF CredentialsOld
  <2> QED BY <1>3, <2>1 DEF CredentialsOld
<1>13. PasswordsKnown' /\ LockHeld'
  BY <1>3, <1>6, <1>8, UnlockedAssumption DEF PasswordsKnown, LockHeld
<1>14. FoundRevoked' /\ AdmittedInForce'
  BY <1>3, <1>7 DEF FoundRevoked, AdmittedInForce
<1> QED BY <1>9, <1>10, <1>11, <1>12, <1>13, <1>14

LEMMA DeleteKeepsInvariant ==
    ASSUME CredInv, DeleteUser
    PROVE  CredInv'
<1> USE DEF CredInv
<1>1. /\ row' = NoUser /\ row'.id = 0
      /\ inForce' = [h \in Handler |-> IF pc[h] = "idle" THEN {} ELSE inForce[h] \cup {NoUser}]
  BY DEF DeleteUser, SetRow, NoUser
<1>2. /\ UNCHANGED <<created, lapsed, issued, lock, pc, call, uid, doomed, begun, found, live>>
      /\ lock = Unlocked /\ sessions' = {s \in sessions : s.uid # row.id}
  BY DEF DeleteUser
<1>3. sessions' = {}
  BY <1>2 DEF SessionsOwned
<1>4. NoUser \in Rows
  BY BoundAssumption DEF NoUser, Rows
<1>5. \A h \in Handler : pc[h] # "idle" => inForce[h] \subseteq inForce'[h] /\ row' \in inForce'[h]
  BY <1>1
<1>6. \A h \in Handler : pc[h] \in {"known", "admitted", "verified", "updated", "revoked"} => uid[h] # row'.id
  BY <1>1, IdsGiven
<1>7. TypeOK'
  <2>1. inForce' \in [Handler -> SUBSET Rows]
    BY <1>1, <1>4 DEF TypeOK
  <2> QED BY <1>1, <1>2, <1>3, <1>4, <2>1 DEF TypeOK
<1>8. UserCounted' /\ SessionsOwned' /\ TokensIssued'
  BY <1>1, <1>2, <1>3 DEF UserCounted, SessionsOwned, TokensIssued
<1>9. CallsPlaced'
  BY <1>2, <1>5 DEF CallsPlaced
<1>10. CredentialsOld'
  <2>1. \A c : \A u \in 1..MaxAccounts : ~Identifies(c, u)'
    BY <1>1, <1>3 DEF Identifies, Signed
  <2> QED BY <1>2, <2>1 DEF CredentialsOld
<1>11. PasswordsKnown' /\ LockHeld'
  BY <1>2, <1>6, UnlockedAssumption DEF PasswordsKnown, LockHeld
<1>12. FoundRevoked' /\ AdmittedInForce'
  BY <1>2, <1>3, <1>5 DEF FoundRevoked, AdmittedInForce
<1> QED BY <1>7, <1>8, <1>9, <1>10, <1>11, <1>12

LEMMA ExpiryKeepsInvariant ==
    ASSUME CredInv, Lapse \/ PruneSessions
    PROVE  CredInv'
<1> USE DEF CredInv
<1>1. UNCHANGED <<row, created, issued, lock, pc, call, uid, doomed, begun, inForce, found, live>>
  BY DEF Lapse, PruneSessions, history
<1>2. sessions' \in SUBSET sessions /\ lapsed \in SUBSET lapsed' /\ lapsed' \in SUBSET Token
  BY DEF Lapse, PruneSessions, TypeOK, Sessions
<1>3. TypeOK'
  BY <1>1, <1>2 DEF TypeOK
<1>4. SessionsOwned' /\ \A c, u : Identifies(c, u)' => Identifies(c, u)
  BY <1>1, <1>2, FewerSessions
<1>5. CredentialsOld'
  BY <1>1, <1>4 DEF CredentialsOld
<1>6. /\ UserCounted' /\ CallsPlaced' /\ TokensIssued' /\ PasswordsKnown'
      /\ LockHeld' /\ FoundRevoked' /\ AdmittedInForce'
  BY <1>1, <1>2
  DEF UserCounted, CallsPlaced, TokensIssued, PasswordsKnown, LockHeld, FoundRevoked, AdmittedInForce
<1> QED BY <1>3, <1>4, <1>5, <1>6

-----------------------------------------------------------------------------
(* Every step.                                                             *)

LEMMA StepKeepsInvariant == CredInv /\ [Next]_vars => CredInv'
<1> SUFFICES ASSUME CredInv, [Next]_vars PROVE CredInv'
  OBVIOUS
<1>1. ASSUME NEW h \in Handler, Serve(h) \/ Deny(h) \/ Fail(h) PROVE CredInv'
  BY <1>1, RefuseKeepsInvariant DEF Serve, Deny, Fail
<1>2. ASSUME NEW h \in Handler, Login(h) \/ Resolve(h) \/ Store(h) PROVE CredInv'
  BY <1>2, ReadsKeepInvariant, SignInKeepsInvariant, UpdateKeepsInvariant, RevokeKeepsInvariant,
     CommitKeepsInvariant DEF Login, Resolve, Store, Reads
<1>3. CASE UNCHANGED vars
  BY <1>3 DEF vars, CredInv, TypeOK, UserCounted, SessionsOwned, CallsPlaced, TokensIssued,
     CredentialsOld, Identifies, Signed, PasswordsKnown, LockHeld, FoundRevoked, AdmittedInForce
<1> QED
  BY <1>1, <1>2, <1>3, BeginKeepsInvariant, LogoutKeepsInvariant, CreateKeepsInvariant,
     DeleteKeepsInvariant, ExpiryKeepsInvariant DEF Next

-----------------------------------------------------------------------------
(* The theorems.                                                           *)

\* Always, the invariant.
THEOREM CredentialsInvariant == Spec => []CredInv
<1>1. Init => CredInv
  BY Initially
<1>2. CredInv /\ [Next]_vars => CredInv'
  BY StepKeepsInvariant
<1> QED BY <1>1, <1>2, PTL DEF Spec

\* The tables and the handlers keep their types, in particular a session is
\* opened for a user with a password (login's VerifyPassword).
THEOREM TypeCorrect == Spec => []TypeOK
BY CredentialsInvariant, PTL DEF CredInv

\* Every session is the present user's (DeleteUser's cascade and the foreign
\* key of session).
THEOREM SessionsAlwaysOwned == Spec => []SessionsOwned
BY CredentialsInvariant, PTL DEF CredInv

\* resolve admits no request whose credential was never good, and no request
\* behind the enrolment gate whose user had not finished enrolment.
THEOREM AlwaysAdmittedInForce == Spec => []AdmittedInForce
BY CredentialsInvariant, PTL DEF CredInv

\* A handler moves by a step of its own.
LEMMA OwnStep ==
    ASSUME CredInv, [Next]_vars, NEW h \in Handler, pc'[h] # pc[h]
    PROVE  \/ Begin(h) \/ Reads(h) \/ SignIn(h) \/ Logout(h) \/ Update(h) \/ Revoke(h)
           \/ Commit(h) \/ Refuse(h)
<1>1. TypeOK
  BY DEF CredInv
<1>2. ~UNCHANGED pc
  OBVIOUS
<1>3. PICK g \in Handler :
        \/ Begin(g) \/ Login(g) \/ Resolve(g) \/ Serve(g) \/ Logout(g) \/ Store(g)
        \/ Deny(g) \/ Fail(g)
  BY <1>2 DEF Next, vars, CreateUser, DeleteUser, Lapse, PruneSessions
<1>4. \/ Begin(g) \/ Reads(g) \/ SignIn(g) \/ Logout(g) \/ Update(g) \/ Revoke(g)
      \/ Commit(g) \/ Refuse(g)
  BY <1>3 DEF Login, Resolve, Store, Reads, Serve, Deny, Fail
<1>5. \E l : pc' = [pc EXCEPT ![g] = l]
  BY <1>4 DEF Begin, Reads, VerifyLogin, Lookup, LoadSession, VerifyCurrent, FindUser, SignIn,
     Logout, Update, Revoke, Commit, Refuse, Return, Forget, Goto
<1>6. g = h
  BY <1>1, <1>5 DEF TypeOK
<1> QED BY <1>4, <1>6

LEMMA OnlyProvedPasswords == CredInv /\ [Next]_vars => PasswordWasInForce
<1> SUFFICES ASSUME CredInv, [Next]_vars, NEW h \in Handler
             PROVE  /\ \A s \in sessions' \ sessions : Moves(h, "login") =>
                          \E r \in inForce[h] : r.id = s.uid /\ r.hash = call[h].typed
                    /\ Moves(h, "change") /\ row' # row =>
                          \E r \in inForce[h] : r.id = row.id /\ r.hash = call[h].typed
  BY DEF PasswordWasInForce
<1>1. ASSUME NEW s \in sessions' \ sessions, Moves(h, "login")
      PROVE  \E r \in inForce[h] : r.id = s.uid /\ r.hash = call[h].typed
  <2>1. SignIn(h)
    BY <1>1, OwnStep
    DEF Moves, Begin, Reads, VerifyLogin, Lookup, LoadSession, VerifyCurrent, FindUser, Logout,
        Update, Revoke, Commit, Refuse, tables
  <2>2. s.uid = uid[h] /\ uid[h] = row.id /\ pc[h] = "verified" /\ call[h].op = "login"
    BY <1>1, <2>1 DEF SignIn
  <2> QED BY <2>2 DEF CredInv, PasswordsKnown
<1>2. ASSUME Moves(h, "change"), row' # row
      PROVE  \E r \in inForce[h] : r.id = row.id /\ r.hash = call[h].typed
  <2>1. Commit(h)
    BY <1>2, OwnStep
    DEF Moves, Begin, Reads, VerifyLogin, Lookup, LoadSession, VerifyCurrent, FindUser, Logout,
        SignIn, Update, Revoke, Refuse, tables
  <2>2. lock = h /\ pc[h] = "revoked" /\ call[h].op = "change"
    BY <1>2, <2>1 DEF Commit, Moves
  <2>3. uid[h] = row.id
    BY <2>2 DEF CredInv, LockHeld
  <2> QED BY <2>2, <2>3 DEF CredInv, PasswordsKnown
<1> QED BY <1>1, <1>2

\* No password is changed and no session opened without the user's password.
THEOREM PasswordsProved == Spec => ProvedInForce
<1>1. CredInv /\ [Next]_vars => [PasswordWasInForce]_vars
  BY OnlyProvedPasswords
<1> QED BY <1>1, CredentialsInvariant, PTL DEF Spec, ProvedInForce

LEMMA StoredPasswordEndsSessions == CredInv /\ [Next]_vars => HeldSessionsEnd
<1> SUFFICES ASSUME CredInv, [Next]_vars, NEW h \in Handler,
                    pc[h] = "revoked", pc'[h] = "idle", <<row, sessions>>' # <<row, sessions>>,
                    NEW s \in sessions \cap found[h]
             PROVE  s \in sessions' <=> s.token = Spared(call[h])
  BY DEF HeldSessionsEnd
<1>1. Commit(h)
  BY OwnStep
  DEF Begin, Reads, VerifyLogin, Lookup, LoadSession, VerifyCurrent, FindUser, Logout, SignIn,
      Update, BeforeUpdate, Revoke, Refuse, tables
<1>2. sessions' = sessions \ doomed[h]
  BY <1>1 DEF Commit
<1>3. \A d \in doomed[h] : d.uid = uid[h] /\ d.token # Spared(call[h])
  BY DEF CredInv, FoundRevoked
<1>4. \A x \in sessions : x.uid = row.id
  BY DEF CredInv, SessionsOwned
<1>5. lock = h
  <2>1. SUFFICES ASSUME lock # h PROVE FALSE
    OBVIOUS
  <2>2. uid[h] # row.id
    BY <2>1 DEF CredInv, LockHeld
  <2>3. sessions' = sessions
    BY <1>2, <1>3, <1>4, <2>2
  <2> QED BY <1>1, <2>1, <2>3 DEF Commit
<1>6. uid[h] = row.id
  BY <1>5 DEF CredInv, LockHeld
<1>7. s.token # Spared(call[h]) => s \in doomed[h]
  BY <1>4, <1>6 DEF CredInv, FoundRevoked
<1> QED BY <1>2, <1>3, <1>7

\* A stored password ends every session its transaction found but the one
\* that made the change, and touches no other user's.
THEOREM SessionsEnd == Spec => PasswordEndsSessions
<1>1. CredInv /\ [Next]_vars => [HeldSessionsEnd]_vars
  BY StoredPasswordEndsSessions
<1> QED BY <1>1, CredentialsInvariant, PTL DEF Spec, PasswordEndsSessions
=============================================================================
