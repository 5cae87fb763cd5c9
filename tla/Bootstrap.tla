----------------------------- MODULE Bootstrap -----------------------------
(***************************************************************************)
(* The boot of lightship serve, on any number of replicas at once: Migrate *)
(* and EnsureAdmin of internal/store/store.go in the order of serve in     *)
(* cmd/lightship/main.go, with what the bootstrap admin does meanwhile     *)
(* through login and changePassword of internal/httpapi/server.go, and an  *)
(* operator who clears the stored hash to get back in.                     *)
(*                                                                         *)
(* A process may be killed at any step; Postgres then rolls back what it   *)
(* had open and drops its locks.  EnsureAdmin is two steps: the read that  *)
(* settles which branch it takes, under the lock of model_version, and the *)
(* writes with their commit.  SetOwnPassword is one here: its own steps    *)
(* are Credentials's.                                                      *)
(***************************************************************************)
EXTENDS Naturals

CONSTANTS Replica,
          Handler,      \* request goroutines of the admin, on any replica
          EnvHash,      \* values of LIGHTSHIP_ADMIN_PASSWORD_HASH
          Chosen,       \* hashes of passwords the admin chooses
          Migrations,   \* how many files there are, applied in order
          Connections,  \* of one replica's pool
          MaxBoots,     \* bound: how often a process starts
          MaxLogins,    \* bound: how many sessions are opened
          NoHash,       \* no password, or an unset environment variable
          Nobody        \* holds the lock

ASSUME MigrationsAssumption == Migrations \in Nat
ASSUME ConnectionsAssumption == Connections \in Nat /\ Connections >= 2
ASSUME BoundAssumption == MaxBoots \in Nat /\ MaxLogins \in Nat
ASSUME NoHashAssumption ==
    /\ NoHash \notin EnvHash \cup Chosen \cup Nat
    /\ EnvHash \cap (Chosen \cup Nat) = {}
    /\ Chosen \cap Nat = {}
ASSUME NobodyAssumption == Nobody \notin Replica

VARIABLES applied,     \* rows of schema_migrations
          advisory,    \* who holds the migration lock
          version,     \* who holds the lock of model_version
          admin,       \* the admin's row of app_user
          sessions,    \* the admin's rows of session
          pc,          \* where each process is in serve
          env,         \* the value each process has been given
          done,        \* the migrations it believes applied
          seen,        \* the row EnsureAdmin has read
          fresh,       \* the password EnsureAdmin has generated
          at,          \* where each request of the admin is
          own,         \* the session it came with
          boots,       \* how many processes have started
          logins,      \* how many sessions have been opened
          drawn,       \* how many passwords have been generated and stored
          shown,       \* history: how often each of them was printed
          firsts,      \* history: logins recorded as the first
          lastEnv,     \* history: the value of the last completed EnsureAdmin
          cleared      \* history: the operator has cleared the hash

db == <<applied, advisory, version, admin, sessions>>
process == <<pc, env, done, seen, fresh, boots>>
request == <<at, own, logins>>
history == <<drawn, shown, firsts, lastEnv, cleared>>
vars == <<db, process, request, history>>

\* The n-th generated password is n.
Hashes == EnvHash \cup Chosen \cup 1..MaxBoots

\* password_hash, admin_env_password_hash, bootstrap_login_pending.
Rows == [hash : Hashes \cup {NoHash}, tracker : EnvHash \cup {NoHash}, pending : BOOLEAN]

Stages == {"down",
           "booting",     \* the store is open
           "locked",      \* the migration lock is held
           "migrating",   \* schema_migrations has been read
           "migrated",    \* Migrate has returned
           "ensuring",    \* EnsureAdmin has read the admin's row
           "ensured",     \* EnsureAdmin has committed
           "serving"}

TypeOK ==
    /\ applied \in SUBSET (1..Migrations)
    /\ advisory \in Replica \cup {Nobody}
    /\ version \in Replica \cup {Nobody}
    /\ admin \in Rows
    /\ sessions \in SUBSET (1..MaxLogins)
    /\ pc \in [Replica -> Stages]
    /\ env \in [Replica -> EnvHash \cup {NoHash}]
    /\ done \in [Replica -> SUBSET (1..Migrations)]
    /\ seen \in [Replica -> Rows]
    /\ fresh \in [Replica -> 0..MaxBoots]
    /\ at \in [Handler -> {"idle", "verified", "signedIn", "changing"}]
    /\ own \in [Handler -> 0..MaxLogins]
    /\ boots \in 0..MaxBoots
    /\ logins \in 0..MaxLogins
    /\ drawn \in 0..MaxBoots
    /\ shown \in [1..MaxBoots -> 0..MaxBoots]
    /\ firsts \in 0..MaxBoots
    /\ lastEnv \in EnvHash \cup {NoHash}
    /\ cleared \in BOOLEAN

\* No admin yet: a row without a password, for all that follows.
NoAdmin == [hash |-> NoHash, tracker |-> NoHash, pending |-> FALSE]

Init ==
    /\ applied = {}
    /\ advisory = Nobody
    /\ version = Nobody
    /\ admin = NoAdmin
    /\ sessions = {}
    /\ pc = [r \in Replica |-> "down"]
    /\ env = [r \in Replica |-> NoHash]
    /\ done = [r \in Replica |-> {}]
    /\ seen = [r \in Replica |-> NoAdmin]
    /\ fresh = [r \in Replica |-> 0]
    /\ at = [h \in Handler |-> "idle"]
    /\ own = [h \in Handler |-> 0]
    /\ boots = 0
    /\ logins = 0
    /\ drawn = 0
    /\ shown = [n \in 1..MaxBoots |-> 0]
    /\ firsts = 0
    /\ lastEnv = NoHash
    /\ cleared = FALSE

-----------------------------------------------------------------------------
(* serve, and Migrate.                                                     *)

Goto(r, l) == pc' = [pc EXCEPT ![r] = l]
Released(lock, r) == IF lock = r THEN Nobody ELSE lock

\* A connection is left beside the one that holds the advisory lock.
Acquires(r) == advisory = r => Connections > 1

Boot(r) ==
    /\ pc[r] = "down"
    /\ boots < MaxBoots
    /\ boots' = boots + 1
    /\ \E e \in EnvHash \cup {NoHash} : env' = [env EXCEPT ![r] = e]
    /\ Goto(r, "booting")
    /\ UNCHANGED <<db, done, seen, fresh, request, history>>

\* Fault: Migrate takes no lock.
LockNothing(r) ==
    /\ pc[r] = "booting"
    /\ Goto(r, "locked")
    /\ UNCHANGED <<db, env, done, seen, fresh, boots, request, history>>

\* pg_advisory_lock, on a connection kept for the whole migration.
LockMigrations(r) ==
    /\ pc[r] = "booting"
    /\ advisory = Nobody
    /\ advisory' = r
    /\ Goto(r, "locked")
    /\ UNCHANGED <<applied, version, admin, sessions, env, done, seen, fresh, boots,
                   request, history>>

\* create table if not exists, and the names in it.
ListMigrations(r) ==
    /\ pc[r] = "locked"
    /\ Acquires(r)
    /\ done' = [done EXCEPT ![r] = applied]
    /\ Goto(r, "migrating")
    /\ UNCHANGED <<db, env, seen, fresh, boots, request, history>>

\* One file and its row, in a transaction; an object that exists fails it.
Migrate(r) ==
    /\ pc[r] = "migrating"
    /\ Acquires(r)
    /\ \E m \in 1..Migrations :
          /\ m \notin done[r] \cup applied
          /\ \A k \in 1..(m - 1) : k \in done[r]
          /\ applied' = applied \cup {m}
          /\ done' = [done EXCEPT ![r] = @ \cup {m}]
    /\ UNCHANGED <<advisory, version, admin, sessions, pc, env, seen, fresh, boots,
                   request, history>>

Migrated(r) ==
    /\ pc[r] = "migrating"
    /\ done[r] = 1..Migrations
    /\ advisory' = Released(advisory, r)
    /\ done' = [done EXCEPT ![r] = {}]
    /\ Goto(r, "migrated")
    /\ UNCHANGED <<applied, version, admin, sessions, env, seen, fresh, boots,
                   request, history>>

-----------------------------------------------------------------------------
(* EnsureAdmin.                                                            *)

\* Fault: EnsureAdmin does not lock model_version.
ReadUnlocked(r) ==
    /\ pc[r] = "migrated"
    /\ seen' = [seen EXCEPT ![r] = admin]
    /\ Goto(r, "ensuring")
    /\ UNCHANGED <<db, env, done, fresh, boots, request, history>>

\* lockModelVersion, the role, its policy, and the admin's row as it is stored.
ReadAdmin(r) ==
    /\ pc[r] = "migrated"
    /\ version = Nobody
    /\ version' = r
    /\ seen' = [seen EXCEPT ![r] = admin]
    /\ Goto(r, "ensuring")
    /\ UNCHANGED <<applied, advisory, admin, sessions, env, done, fresh, boots,
                   request, history>>

\* Fault: the environment is compared with the password, not with its tracker.
EnvDiffers(r) == seen[r].hash # env[r]

EnvChanged(r) == seen[r].tracker # env[r]
HavePassword(r) == seen[r].hash # NoHash
Rotating(r) == EnvChanged(r) /\ HavePassword(r) /\ seen[r].hash # env[r]

Configured(r) ==
    /\ env[r] # NoHash
    /\ admin' = IF EnvChanged(r)
                THEN [hash |-> env[r], tracker |-> env[r], pending |-> FALSE]
                ELSE admin
    /\ sessions' = IF Rotating(r) THEN {} ELSE sessions
    /\ UNCHANGED <<fresh, drawn>>

\* Fault: an unset variable is stored as an empty value, and not as null.
KeptEmpty(r) ==
    /\ env[r] = NoHash
    /\ HavePassword(r)
    /\ admin' = [admin EXCEPT !.tracker = 0]
    /\ UNCHANGED <<sessions, fresh, drawn>>

Kept(r) ==
    /\ env[r] = NoHash
    /\ HavePassword(r)
    /\ admin' = [admin EXCEPT !.tracker = NoHash]
    /\ UNCHANGED <<sessions, fresh, drawn>>

\* There is no more than one for each start of a process: the bound is no guard.
Generated(r) ==
    /\ env[r] = NoHash
    /\ ~HavePassword(r)
    /\ drawn < MaxBoots
    /\ drawn' = drawn + 1
    /\ fresh' = [fresh EXCEPT ![r] = drawn']
    /\ admin' = [admin EXCEPT !.hash = drawn', !.pending = TRUE]
    /\ UNCHANGED sessions

EnsureAdmin(r) ==
    /\ pc[r] = "ensuring"
    /\ Configured(r) \/ Kept(r) \/ Generated(r)
    /\ version' = Released(version, r)
    /\ lastEnv' = env[r]
    /\ Goto(r, "ensured")
    /\ env' = [env EXCEPT ![r] = NoHash]
    /\ seen' = [seen EXCEPT ![r] = NoAdmin]
    /\ UNCHANGED <<applied, advisory, done, boots, request, shown, firsts, cleared>>

PrintOnce(n) == shown' = [shown EXCEPT ![n] = @ + 1]

\* Fault: a restart prints the credential again while it is a generated one.
AnnounceStored(r) ==
    /\ pc[r] = "ensured"
    /\ IF admin.hash \in 1..MaxBoots THEN PrintOnce(admin.hash) ELSE UNCHANGED shown
    /\ fresh' = [fresh EXCEPT ![r] = 0]
    /\ Goto(r, "serving")
    /\ UNCHANGED <<db, env, done, seen, boots, request, drawn, firsts, lastEnv, cleared>>

\* printBootstrapCredential, the first load of the model, and ListenAndServe.
Announce(r) ==
    /\ pc[r] = "ensured"
    /\ IF fresh[r] # 0 THEN PrintOnce(fresh[r]) ELSE UNCHANGED shown
    /\ fresh' = [fresh EXCEPT ![r] = 0]
    /\ Goto(r, "serving")
    /\ UNCHANGED <<db, env, done, seen, boots, request, drawn, firsts, lastEnv, cleared>>

\* What the process knew goes with it.
Forget(r) ==
    /\ env' = [env EXCEPT ![r] = NoHash]
    /\ done' = [done EXCEPT ![r] = {}]
    /\ seen' = [seen EXCEPT ![r] = NoAdmin]
    /\ fresh' = [fresh EXCEPT ![r] = 0]
    /\ Goto(r, "down")

\* Fault: the migration lock is a row, and survives who holds it.
DownHolding(r) ==
    /\ pc[r] # "down"
    /\ version' = Released(version, r)
    /\ Forget(r)
    /\ UNCHANGED <<applied, advisory, admin, sessions, boots, request, history>>

\* An error ends serve, a signal or a crash the process; with its connections
\* go its locks.  EnsureAdmin may have committed and the answer been lost.
Down(r) ==
    /\ pc[r] # "down"
    /\ advisory' = Released(advisory, r)
    /\ version' = Released(version, r)
    /\ Forget(r)
    /\ UNCHANGED <<applied, admin, sessions, boots, request, history>>

-----------------------------------------------------------------------------
(* The admin's requests, and the operator.                                 *)

Serving == \E r \in Replica : pc[r] = "serving"
Enter(h, l) == at' = [at EXCEPT ![h] = l]

\* Credentials, and Verify with the password of the moment.
VerifyLogin(h) ==
    /\ Serving
    /\ at[h] = "idle"
    /\ admin.hash # NoHash
    /\ Enter(h, "verified")
    /\ UNCHANGED <<db, process, own, logins, history>>

SignIn(h) ==
    /\ at[h] = "verified"
    /\ logins < MaxLogins
    /\ logins' = logins + 1
    /\ sessions' = sessions \cup {logins'}
    /\ Enter(h, "signedIn")
    /\ UNCHANGED <<applied, advisory, version, admin, process, own, history>>

\* Fault: the update does not ask that the login be pending.
ConsumeAnyway(h) ==
    /\ at[h] = "signedIn"
    /\ firsts < MaxBoots
    /\ firsts' = firsts + 1
    /\ admin' = [admin EXCEPT !.pending = FALSE]
    /\ Enter(h, "idle")
    /\ UNCHANGED <<applied, advisory, version, sessions, process, own, logins,
                   drawn, shown, lastEnv, cleared>>

ConsumeFirstLogin(h) ==
    /\ at[h] = "signedIn"
    /\ firsts' = IF admin.pending THEN firsts + 1 ELSE firsts
    /\ admin' = [admin EXCEPT !.pending = FALSE]
    /\ Enter(h, "idle")
    /\ UNCHANGED <<applied, advisory, version, sessions, process, own, logins,
                   drawn, shown, lastEnv, cleared>>

VerifyCurrent(h) ==
    /\ Serving
    /\ at[h] = "idle"
    /\ admin.hash # NoHash
    /\ \E s \in sessions : own' = [own EXCEPT ![h] = s]
    /\ Enter(h, "changing")
    /\ UNCHANGED <<db, process, logins, history>>

SetOwnPassword(h) ==
    /\ at[h] = "changing"
    /\ \E p \in Chosen : admin' = [admin EXCEPT !.hash = p]
    /\ sessions' = sessions \cap {own[h]}
    /\ Enter(h, "idle")
    /\ own' = [own EXCEPT ![h] = 0]
    /\ UNCHANGED <<applied, advisory, version, process, logins, history>>

\* A request that fails, or whose process does.
GiveUp(h) ==
    /\ at[h] # "idle"
    /\ Enter(h, "idle")
    /\ own' = [own EXCEPT ![h] = 0]
    /\ UNCHANGED <<db, process, logins, history>>

\* "a hash cleared as break-glass": by SQL, and once.
ClearHash ==
    /\ ~cleared
    /\ admin.hash # NoHash
    /\ admin' = [admin EXCEPT !.hash = NoHash]
    /\ cleared' = TRUE
    /\ UNCHANGED <<applied, advisory, version, sessions, process, request,
                   drawn, shown, firsts, lastEnv>>

-----------------------------------------------------------------------------

Step(r) ==
    \/ ListMigrations(r) \/ Migrate(r) \/ Migrated(r)
    \/ EnsureAdmin(r) \/ Announce(r)

Request(h) ==
    \/ VerifyLogin(h) \/ SignIn(h) \/ ConsumeFirstLogin(h)
    \/ VerifyCurrent(h) \/ SetOwnPassword(h) \/ GiveUp(h)

Next ==
    \/ \E r \in Replica : Boot(r) \/ LockMigrations(r) \/ ReadAdmin(r) \/ Step(r) \/ Down(r)
    \/ \E h \in Handler : Request(h)
    \/ ClearHash

Spec == Init /\ [][Next]_vars

\* A process that has started goes on; Postgres grants its locks in turn.
Fairness ==
    \A r \in Replica :
        WF_vars(Step(r)) /\ SF_vars(LockMigrations(r)) /\ SF_vars(ReadAdmin(r))

FairSpec == Spec /\ Fairness

-----------------------------------------------------------------------------
(* Properties.                                                             *)

\* Replicas that boot together do not race a migration (Migrate, "the second
\* replica simply waits and then finds everything already applied"); files are
\* applied in order, whoever is killed, and who serves has seen them all.
MigrationsInOrder ==
    /\ \A r \in Replica : pc[r] = "migrating" => done[r] = applied
    /\ \A m \in applied : \A k \in 1..(m - 1) : k \in applied
    /\ \A r \in Replica :
          pc[r] \in {"migrated", "ensuring", "ensured", "serving"} => applied = 1..Migrations

\* However many replicas boot on an empty database, and however often they are
\* killed, one password is generated (EnsureAdmin, "the stored hash is the
\* marker"); only an operator who clears the hash can ask for another.
OnePassword == ~cleared => drawn <= 1

\* "A restart must never reprint a generated credential", and what is printed
\* was committed before.
ShownOnce ==
    \A n \in 1..MaxBoots : shown[n] <= 1 /\ (shown[n] = 1 => n <= drawn)

\* Of the logins on a generated password at most one is recorded as the first
\* (ConsumeBootstrapFirstLogin, "exactly one login can ever be it").
FirstLoginOnce == firsts <= drawn

EnsuresAdmin(r) == pc[r] = "ensuring" /\ pc'[r] = "ensured"

KeepsWhatItFound ==
    \A r \in Replica :
        EnsuresAdmin(r) /\ env[r] = lastEnv /\ seen[r].hash # NoHash => admin'.hash = admin.hash

\* A boot in the environment of the boot before leaves the password alone, also
\* one that was chosen meanwhile ("does not overwrite a password the admin
\* subsequently chose in the UI").
ChosenSurvives == [][KeepsWhatItFound]_vars

\* A process that has started serves or ends, although others hold and want the
\* locks it needs and may be killed holding them.
BootsEnd == \A r \in Replica : pc[r] # "down" ~> pc[r] \in {"serving", "down"}

RotatesTheCredential ==
    \A r \in Replica :
        EnsuresAdmin(r) /\ env[r] \notin {NoHash, lastEnv} =>
            admin'.hash = env[r] /\ sessions' = {}

\* EnsureAdmin's comment: a value different from the last one applied "is a
\* rotation — the recovery move for a leak — and the admin's sessions are
\* revoked".
RotationRevokes == [][RotatesTheCredential]_vars

-----------------------------------------------------------------------------
(* The inductive invariant behind them.                                    *)

MigrationLockHeld ==
    \A r \in Replica :
        /\ pc[r] \in {"locked", "migrating"} <=> advisory = r

VersionLockHeld ==
    \A r \in Replica :
        /\ pc[r] = "ensuring" <=> version = r
        /\ pc[r] = "ensuring" => seen[r].tracker = admin.tracker

TrackerTells == lastEnv # NoHash => admin.tracker = lastEnv

\* Until the operator clears it, a password that is there stays there.
PasswordStays ==
    ~cleared =>
        /\ drawn > 0 => admin.hash # NoHash
        /\ \A r \in Replica : pc[r] = "ensuring" /\ seen[r].hash = NoHash => admin.hash = NoHash
        /\ \A h \in Handler : at[h] = "changing" => admin.hash # NoHash

FirstsCounted == firsts + (IF admin.pending THEN 1 ELSE 0) <= drawn

\* A password that is still to be printed has not been.
FreshUnshown ==
    \A r \in Replica :
        /\ fresh[r] # 0 => pc[r] = "ensured" /\ fresh[r] <= drawn /\ shown[fresh[r]] = 0
        /\ \A q \in Replica \ {r} : fresh[r] # 0 => fresh[q] # fresh[r]

BootInv ==
    /\ TypeOK
    /\ MigrationLockHeld
    /\ MigrationsInOrder
    /\ VersionLockHeld
    /\ TrackerTells
    /\ PasswordStays
    /\ OnePassword
    /\ FirstsCounted
    /\ FirstLoginOnce
    /\ FreshUnshown
    /\ ShownOnce
=============================================================================
