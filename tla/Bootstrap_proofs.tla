-------------------------- MODULE Bootstrap_proofs --------------------------
(***************************************************************************)
(* Proofs about Bootstrap: BootInv is inductive, and the safety properties *)
(* follow from it, for any replicas, migrations and environment values.    *)
(***************************************************************************)
EXTENDS Bootstrap, TLAPS

LEMMA FirstsAtMost == TypeOK' /\ FirstsCounted' => FirstLoginOnce'
<1> SUFFICES ASSUME TypeOK', FirstsCounted' PROVE firsts' <= drawn'
  BY DEF FirstLoginOnce
<1>1. firsts' \in Nat /\ drawn' \in Nat
  BY BoundAssumption DEF TypeOK
<1>2. firsts' + (IF admin'.pending THEN 1 ELSE 0) <= drawn'
  BY DEF FirstsCounted
<1>3. (IF admin'.pending THEN 1 ELSE 0) \in {0, 1}
  OBVIOUS
<1>4. \A a, b, n : a \in Nat /\ b \in Nat /\ n \in {0, 1} /\ a + n <= b => a <= b
  OBVIOUS
<1> QED BY <1>1, <1>2, <1>3, <1>4, Zenon

\* A process starts.
LEMMA BootKeeps ==
    ASSUME BootInv, NEW r \in Replica, Boot(r)
    PROVE  BootInv'
<1> USE DEF BootInv
<1>1. TypeOK'
  BY BoundAssumption DEF Boot, Goto, TypeOK, Rows, NoAdmin, Stages, Hashes, db, request, history
<1>2. MigrationLockHeld'
  BY NobodyAssumption DEF Boot, Goto, MigrationLockHeld, TypeOK, db
<1>3. MigrationsInOrder'
  BY MigrationsAssumption DEF Boot, Goto, MigrationsInOrder, TypeOK, db
<1>4. VersionLockHeld'
  BY NobodyAssumption DEF Boot, Goto, VersionLockHeld, TypeOK, Rows, db
<1>5. PasswordStays'
  BY NoHashAssumption DEF Boot, Goto, PasswordStays, TypeOK, Rows, Hashes, db, request, history
<1>6. FreshUnshown'
  BY DEF Boot, Goto, FreshUnshown, TypeOK, history
<1>7. TrackerTells' /\ OnePassword' /\ FirstsCounted' /\ ShownOnce'
  BY DEF Boot, TrackerTells, OnePassword, FirstsCounted, ShownOnce, db, history
<1>8. FirstLoginOnce'
  BY <1>1, <1>7, FirstsAtMost
<1> QED BY <1>1, <1>2, <1>3, <1>4, <1>5, <1>6, <1>7, <1>8

\* The migration lock is granted.
LEMMA LockMigrationsKeeps ==
    ASSUME BootInv, NEW r \in Replica, LockMigrations(r)
    PROVE  BootInv'
<1> USE DEF BootInv
<1>1. TypeOK'
  BY BoundAssumption DEF LockMigrations, Goto, TypeOK, Rows, NoAdmin, Stages, Hashes, request, history
<1>2. MigrationLockHeld'
  BY NobodyAssumption DEF LockMigrations, Goto, MigrationLockHeld, TypeOK
<1>3. MigrationsInOrder'
  BY MigrationsAssumption DEF LockMigrations, Goto, MigrationsInOrder, TypeOK
<1>4. VersionLockHeld'
  BY NobodyAssumption DEF LockMigrations, Goto, VersionLockHeld, TypeOK, Rows
<1>5. PasswordStays'
  BY NoHashAssumption DEF LockMigrations, Goto, PasswordStays, TypeOK, Rows, Hashes, request, history
<1>6. FreshUnshown'
  BY DEF LockMigrations, Goto, FreshUnshown, TypeOK, history
<1>7. TrackerTells' /\ OnePassword' /\ FirstsCounted' /\ ShownOnce'
  BY DEF LockMigrations, TrackerTells, OnePassword, FirstsCounted, ShownOnce, history
<1>8. FirstLoginOnce'
  BY <1>1, <1>7, FirstsAtMost
<1> QED BY <1>1, <1>2, <1>3, <1>4, <1>5, <1>6, <1>7, <1>8

\* The table of applied files is read.
LEMMA ListMigrationsKeeps ==
    ASSUME BootInv, NEW r \in Replica, ListMigrations(r)
    PROVE  BootInv'
<1> USE DEF BootInv
<1>1. TypeOK'
  BY BoundAssumption DEF ListMigrations, Goto, TypeOK, Rows, NoAdmin, Stages, Hashes, db, request, history
<1>2. MigrationLockHeld'
  BY NobodyAssumption DEF ListMigrations, Goto, MigrationLockHeld, TypeOK, db
<1>3. MigrationsInOrder'
  BY MigrationsAssumption DEF ListMigrations, Goto, MigrationsInOrder, TypeOK, db
<1>4. VersionLockHeld'
  BY NobodyAssumption DEF ListMigrations, Goto, VersionLockHeld, TypeOK, Rows, db
<1>5. PasswordStays'
  BY NoHashAssumption DEF ListMigrations, Goto, PasswordStays, TypeOK, Rows, Hashes, db, request, history
<1>6. FreshUnshown'
  BY DEF ListMigrations, Goto, FreshUnshown, TypeOK, history
<1>7. TrackerTells' /\ OnePassword' /\ FirstsCounted' /\ ShownOnce'
  BY DEF ListMigrations, TrackerTells, OnePassword, FirstsCounted, ShownOnce, db, history
<1>8. FirstLoginOnce'
  BY <1>1, <1>7, FirstsAtMost
<1> QED BY <1>1, <1>2, <1>3, <1>4, <1>5, <1>6, <1>7, <1>8

\* One file and its row are committed.
LEMMA MigrateKeeps ==
    ASSUME BootInv, NEW r \in Replica, Migrate(r)
    PROVE  BootInv'
<1> USE DEF BootInv
<1>1. TypeOK'
  BY BoundAssumption DEF Migrate, TypeOK, Rows, NoAdmin, Stages, Hashes, request, history
<1>2. MigrationsInOrder'
  <2> PICK m \in 1..Migrations :
          /\ m \notin done[r] \cup applied
          /\ \A k \in 1..(m - 1) : k \in done[r]
          /\ applied' = applied \cup {m}
          /\ done' = [done EXCEPT ![r] = @ \cup {m}]
    BY DEF Migrate
  <2>1. pc' = pc /\ pc[r] = "migrating" /\ done[r] = applied
    BY DEF Migrate, MigrationsInOrder
  <2>2. \A q \in Replica \ {r} : pc[q] # "migrating"
    BY <2>1 DEF MigrationLockHeld
  <2>3. \A q \in Replica : pc'[q] = "migrating" => done'[q] = applied'
    BY <2>1, <2>2 DEF TypeOK
  <2>4. \A i \in applied' : \A k \in 1..(i - 1) : k \in applied'
    BY <2>1 DEF MigrationsInOrder
  <2>5. applied # 1..Migrations
    OBVIOUS
  <2>6. \A q \in Replica : pc'[q] \notin {"migrated", "ensuring", "ensured", "serving"}
    BY <2>1, <2>5 DEF MigrationsInOrder
  <2> QED BY <2>3, <2>4, <2>6 DEF MigrationsInOrder
<1>3. MigrationLockHeld' /\ VersionLockHeld' /\ TrackerTells' /\ PasswordStays' /\ OnePassword' /\ FirstsCounted' /\ FreshUnshown' /\ ShownOnce'
  BY DEF Migrate, MigrationLockHeld, VersionLockHeld, TrackerTells, PasswordStays, OnePassword, FirstsCounted, FreshUnshown, ShownOnce, request, history
<1>4. FirstLoginOnce'
  BY <1>1, <1>3, FirstsAtMost
<1> QED BY <1>1, <1>2, <1>3, <1>4

\* The migration lock is released.
LEMMA MigratedKeeps ==
    ASSUME BootInv, NEW r \in Replica, Migrated(r)
    PROVE  BootInv'
<1> USE DEF BootInv
<1>1. TypeOK'
  BY BoundAssumption DEF Migrated, Goto, Released, TypeOK, Rows, NoAdmin, Stages, Hashes, request, history
<1>2. MigrationLockHeld'
  BY NobodyAssumption DEF Migrated, Goto, Released, MigrationLockHeld, TypeOK
<1>3. MigrationsInOrder'
  BY MigrationsAssumption DEF Migrated, Goto, Released, MigrationsInOrder, TypeOK
<1>4. VersionLockHeld'
  BY NobodyAssumption DEF Migrated, Goto, Released, VersionLockHeld, TypeOK, Rows
<1>5. PasswordStays'
  BY NoHashAssumption DEF Migrated, Goto, Released, PasswordStays, TypeOK, Rows, Hashes, request, history
<1>6. FreshUnshown'
  BY DEF Migrated, Goto, Released, FreshUnshown, TypeOK, history
<1>7. TrackerTells' /\ OnePassword' /\ FirstsCounted' /\ ShownOnce'
  BY DEF Migrated, TrackerTells, OnePassword, FirstsCounted, ShownOnce, history
<1>8. FirstLoginOnce'
  BY <1>1, <1>7, FirstsAtMost
<1> QED BY <1>1, <1>2, <1>3, <1>4, <1>5, <1>6, <1>7, <1>8

\* The lock of model_version is granted, and the row read.
LEMMA ReadAdminKeeps ==
    ASSUME BootInv, NEW r \in Replica, ReadAdmin(r)
    PROVE  BootInv'
<1> USE DEF BootInv
<1>1. TypeOK'
  BY BoundAssumption DEF ReadAdmin, Goto, TypeOK, Rows, NoAdmin, Stages, Hashes, request, history
<1>2. MigrationLockHeld'
  BY NobodyAssumption DEF ReadAdmin, Goto, MigrationLockHeld, TypeOK
<1>3. MigrationsInOrder'
  BY MigrationsAssumption DEF ReadAdmin, Goto, MigrationsInOrder, TypeOK
<1>4. VersionLockHeld'
  BY NobodyAssumption DEF ReadAdmin, Goto, VersionLockHeld, TypeOK, Rows
<1>5. PasswordStays'
  BY NoHashAssumption DEF ReadAdmin, Goto, PasswordStays, TypeOK, Rows, Hashes, request, history
<1>6. FreshUnshown'
  BY DEF ReadAdmin, Goto, FreshUnshown, TypeOK, history
<1>7. TrackerTells' /\ OnePassword' /\ FirstsCounted' /\ ShownOnce'
  BY DEF ReadAdmin, TrackerTells, OnePassword, FirstsCounted, ShownOnce, history
<1>8. FirstLoginOnce'
  BY <1>1, <1>7, FirstsAtMost
<1> QED BY <1>1, <1>2, <1>3, <1>4, <1>5, <1>6, <1>7, <1>8

\* What was generated is printed, and the server starts.
LEMMA AnnounceKeeps ==
    ASSUME BootInv, NEW r \in Replica, Announce(r)
    PROVE  BootInv'
<1> USE DEF BootInv
<1>a. /\ pc' = [pc EXCEPT ![r] = "serving"]
      /\ fresh' = [fresh EXCEPT ![r] = 0]
      /\ pc[r] = "ensured" /\ fresh[r] \in 0..MaxBoots
      /\ UNCHANGED drawn
  BY DEF Announce, Goto, TypeOK
<1>b. \/ fresh[r] = 0 /\ shown' = shown
      \/ fresh[r] \in 1..MaxBoots /\ shown[fresh[r]] = 0 /\ fresh[r] <= drawn
            /\ shown' = [shown EXCEPT ![fresh[r]] = 1]
  <2>1. CASE fresh[r] = 0
    BY <2>1 DEF Announce
  <2>2. CASE fresh[r] # 0
    <3>1. shown[fresh[r]] = 0 /\ fresh[r] <= drawn /\ fresh[r] \in 1..MaxBoots
      BY <1>a, <2>2, BoundAssumption DEF FreshUnshown
    <3>2. shown' = [shown EXCEPT ![fresh[r]] = shown[fresh[r]] + 1]
      BY <2>2 DEF Announce, PrintOnce
    <3> QED BY <3>1, <3>2
  <2> QED BY <2>1, <2>2
<1>1. TypeOK'
  <2>1. shown' \in [1..MaxBoots -> 0..MaxBoots]
    <3>1. shown \in [1..MaxBoots -> 0..MaxBoots]
      BY DEF TypeOK
    <3>2. fresh[r] \in 1..MaxBoots => 1 \in 0..MaxBoots
      BY BoundAssumption
    <3> QED BY <1>b, <3>1, <3>2
  <2> QED BY <1>a, <2>1, BoundAssumption DEF Announce, TypeOK, Stages, db, request
<1>2. MigrationLockHeld'
  BY NobodyAssumption DEF Announce, Goto, PrintOnce, MigrationLockHeld, TypeOK, db
<1>3. MigrationsInOrder'
  BY MigrationsAssumption DEF Announce, Goto, PrintOnce, MigrationsInOrder, TypeOK, db
<1>4. VersionLockHeld'
  BY NobodyAssumption DEF Announce, Goto, PrintOnce, VersionLockHeld, TypeOK, Rows, db
<1>5. PasswordStays'
  BY NoHashAssumption DEF Announce, Goto, PrintOnce, PasswordStays, TypeOK, Rows, Hashes, db, request
<1>6. FreshUnshown'
  BY <1>a, <1>b, BoundAssumption DEF FreshUnshown, TypeOK
<1>7. ShownOnce'
  BY <1>a, <1>b, BoundAssumption DEF ShownOnce, TypeOK
<1>8. TrackerTells' /\ OnePassword' /\ FirstsCounted'
  BY DEF Announce, TrackerTells, OnePassword, FirstsCounted, db
<1>9. FirstLoginOnce'
  BY <1>1, <1>8, FirstsAtMost
<1> QED BY <1>1, <1>2, <1>3, <1>4, <1>5, <1>6, <1>7, <1>8, <1>9

\* A process ends, and its locks with it.
LEMMA DownKeeps ==
    ASSUME BootInv, NEW r \in Replica, Down(r)
    PROVE  BootInv'
<1> USE DEF BootInv
<1>1. TypeOK'
  BY BoundAssumption DEF Down, Forget, Goto, Released, TypeOK, Rows, NoAdmin, Stages, Hashes, request, history
<1>2. MigrationLockHeld'
  BY NobodyAssumption DEF Down, Forget, Goto, Released, MigrationLockHeld, TypeOK
<1>3. MigrationsInOrder'
  BY MigrationsAssumption DEF Down, Forget, Goto, Released, MigrationsInOrder, TypeOK
<1>4. VersionLockHeld'
  BY NobodyAssumption DEF Down, Forget, Goto, Released, VersionLockHeld, TypeOK, Rows
<1>5. PasswordStays'
  BY NoHashAssumption DEF Down, Forget, Goto, Released, PasswordStays, TypeOK, Rows, Hashes, request, history
<1>6. FreshUnshown'
  BY DEF Down, Forget, Goto, Released, FreshUnshown, TypeOK, history
<1>7. TrackerTells' /\ OnePassword' /\ FirstsCounted' /\ ShownOnce'
  BY DEF Down, TrackerTells, OnePassword, FirstsCounted, ShownOnce, history
<1>8. FirstLoginOnce'
  BY <1>1, <1>7, FirstsAtMost
<1> QED BY <1>1, <1>2, <1>3, <1>4, <1>5, <1>6, <1>7, <1>8

\* A password is verified.
LEMMA VerifyLoginKeeps ==
    ASSUME BootInv, NEW h \in Handler, VerifyLogin(h)
    PROVE  BootInv'
<1> USE DEF BootInv
<1>1. TypeOK'
  BY BoundAssumption DEF VerifyLogin, Enter, TypeOK, Rows, NoAdmin, Stages, Hashes, db, process, history
<1>2. PasswordStays'
  BY NoHashAssumption DEF VerifyLogin, Enter, PasswordStays, TypeOK, Rows, Hashes, db, process, history
<1>3. MigrationLockHeld' /\ MigrationsInOrder' /\ VersionLockHeld' /\ TrackerTells' /\ OnePassword' /\ FirstsCounted' /\ FreshUnshown' /\ ShownOnce'
  BY DEF VerifyLogin, MigrationLockHeld, MigrationsInOrder, VersionLockHeld, TrackerTells, OnePassword, FirstsCounted, FreshUnshown, ShownOnce, db, process, history
<1>4. FirstLoginOnce'
  BY <1>1, <1>3, FirstsAtMost
<1> QED BY <1>1, <1>2, <1>3, <1>4

\* A session is opened.
LEMMA SignInKeeps ==
    ASSUME BootInv, NEW h \in Handler, SignIn(h)
    PROVE  BootInv'
<1> USE DEF BootInv
<1>1. TypeOK'
  BY BoundAssumption DEF SignIn, Enter, TypeOK, Rows, NoAdmin, Stages, Hashes, process, history
<1>2. PasswordStays'
  BY NoHashAssumption DEF SignIn, Enter, PasswordStays, TypeOK, Rows, Hashes, process, history
<1>3. MigrationLockHeld' /\ MigrationsInOrder' /\ VersionLockHeld' /\ TrackerTells' /\ OnePassword' /\ FirstsCounted' /\ FreshUnshown' /\ ShownOnce'
  BY DEF SignIn, MigrationLockHeld, MigrationsInOrder, VersionLockHeld, TrackerTells, OnePassword, FirstsCounted, FreshUnshown, ShownOnce, process, history
<1>4. FirstLoginOnce'
  BY <1>1, <1>3, FirstsAtMost
<1> QED BY <1>1, <1>2, <1>3, <1>4

\* The pending first login is consumed.
LEMMA ConsumeFirstLoginKeeps ==
    ASSUME BootInv, NEW h \in Handler, ConsumeFirstLogin(h)
    PROVE  BootInv'
<1> USE DEF BootInv
<1>a. FirstsCounted'
  BY DEF ConsumeFirstLogin, Enter, FirstsCounted, TypeOK, Rows
<1>1. TypeOK'
  <2>1. firsts' \in 0..MaxBoots
    BY <1>a, BoundAssumption DEF ConsumeFirstLogin, Enter, FirstsCounted, TypeOK, Rows
  <2> QED BY <2>1 DEF ConsumeFirstLogin, Enter, TypeOK, Rows, process
<1>2. VersionLockHeld'
  BY NobodyAssumption DEF ConsumeFirstLogin, Enter, VersionLockHeld, TypeOK, Rows, process
<1>3. TrackerTells'
  BY DEF ConsumeFirstLogin, Enter, TrackerTells, TypeOK, Rows
<1>4. PasswordStays'
  BY NoHashAssumption DEF ConsumeFirstLogin, Enter, PasswordStays, TypeOK, Rows, Hashes, process
<1>5. MigrationLockHeld' /\ MigrationsInOrder' /\ OnePassword' /\ FreshUnshown' /\ ShownOnce'
  BY DEF ConsumeFirstLogin, MigrationLockHeld, MigrationsInOrder, OnePassword, FreshUnshown, ShownOnce, process
<1>6. FirstLoginOnce'
  BY <1>1, <1>a, FirstsAtMost
<1> QED BY <1>1, <1>2, <1>3, <1>4, <1>a, <1>5, <1>6

\* The present password is verified.
LEMMA VerifyCurrentKeeps ==
    ASSUME BootInv, NEW h \in Handler, VerifyCurrent(h)
    PROVE  BootInv'
<1> USE DEF BootInv
<1>1. TypeOK'
  BY BoundAssumption DEF VerifyCurrent, Enter, TypeOK, Rows, NoAdmin, Stages, Hashes, db, process, history
<1>2. PasswordStays'
  BY NoHashAssumption DEF VerifyCurrent, Enter, PasswordStays, TypeOK, Rows, Hashes, db, process, history
<1>3. MigrationLockHeld' /\ MigrationsInOrder' /\ VersionLockHeld' /\ TrackerTells' /\ OnePassword' /\ FirstsCounted' /\ FreshUnshown' /\ ShownOnce'
  BY DEF VerifyCurrent, MigrationLockHeld, MigrationsInOrder, VersionLockHeld, TrackerTells, OnePassword, FirstsCounted, FreshUnshown, ShownOnce, db, process, history
<1>4. FirstLoginOnce'
  BY <1>1, <1>3, FirstsAtMost
<1> QED BY <1>1, <1>2, <1>3, <1>4

\* The admin chooses a password.
LEMMA SetOwnPasswordKeeps ==
    ASSUME BootInv, NEW h \in Handler, SetOwnPassword(h)
    PROVE  BootInv'
<1> USE DEF BootInv
<1>1. TypeOK'
  <2>1. admin' \in Rows
    BY DEF SetOwnPassword, TypeOK, Rows, Hashes
  <2>2. sessions' \subseteq 1..MaxLogins
    BY DEF SetOwnPassword, TypeOK
  <2> QED BY <2>1, <2>2, BoundAssumption DEF SetOwnPassword, Enter, TypeOK, process, history
<1>2. VersionLockHeld'
  BY NobodyAssumption DEF SetOwnPassword, Enter, VersionLockHeld, TypeOK, Rows, process
<1>3. TrackerTells'
  BY DEF SetOwnPassword, Enter, TrackerTells, TypeOK, Rows, history
<1>4. PasswordStays'
  BY NoHashAssumption DEF SetOwnPassword, Enter, PasswordStays, TypeOK, Rows, Hashes, process, history
<1>5. FirstsCounted'
  BY DEF SetOwnPassword, Enter, FirstsCounted, TypeOK, Rows, history
<1>6. MigrationLockHeld' /\ MigrationsInOrder' /\ OnePassword' /\ FreshUnshown' /\ ShownOnce'
  BY DEF SetOwnPassword, MigrationLockHeld, MigrationsInOrder, OnePassword, FreshUnshown, ShownOnce, process, history
<1>7. FirstLoginOnce'
  BY <1>1, <1>5, FirstsAtMost
<1> QED BY <1>1, <1>2, <1>3, <1>4, <1>5, <1>6, <1>7

\* A request is given up.
LEMMA GiveUpKeeps ==
    ASSUME BootInv, NEW h \in Handler, GiveUp(h)
    PROVE  BootInv'
<1> USE DEF BootInv
<1>1. TypeOK'
  BY BoundAssumption DEF GiveUp, Enter, TypeOK, Rows, NoAdmin, Stages, Hashes, db, process, history
<1>2. PasswordStays'
  BY NoHashAssumption DEF GiveUp, Enter, PasswordStays, TypeOK, Rows, Hashes, db, process, history
<1>3. MigrationLockHeld' /\ MigrationsInOrder' /\ VersionLockHeld' /\ TrackerTells' /\ OnePassword' /\ FirstsCounted' /\ FreshUnshown' /\ ShownOnce'
  BY DEF GiveUp, MigrationLockHeld, MigrationsInOrder, VersionLockHeld, TrackerTells, OnePassword, FirstsCounted, FreshUnshown, ShownOnce, db, process, history
<1>4. FirstLoginOnce'
  BY <1>1, <1>3, FirstsAtMost
<1> QED BY <1>1, <1>2, <1>3, <1>4

\* The operator clears the hash.
LEMMA ClearHashKeeps ==
    ASSUME BootInv, ClearHash
    PROVE  BootInv'
<1> USE DEF BootInv
<1>1. TypeOK'
  BY BoundAssumption DEF ClearHash, TypeOK, Rows, NoAdmin, Stages, Hashes, process, request
<1>2. VersionLockHeld'
  BY NobodyAssumption DEF ClearHash, VersionLockHeld, TypeOK, Rows, process
<1>3. TrackerTells'
  BY DEF ClearHash, TrackerTells, TypeOK, Rows
<1>4. PasswordStays'
  BY NoHashAssumption DEF ClearHash, PasswordStays, TypeOK, Rows, Hashes, process, request
<1>5. OnePassword'
  BY DEF ClearHash, OnePassword
<1>6. FirstsCounted'
  BY DEF ClearHash, FirstsCounted, TypeOK, Rows
<1>7. MigrationLockHeld' /\ MigrationsInOrder' /\ FreshUnshown' /\ ShownOnce'
  BY DEF ClearHash, MigrationLockHeld, MigrationsInOrder, FreshUnshown, ShownOnce, process
<1>8. FirstLoginOnce'
  BY <1>1, <1>6, FirstsAtMost
<1> QED BY <1>1, <1>2, <1>3, <1>4, <1>5, <1>6, <1>7, <1>8

-----------------------------------------------------------------------------
(* EnsureAdmin, by the branch it takes.                                    *)

\* What all three have in common.
LEMMA EnsureAdminMoves ==
    ASSUME BootInv, NEW r \in Replica, EnsureAdmin(r)
    PROVE  /\ pc[r] = "ensuring" /\ version = r
           /\ seen[r].tracker = admin.tracker /\ seen[r] \in Rows /\ admin \in Rows
           /\ fresh[r] = 0
           /\ \A q \in Replica \ {r} : pc[q] # "ensuring"
           /\ pc' = [pc EXCEPT ![r] = "ensured"]
           /\ MigrationLockHeld' /\ MigrationsInOrder' /\ VersionLockHeld' /\ ShownOnce'
<1> USE DEF BootInv
<1>1. /\ pc[r] = "ensuring" /\ version = r
      /\ seen[r].tracker = admin.tracker /\ seen[r] \in Rows /\ admin \in Rows
      /\ \A q \in Replica \ {r} : pc[q] # "ensuring"
      /\ pc' = [pc EXCEPT ![r] = "ensured"]
  BY DEF EnsureAdmin, Goto, VersionLockHeld, TypeOK
<1>2. fresh[r] = 0
  BY <1>1 DEF FreshUnshown
<1>3. MigrationLockHeld' /\ MigrationsInOrder'
  BY <1>1 DEF EnsureAdmin, MigrationLockHeld, MigrationsInOrder, TypeOK
<1>4. VersionLockHeld'
  <2>1. version' = Nobody
    BY <1>1 DEF EnsureAdmin, Released
  <2> QED BY <1>1, <2>1, NobodyAssumption DEF VersionLockHeld, TypeOK
<1>5. ShownOnce'
  <2>1. shown' = shown /\ drawn <= drawn'
    BY BoundAssumption DEF EnsureAdmin, Configured, Kept, Generated, TypeOK
  <2> QED BY <2>1, BoundAssumption DEF ShownOnce, EnsureAdmin, Configured, Kept, Generated, TypeOK
<1> QED BY <1>1, <1>2, <1>3, <1>4, <1>5

\* What EnsureAdmin leaves to show once its branch is known.
LEMMA EnsureAdminTyped ==
    ASSUME BootInv, NEW r \in Replica, EnsureAdmin(r),
           admin' \in Rows, sessions' \subseteq sessions,
           fresh' \in [Replica -> 0..MaxBoots], drawn' \in 0..MaxBoots
    PROVE  TypeOK'
<1>1. version' \in Replica \cup {Nobody} /\ pc' \in [Replica -> Stages]
  BY DEF BootInv, TypeOK, EnsureAdmin, Released, Goto, Stages
<1>2. env' \in [Replica -> EnvHash \cup {NoHash}] /\ lastEnv' \in EnvHash \cup {NoHash}
  BY DEF BootInv, TypeOK, EnsureAdmin
<1>3. seen' \in [Replica -> Rows]
  BY DEF BootInv, TypeOK, EnsureAdmin, NoAdmin, Rows
<1> QED BY <1>1, <1>2, <1>3 DEF BootInv, TypeOK, EnsureAdmin, request

\* The environment sets the password.
LEMMA ConfiguredKeeps ==
    ASSUME BootInv, NEW r \in Replica, EnsureAdmin(r), Configured(r)
    PROVE  BootInv'
<1> USE DEF BootInv
<1>a. env[r] \in EnvHash /\ env[r] # NoHash /\ drawn' = drawn /\ fresh' = fresh /\ lastEnv' = env[r]
  BY DEF Configured, EnsureAdmin, TypeOK
<1>b. \/ admin' = [hash |-> env[r], tracker |-> env[r], pending |-> FALSE]
      \/ admin' = admin /\ admin.tracker = env[r]
  BY EnsureAdminMoves DEF Configured, EnvChanged
<1>1. TypeOK'
  <2>1. admin' \in Rows /\ sessions' \subseteq sessions
    BY <1>a, <1>b DEF Configured, TypeOK, Rows, Hashes
  <2> QED BY <2>1, <1>a, EnsureAdminTyped DEF TypeOK
<1>2. TrackerTells'
  BY <1>a, <1>b DEF TrackerTells
<1>3. PasswordStays' /\ OnePassword'
  <2>1. admin'.hash = admin.hash \/ admin'.hash # NoHash
    BY <1>a, <1>b
  <2>2. cleared' = cleared /\ at' = at
    BY DEF EnsureAdmin, request
  <2>3. \A q \in Replica : pc'[q] # "ensuring"
    BY EnsureAdminMoves DEF TypeOK
  <2> QED BY <1>a, <2>1, <2>2, <2>3 DEF PasswordStays, OnePassword
<1>4. FirstsCounted'
  BY <1>a, <1>b, BoundAssumption DEF FirstsCounted, EnsureAdmin, TypeOK, Rows
<1>5. FreshUnshown'
  BY <1>a, EnsureAdminMoves DEF FreshUnshown, EnsureAdmin, TypeOK
<1> QED BY <1>1, <1>2, <1>3, <1>4, <1>5, EnsureAdminMoves, FirstsAtMost

\* A stored password is kept.
LEMMA KeptKeeps ==
    ASSUME BootInv, NEW r \in Replica, EnsureAdmin(r), Kept(r)
    PROVE  BootInv'
<1> USE DEF BootInv
<1>a. drawn' = drawn /\ fresh' = fresh /\ lastEnv' = NoHash
  BY DEF Kept, EnsureAdmin
<1>b. admin' = [admin EXCEPT !.tracker = NoHash] /\ admin \in Rows
  BY DEF Kept, TypeOK
<1>1. TypeOK'
  BY <1>a, <1>b, EnsureAdminTyped DEF Kept, TypeOK, Rows
<1>2. TrackerTells'
  BY <1>a DEF TrackerTells
<1>3. PasswordStays' /\ OnePassword'
  BY <1>a, <1>b, EnsureAdminMoves DEF PasswordStays, OnePassword, EnsureAdmin, TypeOK, Rows, request
<1>4. FirstsCounted'
  BY <1>a, <1>b DEF FirstsCounted, EnsureAdmin, Rows
<1>5. FreshUnshown'
  BY <1>a, EnsureAdminMoves DEF FreshUnshown, EnsureAdmin, TypeOK
<1> QED BY <1>1, <1>2, <1>3, <1>4, <1>5, EnsureAdminMoves, FirstsAtMost

\* There is none, and one is generated: the first, unless the operator cleared it.
LEMMA GeneratedKeeps ==
    ASSUME BootInv, NEW r \in Replica, EnsureAdmin(r), Generated(r)
    PROVE  BootInv'
<1> USE DEF BootInv
<1>a. /\ drawn' = drawn + 1 /\ drawn \in 0..MaxBoots /\ drawn' \in 1..MaxBoots
      /\ fresh' = [fresh EXCEPT ![r] = drawn'] /\ lastEnv' = NoHash
  BY BoundAssumption DEF Generated, EnsureAdmin, TypeOK
<1>b. admin' = [admin EXCEPT !.hash = drawn', !.pending = TRUE] /\ admin \in Rows
  BY DEF Generated, TypeOK
<1>c. admin'.hash \in 1..MaxBoots /\ admin'.hash # NoHash
  BY <1>a, <1>b, NoHashAssumption DEF Rows
<1>d. ~cleared => drawn = 0
  BY <1>a, EnsureAdminMoves DEF Generated, HavePassword, PasswordStays
<1>1. TypeOK'
  <2>1. admin' \in Rows
    BY <1>a, <1>b DEF Rows, Hashes
  <2>2. fresh' \in [Replica -> 0..MaxBoots]
    BY <1>a DEF TypeOK
  <2> QED BY <1>a, <2>1, <2>2, EnsureAdminTyped DEF Generated
<1>2. TrackerTells'
  BY <1>a DEF TrackerTells
<1>3. PasswordStays'
  BY <1>c, EnsureAdminMoves DEF PasswordStays, EnsureAdmin, TypeOK, request
<1>4. OnePassword'
  BY <1>a, <1>d DEF OnePassword, EnsureAdmin
<1>5. FirstsCounted'
  <2>1. admin'.pending = TRUE /\ firsts' = firsts /\ firsts \in Nat
    BY <1>b, BoundAssumption DEF EnsureAdmin, Rows, TypeOK
  <2>2. firsts <= drawn
    BY DEF FirstLoginOnce
  <2> QED BY <1>a, <2>1, <2>2 DEF FirstsCounted
<1>6. FreshUnshown'
  <2>1. shown' = shown /\ shown[drawn'] = 0
    <3>1. shown' = shown
      BY DEF EnsureAdmin
    <3>2. shown[drawn'] \in 0..MaxBoots
      BY <1>a DEF TypeOK
    <3>3. shown[drawn'] <= 1 /\ shown[drawn'] # 1
      BY <1>a DEF ShownOnce
    <3> QED BY <3>1, <3>2, <3>3, BoundAssumption
  <2>2. \A q \in Replica \ {r} : fresh'[q] = fresh[q] /\ pc'[q] = pc[q] /\ fresh[q] # drawn'
    <3> TAKE q \in Replica \ {r}
    <3>1. fresh'[q] = fresh[q] /\ pc'[q] = pc[q]
      BY <1>a, EnsureAdminMoves DEF TypeOK
    <3>2. fresh[q] \in 0..drawn
      BY <1>a, BoundAssumption DEF FreshUnshown, TypeOK
    <3> QED BY <1>a, <3>1, <3>2
  <2>3. fresh'[r] = drawn' /\ pc'[r] = "ensured"
    BY <1>a, EnsureAdminMoves DEF TypeOK
  <2> QED BY <1>a, <2>1, <2>2, <2>3 DEF FreshUnshown, TypeOK
<1> QED BY <1>1, <1>2, <1>3, <1>4, <1>5, <1>6, EnsureAdminMoves, FirstsAtMost

-----------------------------------------------------------------------------
(* The invariant, and what follows from it.                                *)

LEMMA Initially == Init => BootInv
<1> SUFFICES ASSUME Init PROVE BootInv
  OBVIOUS
<1>1. TypeOK
  <2>1. NoAdmin \in Rows /\ "down" \in Stages /\ 0 \in 0..MaxBoots /\ 0 \in 0..MaxLogins
    BY BoundAssumption DEF NoAdmin, Rows, Stages
  <2> QED BY <2>1 DEF Init, TypeOK
<1>2. MigrationLockHeld /\ MigrationsInOrder /\ VersionLockHeld
  BY NobodyAssumption DEF Init, MigrationLockHeld, MigrationsInOrder, VersionLockHeld
<1>3. TrackerTells /\ PasswordStays /\ OnePassword /\ FirstsCounted /\ FirstLoginOnce
  BY DEF Init, TrackerTells, PasswordStays, OnePassword, FirstsCounted, FirstLoginOnce, NoAdmin
<1>4. FreshUnshown /\ ShownOnce
  BY DEF Init, FreshUnshown, ShownOnce
<1> QED BY <1>1, <1>2, <1>3, <1>4 DEF BootInv

LEMMA StepsKeep == BootInv /\ [Next]_vars => BootInv'
<1> SUFFICES ASSUME BootInv, [Next]_vars PROVE BootInv'
  OBVIOUS
<1>1. ASSUME NEW r \in Replica, Boot(r) \/ LockMigrations(r) \/ ReadAdmin(r) \/ Down(r)
      PROVE  BootInv'
  BY <1>1, BootKeeps, LockMigrationsKeeps, ReadAdminKeeps, DownKeeps
<1>2. ASSUME NEW r \in Replica, Step(r)
      PROVE  BootInv'
  BY <1>2, ListMigrationsKeeps, MigrateKeeps, MigratedKeeps, AnnounceKeeps, ConfiguredKeeps,
     KeptKeeps, GeneratedKeeps DEF Step, EnsureAdmin
<1>3. ASSUME NEW h \in Handler, Request(h)
      PROVE  BootInv'
  BY <1>3, VerifyLoginKeeps, SignInKeeps, ConsumeFirstLoginKeeps, VerifyCurrentKeeps,
     SetOwnPasswordKeeps, GiveUpKeeps DEF Request
<1>4. CASE ClearHash
  BY <1>4, ClearHashKeeps
<1>5. CASE UNCHANGED vars
  BY <1>5 DEF vars, db, process, request, history, BootInv, TypeOK, MigrationLockHeld,
     MigrationsInOrder, VersionLockHeld, TrackerTells, PasswordStays, OnePassword,
     FirstsCounted, FirstLoginOnce, FreshUnshown, ShownOnce
<1> QED BY <1>1, <1>2, <1>3, <1>4, <1>5 DEF Next

\* Whatever is killed and whoever boots beside whom, the invariant of the boot
\* (Migrate and EnsureAdmin) holds.
THEOREM BootInvariant == Spec => []BootInv
BY Initially, StepsKeep, PTL DEF Spec

\* Every variable of the boot keeps its type.
THEOREM TypeCorrect == Spec => []TypeOK
<1>1. BootInv => TypeOK
  BY DEF BootInv
<1> QED BY <1>1, BootInvariant, PTL

\* No two replicas run the same migration, and none serves a schema that lacks one
\* (Migrate).
THEOREM MigrationsAlwaysInOrder == Spec => []MigrationsInOrder
<1>1. BootInv => MigrationsInOrder
  BY DEF BootInv
<1> QED BY <1>1, BootInvariant, PTL

\* EnsureAdmin generates one password, on any number of replicas and restarts,
\* as long as nobody clears the hash.
THEOREM OnePasswordGenerated == Spec => []OnePassword
<1>1. BootInv => OnePassword
  BY DEF BootInv
<1> QED BY <1>1, BootInvariant, PTL

\* printBootstrapCredential prints a generated password at most once, and after
\* the commit.
THEOREM NeverReprinted == Spec => []ShownOnce
<1>1. BootInv => ShownOnce
  BY DEF BootInv
<1> QED BY <1>1, BootInvariant, PTL

\* ConsumeBootstrapFirstLogin records no more first logins than passwords were
\* generated.
THEOREM FirstLoginRecordedOnce == Spec => []FirstLoginOnce
<1>1. BootInv => FirstLoginOnce
  BY DEF BootInv
<1> QED BY <1>1, BootInvariant, PTL

\* EnsureAdmin is the only step that takes a process from "ensuring" to "ensured".
LEMMA OnlyEnsureAdmin ==
    ASSUME BootInv, Next, NEW r \in Replica, EnsuresAdmin(r)
    PROVE  EnsureAdmin(r)
<1>1. pc \in [Replica -> Stages] /\ pc[r] = "ensuring" /\ pc'[r] = "ensured"
  BY DEF BootInv, TypeOK, EnsuresAdmin
<1>2. ~ClearHash /\ \A h \in Handler : ~Request(h)
  BY <1>1 DEF ClearHash, Request, VerifyLogin, SignIn, ConsumeFirstLogin, VerifyCurrent,
     SetOwnPassword, GiveUp, process
<1>3. ASSUME NEW q \in Replica
      PROVE  ~(Boot(q) \/ LockMigrations(q) \/ ReadAdmin(q) \/ Down(q))
  BY <1>1 DEF Boot, LockMigrations, ReadAdmin, Down, Forget, Goto
<1>4. ASSUME NEW q \in Replica, Step(q)
      PROVE  EnsureAdmin(r)
  BY <1>1, <1>4 DEF Step, ListMigrations, Migrate, Migrated, Announce, EnsureAdmin, Goto
<1> QED BY <1>2, <1>3, <1>4 DEF Next

\* A boot in an unchanged environment leaves the password alone, whoever chose it
\* (EnsureAdmin, envChanged against the tracker).
THEOREM ChosenPasswordSurvives == Spec => ChosenSurvives
<1>1. BootInv /\ [Next]_vars => [KeepsWhatItFound]_vars
  <2> SUFFICES ASSUME BootInv, Next, NEW r \in Replica, EnsuresAdmin(r),
                      env[r] = lastEnv, seen[r].hash # NoHash
               PROVE  admin'.hash = admin.hash
    BY DEF KeepsWhatItFound
  <2>1. EnsureAdmin(r)
    BY OnlyEnsureAdmin
  <2>2. CASE Configured(r)
    <3>1. ~EnvChanged(r)
      BY <2>1, <2>2, EnsureAdminMoves DEF Configured, EnvChanged, BootInv, TrackerTells
    <3> QED BY <2>2, <3>1 DEF Configured
  <2>3. CASE Kept(r)
    BY <2>1, <2>3, EnsureAdminMoves DEF Kept, Rows
  <2>4. CASE Generated(r)
    BY <2>4 DEF Generated, HavePassword
  <2> QED BY <2>1, <2>2, <2>3, <2>4 DEF EnsureAdmin
<1> QED BY <1>1, BootInvariant, PTL DEF Spec, ChosenSurvives
=============================================================================
