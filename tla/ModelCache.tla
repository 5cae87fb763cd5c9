----------------------------- MODULE ModelCache -----------------------------
(***************************************************************************)
(* internal/model.Cache: one replica's cache of the compiled access model, *)
(* as the goroutines that serve its requests execute it.  A query calls    *)
(* Get; a handler that has just committed a change to the model calls      *)
(* Refresh.  Two locks are involved: mu guards the pair (cur, loadedAt)    *)
(* for the length of one assignment, so each critical section under it is  *)
(* one action here; reload is held across a whole database read and is the *)
(* variable of that name.                                                  *)
(*                                                                         *)
(* The pair (cur, loadedAt) is the record [version, at]: a compiled model  *)
(* is abstracted to the version it was compiled from.  version and         *)
(* retiredAt stand for Postgres.  known, floor and answer record what each *)
(* call was promised and told; they are read by no guard.                  *)
(***************************************************************************)
EXTENDS Naturals

CONSTANTS Proc, TTL, MaxVersion, MaxTime, Pending, Denied,
          NoSnapshot,   \* cur == nil
          Unlocked      \* reload when nobody holds it

\* readServeConfig refuses a TTL that is not positive.
ASSUME TTLAssumption == TTL \in Nat \ {0}
ASSUME BoundAssumption == MaxVersion \in Nat /\ MaxTime \in Nat
ASSUME AnswerAssumption ==
    Pending \notin 0..MaxVersion /\ Denied \notin 0..MaxVersion /\ Pending # Denied
ASSUME NoSnapshotAssumption == NoSnapshot \notin [version : 0..MaxVersion, at : 0..MaxTime]
ASSUME UnlockedAssumption == Unlocked \notin Proc

VARIABLES clock, version, retiredAt, known, floor, answer,
          cur,      \* the cached snapshot and when its load began
          reload,   \* the goroutine that holds the reload mutex
          pc,       \* where each goroutine is
          seen,     \* the pair a Get copied out under the read lock
          started,  \* when a refresh in progress began
          next      \* the version a refresh in progress has read

cacheVars == <<cur, reload, pc, seen, started, next>>
postgres == <<version, retiredAt>>
history == <<known, floor, answer>>
vars == <<clock, version, retiredAt, known, floor, answer,
          cur, reload, pc, seen, started, next>>

Lease == INSTANCE PolicyLease

Snapshots == [version : 0..MaxVersion, at : 0..MaxTime]

Locations == {"idle",      \* outside the cache
              "peeked",    \* Get: has copied (cur, loadedAt), not yet compared
              "waiting",   \* Get: found nothing usable, wants reload
              "written",   \* a committed write, Refresh wants reload
              "loading",   \* refreshLocked: before the model is read
              "loaded"}    \* refreshLocked: the model is read and compiled

TypeOK ==
    /\ clock \in 0..MaxTime
    /\ version \in 0..MaxVersion
    /\ retiredAt \in [0..MaxVersion -> 0..MaxTime]
    /\ known \in 0..MaxVersion
    /\ floor \in [Proc -> 0..MaxVersion]
    /\ answer \in [Proc -> (0..MaxVersion) \cup {Pending, Denied}]
    /\ cur \in Snapshots \cup {NoSnapshot}
    /\ reload \in Proc \cup {Unlocked}
    /\ pc \in [Proc -> Locations]
    /\ seen \in [Proc -> Snapshots \cup {NoSnapshot}]
    /\ started \in [Proc -> 0..MaxTime]
    /\ next \in [Proc -> 0..MaxVersion]

Init ==
    /\ Lease!LeaseInit
    /\ cur = NoSnapshot
    /\ reload = Unlocked
    /\ pc = [p \in Proc |-> "idle"]
    /\ seen = [p \in Proc |-> NoSnapshot]
    /\ started = [p \in Proc |-> 0]
    /\ next = [p \in Proc |-> 0]

-----------------------------------------------------------------------------
(* The world outside the cache.                                            *)

Tick == Lease!Tick /\ UNCHANGED cacheVars

\* A write by another replica, or by a handler here whose commit returned an
\* error although Postgres had committed it: nobody calls Refresh.
WriteElsewhere == Lease!WriteElsewhere /\ UNCHANGED cacheVars

-----------------------------------------------------------------------------
(* Get.                                                                    *)

\* cur != nil && now - at < ttl
Fresh(s) == s # NoSnapshot /\ clock - s.at < TTL

\* The call ends with answer a and its locals are gone.
Return(p, a) ==
    /\ pc' = [pc EXCEPT ![p] = "idle"]
    /\ seen' = [seen EXCEPT ![p] = NoSnapshot]
    /\ started' = [started EXCEPT ![p] = 0]
    /\ next' = [next EXCEPT ![p] = 0]
    /\ answer' = [answer EXCEPT ![p] = a]
    /\ known' = Lease!Newer(known, IF a = Denied THEN floor[p] ELSE a)
    /\ floor' = [floor EXCEPT ![p] = 0]
    /\ UNCHANGED <<clock, version, retiredAt>>

\* The pair is copied under the read lock ...
GetPeek(p) ==
    /\ pc[p] = "idle"
    /\ pc' = [pc EXCEPT ![p] = "peeked"]
    /\ seen' = [seen EXCEPT ![p] = cur]
    /\ Lease!Ask(p)
    /\ UNCHANGED <<cur, reload, started, next>>

\* ... and compared with the clock after it is released.
GetHit(p) ==
    /\ pc[p] = "peeked"
    /\ Fresh(seen[p])
    /\ Return(p, seen[p].version)
    /\ UNCHANGED <<cur, reload>>

GetStale(p) ==
    /\ pc[p] = "peeked"
    /\ ~Fresh(seen[p])
    /\ pc' = [pc EXCEPT ![p] = "waiting"]
    /\ seen' = [seen EXCEPT ![p] = NoSnapshot]
    /\ UNCHANGED <<clock, postgres, history, cur, reload, started, next>>

BeginLoad(p) ==
    /\ reload' = p
    /\ pc' = [pc EXCEPT ![p] = "loading"]
    /\ started' = [started EXCEPT ![p] = clock]
    /\ UNCHANGED <<clock, postgres, history, seen, next>>

\* Another goroutine may have refreshed while this one waited: the pair is
\* read again under reload.  Only the holder of reload assigns cur, so taking
\* the lock, reading and comparing are one step.
GetRecheckHit(p) ==
    /\ pc[p] = "waiting"
    /\ reload = Unlocked
    /\ Fresh(cur)
    /\ Return(p, cur.version)
    /\ UNCHANGED <<cur, reload>>

\* Fault: a Get that has waited for the mutex always loads.
GetWithoutRecheck(p) ==
    /\ pc[p] = "waiting"
    /\ reload = Unlocked
    /\ BeginLoad(p)
    /\ UNCHANGED cur

GetRecheckMiss(p) ==
    /\ pc[p] = "waiting"
    /\ reload = Unlocked
    /\ ~Fresh(cur)
    /\ BeginLoad(p)
    /\ UNCHANGED cur

-----------------------------------------------------------------------------
(* Refresh, after a committed change.                                      *)

\* The handler's persist() returns: the change is committed.
Write(p) ==
    /\ pc[p] = "idle"
    /\ pc' = [pc EXCEPT ![p] = "written"]
    /\ Lease!Write(p)
    /\ UNCHANGED <<cur, reload, seen, started, next>>

\* Fault: the snapshot is kept until the reload succeeds.
RefreshWithoutDiscard(p) ==
    /\ pc[p] = "written"
    /\ reload = Unlocked
    /\ BeginLoad(p)
    /\ UNCHANGED cur

\* The previous grant is discarded even if the reload then fails.
Refresh(p) ==
    /\ pc[p] = "written"
    /\ reload = Unlocked
    /\ cur' = NoSnapshot
    /\ BeginLoad(p)

-----------------------------------------------------------------------------
(* refreshLocked, with reload held.                                        *)

\* LoadModel reads one repeatable-read snapshot: the version current then.
LoadModel(p) ==
    /\ pc[p] = "loading"
    /\ next' = [next EXCEPT ![p] = version]
    /\ pc' = [pc EXCEPT ![p] = "loaded"]
    /\ UNCHANGED <<clock, postgres, history, cur, reload, seen, started>>

\* Fault: the early return forgets to unlock.
LoadFailsHoldingReload(p) ==
    /\ pc[p] \in {"loading", "loaded"}
    /\ Return(p, Denied)
    /\ UNCHANGED <<cur, reload>>

\* The database read, or the compilation of what it read, fails.
LoadFails(p) ==
    /\ pc[p] \in {"loading", "loaded"}
    /\ reload' = Unlocked
    /\ Return(p, Denied)
    /\ UNCHANGED cur

\* Fault: when the lease ends is stored for when it began.
InstallWithExpiry(p) ==
    /\ pc[p] = "loaded"
    /\ clock - started[p] < TTL
    /\ cur' = [version |-> next[p], at |-> started[p] + TTL]
    /\ reload' = Unlocked
    /\ Return(p, next[p])

\* Fault: a load slower than the TTL is installed all the same.
InstallUnchecked(p) ==
    /\ pc[p] = "loaded"
    /\ cur' = [version |-> next[p], at |-> started[p]]
    /\ reload' = Unlocked
    /\ Return(p, next[p])

\* A load slower than the TTL must not renew an old snapshot's lifetime.
Install(p) ==
    /\ pc[p] = "loaded"
    /\ clock - started[p] < TTL
    /\ cur' = [version |-> next[p], at |-> started[p]]
    /\ reload' = Unlocked
    /\ Return(p, next[p])

LoadTooSlow(p) ==
    /\ pc[p] = "loaded"
    /\ clock - started[p] >= TTL
    /\ reload' = Unlocked
    /\ Return(p, Denied)
    /\ UNCHANGED cur

-----------------------------------------------------------------------------

Get(p) == GetPeek(p) \/ GetHit(p) \/ GetStale(p) \/ GetRecheckHit(p) \/ GetRecheckMiss(p)
RefreshLocked(p) == LoadModel(p) \/ LoadFails(p) \/ Install(p) \/ LoadTooSlow(p)

Next ==
    \/ Tick
    \/ WriteElsewhere
    \/ \E p \in Proc : Get(p) \/ Write(p) \/ Refresh(p) \/ RefreshLocked(p)

\* A call, once begun, keeps running, and a database read ends one way or the
\* other.  Nothing forces a request to arrive, a write to happen or the clock
\* to advance.  sync.Mutex hands the lock to a waiter that has waited 1ms, so
\* a goroutine that wants reload gets it: strong fairness of what takes it.
Fairness ==
    \A p \in Proc :
        /\ WF_vars(GetHit(p) \/ GetStale(p))
        /\ SF_vars(GetRecheckHit(p) \/ GetRecheckMiss(p) \/ Refresh(p))
        /\ WF_vars(RefreshLocked(p))

Spec == Init /\ [][Next]_vars
FairSpec == Spec /\ Fairness

-----------------------------------------------------------------------------
(* Properties.                                                             *)

\* The cache keeps PolicyLease's promises (model.go's doc comments of Get and
\* Refresh): no answer outlives the TTL, counted from before its load began,
\* and none is older than what the replica had vouched for.
ImplementsLease == Lease!LeaseSpec

\* A snapshot in the cache is at least as new as anything the replica has
\* vouched for, so a writer's own next request cannot be served what it has
\* just replaced, also when the reload that followed its write failed.
CacheNotBehind == cur # NoSnapshot => cur.version >= known

\* A Get that begins a database read has nothing usable in the cache and no
\* other read under way.
LoadsAlone ==
    \A p \in Proc :
        pc[p] = "waiting" /\ pc'[p] = "loading" =>
            /\ ~Fresh(cur)
            /\ \A q \in Proc : pc[q] \notin {"loading", "loaded"}
\* A burst of requests on a cold or stale cache produces one database read:
\* a Get begins one only while no snapshot in the cache is usable and nobody
\* else is reading.
OneLoadPerBurst == [][LoadsAlone]_vars

\* Every call on the cache returns, whoever else holds or wants its locks.
CallsReturn == \A p \in Proc : answer[p] = Pending ~> answer[p] # Pending

-----------------------------------------------------------------------------
(* The inductive invariant behind the first three properties.              *)

\* reload is held exactly by the goroutine inside refreshLocked.
LockHeld ==
    \A p \in Proc : pc[p] \in {"loading", "loaded"} <=> reload = p

CallsInProgress == \A p \in Proc : pc[p] = "idle" <=> answer[p] # Pending

\* Version v was the current one at time t or later.
CurrentSince(v, t) ==
    /\ v <= version
    /\ t <= clock
    /\ v = version \/ retiredAt[v] >= t

\* The cached pair, and every copy of it, is a version with a time at which
\* that version had not been superseded; copies are never ahead of the cache.
SnapshotsHonest ==
    /\ cur # NoSnapshot => CurrentSince(cur.version, cur.at)
    /\ \A p \in Proc : seen[p] # NoSnapshot =>
          /\ CurrentSince(seen[p].version, seen[p].at)
          /\ floor[p] <= seen[p].version
          /\ cur # NoSnapshot => seen[p].version <= cur.version

\* What a load in progress holds is ahead of the cache and of every copy.
LoadAhead ==
    \A p \in Proc :
        /\ started[p] <= clock
        /\ pc[p] = "loaded" =>
              /\ CurrentSince(next[p], started[p])
              /\ known <= next[p]
              /\ floor[p] <= next[p]
              /\ cur # NoSnapshot => cur.version <= next[p]
              /\ \A q \in Proc : seen[q] # NoSnapshot => seen[q].version <= next[p]

\* A Get asks for no more than the replica has vouched for; a writer, which
\* may ask for more, discards the cache before it loads.
FloorsMet ==
    /\ known <= version
    /\ \A p \in Proc :
          /\ floor[p] <= version
          /\ pc[p] \in {"peeked", "waiting"} => floor[p] <= known
          /\ pc[p] \in {"loading", "loaded"} => floor[p] <= known \/ cur = NoSnapshot
          /\ seen[p] # NoSnapshot => pc[p] = "peeked"

LeaseInv ==
    /\ TypeOK
    /\ LockHeld
    /\ CallsInProgress
    /\ SnapshotsHonest
    /\ LoadAhead
    /\ FloorsMet
    /\ CacheNotBehind
=============================================================================
