------------------------- MODULE ModelCache_proofs -------------------------
(***************************************************************************)
(* Proofs about ModelCache, for any number of goroutines and any bounds.   *)
(*                                                                         *)
(* LeaseInv is inductive: one lemma per action shows that it keeps each    *)
(* conjunct.  From it follow that the cache never falls behind what the    *)
(* replica has vouched for, that one read serves a burst, and that every   *)
(* step of the cache is a step PolicyLease allows.                         *)
(***************************************************************************)
EXTENDS ModelCache, TLAPS

-----------------------------------------------------------------------------
(* Facts about the helpers.                                                *)

\* A write leaves true what was recorded about when a version was current: it
\* retires the current version now, at a time no snapshot is younger than.
LEMMA RetireKeepsCurrentSince ==
    ASSUME TypeOK, Lease!Retire, UNCHANGED clock,
           NEW v \in 0..MaxVersion, NEW t \in 0..MaxTime, CurrentSince(v, t)
    PROVE  CurrentSince(v, t)'
  BY BoundAssumption DEF TypeOK, Lease!Retire, CurrentSince

LEMMA RetireTyped ==
    ASSUME TypeOK, Lease!Retire
    PROVE  /\ version' = version + 1
           /\ version' \in 0..MaxVersion
           /\ retiredAt' \in [0..MaxVersion -> 0..MaxTime]
  BY BoundAssumption DEF TypeOK, Lease!Retire

\* The fields of a snapshot are a version and a time.
LEMMA SnapshotsTyped ==
    ASSUME TypeOK
    PROVE  /\ cur # NoSnapshot => cur.version \in 0..MaxVersion /\ cur.at \in 0..MaxTime
           /\ \A p \in Proc : seen[p] # NoSnapshot =>
                 seen[p].version \in 0..MaxVersion /\ seen[p].at \in 0..MaxTime
  BY DEF TypeOK, Snapshots

\* What is left of call p once it has returned a, the replica now vouching for v.
Returned(p, a, v) ==
    /\ known' \in 0..MaxVersion
    /\ known' >= known /\ known' >= v /\ known' \in {known, v}
    /\ a # Pending
    /\ answer' = [answer EXCEPT ![p] = a]
    /\ floor' = [floor EXCEPT ![p] = 0]
    /\ pc' = [pc EXCEPT ![p] = "idle"]
    /\ seen' = [seen EXCEPT ![p] = NoSnapshot]
    /\ started' = [started EXCEPT ![p] = 0]
    /\ next' = [next EXCEPT ![p] = 0]
    /\ clock' = clock /\ version' = version /\ retiredAt' = retiredAt

LEMMA ReturnOfVersion ==
    ASSUME TypeOK, NEW p \in Proc, NEW v \in 0..MaxVersion, Return(p, v)
    PROVE  Returned(p, v, v)
<1>1. known' = Lease!Newer(known, v)
  BY AnswerAssumption DEF Return
<1> QED
  BY <1>1, BoundAssumption, AnswerAssumption DEF TypeOK, Return, Returned, Lease!Newer

LEMMA ReturnOfRefusal ==
    ASSUME TypeOK, NEW p \in Proc, Return(p, Denied)
    PROVE  Returned(p, Denied, floor[p])
<1>1. known' = Lease!Newer(known, floor[p])
  BY DEF Return
<1> QED
  BY <1>1, BoundAssumption, AnswerAssumption DEF TypeOK, Return, Returned, Lease!Newer

-----------------------------------------------------------------------------
(* The inductive invariant.                                                *)

LEMMA InitLeaseInv == Init => LeaseInv
  BY TTLAssumption, BoundAssumption, AnswerAssumption, UnlockedAssumption
  DEF Init, Lease!LeaseInit, Lease!Versions, LeaseInv, TypeOK, Locations, Snapshots,
      LockHeld, CallsInProgress, SnapshotsHonest, LoadAhead, FloorsMet, CacheNotBehind

LEMMA TickKeepsLeaseInv ==
    ASSUME LeaseInv, Tick
    PROVE  LeaseInv'
<1> USE BoundAssumption
    DEF LeaseInv, TypeOK, Tick, Lease!Tick, cacheVars
<1>y. /\ cur # NoSnapshot => cur.version \in 0..MaxVersion /\ cur.at \in 0..MaxTime
      /\ \A q \in Proc : seen[q] # NoSnapshot =>
            seen[q].version \in 0..MaxVersion /\ seen[q].at \in 0..MaxTime
  BY SnapshotsTyped
<1>1. TypeOK'
  BY DEF Locations
<1>2. LockHeld'
  BY UnlockedAssumption DEF LockHeld
<1>3. CallsInProgress'
  BY DEF CallsInProgress
<1>c. \A v \in 0..MaxVersion, t \in 0..MaxTime : CurrentSince(v, t) => CurrentSince(v, t)'
  BY DEF CurrentSince
<1>4. SnapshotsHonest'
  <2>1. /\ cur' = cur /\ seen' = seen /\ floor' = floor
        /\ SnapshotsHonest
    OBVIOUS
  <2> QED
    BY ONLY <2>1, <1>y, <1>c DEF SnapshotsHonest
<1>5. LoadAhead'
  BY <1>y DEF SnapshotsHonest, LoadAhead, CurrentSince, LockHeld
<1>6. FloorsMet'
  BY DEF FloorsMet
<1>7. CacheNotBehind'
  BY DEF CacheNotBehind
<1> QED
  BY <1>1, <1>2, <1>3, <1>4, <1>5, <1>6, <1>7

LEMMA WriteElsewhereKeepsLeaseInv ==
    ASSUME LeaseInv, WriteElsewhere
    PROVE  LeaseInv'
<1>c. \A v \in 0..MaxVersion, t \in 0..MaxTime : CurrentSince(v, t) => CurrentSince(v, t)'
  BY RetireKeepsCurrentSince DEF LeaseInv, WriteElsewhere, Lease!WriteElsewhere
<1>t. /\ version' = version + 1 /\ version' \in 0..MaxVersion
      /\ retiredAt' \in [0..MaxVersion -> 0..MaxTime]
  BY RetireTyped DEF LeaseInv, WriteElsewhere, Lease!WriteElsewhere
<1> USE <1>t, BoundAssumption
    DEF LeaseInv, TypeOK, WriteElsewhere, Lease!WriteElsewhere, cacheVars
<1>y. /\ cur # NoSnapshot => cur.version \in 0..MaxVersion /\ cur.at \in 0..MaxTime
      /\ \A q \in Proc : seen[q] # NoSnapshot =>
            seen[q].version \in 0..MaxVersion /\ seen[q].at \in 0..MaxTime
  BY SnapshotsTyped
<1>1. TypeOK'
  BY DEF Locations
<1>2. LockHeld'
  BY UnlockedAssumption DEF LockHeld
<1>3. CallsInProgress'
  BY DEF CallsInProgress
<1>4. SnapshotsHonest'
  BY <1>c, <1>y DEF SnapshotsHonest, FloorsMet
<1>5. LoadAhead'
  BY <1>c, <1>y DEF SnapshotsHonest, LoadAhead, LockHeld, CurrentSince
<1>6. FloorsMet'
  BY DEF FloorsMet
<1>7. CacheNotBehind'
  BY DEF CacheNotBehind
<1> QED
  BY <1>1, <1>2, <1>3, <1>4, <1>5, <1>6, <1>7

LEMMA GetPeekKeepsLeaseInv ==
    ASSUME LeaseInv, NEW p \in Proc, GetPeek(p)
    PROVE  LeaseInv'
<1> USE BoundAssumption
    DEF LeaseInv, TypeOK, GetPeek, Lease!Ask
<1>y. /\ cur # NoSnapshot => cur.version \in 0..MaxVersion /\ cur.at \in 0..MaxTime
      /\ \A q \in Proc : seen[q] # NoSnapshot =>
            seen[q].version \in 0..MaxVersion /\ seen[q].at \in 0..MaxTime
  BY SnapshotsTyped
<1>1. TypeOK'
  BY DEF Locations
<1>2. LockHeld'
  BY UnlockedAssumption DEF LockHeld, Locations
<1>3. CallsInProgress'
  BY DEF CallsInProgress
<1>4. SnapshotsHonest'
  <2>1. cur' # NoSnapshot => CurrentSince(cur.version, cur.at)'
    BY DEF SnapshotsHonest, CurrentSince
  <2>2. ASSUME NEW q \in Proc, seen'[q] # NoSnapshot
        PROVE  /\ CurrentSince(seen[q].version, seen[q].at)'
               /\ floor'[q] <= seen'[q].version
               /\ cur' # NoSnapshot => seen'[q].version <= cur'.version
    <3>1. CASE q = p
      BY <1>y, <2>2, <3>1 DEF SnapshotsHonest, CurrentSince, CacheNotBehind
    <3>2. CASE q # p
      BY <2>2, <3>2 DEF SnapshotsHonest, CurrentSince
    <3> QED
      BY <3>1, <3>2
  <2> QED
    BY <2>1, <2>2 DEF SnapshotsHonest
<1>5. LoadAhead'
  BY <1>y DEF SnapshotsHonest, LoadAhead, CurrentSince, LockHeld, CacheNotBehind
<1>6. FloorsMet'
  BY DEF FloorsMet
<1>7. CacheNotBehind'
  BY DEF CacheNotBehind
<1> QED
  BY <1>1, <1>2, <1>3, <1>4, <1>5, <1>6, <1>7

\* Of a call that has returned nothing is left, and other calls are untouched.
LEMMA ReturnedCalls ==
    ASSUME TypeOK, NEW p \in Proc, NEW a, NEW v, Returned(p, a, v)
    PROVE  /\ pc'[p] = "idle" /\ seen'[p] = NoSnapshot /\ answer'[p] = a
           /\ started'[p] = 0 /\ next'[p] = 0 /\ floor'[p] = 0
           /\ \A q \in Proc \ {p} :
                 /\ pc'[q] = pc[q] /\ seen'[q] = seen[q] /\ answer'[q] = answer[q]
                 /\ started'[q] = started[q] /\ next'[q] = next[q] /\ floor'[q] = floor[q]
  BY DEF TypeOK, Returned

LEMMA ReturnedTyped ==
    ASSUME TypeOK, NEW p \in Proc, NEW a \in (0..MaxVersion) \cup {Denied}, NEW v,
           Returned(p, a, v)
    PROVE  /\ clock' \in 0..MaxTime /\ version' \in 0..MaxVersion
           /\ retiredAt' \in [0..MaxVersion -> 0..MaxTime]
           /\ known' \in 0..MaxVersion
           /\ floor' \in [Proc -> 0..MaxVersion]
           /\ answer' \in [Proc -> (0..MaxVersion) \cup {Pending, Denied}]
           /\ pc' \in [Proc -> Locations]
           /\ seen' \in [Proc -> Snapshots \cup {NoSnapshot}]
           /\ started' \in [Proc -> 0..MaxTime]
           /\ next' \in [Proc -> 0..MaxVersion]
<1> USE BoundAssumption DEF TypeOK, Returned
<1>1. 0 \in 0..MaxVersion /\ 0 \in 0..MaxTime
  OBVIOUS
<1>2. floor' \in [Proc -> 0..MaxVersion]
  BY <1>1
<1>3. answer' \in [Proc -> (0..MaxVersion) \cup {Pending, Denied}]
  OBVIOUS
<1>4. pc' \in [Proc -> Locations]
  BY DEF Locations
<1>5. seen' \in [Proc -> Snapshots \cup {NoSnapshot}]
  OBVIOUS
<1>6. started' \in [Proc -> 0..MaxTime]
  BY <1>1
<1>7. next' \in [Proc -> 0..MaxVersion]
  BY <1>1
<1> QED
  BY <1>2, <1>3, <1>4, <1>5, <1>6, <1>7

\* A call may return, giving up reload if it holds it, once the replica can
\* vouch for v: nothing in the cache or about to enter it is older.
LEMMA ReturnKeepsLeaseInv ==
    ASSUME LeaseInv, NEW p \in Proc,
           NEW a \in (0..MaxVersion) \cup {Denied}, NEW v \in 0..MaxVersion,
           Returned(p, a, v),
           cur' = cur,
           reload' = IF reload = p THEN Unlocked ELSE reload,
           v <= version,
           cur # NoSnapshot => v <= cur.version,
           \A q \in Proc \ {p} : pc[q] = "loaded" => v <= next[q]
    PROVE  LeaseInv'
<1>p. /\ pc'[p] = "idle" /\ seen'[p] = NoSnapshot /\ answer'[p] = a
      /\ started'[p] = 0 /\ next'[p] = 0 /\ floor'[p] = 0
      /\ \A q \in Proc \ {p} :
            /\ pc'[q] = pc[q] /\ seen'[q] = seen[q] /\ answer'[q] = answer[q]
            /\ started'[q] = started[q] /\ next'[q] = next[q] /\ floor'[q] = floor[q]
  BY ReturnedCalls DEF LeaseInv
<1>k. /\ known \in 0..MaxVersion /\ known' \in {known, v} /\ known <= known' /\ a # Pending
      /\ clock' = clock /\ version' = version /\ retiredAt' = retiredAt
  BY DEF LeaseInv, TypeOK, Returned
<1>y. /\ clock \in 0..MaxTime /\ version \in 0..MaxVersion
      /\ cur # NoSnapshot => cur.version \in 0..MaxVersion /\ cur.at \in 0..MaxTime
      /\ \A q \in Proc : seen[q] # NoSnapshot =>
            seen[q].version \in 0..MaxVersion /\ seen[q].at \in 0..MaxTime
  BY SnapshotsTyped DEF LeaseInv, TypeOK
<1>z. \A q \in Proc : started[q] \in Nat /\ next[q] \in Nat /\ floor[q] \in Nat
  BY BoundAssumption DEF LeaseInv, TypeOK
<1>1. TypeOK'
  BY ReturnedTyped DEF LeaseInv, TypeOK
<1>2. LockHeld'
  BY <1>p, UnlockedAssumption DEF LeaseInv, LockHeld
<1>3. CallsInProgress'
  BY <1>p, <1>k DEF LeaseInv, CallsInProgress
<1>4. SnapshotsHonest'
  BY <1>p, <1>k DEF LeaseInv, SnapshotsHonest, CurrentSince
<1>5. LoadAhead'
  <2> SUFFICES ASSUME NEW q \in Proc
               PROVE  /\ started'[q] <= clock'
                      /\ pc'[q] = "loaded" =>
                            /\ CurrentSince(next[q], started[q])'
                            /\ known' <= next'[q]
                            /\ floor'[q] <= next'[q]
                            /\ cur' # NoSnapshot => cur'.version <= next'[q]
                            /\ \A o \in Proc : seen'[o] # NoSnapshot => seen'[o].version <= next'[q]
    BY DEF LoadAhead
  <2>1. CASE q = p
    BY <2>1, <1>p, <1>k, <1>y, BoundAssumption
  <2>2. CASE q # p
    BY <2>2, <1>p, <1>k DEF LeaseInv, LoadAhead, CurrentSince
  <2> QED
    BY <2>1, <2>2
<1>6. FloorsMet'
  <2>1. known' <= version'
    BY <1>k DEF LeaseInv, FloorsMet
  <2> SUFFICES ASSUME NEW q \in Proc
               PROVE  /\ floor'[q] <= version'
                      /\ pc'[q] \in {"peeked", "waiting"} => floor'[q] <= known'
                      /\ pc'[q] \in {"loading", "loaded"} => floor'[q] <= known' \/ cur' = NoSnapshot
                      /\ seen'[q] # NoSnapshot => pc'[q] = "peeked"
    BY <2>1 DEF FloorsMet
  <2>2. CASE q = p
    BY <2>2, <1>p, <1>k, <1>y, BoundAssumption
  <2>3. CASE q # p
    <3>1. /\ pc'[q] = pc[q] /\ seen'[q] = seen[q] /\ floor'[q] = floor[q]
          /\ floor[q] <= known => floor[q] <= known'
      BY <2>3, <1>p, <1>k, <1>z
    <3> QED
      BY <3>1, <1>k DEF LeaseInv, FloorsMet
  <2> QED
    BY <2>2, <2>3
<1>7. CacheNotBehind'
  BY <1>k DEF LeaseInv, CacheNotBehind
<1> QED
  BY <1>1, <1>2, <1>3, <1>4, <1>5, <1>6, <1>7 DEF LeaseInv

LEMMA GetHitKeepsLeaseInv ==
    ASSUME LeaseInv, NEW p \in Proc, GetHit(p)
    PROVE  LeaseInv'
<1>1. PICK v \in 0..MaxVersion : v = seen[p].version /\ Return(p, v) /\ seen[p] # NoSnapshot
  BY SnapshotsTyped DEF GetHit, Fresh, LeaseInv
<1>2. Returned(p, v, v)
  BY <1>1, ReturnOfVersion DEF LeaseInv
<1>3. /\ v <= version
      /\ cur # NoSnapshot => v <= cur.version
      /\ \A q \in Proc : pc[q] = "loaded" => v <= next[q]
  BY <1>1 DEF LeaseInv, SnapshotsHonest, CurrentSince, LoadAhead
<1>4. cur' = cur /\ reload' = reload /\ reload # p
  BY DEF GetHit, LeaseInv, LockHeld
<1> QED
  BY <1>2, <1>3, <1>4, ReturnKeepsLeaseInv

LEMMA GetStaleKeepsLeaseInv ==
    ASSUME LeaseInv, NEW p \in Proc, GetStale(p)
    PROVE  LeaseInv'
<1> USE BoundAssumption
    DEF LeaseInv, TypeOK, GetStale, Fresh, history, postgres
<1>y. /\ cur # NoSnapshot => cur.version \in 0..MaxVersion /\ cur.at \in 0..MaxTime
      /\ \A q \in Proc : seen[q] # NoSnapshot =>
            seen[q].version \in 0..MaxVersion /\ seen[q].at \in 0..MaxTime
  BY SnapshotsTyped
<1>1. TypeOK'
  BY DEF Locations
<1>2. LockHeld'
  BY UnlockedAssumption DEF LockHeld
<1>3. CallsInProgress'
  BY DEF CallsInProgress
<1>4. SnapshotsHonest'
  BY <1>y DEF SnapshotsHonest, CurrentSince
<1>5. LoadAhead'
  BY DEF SnapshotsHonest, LoadAhead, CurrentSince, LockHeld
<1>6. FloorsMet'
  BY DEF FloorsMet, SnapshotsHonest
<1>7. CacheNotBehind'
  BY DEF CacheNotBehind
<1> QED
  BY <1>1, <1>2, <1>3, <1>4, <1>5, <1>6, <1>7

LEMMA GetRecheckHitKeepsLeaseInv ==
    ASSUME LeaseInv, NEW p \in Proc, GetRecheckHit(p)
    PROVE  LeaseInv'
<1>1. PICK v \in 0..MaxVersion : v = cur.version /\ Return(p, v) /\ cur # NoSnapshot
  BY SnapshotsTyped DEF GetRecheckHit, Fresh, LeaseInv
<1>2. Returned(p, v, v)
  BY <1>1, ReturnOfVersion DEF LeaseInv
<1>3. /\ v <= version
      /\ cur # NoSnapshot => v <= cur.version
      /\ \A q \in Proc : pc[q] = "loaded" => v <= next[q]
  BY <1>1 DEF LeaseInv, SnapshotsHonest, CurrentSince, LoadAhead
<1>4. cur' = cur /\ reload' = reload /\ reload # p
  BY UnlockedAssumption DEF GetRecheckHit
<1> QED
  BY <1>2, <1>3, <1>4, ReturnKeepsLeaseInv

LEMMA GetRecheckMissKeepsLeaseInv ==
    ASSUME LeaseInv, NEW p \in Proc, GetRecheckMiss(p)
    PROVE  LeaseInv'
<1> USE BoundAssumption
    DEF LeaseInv, TypeOK, GetRecheckMiss, BeginLoad, Fresh, history, postgres
<1>y. /\ cur # NoSnapshot => cur.version \in 0..MaxVersion /\ cur.at \in 0..MaxTime
      /\ \A q \in Proc : seen[q] # NoSnapshot =>
            seen[q].version \in 0..MaxVersion /\ seen[q].at \in 0..MaxTime
  BY SnapshotsTyped
<1>1. TypeOK'
  BY DEF Locations
<1>2. LockHeld'
  BY UnlockedAssumption DEF LockHeld
<1>3. CallsInProgress'
  BY DEF CallsInProgress
<1>4. SnapshotsHonest'
  BY <1>y DEF SnapshotsHonest, CurrentSince
<1>5. LoadAhead'
  <2>1. /\ \A q \in Proc : pc'[q] = "loaded" <=> pc[q] = "loaded" /\ q # p
        /\ \A q \in Proc : started'[q] = IF q = p THEN clock ELSE started[q]
        /\ clock' = clock /\ version' = version /\ retiredAt' = retiredAt
        /\ next' = next /\ known' = known /\ floor' = floor /\ cur' = cur /\ seen' = seen
        /\ clock \in Nat /\ LoadAhead /\ pc[p] # "loaded"
    OBVIOUS
  <2> QED
    BY ONLY <2>1 DEF LoadAhead, CurrentSince
<1>6. FloorsMet'
  BY DEF FloorsMet, LockHeld
<1>7. CacheNotBehind'
  BY DEF CacheNotBehind
<1> QED
  BY <1>1, <1>2, <1>3, <1>4, <1>5, <1>6, <1>7

LEMMA WriteKeepsLeaseInv ==
    ASSUME LeaseInv, NEW p \in Proc, Write(p)
    PROVE  LeaseInv'
<1>c. \A v \in 0..MaxVersion, t \in 0..MaxTime : CurrentSince(v, t) => CurrentSince(v, t)'
  BY RetireKeepsCurrentSince DEF LeaseInv, Write, Lease!Write
<1>t. /\ version' = version + 1 /\ version' \in 0..MaxVersion
      /\ retiredAt' \in [0..MaxVersion -> 0..MaxTime]
  BY RetireTyped DEF LeaseInv, Write, Lease!Write
<1> USE <1>t, BoundAssumption
    DEF LeaseInv, TypeOK, Write, Lease!Write
<1>y. /\ cur # NoSnapshot => cur.version \in 0..MaxVersion /\ cur.at \in 0..MaxTime
      /\ \A q \in Proc : seen[q] # NoSnapshot =>
            seen[q].version \in 0..MaxVersion /\ seen[q].at \in 0..MaxTime
  BY SnapshotsTyped
<1>1. TypeOK'
  BY DEF Locations
<1>2. LockHeld'
  BY UnlockedAssumption DEF LockHeld
<1>3. CallsInProgress'
  BY DEF CallsInProgress
<1>4. SnapshotsHonest'
  BY <1>c, <1>y DEF SnapshotsHonest, FloorsMet
<1>5. LoadAhead'
  BY <1>c, <1>y DEF SnapshotsHonest, LoadAhead, LockHeld, CurrentSince
<1>6. FloorsMet'
  <2> SUFFICES ASSUME NEW q \in Proc
               PROVE  /\ known' <= version'
                      /\ floor'[q] <= version'
                      /\ pc'[q] \in {"peeked", "waiting"} => floor'[q] <= known'
                      /\ pc'[q] \in {"loading", "loaded"} => floor'[q] <= known' \/ cur' = NoSnapshot
                      /\ seen'[q] # NoSnapshot => pc'[q] = "peeked"
    BY DEF FloorsMet
  <2>1. CASE q = p
    BY <2>1 DEF FloorsMet
  <2>2. CASE q # p
    <3>1. known' <= version' /\ floor'[q] <= version'
      <4>1. known' = known /\ floor'[q] = floor[q] /\ version' = version + 1
        BY <2>2
      <4>2. known <= version /\ floor[q] <= version
        BY DEF FloorsMet
      <4>3. known \in Nat /\ floor[q] \in Nat /\ version \in Nat
        OBVIOUS
      <4> QED
        BY ONLY <4>1, <4>2, <4>3
    <3>2. pc'[q] = pc[q] /\ floor'[q] = floor[q] /\ seen'[q] = seen[q]
      BY <2>2
    <3> QED
      BY <3>1, <3>2 DEF FloorsMet
  <2> QED
    BY <2>1, <2>2
<1>7. CacheNotBehind'
  BY DEF CacheNotBehind
<1> QED
  BY <1>1, <1>2, <1>3, <1>4, <1>5, <1>6, <1>7

LEMMA RefreshKeepsLeaseInv ==
    ASSUME LeaseInv, NEW p \in Proc, Refresh(p)
    PROVE  LeaseInv'
<1> USE BoundAssumption
    DEF LeaseInv, TypeOK, Refresh, BeginLoad, history, postgres
<1>y. /\ cur # NoSnapshot => cur.version \in 0..MaxVersion /\ cur.at \in 0..MaxTime
      /\ \A q \in Proc : seen[q] # NoSnapshot =>
            seen[q].version \in 0..MaxVersion /\ seen[q].at \in 0..MaxTime
  BY SnapshotsTyped
<1>1. TypeOK'
  BY DEF Locations
<1>2. LockHeld'
  BY UnlockedAssumption DEF LockHeld
<1>3. CallsInProgress'
  BY DEF CallsInProgress
<1>4. SnapshotsHonest'
  BY <1>y DEF SnapshotsHonest, CurrentSince
<1>5. LoadAhead'
  BY DEF SnapshotsHonest, LoadAhead, CurrentSince, LockHeld
<1>6. FloorsMet'
  BY DEF FloorsMet, LockHeld
<1>7. CacheNotBehind'
  BY DEF CacheNotBehind
<1> QED
  BY <1>1, <1>2, <1>3, <1>4, <1>5, <1>6, <1>7

LEMMA LoadModelKeepsLeaseInv ==
    ASSUME LeaseInv, NEW p \in Proc, LoadModel(p)
    PROVE  LeaseInv'
<1> USE BoundAssumption
    DEF LeaseInv, TypeOK, LoadModel, history, postgres
<1>y. /\ cur # NoSnapshot => cur.version \in 0..MaxVersion /\ cur.at \in 0..MaxTime
      /\ \A q \in Proc : seen[q] # NoSnapshot =>
            seen[q].version \in 0..MaxVersion /\ seen[q].at \in 0..MaxTime
  BY SnapshotsTyped
<1>1. TypeOK'
  BY DEF Locations
<1>2. LockHeld'
  BY UnlockedAssumption DEF LockHeld
<1>3. CallsInProgress'
  BY DEF CallsInProgress
<1>4. SnapshotsHonest'
  BY <1>y DEF SnapshotsHonest, CurrentSince
<1>5. LoadAhead'
  BY DEF SnapshotsHonest, LoadAhead, CurrentSince, LockHeld, FloorsMet, CacheNotBehind
<1>6. FloorsMet'
  BY DEF FloorsMet, LockHeld
<1>7. CacheNotBehind'
  BY DEF CacheNotBehind
<1> QED
  BY <1>1, <1>2, <1>3, <1>4, <1>5, <1>6, <1>7

LEMMA LoadFailsKeepsLeaseInv ==
    ASSUME LeaseInv, NEW p \in Proc, LoadFails(p)
    PROVE  LeaseInv'
<1>1. Returned(p, Denied, floor[p])
  BY ReturnOfRefusal DEF LeaseInv, LoadFails
<1>2. floor[p] \in 0..MaxVersion /\ floor[p] <= version
  BY DEF LeaseInv, TypeOK, FloorsMet
<1>3. pc[p] \in {"loading", "loaded"} /\ reload = p /\ cur' = cur /\ reload' = Unlocked
  BY DEF LoadFails, LeaseInv, LockHeld
<1>4. cur # NoSnapshot => floor[p] <= cur.version
  <2>1. cur # NoSnapshot => floor[p] <= known /\ known <= cur.version
    BY <1>3 DEF LeaseInv, FloorsMet, CacheNotBehind
  <2>2. known \in 0..MaxVersion /\ (cur # NoSnapshot => cur.version \in 0..MaxVersion)
    BY SnapshotsTyped DEF LeaseInv, TypeOK
  <2> QED
    BY <1>2, <2>1, <2>2
<1>5. \A q \in Proc \ {p} : pc[q] # "loaded"
  BY <1>3 DEF LeaseInv, LockHeld
<1> QED
  BY <1>1, <1>2, <1>3, <1>4, <1>5, ReturnKeepsLeaseInv

LEMMA InstallKeepsLeaseInv ==
    ASSUME LeaseInv, NEW p \in Proc, Install(p)
    PROVE  LeaseInv'
<1>r. next[p] \in 0..MaxVersion /\ Return(p, next[p])
  BY DEF Install, LeaseInv, TypeOK, Snapshots
<1>s. PICK v \in 0..MaxVersion : v = next[p] /\ Returned(p, v, v)
  BY <1>r, ReturnOfVersion DEF LeaseInv
<1> USE <1>s, BoundAssumption
    DEF LeaseInv, TypeOK, Install, Returned
<1>y. /\ cur # NoSnapshot => cur.version \in 0..MaxVersion /\ cur.at \in 0..MaxTime
      /\ \A q \in Proc : seen[q] # NoSnapshot =>
            seen[q].version \in 0..MaxVersion /\ seen[q].at \in 0..MaxTime
  BY SnapshotsTyped
<1>1. TypeOK'
  BY DEF Locations, Snapshots
<1>2. LockHeld'
  BY UnlockedAssumption DEF LockHeld
<1>3. CallsInProgress'
  BY DEF CallsInProgress
<1>4. SnapshotsHonest'
  BY <1>y DEF SnapshotsHonest, CurrentSince, LoadAhead, FloorsMet
<1>5. LoadAhead'
  BY DEF SnapshotsHonest, LoadAhead, CurrentSince, LockHeld
<1>6. FloorsMet'
  <2>1. /\ \A q \in Proc \ {p} : /\ pc'[q] = pc[q] /\ seen'[q] = seen[q] /\ floor'[q] = floor[q]
                                /\ pc[q] \notin {"loading", "loaded"} /\ floor[q] \in Nat
        /\ pc'[p] = "idle" /\ seen'[p] = NoSnapshot /\ floor'[p] = 0
    BY DEF LockHeld
  <2>2. /\ version' = version /\ known' \in {known, v} /\ known <= known' /\ v <= version
        /\ known \in Nat /\ v \in Nat /\ version \in Nat
    BY DEF LoadAhead, CurrentSince
  <2>3. FloorsMet
    OBVIOUS
  <2> QED
    BY ONLY <2>1, <2>2, <2>3 DEF FloorsMet
<1>7. CacheNotBehind'
  BY DEF CacheNotBehind, LoadAhead
<1> QED
  BY <1>1, <1>2, <1>3, <1>4, <1>5, <1>6, <1>7

LEMMA LoadTooSlowKeepsLeaseInv ==
    ASSUME LeaseInv, NEW p \in Proc, LoadTooSlow(p)
    PROVE  LeaseInv'
<1>1. Returned(p, Denied, floor[p])
  BY ReturnOfRefusal DEF LeaseInv, LoadTooSlow
<1>2. floor[p] \in 0..MaxVersion /\ floor[p] <= version
  BY DEF LeaseInv, TypeOK, FloorsMet
<1>3. pc[p] \in {"loading", "loaded"} /\ reload = p /\ cur' = cur /\ reload' = Unlocked
  BY DEF LoadTooSlow, LeaseInv, LockHeld
<1>4. cur # NoSnapshot => floor[p] <= cur.version
  <2>1. cur # NoSnapshot => floor[p] <= known /\ known <= cur.version
    BY <1>3 DEF LeaseInv, FloorsMet, CacheNotBehind
  <2>2. known \in 0..MaxVersion /\ (cur # NoSnapshot => cur.version \in 0..MaxVersion)
    BY SnapshotsTyped DEF LeaseInv, TypeOK
  <2> QED
    BY <1>2, <2>1, <2>2
<1>5. \A q \in Proc \ {p} : pc[q] # "loaded"
  BY <1>3 DEF LeaseInv, LockHeld
<1> QED
  BY <1>1, <1>2, <1>3, <1>4, <1>5, ReturnKeepsLeaseInv

LEMMA StutterKeepsLeaseInv ==
    ASSUME LeaseInv, UNCHANGED vars
    PROVE  LeaseInv'
<1> USE DEF vars
<1>1. TypeOK'
  BY DEF LeaseInv, TypeOK, Locations
<1>2. LockHeld' /\ CallsInProgress'
  BY DEF LeaseInv, LockHeld, CallsInProgress
<1>3. SnapshotsHonest' /\ LoadAhead'
  BY DEF LeaseInv, SnapshotsHonest, LoadAhead, CurrentSince
<1>4. FloorsMet' /\ CacheNotBehind'
  BY DEF LeaseInv, FloorsMet, CacheNotBehind
<1> QED
  BY <1>1, <1>2, <1>3, <1>4 DEF LeaseInv

LEMMA NextKeepsLeaseInv == LeaseInv /\ [Next]_vars => LeaseInv'
<1> SUFFICES ASSUME LeaseInv, [Next]_vars
             PROVE  LeaseInv'
  OBVIOUS
<1>1. CASE Tick
  BY <1>1, TickKeepsLeaseInv
<1>2. CASE WriteElsewhere
  BY <1>2, WriteElsewhereKeepsLeaseInv
<1>3. ASSUME NEW p \in Proc, Get(p)
      PROVE  LeaseInv'
  BY <1>3, GetPeekKeepsLeaseInv, GetHitKeepsLeaseInv, GetStaleKeepsLeaseInv,
     GetRecheckHitKeepsLeaseInv, GetRecheckMissKeepsLeaseInv DEF Get
<1>4. ASSUME NEW p \in Proc, Write(p) \/ Refresh(p)
      PROVE  LeaseInv'
  BY <1>4, WriteKeepsLeaseInv, RefreshKeepsLeaseInv
<1>5. ASSUME NEW p \in Proc, RefreshLocked(p)
      PROVE  LeaseInv'
  BY <1>5, LoadModelKeepsLeaseInv, LoadFailsKeepsLeaseInv, InstallKeepsLeaseInv,
     LoadTooSlowKeepsLeaseInv DEF RefreshLocked
<1>6. CASE UNCHANGED vars
  BY <1>6, StutterKeepsLeaseInv
<1> QED
  BY <1>1, <1>2, <1>3, <1>4, <1>5, <1>6 DEF Next

\* The invariant holds in every reachable state, for any number of goroutines,
\* any TTL and any bounds on the clock and on the number of writes.
THEOREM LeaseInvariant == Spec => []LeaseInv
  BY InitLeaseInv, NextKeepsLeaseInv, PTL DEF Spec

\* Every variable of the cache keeps its type.
THEOREM TypeCorrect == Spec => []TypeOK
<1>1. LeaseInv => TypeOK
  BY DEF LeaseInv
<1> QED
  BY <1>1, LeaseInvariant, PTL

\* The cache never holds a snapshot older than what the replica has vouched
\* for: a writer's next request cannot be served what it has just replaced.
THEOREM NeverBehind == Spec => []CacheNotBehind
<1>1. LeaseInv => CacheNotBehind
  BY DEF LeaseInv
<1> QED
  BY <1>1, LeaseInvariant, PTL

-----------------------------------------------------------------------------
(* One read for a burst of requests.                                       *)

\* A Get that begins a load does so from GetRecheckMiss, where reload is free:
\* nobody is inside refreshLocked then.
THEOREM OneLoad == Spec => OneLoadPerBurst
<1>1. LeaseInv /\ [Next]_vars => LoadsAlone
  <2> SUFFICES ASSUME LeaseInv, [Next]_vars, NEW p \in Proc,
                      pc[p] = "waiting", pc'[p] = "loading"
               PROVE  ~Fresh(cur) /\ reload = Unlocked
    BY UnlockedAssumption DEF LeaseInv, LockHeld, LoadsAlone
  <2> USE DEF LeaseInv, TypeOK
  <2>1. ~UNCHANGED pc
    OBVIOUS
  <2>2. ~Tick /\ ~WriteElsewhere
    BY <2>1 DEF Tick, WriteElsewhere, cacheVars
  <2>3. PICK q \in Proc : Get(q) \/ Write(q) \/ Refresh(q) \/ RefreshLocked(q)
    BY <2>1, <2>2 DEF Next, vars
  <2>4. pc' = [pc EXCEPT ![q] = pc'[q]]
    BY <2>3 DEF Get, GetPeek, GetHit, GetStale, GetRecheckHit, GetRecheckMiss, Write, Refresh,
                RefreshLocked, LoadModel, LoadFails, Install, LoadTooSlow, Return, BeginLoad
  <2>5. q = p
    BY <2>4
  <2>6. GetRecheckMiss(p)
    BY <2>3, <2>5
    DEF Get, GetPeek, GetHit, GetStale, GetRecheckHit, Write, Refresh,
        RefreshLocked, LoadModel, LoadFails, Install, LoadTooSlow, Return
  <2> QED
    BY <2>6 DEF GetRecheckMiss
<1> QED
  BY <1>1, LeaseInvariant, PTL DEF Spec, OneLoadPerBurst

-----------------------------------------------------------------------------
(* The cache implements the lease.                                         *)

\* A version that was current at a time less than TTL ago is within its lease.
LEMMA FreshIsWithinLease ==
    ASSUME LeaseInv, NEW v \in 0..MaxVersion, NEW t \in 0..MaxTime,
           CurrentSince(v, t), clock - t < TTL
    PROVE  v <= version /\ Lease!WithinLease(v)
  BY BoundAssumption, TTLAssumption DEF LeaseInv, TypeOK, CurrentSince, Lease!WithinLease

\* A call that returns a version it may return is an Answer of the lease.
LEMMA ReturnIsAnswer ==
    ASSUME LeaseInv, NEW p \in Proc, NEW v \in 0..MaxVersion, Return(p, v),
           answer[p] = Pending, floor[p] <= v, v <= version, Lease!WithinLease(v)
    PROVE  Lease!Answer(p)
<1>1. known' = Lease!Newer(known, v)
  BY AnswerAssumption DEF Return
<1>2. v \in floor[p]..version
  BY BoundAssumption DEF LeaseInv, TypeOK
<1> QED
  BY <1>1, <1>2 DEF Return, Lease!Answer

\* A call that is refused is a Refuse of the lease.
LEMMA RefusalIsRefuse ==
    ASSUME NEW p \in Proc, Return(p, Denied), answer[p] = Pending
    PROVE  Lease!Refuse(p)
  BY DEF Return, Lease!Refuse

LEMMA GetHitAnswers ==
    ASSUME LeaseInv, NEW p \in Proc, GetHit(p)
    PROVE  Lease!Answer(p)
<1>1. PICK v \in 0..MaxVersion, t \in 0..MaxTime :
          /\ v = seen[p].version /\ t = seen[p].at
          /\ clock - t < TTL /\ Return(p, v)
  BY SnapshotsTyped DEF LeaseInv, GetHit, Fresh
<1>2. CurrentSince(v, t) /\ floor[p] <= v
  BY <1>1 DEF GetHit, Fresh, LeaseInv, SnapshotsHonest
<1>3. answer[p] = Pending
  BY DEF GetHit, LeaseInv, CallsInProgress
<1> QED
  BY <1>1, <1>2, <1>3, FreshIsWithinLease, ReturnIsAnswer

LEMMA GetRecheckHitAnswers ==
    ASSUME LeaseInv, NEW p \in Proc, GetRecheckHit(p)
    PROVE  Lease!Answer(p)
<1>1. PICK v \in 0..MaxVersion, t \in 0..MaxTime :
          /\ v = cur.version /\ t = cur.at
          /\ clock - t < TTL /\ Return(p, v)
  BY SnapshotsTyped DEF LeaseInv, GetRecheckHit, Fresh
<1>2. CurrentSince(v, t)
  BY <1>1 DEF GetRecheckHit, Fresh, LeaseInv, SnapshotsHonest
<1>3. floor[p] <= v
  <2>1. floor[p] <= known /\ known <= v
    BY <1>1 DEF GetRecheckHit, Fresh, LeaseInv, FloorsMet, CacheNotBehind
  <2>2. floor[p] \in 0..MaxVersion /\ known \in 0..MaxVersion
    BY DEF LeaseInv, TypeOK
  <2> QED
    BY <2>1, <2>2
<1>4. answer[p] = Pending
  BY DEF GetRecheckHit, LeaseInv, CallsInProgress
<1> QED
  BY <1>1, <1>2, <1>3, <1>4, FreshIsWithinLease, ReturnIsAnswer

LEMMA InstallAnswers ==
    ASSUME LeaseInv, NEW p \in Proc, Install(p)
    PROVE  Lease!Answer(p)
<1>1. PICK v \in 0..MaxVersion, t \in 0..MaxTime :
          /\ v = next[p] /\ t = started[p]
          /\ clock - t < TTL /\ Return(p, v)
  BY DEF LeaseInv, TypeOK, Install
<1>2. CurrentSince(v, t) /\ floor[p] <= v
  BY <1>1 DEF Install, LeaseInv, LoadAhead
<1>3. answer[p] = Pending
  BY DEF Install, LeaseInv, CallsInProgress
<1> QED
  BY <1>1, <1>2, <1>3, FreshIsWithinLease, ReturnIsAnswer

\* Every step of the cache is a step of the lease, or changes nothing of it.
LEMMA NextImplementsLeaseNext ==
    ASSUME LeaseInv, [Next]_vars
    PROVE  [Lease!LeaseNext]_(Lease!leaseVars)
<1>1. CASE Tick \/ WriteElsewhere
  BY <1>1 DEF Tick, WriteElsewhere, Lease!LeaseNext
<1>2. ASSUME NEW p \in Proc, GetPeek(p) \/ Write(p)
      PROVE  Lease!LeaseNext
  BY <1>2 DEF GetPeek, Write, Lease!LeaseNext
<1>3. ASSUME NEW p \in Proc, GetHit(p) \/ GetRecheckHit(p) \/ Install(p)
      PROVE  Lease!LeaseNext
  BY <1>3, GetHitAnswers, GetRecheckHitAnswers, InstallAnswers DEF Lease!LeaseNext
<1>4. ASSUME NEW p \in Proc, LoadFails(p) \/ LoadTooSlow(p)
      PROVE  Lease!LeaseNext
  <2>1. answer[p] = Pending /\ Return(p, Denied)
    BY <1>4 DEF LoadFails, LoadTooSlow, LeaseInv, CallsInProgress
  <2> QED
    BY <2>1, RefusalIsRefuse DEF Lease!LeaseNext
<1>5. ASSUME NEW p \in Proc, GetStale(p) \/ GetRecheckMiss(p) \/ Refresh(p) \/ LoadModel(p)
      PROVE  UNCHANGED Lease!leaseVars
  BY <1>5 DEF GetStale, GetRecheckMiss, Refresh, LoadModel, BeginLoad, postgres, history,
              Lease!leaseVars
<1>6. CASE UNCHANGED vars
  BY <1>6 DEF vars, Lease!leaseVars
<1> QED
  BY <1>1, <1>2, <1>3, <1>4, <1>5, <1>6 DEF Next, Get, RefreshLocked

\* The cache keeps the promises of PolicyLease: bounded staleness, counted from
\* before the read that produced an answer, and session order.
THEOREM CacheImplementsLease == Spec => ImplementsLease
<1>1. Init => Lease!LeaseInit
  BY DEF Init
<1>2. LeaseInv /\ [Next]_vars => [Lease!LeaseNext]_(Lease!leaseVars)
  BY NextImplementsLeaseNext
<1> QED
  BY <1>1, <1>2, LeaseInvariant, PTL DEF Spec, ImplementsLease, Lease!LeaseSpec
=============================================================================
