---------------------------- MODULE PolicyLease ----------------------------
(***************************************************************************)
(* What one replica's cache of the compiled access model promises to the   *)
(* requests it serves, whatever the cache does inside.  The access model   *)
(* lives in Postgres and every committed write gives it the next version   *)
(* number.  A request asks the cache for a snapshot and is either answered *)
(* with a version or refused.  The promises are the guards of Answer:      *)
(*                                                                         *)
(*   - lease: an answer was the current version less than TTL ago;         *)
(*   - session order: an answer is no older than any version the replica   *)
(*     had already vouched for when the call began, be it by answering an  *)
(*     earlier call or by completing the refresh that follows a write.     *)
(*                                                                         *)
(* ModelCache implements this module.                                      *)
(***************************************************************************)
EXTENDS Naturals

CONSTANTS Proc,        \* the replica's request goroutines
          TTL,         \* the cache's time to live
          MaxVersion,  \* bound on the number of model writes
          MaxTime,     \* bound on the clock
          Pending,     \* the answer of a call that has not returned
          Denied       \* the answer of a call that was refused

VARIABLES clock,      \* the time
          version,    \* the version of the model Postgres holds
          retiredAt,  \* when each earlier version was superseded
          known,      \* the newest version the replica has vouched for
          floor,      \* what each call in progress may not fall below
          answer      \* what each call was last answered

leaseVars == <<clock, version, retiredAt, known, floor, answer>>

Versions == 0..MaxVersion
Times == 0..MaxTime

\* v was the current version less than TTL ago.
WithinLease(v) == v = version \/ clock - retiredAt[v] < TTL

Newer(a, b) == IF a > b THEN a ELSE b

LeaseInit ==
    /\ clock = 0
    /\ version = 0
    /\ retiredAt = [v \in Versions |-> 0]
    /\ known = 0
    /\ floor = [p \in Proc |-> 0]
    /\ answer = [p \in Proc |-> Denied]

Tick ==
    /\ clock < MaxTime
    /\ clock' = clock + 1
    /\ UNCHANGED <<version, retiredAt, known, floor, answer>>

\* Postgres commits the next version of the model.
Retire ==
    /\ version < MaxVersion
    /\ version' = version + 1
    /\ retiredAt' = [retiredAt EXCEPT ![version] = clock]

\* A write that this replica does not follow with a refresh: another
\* replica's, or one whose commit was acknowledged to nobody.
WriteElsewhere ==
    /\ Retire
    /\ UNCHANGED <<clock, known, floor, answer>>

\* A request asks for a snapshot.
Ask(p) ==
    /\ answer[p] # Pending
    /\ answer' = [answer EXCEPT ![p] = Pending]
    /\ floor' = [floor EXCEPT ![p] = known]
    /\ UNCHANGED <<clock, version, retiredAt, known>>

\* A request commits a write and must see it from then on.
Write(p) ==
    /\ answer[p] # Pending
    /\ Retire
    /\ answer' = [answer EXCEPT ![p] = Pending]
    /\ floor' = [floor EXCEPT ![p] = version + 1]
    /\ UNCHANGED <<clock, known>>

Answer(p) ==
    /\ answer[p] = Pending
    /\ \E v \in floor[p]..version :
          /\ WithinLease(v)
          /\ answer' = [answer EXCEPT ![p] = v]
          /\ known' = Newer(known, v)
    /\ floor' = [floor EXCEPT ![p] = 0]
    /\ UNCHANGED <<clock, version, retiredAt>>

\* A refused writer has nevertheless committed: the replica vouches for it.
Refuse(p) ==
    /\ answer[p] = Pending
    /\ answer' = [answer EXCEPT ![p] = Denied]
    /\ known' = Newer(known, floor[p])
    /\ floor' = [floor EXCEPT ![p] = 0]
    /\ UNCHANGED <<clock, version, retiredAt>>

LeaseNext ==
    \/ Tick
    \/ WriteElsewhere
    \/ \E p \in Proc : Ask(p) \/ Write(p) \/ Answer(p) \/ Refuse(p)

LeaseSpec == LeaseInit /\ [][LeaseNext]_leaseVars
=============================================================================
