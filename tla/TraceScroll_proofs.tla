-------------------------- MODULE TraceScroll_proofs --------------------------
(***************************************************************************)
(* Proofs about TraceScroll: ScrollInv is inductive, the safety properties *)
(* follow from it, and the scroll implements ExportPromise, for any finite *)
(* table, rights, policies, filter, window, page limits and slots.         *)
(***************************************************************************)
EXTENDS TraceScroll, FiniteSetTheorems, TLAPS

-----------------------------------------------------------------------------
(* The order of the scroll.                                                *)

\* A set of numbers has a least one.
LEMMA LeastNumber ==
    ASSUME NEW N, N \subseteq Nat, N # {}
    PROVE  \E n \in N : \A m \in N : n <= m
<1> DEFINE R == {p \in Nat \X Nat : p[1] < p[2]}
<1>1. IsWellFoundedOn(R, Nat)
  BY NatLessThanWellFounded DEF OpToRel
<1>2. PICK n \in N : \A m \in N : <<m, n>> \notin R
  <2> HIDE DEF R
  <2> QED BY <1>1, WFMin
<1>3. \A m \in N : m \in Nat /\ n \in Nat /\ ~(m < n)
  BY <1>2
<1> QED BY <1>3

LEMMA TracesFinite == Traces \subseteq Nat /\ IsFiniteSet(Traces)
<1> DEFINE f == [s \in Span |-> s.trace]
<1>1. f \in Surjection(Span, Traces)
  BY DEF Surjection, Traces
<1>2. IsFiniteSet(Traces)
  BY <1>1, SpanAssumption, FS_Surjection
<1> QED BY <1>2, SpanAssumption DEF Traces

LEMMA KeysFinite == Keys \subseteq Nat \X Nat /\ IsFiniteSet(Keys) /\ Cardinality(Keys) \in Nat
<1>1. IsFiniteSet(0..To)
  BY WindowAssumption, FS_Interval
<1>2. IsFiniteSet(Keys)
  BY <1>1, TracesFinite, FS_Product DEF Keys
<1>3. 0..To \subseteq Nat /\ Traces \subseteq Nat
  BY TracesFinite, WindowAssumption
<1>4. Cardinality(Keys) \in Nat
  BY <1>2, FS_CardinalityType
<1> QED BY <1>2, <1>3, <1>4 DEF Keys

LEMMA BelowOrder ==
    /\ \A a \in Nat \X Nat : ~Below(a, a)
    /\ \A a, b \in Nat \X Nat : a = b \/ Below(a, b) \/ Below(b, a)
    /\ \A a, b, c \in Nat \X Nat : Below(a, b) /\ Below(b, c) => Below(a, c)
    /\ \A a, b \in Nat \X Nat : Below(a, b) => ~Below(b, a)
BY DEF Below

\* A second begins no later than what falls into it.
LEMMA WholeBefore == \A n \in Nat : Whole(n) \in Nat /\ Whole(n) <= n
<1> SUFFICES ASSUME NEW n \in Nat PROVE Whole(n) \in Nat /\ Whole(n) <= n
  OBVIOUS
<1>1. n % Second \in Nat /\ n % Second <= n
  BY WindowAssumption
<1> QED BY <1>1 DEF Whole

\* The earliest of the spans in the window is in it.
LEMMA StartInWindow ==
    ASSUME NEW t \in Traces, source \subseteq Span, InWindow(t) # {}
    PROVE  Key(t) \in Keys /\ Key(t) # Start
<1> DEFINE N == {s.time : s \in InWindow(t)}
<1>1. N \subseteq 0..To /\ N # {} /\ N \subseteq Nat
  <2>1. Whole(To) \in Nat /\ Whole(To) <= To
    BY WholeBefore, WindowAssumption
  <2>2. ASSUME NEW s \in InWindow(t) PROVE s.time \in 0..To
    <3>1. s \in Span /\ s.time < Whole(To)
      BY DEF InWindow, SpansOf
    <3> QED BY <2>1, <3>1, SpanAssumption, WindowAssumption
  <2> QED BY <2>2
<1>2. PICK n \in N : \A m \in N : n <= m
  BY <1>1, LeastNumber
<1>3. n \in 0..To /\ (\E s \in InWindow(t) : s.time = n) /\ \A s \in InWindow(t) : n <= s.time
  BY <1>1, <1>2
<1>4. StartOf(t) \in 0..To
  BY <1>3 DEF StartOf, Earliest
<1> QED BY <1>4, StartAssumption DEF Key, Keys

\* Of some traces with a position, one is the last.
LEMMA LastIsLeast ==
    ASSUME NEW T, T \subseteq Traces, T # {}, \A t \in T : Key(t) \in Keys
    PROVE  Last(T) \in T /\ \A u \in T \ {Last(T)} : Below(Key(Last(T)), Key(u))
<1>1. \A t \in T : StartOf(t) \in Nat /\ t \in Nat /\ Key(t) = <<StartOf(t), t>>
  <2>1. \A t \in T : StartOf(t) \in 0..To
    BY DEF Key, Keys
  <2> QED BY <2>1, TracesFinite, WindowAssumption DEF Key
<1> DEFINE N == {StartOf(t) : t \in T}
<1>2. PICK n \in N : \A m \in N : n <= m
  BY <1>1, LeastNumber
<1> DEFINE U == {t \in T : StartOf(t) = n}
<1>3. PICK l \in U : \A u \in U : l <= u
  <2>1. U \subseteq Nat /\ U # {}
    BY <1>1
  <2> QED BY <2>1, LeastNumber
<1>4. \A u \in T \ {l} : Below(Key(l), Key(u))
  BY <1>1, <1>2, <1>3 DEF Below
<1> QED BY <1>3, <1>4 DEF Last

\* A page is everything down to its last trace, or everything there is.
LEMMA PageIsDownToLast ==
    ASSUME NEW T, T \subseteq Traces, \A t \in T : Key(t) \in Keys, limit \in Nat \ {0}
    PROVE  /\ FirstOf(T) # {} => \A t \in T : t \in FirstOf(T) <=> ~Below(Key(t), Key(Last(FirstOf(T))))
           /\ Cardinality(FirstOf(T)) # limit => FirstOf(T) = T
<1> DEFINE P == FirstOf(T)
           l == Last(P)
<1> HIDE DEF P
<1>0. P \subseteq T /\ \A t \in T : t \in P <=> Cardinality(Newer(t, T)) < limit
  BY DEF P, FirstOf
<1>1. \A t \in T : Key(t) \in Nat \X Nat
  BY KeysFinite
<1>2. IsFiniteSet(T)
  BY TracesFinite, FS_Subset
<1>3. \A t \in T : Newer(t, T) \subseteq T /\ IsFiniteSet(Newer(t, T)) /\ Cardinality(Newer(t, T)) \in Nat
  BY <1>2, FS_Subset, FS_CardinalityType DEF Newer
<1>4. P # {} => l \in P /\ \A u \in P \ {l} : Below(Key(l), Key(u))
  BY <1>0, LastIsLeast
<1>5. ASSUME NEW t \in T, NEW u \in T, Key(u) = Key(t) \/ Below(Key(u), Key(t))
      PROVE  Cardinality(Newer(t, T)) <= Cardinality(Newer(u, T))
  <2>1. Newer(t, T) \subseteq Newer(u, T)
    BY <1>1, <1>5, BelowOrder DEF Newer
  <2> QED BY <2>1, <1>3, FS_Subset
<1>6. P # {} => \A t \in T : t \in P <=> ~Below(Key(t), Key(l))
  <2> SUFFICES ASSUME P # {}, NEW t \in T PROVE t \in P <=> ~Below(Key(t), Key(l))
    OBVIOUS
  <2>1. l \in T /\ Cardinality(Newer(l, T)) < limit
    BY <1>0, <1>4
  <2>2. t \in P => ~Below(Key(t), Key(l))
    BY <1>0, <1>1, <1>4, <2>1, BelowOrder
  <2>3. ASSUME ~Below(Key(t), Key(l)) PROVE t \in P
    <3>1. Key(l) = Key(t) \/ Below(Key(l), Key(t))
      BY <1>1, <2>1, <2>3, BelowOrder
    <3>2. Cardinality(Newer(t, T)) <= Cardinality(Newer(l, T))
      BY <1>5, <2>1, <3>1
    <3> QED BY <1>0, <1>3, <2>1, <3>2
  <2> QED BY <2>2, <2>3
<1>7. ASSUME P # T PROVE Cardinality(P) = limit
  <2>1. IsFiniteSet(P) /\ Cardinality(P) \in Nat
    BY <1>0, <1>2, FS_Subset, FS_CardinalityType
  <2> DEFINE N == {Cardinality(Newer(t, T)) : t \in T \ P}
  <2>2. N \subseteq Nat /\ N # {}
    BY <1>0, <1>3, <1>7
  <2>3. PICK t \in T \ P : \A u \in T \ P : Cardinality(Newer(t, T)) <= Cardinality(Newer(u, T))
    <3>1. PICK n \in N : \A m \in N : n <= m
      BY <2>2, LeastNumber
    <3> QED BY <3>1
  <2>4. Newer(t, T) \subseteq P
    <3> SUFFICES ASSUME NEW u \in Newer(t, T), u \notin P PROVE FALSE
      OBVIOUS
    <3>1. u \in T /\ Below(Key(t), Key(u))
      BY DEF Newer
    <3>2. Newer(u, T) \subseteq Newer(t, T) /\ u \notin Newer(u, T)
      BY <1>1, <3>1, BelowOrder DEF Newer
    <3>3. Cardinality(Newer(u, T)) < Cardinality(Newer(t, T))
      BY <1>3, <3>1, <3>2, FS_Subset
    <3> QED BY <1>3, <2>3, <3>1, <3>3
  <2>5. Cardinality(Newer(t, T)) >= limit /\ Cardinality(Newer(t, T)) <= Cardinality(P)
    BY <1>0, <1>3, <2>1, <2>3, <2>4, FS_Subset
  <2>6. P # {} /\ l \in P
    BY <1>3, <1>4, <2>1, <2>5, FS_EmptySet
  <2>7. Cardinality(P \ {l}) = Cardinality(P) - 1 /\ IsFiniteSet(P \ {l})
    BY <2>1, <2>6, FS_RemoveElement
  <2>8. P \ {l} \subseteq Newer(l, T)
    BY <1>0, <1>4, <2>6 DEF Newer
  <2>9. Cardinality(P \ {l}) <= Cardinality(Newer(l, T)) /\ Cardinality(Newer(l, T)) < limit
    BY <1>0, <1>3, <2>6, <2>8, FS_Subset
  <2> QED BY <1>0, <1>3, <2>1, <2>5, <2>6, <2>7, <2>9
<1> QED BY <1>6, <1>7 DEF P

-----------------------------------------------------------------------------
(* The table and the rights.                                               *)

LEMMA HistoryTypes ==
    /\ NoHistory \in Histories
    /\ rights \in Rights /\ served \in SUBSET Model => Fresh \in Histories
    /\ rights' \in Rights => \A h \in Histories : Extended(h) \in Histories
<1>1. NoHistory \in Histories
  BY DEF NoHistory, Histories
<1>2. rights \in Rights /\ served \in SUBSET Model => Fresh \in Histories
  BY DEF Fresh, Histories, Rights
<1>3. rights' \in Rights => \A h \in Histories : Extended(h) \in Histories
  BY DEF Extended, Histories, Rights
<1> QED BY <1>1, <1>2, <1>3

LEMMA NoPlanInRights == rights \in Rights => NoPlan \in Rights
BY DEF NoPlan

\* While the table stays, so do the traces of a window and their positions.
LEMMA SameTable ==
    ASSUME source' = source
    PROVE  \A t : (InWindow(t))' = InWindow(t) /\ (Key(t))' = Key(t) /\ (SpansOf(t))' = SpansOf(t)
<1>1. \A t : (InWindow(t))' = InWindow(t) /\ (SpansOf(t))' = SpansOf(t)
  BY DEF InWindow, SpansOf
<1> QED BY <1>1 DEF Key, StartOf

\* While nothing changes, the same traces are settled.
LEMMA SameSource ==
    ASSUME UNCHANGED sourceVars
    PROVE  /\ \A t : (InWindow(t))' = InWindow(t) /\ (Key(t))' = Key(t)
           /\ \A t : (Selected(t, rights))' <=> Selected(t, rights)
           /\ Settled' = Settled
<1>1. \A t : (InWindow(t))' = InWindow(t) /\ (Key(t))' = Key(t)
  BY SameTable DEF sourceVars
<1>2. \A t : (Selected(t, rights))' <=> Selected(t, rights)
  BY <1>1 DEF Selected, sourceVars
<1>3. Settled' = Settled
  BY <1>1 DEF Settled, Selected, sourceVars
<1> QED BY <1>1, <1>2, <1>3

\* The step of a request that keeps the table and the rights keeps their types.
LEMMA SourceTyped ==
    ASSUME SourceTypeOK
    PROVE  /\ UNCHANGED sourceVars \/ ScrollBegins \/ ScrollEnds => SourceTypeOK'
           /\ \A R : ReadRoles(R) => SourceTypeOK'
           /\ \A running : Change(running) => SourceTypeOK'
<1> USE DEF SourceTypeOK
<1>1. UNCHANGED sourceVars \/ ScrollBegins \/ ScrollEnds => SourceTypeOK'
  BY HistoryTypes DEF sourceVars, ScrollBegins, ScrollEnds
<1>2. \A R : ReadRoles(R) => SourceTypeOK'
  BY DEF ReadRoles, Rights
<1>3. ASSUME NEW running, Change(running) PROVE SourceTypeOK'
  <2>1. /\ source' \in SUBSET Span /\ rights' \in Rights /\ served' \in SUBSET Model
        /\ \E changed : Observed(running, changed)
    <3>1. CASE Arrive(running) \/ Expire(running)
      BY <3>1, PredicateAssumption DEF Arrive, Expire
    <3>2. CASE Assign(running) \/ Lapse(running)
      BY <3>2 DEF Assign, Lapse
    <3>3. CASE WriteModel(running)
      BY <3>3 DEF WriteModel, Rights
    <3> QED BY <1>3, <3>1, <3>2, <3>3 DEF Change
  <2>2. steady' \in SUBSET Traces /\ misread' \in SUBSET SUBSET Role /\ since' \in {since, Extended(since)}
    BY <2>1 DEF Observed
  <2> QED BY <2>1, <2>2, HistoryTypes
<1> QED BY <1>1, <1>2, <1>3

\* What the environment changes while a scroll is running: the table for the traces
\* that are steady no more, and rights that the history then has.
LEMMA RunningChange ==
    ASSUME SourceTypeOK, rights.model \in served, Change(TRUE)
    PROVE  /\ steady' \subseteq steady /\ misread' = misread /\ since' = Extended(since)
           /\ \A s \in Span : s.trace \in steady' => (s \in source' <=> s \in source)
           /\ rights' \in Rights /\ rights'.model \in served' /\ served' \subseteq served \cup {rights'.model}
<1>1. rights' \in Rights
  BY SourceTyped DEF SourceTypeOK
<1>2. CASE Arrive(TRUE) \/ Expire(TRUE)
  BY <1>1, <1>2 DEF Arrive, Expire, Observed, SourceTypeOK
<1>3. CASE Assign(TRUE) \/ Lapse(TRUE)
  BY <1>1, <1>3 DEF Assign, Lapse, Observed
<1>4. CASE WriteModel(TRUE)
  BY <1>1, <1>4 DEF WriteModel, Observed, SourceTypeOK, Rights
<1> QED BY <1>2, <1>3, <1>4 DEF Change

LEMMA IdleChange ==
    ASSUME SourceTypeOK, rights.model \in served, NEW running, Change(running)
    PROVE  rights' \in Rights /\ rights'.model \in served' /\ served' \subseteq served \cup {rights'.model}
<1>1. rights' \in Rights
  BY SourceTyped DEF SourceTypeOK
<1>2. CASE Arrive(running) \/ Expire(running)
  BY <1>1, <1>2 DEF Arrive, Expire, SourceTypeOK
<1>3. CASE Assign(running) \/ Lapse(running)
  BY <1>1, <1>3 DEF Assign, Lapse
<1>4. CASE WriteModel(running)
  BY <1>1, <1>4 DEF WriteModel, SourceTypeOK, Rights
<1> QED BY <1>2, <1>3, <1>4 DEF Change

\* Nothing becomes settled, and what stays so is selected as it was, when the table
\* stays for steady traces and the histories only grow.
LEMMA SettledStay ==
    ASSUME rights \in Mixtures(since), steady' \subseteq steady,
           since.roles \subseteq since'.roles, since.attrs \subseteq since'.attrs,
           since.model \subseteq since'.model, misread \subseteq misread',
           since \in Histories, since' \in Histories, source \subseteq Span, source' \subseteq Span,
           \A s \in Span : s.trace \in steady' => (s \in source' <=> s \in source)
    PROVE  /\ Settled' \subseteq Settled /\ Settled' \subseteq steady'
           /\ \A t \in Settled' : (InWindow(t))' = InWindow(t) /\ (Key(t))' = Key(t)
           /\ \A t \in Settled' : (Selected(t, rights))' <=> Selected(t, rights)
<1> DEFINE H == [since EXCEPT !.roles = @ \cup misread]
           G == [since' EXCEPT !.roles = @ \cup misread']
<1>1. Settled' \subseteq steady'
  BY DEF Settled
<1>2. \A t \in steady' : (SpansOf(t))' = SpansOf(t)
  BY DEF SpansOf
<1>3. \A t \in steady' : (InWindow(t))' = InWindow(t)
  BY <1>2 DEF InWindow
<1>4. \A t \in steady' : (Key(t))' = Key(t)
  BY <1>3 DEF Key, StartOf
<1>5. \A t \in steady' : \A r : (Selected(t, r))' <=> Selected(t, r)
  BY <1>3 DEF Selected
<1>6. rights \in Mixtures(H) /\ Mixtures(H) \subseteq Mixtures(G)
  BY DEF Mixtures, Histories
<1>7. ASSUME NEW t \in Settled', NEW r \in Mixtures(H)
      PROVE  Selected(t, r) <=> (Selected(t, rights))'
  <2>1. r \in Mixtures(G) /\ t \in steady'
    BY <1>1, <1>6, <1>7
  <2>2. (Selected(t, r))' <=> (Selected(t, rights))'
    BY <1>7, <2>1 DEF Settled
  <2> QED BY <1>5, <2>1, <2>2
<1>8. \A t \in Settled' : (Selected(t, rights))' <=> Selected(t, rights)
  BY <1>6, <1>7
<1>9. Settled' \subseteq Settled
  <2> SUFFICES ASSUME NEW t \in Settled' PROVE t \in Settled
    OBVIOUS
  <2>1. \A r \in Mixtures(H) : Selected(t, r) <=> Selected(t, rights)
    BY <1>7, <1>8
  <2> QED BY <1>1, <2>1 DEF Settled
<1> QED BY <1>1, <1>3, <1>4, <1>8, <1>9

\* A request of the scroll selects of the settled traces what the caller's present
\* rights do.
LEMMA PlanAgrees ==
    ASSUME PlanRead, plan \in Rights, since \in Histories, stage = "paging",
           at \notin {"none", "roles", "admitted"}, NEW t \in Settled
    PROVE  Selected(t, plan) <=> Selected(t, rights)
<1>1. /\ plan.roles \in since.roles \cup misread /\ plan.attrs \in since.attrs
      /\ plan.model \in since.model
  BY DEF PlanRead
<1>2. plan \in Mixtures([since EXCEPT !.roles = @ \cup misread])
  BY <1>1 DEF Mixtures, Rights, Histories
<1> QED BY <1>2 DEF Settled

-----------------------------------------------------------------------------
(* The invariant.                                                          *)

LEMMA Initially == Init => ScrollInv
<1> SUFFICES ASSUME Init PROVE ScrollInv
  OBVIOUS
<1>1. TypeOK
  <2>1. SourceTypeOK
    <3>1. served \in SUBSET Model /\ rights \in Rights
      BY DEF Init, SourceInit, Rights
    <3> QED BY <3>1, HistoryTypes DEF Init, SourceInit, SourceTypeOK
  <2>2. MaxPages \in Nat /\ Slots \in Nat /\ plan \in Rights /\ asked \in Histories
    BY KeysFinite, LimitAssumption, NoPlanInRights, HistoryTypes DEF Init, SourceInit, MaxPages
  <2> QED BY <2>1, <2>2 DEF Init, TypeOK, Stages, Places
<1>2. Placed /\ CursorDescends /\ SlotsAccounted /\ AuditAccounted
  BY DEF Init, Placed, CursorDescends, SlotsAccounted, AuditAccounted
<1>3. SeenAbove
  BY DEF Init, SeenAbove
<1>4. PlanRead /\ PageSettled /\ ReplySettled /\ FileSettled
  BY DEF Init, SourceInit, PlanRead, PageSettled, ReplySettled, FileSettled, Running
<1> QED BY <1>1, <1>2, <1>3, <1>4 DEF ScrollInv

\* Where no handler is at work and no export under way, little is to be kept.
LEMMA AtRest ==
    ASSUME at' = "none", ~Running', rights'.model \in served'
    PROVE  PlanRead' /\ PageSettled' /\ ReplySettled' /\ FileSettled'
BY DEF PlanRead, PageSettled, ReplySettled, FileSettled, Running

LEMMA OthersKeep ==
    ASSUME ScrollInv, OthersTake \/ OthersRelease
    PROVE  ScrollInv'
<1> USE DEF ScrollInv
<1>1. UNCHANGED <<sourceVars, client, handler, history>>
  BY DEF OthersTake, OthersRelease
<1>2. SlotsAccounted'
  BY <1>1 DEF SlotsAccounted, TypeOK, OthersTake, OthersRelease, handler
<1>3. TypeOK'
  <2>1. busy' \in 0..Slots /\ others' \in 0..Slots
    BY LimitAssumption DEF SlotsAccounted, TypeOK, OthersTake, OthersRelease
  <2> QED BY <1>1, <2>1, SourceTyped DEF TypeOK, client, handler, history
<1>4. Placed' /\ SeenAbove' /\ CursorDescends' /\ AuditAccounted'
  BY <1>1 DEF Placed, SeenAbove, CursorDescends, AuditAccounted, client, handler, history
<1>5. PlanRead'
  BY <1>1 DEF PlanRead, Covers, Running, sourceVars, client, handler, history
<1>6. PageSettled' /\ ReplySettled' /\ FileSettled'
  BY <1>1, SameSource DEF PageSettled, ReplySettled, FileSettled, Running, Past, sourceVars, client, handler
<1> QED BY <1>2, <1>3, <1>4, <1>5, <1>6

\* The export fails, or was killed before.
LEMMA FailedKeeps ==
    ASSUME ScrollInv, RequestFails
    PROVE  /\ SourceTypeOK' /\ Placed' /\ SeenAbove' /\ CursorDescends'
           /\ PlanRead' /\ PageSettled' /\ ReplySettled' /\ FileSettled'
           /\ at' = "none" /\ plan' \in Rights /\ asked' \in Histories /\ page' = {} /\ reply' = {} /\ next' = Start
           /\ stage' \in Stages /\ limit' \in Limits /\ cursor' \in Keys \cup {Start} /\ seen' \in SUBSET Keys
           /\ file' \in Contents \cup {Nothing} /\ final' \in Contents \cup {Nothing}
<1> USE DEF ScrollInv
<1>1. /\ at' = "none" /\ plan' = NoPlan /\ page' = {} /\ reply' = {} /\ next' = Start /\ asked' = NoHistory
      /\ \/ stage = "killed" /\ UNCHANGED <<sourceVars, client>>
         \/ ExportFails
  BY DEF RequestFails, HandlerDone
<1>2. SourceTypeOK'
  BY <1>1, SourceTyped DEF ExportFails, TypeOK
<1>3. Placed' /\ SeenAbove' /\ CursorDescends'
  BY <1>1 DEF Placed, SeenAbove, CursorDescends, ExportFails, client
<1>4. ~Running' /\ rights'.model \in served'
  BY <1>1 DEF Running, PlanRead, ExportFails, ScrollEnds, client, sourceVars
<1>5. plan' \in Rights /\ asked' \in Histories
  BY <1>1, NoPlanInRights, HistoryTypes DEF TypeOK, SourceTypeOK
<1>6. /\ stage' \in Stages /\ limit' \in Limits /\ cursor' \in Keys \cup {Start} /\ seen' \in SUBSET Keys
      /\ file' \in Contents \cup {Nothing} /\ final' \in Contents \cup {Nothing}
  BY <1>1 DEF TypeOK, ExportFails, Stages, client
<1> QED BY <1>1, <1>2, <1>3, <1>4, <1>5, <1>6, AtRest

\* The roles are read, or what is taken for them.
LEMMA AskKeeps ==
    ASSUME ScrollInv, Ask
    PROVE  ScrollInv'
<1> USE DEF ScrollInv
<1>1. PICK R \in SUBSET rights.roles : ReadRoles(R) /\ plan' = [plan EXCEPT !.roles = R]
  BY DEF Ask
<1>2. /\ stage = "paging" /\ at = "none" /\ at' = "roles" /\ asked' = Fresh
      /\ UNCHANGED <<client, page, reply, next, busy, others, answered, audited, unlogged>>
  BY DEF Ask
<1>3. /\ misread' = misread \cup ({R} \ since.roles)
      /\ UNCHANGED <<source, rights, served, steady, since>>
  BY <1>1 DEF ReadRoles
<1>4. TypeOK'
  <2>1. SourceTypeOK' /\ asked' \in Histories
    BY <1>1, <1>2, SourceTyped, HistoryTypes DEF TypeOK, SourceTypeOK
  <2>2. plan' \in Rights
    BY <1>1 DEF TypeOK, SourceTypeOK, Rights
  <2> QED BY <1>2, <2>1, <2>2 DEF TypeOK, Places, client
<1>5. Placed' /\ CursorDescends' /\ SlotsAccounted' /\ AuditAccounted'
  BY <1>2 DEF Placed, CursorDescends, SlotsAccounted, AuditAccounted, client
<1>6. SeenAbove'
  <2>1. Cardinality(seen) <= Cardinality(Keys) /\ Cardinality(seen) \in Nat
    BY KeysFinite, FS_Subset, FS_CardinalityType DEF TypeOK
  <2>2. answered <= Cardinality(seen)
    BY <1>2, <2>1 DEF SeenAbove
  <2>3. answered < MaxPages
    BY <2>1, <2>2, KeysFinite DEF MaxPages, TypeOK
  <2> QED BY <1>2, <2>2, <2>3 DEF SeenAbove, client
<1>7. PlanRead'
  <2>1. Covers(since) /\ rights.model \in served /\ rights \in Rights /\ plan \in Rights /\ since \in Histories
    BY <1>2 DEF PlanRead, Running, TypeOK, SourceTypeOK
  <2>2. Covers(since)'
    BY <1>3, <2>1 DEF Covers
  <2>3. Covers(asked)' /\ asked'.roles = {rights.roles}
    BY <1>2, <1>3, <2>1 DEF Covers, Fresh, Mixtures, Rights
  <2>4. asked'.attrs \subseteq since.attrs /\ asked'.model \subseteq since.model
    BY <1>2, <2>1 DEF Covers, Fresh, Mixtures
  <2>5. plan'.roles = R /\ R \in since.roles \cup misread'
    BY <1>1, <1>3, <2>1 DEF Rights
  <2> QED BY <1>2, <1>3, <2>1, <2>2, <2>3, <2>4, <2>5 DEF PlanRead
<1>8. PageSettled' /\ ReplySettled'
  BY <1>2 DEF PageSettled, ReplySettled
<1>9. FileSettled'
  <2>1. /\ Settled' \subseteq Settled
        /\ \A t \in Settled' : (InWindow(t))' = InWindow(t) /\ (Key(t))' = Key(t)
        /\ \A t \in Settled' : (Selected(t, rights))' <=> Selected(t, rights)
    <3>1. rights \in Mixtures(since) /\ since \in Histories /\ source \subseteq Span
      BY <1>2 DEF PlanRead, Covers, Running, TypeOK, SourceTypeOK
    <3> QED BY <1>3, <3>1, SettledStay
  <2>2. \A t \in Settled' : (Past(t))' <=> Past(t)
    BY <1>2, <2>1 DEF Past, client
  <2> QED BY <1>2, <1>3, <2>1, <2>2 DEF FileSettled, Running, client
<1> QED BY <1>4, <1>5, <1>6, <1>7, <1>8, <1>9

\* The attributes and a slot, or none.
LEMMA AdmitKeeps ==
    ASSUME ScrollInv, Admit
    PROVE  ScrollInv'
<1> USE DEF ScrollInv
<1>1. at = "roles" /\ UNCHANGED <<others, answered, audited, unlogged>>
  BY DEF Admit
<1>2. CASE busy < Slots
  <2>1. /\ plan' = [plan EXCEPT !.attrs = rights.attrs] /\ at' = "admitted" /\ busy' = busy + 1
        /\ UNCHANGED <<sourceVars, client, page, reply, next, asked>>
    BY <1>2 DEF Admit
  <2>2. plan' \in Rights /\ plan'.roles = plan.roles /\ plan'.attrs = rights.attrs
    BY <2>1 DEF TypeOK, SourceTypeOK, Rights
  <2>3. TypeOK'
    BY <1>1, <1>2, <2>1, <2>2, SourceTyped, LimitAssumption DEF TypeOK, Places, client
  <2>4. Placed' /\ SeenAbove' /\ CursorDescends' /\ SlotsAccounted' /\ AuditAccounted'
    BY <1>1, <2>1 DEF Placed, SeenAbove, CursorDescends, SlotsAccounted, AuditAccounted, TypeOK, client
  <2>5. PlanRead'
    <3>1. rights.attrs \in asked.attrs
      BY <1>1 DEF PlanRead, Covers, Mixtures
    <3> QED BY <1>1, <2>1, <2>2, <3>1 DEF PlanRead, Covers, Running, sourceVars, client
  <2>6. PageSettled' /\ ReplySettled'
    BY <2>1 DEF PageSettled, ReplySettled
  <2>7. FileSettled'
    BY <2>1, SameSource DEF FileSettled, Running, Past, sourceVars, client
  <2> QED BY <2>3, <2>4, <2>5, <2>6, <2>7
<1>3. CASE ~(busy < Slots)
  <2>1. RequestFails /\ UNCHANGED busy
    BY <1>3 DEF Admit
  <2>2. TypeOK'
    BY <1>1, <2>1, FailedKeeps DEF TypeOK, Places
  <2>3. SlotsAccounted' /\ AuditAccounted'
    BY <1>1, <2>1, FailedKeeps DEF SlotsAccounted, AuditAccounted
  <2> QED BY <2>1, <2>2, <2>3, FailedKeeps
<1> QED BY <1>2, <1>3

\* A model that the replica may serve.
LEMMA QueryKeeps ==
    ASSUME ScrollInv, Query
    PROVE  ScrollInv'
<1> USE DEF ScrollInv
<1>1. PICK m \in served : plan' = [plan EXCEPT !.model = m]
  BY DEF Query
<1>2. /\ at = "admitted" /\ at' = "planned"
      /\ UNCHANGED <<sourceVars, client, page, reply, next, busy, others, history>>
  BY DEF Query
<1>3. /\ plan' \in Rights /\ plan'.roles = plan.roles /\ plan'.attrs = plan.attrs
      /\ plan'.model = m
  BY <1>1 DEF TypeOK, SourceTypeOK, Rights
<1>4. TypeOK'
  BY <1>2, <1>3, SourceTyped DEF TypeOK, Places, client, history
<1>5. Placed' /\ SeenAbove' /\ CursorDescends' /\ SlotsAccounted' /\ AuditAccounted'
  BY <1>2 DEF Placed, SeenAbove, CursorDescends, SlotsAccounted, AuditAccounted, client, history
<1>6. PlanRead'
  <2>1. m \in asked.model
    BY <1>2 DEF PlanRead, Covers
  <2> QED BY <1>2, <1>3, <2>1 DEF PlanRead, Covers, Running, sourceVars, client, history
<1>7. PageSettled' /\ ReplySettled'
  BY <1>2 DEF PageSettled, ReplySettled
<1>8. FileSettled'
  BY <1>2, SameSource DEF FileSettled, Running, Past, sourceVars, client
<1> QED BY <1>4, <1>5, <1>6, <1>7, <1>8

\* The rows of the page.
LEMMA SpansKeep ==
    ASSUME ScrollInv, Spans
    PROVE  ScrollInv'
<1> USE DEF ScrollInv
<1>1. /\ at = "listed" /\ at' = "sent" /\ answered' = answered + 1
      /\ reply' = UNION {SpansOf(t) : t \in {u \in page : Permitted(u, plan)}}
      /\ UNCHANGED <<sourceVars, client, plan, page, next, busy, others, audited, unlogged, asked>>
  BY DEF Spans
<1>2. TypeOK'
  <2>1. reply' \in SUBSET Span
    BY <1>1 DEF SpansOf, TypeOK, SourceTypeOK
  <2>2. answered' \in 0..MaxPages
    BY <1>1, KeysFinite DEF SeenAbove, TypeOK, MaxPages
  <2> QED BY <1>1, <2>1, <2>2, SourceTyped DEF TypeOK, Places, client
<1>3. Placed' /\ SlotsAccounted' /\ AuditAccounted'
  BY <1>1 DEF Placed, SlotsAccounted, AuditAccounted, TypeOK, client
<1>4. SeenAbove' /\ CursorDescends'
  <2>1. Cardinality(seen) \in Nat
    BY KeysFinite, FS_Subset, FS_CardinalityType DEF TypeOK
  <2> QED BY <1>1, <2>1 DEF SeenAbove, CursorDescends, TypeOK, client
<1>5. PlanRead'
  BY <1>1 DEF PlanRead, Covers, Running, sourceVars, client
<1>6. PageSettled'
  BY <1>1, SameSource DEF PageSettled, Past, sourceVars, client
<1>7. ReplySettled'
  <2> SUFFICES ASSUME stage = "paging", NEW s \in Span, s.trace \in Settled
               PROVE  s \in reply' <=> s \in source /\ s.trace \in page
    BY <1>1, SameSource DEF ReplySettled, sourceVars, client
  <2>1. Selected(s.trace, plan) <=> Selected(s.trace, rights)
    BY <1>1, PlanAgrees DEF TypeOK, SourceTypeOK
  <2>2. s.trace \in page => Permitted(s.trace, plan)
    BY <1>1, <2>1 DEF PageSettled, Selected, Permitted, InWindow
  <2> QED BY <1>1, <2>2 DEF SpansOf
<1>8. FileSettled'
  BY <1>1, SameSource DEF FileSettled, Running, Past, sourceVars, client
<1> QED BY <1>2, <1>3, <1>4, <1>5, <1>6, <1>7, <1>8

\* A request fails, or its process ends: the export with it, unless it is gone.
LEMMA FailKeeps ==
    ASSUME ScrollInv, Fail
    PROVE  ScrollInv'
<1> USE DEF ScrollInv
<1>1. /\ at # "none" /\ RequestFails
      /\ busy' = (IF at = "roles" THEN busy ELSE busy - 1)
      /\ unlogged' = (IF at = "sent" THEN unlogged + 1 ELSE unlogged)
      /\ UNCHANGED <<others, answered, audited>>
  BY DEF Fail
<1>2. SlotsAccounted' /\ AuditAccounted'
  BY <1>1, FailedKeeps DEF SlotsAccounted, AuditAccounted, TypeOK
<1>3. TypeOK'
  <2>1. busy' \in 0..Slots
    BY <1>1, LimitAssumption DEF SlotsAccounted, TypeOK
  <2>2. unlogged' \in 0..MaxPages
    BY <1>1, KeysFinite DEF AuditAccounted, TypeOK, MaxPages
  <2> QED BY <1>1, <2>1, <2>2, FailedKeeps DEF TypeOK, Places
<1> QED BY <1>1, <1>2, <1>3, FailedKeeps

LEMMA CrashKeeps ==
    ASSUME ScrollInv, Crash
    PROVE  ScrollInv'
<1> USE DEF ScrollInv
<1>1. /\ busy' = 0 /\ others' = 0 /\ HandlerDone
      /\ unlogged' = IF at = "sent" THEN unlogged + 1 ELSE unlogged
      /\ IF at # "none" /\ stage # "killed" THEN ExportFails ELSE UNCHANGED <<sourceVars, client>>
      /\ UNCHANGED <<answered, audited>>
  BY DEF Crash
<1>2. unlogged' \in 0..MaxPages /\ 0 \in 0..Slots
  BY <1>1, KeysFinite, LimitAssumption DEF AuditAccounted, TypeOK, MaxPages
<1>3. CASE at # "none"
  <2>1. RequestFails
    BY <1>1, <1>3 DEF RequestFails
  <2>2. SlotsAccounted' /\ AuditAccounted'
    BY <1>1, <1>3, <2>1, FailedKeeps DEF SlotsAccounted, AuditAccounted, TypeOK
  <2>3. TypeOK'
    BY <1>1, <1>2, <2>1, FailedKeeps DEF TypeOK, Places
  <2> QED BY <2>1, <2>2, <2>3, FailedKeeps
<1>4. CASE at = "none"
  <2>1. /\ UNCHANGED <<sourceVars, client>> /\ unlogged' = unlogged /\ at' = "none" /\ plan' = NoPlan
        /\ page' = {} /\ reply' = {} /\ next' = Start /\ asked' = NoHistory
    BY <1>1, <1>4 DEF HandlerDone
  <2>2. TypeOK'
    <3>1. SourceTypeOK' /\ plan' \in Rights /\ asked' \in Histories
      BY <2>1, SourceTyped, NoPlanInRights, HistoryTypes DEF TypeOK, SourceTypeOK
    <3> QED BY <1>1, <1>2, <2>1, <3>1 DEF TypeOK, Places, client
  <2>3. Placed' /\ SeenAbove' /\ CursorDescends' /\ SlotsAccounted' /\ AuditAccounted'
    BY <1>1, <1>4, <2>1 DEF Placed, SeenAbove, CursorDescends, SlotsAccounted, AuditAccounted, client
  <2>4. PlanRead'
    BY <2>1 DEF PlanRead, Covers, Running, sourceVars, client
  <2>5. PageSettled' /\ ReplySettled'
    BY <2>1 DEF PageSettled, ReplySettled
  <2>6. FileSettled'
    BY <2>1, SameSource DEF FileSettled, Running, Past, sourceVars, client
  <2> QED BY <2>2, <2>3, <2>4, <2>5, <2>6
<1> QED BY <1>3, <1>4

\* The steps of the export that no request takes part in.
LEMMA BeginKeeps ==
    ASSUME ScrollInv, Begin
    PROVE  ScrollInv'
<1> USE DEF ScrollInv
<1>1. /\ stage = "idle" /\ stage' = "paging" /\ file' = Empty /\ at = "none" /\ cursor = Start
      /\ ScrollBegins
      /\ UNCHANGED <<limit, cursor, seen, final, handler, busy, others, history>>
  BY DEF Begin, Placed
<1>2. Empty \in Contents /\ \A s \in Span : Empty[s] = 0
  BY DEF Empty, Contents
<1>3. TypeOK'
  BY <1>1, <1>2, SourceTyped DEF TypeOK, Stages, handler, history
<1>4. Placed' /\ CursorDescends' /\ SlotsAccounted' /\ AuditAccounted'
  BY <1>1, <1>2 DEF Placed, CursorDescends, SlotsAccounted, AuditAccounted, handler, history
<1>5. SeenAbove'
  <2>1. Cardinality(seen) \in Nat
    BY KeysFinite, FS_Subset, FS_CardinalityType DEF TypeOK
  <2> QED BY <1>1, <2>1 DEF SeenAbove, Placed, handler, history
<1>6. PlanRead'
  <2>1. since' = Fresh /\ rights' = rights /\ served' = served /\ rights.model \in served /\ rights \in Rights
    BY <1>1 DEF ScrollBegins, PlanRead, TypeOK, SourceTypeOK
  <2>2. Covers(since)'
    BY <2>1 DEF Covers, Fresh, Mixtures, Rights
  <2> QED BY <1>1, <2>1, <2>2 DEF PlanRead, handler
<1>7. PageSettled' /\ ReplySettled'
  BY <1>1 DEF PageSettled, ReplySettled, handler
<1>8. FileSettled'
  BY <1>1, <1>2 DEF FileSettled, Running, Past
<1> QED BY <1>3, <1>4, <1>5, <1>6, <1>7, <1>8

LEMMA ClosingKeeps ==
    ASSUME ScrollInv, Publish \/ PublishFails
    PROVE  ScrollInv'
<1> USE DEF ScrollInv
<1>1. /\ stage = "closing" /\ at = "none" /\ file \in Contents
      /\ ScrollEnds /\ UNCHANGED <<limit, handler, busy, others, history>>
      /\ stage' \in {"published", "failed"} /\ file' = Nothing /\ final' \in {final, file}
      /\ \/ cursor' = cursor /\ seen' = seen
         \/ cursor' = Start /\ seen' = {}
  BY DEF Publish, PublishFails, ExportFails, Placed
<1>2. TypeOK'
  BY <1>1, SourceTyped DEF TypeOK, Stages, handler, history
<1>3. Placed' /\ SeenAbove' /\ CursorDescends' /\ SlotsAccounted' /\ AuditAccounted'
  BY <1>1 DEF Placed, SeenAbove, CursorDescends, SlotsAccounted, AuditAccounted, handler, history
<1>4. at' = "none" /\ ~Running' /\ rights'.model \in served'
  BY <1>1 DEF Running, PlanRead, ScrollEnds, handler
<1> QED BY <1>2, <1>3, <1>4, AtRest

LEMMA KillKeeps ==
    ASSUME ScrollInv, Kill
    PROVE  ScrollInv'
<1> USE DEF ScrollInv
<1>1. /\ stage' = "killed" /\ file' = Nothing /\ seen' = {} /\ ScrollEnds
      /\ UNCHANGED <<limit, cursor, final, handler, busy, others, history>>
  BY DEF Kill
<1>2. TypeOK'
  BY <1>1, SourceTyped DEF TypeOK, Stages, handler, history
<1>3. Placed' /\ SeenAbove' /\ CursorDescends' /\ SlotsAccounted' /\ AuditAccounted'
  BY <1>1 DEF Kill, Running, Placed, SeenAbove, CursorDescends, SlotsAccounted, AuditAccounted, handler, history
<1>4. PlanRead'
  BY <1>1 DEF PlanRead, Covers, Running, ScrollEnds, handler, history
<1>5. PageSettled' /\ ReplySettled' /\ FileSettled'
  BY <1>1 DEF PageSettled, ReplySettled, FileSettled, Running
<1> QED BY <1>2, <1>3, <1>4, <1>5

LEMMA EnvironmentKeeps ==
    ASSUME ScrollInv, Environment
    PROVE  ScrollInv'
<1> USE DEF ScrollInv
<1>1. /\ Change(Running) /\ asked' = (IF at = "none" THEN asked ELSE Extended(asked))
      /\ UNCHANGED <<client, handler, busy, others, answered, audited, unlogged>>
  BY DEF Environment
<1>2. /\ SourceTypeOK' /\ rights.model \in served
      /\ rights' \in Rights /\ rights'.model \in served' /\ served' \subseteq served \cup {rights'.model}
  BY <1>1, SourceTyped, IdleChange DEF TypeOK, PlanRead
<1>3. TypeOK'
  <2>1. asked' \in Histories
    BY <1>1, <1>2, HistoryTypes DEF TypeOK
  <2> QED BY <1>1, <1>2, <2>1 DEF TypeOK, client, handler
<1>4. Placed' /\ SeenAbove' /\ CursorDescends' /\ SlotsAccounted' /\ AuditAccounted'
  BY <1>1 DEF Placed, SeenAbove, CursorDescends, SlotsAccounted, AuditAccounted, client, handler
<1>5. \A h \in Histories : served \subseteq h.model =>
          /\ h.roles \subseteq Extended(h).roles /\ h.attrs \subseteq Extended(h).attrs
          /\ h.model \subseteq Extended(h).model
          /\ rights' \in Mixtures(Extended(h)) /\ served' \subseteq Extended(h).model
  BY <1>2 DEF Extended, Mixtures, Histories, Rights
<1>6. Running => steady' \subseteq steady /\ misread' = misread /\ since' = Extended(since)
  <2> SUFFICES ASSUME Running PROVE steady' \subseteq steady /\ misread' = misread /\ since' = Extended(since)
    OBVIOUS
  <2>1. Running = TRUE
    BY DEF Running
  <2> QED BY <1>1, <1>2, <2>1, RunningChange DEF TypeOK
<1>7. PlanRead'
  <2>1. Running => Covers(since)'
    BY <1>5, <1>6 DEF PlanRead, Covers, TypeOK, SourceTypeOK
  <2>2. ASSUME at # "none" PROVE Covers(asked)' /\ asked' = Extended(asked)
    BY <1>1, <1>5, <2>2 DEF PlanRead, Covers, TypeOK
  <2>3. ASSUME at # "none"
        PROVE  /\ \E R \in asked'.roles : plan.roles \subseteq R
               /\ at # "roles" => plan.attrs \in asked'.attrs
               /\ at \notin {"roles", "admitted"} => plan.model \in asked'.model
    BY <2>2, <2>3 DEF PlanRead, Extended
  <2>4. ASSUME at # "none", stage = "paging"
        PROVE  /\ asked'.attrs \subseteq since'.attrs /\ asked'.model \subseteq since'.model
               /\ plan.roles \in since'.roles \cup misread'
    BY <1>6, <2>2, <2>4 DEF PlanRead, Extended, Running
  <2> QED BY <1>1, <1>2, <2>1, <2>2, <2>3, <2>4 DEF PlanRead, Running, client, handler
<1>8. CASE ~Running
  BY <1>1, <1>3, <1>4, <1>7, <1>8 DEF PageSettled, ReplySettled, FileSettled, Running, client
<1>9. CASE Running
  <2>1. \A s \in Span : s.trace \in steady' => (s \in source' <=> s \in source)
    <3>1. Running = TRUE
      BY <1>9 DEF Running
    <3> QED BY <1>1, <1>2, <3>1, RunningChange DEF TypeOK
  <2>2. /\ Settled' \subseteq Settled /\ Settled' \subseteq steady'
        /\ \A t \in Settled' : (InWindow(t))' = InWindow(t) /\ (Key(t))' = Key(t)
        /\ \A t \in Settled' : (Selected(t, rights))' <=> Selected(t, rights)
    <3>1. /\ rights \in Mixtures(since) /\ since \in Histories /\ since' \in Histories
          /\ source \subseteq Span /\ source' \subseteq Span
      BY <1>2, <1>9 DEF PlanRead, Covers, TypeOK, SourceTypeOK
    <3>2. /\ since.roles \subseteq since'.roles /\ since.attrs \subseteq since'.attrs
          /\ since.model \subseteq since'.model
      BY <1>5, <1>6, <1>9 DEF PlanRead, Covers, TypeOK, SourceTypeOK
    <3> QED BY <1>6, <1>9, <2>1, <3>1, <3>2, SettledStay
  <2>3. \A t \in Settled' : (Past(t))' <=> Past(t)
    BY <1>1, <2>2 DEF Past, client
  <2>4. PageSettled'
    BY <1>1, <2>2, <2>3 DEF PageSettled, client, handler
  <2>5. ReplySettled'
    BY <1>1, <2>1, <2>2 DEF ReplySettled, client, handler
  <2>6. FileSettled'
    <3>1. ASSUME NEW s \in Span, s.trace \in Settled'
          PROVE  file'[s] = IF /\ s \in source' /\ (Selected(s.trace, rights))'
                               /\ stage' = "closing" \/ ~(Past(s.trace))'
                            THEN 1 ELSE 0
      BY <1>1, <1>9, <2>1, <2>2, <2>3, <3>1 DEF FileSettled, client
    <3> QED BY <3>1 DEF FileSettled
  <2> QED BY <1>3, <1>4, <1>7, <2>4, <2>5, <2>6
<1> QED BY <1>8, <1>9

\* The traces of a page.
LEMMA ListKeeps ==
    ASSUME ScrollInv, List
    PROVE  ScrollInv'
<1> USE DEF ScrollInv
<1> DEFINE T == Remaining(plan)
<1>1. /\ at = "planned" /\ at' = "listed" /\ page' = FirstOf(T)
      /\ next' = IF Cardinality(page') = limit THEN Key(Last(page')) ELSE Start
      /\ UNCHANGED <<sourceVars, client, plan, reply, busy, others, history>>
  BY DEF List
<1>2. T \subseteq Traces /\ \A t \in T : Key(t) \in Keys /\ Key(t) # Start
  BY StartInWindow DEF Remaining, Selected, TypeOK, SourceTypeOK
<1>3. limit \in Nat \ {0}
  BY LimitAssumption DEF TypeOK
<1>4. page' \subseteq T
  BY <1>1 DEF FirstOf
<1>5. next' # Start => page' # {} /\ next' = Key(Last(page')) /\ Last(page') \in T
  <2> SUFFICES ASSUME next' # Start
               PROVE  page' # {} /\ next' = Key(Last(page')) /\ Last(page') \in T
    OBVIOUS
  <2>1. Cardinality(page') = limit /\ next' = Key(Last(page'))
    BY <1>1
  <2>2. page' # {}
    BY <1>3, <2>1, FS_EmptySet
  <2>3. Last(page') \in page'
    BY <1>2, <1>4, <2>2, LastIsLeast
  <2> QED BY <1>4, <2>1, <2>2, <2>3
<1>6. next' \in Keys \cup {Start}
  BY <1>2, <1>5
<1>7. \A t \in T : t \in page' <=> (next' = Start \/ ~Below(Key(t), next'))
  <2> SUFFICES ASSUME NEW t \in T
               PROVE  t \in page' <=> (next' = Start \/ ~Below(Key(t), next'))
    OBVIOUS
  <2>1. /\ FirstOf(T) # {} => (t \in FirstOf(T) <=> ~Below(Key(t), Key(Last(FirstOf(T)))))
        /\ Cardinality(FirstOf(T)) # limit => FirstOf(T) = T
    BY <1>2, <1>3, PageIsDownToLast
  <2>2. CASE Cardinality(page') # limit
    BY <1>1, <2>1, <2>2
  <2>3. CASE Cardinality(page') = limit
    <3>1. page' # {}
      BY <1>3, <2>3, FS_EmptySet
    <3>2. next' = Key(Last(page')) /\ Last(page') \in T
      BY <1>1, <1>2, <1>4, <2>3, <3>1, LastIsLeast
    <3> QED BY <1>1, <1>2, <2>1, <3>1, <3>2
  <2> QED BY <2>2, <2>3
<1>9. TypeOK'
  BY <1>1, <1>2, <1>4, <1>6, SourceTyped DEF TypeOK, Places, client, history
<1>10. Placed' /\ SeenAbove' /\ SlotsAccounted' /\ AuditAccounted'
  BY <1>1 DEF Placed, SeenAbove, SlotsAccounted, AuditAccounted, client, history
<1>11. CursorDescends'
  <2> SUFFICES ASSUME next' # Start
               PROVE  next' \notin seen /\ (cursor = Start \/ Below(next', cursor))
    BY <1>1 DEF CursorDescends, client
  <2>1. cursor = Start \/ Below(next', cursor)
    BY <1>5 DEF Remaining, Past
  <2>2. next' \in Nat \X Nat /\ seen \subseteq Nat \X Nat /\ (cursor # Start => cursor \in Nat \X Nat)
    BY <1>2, <1>5, KeysFinite DEF TypeOK
  <2>3. \A c \in seen : Below(next', c)
    BY <2>1, <2>2, BelowOrder DEF SeenAbove
  <2> QED BY <2>1, <2>2, <2>3, BelowOrder
<1>12. PlanRead'
  BY <1>1 DEF PlanRead, Covers, Running, sourceVars, client, history
<1>13. PageSettled'
  <2>1. ASSUME stage = "paging", NEW t \in Settled
        PROVE  t \in page' <=> Selected(t, rights) /\ Past(t) /\ (next' = Start \/ ~Below(Key(t), next'))
    <3>1. Selected(t, plan) <=> Selected(t, rights)
      BY <1>1, <2>1, PlanAgrees DEF TypeOK, SourceTypeOK
    <3>2. t \in T <=> Selected(t, plan) /\ Past(t)
      BY DEF Remaining, Settled, TypeOK, SourceTypeOK
    <3> QED BY <1>4, <1>7, <3>1, <3>2
  <2> QED BY <1>1, <2>1, SameSource DEF PageSettled, Past, client
<1>14. ReplySettled'
  BY <1>1 DEF ReplySettled
<1>15. FileSettled'
  BY <1>1, SameSource DEF FileSettled, Running, Past, sourceVars, client
<1> QED BY <1>9, <1>10, <1>11, <1>12, <1>13, <1>14, <1>15

\* The end of a request, and what the export does with the page.
LEMMA FinishKeeps ==
    ASSUME ScrollInv, Finish
    PROVE  ScrollInv'
<1> USE DEF ScrollInv
<1>1. /\ at = "sent" /\ TakePage /\ HandlerDone /\ busy' = busy - 1
      /\ \/ audited' = audited + 1 /\ unlogged' = unlogged
         \/ unlogged' = unlogged + 1 /\ audited' = audited
      /\ UNCHANGED <<others, answered>>
  BY DEF Finish
<1>2. SlotsAccounted' /\ AuditAccounted'
  BY <1>1 DEF SlotsAccounted, AuditAccounted, TypeOK, HandlerDone
<1>3. /\ busy' \in 0..Slots /\ audited' \in 0..MaxPages /\ unlogged' \in 0..MaxPages
      /\ at' \in Places /\ plan' \in Rights /\ page' \in SUBSET Traces
      /\ reply' \in SUBSET Span /\ next' \in Keys \cup {Start} /\ asked' \in Histories
      /\ others' \in 0..Slots /\ answered' \in 0..MaxPages
  <2>1. busy' \in 0..Slots /\ audited' \in 0..MaxPages /\ unlogged' \in 0..MaxPages
    BY <1>1, KeysFinite, LimitAssumption DEF AuditAccounted, SlotsAccounted, TypeOK, MaxPages
  <2>2. plan' \in Rights /\ asked' \in Histories
    BY <1>1, NoPlanInRights, HistoryTypes DEF HandlerDone, TypeOK, SourceTypeOK
  <2> QED BY <1>1, <2>1, <2>2 DEF HandlerDone, TypeOK, Places
<1>4. PageSettled' /\ ReplySettled' /\ CursorDescends'
  BY <1>1 DEF PageSettled, ReplySettled, CursorDescends, HandlerDone
<1>5. at' = "none" /\ next' = Start
  BY <1>1 DEF HandlerDone
<1>6. CASE stage = "killed"
  <2>1. UNCHANGED <<sourceVars, client>>
    BY <1>1, <1>6 DEF TakePage
  <2>2. TypeOK' /\ Placed' /\ SeenAbove' /\ FileSettled'
    BY <1>1, <1>3, <1>5, <1>6, <2>1, SourceTyped
    DEF TypeOK, Placed, SeenAbove, FileSettled, Running, client
  <2>3. PlanRead'
    BY <1>5, <1>6, <2>1 DEF PlanRead, Running, sourceVars, client
  <2> QED BY <1>2, <1>4, <2>2, <2>3
<1>7. CASE stage # "killed"
  <2>1. stage = "paging" /\ next \notin seen
    BY <1>1, <1>7, StartAssumption DEF Placed, CursorDescends, TypeOK
  <2>2. /\ file' = Append(reply) /\ seen' = (IF next = Start THEN {} ELSE seen \cup {next})
        /\ cursor' = next /\ stage' = (IF next = Start THEN "closing" ELSE "paging")
        /\ UNCHANGED <<sourceVars, limit, final>>
    BY <1>1, <2>1 DEF TakePage
  <2>3. file \in Contents /\ Append(reply) \in Contents
    BY <2>1 DEF Placed, Contents, Append
  <2>4. TypeOK' /\ Placed'
    BY <1>3, <1>5, <2>1, <2>2, <2>3, SourceTyped DEF TypeOK, Placed, Stages
  <2>5. SeenAbove'
    <3>1. IsFiniteSet(seen) /\ Cardinality(seen) \in Nat
      BY KeysFinite, FS_Subset, FS_CardinalityType DEF TypeOK
    <3>2. next # Start => Cardinality(seen \cup {next}) = Cardinality(seen) + 1
      BY <2>1, <3>1, FS_AddElement
    <3>3. answered <= Cardinality(seen) + 1
      BY <1>1, <2>1, <3>1 DEF SeenAbove
    <3>4. next # Start => \A c \in seen : Below(next, c)
      <4> SUFFICES ASSUME next # Start, NEW c \in seen PROVE Below(next, c)
        OBVIOUS
      <4>1. cursor # Start /\ Below(next, cursor) /\ (c = cursor \/ Below(cursor, c))
        BY DEF SeenAbove, CursorDescends
      <4>2. next \in Nat \X Nat /\ cursor \in Nat \X Nat /\ c \in Nat \X Nat
        BY <4>1, KeysFinite DEF TypeOK
      <4> QED BY <4>1, <4>2, BelowOrder
    <3> QED BY <1>1, <1>5, <2>2, <3>1, <3>2, <3>3, <3>4 DEF SeenAbove
  <2>6. FileSettled'
    <3> SUFFICES ASSUME NEW s \in Span, s.trace \in Settled
                 PROVE  file'[s] = IF /\ s \in source /\ (Selected(s.trace, rights))'
                                      /\ stage' = "closing" \/ ~(Past(s.trace))'
                                   THEN 1 ELSE 0
      BY <2>2, SameSource DEF FileSettled, sourceVars
    <3> DEFINE t == s.trace
    <3>1. (InWindow(t))' = InWindow(t) /\ (Key(t))' = Key(t)
      BY <2>2, SameSource
    <3>2. (Selected(t, rights))' <=> Selected(t, rights)
      BY <2>2, SameSource
    <3>3. (Past(t))' <=> next = Start \/ Below(Key(t), next)
      BY <2>2, <3>1 DEF Past
    <3>4. file[s] = IF s \in source /\ Selected(t, rights) /\ ~Past(t) THEN 1 ELSE 0
      BY <2>1 DEF FileSettled, Running
    <3>5. s \in reply <=> s \in source /\ t \in page
      BY <1>1, <2>1 DEF ReplySettled
    <3>6. t \in page <=> Selected(t, rights) /\ Past(t) /\ (next = Start \/ ~Below(Key(t), next))
      BY <1>1, <2>1 DEF PageSettled
    <3>7. Selected(t, rights) /\ ~Past(t) /\ next # Start => ~Below(Key(t), next)
      <4> SUFFICES ASSUME Selected(t, rights), ~Past(t), next # Start, Below(Key(t), next) PROVE FALSE
        OBVIOUS
      <4>1. cursor # Start /\ ~Below(Key(t), cursor) /\ Below(next, cursor)
        BY DEF Past, CursorDescends
      <4>2. Key(t) \in Keys
        <5>1. t \in Traces /\ source \subseteq Span /\ InWindow(t) # {}
          BY DEF Selected, Traces, TypeOK, SourceTypeOK
        <5> QED BY <5>1, StartInWindow
      <4>3. next \in Nat \X Nat /\ cursor \in Nat \X Nat /\ Key(t) \in Nat \X Nat
        BY <4>1, <4>2, KeysFinite DEF TypeOK
      <4> QED BY <4>1, <4>3, BelowOrder
    <3>8. file'[s] = IF s \in reply /\ file[s] < 2 THEN file[s] + 1 ELSE file[s]
      BY <2>2 DEF Append
    <3> HIDE DEF t
    <3>9. file'[s] = IF s \in source /\ Selected(t, rights) /\ (next = Start \/ ~Below(Key(t), next))
                     THEN 1 ELSE 0
      BY <3>4, <3>5, <3>6, <3>7, <3>8
    <3>10. stage' = "closing" \/ ~(Past(t))' <=> next = Start \/ ~Below(Key(t), next)
      BY <2>2, <3>3
    <3> QED BY <3>2, <3>9, <3>10 DEF t
  <2>7. PlanRead'
    BY <1>5, <2>1, <2>2 DEF PlanRead, Covers, Running, sourceVars
  <2> QED BY <1>2, <1>4, <2>4, <2>5, <2>6, <2>7
<1> QED BY <1>6, <1>7

LEMMA Inductive == ScrollInv /\ [Next]_vars => ScrollInv'
<1> SUFFICES ASSUME ScrollInv, [Next]_vars PROVE ScrollInv'
  OBVIOUS
<1>1. CASE Next
  BY <1>1, ListKeeps, SpansKeep, FinishKeeps, AskKeeps, AdmitKeeps, QueryKeeps, ClosingKeeps, BeginKeeps,
     KillKeeps, FailKeeps, CrashKeeps, OthersKeep, EnvironmentKeeps DEF Next, Handler, Client
<1>2. CASE UNCHANGED vars
  <2>1. UNCHANGED <<sourceVars, client, handler, busy, others, history>>
    BY <1>2 DEF vars
  <2>2. TypeOK'
    BY <2>1, SourceTyped DEF ScrollInv, TypeOK, client, handler, history
  <2>3. Placed' /\ SeenAbove' /\ CursorDescends' /\ SlotsAccounted' /\ AuditAccounted'
    BY <2>1 DEF ScrollInv, Placed, SeenAbove, CursorDescends, SlotsAccounted, AuditAccounted, client, handler,
                history
  <2>4. PlanRead'
    BY <2>1 DEF ScrollInv, PlanRead, Covers, Running, sourceVars, client, handler, history
  <2>5. PageSettled' /\ ReplySettled' /\ FileSettled'
    BY <2>1, SameSource
    DEF ScrollInv, PageSettled, ReplySettled, FileSettled, Running, Past, sourceVars, client, handler
  <2> QED BY <2>2, <2>3, <2>4, <2>5 DEF ScrollInv
<1> QED BY <1>1, <1>2

-----------------------------------------------------------------------------
(* The theorems.                                                           *)

\* The inductive invariant holds in every reachable state.
THEOREM ScrollInvariant == Spec => []ScrollInv
BY Initially, Inductive, PTL DEF Spec

\* Every variable keeps its type; a scroll answers no more pages than there are
\* positions in the window, and one.
THEOREM TypeCorrect == Spec => []TypeOK
<1>1. ScrollInv => TypeOK
  BY DEF ScrollInv
<1> QED BY ScrollInvariant, <1>1, PTL

\* The cursor of a page is below every one that was given before.
THEOREM CursorAlwaysDescends == Spec => []CursorDescends
<1>1. ScrollInv => CursorDescends
  BY DEF ScrollInv
<1> QED BY ScrollInvariant, <1>1, PTL

\* A slot is held by the request at work and by nobody else.
THEOREM SlotsAlwaysAccounted == Spec => []SlotsAccounted
<1>1. ScrollInv => SlotsAccounted
  BY DEF ScrollInv
<1> QED BY ScrollInvariant, <1>1, PTL

\* A response that was begun is audited, or known to have none.
THEOREM AuditAlwaysAccounted == Spec => []AuditAccounted
<1>1. ScrollInv => AuditAccounted
  BY DEF ScrollInv
<1> QED BY ScrollInvariant, <1>1, PTL

\* Every row that is sent is of a trace that was permitted by roles and attributes
\* the caller had since the request came, and a model that was current less than its
\* TTL before that, or since.
THEOREM NothingEverUnpermitted == Spec => NothingUnpermitted
<1>1. ASSUME ScrollInv, [Next]_vars
      PROVE  [SendsPermitted]_vars
  <2> SUFFICES ASSUME Next, at = "listed", at' = "sent", NEW s \in reply'
               PROVE  \E r \in Mixtures(asked) : Permitted(s.trace, r)
    BY <1>1 DEF SendsPermitted
  <2>1. Spans
    BY DEF Next, Handler, Client, Admit, Query, List, Finish, RequestFails, HandlerDone, Ask, Publish, Begin,
           PublishFails, Kill, Fail, Crash, OthersTake, OthersRelease, Environment, handler
  <2>2. PICK t \in page : Permitted(t, plan) /\ s \in SpansOf(t)
    BY <2>1 DEF Spans
  <2>3. s.trace = t
    BY <2>2 DEF SpansOf
  <2>4. PICK R \in asked.roles : plan.roles \subseteq R
    BY <1>1 DEF ScrollInv, PlanRead
  <2>5. plan.attrs \in asked.attrs /\ plan.model \in asked.model /\ asked \in Histories /\ plan \in Rights
    BY <1>1 DEF ScrollInv, PlanRead, TypeOK
  <2> DEFINE r == [plan EXCEPT !.roles = R]
  <2>6. r \in Rights /\ r \in Mixtures(asked) /\ plan.roles \in SUBSET r.roles
    BY <2>4, <2>5 DEF Rights, Mixtures, Histories
  <2>7. plan = [r EXCEPT !.roles = plan.roles]
    BY <2>5 DEF Rights
  <2>8. Permits[plan] \subseteq Permits[r]
    <3> HIDE DEF r
    <3> QED BY <2>6, <2>7, RoleAssumption
  <2>9. Permitted(s.trace, r)
    BY <2>2, <2>3, <2>8 DEF Permitted
  <2> QED BY <2>6, <2>9
<1> QED BY <1>1, ScrollInvariant, PTL DEF Spec, NothingUnpermitted

\* What the promise says of the table and the rights, the scroll says as well.
LEMMA SamePromise ==
    /\ Promise!Settled = Settled
    /\ \A t, s : Promise!Clear(t) =>
          Promise!Times(t, s) = IF s \in SpansOf(t) /\ Selected(t, rights) THEN 1 ELSE 0
    /\ Promise!ScrollBegins <=> ScrollBegins
    /\ Promise!ScrollEnds <=> ScrollEnds
    /\ \A running : Promise!Change(running) <=> Change(running)
    /\ \A R : Promise!ReadRoles(R) <=> ReadRoles(R)
    /\ Promise!SourceInit <=> SourceInit
<1>1. \A t : Promise!SpansOf(t) = SpansOf(t) /\ Promise!InWindow(t) = InWindow(t)
  BY DEF Promise!SpansOf, Promise!InWindow, Promise!Whole, SpansOf, InWindow, Whole
<1>2. \A t, r : Promise!Selected(t, r) <=> Selected(t, r)
  BY <1>1 DEF Promise!Selected, Selected
<1>3. Promise!Settled = Settled
  BY <1>2 DEF Promise!Settled, Promise!Mixtures, Settled, Mixtures
<1>4. ASSUME NEW t, NEW s, Promise!Clear(t)
      PROVE  Promise!Times(t, s) = IF s \in SpansOf(t) /\ Selected(t, rights) THEN 1 ELSE 0
  <2>1. Promise!Wanted(t) <=> Selected(t, rights)
    BY <1>1, <1>4 DEF Promise!Clear, Promise!Wanted, Selected
  <2> QED BY <1>1, <2>1 DEF Promise!Times
<1>5. (Promise!ScrollBegins <=> ScrollBegins) /\ (Promise!ScrollEnds <=> ScrollEnds)
  BY DEF Promise!ScrollBegins, Promise!ScrollEnds, Promise!Fresh, Promise!NoHistory, Promise!Traces, ScrollBegins,
         ScrollEnds, Fresh, NoHistory, Traces
<1>6. \A running : Promise!Change(running) <=> Change(running)
  <2>1. \A running, changed : Promise!Observed(running, changed) <=> Observed(running, changed)
    BY DEF Promise!Observed, Promise!Extended, Observed, Extended
  <2> QED BY <2>1 DEF Promise!Change, Promise!Arrive, Promise!Expire, Promise!Assign, Promise!WriteModel,
                      Promise!Lapse, Promise!Rights, Change, Arrive, Expire, Assign, WriteModel, Lapse, Rights
<1>7. \A R : Promise!ReadRoles(R) <=> ReadRoles(R)
  BY DEF Promise!ReadRoles, ReadRoles
<1>8. Promise!SourceInit <=> SourceInit
  BY DEF Promise!SourceInit, Promise!Rights, Promise!Traces, Promise!NoHistory, SourceInit, Rights, Traces, NoHistory
<1> QED BY <1>3, <1>4, <1>5, <1>6, <1>7, <1>8

\* What is left alone, and on which the rights agree, is exported whole and once, or
\* nothing is.
THEOREM ScrollImplementsPromise == Spec => ImplementsPromise
<1>1. Init => Promise!Init
  BY SamePromise DEF Init, Running, Promise!Init
<1>2. ASSUME ScrollInv, ScrollInv', [Next]_vars
      PROVE  [Promise!Next]_(Promise!vars)
  <2> USE DEF Promise!Next, Promise!vars, Promise!sourceVars
  <2>1. CASE Begin
    <3>1. Promise!Begin
      BY <1>2, <2>1, SamePromise DEF Begin, Promise!Begin, Running, ScrollInv, Placed
    <3> QED BY <3>1
  <2>2. CASE Publish
    <3>1. stage = "closing" /\ final' = file /\ stage' = "published" /\ ScrollEnds
      BY <2>2 DEF Publish
    <3>2. file \in Contents
      BY <1>2, <3>1 DEF ScrollInv, Placed
    <3>3. ASSUME NEW t \in Settled, Promise!Clear(t), NEW s \in Span, s.trace = t
          PROVE  file[s] = Promise!Times(t, s)
      <4>1. file[s] = IF s \in source /\ Selected(s.trace, rights) THEN 1 ELSE 0
        BY <1>2, <3>1, <3>3 DEF ScrollInv, FileSettled, Running
      <4>2. s \in source <=> s \in SpansOf(t)
        BY <3>3 DEF SpansOf
      <4> QED BY <3>3, <4>1, <4>2, SamePromise
    <3>4. Promise!Holds(file)
      BY <3>3, SamePromise DEF Promise!Holds
    <3>5. Promise!Publish
      BY <3>1, <3>2, <3>4, SamePromise DEF Promise!Publish, Promise!Contents, Contents, Running
    <3> QED BY <3>5
  <2>3. CASE Environment
    <3>1. Promise!Environment
      BY <2>3, SamePromise DEF Environment, Promise!Environment, client, Running
    <3> QED BY <3>1
  <2>4. CASE Ask
    <3>1. PICK R \in SUBSET rights.roles : ReadRoles(R)
      BY <2>4 DEF Ask
    <3>2. R \in SUBSET Role
      BY <1>2 DEF ScrollInv, TypeOK, SourceTypeOK, Rights
    <3>3. Running /\ Running' /\ final' = final
      BY <2>4 DEF Ask, Running, client
    <3>4. Running' = Running
      BY <3>3 DEF Running
    <3>5. Promise!Read
      BY <3>1, <3>2, <3>3, <3>4, SamePromise DEF Promise!Read
    <3> QED BY <3>5
  <2>5. ASSUME UNCHANGED sourceVars, final' = final, Running' <=> Running
        PROVE  [Promise!Next]_(Promise!vars)
    <3>1. Running' = Running
      BY <2>5 DEF Running
    <3> QED BY <2>5, <3>1 DEF sourceVars
  <2>6. ASSUME ScrollEnds, final' = final, Running, ~Running'
        PROVE  [Promise!Next]_(Promise!vars)
    <3>1. Running' = FALSE
      BY <2>6 DEF Running
    <3>2. Promise!GiveUp
      BY <2>6, <3>1, SamePromise DEF Promise!GiveUp
    <3> QED BY <3>2
  <2>7. CASE UNCHANGED vars
    BY <2>5, <2>7 DEF vars, client, Running
  <2>8. CASE Query \/ List \/ Spans \/ OthersTake \/ OthersRelease
    BY <2>5, <2>8 DEF Query, List, Spans, OthersTake, OthersRelease, client, Running
  <2>9. ASSUME UNCHANGED <<sourceVars, client>> PROVE [Promise!Next]_(Promise!vars)
    BY <2>5, <2>9 DEF client, Running
  <2>10. ASSUME ExportFails, Running PROVE [Promise!Next]_(Promise!vars)
    BY <2>6, <2>10 DEF ExportFails, Running
  <2>11. CASE Admit \/ Fail \/ Crash
    <3>1. \/ UNCHANGED <<sourceVars, client>>
          \/ at # "none" /\ stage # "killed" /\ ExportFails
      BY <2>11 DEF Admit, Fail, Crash, RequestFails
    <3>2. at # "none" /\ stage # "killed" => Running
      BY <1>2 DEF ScrollInv, Placed, Running
    <3> QED BY <2>9, <2>10, <3>1, <3>2
  <2>12. CASE PublishFails
    BY <2>10, <2>12 DEF PublishFails, Running
  <2>13. CASE Kill
    BY <2>6, <2>13 DEF Kill, Running
  <2>14. CASE Finish
    <3>1. at = "sent" /\ TakePage
      BY <2>14 DEF Finish
    <3>2. CASE stage = "killed"
      BY <2>9, <3>1, <3>2 DEF TakePage
    <3>3. CASE stage # "killed"
      <4>1. Running
        BY <1>2, <3>1, <3>3 DEF ScrollInv, Placed, Running
      <4>2. CASE next \in seen
        BY <2>10, <3>1, <3>3, <4>1, <4>2 DEF TakePage
      <4>3. CASE next \notin seen
        <5>1. UNCHANGED <<sourceVars, final>> /\ stage' \in {"closing", "paging"}
          BY <3>1, <3>3, <4>3 DEF TakePage
        <5> QED BY <2>5, <4>1, <5>1 DEF Running
      <4> QED BY <4>2, <4>3
    <3> QED BY <3>2, <3>3
  <2> QED BY <1>2, <2>1, <2>2, <2>3, <2>4, <2>7, <2>8, <2>11, <2>12, <2>13, <2>14 DEF Next, Handler, Client
<1> QED BY <1>1, <1>2, ScrollInvariant, PTL DEF Spec, ImplementsPromise, Promise!Spec
=============================================================================
