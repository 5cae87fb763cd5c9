----------------------------- MODULE TraceScroll -----------------------------
(***************************************************************************)
(* The scroll over trace rows: export and exportPage of                    *)
(* internal/localmcp/localmcp.go ask POST /traces/query page by page, and  *)
(* queryTraces, streamSpans, List and Spans of internal/httpapi/traces.go  *)
(* and internal/traces/traces.go answer, behind the gate of                *)
(* internal/httpapi/limits.go.                                             *)
(*                                                                         *)
(* A request reads the roles and the attributes of its caller and passes   *)
(* the gate (resolve and queryLimited), takes the model of the replica     *)
(* (query), and makes two statements on the source: the traces of the      *)
(* page, and their rows.  Each step may fail, run out of time, or be cut   *)
(* off with its process; a response that breaks off is no response to the  *)
(* export, which drops the file.                                           *)
(***************************************************************************)
EXTENDS TraceSource

CONSTANTS Limits,      \* traces on a page
          Slots,       \* LIGHTSHIP_QUERY_CONCURRENCY
          Nothing,     \* no file
          Start        \* the cursor of the first page, and of no page

Keys == (0..To) \X Traces

ASSUME LimitAssumption == Limits \subseteq Nat \ {0} /\ Slots \in Nat \ {0}
ASSUME StartAssumption == Start \notin Keys /\ Nothing \notin [Span -> 0..2]

VARIABLES stage,     \* of the export
          limit,
          cursor,    \* of the page it asks for
          seen,      \* the cursors it was given
          file,      \* the rows it has written, to a directory of its own
          final,     \* what is under the name of the export
          at,        \* where the handler of its request is
          plan,      \* the rights the handler goes by
          page,      \* the traces of the page
          reply,     \* the rows of the response
          next,      \* the cursor in it
          busy,      \* slots taken
          others,    \* how many of them by other requests
          answered,  \* history: responses with rows that were begun
          audited,   \* history: entries for them
          unlogged,  \* history: those without, with an error or a crash in the log
          asked      \* history: what each of the rights was since the request came

client == <<stage, limit, cursor, seen, file, final>>
handler == <<at, plan, page, reply, next>>
history == <<answered, audited, unlogged, asked>>
vars == <<sourceVars, client, handler, busy, others, history>>

Contents == [Span -> 0..2]
Empty == [s \in Span |-> 0]
MaxPages == Cardinality(Keys) + 1

Stages == {"idle", "paging", "closing", "published", "failed", "killed"}
Places == {"none", "roles", "admitted", "planned", "listed", "sent"}
NoPlan == CHOOSE r \in Rights : TRUE

TypeOK ==
    /\ SourceTypeOK
    /\ stage \in Stages
    /\ limit \in Limits
    /\ cursor \in Keys \cup {Start}
    /\ seen \in SUBSET Keys
    /\ file \in Contents \cup {Nothing}
    /\ final \in Contents \cup {Nothing}
    /\ at \in Places
    /\ plan \in Rights
    /\ page \in SUBSET Traces
    /\ reply \in SUBSET Span
    /\ next \in Keys \cup {Start}
    /\ busy \in 0..Slots
    /\ others \in 0..Slots
    /\ answered \in 0..MaxPages
    /\ audited \in 0..MaxPages
    /\ unlogged \in 0..MaxPages
    /\ asked \in Histories

Init ==
    /\ SourceInit
    /\ stage = "idle" /\ limit \in Limits
    /\ cursor = Start /\ seen = {}
    /\ file = Nothing /\ final = Nothing
    /\ at = "none" /\ plan = NoPlan /\ page = {} /\ reply = {} /\ next = Start
    /\ busy = 0 /\ others = 0
    /\ answered = 0 /\ audited = 0 /\ unlogged = 0
    /\ asked = NoHistory

Running == stage \in {"paging", "closing"}

-----------------------------------------------------------------------------
(* The order of the scroll.                                                *)

\* StartNanos of a trace in the window, which is what its position goes by.
Earliest(W) == CHOOSE n \in 0..To : (\E s \in W : s.time = n) /\ \A s \in W : n <= s.time
StartOf(t) == Earliest(InWindow(t))

Key(t) == <<StartOf(t), t>>
Below(a, b) == a[1] < b[1] \/ (a[1] = b[1] /\ a[2] < b[2])

\* Fault: the cursor is a time like the bounds, and is sent down to the second.
PastBySecond(t) == cursor = Start \/ Below(Key(t), <<Whole(cursor[1]), cursor[2]>>)

\* Fault: the cursor is inclusive.
PastInclusive(t) == cursor = Start \/ Key(t) = cursor \/ Below(Key(t), cursor)

Past(t) == cursor = Start \/ Below(Key(t), cursor)

\* What is left of the scroll, newest first, up to the limit.
Remaining(r) == {t \in Traces : Selected(t, r) /\ Past(t)}
Newer(t, T) == {u \in T : Below(Key(t), Key(u))}
FirstOf(T) == {t \in T : Cardinality(Newer(t, T)) < limit}
Last(T) == CHOOSE t \in T : \A u \in T \ {t} : Below(Key(t), Key(u))

-----------------------------------------------------------------------------
(* The handler.                                                            *)

\* The export is over, and its directory removed.
ExportFails ==
    /\ stage' = "failed"
    /\ file' = Nothing
    /\ seen' = {}
    /\ cursor' = Start
    /\ ScrollEnds
    /\ UNCHANGED <<limit, final>>

HandlerDone ==
    /\ at' = "none"
    /\ plan' = NoPlan
    /\ page' = {} /\ reply' = {} /\ next' = Start
    /\ asked' = NoHistory

\* A killed companion does not hear of it.
RequestFails ==
    /\ IF stage = "killed" THEN UNCHANGED <<sourceVars, client>> ELSE ExportFails
    /\ HandlerDone

\* The next page is asked for, and the roles read: the loop of loadSession ends
\* also where its statement breaks off, which it does not ask.
Ask ==
    /\ stage = "paging"
    /\ at = "none"
    /\ \E R \in SUBSET rights.roles :
          /\ ReadRoles(R)
          /\ plan' = [plan EXCEPT !.roles = R]
    /\ asked' = Fresh
    /\ at' = "roles"
    /\ UNCHANGED <<client, page, reply, next, busy, others, answered, audited, unlogged>>

\* Fault: a request that was refused for want of a slot is made again.
AdmitAgain ==
    /\ at = "roles"
    /\ IF busy < Slots
       THEN /\ plan' = [plan EXCEPT !.attrs = rights.attrs]
            /\ at' = "admitted"
            /\ busy' = busy + 1
            /\ UNCHANGED <<sourceVars, client, page, reply, next, asked>>
       ELSE /\ HandlerDone
            /\ UNCHANGED <<sourceVars, client, busy>>
    /\ UNCHANGED <<others, answered, audited, unlogged>>

\* The attributes, and then the gate: a slot, or 429.
Admit ==
    /\ at = "roles"
    /\ IF busy < Slots
       THEN /\ plan' = [plan EXCEPT !.attrs = rights.attrs]
            /\ at' = "admitted"
            /\ busy' = busy + 1
            /\ UNCHANGED <<sourceVars, client, page, reply, next, asked>>
       ELSE /\ RequestFails
            /\ UNCHANGED busy
    /\ UNCHANGED <<others, answered, audited, unlogged>>

\* The model of the replica that was reached, which may be a replaced one.
Query ==
    /\ at = "admitted"
    /\ \E m \in served : plan' = [plan EXCEPT !.model = m]
    /\ at' = "planned"
    /\ UNCHANGED <<sourceVars, client, page, reply, next, busy, others, history>>

\* List: the traces of the page, and the cursor if the page is full.
List ==
    /\ at = "planned"
    /\ page' = FirstOf(Remaining(plan))
    /\ next' = IF Cardinality(page') = limit THEN Key(Last(page')) ELSE Start
    /\ at' = "listed"
    /\ UNCHANGED <<sourceVars, client, plan, reply, busy, others, history>>

\* Fault: the rows are read by id alone.
SpansById ==
    /\ at = "listed"
    /\ reply' = UNION {SpansOf(t) : t \in page}
    /\ at' = "sent"
    /\ answered' = answered + 1
    /\ UNCHANGED <<sourceVars, client, plan, page, next, busy, others, audited, unlogged, asked>>

\* Spans and writeSpanPage: the rows of the traces, by the policy once more.
Spans ==
    /\ at = "listed"
    /\ reply' = UNION {SpansOf(t) : t \in {u \in page : Permitted(u, plan)}}
    /\ at' = "sent"
    /\ answered' = answered + 1
    /\ UNCHANGED <<sourceVars, client, plan, page, next, busy, others, audited, unlogged, asked>>

\* The rows are appended; a cursor that was seen before is refused.
Append(rows) == [s \in Span |-> IF s \in rows /\ file[s] < 2 THEN file[s] + 1 ELSE file[s]]

TakePage ==
    IF stage = "killed" THEN UNCHANGED <<sourceVars, client>>
    ELSE IF next \in seen THEN ExportFails
    ELSE /\ file' = Append(reply)
         /\ seen' = IF next = Start THEN {} ELSE seen \cup {next}
         /\ cursor' = next
         /\ stage' = IF next = Start THEN "closing" ELSE "paging"
         /\ UNCHANGED <<sourceVars, limit, final>>

\* Fault: the audit entry is left out when the page has no rows.
FinishUnlessEmpty ==
    /\ at = "sent"
    /\ \/ /\ audited' = (IF reply = {} THEN audited ELSE audited + 1)
          /\ UNCHANGED unlogged
       \/ unlogged' = unlogged + 1 /\ UNCHANGED audited
    /\ TakePage
    /\ HandlerDone
    /\ busy' = busy - 1
    /\ UNCHANGED <<others, answered>>

\* The audit entry, or an error in the log; the slot; and the end of the response.
Finish ==
    /\ at = "sent"
    /\ \/ audited' = audited + 1 /\ UNCHANGED unlogged
       \/ unlogged' = unlogged + 1 /\ UNCHANGED audited
    /\ TakePage
    /\ HandlerDone
    /\ busy' = busy - 1
    /\ UNCHANGED <<others, answered>>

\* Fault: a request that fails keeps its slot.
FailHolding ==
    /\ at # "none"
    /\ RequestFails
    /\ unlogged' = IF at = "sent" THEN unlogged + 1 ELSE unlogged
    /\ UNCHANGED <<busy, others, answered, audited>>

\* 401, 400, 503, 502, the deadline, or a row or a client that is lost when the
\* response has begun: there is an error in the log then, and no entry.
Fail ==
    /\ at # "none"
    /\ RequestFails
    /\ busy' = IF at = "roles" THEN busy ELSE busy - 1
    /\ unlogged' = IF at = "sent" THEN unlogged + 1 ELSE unlogged
    /\ UNCHANGED <<others, answered, audited>>

\* The process ends, with every request it had.
Crash ==
    /\ busy > 0 \/ at # "none"
    /\ busy' = 0 /\ others' = 0
    /\ unlogged' = IF at = "sent" THEN unlogged + 1 ELSE unlogged
    /\ IF at # "none" /\ stage # "killed" THEN ExportFails ELSE UNCHANGED <<sourceVars, client>>
    /\ HandlerDone
    /\ UNCHANGED <<answered, audited>>

\* Fault: the gate lets more in than it holds.
OthersTakeMore ==
    /\ busy' = busy + 1 /\ others' = others + 1
    /\ UNCHANGED <<sourceVars, client, handler, history>>

\* A request that finds no slot is refused, and nothing changes.
OthersTake ==
    /\ busy < Slots
    /\ busy' = busy + 1 /\ others' = others + 1
    /\ UNCHANGED <<sourceVars, client, handler, history>>

OthersRelease ==
    /\ others > 0
    /\ busy' = busy - 1 /\ others' = others - 1
    /\ UNCHANGED <<sourceVars, client, handler, history>>

-----------------------------------------------------------------------------
(* The export.                                                             *)

\* The window is fixed and a directory of its own is made.
Begin ==
    /\ stage = "idle"
    /\ stage' = "paging"
    /\ file' = Empty
    /\ ScrollBegins
    /\ UNCHANGED <<limit, cursor, seen, final, handler, busy, others, history>>

\* The metadata is written and the directory renamed.
Publish ==
    /\ stage = "closing"
    /\ final' = file
    /\ file' = Nothing
    /\ stage' = "published"
    /\ ScrollEnds
    /\ UNCHANGED <<limit, cursor, seen, handler, busy, others, history>>

PublishFails ==
    /\ stage = "closing"
    /\ ExportFails
    /\ UNCHANGED <<handler, busy, others, history>>

\* The companion is killed; its directory stays behind, but nothing will publish it.
Kill ==
    /\ Running
    /\ stage' = "killed"
    /\ file' = Nothing
    /\ seen' = {}
    /\ ScrollEnds
    /\ UNCHANGED <<limit, cursor, final, handler, busy, others, history>>

Environment ==
    /\ Change(Running)
    /\ asked' = IF at = "none" THEN asked ELSE Extended(asked)
    /\ UNCHANGED <<client, handler, busy, others, answered, audited, unlogged>>

Handler == Admit \/ Query \/ List \/ Spans \/ Finish
Client == Ask \/ Publish

Next ==
    \/ Handler \/ Client
    \/ Begin \/ PublishFails \/ Kill
    \/ Fail \/ Crash \/ OthersTake \/ OthersRelease
    \/ Environment

Spec == Init /\ [][Next]_vars

\* Every request has a deadline, and the export goes on as it is answered.
FairSpec == Spec /\ WF_vars(Handler \/ Fail) /\ WF_vars(Client)

-----------------------------------------------------------------------------
(* Properties.                                                             *)

Promise == INSTANCE ExportPromise WITH
    running <- Running,
    artifact <- final

\* export: "every authorized span matching a time window and structured filter",
\* whole traces and once, and "atomic file creation".  Whatever arrives, expires or
\* is revoked between two pages, two statements or two reads of the rights, a trace
\* that was left alone is neither skipped nor repeated, also when it starts at the
\* time another does, if no reading of the rights makes a difference to it.
ImplementsPromise == Promise!Spec

\* Every row that is sent is of a trace that was permitted by roles and attributes
\* the caller had since the request came, under a model that was current less than
\* its TTL before or since; though the trace may have lost the span that qualified
\* it since its id was listed (Spans, "the statement is self-authorizing").
SendsPermitted ==
    at = "listed" /\ at' = "sent" =>
        \A s \in reply' : \E r \in Mixtures(asked) : Permitted(s.trace, r)

NothingUnpermitted == [][SendsPermitted]_vars

\* The position only moves one way: the cursor of a page is below the one it was
\* asked with, so the check of export for a repeated cursor never fails one.
CursorDescends ==
    next # Start => next \notin seen /\ (cursor = Start \/ Below(next, cursor))

\* On every way out of a handler its slot is given back, and no other's
\* (queryLimited).
SlotsAccounted == busy = others + (IF at \in {"none", "roles"} THEN 0 ELSE 1)

\* A response that was begun is audited, or it broke off or its entry was lost,
\* with an error in the log or with the process (streamSpans, AuditWith).
AuditAccounted == answered = audited + unlogged + (IF at = "sent" THEN 1 ELSE 0)

\* An export ends, though traces keep arriving and the policy keeps changing.
ExportEnds == stage \in {"paging", "closing"} ~> stage \notin {"paging", "closing"}

-----------------------------------------------------------------------------
(* What the properties rest on.                                            *)

\* A handler works for an export that waits, or waited until it was killed.
Placed ==
    /\ at # "none" => stage \in {"paging", "killed"}
    /\ at \notin {"listed", "sent"} => next = Start
    /\ stage \in {"idle", "paging", "closing"} => final = Nothing
    /\ stage \in {"paging", "closing"} => file \in Contents
    /\ stage \in {"idle", "closing"} => cursor = Start
    /\ stage = "idle" => answered = 0

\* The cursors that were given came down to the one that is asked with, and each
\* stands for a page that was answered.
SeenAbove ==
    /\ cursor = Start => seen = {}
    /\ \A c \in seen : c = cursor \/ Below(cursor, c)
    /\ stage = "paging" => answered <= Cardinality(seen) + (IF at = "sent" THEN 1 ELSE 0)
    /\ at \notin {"none", "sent"} => answered < MaxPages

\* Everything a request or a scroll may read is in its history.
Covers(h) ==
    /\ rights \in Mixtures(h)
    /\ served \subseteq h.model

\* What a handler has read is in the history of its request, except that its roles
\* may be fewer, and in that of the scroll, with what was misread.
PlanRead ==
    /\ rights.model \in served
    /\ Running => Covers(since)
    /\ at # "none" =>
          /\ Covers(asked)
          /\ \E R \in asked.roles : plan.roles \subseteq R
          /\ at # "roles" => plan.attrs \in asked.attrs
          /\ at \notin {"roles", "admitted"} => plan.model \in asked.model
    /\ at # "none" /\ stage = "paging" =>
          /\ asked.attrs \subseteq since.attrs /\ asked.model \subseteq since.model
          /\ plan.roles \in since.roles \cup misread

\* The page is what is left of the scroll down to the next cursor, and the reply
\* its rows, as far as settled traces go.
PageSettled ==
    stage = "paging" /\ at \in {"listed", "sent"} =>
        \A t \in Settled :
            t \in page <=> Selected(t, rights) /\ Past(t) /\ (next = Start \/ ~Below(Key(t), next))

ReplySettled ==
    stage = "paging" /\ at = "sent" =>
        \A s \in Span : s.trace \in Settled => (s \in reply <=> s \in source /\ s.trace \in page)

\* The file holds the settled traces above the cursor, and in the end all.
FileSettled ==
    Running =>
        \A s \in Span : s.trace \in Settled =>
            file[s] = IF /\ s \in source /\ Selected(s.trace, rights)
                         /\ stage = "closing" \/ ~Past(s.trace)
                      THEN 1 ELSE 0

ScrollInv ==
    /\ TypeOK /\ Placed /\ SeenAbove /\ CursorDescends /\ SlotsAccounted /\ AuditAccounted
    /\ PlanRead /\ PageSettled /\ ReplySettled /\ FileSettled
=============================================================================
