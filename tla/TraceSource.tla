----------------------------- MODULE TraceSource -----------------------------
(***************************************************************************)
(* The customer's table of spans, and what decides which of them a caller  *)
(* may see: spans arrive late and expire, the caller is given other roles  *)
(* and attributes, and the access model is written, which a replica serves *)
(* up to LIGHTSHIP_MODEL_TTL after another has replaced it (PolicyLease).  *)
(*                                                                         *)
(* A predicate, of the policies or of a filter, is the set of the spans it *)
(* is true of.  The rights of a request are its roles, its attributes and  *)
(* its model, each of which it reads at a moment of its own.               *)
(***************************************************************************)
EXTENDS Naturals, FiniteSets

CONSTANTS Span,         \* records: trace, time, and a number
          Late,         \* the spans that may arrive
          Expiring,     \* and those that may expire
          Role, Attributes, Model,
          Permits,      \* what the policies come to, for all rights
          Meets,        \* what the filter comes to, for every model
          From, To,     \* the window of the scroll
          Second        \* in the unit of time

Rights == [roles : SUBSET Role, attrs : Attributes, model : Model]

ASSUME SpanAssumption == Span \subseteq [trace : Nat, time : Nat, no : Nat] /\ IsFiniteSet(Span)
ASSUME PredicateAssumption ==
    /\ Late \cup Expiring \subseteq Span
    /\ Permits \in [Rights -> SUBSET Span] /\ Meets \in [Model -> SUBSET Span]

\* Another role only widens what a caller sees (Matching_proofs, RolesWiden).
ASSUME RoleAssumption ==
    \A r \in Rights : \A R \in SUBSET r.roles : Permits[[r EXCEPT !.roles = R]] \subseteq Permits[r]
ASSUME WindowAssumption == From \in Nat /\ To \in Nat /\ Second \in Nat \ {0}

VARIABLES source,   \* the rows of the table
          rights,   \* the caller's, and the model, as Postgres has them
          served,   \* the models that some replica may answer by
          steady,   \* history: traces left alone since the scroll began
          since,    \* history: what each of the rights has been since then
          misread   \* history: what a request of the scroll took for the roles

sourceVars == <<source, rights, served, steady, since, misread>>

Traces == {s.trace : s \in Span}

\* What each of the rights was over some time, and what may have been read of
\* them in it, part by part.
Histories == [roles : SUBSET SUBSET Role, attrs : SUBSET Attributes, model : SUBSET Model]
NoHistory == [roles |-> {}, attrs |-> {}, model |-> {}]
Fresh == [roles |-> {rights.roles}, attrs |-> {rights.attrs}, model |-> served]
Extended(h) ==
    [roles |-> h.roles \cup {rights'.roles},
     attrs |-> h.attrs \cup {rights'.attrs},
     model |-> h.model \cup {rights'.model}]
Mixtures(h) == [roles : h.roles, attrs : h.attrs, model : h.model]

SourceTypeOK ==
    /\ source \in SUBSET Span
    /\ rights \in Rights
    /\ served \in SUBSET Model
    /\ steady \in SUBSET Traces
    /\ since \in Histories
    /\ misread \in SUBSET SUBSET Role

SourceInit ==
    /\ source \in {Span \ M : M \in SUBSET (Late \cup Expiring)}
    /\ rights \in Rights
    /\ served = {rights.model}
    /\ steady = Traces /\ since = NoHistory /\ misread = {}

-----------------------------------------------------------------------------
(* What the statements select.                                             *)

SpansOf(t) == {s \in source : s.trace = t}

\* The window as it was asked for, and as the driver sends it: down to the second.
Asked(t) == {s \in SpansOf(t) : From <= s.time /\ s.time < To}
Whole(n) == n - (n % Second)
InWindow(t) == {s \in SpansOf(t) : Whole(From) <= s.time /\ s.time < Whole(To)}

\* The unit of access is the trace: one span that satisfies the policy is enough.
Permitted(t, r) == SpansOf(t) \cap Permits[r] # {}

\* A filter matches on one span, and so does the policy, but not on the same.
Selected(t, r) == InWindow(t) \cap Permits[r] # {} /\ InWindow(t) \cap Meets[r.model] # {}

\* The traces that were left alone, and on which the requests of the scroll agree,
\* whatever moments their rights are of.
Settled ==
    {t \in steady :
        \A r \in Mixtures([since EXCEPT !.roles = @ \cup misread]) : Selected(t, r) <=> Selected(t, rights)}

-----------------------------------------------------------------------------
(* What changes, while a scroll is running or not.                         *)

Observed(running, changed) ==
    /\ IF running
       THEN steady' = steady \ changed /\ since' = Extended(since)
       ELSE UNCHANGED <<steady, since>>
    /\ UNCHANGED misread

Arrive(running) ==
    \E s \in Late \ source :
        /\ source' = source \cup {s}
        /\ UNCHANGED <<rights, served>>
        /\ Observed(running, {s.trace})

Expire(running) ==
    \E s \in Expiring \cap source :
        /\ source' = source \ {s}
        /\ UNCHANGED <<rights, served>>
        /\ Observed(running, {s.trace})

\* The roles of the caller are replaced, or the attributes patched.
Assign(running) ==
    \E r \in Rights :
        /\ r.model = rights.model
        /\ r.roles = rights.roles \/ r.attrs = rights.attrs
        /\ r # rights
        /\ rights' = r
        /\ UNCHANGED <<source, served>>
        /\ Observed(running, {})

WriteModel(running) ==
    \E m \in Model \ {rights.model} :
        /\ rights' = [rights EXCEPT !.model = m]
        /\ served' = served \cup {m}
        /\ UNCHANGED source
        /\ Observed(running, {})

\* The TTL of a model that was replaced is over, on every replica.
Lapse(running) ==
    \E m \in served \ {rights.model} :
        /\ served' = served \ {m}
        /\ UNCHANGED <<source, rights>>
        /\ Observed(running, {})

Change(running) ==
    Arrive(running) \/ Expire(running) \/ Assign(running) \/ WriteModel(running) \/ Lapse(running)

ScrollBegins ==
    /\ steady' = Traces /\ since' = Fresh /\ misread' = {}
    /\ UNCHANGED <<source, rights, served>>

ScrollEnds ==
    /\ steady' = Traces /\ since' = NoHistory /\ misread' = {}
    /\ UNCHANGED <<source, rights, served>>

\* The session of a request has these roles: fewer, if their statement broke off.
ReadRoles(R) ==
    /\ R \subseteq rights.roles
    /\ misread' = misread \cup ({R} \ since.roles)
    /\ UNCHANGED <<source, rights, served, steady, since>>
=============================================================================
