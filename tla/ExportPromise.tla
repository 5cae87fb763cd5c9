---------------------------- MODULE ExportPromise ----------------------------
(***************************************************************************)
(* What an export of internal/localmcp/localmcp.go promises: an artifact   *)
(* that appears at once, or never, and that holds every trace the caller   *)
(* could select, whole and once, and nothing of a trace they could not, if *)
(* the trace was left alone meanwhile and the rights that changed did not  *)
(* matter to it, nor the seconds that the bounds of the window fall into.  *)
(***************************************************************************)
EXTENDS TraceSource

CONSTANT Nothing     \* no artifact

VARIABLES running,   \* an export is
          artifact   \* what the export directory holds

vars == <<sourceVars, running, artifact>>

\* How often each span is in a file; twice is as wrong as any more.
Contents == [Span -> 0..2]

TypeOK ==
    /\ SourceTypeOK
    /\ running \in BOOLEAN
    /\ artifact \in Contents \cup {Nothing}

Init == SourceInit /\ running = FALSE /\ artifact = Nothing

Begin ==
    /\ ~running
    /\ artifact = Nothing
    /\ running' = TRUE
    /\ ScrollBegins
    /\ UNCHANGED artifact

\* By the window that was asked for.
Wanted(t) == Asked(t) \cap Permits[rights] # {} /\ Asked(t) \cap Meets[rights.model] # {}
Times(t, s) == IF s \in SpansOf(t) /\ Wanted(t) THEN 1 ELSE 0

\* No span of the trace is between a bound and the second it falls into.
Clear(t) == Asked(t) = InWindow(t)

Holds(file) == \A t \in Settled : Clear(t) => \A s \in Span : s.trace = t => file[s] = Times(t, s)

Publish ==
    /\ running
    /\ running' = FALSE
    /\ artifact' \in {file \in Contents : Holds(file)}
    /\ ScrollEnds

GiveUp ==
    /\ running
    /\ running' = FALSE
    /\ ScrollEnds
    /\ UNCHANGED artifact

Read ==
    /\ running
    /\ \E R \in SUBSET Role : ReadRoles(R)
    /\ UNCHANGED <<running, artifact>>

Environment == Change(running) /\ UNCHANGED <<running, artifact>>

Next == Begin \/ Publish \/ GiveUp \/ Read \/ Environment

Spec == Init /\ [][Next]_vars
=============================================================================
