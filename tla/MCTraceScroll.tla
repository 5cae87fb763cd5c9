---------------------------- MODULE MCTraceScroll ----------------------------
(***************************************************************************)
(* Three traces, with two units of time to the second: a window from 3 to  *)
(* 7 is sent as one from 2 to 6.  The first two traces start together, in  *)
(* the second half of a second, and the third in its first half.  A late   *)
(* span may put the first before the third, and is before the window that  *)
(* was asked for; the third has a span after it; and the second loses the  *)
(* one that qualifies it.                                                  *)
(***************************************************************************)
EXTENDS TraceScroll

S(t, n, i) == [trace |-> t, time |-> n, no |-> i]

MCSpan == {S(1, 2, 1), S(1, 5, 1), S(2, 5, 1), S(2, 5, 2), S(3, 4, 1), S(3, 7, 1)}
MCLate == {S(1, 2, 1)}
MCExpiring == {S(2, 5, 1)}
MCMeets == [m \in Model |-> MCSpan \ {S(2, 5, 1)}]

\* The wide model shows nearly everything, the narrow one the first trace.
Shows(model) == IF model = "wide" THEN MCSpan \ {S(2, 5, 2)} ELSE {S(1, 5, 1)}
MCPermits == [r \in Rights |-> IF r.roles = {} THEN {} ELSE Shows(r.model)]
=============================================================================
