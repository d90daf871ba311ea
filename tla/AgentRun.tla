------------------------------ MODULE AgentRun ------------------------------
(***************************************************************************)
(* What the backend promises to a caller about one run of its agent: the   *)
(* run ends once, with a committed answer or without one, and the caller   *)
(* hears at most one report, which fits the run then and for ever.         *)
(***************************************************************************)
EXTENDS RunReports

VARIABLES
    state,    \* of the run; failed is any end without an answer
    told      \* how the caller's request has ended

vars == <<state, told>>

Init == state = "none" /\ told = "nothing"

Tell(report) == told = "nothing" /\ told' = report

Start ==
    /\ state = "none" /\ told = "nothing"
    /\ state' = "running"
    /\ UNCHANGED told

Succeed ==
    /\ state = "running"
    /\ state' \in {"completed", "lost"}
    /\ UNCHANGED told

\* It is refused, fails or is given up; the response may end with it.
Fail ==
    /\ state \in {"none", "running"}
    /\ state' = "failed"
    /\ UNCHANGED told \/ Tell("declined") \/ Tell("broken")

\* broken is a 500 or the end of a stream without a report: it says nothing.
Report ==
    /\ \/ MaySayDone(state) /\ Tell("done")
       \/ MaySayError(state) /\ Tell("error")
       \/ MayDecline(state) /\ Tell("declined")
       \/ Tell("broken")
    /\ UNCHANGED state

Next == Start \/ Succeed \/ Fail \/ Report

Spec == Init /\ [][Next]_vars

=============================================================================
