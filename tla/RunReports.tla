----------------------------- MODULE RunReports -----------------------------
(***************************************************************************)
(* What a report of the backend says of the run it is about.  AgentRun     *)
(* promises no other reports, and QueryLifecycle reads no others.          *)
(***************************************************************************)

\* A run that is lost has been completed, but by a commit whose answer was lost.
RunStates == {"none", "running", "completed", "lost", "failed"}

\* done, or the JSON answer, comes after the commit of the answer.
MaySayDone(state) == state = "completed"

\* error comes from the exception handler, whatever exception it handles.
MaySayError(state) == state \in {"failed", "lost"}

\* 401, 404, 502: the exceptions that have a status of their own are raised
\* before an answer is committed.
MayDecline(state) == state \in {"none", "failed"}

=============================================================================
