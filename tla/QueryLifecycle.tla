--------------------------- MODULE QueryLifecycle ---------------------------
(***************************************************************************)
(* The handlers of gateway/main.py that run an agent - query, query_stream *)
(* and research_chat - from the reservation of a request id to its         *)
(* settlement, for the queries of one account (one user and one agent).    *)
(*                                                                         *)
(* A query is one HTTP request.  Its coroutine is interleaved with the     *)
(* backend's run, the client that reads or leaves, the passage of time,    *)
(* faults of the database and restarts of the gateway.  Store.reserve and  *)
(* Store.finish are atomic here; RequestStore shows that they are.  What   *)
(* the backend reports of a run is what AnswerStream shows it to promise   *)
(* (AgentRun); of the research backend, which is another program, it is    *)
(* assumed.                                                                *)
(*                                                                         *)
(* Time is relative: now is 0, a row's updated is minus its age (which     *)
(* stops counting at StaleAfter), left is what remains of asyncio.timeout. *)
(***************************************************************************)
EXTENDS RequestTable, RunReports

CONSTANTS
    Queries,        \* HTTP requests
    Routes,         \* the routes clients use, among AllRoutes
    WakeAttempts,   \* WAKE_ATTEMPTS
    MaxFaults       \* bound on database faults and restarts

AllRoutes == {"json", "stream", "research"}

ASSUME QueriesAssumption == IsFiniteSet(Queries)
ASSUME RoutesAssumption  == Routes \subseteq AllRoutes
ASSUME WakeAssumption    == WakeAttempts \in Nat \ {0}
ASSUME FaultsAssumption  == MaxFaults \in Nat

VARIABLES
    table,      \* the account's rows of gateway_requests
    query,      \* per query: its coroutine and what the client was told
    run,        \* per query: the backend's work for it
    enforced,   \* TRIAL_ENFORCEMENT_ENABLED of the running gateway
    faults      \* faults so far

vars == <<table, query, run, enforced, faults>>

\* Where a coroutine is: before reserve; between reserve and the start of its
\* timeout; awaiting the response; awaiting the next event; in a finish inside
\* the try; suspended in a yield; in the finish of the finally block; in the
\* BackgroundTask; in the finally block of a generator that was dropped.
Places == {"new", "posted", "accepted", "sending", "reading", "settling",
           "yielding", "cleanup", "background", "dropped", "closed"}

\* What a generator yields; "done" is also the body of the JSON route.
Events == {"greeting", "token", "done", "released", "upstream_error", "interrupted"}

Told == {"nothing", "refused", "done", "released", "upstream_error",
         "interrupted", "rejected", "unavailable"}

Query == [pc : Places, key : RequestIds, route : AllRoutes,
          status : Outcomes,        \* the handler's local variable
          saw : BOOLEAN,            \* saw_text
          event : Events,           \* the event being settled or yielded
          attempt : 1..WakeAttempts, left : 0..StaleAfter,
          abandoned : BOOLEAN,      \* its generator was dropped in a yield
          told : Told, faulted : BOOLEAN]

Run == [state : RunStates,
        started : 0..WakeAttempts,  \* runs the backend has started
        answered : BOOLEAN]         \* one of them has completed

TypeOK ==
    /\ table \in Tables
    /\ query \in [Queries -> Query]
    /\ run \in [Queries -> Run]
    /\ enforced \in BOOLEAN
    /\ faults \in 0..MaxFaults

-----------------------------------------------------------------------------

Init ==
    /\ table = [id \in RequestIds |-> NoRow]
    /\ query \in [Queries ->
           {[pc |-> "new", key |-> id, route |-> route, status |-> "uncertain",
             saw |-> FALSE, event |-> "greeting", attempt |-> 1, left |-> 0,
             abandoned |-> FALSE, told |-> "nothing", faulted |-> FALSE] :
            id \in RequestIds, route \in Routes}]
    /\ run = [q \in Queries |-> [state |-> "none", started |-> 0, answered |-> FALSE]]
    /\ enforced \in BOOLEAN
    /\ faults = 0

Streams(q) == query[q].route # "json"
At(q, place) == query[q].pc = place
RowOf(q) == table[query[q].key]

\* Inside `async with asyncio.timeout`: the JSON route leaves it before it
\* finishes, the greeting is yielded before it, the interrupted event after.
Timed(q) ==
    \/ query[q].pc \in {"sending", "reading"}
    \/ Streams(q) /\ At(q, "settling")
    \/ Streams(q) /\ At(q, "yielding") /\ query[q].event \notin {"greeting", "interrupted"}

Goto(q, place) == query' = [query EXCEPT ![q].pc = place]

\* Out of the try block, to what is left to do; its other locals are dead.
Wind(q, place, told) ==
    query' = [query EXCEPT ![q].pc = place, ![q].told = told, ![q].left = 0,
                  ![q].event = "greeting", ![q].saw = FALSE, ![q].attempt = 1]

\* yield event(...): the coroutine is suspended until the client takes it.
Yield(q, event) ==
    query' = [query EXCEPT ![q].pc = "yielding", ![q].event = event]

\* Out of the try block by an exception: a generator yields once more.
Except(q) ==
    IF Streams(q)
    THEN query' = [query EXCEPT ![q].pc = "yielding", ![q].event = "interrupted",
                       ![q].left = 0, ![q].saw = FALSE, ![q].attempt = 1]
    ELSE Wind(q, "cleanup", query[q].told)

\* Store.finish, committed.
Finish(q, outcome) ==
    table' = [table EXCEPT ![query[q].key] = Settled(@, outcome, 0)]

\* Store.finish raises: the UPDATE was lost, or committed with its answer lost.
FinishFails(q, outcome) == UNCHANGED table \/ Finish(q, outcome)

Fault == faults < MaxFaults /\ faults' = faults + 1

-----------------------------------------------------------------------------
(* Reserving *)

Submit(q) ==
    /\ At(q, "new")
    /\ Goto(q, "posted")
    /\ UNCHANGED <<table, run, enforced, faults>>

\* Mutant: the id of a failed request may be tried again, and its row is
\* written over (ON CONFLICT DO UPDATE).
AdmissibleAgain(q) ==
    /\ RowOf(q).status \in {"none", "failed"}
    /\ ~IsBlocked(table, 0)
    /\ enforced => ~IsExhausted(table)

\* Mutant: check_allowance is not called.
AdmissibleFree(q) ==
    /\ ~IsDuplicate(table, query[q].key)
    /\ ~IsBlocked(table, 0)

Admissible(q) ==
    /\ ~IsDuplicate(table, query[q].key)
    /\ ~IsBlocked(table, 0)
    /\ enforced => ~IsExhausted(table)

Insert(q) == table' = [table EXCEPT ![query[q].key] = Reserved(enforced, 0)]

Reserve(q) ==
    /\ At(q, "posted") /\ Admissible(q)
    /\ Insert(q)
    /\ Goto(q, "accepted")
    /\ UNCHANGED <<run, enforced, faults>>

\* The transaction fails, or commits and its answer is lost: the handler sees
\* an error and settles nothing.
ReserveFails(q) ==
    /\ At(q, "posted")
    /\ Fault
    /\ UNCHANGED table \/ (Admissible(q) /\ Insert(q))
    /\ query' = [query EXCEPT ![q].pc = "closed", ![q].told = "unavailable",
                              ![q].faulted = TRUE]
    /\ UNCHANGED <<run, enforced>>

Refuse(q) ==
    /\ At(q, "posted") /\ ~Admissible(q)
    /\ Wind(q, "closed", "refused")
    /\ UNCHANGED <<table, run, enforced, faults>>

\* backend_json, or the first step of the generator.
Start(q) ==
    /\ At(q, "accepted")
    /\ IF query[q].route = "research"
       THEN Yield(q, "greeting")
       ELSE query' = [query EXCEPT ![q].pc = "sending", ![q].left = StaleAfter]
    /\ UNCHANGED <<table, run, enforced, faults>>

-----------------------------------------------------------------------------
(* The backend *)

\* The attempt reaches the application, which creates a run.
StartRun(q) ==
    /\ At(q, "sending") /\ run[q].state = "none"
    /\ run' = [run EXCEPT ![q].state = "running", ![q].started = @ + 1]
    /\ UNCHANGED <<table, query, enforced, faults>>

\* The run ends, with a committed answer or without one, even when the
\* gateway no longer listens; a fault takes the answer of the commit.
EndRun(q) ==
    /\ run[q].state = "running"
    /\ \/ /\ run' = [run EXCEPT ![q].state = "completed", ![q].answered = TRUE]
          /\ UNCHANGED faults
       \/ /\ run' = [run EXCEPT ![q].state = "lost", ![q].answered = TRUE]
          /\ Fault
       \/ /\ run' = [run EXCEPT ![q].state = "failed"]
          /\ UNCHANGED faults
    /\ UNCHANGED <<table, query, enforced>>

-----------------------------------------------------------------------------
(* The response *)

\* Mutant: a 500 is replayed too, such as the one that follows a lost commit.
ReplayBroken(q) ==
    /\ At(q, "sending") /\ run[q].state # "running"
    /\ query[q].attempt < WakeAttempts
    /\ query' = [query EXCEPT ![q].attempt = @ + 1]
    /\ run' = [run EXCEPT ![q].state = "none"]
    /\ UNCHANGED <<table, enforced, faults>>

\* 502, 503 or 504 with attempts left: from the edge while the backend wakes,
\* or the application's own 502 for a run that failed (core/errors.py:24-26).
Replay(q) ==
    /\ At(q, "sending") /\ MayDecline(run[q].state)
    /\ query[q].attempt < WakeAttempts
    /\ query' = [query EXCEPT ![q].attempt = @ + 1]
    /\ run' = [run EXCEPT ![q].state = "none"]
    /\ UNCHANGED <<table, enforced, faults>>

\* Mutant: every non-success response releases the allowance.
DeclineReleases(q) ==
    /\ At(q, "sending") /\ run[q].state # "running"
    /\ query' = [query EXCEPT
           ![q].status = "failed", ![q].attempt = 1, ![q].event = "upstream_error",
           ![q].pc = IF Streams(q) THEN "settling" ELSE "cleanup",
           ![q].left = IF Streams(q) THEN @ ELSE 0]
    /\ UNCHANGED <<table, run, enforced, faults>>

\* A non-success response: 4xx comes before a run or from one that failed.
Decline(q) ==
    /\ At(q, "sending")
    /\ \E status \in {"failed", "uncertain"} :
          /\ run[q].state # "running"
          /\ status = "failed" => MayDecline(run[q].state)
          /\ query' = [query EXCEPT
                 ![q].status = status, ![q].attempt = 1, ![q].event = "upstream_error",
                 ![q].pc = IF Streams(q) THEN "settling" ELSE "cleanup",
                 ![q].left = IF Streams(q) THEN @ ELSE 0]
    /\ UNCHANGED <<table, run, enforced, faults>>

\* Mutant: the answer is returned without finish.
AnswerAtOnce(q) ==
    /\ At(q, "sending") /\ ~Streams(q) /\ MaySayDone(run[q].state)
    /\ Wind(q, "closed", "done")
    /\ UNCHANGED <<table, run, enforced, faults>>

\* The JSON route has an answer with text in it.
Answer(q) ==
    /\ At(q, "sending") /\ ~Streams(q) /\ MaySayDone(run[q].state)
    /\ query' = [query EXCEPT ![q].pc = "settling", ![q].event = "done",
                              ![q].left = 0, ![q].attempt = 1]
    /\ UNCHANGED <<table, run, enforced, faults>>

\* The streaming routes have the headers of a text/event-stream.
OpenStream(q) ==
    /\ At(q, "sending") /\ Streams(q) /\ run[q].state # "none"
    /\ query' = [query EXCEPT ![q].pc = "reading", ![q].attempt = 1]
    /\ UNCHANGED <<table, run, enforced, faults>>

ReadText(q, blank) ==
    /\ At(q, "reading")
    /\ query' = [query EXCEPT ![q].pc = "yielding", ![q].event = "token",
                              ![q].saw = @ \/ ~blank]
    /\ UNCHANGED <<table, run, enforced, faults>>

\* Mutant: status stays uncertain.
ReadErrorUncertain(q) ==
    /\ At(q, "reading") /\ MaySayError(run[q].state)
    /\ query' = [query EXCEPT ![q].pc = "settling", ![q].event = "released",
                              ![q].saw = FALSE]
    /\ UNCHANGED <<table, run, enforced, faults>>

\* The backend emits error when its exception handler is done with the run.
ReadError(q) ==
    /\ At(q, "reading") /\ MaySayError(run[q].state)
    /\ query' = [query EXCEPT ![q].pc = "settling", ![q].event = "released",
                              ![q].status = "failed", ![q].saw = FALSE]
    /\ UNCHANGED <<table, run, enforced, faults>>

\* Mutant: done is yielded before finish.
ReadDoneEarly(q) ==
    /\ At(q, "reading") /\ MaySayDone(run[q].state) /\ query[q].saw
    /\ query' = [query EXCEPT ![q].pc = "yielding", ![q].event = "done", ![q].saw = FALSE]
    /\ UNCHANGED <<table, run, enforced, faults>>

\* It emits done after it has committed the answer.
ReadDone(q) ==
    /\ At(q, "reading") /\ MaySayDone(run[q].state) /\ query[q].saw
    /\ query' = [query EXCEPT ![q].pc = "settling", ![q].event = "done", ![q].saw = FALSE]
    /\ UNCHANGED <<table, run, enforced, faults>>

\* Mutant: an interrupted stream counts as failed.
InterruptReleases(q) ==
    /\ query[q].pc \in {"sending", "reading"} /\ Streams(q)
    /\ query' = [query EXCEPT ![q].pc = "yielding", ![q].event = "interrupted",
           ![q].left = 0, ![q].saw = FALSE, ![q].attempt = 1, ![q].status = "failed"]
    /\ UNCHANGED <<table, run, enforced, faults>>

\* Mutant: the timeout does not cover the events of the stream.
InterruptSending(q) ==
    /\ At(q, "sending")
    /\ Except(q)
    /\ UNCHANGED <<table, run, enforced, faults>>

\* A lost connection, the timeout, EOF without done, done without text, a
\* malformed event or body: backend_json raises a 502, a generator enters its
\* except block and yields.
Interrupt(q) ==
    /\ query[q].pc \in {"sending", "reading"}
    /\ Except(q)
    /\ UNCHANGED <<table, run, enforced, faults>>

-----------------------------------------------------------------------------
(* Settling *)

\* finish inside the try block.  For the JSON route nothing is left to do but
\* to send the answer; a generator goes on to yield its last event.
Outcome(q) == IF query[q].event = "done" THEN "completed" ELSE query[q].status

Settle(q) ==
    /\ At(q, "settling")
    /\ Finish(q, Outcome(q))
    /\ IF Streams(q)
       THEN query' = [query EXCEPT ![q].pc = "yielding", ![q].status = Outcome(q)]
       ELSE Wind(q, "closed", "done")
    /\ UNCHANGED <<run, enforced, faults>>

\* It raises: the database failed, or the timeout fired in it - the shield of
\* finish_agent holds off anyio's cancellation and not asyncio's.
SettleFails(q) ==
    /\ At(q, "settling")
    /\ \/ Fault
       \/ Streams(q) /\ query[q].left = 0 /\ UNCHANGED faults
    /\ FinishFails(q, Outcome(q))
    /\ Except(q)
    /\ UNCHANGED <<run, enforced>>

\* The client takes what was yielded and the generator resumes.
Deliver(q) ==
    /\ At(q, "yielding")
    /\ \/ /\ query[q].event = "greeting"
          /\ query' = [query EXCEPT ![q].pc = "sending", ![q].left = StaleAfter]
       \/ query[q].event = "token" /\ Goto(q, "reading")
       \/ query[q].event = "done" /\ Wind(q, "background", "done")
       \/ /\ query[q].event \in {"released", "upstream_error", "interrupted"}
          /\ Wind(q, "cleanup", query[q].event)
    /\ UNCHANGED <<table, run, enforced, faults>>

\* Mutant: the finally block always writes uncertain.
CleanupUncertain(q) ==
    /\ At(q, "cleanup")
    /\ Finish(q, "uncertain")
    /\ IF Streams(q) THEN Wind(q, "background", query[q].told)
       ELSE Wind(q, "closed", IF query[q].status = "failed" THEN "rejected" ELSE "unavailable")
    /\ UNCHANGED <<run, enforced, faults>>

\* The finally block: finish(status) unless status is completed.  It ends the
\* JSON route, whose response is the HTTPException, and the generator.
Cleanup(q) ==
    /\ At(q, "cleanup")
    /\ Finish(q, query[q].status)
    /\ IF Streams(q) THEN Wind(q, "background", query[q].told)
       ELSE Wind(q, "closed", IF query[q].status = "failed" THEN "rejected" ELSE "unavailable")
    /\ UNCHANGED <<run, enforced, faults>>

\* BackgroundTask(finish, ..., 'uncertain'), once the response has ended.
Background(q) ==
    /\ At(q, "background")
    /\ Finish(q, "uncertain")
    /\ IF query[q].abandoned THEN Wind(q, "dropped", query[q].told) ELSE Wind(q, "closed", query[q].told)
    /\ UNCHANGED <<run, enforced, faults>>

\* The garbage collector closes a generator dropped in a yield of its try
\* block: its finally block runs after the background task.
Dropped(q) ==
    /\ At(q, "dropped")
    /\ Finish(q, query[q].status)
    /\ Wind(q, "closed", query[q].told)
    /\ UNCHANGED <<run, enforced, faults>>

\* The database fails in one of the last three.  What cleanup raises ends the
\* response, and no background task follows it.
LastFinishFails(q) ==
    /\ query[q].pc \in {"cleanup", "background", "dropped"}
    /\ Fault
    /\ FinishFails(q, IF At(q, "background") THEN "uncertain" ELSE query[q].status)
    /\ query' = [query EXCEPT ![q].faulted = TRUE, ![q].left = 0,
                     ![q].pc = IF At(q, "background") /\ query[q].abandoned THEN "dropped" ELSE "closed"]
    /\ UNCHANGED <<run, enforced>>

-----------------------------------------------------------------------------
(* The client, time and restarts *)

\* Mutant: the response has no background task.
LeaveBare(q) ==
    /\ Streams(q)
    /\ \/ At(q, "accepted") /\ Wind(q, "closed", query[q].told)
       \/ query[q].pc \in {"sending", "reading"} /\ Wind(q, "cleanup", query[q].told)
       \/ At(q, "yielding") /\ Wind(q, "closed", query[q].told)
    /\ UNCHANGED <<table, run, enforced, faults>>

\* The client of a streaming route goes away, or the timeout fires while the
\* client is slow to take an event.  A response not begun ends at once; an
\* await is cancelled and the finally block runs; a generator suspended in a
\* yield is dropped.  A finish is shielded, and goes on.
Leave(q) ==
    /\ Streams(q)
    /\ \/ At(q, "accepted") /\ Wind(q, "background", query[q].told)
       \/ query[q].pc \in {"sending", "reading"} /\ Wind(q, "cleanup", query[q].told)
       \/ /\ At(q, "yielding")
          /\ query' = [query EXCEPT ![q].pc = "background", ![q].left = 0,
                 ![q].event = "greeting", ![q].saw = FALSE, ![q].attempt = 1,
                 ![q].abandoned = query[q].event # "greeting"
                                  /\ query[q].status # "completed"]
    /\ UNCHANGED <<table, run, enforced, faults>>

Older(row) ==
    IF IsPending(row) /\ row.updated > -StaleAfter
    THEN [row EXCEPT !.updated = @ - 1]
    ELSE row

\* A timer is served when it is due, so time waits for it.
Tick ==
    /\ \A q \in Queries : Timed(q) => query[q].left > 0
    /\ table' = [id \in RequestIds |-> Older(table[id])]
    /\ query' = [q \in Queries |->
           IF Timed(q) THEN [query[q] EXCEPT !.left = @ - 1] ELSE query[q]]
    /\ UNCHANGED <<run, enforced, faults>>

\* The gateway stops with its coroutines, and comes back configured anew.
Restart ==
    /\ Fault
    /\ query' = [q \in Queries |->
           IF query[q].pc \in {"new", "closed"} THEN query[q]
           ELSE [query[q] EXCEPT !.pc = "closed", !.left = 0, !.event = "greeting",
                    !.saw = FALSE, !.attempt = 1, !.faulted = TRUE]]
    /\ enforced' \in BOOLEAN
    /\ UNCHANGED <<table, run>>

-----------------------------------------------------------------------------

\* What the coroutine does by itself, without its client or its backend.
Resume(q) ==
    \/ Reserve(q) \/ ReserveFails(q) \/ Refuse(q) \/ Start(q)
    \/ Settle(q) \/ SettleFails(q)
    \/ Cleanup(q) \/ Background(q) \/ Dropped(q) \/ LastFinishFails(q)

Respond(q) ==
    \/ Replay(q) \/ Decline(q) \/ Answer(q) \/ OpenStream(q)
    \/ \E blank \in BOOLEAN : ReadText(q, blank)
    \/ ReadError(q) \/ ReadDone(q) \/ Interrupt(q)

Next ==
    \/ \E q \in Queries :
          \/ Submit(q) \/ Resume(q)
          \/ StartRun(q) \/ EndRun(q) \/ Respond(q)
          \/ Deliver(q) \/ Leave(q)
    \/ Tick
    \/ Restart

Spec == Init /\ [][Next]_vars

\* The timeout of a query fires.
Expire(q) ==
    /\ Timed(q) /\ query[q].left = 0
    /\ Interrupt(q) \/ SettleFails(q) \/ (At(q, "yielding") /\ Leave(q))

\* The event loop runs every coroutine that can go on and serves every timer;
\* a client takes what it is sent or goes away.  Nothing is asked of backends.
Fairness ==
    /\ \A q \in Queries : /\ WF_vars(Resume(q))
                          /\ WF_vars(At(q, "yielding") /\ (Deliver(q) \/ Leave(q)))
                          /\ WF_vars(Expire(q))
    /\ WF_vars(Tick)

-----------------------------------------------------------------------------
(* Properties *)

\* A client that was given an answer has paid for it: the done event and the
\* JSON body are sent only after their row was committed as completed, and no
\* later finish of the cleanup takes that back (main.py:252-254, 291-296).
AnswerIsPaid ==
    \A q \in Queries : query[q].told = "done" => RowOf(q).status = "completed"

\* A client that was told that its allowance was released, or given a 4xx, is
\* not charged (main.py:255-256, 286-290).
ReleaseIsReal ==
    \A q \in Queries : query[q].told \in {"released", "rejected"}
        => RowOf(q).status = "failed"

\* An allowance is released only for a request the backend has not answered
\* and will not: the failure was explicit (GATEWAY_SETUP.md:149-152).  One
\* answer gets away: the backend itself does not know that it has committed it.
ReleasedWasNotAnswered ==
    \A q \in Queries : run[q].started > 0 /\ RowOf(q).status = "failed"
        => run[q].state # "running" /\ (run[q].answered => run[q].state = "lost")

\* Whatever ends a coroutine - the client leaving at any await or yield, the
\* timeout, an exception - its row is settled, unless the database failed or
\* the gateway stopped under it (main.py:258-259, 301-306).
ClosedIsSettled ==
    \A q \in Queries :
        At(q, "closed") /\ query[q].told # "refused" /\ ~query[q].faulted
            => RowOf(q).status \in Outcomes

\* An id is run by one query only, however often its client sends it and
\* whatever became of the first (store.py:58-60).
KeyRunsOnce ==
    \A p, q \in Queries :
        p # q /\ query[p].key = query[q].key => run[p].started = 0 \/ run[q].started = 0

\* With the trial enforced a user is given no more answers than the allowance,
\* across restarts that switch enforcement on and off (store.py:74-76).
AnswersWithinAllowance ==
    Cardinality({q \in Queries : query[q].told = "done" /\ RowOf(q).metered}) <= Allowance

\* Every reservation is settled although backends hang, clients stall or vanish
\* and a finish in the try block fails: no request id stays reserved for ever,
\* but for one whose reserve, restart or last finish was hit by a fault.
EventuallySettled ==
    \A id \in RequestIds : table[id].status = "reserved" ~>
        \/ table[id].status # "reserved"
        \/ \E q \in Queries : query[q].key = id /\ query[q].faulted

\* No row blocks its account for good: not one that is left uncertain, and not
\* one left reserved by a commit of reserve whose answer was lost, by a restart
\* or by a finish that failed.  It "would otherwise wedge the agent permanently
\* with no way to clear it" (store.py:61-73).
NeverWedged == []<>~IsBlocked(table, 0)

\* The handlers use the store as the ledger allows.
Ledger == INSTANCE TrialLedger WITH
    Accounts <- {"account"},
    ledger <- [account \in {"account"} |->
                  [id \in RequestIds |-> [status |-> table[id].status,
                                          metered |-> table[id].metered]]]
ImplementsLedger == Ledger!Spec

-----------------------------------------------------------------------------
(* What docs and comments say and the code does not do *)

\* store.py:61-64: one active request per user and agent; a row blocks while
\* its run could be going, for past the gateway's timeout the upstream call
\* has certainly ended.  No two upstream calls of an account are open, with
\* time left and a run of the backend going on in each.
OneActiveRequest ==
    LET Calling(q) == /\ query[q].left > 0
                      /\ \/ query[q].pc \in {"sending", "reading"}
                         \/ At(q, "yielding") /\ query[q].event = "token"
                      /\ run[q].state = "running"
    IN  \A p, q \in Queries : p # q => ~(Calling(p) /\ Calling(q))

\* main.py:23-26: a 502, 503 or 504 never reached the application, so that a
\* replay cannot duplicate any work.
ReplayDuplicatesNothing == \A q \in Queries : run[q].started <= 1

\* README.md:208-209: a stream that ends without done was interrupted, and the
\* gateway releases the reservation in that case.
InterruptedIsReleased ==
    \A q \in Queries : At(q, "closed") /\ query[q].told = "interrupted"
        => query[q].key \notin Charged(table)

-----------------------------------------------------------------------------
(* The inductive invariant of the proofs *)

\* q has been through reserve, and its row is its own.
Admitted(q) ==
    \/ query[q].pc \notin {"new", "posted", "closed"}
    \/ run[q].started > 0
    \/ query[q].told \in {"done", "released", "rejected"}

\* Its row is still reserved: no finish has been tried.
Unsettled(q) ==
    \/ query[q].pc \in {"accepted", "sending", "reading", "settling"}
    \/ At(q, "yielding") /\ query[q].event \in {"greeting", "token"}

HasAnswer(state) == state \in {"completed", "lost"}

\* What both explicit failures leave possible.
MayBeReleased(state) == MayDecline(state) \/ MaySayError(state)

\* What a query, its row and its run say of each other.
RowAgrees(q) ==
    /\ Admitted(q) => RowOf(q).status # "none"
    /\ Unsettled(q) => RowOf(q).status = "reserved"
    /\ At(q, "yielding") /\ query[q].event = "done" => RowOf(q).status = "completed"
    /\ At(q, "yielding") /\ query[q].event = "released" => RowOf(q).status = "failed"
    /\ ~Streams(q) /\ At(q, "cleanup") /\ query[q].status = "failed"
          => RowOf(q).status = "reserved"
    /\ Admitted(q) /\ RowOf(q).status = "failed" => MayBeReleased(run[q].state)

\* The locals of a query and its run.
LocalsAgree(q) ==
    /\ query[q].pc \in {"new", "posted"}
          => query[q].told = "nothing" /\ query[q].status = "uncertain"
    /\ run[q].answered <=> HasAnswer(run[q].state)
    /\ query[q].status = "failed" => MayBeReleased(run[q].state)
    /\ Unsettled(q) /\ ~At(q, "settling") => query[q].status = "uncertain"
    /\ query[q].pc \in {"reading", "yielding"} => Streams(q)
    /\ At(q, "settling") =>
          /\ query[q].event \in {"done", "released", "upstream_error"}
          /\ query[q].event = "released" => query[q].status = "failed"
          /\ ~Streams(q) => query[q].event = "done" /\ query[q].status = "uncertain"

\* The backend has started at most one run for each attempt.
RunsCounted(q) ==
    /\ query[q].pc \in {"new", "posted", "accepted"} => run[q].started = 0
    /\ At(q, "yielding") /\ query[q].event = "greeting" => run[q].started = 0
    /\ At(q, "sending") =>
          /\ run[q].started <= query[q].attempt
          /\ run[q].state = "none" => run[q].started < query[q].attempt

\* An id has been admitted for one query.
KeysApart ==
    \A p, q \in Queries :
        p # q /\ query[p].key = query[q].key => ~(Admitted(p) /\ Admitted(q))

\* The rows charged for, answered or not, stay within the allowance.
WithinAllowance == Cardinality(Charged(table)) <= Allowance

\* All that the step of one query needs to know: of the row and the run it is
\* at, and of the other queries that sent the same id.
IInv ==
    /\ TypeOK
    /\ \A q \in Queries : RowAgrees(q) /\ LocalsAgree(q) /\ RunsCounted(q)
    /\ KeysApart /\ WithinAllowance
    /\ AnswerIsPaid /\ ReleaseIsReal /\ ClosedIsSettled

=============================================================================
