------------------------ MODULE QueryLifecycleProofs ------------------------
(***************************************************************************)
(* Theorems about QueryLifecycle for every set of queries and ids, every   *)
(* allowance, timeout, number of attempts and number of faults.            *)
(***************************************************************************)
EXTENDS QueryLifecycle, RequestTableProofs, TLAPS

\* States of a run are told apart by these throughout.
USE DEF RunStates, HasAnswer, MaySayDone, MaySayError, MayDecline, MayBeReleased

(***************************************************************************)
(* The steps as the invariant sees them.  Every action is one of these     *)
(* (lemma Condensed); the invariant is proved from them.                   *)
(***************************************************************************)

\* Only q moves, to this place with these locals.
Alone(q) ==
    /\ \A p \in Queries \ {q} : query'[p] = query[p]
    /\ query'[q].key = query[q].key /\ query'[q].route = query[q].route

Becomes(q, place, event, status, told) ==
    /\ query'[q].pc = place /\ query'[q].event = event
    /\ query'[q].status = status /\ query'[q].told = told

Unfaulted(q) == query'[q].faulted = query[q].faulted

\* A step of its coroutine without a transaction.
Moved(q) ==
    /\ UNCHANGED <<table, run>> /\ Alone(q) /\ Unfaulted(q)
    /\ LET l == query[q] IN
       \/ l.pc = "new" /\ Becomes(q, "posted", l.event, l.status, l.told)
       \/ l.pc = "posted" /\ Becomes(q, "closed", "greeting", l.status, "refused")
       \/ l.pc = "accepted" /\ Becomes(q, "sending", l.event, l.status, l.told)
       \/ l.pc = "accepted" /\ Streams(q) /\ Becomes(q, "yielding", "greeting", l.status, l.told)
       \/ /\ l.pc = "sending"
          /\ \E status \in {"failed", "uncertain"} :
                /\ status = "failed" => MayDecline(run[q].state)
                /\ Becomes(q, IF Streams(q) THEN "settling" ELSE "cleanup",
                           "upstream_error", status, l.told)
       \/ l.pc = "sending" /\ ~Streams(q) /\ Becomes(q, "settling", "done", l.status, l.told)
       \/ l.pc = "sending" /\ Streams(q) /\ Becomes(q, "reading", l.event, l.status, l.told)
       \/ l.pc = "reading" /\ Becomes(q, "yielding", "token", l.status, l.told)
       \/ /\ l.pc = "reading" /\ MaySayError(run[q].state)
          /\ Becomes(q, "settling", "released", "failed", l.told)
       \/ l.pc = "reading" /\ Becomes(q, "settling", "done", l.status, l.told)
       \/ l.pc \in {"sending", "reading"} /\ Streams(q) /\ Becomes(q, "yielding", "interrupted", l.status, l.told)
       \/ l.pc \in {"sending", "reading"} /\ Becomes(q, "cleanup", "greeting", l.status, l.told)
       \/ l.pc = "yielding" /\ l.event = "greeting" /\ Becomes(q, "sending", l.event, l.status, l.told)
       \/ l.pc = "yielding" /\ l.event = "token" /\ Becomes(q, "reading", l.event, l.status, l.told)
       \/ l.pc = "yielding" /\ l.event = "done" /\ Becomes(q, "background", "greeting", l.status, "done")
       \/ /\ l.pc = "yielding" /\ l.event \in {"released", "upstream_error", "interrupted"}
          /\ Becomes(q, "cleanup", "greeting", l.status, l.event)
       \/ l.pc \in {"accepted", "yielding"} /\ Streams(q)
             /\ Becomes(q, "background", "greeting", l.status, l.told)

\* The transaction of reserve, or its failure.
Reserves(q) ==
    /\ UNCHANGED run /\ Alone(q) /\ At(q, "posted")
    /\ LET l == query[q] IN
       \/ Admissible(q) /\ Insert(q) /\ Becomes(q, "accepted", l.event, l.status, l.told) /\ Unfaulted(q)
       \/ /\ UNCHANGED table \/ (Admissible(q) /\ Insert(q))
          /\ Becomes(q, "closed", l.event, l.status, "unavailable") /\ query'[q].faulted

\* A finish.
Finishes(q) ==
    /\ UNCHANGED run /\ Alone(q)
    /\ LET l == query[q] IN
       \/ /\ l.pc = "settling" /\ Finish(q, Outcome(q)) /\ Unfaulted(q)
          /\ IF Streams(q) THEN Becomes(q, "yielding", l.event, Outcome(q), l.told)
             ELSE Becomes(q, "closed", "greeting", l.status, "done")
       \/ /\ l.pc = "settling" /\ FinishFails(q, Outcome(q)) /\ Unfaulted(q)
          /\ IF Streams(q) THEN Becomes(q, "yielding", "interrupted", l.status, l.told)
             ELSE Becomes(q, "cleanup", "greeting", l.status, l.told)
       \/ /\ l.pc = "cleanup" /\ Finish(q, l.status) /\ Unfaulted(q)
          /\ IF Streams(q) THEN Becomes(q, "background", "greeting", l.status, l.told)
             ELSE Becomes(q, "closed", "greeting", l.status,
                          IF l.status = "failed" THEN "rejected" ELSE "unavailable")
       \/ /\ l.pc = "background" /\ Finish(q, "uncertain") /\ Unfaulted(q)
          /\ \E place \in {"dropped", "closed"} : Becomes(q, place, "greeting", l.status, l.told)
       \/ /\ l.pc = "dropped" /\ Finish(q, l.status) /\ Unfaulted(q)
          /\ Becomes(q, "closed", "greeting", l.status, l.told)
       \/ /\ l.pc \in {"cleanup", "background", "dropped"} /\ query'[q].faulted
          /\ FinishFails(q, IF l.pc = "background" THEN "uncertain" ELSE l.status)
          /\ \E place \in {"dropped", "closed"} :
                /\ Becomes(q, place, l.event, l.status, l.told)
                /\ place = "dropped" => l.pc = "background"

\* A step of the backend, or the next attempt.
Runs(q) ==
    /\ UNCHANGED table /\ Alone(q) /\ Unfaulted(q)
    /\ Becomes(q, query[q].pc, query[q].event, query[q].status, query[q].told)
    /\ \A p \in Queries \ {q} : run'[p] = run[p]
    /\ \/ /\ At(q, "sending") /\ run[q].state = "none" /\ run'[q].state = "running"
          /\ run'[q].started = run[q].started + 1 /\ run'[q].answered = run[q].answered
          /\ query'[q].attempt = query[q].attempt
       \/ /\ At(q, "sending") /\ MayDecline(run[q].state) /\ run'[q].state = "none"
          /\ run'[q].started = run[q].started /\ run'[q].answered = run[q].answered
          /\ query'[q].attempt = query[q].attempt + 1
       \/ /\ run[q].state = "running" /\ run'[q].started = run[q].started
          /\ query'[q].attempt = query[q].attempt
          /\ \/ HasAnswer(run'[q].state) /\ run'[q].answered
             \/ run'[q].state = "failed" /\ run'[q].answered = run[q].answered

\* Time passes: what the invariant reads stays.
Waits ==
    /\ UNCHANGED run
    /\ \A id \in RequestIds :
          table'[id].status = table[id].status /\ table'[id].metered = table[id].metered
    /\ \A q \in Queries :
          /\ query'[q].key = query[q].key /\ query'[q].route = query[q].route
          /\ query'[q].attempt = query[q].attempt /\ Unfaulted(q)
          /\ Becomes(q, query[q].pc, query[q].event, query[q].status, query[q].told)

Stops ==
    /\ UNCHANGED <<table, run>>
    /\ \A q \in Queries :
          \/ query'[q] = query[q]
          \/ /\ query[q].pc \notin {"new", "closed"}
             /\ query'[q].key = query[q].key /\ query'[q].route = query[q].route
             /\ Becomes(q, "closed", "greeting", query[q].status, query[q].told)
             /\ query'[q].faulted

Step ==
    \/ \E q \in Queries : Moved(q) \/ Reserves(q) \/ Finishes(q) \/ Runs(q)
    \/ Waits \/ Stops

-----------------------------------------------------------------------------
(* Types *)

Locals == [Queries -> Query]

LEMMA FieldTyped ==
    ASSUME NEW f \in Locals, NEW q \in Queries
    PROVE  /\ \A x \in Places : [f EXCEPT ![q].pc = x] \in Locals
           /\ \A x \in Told : [f EXCEPT ![q].told = x] \in Locals
           /\ \A x \in 0..StaleAfter : [f EXCEPT ![q].left = x] \in Locals
           /\ \A x \in Events : [f EXCEPT ![q].event = x] \in Locals
           /\ \A x \in BOOLEAN : [f EXCEPT ![q].saw = x] \in Locals
           /\ \A x \in 1..WakeAttempts : [f EXCEPT ![q].attempt = x] \in Locals
           /\ \A x \in Outcomes : [f EXCEPT ![q].status = x] \in Locals
           /\ \A x \in BOOLEAN : [f EXCEPT ![q].abandoned = x] \in Locals
           /\ \A x \in BOOLEAN : [f EXCEPT ![q].faulted = x] \in Locals
  <1>1. \A x \in Places : [f EXCEPT ![q].pc = x] \in Locals
    BY DEF Locals, Query
  <1>2. \A x \in Told : [f EXCEPT ![q].told = x] \in Locals
    BY DEF Locals, Query
  <1>3. \A x \in 0..StaleAfter : [f EXCEPT ![q].left = x] \in Locals
    BY DEF Locals, Query
  <1>4. \A x \in Events : [f EXCEPT ![q].event = x] \in Locals
    BY DEF Locals, Query
  <1>5. \A x \in BOOLEAN : [f EXCEPT ![q].saw = x] \in Locals
    BY DEF Locals, Query
  <1>6. \A x \in 1..WakeAttempts : [f EXCEPT ![q].attempt = x] \in Locals
    BY DEF Locals, Query
  <1>7. \A x \in Outcomes : [f EXCEPT ![q].status = x] \in Locals
    BY DEF Locals, Query
  <1>8. \A x \in BOOLEAN : [f EXCEPT ![q].abandoned = x] \in Locals
    BY DEF Locals, Query
  <1>9. \A x \in BOOLEAN : [f EXCEPT ![q].faulted = x] \in Locals
    BY DEF Locals, Query
  <1> QED
    BY <1>1, <1>2, <1>3, <1>4, <1>5, <1>6, <1>7, <1>8, <1>9

Typed == query' \in Locals

LEMMA GotoTyped ==
    ASSUME TypeOK, NEW q \in Queries, NEW place \in Places, Goto(q, place)
    PROVE  /\ Typed /\ Alone(q) /\ Unfaulted(q)
           /\ Becomes(q, place, query[q].event, query[q].status, query[q].told)
  <1>1. query \in Locals
    BY DEF TypeOK, Locals
  <1>2. Typed
    BY <1>1, FieldTyped DEF Goto, Typed
  <1> QED
    BY <1>1, <1>2 DEF Goto, Locals, Query, Alone, Unfaulted, Becomes

LEMMA WindTyped ==
    ASSUME TypeOK, NEW q \in Queries, NEW place \in Places, NEW told \in Told, Wind(q, place, told)
    PROVE  /\ Typed /\ Alone(q) /\ Unfaulted(q)
           /\ Becomes(q, place, "greeting", query[q].status, told)
  <1>0. query \in Locals
    BY DEF TypeOK, Locals
  <1> DEFINE q1 == [query EXCEPT ![q].pc = place]
             q2 == [q1 EXCEPT ![q].told = told]
             q3 == [q2 EXCEPT ![q].left = 0]
             q4 == [q3 EXCEPT ![q].event = "greeting"]
             q5 == [q4 EXCEPT ![q].saw = FALSE]
             q6 == [q5 EXCEPT ![q].attempt = 1]
  <1>1. q1 \in Locals
    BY <1>0, FieldTyped
  <1> HIDE DEF q1
  <1>2. q2 \in Locals
    BY <1>1, FieldTyped
  <1> HIDE DEF q2
  <1>3. q3 \in Locals
    BY <1>2, FieldTyped, StaleAfterAssumption
  <1> HIDE DEF q3
  <1>4. q4 \in Locals
    BY <1>3, FieldTyped DEF Events
  <1> HIDE DEF q4
  <1>5. q5 \in Locals
    BY <1>4, FieldTyped
  <1> HIDE DEF q5
  <1>6. q6 \in Locals
    BY <1>5, FieldTyped, WakeAssumption
  <1>7. Typed
    BY <1>6 DEF Wind, Typed, q1, q2, q3, q4, q5
  <1>8. Becomes(q, place, "greeting", query[q].status, told)
    BY <1>0 DEF Wind, Locals, Query, Becomes
  <1> QED
    BY <1>0, <1>7, <1>8 DEF Wind, Locals, Query, Alone, Unfaulted

LEMMA ExceptTyped ==
    ASSUME TypeOK, NEW q \in Queries, Except(q)
    PROVE  /\ Typed /\ Alone(q) /\ Unfaulted(q)
           /\ IF Streams(q) THEN Becomes(q, "yielding", "interrupted", query[q].status, query[q].told)
              ELSE Becomes(q, "cleanup", "greeting", query[q].status, query[q].told)
  <1>0. query \in Locals
    BY DEF TypeOK, Locals
  <1>1. CASE Streams(q)
    <2> DEFINE q1 == [query EXCEPT ![q].pc = "yielding"]
               q2 == [q1 EXCEPT ![q].event = "interrupted"]
               q3 == [q2 EXCEPT ![q].left = 0]
               q4 == [q3 EXCEPT ![q].saw = FALSE]
               q5 == [q4 EXCEPT ![q].attempt = 1]
    <2>1. q1 \in Locals
      BY <1>0, FieldTyped DEF Places
    <2> HIDE DEF q1
    <2>2. q2 \in Locals
      BY <2>1, FieldTyped DEF Events
    <2> HIDE DEF q2
    <2>3. q3 \in Locals
      BY <2>2, FieldTyped, StaleAfterAssumption
    <2> HIDE DEF q3
    <2>4. q4 \in Locals
      BY <2>3, FieldTyped
    <2> HIDE DEF q4
    <2>5. q5 \in Locals
      BY <2>4, FieldTyped, WakeAssumption
    <2>6. Typed
      BY <1>1, <2>5 DEF Except, Typed, q1, q2, q3, q4
    <2>7. Becomes(q, "yielding", "interrupted", query[q].status, query[q].told)
      BY <1>0, <1>1 DEF Except, Locals, Query, Becomes
    <2> QED
      BY <1>0, <1>1, <2>6, <2>7 DEF Except, Locals, Query, Alone, Unfaulted
  <1>2. CASE ~Streams(q)
    <2>1. query[q].told \in Told /\ Wind(q, "cleanup", query[q].told)
      BY <1>0, <1>2 DEF Except, Locals, Query
    <2> QED
      BY <1>2, <2>1, WindTyped DEF Places
  <1> QED
    BY <1>1, <1>2

LEMMA YieldTyped ==
    ASSUME TypeOK, NEW q \in Queries, NEW event \in Events, Yield(q, event)
    PROVE  /\ Typed /\ Alone(q) /\ Unfaulted(q)
           /\ Becomes(q, "yielding", event, query[q].status, query[q].told)
  <1>0. query \in Locals
    BY DEF TypeOK, Locals
  <1>1. Typed
    BY <1>0, FieldTyped DEF Yield, Typed, Places
  <1> QED
    BY <1>0, <1>1 DEF Yield, Locals, Query, Alone, Unfaulted, Becomes

LEMMA SendTyped ==
    ASSUME TypeOK, NEW q \in Queries,
           query' = [query EXCEPT ![q].pc = "sending", ![q].left = StaleAfter]
    PROVE  /\ Typed /\ Alone(q) /\ Unfaulted(q)
           /\ Becomes(q, "sending", query[q].event, query[q].status, query[q].told)
  <1>0. query \in Locals
    BY DEF TypeOK, Locals
  <1> DEFINE q1 == [query EXCEPT ![q].pc = "sending"]
  <1>1. q1 \in Locals
    BY <1>0, FieldTyped DEF Places
  <1> HIDE DEF q1
  <1>2. [q1 EXCEPT ![q].left = StaleAfter] \in Locals
    BY <1>1, FieldTyped, StaleAfterAssumption
  <1>3. Typed
    BY <1>2 DEF Typed, q1
  <1> QED
    BY <1>0, <1>3 DEF Locals, Query, Alone, Unfaulted, Becomes

LEMMA StartTyped ==
    ASSUME TypeOK, NEW q \in Queries, Start(q)
    PROVE  Typed /\ Moved(q)
  <1>0. query \in Locals
    BY DEF TypeOK, Locals
  <1>1. CASE Yield(q, "greeting") /\ Streams(q)
    BY <1>1, YieldTyped DEF Start, Events, Moved, At
  <1>2. CASE query' = [query EXCEPT ![q].pc = "sending", ![q].left = StaleAfter]
    BY <1>2, SendTyped DEF Start, Moved, At
  <1> QED
    BY <1>1, <1>2 DEF Start, Streams

LEMMA DeclineTyped ==
    ASSUME TypeOK, NEW q \in Queries, Decline(q)
    PROVE  Typed /\ Moved(q)
  <1>0. query \in Locals
    BY DEF TypeOK, Locals
  <1>1. PICK status \in {"failed", "uncertain"} :
          /\ status = "failed" => MayDecline(run[q].state)
          /\ query' = [query EXCEPT
                 ![q].status = status, ![q].attempt = 1, ![q].event = "upstream_error",
                 ![q].pc = IF Streams(q) THEN "settling" ELSE "cleanup",
                 ![q].left = IF Streams(q) THEN @ ELSE 0]
    BY DEF Decline
  <1> DEFINE place == IF Streams(q) THEN "settling" ELSE "cleanup"
             left == IF Streams(q) THEN query[q].left ELSE 0
             q1 == [query EXCEPT ![q].status = status]
             q2 == [q1 EXCEPT ![q].attempt = 1]
             q3 == [q2 EXCEPT ![q].event = "upstream_error"]
             q4 == [q3 EXCEPT ![q].pc = place]
             q5 == [q4 EXCEPT ![q].left = left]
  <1>2. q1 \in Locals
    BY <1>0, FieldTyped DEF Outcomes
  <1> HIDE DEF q1
  <1>3. q2 \in Locals
    BY <1>2, FieldTyped, WakeAssumption
  <1> HIDE DEF q2
  <1>4. q3 \in Locals
    BY <1>3, FieldTyped DEF Events
  <1> HIDE DEF q3
  <1>5. q4 \in Locals
    BY <1>4, FieldTyped DEF Places
  <1> HIDE DEF q4
  <1>6. left \in 0..StaleAfter
    BY <1>0, StaleAfterAssumption DEF Locals, Query
  <1>7. q5 \in Locals
    BY <1>5, <1>6, FieldTyped
  <1>8. Typed
    BY <1>0, <1>1, <1>7 DEF Typed, Locals, Query, q1, q2, q3, q4
  <1>9. Alone(q) /\ Unfaulted(q) /\ Becomes(q, place, "upstream_error", status, query[q].told)
    BY <1>0, <1>1 DEF Locals, Query, Alone, Unfaulted, Becomes
  <1> QED
    BY <1>1, <1>8, <1>9 DEF Decline, Moved, At

LEMMA AnswerTyped ==
    ASSUME TypeOK, NEW q \in Queries, Answer(q)
    PROVE  Typed /\ Moved(q)
  <1>0. query \in Locals
    BY DEF TypeOK, Locals
  <1> DEFINE q1 == [query EXCEPT ![q].pc = "settling"]
             q2 == [q1 EXCEPT ![q].event = "done"]
             q3 == [q2 EXCEPT ![q].left = 0]
             q4 == [q3 EXCEPT ![q].attempt = 1]
  <1>1. q1 \in Locals
    BY <1>0, FieldTyped DEF Places
  <1> HIDE DEF q1
  <1>2. q2 \in Locals
    BY <1>1, FieldTyped DEF Events
  <1> HIDE DEF q2
  <1>3. q3 \in Locals
    BY <1>2, FieldTyped, StaleAfterAssumption
  <1> HIDE DEF q3
  <1>4. q4 \in Locals
    BY <1>3, FieldTyped, WakeAssumption
  <1>5. Typed
    BY <1>4 DEF Answer, Typed, q1, q2, q3
  <1>6. Alone(q) /\ Unfaulted(q) /\ Becomes(q, "settling", "done", query[q].status, query[q].told)
    BY <1>0 DEF Answer, Locals, Query, Alone, Unfaulted, Becomes
  <1> QED
    BY <1>5, <1>6 DEF Answer, Moved, At

LEMMA ReadTyped ==
    ASSUME TypeOK, NEW q \in Queries,
           OpenStream(q) \/ (\E blank \in BOOLEAN : ReadText(q, blank)) \/ ReadError(q) \/ ReadDone(q)
    PROVE  Typed /\ Moved(q)
  <1>0. query \in Locals
    BY DEF TypeOK, Locals
  <1> USE DEF Alone, Unfaulted, Becomes
  <1>1. CASE OpenStream(q)
    <2> DEFINE q1 == [query EXCEPT ![q].pc = "reading"]
    <2>a. q1 \in Locals
      BY <1>0, FieldTyped DEF Places
    <2> HIDE DEF q1
    <2>b. [q1 EXCEPT ![q].attempt = 1] \in Locals
      BY <2>a, FieldTyped, WakeAssumption
    <2>1. Typed
      BY <1>1, <2>b DEF OpenStream, Typed, q1
    <2>2. Alone(q) /\ Unfaulted(q) /\ Becomes(q, "reading", query[q].event, query[q].status, query[q].told)
      BY <1>0, <1>1 DEF OpenStream, Locals, Query
    <2> QED
      BY <1>1, <2>1, <2>2 DEF OpenStream, Moved, At
  <1>2. ASSUME NEW blank \in BOOLEAN, ReadText(q, blank)
        PROVE  Typed /\ Moved(q)
    <2> DEFINE q1 == [query EXCEPT ![q].pc = "yielding"]
               q2 == [q1 EXCEPT ![q].event = "token"]
               saw == query[q].saw \/ ~blank
               q3 == [q2 EXCEPT ![q].saw = saw]
    <2>1. q2 \in Locals
      BY <1>0, FieldTyped DEF Places, Events
    <2> HIDE DEF q2
    <2>2. saw \in BOOLEAN
      OBVIOUS
    <2> HIDE DEF saw
    <2>3. q3 \in Locals
      BY <2>1, <2>2, FieldTyped
    <2>4. Typed
      BY <1>0, <1>2, <2>3 DEF ReadText, Typed, q2, saw, Locals, Query
    <2>5. Alone(q) /\ Unfaulted(q) /\ Becomes(q, "yielding", "token", query[q].status, query[q].told)
      BY <1>0, <1>2 DEF ReadText, Locals, Query
    <2> QED
      BY <1>2, <2>4, <2>5 DEF ReadText, Moved, At
  <1>3. CASE ReadError(q)
    <2> DEFINE q1 == [query EXCEPT ![q].pc = "settling"]
               q2 == [q1 EXCEPT ![q].event = "released"]
               q3 == [q2 EXCEPT ![q].status = "failed"]
               q4 == [q3 EXCEPT ![q].saw = FALSE]
    <2>1. q2 \in Locals
      BY <1>0, FieldTyped DEF Places, Events
    <2> HIDE DEF q2
    <2>2. q4 \in Locals
      BY <2>1, FieldTyped DEF Outcomes
    <2>3. Typed
      BY <1>3, <2>2 DEF ReadError, Typed, q2
    <2>4. Alone(q) /\ Unfaulted(q) /\ Becomes(q, "settling", "released", "failed", query[q].told)
      BY <1>0, <1>3 DEF ReadError, Locals, Query
    <2> QED
      BY <1>3, <2>3, <2>4 DEF ReadError, Moved, At
  <1>4. CASE ReadDone(q)
    <2> DEFINE q1 == [query EXCEPT ![q].pc = "settling"]
               q2 == [q1 EXCEPT ![q].event = "done"]
               q3 == [q2 EXCEPT ![q].saw = FALSE]
    <2>1. q2 \in Locals
      BY <1>0, FieldTyped DEF Places, Events
    <2> HIDE DEF q2
    <2>2. q3 \in Locals
      BY <2>1, FieldTyped
    <2>3. Typed
      BY <1>4, <2>2 DEF ReadDone, Typed, q2
    <2>4. Alone(q) /\ Unfaulted(q) /\ Becomes(q, "settling", "done", query[q].status, query[q].told)
      BY <1>0, <1>4 DEF ReadDone, Locals, Query
    <2> QED
      BY <1>4, <2>3, <2>4 DEF ReadDone, Moved, At
  <1> QED
    BY <1>1, <1>2, <1>3, <1>4

LEMMA DeliverTyped ==
    ASSUME TypeOK, NEW q \in Queries, Deliver(q)
    PROVE  Typed /\ Moved(q)
  <1>0. query \in Locals
    BY DEF TypeOK, Locals
  <1>1. CASE query[q].event = "greeting"
             /\ query' = [query EXCEPT ![q].pc = "sending", ![q].left = StaleAfter]
    BY <1>1, SendTyped DEF Deliver, Moved, At
  <1>2. CASE query[q].event = "token" /\ Goto(q, "reading")
    BY <1>2, GotoTyped DEF Deliver, Moved, At, Places
  <1>3. CASE query[q].event = "done" /\ Wind(q, "background", "done")
    BY <1>3, WindTyped DEF Deliver, Moved, At, Places, Told
  <1>4. CASE query[q].event \in {"released", "upstream_error", "interrupted"}
             /\ Wind(q, "cleanup", query[q].event)
    BY <1>4, WindTyped DEF Deliver, Moved, At, Places, Told
  <1> QED
    BY <1>1, <1>2, <1>3, <1>4 DEF Deliver

LEMMA LeaveTyped ==
    ASSUME TypeOK, NEW q \in Queries, Leave(q)
    PROVE  Typed /\ Moved(q)
  <1>0. query \in Locals /\ query[q].told \in Told
    BY DEF TypeOK, Locals, Query
  <1>1. CASE At(q, "accepted") /\ Wind(q, "background", query[q].told)
    BY <1>0, <1>1, WindTyped DEF Leave, Moved, At, Places
  <1>2. CASE query[q].pc \in {"sending", "reading"} /\ Wind(q, "cleanup", query[q].told)
    BY <1>0, <1>2, WindTyped DEF Leave, Moved, Places
  <1>3. CASE At(q, "yielding") /\ query' = [query EXCEPT ![q].pc = "background", ![q].left = 0,
                 ![q].event = "greeting", ![q].saw = FALSE, ![q].attempt = 1,
                 ![q].abandoned = query[q].event # "greeting" /\ query[q].status # "completed"]
    <2> DEFINE dropped == query[q].event # "greeting" /\ query[q].status # "completed"
               q1 == [query EXCEPT ![q].pc = "background"]
               q2 == [q1 EXCEPT ![q].left = 0]
               q3 == [q2 EXCEPT ![q].event = "greeting"]
               q4 == [q3 EXCEPT ![q].saw = FALSE]
               q5 == [q4 EXCEPT ![q].attempt = 1]
               q6 == [q5 EXCEPT ![q].abandoned = dropped]
    <2>1. q1 \in Locals
      BY <1>0, FieldTyped DEF Places
    <2> HIDE DEF q1
    <2>2. q2 \in Locals
      BY <2>1, FieldTyped, StaleAfterAssumption
    <2> HIDE DEF q2
    <2>3. q3 \in Locals
      BY <2>2, FieldTyped DEF Events
    <2> HIDE DEF q3
    <2>4. q4 \in Locals
      BY <2>3, FieldTyped
    <2> HIDE DEF q4
    <2>5. q5 \in Locals
      BY <2>4, FieldTyped, WakeAssumption
    <2> HIDE DEF q5
    <2>6. dropped \in BOOLEAN
      OBVIOUS
    <2> HIDE DEF dropped
    <2>7. q6 \in Locals
      BY <2>5, <2>6, FieldTyped
    <2>8. Typed
      BY <1>3, <2>7 DEF Typed, q1, q2, q3, q4, q5, dropped
    <2>9. Alone(q) /\ Unfaulted(q) /\ Becomes(q, "background", "greeting", query[q].status, query[q].told)
      BY <1>0, <1>3 DEF Locals, Query, Alone, Unfaulted, Becomes
    <2> QED
      BY <1>3, <2>8, <2>9 DEF Leave, Moved, At
  <1> QED
    BY <1>1, <1>2, <1>3 DEF Leave

LEMMA InsertTyped ==
    ASSUME TypeOK, NEW q \in Queries, Insert(q)
    PROVE  table' \in Tables
  BY DEF TypeOK, Insert, Reserved, Tables, Row, Statuses, Query

LEMMA SettledTyped ==
    ASSUME NEW row \in Row, NEW outcome \in Outcomes
    PROVE  Settled(row, outcome, 0) \in Row
  <1> DEFINE u == [row EXCEPT !.status = outcome]
             v == [u EXCEPT !.updated = 0]
  <1>1. u \in Row
    BY DEF Row, Statuses
  <1> HIDE DEF u
  <1>2. v \in Row
    BY <1>1 DEF Row
  <1>3. v = [row EXCEPT !.status = outcome, !.updated = 0]
    BY DEF u
  <1> HIDE DEF v
  <1> QED
    BY <1>2, <1>3 DEF Settled

LEMMA FinishTyped ==
    ASSUME TypeOK, NEW q \in Queries, NEW outcome \in Outcomes,
           Finish(q, outcome) \/ FinishFails(q, outcome)
    PROVE  table' \in Tables
  <1>1. CASE Finish(q, outcome)
    <2>1. query[q].key \in RequestIds
      BY DEF TypeOK, Query
    <2>2. Settled(table[query[q].key], outcome, 0) \in Row
      BY <2>1, SettledTyped DEF TypeOK, Tables
    <2> QED
      BY <1>1, <2>1, <2>2 DEF Finish, TypeOK, Tables
  <1>2. CASE UNCHANGED table
    BY <1>2 DEF TypeOK
  <1> QED
    BY <1>1, <1>2 DEF FinishFails

LEMMA ReservesTyped ==
    ASSUME TypeOK, NEW q \in Queries, Reserve(q) \/ ReserveFails(q)
    PROVE  Typed /\ table' \in Tables /\ Reserves(q)
  <1>0. query \in Locals
    BY DEF TypeOK, Locals
  <1>1. CASE Reserve(q)
    BY <1>1, GotoTyped, InsertTyped DEF Reserve, Reserves, Places
  <1>2. CASE ReserveFails(q)
    <2> DEFINE q1 == [query EXCEPT ![q].pc = "closed"]
               q2 == [q1 EXCEPT ![q].told = "unavailable"]
               q3 == [q2 EXCEPT ![q].faulted = TRUE]
    <2>1. q1 \in Locals
      BY <1>0, FieldTyped DEF Places
    <2> HIDE DEF q1
    <2>2. q2 \in Locals
      BY <2>1, FieldTyped DEF Told
    <2> HIDE DEF q2
    <2>3. q3 \in Locals
      BY <2>2, FieldTyped
    <2>4. Typed
      BY <1>2, <2>3 DEF ReserveFails, Typed, q1, q2
    <2>5. Alone(q) /\ query'[q].faulted
          /\ Becomes(q, "closed", query[q].event, query[q].status, "unavailable")
      BY <1>0, <1>2 DEF ReserveFails, Locals, Query, Alone, Becomes
    <2>6. table' \in Tables
      BY <1>2, InsertTyped DEF ReserveFails, TypeOK
    <2> QED
      BY <1>2, <2>4, <2>5, <2>6 DEF ReserveFails, Reserves
  <1> QED
    BY <1>1, <1>2

LEMMA SettleTyped ==
    ASSUME TypeOK, NEW q \in Queries, Settle(q) \/ SettleFails(q)
    PROVE  Typed /\ table' \in Tables /\ Finishes(q)
  <1>0. query \in Locals /\ query[q].told \in Told
    BY DEF TypeOK, Locals, Query
  <1>1. Outcome(q) \in Outcomes
    BY <1>0 DEF Outcome, Locals, Query, Outcomes
  <1>2. CASE Settle(q) /\ Streams(q)
    <2> DEFINE q1 == [query EXCEPT ![q].pc = "yielding"]
    <2>1. query' = [query EXCEPT ![q].pc = "yielding", ![q].status = Outcome(q)]
      BY <1>2 DEF Settle
    <2>2. q1 \in Locals
      BY <1>0, FieldTyped DEF Places
    <2> HIDE DEF q1
    <2>3. [q1 EXCEPT ![q].status = Outcome(q)] \in Locals
      BY <1>1, <2>2, FieldTyped
    <2>4. Typed
      BY <2>1, <2>3 DEF Typed, q1
    <2>5. Alone(q) /\ Unfaulted(q) /\ Becomes(q, "yielding", query[q].event, Outcome(q), query[q].told)
      BY <1>0, <2>1 DEF Locals, Query, Alone, Unfaulted, Becomes
    <2> QED
      BY <1>1, <1>2, <2>4, <2>5, FinishTyped DEF Settle, Finishes, At
  <1>3. CASE Settle(q) /\ ~Streams(q)
    BY <1>1, <1>3, WindTyped, FinishTyped DEF Settle, Finishes, At, Places, Told
  <1>4. CASE SettleFails(q)
    <2>1. /\ Typed /\ Alone(q) /\ Unfaulted(q)
          /\ IF Streams(q) THEN Becomes(q, "yielding", "interrupted", query[q].status, query[q].told)
             ELSE Becomes(q, "cleanup", "greeting", query[q].status, query[q].told)
      BY <1>4, ExceptTyped DEF SettleFails
    <2> QED
      BY <1>1, <1>4, <2>1, FinishTyped DEF SettleFails, Finishes, At
  <1> QED
    BY <1>2, <1>3, <1>4

LEMMA LastTyped ==
    ASSUME TypeOK, NEW q \in Queries,
           Cleanup(q) \/ Background(q) \/ Dropped(q) \/ LastFinishFails(q)
    PROVE  Typed /\ table' \in Tables /\ Finishes(q)
  <1>0. query \in Locals /\ query[q].told \in Told /\ query[q].status \in Outcomes
    BY DEF TypeOK, Locals, Query
  <1> USE DEF At
  <1>1. CASE Cleanup(q)
    BY <1>0, <1>1, WindTyped, FinishTyped DEF Cleanup, Finishes, Places, Told
  <1>2. CASE Background(q)
    BY <1>0, <1>2, WindTyped, FinishTyped DEF Background, Finishes, Places, Outcomes
  <1>3. CASE Dropped(q)
    BY <1>0, <1>3, WindTyped, FinishTyped DEF Dropped, Finishes, Places
  <1>4. CASE LastFinishFails(q)
    <2> DEFINE place == IF At(q, "background") /\ query[q].abandoned THEN "dropped" ELSE "closed"
               outcome == IF At(q, "background") THEN "uncertain" ELSE query[q].status
               q1 == [query EXCEPT ![q].faulted = TRUE]
               q2 == [q1 EXCEPT ![q].left = 0]
               q3 == [q2 EXCEPT ![q].pc = place]
    <2>1. q1 \in Locals
      BY <1>0, FieldTyped
    <2> HIDE DEF q1
    <2>2. q2 \in Locals
      BY <2>1, FieldTyped, StaleAfterAssumption
    <2> HIDE DEF q2
    <2>3. q3 \in Locals
      BY <2>2, FieldTyped DEF Places
    <2>4. Typed
      BY <1>4, <2>3 DEF LastFinishFails, Typed, q1, q2
    <2>5. Alone(q) /\ query'[q].faulted
          /\ Becomes(q, place, query[q].event, query[q].status, query[q].told)
      BY <1>0, <1>4 DEF LastFinishFails, Locals, Query, Alone, Becomes
    <2>6. table' \in Tables
      <3>1. outcome \in Outcomes /\ FinishFails(q, outcome)
        BY <1>0, <1>4 DEF LastFinishFails, Outcomes
      <3> QED
        BY <3>1, FinishTyped
    <2> QED
      BY <1>4, <2>4, <2>5, <2>6 DEF LastFinishFails, Finishes
  <1> QED
    BY <1>1, <1>2, <1>3, <1>4

LEMMA RunTyped ==
    ASSUME IInv, NEW q \in Queries, StartRun(q) \/ EndRun(q) \/ Replay(q)
    PROVE  Typed /\ run' \in [Queries -> Run] /\ Runs(q)
  <1>0. /\ query \in Locals /\ run \in [Queries -> Run] /\ RunsCounted(q)
        /\ query[q].attempt \in 1..WakeAttempts
        /\ run[q].started \in 0..WakeAttempts /\ run[q].answered \in BOOLEAN
    BY DEF IInv, TypeOK, Locals, Query, Run
  <1>1. CASE StartRun(q)
    <2>1. run[q].started + 1 \in 0..WakeAttempts
      BY <1>0, <1>1, WakeAssumption DEF StartRun, RunsCounted
    <2> DEFINE r1 == [run EXCEPT ![q].state = "running"]
    <2>2. r1 \in [Queries -> Run] /\ r1[q].started = run[q].started
      BY <1>0 DEF Run
    <2>3. run' = [r1 EXCEPT ![q].started = run[q].started + 1]
      BY <1>0, <1>1 DEF StartRun, Run
    <2> HIDE DEF r1
    <2>4. run' \in [Queries -> Run]
      BY <2>1, <2>2, <2>3 DEF Run
    <2>5. UNCHANGED <<table, query>> /\ At(q, "sending") /\ run[q].state = "none"
          /\ run' = [run EXCEPT ![q].state = "running", ![q].started = @ + 1]
      BY <1>1 DEF StartRun
    <2>6. /\ run'[q].state = "running" /\ run'[q].started = run[q].started + 1
          /\ run'[q].answered = run[q].answered
          /\ \A p \in Queries \ {q} : run'[p] = run[p]
      BY <1>0, <2>5 DEF Run
    <2> QED
      BY <1>0, <2>4, <2>5, <2>6 DEF Runs, Alone, Unfaulted, Becomes, Typed
  <1>2. CASE EndRun(q)
    <2>1. UNCHANGED <<table, query>> /\ run[q].state = "running"
      BY <1>2 DEF EndRun
    <2>2. ASSUME NEW state \in {"completed", "lost"},
                 run' = [run EXCEPT ![q].state = state, ![q].answered = TRUE]
          PROVE  Typed /\ run' \in [Queries -> Run] /\ Runs(q)
      <3>1. run' \in [Queries -> Run]
        BY <1>0, <2>2 DEF Run
      <3>2. /\ run'[q].state = state /\ run'[q].started = run[q].started
            /\ run'[q].answered = TRUE
            /\ \A p \in Queries \ {q} : run'[p] = run[p]
        BY <1>0, <2>2 DEF Run
      <3> QED
        BY <1>0, <2>1, <2>2, <3>1, <3>2 DEF Runs, Alone, Unfaulted, Becomes, Typed
    <2>3. CASE run' = [run EXCEPT ![q].state = "failed"]
      <3>1. run' \in [Queries -> Run]
        BY <1>0, <2>3 DEF Run
      <3>2. /\ run'[q].state = "failed" /\ run'[q].started = run[q].started
            /\ run'[q].answered = run[q].answered
            /\ \A p \in Queries \ {q} : run'[p] = run[p]
        BY <1>0, <2>3 DEF Run
      <3> QED
        BY <1>0, <2>1, <3>1, <3>2 DEF Runs, Alone, Unfaulted, Becomes, Typed
    <2> QED
      BY <1>2, <2>2, <2>3 DEF EndRun
  <1>3. CASE Replay(q)
    <2>1. query[q].attempt + 1 \in 1..WakeAttempts
      BY <1>0, <1>3, WakeAssumption DEF Replay
    <2>2. query' = [query EXCEPT ![q].attempt = query[q].attempt + 1]
      BY <1>0, <1>3 DEF Replay, Locals, Query
    <2>3. Typed
      BY <1>0, <2>1, <2>2, FieldTyped DEF Typed
    <2>4. Alone(q) /\ Unfaulted(q) /\ query'[q].attempt = query[q].attempt + 1
          /\ Becomes(q, query[q].pc, query[q].event, query[q].status, query[q].told)
      BY <1>0, <2>2 DEF Locals, Query, Alone, Unfaulted, Becomes
    <2>5. run' \in [Queries -> Run] /\ run'[q].state = "none"
          /\ run'[q].started = run[q].started /\ run'[q].answered = run[q].answered
          /\ \A p \in Queries \ {q} : run'[p] = run[p]
      BY <1>0, <1>3 DEF Replay, Run
    <2> QED
      BY <1>3, <2>3, <2>4, <2>5 DEF Replay, Runs
  <1> QED
    BY <1>1, <1>2, <1>3

LEMMA OlderTyped ==
    ASSUME NEW row \in Row
    PROVE  /\ Older(row) \in Row
           /\ Older(row).status = row.status /\ Older(row).metered = row.metered
  BY StaleAfterAssumption DEF Older, Row

LEMMA TickTyped ==
    ASSUME TypeOK, Tick
    PROVE  Typed /\ table' \in Tables /\ Waits
  <1>0. query \in Locals /\ table \in Tables
    BY DEF TypeOK, Locals
  <1>1. table' = [id \in RequestIds |-> Older(table[id])]
    BY DEF Tick
  <1>2. /\ table' \in Tables
        /\ \A id \in RequestIds :
              table'[id].status = table[id].status /\ table'[id].metered = table[id].metered
    BY <1>0, <1>1, OlderTyped DEF Tables
  <1>3. ASSUME NEW q \in Queries
        PROVE  /\ query'[q] \in Query
               /\ query'[q].key = query[q].key /\ query'[q].route = query[q].route
               /\ query'[q].attempt = query[q].attempt /\ Unfaulted(q)
               /\ Becomes(q, query[q].pc, query[q].event, query[q].status, query[q].told)
    <2>1. query[q] \in Query
      BY <1>0 DEF Locals
    <2>2. CASE Timed(q)
      <3>1. query'[q] = [query[q] EXCEPT !.left = @ - 1] /\ query[q].left > 0
        BY <2>2 DEF Tick
      <3>2. query[q].left - 1 \in 0..StaleAfter
        BY <2>1, <3>1, StaleAfterAssumption DEF Query
      <3> QED
        BY <2>1, <3>1, <3>2 DEF Query, Unfaulted, Becomes
    <2>3. CASE ~Timed(q)
      BY <2>1, <2>3 DEF Tick, Unfaulted, Becomes
    <2> QED
      BY <2>2, <2>3
  <1>4. Typed
    BY <1>3 DEF Tick, Typed, Locals
  <1> QED
    BY <1>2, <1>3, <1>4 DEF Waits, Tick

LEMMA RestartTyped ==
    ASSUME TypeOK, Restart
    PROVE  Typed /\ Stops
  <1>0. query \in Locals
    BY DEF TypeOK, Locals
  <1>1. ASSUME NEW q \in Queries
        PROVE  /\ query'[q] \in Query
               /\ \/ query'[q] = query[q]
                  \/ /\ query[q].pc \notin {"new", "closed"}
                     /\ query'[q].key = query[q].key /\ query'[q].route = query[q].route
                     /\ Becomes(q, "closed", "greeting", query[q].status, query[q].told)
                     /\ query'[q].faulted
    <2>1. query[q] \in Query
      BY <1>0 DEF Locals
    <2>2. CASE query[q].pc \in {"new", "closed"}
      BY <2>1, <2>2 DEF Restart
    <2>3. CASE query[q].pc \notin {"new", "closed"}
      <3>1. query'[q] = [query[q] EXCEPT !.pc = "closed", !.left = 0, !.event = "greeting",
                    !.saw = FALSE, !.attempt = 1, !.faulted = TRUE]
        BY <2>3 DEF Restart
      <3>2. 0 \in 0..StaleAfter /\ 1 \in 1..WakeAttempts /\ "closed" \in Places
            /\ "greeting" \in Events
        BY StaleAfterAssumption, WakeAssumption DEF Places, Events
      <3> QED
        BY <2>1, <2>3, <3>1, <3>2 DEF Query, Becomes
    <2> QED
      BY <2>2, <2>3
  <1>2. Typed
    BY <1>1 DEF Restart, Typed, Locals
  <1> QED
    BY <1>1, <1>2 DEF Stops, Restart

LEMMA MovedTyped ==
    ASSUME TypeOK, NEW q \in Queries, Submit(q) \/ Refuse(q) \/ Interrupt(q)
    PROVE  Typed /\ Moved(q)
  <1>1. CASE Submit(q)
    BY <1>1, GotoTyped DEF Submit, Moved, At, Places
  <1>2. CASE Refuse(q)
    BY <1>2, WindTyped DEF Refuse, Moved, At, Places, Told
  <1>3. CASE Interrupt(q)
    BY <1>3, ExceptTyped DEF Interrupt, Moved
  <1> QED
    BY <1>1, <1>2, <1>3

\* Every action keeps the types and is a step of the kinds above.
LEMMA Condensed ==
    IInv /\ [Next]_vars => TypeOK' /\ (Step \/ UNCHANGED <<table, query, run>>)
  <1> SUFFICES ASSUME IInv, [Next]_vars
               PROVE  TypeOK' /\ (Step \/ UNCHANGED <<table, query, run>>)
    OBVIOUS
  <1>0. TypeOK
    BY DEF IInv
  <1>1. ASSUME Typed, table' \in Tables, run' \in [Queries -> Run],
               enforced' \in BOOLEAN, faults' \in 0..MaxFaults
        PROVE  TypeOK'
    BY <1>1 DEF TypeOK, Typed, Locals
  <1>a. Fault => faults' \in 0..MaxFaults
    BY <1>0, FaultsAssumption DEF Fault, TypeOK
  <1>2. ASSUME NEW q \in Queries,
               \/ Submit(q) \/ Refuse(q) \/ Start(q) \/ Decline(q) \/ Answer(q) \/ OpenStream(q)
               \/ (\E blank \in BOOLEAN : ReadText(q, blank)) \/ ReadError(q) \/ ReadDone(q)
               \/ Interrupt(q) \/ Deliver(q) \/ Leave(q)
        PROVE  TypeOK' /\ Step
    <2>1. Typed /\ Moved(q)
      BY <1>0, <1>2, MovedTyped, StartTyped, DeclineTyped, AnswerTyped, ReadTyped, DeliverTyped, LeaveTyped
    <2>2. UNCHANGED <<table, run, enforced, faults>>
      BY <1>2 DEF Submit, Refuse, Start, Decline, Answer, OpenStream, ReadText, ReadError,
                  ReadDone, Interrupt, Deliver, Leave
    <2>3. TypeOK'
      BY <1>0, <1>1, <2>1, <2>2 DEF TypeOK
    <2> QED
      BY <2>1, <2>3 DEF Step
  <1>3. ASSUME NEW q \in Queries, Reserve(q) \/ ReserveFails(q)
        PROVE  TypeOK' /\ Step
    <2>1. Typed /\ table' \in Tables /\ Reserves(q)
      BY <1>0, <1>3, ReservesTyped
    <2>2. UNCHANGED <<run, enforced>> /\ (UNCHANGED faults \/ Fault)
      BY <1>3 DEF Reserve, ReserveFails
    <2>3. TypeOK'
      BY <1>0, <1>1, <1>a, <2>1, <2>2 DEF TypeOK
    <2> QED
      BY <2>1, <2>3 DEF Step
  <1>4. ASSUME NEW q \in Queries,
               \/ Settle(q) \/ SettleFails(q)
               \/ Cleanup(q) \/ Background(q) \/ Dropped(q) \/ LastFinishFails(q)
        PROVE  TypeOK' /\ Step
    <2>1. Typed /\ table' \in Tables /\ Finishes(q)
      BY <1>0, <1>4, SettleTyped, LastTyped
    <2>2. UNCHANGED <<run, enforced>> /\ (UNCHANGED faults \/ Fault)
      BY <1>4 DEF Settle, SettleFails, Cleanup, Background, Dropped, LastFinishFails
    <2>3. TypeOK'
      BY <1>0, <1>1, <1>a, <2>1, <2>2 DEF TypeOK
    <2> QED
      BY <2>1, <2>3 DEF Step
  <1>5. ASSUME NEW q \in Queries, StartRun(q) \/ EndRun(q) \/ Replay(q)
        PROVE  TypeOK' /\ Step
    <2>1. Typed /\ run' \in [Queries -> Run] /\ Runs(q)
      BY <1>5, RunTyped
    <2>2. UNCHANGED <<table, enforced>> /\ (UNCHANGED faults \/ Fault)
      BY <1>5 DEF StartRun, EndRun, Replay
    <2>3. TypeOK'
      BY <1>0, <1>1, <1>a, <2>1, <2>2 DEF TypeOK
    <2> QED
      BY <2>1, <2>3 DEF Step
  <1>6. CASE Tick
    <2>1. Typed /\ table' \in Tables /\ Waits
      BY <1>0, <1>6, TickTyped
    <2>2. UNCHANGED <<run, enforced, faults>>
      BY <1>6 DEF Tick
    <2>3. TypeOK'
      BY <1>0, <1>1, <2>1, <2>2 DEF TypeOK
    <2> QED
      BY <2>1, <2>3 DEF Step
  <1>7. CASE Restart
    <2>1. Typed /\ Stops
      BY <1>0, <1>7, RestartTyped
    <2>2. UNCHANGED <<table, run>> /\ Fault /\ enforced' \in BOOLEAN
      BY <1>7 DEF Restart
    <2>3. TypeOK'
      BY <1>0, <1>1, <1>a, <2>1, <2>2 DEF TypeOK
    <2> QED
      BY <2>1, <2>3 DEF Step
  <1>8. CASE UNCHANGED vars
    BY <1>0, <1>8 DEF TypeOK, vars
  <1> QED
    BY <1>2, <1>3, <1>4, <1>5, <1>6, <1>7, <1>8 DEF Next, Resume, Respond

-----------------------------------------------------------------------------
(* Steps and the rows *)

\* What a finish does to the row of its query.
LEMMA FinishRow ==
    ASSUME TypeOK, NEW q \in Queries, NEW outcome \in Outcomes,
           Finish(q, outcome) \/ FinishFails(q, outcome)
    PROVE  LET id == query[q].key IN
           /\ \A other \in RequestIds \ {id} : table'[other] = table[other]
           /\ \/ table'[id] = table[id]
              \/ table[id].status = "reserved" /\ table'[id].status = outcome
           /\ Finish(q, outcome) /\ table[id].status = "reserved" => table'[id].status = outcome
  <1>1. query[q].key \in RequestIds
    BY DEF TypeOK, Query
  <1>2. table[query[q].key] \in Row
    BY <1>1 DEF TypeOK, Tables
  <1>3. CASE Finish(q, outcome)
    BY <1>1, <1>2, <1>3 DEF Finish, Settled, TypeOK, Tables, Row
  <1>4. CASE UNCHANGED table
    BY <1>3, <1>4
  <1> QED
    BY <1>3, <1>4 DEF FinishFails

\* What reserve does to the row of its query.
LEMMA InsertRow ==
    ASSUME TypeOK, NEW q \in Queries, Insert(q)
    PROVE  LET id == query[q].key IN
           /\ \A other \in RequestIds \ {id} : table'[other] = table[other]
           /\ table'[id].status = "reserved"
  BY DEF TypeOK, Insert, Reserved, Tables, Query

\* A step of one query keeps the rows of the other ids; its own row is
\* inserted, settled or kept.
LEMMA OwnRow ==
    ASSUME IInv, NEW q \in Queries, Moved(q) \/ Reserves(q) \/ Finishes(q) \/ Runs(q)
    PROVE  LET id == query[q].key IN
           /\ \A other \in RequestIds \ {id} : table'[other] = table[other]
           /\ \/ table'[id] = table[id]
              \/ /\ At(q, "posted") /\ table[id].status = "none" /\ table'[id].status = "reserved"
              \/ /\ query[q].pc \in {"settling", "cleanup", "background", "dropped"}
                 /\ table[id].status = "reserved" /\ table'[id].status \in Outcomes
  <1>0. TypeOK /\ query[q].status \in Outcomes
    BY DEF IInv, TypeOK, Query
  <1>1. CASE Moved(q) \/ Runs(q)
    BY <1>1 DEF Moved, Runs
  <1>2. CASE Reserves(q)
    BY <1>0, <1>2, InsertRow DEF Reserves, Admissible, IsDuplicate
  <1>3. CASE Finishes(q)
    <2>1. Outcome(q) \in Outcomes /\ "uncertain" \in Outcomes
      BY <1>0 DEF Outcome, Outcomes
    <2>2. PICK outcome \in Outcomes : Finish(q, outcome) \/ FinishFails(q, outcome)
      BY <1>0, <1>3, <2>1 DEF Finishes
    <2>3. query[q].pc \in {"settling", "cleanup", "background", "dropped"}
      BY <1>3 DEF Finishes
    <2> QED
      BY <1>0, <2>2, <2>3, FinishRow
  <1> QED
    BY <1>1, <1>2, <1>3

-----------------------------------------------------------------------------
(* The invariant of each query *)

\* What AnswerIsPaid, ReleaseIsReal and ClosedIsSettled say of one query.
Kept(q) ==
    /\ query[q].told = "done" => RowOf(q).status = "completed"
    /\ query[q].told \in {"released", "rejected"} => RowOf(q).status = "failed"
    /\ At(q, "closed") /\ query[q].told # "refused" /\ ~query[q].faulted
          => RowOf(q).status \in Outcomes

Good(q) == RowAgrees(q) /\ LocalsAgree(q) /\ RunsCounted(q) /\ Kept(q)

LEMMA RowTyped == IInv => \A q \in Queries : RowOf(q).status \in Statuses
  BY DEF IInv, TypeOK, Query, Tables, Row, RowOf

LEMMA GoodBefore == IInv => \A q \in Queries : Good(q)
  BY DEF IInv, Good, Kept, AnswerIsPaid, ReleaseIsReal, ClosedIsSettled

\* A query that settles is admitted, so that its row is its own.
LEMMA OthersStay ==
    ASSUME IInv, NEW q \in Queries, Moved(q) \/ Reserves(q) \/ Finishes(q) \/ Runs(q),
           NEW p \in Queries \ {q}
    PROVE  Good(p)' /\ (Admitted(p)' <=> Admitted(p))
  <1>1. query'[p] = query[p] /\ run'[p] = run[p]
    BY DEF Moved, Reserves, Finishes, Runs, Alone
  <1>2. query[p].key \in RequestIds /\ query[q].key \in RequestIds
    BY DEF IInv, TypeOK, Query
  <1>3. Admitted(p)' <=> Admitted(p)
    BY <1>1 DEF Admitted
  <1>4. Good(p)
    BY GoodBefore
  <1>5. Admitted(p) => table'[query[p].key].status = table[query[p].key].status
    <2> SUFFICES ASSUME Admitted(p) PROVE table'[query[p].key].status = table[query[p].key].status
      OBVIOUS
    <2>1. table[query[p].key].status # "none"
      BY <1>4 DEF Good, RowAgrees, RowOf
    <2>2. query[p].key = query[q].key => ~Admitted(q)
      BY DEF IInv, KeysApart
    <2>3. query[q].pc \in {"settling", "cleanup", "background", "dropped"} => Admitted(q)
      BY DEF Admitted
    <2> QED
      BY <1>2, <2>1, <2>2, <2>3, OwnRow
  <1>6. table[query[p].key].status \in Outcomes => table'[query[p].key].status \in Outcomes
    BY <1>2, OwnRow DEF Outcomes
  <1>7. RowAgrees(p)'
    BY <1>1, <1>3, <1>4, <1>5 DEF Good, RowAgrees, Admitted, Unsettled, RowOf, Streams, At
  <1>8. LocalsAgree(p)' /\ RunsCounted(p)'
    BY <1>1, <1>4 DEF Good, LocalsAgree, RunsCounted, Unsettled, Streams, At
  <1>9. Kept(p)'
    BY <1>1, <1>4, <1>5, <1>6 DEF Good, Kept, Admitted, RowOf, At
  <1> QED
    BY <1>3, <1>7, <1>8, <1>9 DEF Good

LEMMA RunsGood ==
    ASSUME IInv, NEW q \in Queries, Runs(q)
    PROVE  Good(q)' /\ (Admitted(q)' => Admitted(q))
  <1>0. Good(q) /\ run[q].started \in Nat /\ query[q].attempt \in Nat
    BY GoodBefore, WakeAssumption DEF IInv, TypeOK, Run, Query
  <1> USE DEF Runs, Alone, Unfaulted, Becomes, At, RowOf, Streams
  <1>1. Admitted(q)' => Admitted(q)
    BY DEF Admitted
  <1>2. Unsettled(q)' <=> Unsettled(q)
    BY DEF Unsettled
  <1>3. RowAgrees(q)'
    BY <1>0, <1>1, <1>2 DEF Good, RowAgrees, Unsettled, Admitted
  <1>4. LocalsAgree(q)'
    BY <1>0, <1>2 DEF Good, LocalsAgree, Unsettled
  <1>5. RunsCounted(q)'
    BY <1>0 DEF Good, RunsCounted
  <1>6. Kept(q)'
    BY <1>0 DEF Good, Kept
  <1> QED
    BY <1>1, <1>3, <1>4, <1>5, <1>6 DEF Good

LEMMA MovedGood ==
    ASSUME IInv, TypeOK', NEW q \in Queries, Moved(q)
    PROVE  Good(q)' /\ (Admitted(q)' => Admitted(q))
  <1>0. Good(q) /\ run[q].started \in Nat /\ query'[q].attempt \in Nat \ {0}
    BY GoodBefore, WakeAssumption DEF IInv, TypeOK, Run, Query
  <1> USE DEF Moved, Alone, Unfaulted, Becomes, At, RowOf, Streams
  <1>1. Admitted(q)' => Admitted(q)
    BY <1>0 DEF Admitted, Good, LocalsAgree, RunsCounted
  <1>2. Unsettled(q)' => Unsettled(q)
    BY DEF Unsettled
  <1>3. RowAgrees(q)'
    BY <1>0, <1>1, <1>2 DEF Good, RowAgrees, LocalsAgree, Unsettled, Admitted
  <1>4. LocalsAgree(q)'
    BY <1>0, <1>2 DEF Good, LocalsAgree, Unsettled
  <1>5. RunsCounted(q)'
    BY <1>0 DEF Good, RunsCounted, LocalsAgree
  <1>6. Kept(q)'
    BY <1>0 DEF Good, Kept, RowAgrees
  <1> QED
    BY <1>1, <1>3, <1>4, <1>5, <1>6 DEF Good

LEMMA ReservesGood ==
    ASSUME IInv, NEW q \in Queries, Reserves(q)
    PROVE  Good(q)' /\ (Admitted(q)' => table[query[q].key].status = "none")
  <1>0. Good(q)
    BY GoodBefore
  <1>1. TypeOK
    BY DEF IInv
  <1>2. Insert(q) => table'[query[q].key].status = "reserved"
    BY <1>1, InsertRow
  <1> USE DEF Reserves, Alone, Unfaulted, Becomes, At, RowOf, Streams
  <1>3. Admitted(q)' => query'[q].pc = "accepted"
    BY <1>0 DEF Admitted, Good, LocalsAgree, RunsCounted
  <1>4. RowAgrees(q)'
    BY <1>0, <1>2, <1>3 DEF Good, RowAgrees, Unsettled, LocalsAgree, Admitted
  <1>5. LocalsAgree(q)'
    BY <1>0 DEF Good, LocalsAgree, Unsettled, RunsCounted
  <1>6. RunsCounted(q)'
    BY <1>0 DEF Good, RunsCounted
  <1>7. Kept(q)'
    BY <1>0 DEF Good, Kept, LocalsAgree
  <1> QED
    BY <1>3, <1>4, <1>5, <1>6, <1>7 DEF Good, Admissible, IsDuplicate

\* Every disjunct of Finishes, from what it does to the row.
LEMMA FinishesGood ==
    ASSUME IInv, NEW q \in Queries, Finishes(q)
    PROVE  Good(q)' /\ (Admitted(q)' => Admitted(q))
  <1>0. Good(q) /\ TypeOK /\ query[q].status \in Outcomes /\ Outcome(q) \in Outcomes
    BY GoodBefore DEF IInv, TypeOK, Query, Outcome, Outcomes
  <1>1. /\ query'[q].key = query[q].key /\ query'[q].route = query[q].route
        /\ UNCHANGED run
    BY DEF Finishes, Alone
  <1>2. Admitted(q)
    BY DEF Finishes, Admitted
  <1>3. \A outcome \in Outcomes : Finish(q, outcome) \/ FinishFails(q, outcome)
           => /\ RowOf(q)'.status = RowOf(q).status
                 \/ (RowOf(q).status = "reserved" /\ RowOf(q)'.status = outcome)
              /\ Finish(q, outcome) /\ RowOf(q).status = "reserved" => RowOf(q)'.status = outcome
    BY <1>0, <1>1, FinishRow DEF RowOf
  <1>4. "uncertain" \in Outcomes /\ "reserved" \notin Outcomes /\ "none" \notin Outcomes
    BY DEF Outcomes
  <1>5. Streams(q)' = Streams(q)
    BY <1>1 DEF Streams
  <1>6. CASE query[q].pc = "settling"
    <2>1. RowOf(q).status = "reserved"
      BY <1>0, <1>6 DEF Good, RowAgrees, Unsettled
    <2>2. /\ query[q].event \in {"done", "released", "upstream_error"}
          /\ query[q].event = "released" => query[q].status = "failed"
          /\ ~Streams(q) => query[q].event = "done" /\ query[q].status = "uncertain"
          /\ query[q].status = "failed" => MayBeReleased(run[q].state)
          /\ run[q].answered <=> HasAnswer(run[q].state)
          /\ query[q].told = "done" => FALSE
          /\ query[q].told \in {"released", "rejected"} => FALSE
      BY <1>0, <1>6, <2>1 DEF Good, LocalsAgree, Kept, At
    <2>3. CASE /\ Finish(q, Outcome(q)) /\ Unfaulted(q)
               /\ IF Streams(q) THEN Becomes(q, "yielding", query[q].event, Outcome(q), query[q].told)
                  ELSE Becomes(q, "closed", "greeting", query[q].status, "done")
      <3>1. RowOf(q)'.status = Outcome(q)
        BY <1>0, <1>3, <2>1, <2>3
      <3>2. Outcome(q) = IF query[q].event = "done" THEN "completed" ELSE query[q].status
        BY DEF Outcome
      <3> HIDE DEF Outcome
      <3>3. CASE Streams(q)
        <4>1. Becomes(q, "yielding", query[q].event, Outcome(q), query[q].told)
          BY <2>3, <3>3
        <4> QED
          BY <1>0, <1>1, <1>2, <1>4, <1>5, <2>2, <3>1, <3>2, <3>3, <4>1
             DEF Good, RowAgrees, LocalsAgree, RunsCounted, Kept, Becomes, At, Unsettled
      <3>4. CASE ~Streams(q)
        <4>1. Becomes(q, "closed", "greeting", query[q].status, "done")
          BY <2>3, <3>4
        <4> QED
          BY <1>0, <1>1, <1>2, <1>4, <1>5, <2>2, <3>1, <3>2, <3>4, <4>1
             DEF Good, RowAgrees, LocalsAgree, RunsCounted, Kept, Becomes, At, Unsettled
      <3> QED
        BY <3>3, <3>4
    <2>4. CASE /\ FinishFails(q, Outcome(q)) /\ Unfaulted(q)
               /\ IF Streams(q) THEN Becomes(q, "yielding", "interrupted", query[q].status, query[q].told)
                  ELSE Becomes(q, "cleanup", "greeting", query[q].status, query[q].told)
      <3>1. RowOf(q)'.status \in {"reserved", Outcome(q)}
        BY <1>0, <1>3, <2>1, <2>4
      <3>2. Outcome(q) \in {"completed", query[q].status}
        BY DEF Outcome
      <3> QED
        BY <1>0, <1>1, <1>2, <1>4, <1>5, <2>2, <2>4, <3>1, <3>2
           DEF Good, RowAgrees, LocalsAgree, RunsCounted, Kept, Becomes, At, Unsettled
    <2> QED
      BY <1>6, <2>3, <2>4 DEF Finishes
  <1>7. CASE query[q].pc = "cleanup"
    <2>1. CASE /\ Finish(q, query[q].status) /\ Unfaulted(q)
               /\ IF Streams(q) THEN Becomes(q, "background", "greeting", query[q].status, query[q].told)
                  ELSE Becomes(q, "closed", "greeting", query[q].status,
                               IF query[q].status = "failed" THEN "rejected" ELSE "unavailable")
      <3>1. /\ RowOf(q)'.status = RowOf(q).status
                 \/ (RowOf(q).status = "reserved" /\ RowOf(q)'.status = query[q].status)
            /\ RowOf(q).status = "reserved" => RowOf(q)'.status = query[q].status
        BY <1>0, <1>3, <2>1
      <3>2. RowOf(q)'.status \in Outcomes
        BY <1>0, <1>2, <3>1, RowTyped DEF Good, RowAgrees, Statuses
      <3> QED
        BY <1>0, <1>1, <1>2, <1>4, <1>5, <1>7, <2>1, <3>1, <3>2
           DEF Good, RowAgrees, LocalsAgree, RunsCounted, Kept, Becomes, At, Unsettled
    <2>2. CASE /\ query'[q].faulted /\ FinishFails(q, query[q].status)
               /\ Becomes(q, "closed", query[q].event, query[q].status, query[q].told)
      <3>1. RowOf(q)'.status = RowOf(q).status
                 \/ (RowOf(q).status = "reserved" /\ RowOf(q)'.status = query[q].status)
        BY <1>0, <1>3, <2>2
      <3> QED
        BY <1>0, <1>1, <1>2, <1>4, <1>5, <1>7, <2>2, <3>1
           DEF Good, RowAgrees, LocalsAgree, RunsCounted, Kept, Becomes, At, Unsettled
    <2> QED
      BY <1>7, <2>1, <2>2 DEF Finishes
  <1>8. CASE query[q].pc = "background"
    <2>1. (Finish(q, "uncertain") /\ Unfaulted(q)) \/ (FinishFails(q, "uncertain") /\ query'[q].faulted)
      BY <1>8 DEF Finishes
    <2>2. PICK place \in {"dropped", "closed"}, event \in {"greeting", query[q].event} :
             Becomes(q, place, event, query[q].status, query[q].told)
      BY <1>8 DEF Finishes
    <2>3. /\ RowOf(q)'.status = RowOf(q).status
               \/ (RowOf(q).status = "reserved" /\ RowOf(q)'.status = "uncertain")
          /\ Unfaulted(q) /\ RowOf(q).status = "reserved" /\ ~query'[q].faulted
               => RowOf(q)'.status = "uncertain"
      BY <1>3, <1>4, <2>1
    <2>4. ~query'[q].faulted => RowOf(q)'.status \in Outcomes /\ Unfaulted(q)
      BY <1>0, <1>2, <1>4, <2>1, <2>3, RowTyped DEF Good, RowAgrees, Statuses
    <2> QED
      BY <1>0, <1>1, <1>2, <1>4, <1>5, <1>8, <2>2, <2>3, <2>4
         DEF Good, RowAgrees, LocalsAgree, RunsCounted, Kept, Becomes, At, Unsettled
  <1>9. CASE query[q].pc = "dropped"
    <2>1. (Finish(q, query[q].status) /\ Unfaulted(q)) \/ (FinishFails(q, query[q].status) /\ query'[q].faulted)
      BY <1>9 DEF Finishes
    <2>2. PICK event \in {"greeting", query[q].event} :
             Becomes(q, "closed", event, query[q].status, query[q].told)
      BY <1>9 DEF Finishes
    <2>3. /\ RowOf(q)'.status = RowOf(q).status
               \/ (RowOf(q).status = "reserved" /\ RowOf(q)'.status = query[q].status)
          /\ RowOf(q).status = "reserved" /\ ~query'[q].faulted
               => RowOf(q)'.status = query[q].status
      BY <1>0, <1>3, <2>1
    <2>4. ~query'[q].faulted => RowOf(q)'.status \in Outcomes
      BY <1>0, <1>2, <2>3, RowTyped DEF Good, RowAgrees, Statuses
    <2> QED
      BY <1>0, <1>1, <1>2, <1>4, <1>5, <1>9, <2>2, <2>3, <2>4
         DEF Good, RowAgrees, LocalsAgree, RunsCounted, Kept, Becomes, At, Unsettled
  <1> QED
    BY <1>6, <1>7, <1>8, <1>9 DEF Finishes

LEMMA WaitsGood ==
    ASSUME IInv, Waits, NEW q \in Queries
    PROVE  Good(q)' /\ (Admitted(q)' => Admitted(q))
  <1>0. Good(q) /\ query[q].key \in RequestIds
    BY GoodBefore DEF IInv, TypeOK, Query
  <1>1. /\ query'[q].key = query[q].key /\ query'[q].route = query[q].route /\ UNCHANGED run
        /\ query'[q].attempt = query[q].attempt /\ Unfaulted(q)
        /\ Becomes(q, query[q].pc, query[q].event, query[q].status, query[q].told)
        /\ RowOf(q)'.status = RowOf(q).status
    BY <1>0 DEF Waits, RowOf
  <1> QED
    BY <1>0, <1>1 DEF Good, RowAgrees, LocalsAgree, RunsCounted, Kept, Admitted, Unsettled,
                      Unfaulted, Becomes, At, Streams

LEMMA StopsGood ==
    ASSUME IInv, Stops, NEW q \in Queries
    PROVE  Good(q)' /\ (Admitted(q)' => Admitted(q))
  <1>0. Good(q)
    BY GoodBefore
  <1>1. UNCHANGED <<table, run>>
    BY DEF Stops
  <1>2. CASE query'[q] = query[q]
    BY <1>0, <1>1, <1>2 DEF Good, RowAgrees, LocalsAgree, RunsCounted, Kept, Admitted, Unsettled,
                            At, Streams, RowOf
  <1>3. CASE /\ query[q].pc \notin {"new", "closed"}
             /\ query'[q].key = query[q].key /\ query'[q].route = query[q].route
             /\ Becomes(q, "closed", "greeting", query[q].status, query[q].told)
             /\ query'[q].faulted
    BY <1>0, <1>1, <1>3 DEF Good, RowAgrees, LocalsAgree, RunsCounted, Kept, Admitted, Unsettled,
                            Becomes, At, Streams, RowOf
  <1> QED
    BY <1>2, <1>3 DEF Stops

LEMMA GoodStep ==
    ASSUME IInv, TypeOK', Step
    PROVE  /\ \A q \in Queries : Good(q)'
           /\ KeysApart'
  <1>1. ASSUME NEW q \in Queries, Moved(q) \/ Reserves(q) \/ Finishes(q) \/ Runs(q)
        PROVE  (\A p \in Queries : Good(p)') /\ KeysApart'
    <2>1. Good(q)' /\ (Admitted(q)' => Admitted(q) \/ table[query[q].key].status = "none")
      BY <1>1, MovedGood, ReservesGood, FinishesGood, RunsGood
    <2>2. \A p \in Queries \ {q} : Good(p)' /\ (Admitted(p)' <=> Admitted(p))
      BY <1>1, OthersStay
    <2>3. \A p \in Queries : query'[p].key = query[p].key
      BY <1>1 DEF Moved, Reserves, Finishes, Runs, Alone
    <2>4. \A p \in Queries : Admitted(p) => table[query[p].key].status # "none"
      BY GoodBefore DEF Good, RowAgrees, RowOf
    <2>5. KeysApart
      BY DEF IInv
    <2>6. KeysApart'
      <3> SUFFICES ASSUME NEW p \in Queries, NEW r \in Queries, p # r,
                          query[p].key = query[r].key, Admitted(p)', Admitted(r)'
                   PROVE  FALSE
        BY <2>3 DEF KeysApart
      <3>1. CASE p # q /\ r # q
        BY <2>2, <2>5, <3>1 DEF KeysApart
      <3>2. CASE p = q
        BY <2>1, <2>2, <2>4, <2>5, <3>2 DEF KeysApart
      <3>3. CASE r = q
        BY <2>1, <2>2, <2>4, <2>5, <3>3 DEF KeysApart
      <3> QED
        BY <3>1, <3>2, <3>3
    <2> QED
      BY <2>1, <2>2, <2>6
  <1>2. CASE Waits \/ Stops
    <2>1. \A q \in Queries : Good(q)' /\ (Admitted(q)' => Admitted(q))
      BY <1>2, WaitsGood, StopsGood
    <2>2. \A q \in Queries : query'[q].key = query[q].key
      BY <1>2 DEF Waits, Stops
    <2> QED
      BY <2>1, <2>2 DEF IInv, KeysApart
  <1> QED
    BY <1>1, <1>2 DEF Step

\* The rows charged for stay within the allowance.
LEMMA AllowanceStep ==
    ASSUME IInv, Step
    PROVE  WithinAllowance'
  <1>0. TypeOK /\ table \in Tables /\ Cardinality(Charged(table)) <= Allowance
    BY DEF IInv, TypeOK, WithinAllowance
  <1>1. ASSUME NEW q \in Queries, NEW outcome \in Outcomes,
               Finish(q, outcome) \/ FinishFails(q, outcome)
        PROVE  WithinAllowance'
    <2>1. query[q].key \in RequestIds
      BY <1>0 DEF TypeOK, Query
    <2>2. CASE Finish(q, outcome)
      <3>1. table' = [table EXCEPT ![query[q].key] = Settled(table[query[q].key], outcome, 0)]
        BY <1>0, <2>1, <2>2 DEF Finish
      <3>2. 0 \in Int
        OBVIOUS
      <3>3. Cardinality(Charged(table')) <= Allowance
        BY <1>0, <2>1, <3>1, <3>2, SettleKeepsQuota, Zenon
      <3> QED
        BY <3>3 DEF WithinAllowance, Charged
    <2>3. CASE UNCHANGED table
      BY <1>0, <2>3 DEF WithinAllowance, Charged
    <2> QED
      BY <1>1, <2>2, <2>3 DEF FinishFails
  <1>2. ASSUME NEW q \in Queries, Finishes(q)
        PROVE  WithinAllowance'
    <2>1. query[q].status \in Outcomes /\ Outcome(q) \in Outcomes /\ "uncertain" \in Outcomes
      BY <1>0 DEF TypeOK, Query, Outcome, Outcomes
    <2> QED
      BY <1>1, <1>2, <2>1 DEF Finishes
  <1>3. ASSUME NEW q \in Queries, Reserves(q)
        PROVE  WithinAllowance'
    <2>1. query[q].key \in RequestIds /\ enforced \in BOOLEAN
      BY <1>0 DEF TypeOK, Query
    <2>2. CASE Admissible(q) /\ Insert(q)
      <3>1. /\ table' = [table EXCEPT ![query[q].key] = Reserved(enforced, 0)]
            /\ ~IsDuplicate(table, query[q].key) /\ (enforced => ~IsExhausted(table))
            /\ 0 \in Int
        BY <2>2 DEF Admissible, Insert
      <3>2. Cardinality(Charged(table')) <= Allowance
        BY <1>0, <2>1, <3>1, InsertKeepsQuota, Zenon
      <3> QED
        BY <3>2 DEF WithinAllowance, Charged
    <2>3. CASE UNCHANGED table
      BY <1>0, <2>3 DEF WithinAllowance, Charged
    <2> QED
      BY <1>3, <2>2, <2>3 DEF Reserves
  <1>4. CASE UNCHANGED table
    BY <1>0, <1>4 DEF WithinAllowance, Charged
  <1>5. CASE Waits
    <2>1. Charged(table') = Charged(table)
      BY <1>5 DEF Waits, Charged
    <2> QED
      BY <1>0, <2>1 DEF WithinAllowance, Charged
  <1> QED
    BY <1>2, <1>3, <1>4, <1>5 DEF Step, Moved, Runs, Stops

LEMMA InitIInv == Init => IInv
  <1> SUFFICES ASSUME Init PROVE IInv
    OBVIOUS
  <1>1. \A q \in Queries :
           /\ query[q].pc = "new" /\ query[q].status = "uncertain" /\ query[q].told = "nothing"
           /\ query[q].event = "greeting" /\ query[q].key \in RequestIds
           /\ run[q].started = 0 /\ run[q].state = "none" /\ ~run[q].answered
           /\ table[query[q].key].status = "none"
    BY DEF Init, NoRow
  <1>2. TypeOK
    <2>1. table \in Tables
      BY DEF Init, NoRow, Tables, Row, Statuses
    <2>2. query \in [Queries -> Query]
      <3> DEFINE S == {[pc |-> "new", key |-> id, route |-> route, status |-> "uncertain",
             saw |-> FALSE, event |-> "greeting", attempt |-> 1, left |-> 0,
             abandoned |-> FALSE, told |-> "nothing", faulted |-> FALSE] :
            id \in RequestIds, route \in Routes}
      <3>1. ASSUME NEW id \in RequestIds, NEW route \in Routes
            PROVE  [pc |-> "new", key |-> id, route |-> route, status |-> "uncertain",
                    saw |-> FALSE, event |-> "greeting", attempt |-> 1, left |-> 0,
                    abandoned |-> FALSE, told |-> "nothing", faulted |-> FALSE] \in Query
        BY StaleAfterAssumption, WakeAssumption, RoutesAssumption
           DEF Query, Places, Outcomes, Events, Told
      <3>2. S \subseteq Query
        BY <3>1
      <3>3. query \in [Queries -> S]
        BY DEF Init
      <3> HIDE DEF S
      <3> QED
        BY <3>2, <3>3
    <2>3. run \in [Queries -> Run]
      BY WakeAssumption DEF Init, Run
    <2> QED
      BY <2>1, <2>2, <2>3, FaultsAssumption DEF Init, TypeOK
  <1>3. \A q \in Queries : ~Admitted(q) /\ ~Unsettled(q)
    BY <1>1 DEF Admitted, Unsettled, At
  <1>4. \A q \in Queries : RowAgrees(q) /\ LocalsAgree(q) /\ RunsCounted(q)
    BY <1>1, <1>3 DEF RowAgrees, LocalsAgree, RunsCounted, At
  <1>5. KeysApart
    BY <1>3 DEF KeysApart
  <1>6. WithinAllowance
    <2>1. Charged(table) = {}
      BY DEF Init, NoRow, Charged
    <2> QED
      BY <2>1, FS_EmptySet, AllowanceAssumption DEF WithinAllowance
  <1>7. AnswerIsPaid /\ ReleaseIsReal /\ ClosedIsSettled
    BY <1>1 DEF AnswerIsPaid, ReleaseIsReal, ClosedIsSettled, At
  <1> QED
    BY <1>2, <1>4, <1>5, <1>6, <1>7 DEF IInv

LEMMA StepIInv == IInv /\ [Next]_vars => IInv'
  <1> SUFFICES ASSUME IInv, [Next]_vars PROVE IInv'
    OBVIOUS
  <1>1. TypeOK' /\ (Step \/ UNCHANGED <<table, query, run>>)
    BY Condensed
  <1>2. CASE Step
    <2>1. (\A q \in Queries : Good(q)') /\ KeysApart' /\ WithinAllowance'
      BY <1>1, <1>2, GoodStep, AllowanceStep
    <2>2. AnswerIsPaid' /\ ReleaseIsReal' /\ ClosedIsSettled'
      BY <2>1 DEF Good, Kept, AnswerIsPaid, ReleaseIsReal, ClosedIsSettled
    <2>3. \A q \in Queries : (RowAgrees(q) /\ LocalsAgree(q) /\ RunsCounted(q))'
      BY <2>1 DEF Good
    <2> QED
      BY <1>1, <2>1, <2>2, <2>3 DEF IInv
  <1>3. CASE UNCHANGED <<table, query, run>>
    BY <1>1, <1>3 DEF IInv, RowAgrees, LocalsAgree, RunsCounted, KeysApart, WithinAllowance, Charged,
        AnswerIsPaid, ReleaseIsReal, ClosedIsSettled, Admitted, Unsettled, At, Streams, RowOf
  <1> QED
    BY <1>1, <1>2, <1>3

-----------------------------------------------------------------------------
(* The theorems *)

\* The invariant all the others are read from.
THEOREM QueryInvariant == Spec => []IInv
  <1> QED
    BY InitIInv, StepIInv, PTL DEF Spec

\* The coroutines of gateway/main.py keep their locals and places.
THEOREM QueriesTyped == Spec => []TypeOK
  <1>1. IInv => TypeOK
    BY DEF IInv
  <1> QED
    BY <1>1, QueryInvariant, PTL

\* Nobody is given an answer that is not committed as completed
\* (main.py:252-254, 291-296), whatever fails or leaves and whenever.
THEOREM AnswerSafe == Spec => []AnswerIsPaid
  <1>1. IInv => AnswerIsPaid
    BY DEF IInv
  <1> QED
    BY <1>1, QueryInvariant, PTL

\* Nobody is told of a release that the table does not show (main.py:286-290).
THEOREM ReleaseSafe == Spec => []ReleaseIsReal
  <1>1. IInv => ReleaseIsReal
    BY DEF IInv
  <1> QED
    BY <1>1, QueryInvariant, PTL

\* Every way out of a handler settles its row (main.py:258-259, 301-306).
THEOREM ClosedSafe == Spec => []ClosedIsSettled
  <1>1. IInv => ClosedIsSettled
    BY DEF IInv
  <1> QED
    BY <1>1, QueryInvariant, PTL

\* A released request has no answer at the backend and gets none.
THEOREM ReleasedSafe == Spec => []ReleasedWasNotAnswered
  <1>1. IInv => ReleasedWasNotAnswered
    BY DEF IInv, RowAgrees, LocalsAgree, Admitted, ReleasedWasNotAnswered
  <1> QED
    BY <1>1, QueryInvariant, PTL

\* An Idempotency-Key is run for one query (store.py:58-60).
THEOREM KeySafe == Spec => []KeyRunsOnce
  <1>1. IInv => KeyRunsOnce
    <2> SUFFICES ASSUME IInv, NEW p \in Queries, NEW q \in Queries,
                        p # q, query[p].key = query[q].key
                 PROVE  run[p].started = 0 \/ run[q].started = 0
      BY DEF KeyRunsOnce
    <2>1. run[p].started \in Nat /\ run[q].started \in Nat
      BY WakeAssumption DEF IInv, TypeOK, Run
    <2> QED
      BY <2>1 DEF IInv, KeysApart, Admitted
  <1> QED
    BY <1>1, QueryInvariant, PTL

\* The answers a user is given under the trial are within the allowance: each
\* is charged under an id of its own.
THEOREM AllowanceSafe == Spec => []AnswersWithinAllowance
  <1>1. IInv => AnswersWithinAllowance
    <2> DEFINE told == {q \in Queries : query[q].told = "done" /\ RowOf(q).metered}
               key == [q \in told |-> query[q].key]
    <2> SUFFICES ASSUME IInv PROVE Cardinality(told) <= Allowance
      BY DEF AnswersWithinAllowance
    <2>1. \A q \in told : key[q] \in Charged(table)
      BY DEF IInv, TypeOK, Query, AnswerIsPaid, RowOf, Charged
    <2>2. \A p, q \in told : key[p] = key[q] => p = q
      BY DEF IInv, KeysApart, Admitted
    <2>3. key \in Injection(told, Charged(table))
      <3>1. key \in [told -> Charged(table)]
        BY <2>1
      <3> QED
        BY <2>2, <3>1 DEF Injection, IsInjective
    <2>4. /\ IsFiniteSet(Charged(table)) /\ Cardinality(Charged(table)) \in Nat
          /\ Cardinality(Charged(table)) <= Allowance
      BY ChargedFinite DEF IInv, TypeOK, WithinAllowance
    <2> HIDE DEF told, key
    <2>5. IsFiniteSet(told) /\ Cardinality(told) <= Cardinality(Charged(table))
      BY <2>3, <2>4, FS_Injection
    <2> QED
      BY <2>4, <2>5, FS_CardinalityType, AllowanceAssumption
  <1> QED
    BY <1>1, QueryInvariant, PTL

-----------------------------------------------------------------------------
(* The handlers use the store as TrialLedger allows *)

AccountLedger ==
    [account \in {"account"} |->
        [id \in RequestIds |-> [status |-> table[id].status, metered |-> table[id].metered]]]

LEMMA LedgerInit == Init => Ledger!Init
  BY DEF Init, Ledger!Init, Ledger!Unused, NoRow

\* The Cardinality TrialLedger counts with is that of FiniteSets.
LEMMA SameCardinality == \A S : Ledger!Cardinality(S) = Cardinality(S)
  BY DEF Ledger!Cardinality, Cardinality

LEMMA LedgerStep ==
    ASSUME IInv, Step
    PROVE  Ledger!Next \/ AccountLedger' = AccountLedger
  <1>0. TypeOK /\ table \in Tables
    BY DEF IInv, TypeOK
  <1>1. ASSUME NEW q \in Queries, Admissible(q), Insert(q)
        PROVE  Ledger!Next
    <2>0. PICK id \in RequestIds, metered \in BOOLEAN : id = query[q].key /\ metered = enforced
      BY <1>0 DEF TypeOK, Query
    <2>1. AccountLedger["account"][id].status = "none"
      BY <1>1, <2>0 DEF Admissible, IsDuplicate, AccountLedger
    <2>2. Ledger!Spent("account") = Charged(table)
      BY <1>0 DEF Ledger!Spent, Charged, Tables, Row, Statuses, Outcomes
    <2>3. metered => Ledger!Cardinality(Ledger!Spent("account")) < Allowance
      BY <1>0, <1>1, <2>0, <2>2, ChargedFinite, AllowanceAssumption, SameCardinality
         DEF Admissible, IsExhausted
    <2>4. AccountLedger' = [AccountLedger EXCEPT !["account"][id] =
                               [status |-> "reserved", metered |-> metered]]
      BY <1>0, <1>1, <2>0 DEF Insert, AccountLedger, Reserved, Tables
    <2>5. Ledger!Admit("account", id, metered)
      BY <2>1, <2>3, <2>4 DEF Ledger!Admit, AccountLedger
    <2> QED
      BY <2>5 DEF Ledger!Next
  <1>2. ASSUME NEW q \in Queries, NEW outcome \in Outcomes,
               Finish(q, outcome) \/ FinishFails(q, outcome)
        PROVE  Ledger!Next \/ AccountLedger' = AccountLedger
    <2> DEFINE id == query[q].key
    <2>0. id \in RequestIds /\ table[id] \in Row
      BY <1>0 DEF TypeOK, Query, Tables
    <2>1. CASE Finish(q, outcome) /\ table[id].status = "reserved"
      <3>1. AccountLedger["account"][id].status = "reserved"
        BY <2>0, <2>1 DEF AccountLedger
      <3>2. AccountLedger' = [AccountLedger EXCEPT !["account"][id].status = outcome]
        BY <1>0, <2>0, <2>1 DEF Finish, AccountLedger, Settled, Tables, Row
      <3>3. Ledger!Settle("account", id, outcome)
        BY <3>1, <3>2 DEF Ledger!Settle, AccountLedger
      <3> QED
        BY <2>0, <3>3 DEF Ledger!Next, Ledger!Final, Outcomes
    <2>2. CASE UNCHANGED table \/ (Finish(q, outcome) /\ table[id].status # "reserved")
      <3>1. table' = table
        BY <1>0, <2>0, <2>2 DEF Finish, Settled, Tables
      <3> QED
        BY <3>1 DEF AccountLedger
    <2> QED
      BY <1>2, <2>1, <2>2 DEF FinishFails
  <1>3. ASSUME NEW q \in Queries, Finishes(q)
        PROVE  Ledger!Next \/ AccountLedger' = AccountLedger
    <2>1. query[q].status \in Outcomes /\ Outcome(q) \in Outcomes /\ "uncertain" \in Outcomes
      BY <1>0 DEF TypeOK, Query, Outcome, Outcomes
    <2> QED
      BY <1>2, <1>3, <2>1 DEF Finishes
  <1>4. CASE UNCHANGED table
    BY <1>4 DEF AccountLedger
  <1>5. CASE Waits
    BY <1>5 DEF Waits, AccountLedger
  <1>6. ASSUME NEW q \in Queries, Reserves(q)
        PROVE  Ledger!Next \/ AccountLedger' = AccountLedger
    BY <1>1, <1>4, <1>6 DEF Reserves
  <1> QED
    BY <1>3, <1>4, <1>5, <1>6 DEF Step, Moved, Runs, Stops

\* The handlers, with their faults, restarts and clients that leave, use the
\* store as TrialLedger allows.
THEOREM QueriesImplementLedger == Spec => ImplementsLedger
  <1>1. IInv /\ [Next]_vars => [Ledger!Next]_AccountLedger
    <2> SUFFICES ASSUME IInv, [Next]_vars PROVE Ledger!Next \/ AccountLedger' = AccountLedger
      OBVIOUS
    <2>1. Step \/ UNCHANGED table
      BY Condensed
    <2>2. CASE UNCHANGED table
      BY <2>2 DEF AccountLedger
    <2> QED
      BY <2>1, <2>2, LedgerStep
  <1> QED
    BY <1>1, LedgerInit, QueryInvariant, PTL DEF Spec, ImplementsLedger, Ledger!Spec, AccountLedger

=============================================================================
