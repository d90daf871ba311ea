----------------------------- MODULE BackendRun -----------------------------
(***************************************************************************)
(* One run of the backend's document agent: answer_question and            *)
(* stream_question of app/services/document_agent.py.  A run, the user's   *)
(* message and the assistant's are one transaction, committed at the end   *)
(* by the happy path or by an exception handler, or never.                 *)
(***************************************************************************)
EXTENDS RankFusion

CONSTANTS
    TopKs,        \* values of payload.top_k
    Deltas,       \* the texts Gemini may stream, as sequences of symbols
    MaxDeltas,    \* bound on the deltas of an answer
    MaxFaults     \* bound on database faults and restarts

\* What a text is made of where it travels as JSON: an ordinary character,
\* white space, the two bytes of another character, a line separator that
\* json.dumps does not escape.  The end of a line is escaped.
Symbols == {"a", "blank", "lead", "trail", "separator"}

ASSUME RunAssumption ==
    /\ TopKs \subseteq Nat \ {0} /\ MaxDeltas \in Nat /\ MaxFaults \in Nat
    /\ Deltas \subseteq Seq(Symbols)

VARIABLES
    request,      \* its route, and whether it names a session
    pc,
    ranked,       \* local: top_k and the two rankings
    sent,         \* the events yielded so far
    staged,       \* messages flushed in the open transaction
    broken,       \* the database or the session has given up the transaction
    error,        \* kind of the exception being handled
    http,         \* status of the response
    run, messages,\* committed: status of the run, messages of the session
    lost,         \* the answer of a commit that took place was lost
    faults

local  == <<request, ranked>>
stored == <<run, messages, lost>>
backend == <<request, pc, ranked, sent, staged, broken, error, http, stored, faults>>

Streams == request.route = "stream"
At(place) == pc = place
Goto(place) == pc' = place
Fault == faults < MaxFaults /\ faults' = faults + 1

Said(role, text) == IF request.session THEN <<[role |-> role, text |-> text]>> ELSE <<>>

\* What the deltas of a sequence of events make together.
Text(events) ==
    FlattenSeq([i \in DOMAIN events |->
        IF events[i].name = "token" THEN events[i].text ELSE <<>>])

Emit(name, text) == sent' = Append(sent, [name |-> name, text |-> text])

Record(status) == run' = status /\ messages' = staged

End == Goto("ended") /\ staged' = <<>> /\ broken' = FALSE /\ error' = "none"

Respond(status) == End /\ http' = status

RunInit ==
    /\ request \in [route : {"json", "stream"}, session : BOOLEAN]
    /\ pc = "posted" /\ ranked = <<>> /\ sent = <<>> /\ staged = <<>>
    /\ broken = FALSE /\ error = "none" /\ http = "none"
    /\ run = "none" /\ messages = <<>> /\ lost = FALSE
    /\ faults = 0

-----------------------------------------------------------------------------
(* _prepare_answer *)

\* require_session, require_document_scope; or a fault outside of any try.
Refuse ==
    /\ At("posted")
    /\ \/ Respond("404") /\ UNCHANGED faults
       \/ Fault /\ Respond("500")
    /\ UNCHANGED <<local, sent, stored>>

\* create_run and add_message flush.
Begin ==
    /\ At("posted")
    /\ staged' = Said("user", <<>>)
    /\ Goto("embedding")
    /\ UNCHANGED <<local, sent, broken, error, http, stored, faults>>

\* embed_query and the two queries of hybrid_retrieve.
Retrieve ==
    /\ At("embedding")
    /\ \E topK \in TopKs : ranked' \in {topK} \X Rankings(topK)
    /\ Goto("retrieved")
    /\ UNCHANGED <<request, sent, staged, broken, error, http, stored, faults>>

\* Mutant: get_db closes its session before the response is streamed.
EmitMetaClosed ==
    /\ At("retrieved") /\ Streams
    /\ Emit("meta", <<>>)
    /\ http' = "200" /\ ranked' = <<>> /\ staged' = <<>>
    /\ Goto("generating")
    /\ UNCHANGED <<request, broken, error, stored, faults>>

\* The citations go into the meta event, which starts the response.
EmitMeta ==
    /\ At("retrieved") /\ Streams
    /\ Emit("meta", <<>>)
    /\ http' = "200" /\ ranked' = <<>>
    /\ Goto("generating")
    /\ UNCHANGED <<request, staged, broken, error, stored, faults>>

Generate ==
    /\ At("retrieved") /\ ~Streams
    /\ ranked' = <<>>
    /\ Goto("generating")
    /\ UNCHANGED <<request, sent, staged, broken, error, http, stored, faults>>

-----------------------------------------------------------------------------
(* answer_question, event_stream *)

EmitToken ==
    /\ At("generating") /\ Streams
    /\ Len(sent) <= MaxDeltas
    /\ \E delta \in Deltas : Emit("token", delta)
    /\ UNCHANGED <<local, pc, staged, broken, error, http, stored, faults>>

\* Mutant: the commit is forgotten.
AnswerUncommitted ==
    /\ At("generating")
    /\ Goto("committed")
    /\ UNCHANGED <<local, sent, staged, broken, error, http, stored, faults>>

\* Gemini is done; the assistant's message is flushed.
Answer ==
    /\ At("generating")
    /\ \E text \in (IF Streams THEN {Text(sent)} ELSE Deltas) :
          staged' = staged \o Said("assistant", text)
    /\ Goto("answered")
    /\ UNCHANGED <<local, sent, broken, error, http, stored, faults>>

Commit ==
    /\ At("answered")
    /\ Record("completed")
    /\ staged' = <<>>
    /\ Goto("committed")
    /\ UNCHANGED <<local, sent, broken, error, http, lost, faults>>

\* done, or the JSON answer.
Deliver ==
    /\ At("committed")
    /\ IF Streams THEN Emit("done", <<>>) ELSE UNCHANGED sent
    /\ Respond("200")
    /\ UNCHANGED <<local, stored, faults>>

-----------------------------------------------------------------------------
(* The exception handlers *)

\* Gemini rejects the key, fails, or returns something unexpected.
GeminiFails ==
    /\ pc \in {"embedding", "generating"}
    /\ error' \in {"401", "502", "500"}
    /\ Goto("failing")
    /\ UNCHANGED <<local, sent, staged, broken, http, stored, faults>>

\* Mutant: a failure of the database is answered as one of Gemini.
DatabaseFailsUpstream ==
    /\ pc \in {"embedding", "generating", "answered"} /\ Fault
    /\ \/ UNCHANGED stored
       \/ At("answered") /\ Record("completed") /\ lost' = TRUE
    /\ error' = "502" /\ broken' = TRUE /\ staged' = <<>>
    /\ Goto("failing")
    /\ UNCHANGED <<local, sent, http>>

\* A query, a flush or the commit fails; a commit may have taken place.
DatabaseFails ==
    /\ pc \in {"embedding", "generating", "answered"} /\ Fault
    /\ \/ UNCHANGED stored
       \/ At("answered") /\ Record("completed") /\ lost' = TRUE
    /\ error' = "500" /\ broken' = TRUE /\ staged' = <<>>
    /\ Goto("failing")
    /\ UNCHANGED <<local, sent, http>>

\* Mutant: the handler records the failure although the transaction is gone.
RecordFailureAnyway ==
    /\ At("failing")
    /\ Record("failed")
    /\ staged' = <<>> /\ broken' = FALSE
    /\ Goto("failed")
    /\ UNCHANGED <<local, sent, error, http, lost, faults>>

\* The handler commits the failed run.  After a fault of the database there is
\* nothing it could commit: the commit does nothing or raises (see Abort).
RecordFailure ==
    /\ At("failing")
    /\ IF broken THEN UNCHANGED <<run, messages>> ELSE Record("failed")
    /\ staged' = <<>> /\ broken' = FALSE
    /\ Goto("failed")
    /\ UNCHANGED <<local, sent, error, http, lost, faults>>

\* The handler's commit raises: a stream breaks off without an event.
Abort ==
    /\ At("failing")
    /\ \/ broken /\ UNCHANGED <<run, messages, faults>>
       \/ Fault /\ (UNCHANGED <<run, messages>> \/ (~broken /\ Record("failed")))
    /\ Respond(IF http = "200" THEN "200" ELSE "500")
    /\ UNCHANGED <<local, sent, lost>>

\* The error event, or the response of the application's exception handlers.
ReportFailure ==
    /\ At("failed")
    /\ IF http = "200" THEN Emit("error", <<>>) /\ Respond("200")
       ELSE UNCHANGED sent /\ Respond(error)
    /\ UNCHANGED <<local, stored, faults>>

-----------------------------------------------------------------------------

\* What a commit under way leaves when nobody waits for it any more.
CommitOrNot ==
    \/ UNCHANGED <<run, messages>>
    \/ At("answered") /\ Record("completed")
    \/ At("failing") /\ ~broken /\ Record("failed")

\* The stream is cancelled in an await or dropped in a yield, which no
\* `except Exception` sees: get_db closes the session.
Cancel ==
    /\ Streams /\ pc \notin {"posted", "ended"}
    /\ CommitOrNot
    /\ End
    /\ ranked' = <<>>
    /\ UNCHANGED <<request, sent, http, lost, faults>>

Restart ==
    /\ pc \notin {"posted", "ended"} /\ Fault
    /\ CommitOrNot
    /\ End
    /\ ranked' = <<>>
    /\ UNCHANGED <<request, sent, http, lost>>

RunStep ==
    \/ Refuse \/ Begin \/ Retrieve \/ EmitMeta \/ Generate \/ EmitToken \/ Answer
    \/ Commit \/ Deliver \/ GeminiFails \/ DatabaseFails \/ RecordFailure \/ Abort
    \/ ReportFailure \/ Restart

-----------------------------------------------------------------------------
(* Properties *)

\* The citations are the best chunks of the two rankings, in an order that no
\* tie leaves open (rrf.py:9, retrieval.py:44).
CitationsRanked ==
    At("retrieved") => LET rankings == ranked[2] IN
        WellRanked(Hits(rankings, ranked[1]), rankings, ranked[1])

\* Success is reported after it is recorded, and a failure is not reported of
\* a run that is recorded as completed, unless the commit's answer was lost
\* (document_agent.py:116-129, 182-206).
ReportIsRecorded ==
    /\ http = "200" /\ At("ended") /\ ~Streams => run = "completed"
    /\ (\E i \in DOMAIN sent : sent[i].name = "done") => run = "completed"
    /\ http \in {"401", "404", "500", "502"} \/ (\E i \in DOMAIN sent : sent[i].name = "error")
          => run # "completed" \/ lost

\* However a run ends, the session has a question without answer exactly for a
\* failed run, and both for a completed one, whose answer is what was streamed.
ConversationMatchesRun ==
    LET roles == [i \in DOMAIN messages |-> messages[i].role]
    IN  /\ roles = IF ~request.session \/ run = "none" THEN <<>>
                   ELSE IF run = "completed" THEN <<"user", "assistant">> ELSE <<"user">>
        /\ Streams /\ Len(messages) = 2 => messages[2].text = Text(sent)

\* A recorded outcome is final: no handler marks a completed run failed.
OutcomeIsFinal == [][run # "none" => UNCHANGED <<run, messages>>]_backend

-----------------------------------------------------------------------------
(* The inductive invariant of the proofs *)

Names == {"meta", "token", "done", "error"}
Events == [name : Names, text : Deltas \cup {<<>>}]
Places == {"posted", "embedding", "retrieved", "generating", "answered", "committed",
           "failing", "failed", "ended"}

RunTypes ==
    /\ request \in [route : {"json", "stream"}, session : BOOLEAN]
    /\ pc \in Places
    /\ sent \in Seq(Events)
    /\ broken \in BOOLEAN /\ lost \in BOOLEAN /\ faults \in 0..MaxFaults
    /\ error \in {"none", "401", "500", "502"}
    /\ http \in {"none", "200", "401", "404", "500", "502"}
    /\ run \in {"none", "completed", "failed"}

\* What the place of the code says of the outcome and of what was reported:
\* nothing is recorded before the commit, nothing is reported before the end,
\* and an exception met after a commit that took place finds its transaction
\* gone.
PlaceTells ==
    /\ pc \in {"posted", "embedding", "retrieved", "generating", "answered"} => run = "none"
    /\ At("committed") => run = "completed"
    /\ At("failing") => run = "none" \/ (run = "completed" /\ lost /\ broken)
    /\ At("failed") => run # "completed" \/ lost
    /\ pc \in {"failing", "failed"} => error # "none"
    /\ ~At("ended") =>
          /\ http = "none" \/ (http = "200" /\ Streams)
          /\ \A i \in DOMAIN sent : sent[i].name \in {"meta", "token"}

\* The messages of a run without answer, and of one whose answer is text.
Asked == Said("user", <<>>)
Answered(text) == Asked \o Said("assistant", text)

\* A transcript that ends in an answer, which is what has been streamed.
IsAnswered(transcript) ==
    LET text == IF request.session THEN transcript[2].text ELSE Text(sent)
    IN  transcript = Answered(text) /\ (Streams => text = Text(sent))

\* What the open transaction holds at each place, and what was committed of it.
Transcripts ==
    /\ broken => At("failing")
    /\ pc \in {"posted", "committed", "failed", "ended"} \/ broken => staged = <<>>
    /\ pc \in {"embedding", "retrieved", "generating"} => staged = Asked
    /\ At("failing") /\ ~broken => staged = Asked
    /\ At("answered") => IsAnswered(staged)
    /\ run = "none" => messages = <<>>
    /\ run = "failed" => messages = Asked
    /\ run = "completed" => IsAnswered(messages)

RunCore == RunTypes /\ PlaceTells /\ ReportIsRecorded

\* What the caller has been told: of a run whose commit's answer was lost only
\* that something failed, by a 500 or an error event.
Responses ==
    /\ pc \in {"posted", "embedding", "retrieved"} => http = "none"
    /\ pc \in {"generating", "answered", "committed"} /\ Streams => http = "200"
    /\ sent # <<>> => http = "200" /\ Streams
    /\ lost => /\ run = "completed" /\ pc \in {"failing", "failed", "ended"}
               /\ ~At("ended") => error = "500"
               /\ http \in {"none", "500"} \/ (http = "200" /\ Streams)
               /\ \A i \in DOMAIN sent : sent[i].name # "done"

RunInv == RunCore /\ Transcripts /\ Responses

=============================================================================
