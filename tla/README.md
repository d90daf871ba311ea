# Verification of the Alectos gateway and document agent

Alectos is two services on one PostgreSQL: the **backend** (`src/app`) ingests
documents and answers questions about them, and the **gateway** (`src/gateway`)
stands before it, knows the users, decides who may run an agent and what is
charged, and relays the answer. This directory holds TLA+ models of that code,
TLC configurations that check them on small instances, and TLAPS proofs that hold
for instances of every size. Every definition is translated from the source; the
`map` of PROJECT.json names the lines.

## 1. Inventory

| component | state | operations | interacts with |
|---|---|---|---|
| Request store (`gateway/store.py`, `policy.py`, `schema.sql`) | `gateway_requests`: per (user, agent, id) a status, `metered`, `updated_at`; the row lock of `gateway_users`; the connection pool | `reserve`, `finish`, `usage` | called by the agent handlers of every gateway worker |
| Agent handlers (`gateway/main.py:230-306, 317-396`) | one coroutine per request: `status`, `saw_text`, the attempt, the timeout | `query`, `query_stream`, `research_chat` | store (`reserve`, `finish`), backend (HTTP), client (JSON or SSE), Starlette (cancellation, background task) |
| Upstream replay (`main.py:23-57, 163-170`) | attempt and delay | repeat on 502/503/504 | handlers, the hosting edge |
| Resources and uploads (`store.py:29-54`, `main.py:191-228`) | `gateway_resources`: sessions, documents, upload tickets | `own`, `check_scope`, `reserve_upload`, `finish_upload`, `create_session`, `upload` | backend upload and sessions |
| SSE (`gateway/streaming.py`, `app/services/streaming.py`) | the parser's buffer | `iter_events`, `event`, `sse_event` | backend stream to client |
| Body limit (`main.py:77-100`) | bytes so far | count, replay | every POST |
| Backend agent (`app/services/document_agent.py`) | `agent_runs`, `messages` of one transaction | prepare, answer, stream | Gemini, retrieval, database |
| Backend ingestion (`document_ingestion.py`, `api/v1/documents.py`) | `documents`, `document_chunks`, the upload directory | `upload_document`, `ingest_document` | chunking, Gemini |
| Chunking, rank fusion, retrieval | none (pure), two SQL rankings | `chunk_text`, `reciprocal_rank_fusion`, `hybrid_retrieve` | ingestion, agent |
| Guards, tokens, settings, shells | configuration | checks | all |

What is hard in this code, and where it bites (PROJECT.json `hazards` has the full
list with lines):

- *Concurrency in the store.* Quota and idempotency are check-then-insert in READ
  COMMITTED transactions of several workers; `now()` is the time of BEGIN, before the
  wait for the lock; a pool of ten connections is held by calls that wait for locks.
- *The many ends of a handler.* A request is settled by up to three calls of `finish` -
  in the try block, in the finally block, in a background task - in an order that
  depends on where the client leaves: before the generator has started, in an await,
  in a yield. The generator dropped in a yield runs its finally block last.
- *Timeouts.* `asyncio.timeout` cancels natively, so anyio's shield in `finish_agent` does not
  hold it off; the age of a reservation and the timeout of its upstream call do not
  start at the same time.
- *Replays.* 502, 503 and 504 are repeated, and the backend has a 502 of its own.
- *Two services, one promise.* A document exists in the backend before the gateway knows
  whose it is; the ticket that stands for it must survive everything in between.
- *Bytes.* The stream is cut anywhere: in a character, in CR LF, between two line ends.
- *Faults.* A commit whose answer is lost, a failure inside the handler of a failure,
  a restart between two steps.

What makes each component correct:

- store: the allowance is never exceeded, an id is used once, a settled row never
  changes, reservations of one account do not overlap within `stale_after`, every call
  comes back;
- handlers: what the client is told, what it is charged and what the backend did
  agree; every reservation is settled; nothing the backend answered is given away;
- uploads: documents and tickets never exceed the limit, a failed step loses neither
  document nor ticket, ownership follows the backend, a replay stores nothing twice;
- SSE: the parser returns the events that were sent, for every cut into chunks;
- backend: one transaction per run or document, `done` only after commit, a recorded
  outcome is final, no file outlives a failed upload;
- chunking covers every word; fusion ranks as the two rankings ask, with no tie left open.

## 2. Structure

| modules | what for |
|---|---|
| RequestTable, TrialLedger, RequestStore | the store of reservations; its abstract ledger and the refinement |
| QueryLifecycle | the agent handlers, replay, disconnects, faults, on the same table; implements the ledger too |
| Chunking, DocumentIngestion | the backend's side of an upload: file, pages, chunks, transaction |
| DocumentUploads, UploadLedger | the gateway's side composed with it: tickets, ownership, sessions; abstract ledger of slots |
| RankFusion, BackendRun | one run of the document agent: retrieval, transaction, events, handlers |
| SseFraming, AnswerStream | BackendRun composed with the stream between the services and its reader |
| RunReports, AgentRun | the contract between the backend and the handlers: what a report says of the run; AnswerStream implements it, QueryLifecycle relies on it |
| RequestTableProofs, RequestStoreProofs, QueryLifecycleProofs, DocumentUploadsProofs, AnswerStreamProofs | theorems for every instance |
| SequenceLemmas, ChunkingProofs, SseFramingProofs | the facts about sequences, chunks and frames they rest on |
| MC... | instances |

How they fit together:

- QueryLifecycle and DocumentUploads use the transactions of `store.py` as atomic steps.
  RequestStore shows, statement by statement, that those of `reserve` and `finish`
  behave so: they are serialized by the row lock of `gateway_users`, which the
  transactions of uploads take as well. RequestStore and QueryLifecycle refine the same
  TrialLedger.
- QueryLifecycle knows a run of the backend by its state (`run[q]`) and takes only reports that
  fit it; BackendRun and AnswerStream are where reports come from. The two halves meet in
  AgentRun, which says of one run and its caller: the run ends once, the caller hears one
  report, and the report fits the run. AnswerStream implements it (`ImplementsRun`), and the guards
  of QueryLifecycle are the predicates AgentRun is written with (`MaySayDone`, `MaySayError`,
  `MayDecline` of RunReports), so neither side can assume more than the other shows. Above all
  they agree about a fault of the backend's database: a commit whose answer is
  lost is a run that has its answer, while the exception handler reports an error.
  The backend of the research route is another program, not in this repository: there the contract is assumed,
  and it is what main.py:358-389 takes for granted when it completes the row at `done` and releases it at
  `error` or a 4xx. What is said of the research route holds as far as that backend keeps it.
- DocumentUploads extends DocumentIngestion: one step is of a gateway handler, of the
  backend's request, or of a fault in either.

## 3. Modules

**RequestTable** - rows of one account and the SQL predicates over them: `IsDuplicate`,
`IsBlocked` (pending and fresh), `Charged`, `IsExhausted`, `Reserved`, `Settled`. Constants:
the ids, `Allowance` (>= 1, settings.py:21), `StaleAfter` (> 0, settings.py:25). Time is
`Int`; only differences matter.

**TrialLedger** - the abstract specification: per account, `Admit` an unused id
(a metered one only within the allowance) and `Settle` a reserved one. No time, no lock.

**RequestStore** - `Store.reserve` and `Store.finish`. `pc[c]` is the next statement of call `c`:

| pc | code |
|---|---|
| acquire | waits in `pool.acquire()` (store.py:23) |
| begun | BEGIN done, `now` fixed; waits in the upsert or FOR UPDATE (24-26) |
| duplicate, active, allowance | the three SELECTs of reserve (58-60, 68-73, 74-76) |
| insert, update | INSERT (77) or UPDATE (82), and COMMIT |

`Refuse` is the HTTPException that ends the transaction, `Abort` every other end without
commit: `command_timeout`, a lost connection, a dead worker. Calls run in workers
(`WorkerOf`), each with a pool of `PoolSize` connections. A reserve may be called with any
id at any time; finish only for an id whose reserve has committed, as main.py does.
`metered` is free per call: it comes from configuration that may differ between workers
and restarts.

**QueryLifecycle** - the handlers. One query is one HTTP request with its key and route;
`query[q].pc` is the place of its coroutine:

| pc | code |
|---|---|
| posted | before `reserve` (246, 263, 347) |
| accepted | reserved, timeout not started |
| sending | awaiting the response headers, or the JSON response; `Replay` repeats |
| reading | awaiting the next SSE event |
| settling | `finish` inside the try block (252, 276, 288, 293) |
| yielding | suspended in a yield: greeting, token, done, released, upstream_error, interrupted |
| cleanup | the finally block (259, 302) |
| background | `BackgroundTask(finish, 'uncertain')` (306) |
| dropped | the finally block of a generator dropped in a yield, run when it is collected |

`run[q]` is the backend: the current run of the query, how many it has started, whether one has
been answered. A run is none, running, completed, failed, or lost: completed by a commit whose answer a
fault took away. `RunReports` says what may be heard of each. `Leave` is a disconnect at any point of a streaming route, or the timeout
firing while a yield waits for a slow client; the framework's part in it (Starlette cancels
the awaiting generator, drops one suspended in a yield, then runs the background task) is
modelled from how Starlette and anyio behave under main.py. The JSON handler is not
cancelled by a disconnect. `SettleFails` and `LastFinishFails` are a `finish` that raises, with its
UPDATE lost or committed; the first also by the timeout. `Restart` ends every coroutine and
may switch trial enforcement. Locals that are dead are reset, to keep states equal.
The scope and input checks before `reserve` change nothing and are left out.

Time in QueryLifecycle is relative: a row's age stops counting at `StaleAfter` (it is stale for
good), a timeout counts down. `Tick` waits for timers that are due: the event loop serves
them at once. So time is unbounded and the state space finite.

**Chunking** - `chunk_text`. The words of a page are 1..n and a chunk is an interval of
them; `Turns` is the loop with its stop test (chunking.py:18), `ChunkRecords` the loop over
pages in document_ingestion.py. `Covers` says what chunking is for, not how it is done.

**DocumentIngestion** - `upload_document` and `ingest_document`. `ingest[u]` is the request
of upload `u` the backend works on; each request has a number, and a document and file of
its own (`FileOf`):

| pc | code |
|---|---|
| received | before or in the checks (documents.py:26-41) |
| written | the file is written (43), pages not extracted |
| chunked | pages extracted and chunked (document_ingestion.py:44-51); embedding |
| stored | document and chunks committed (60-84); before refresh |
| answered | the response is sent, with `answer` |
| crashed | the backend has stopped in it |

`Undo` is the pair of exception handlers: rollback and unlink. `RefreshFails` is the one that
comes after the commit: rollback has nothing to undo, and the file of a stored document is
removed. (A document without its file is answered as before: nothing reads the file again.)

**DocumentUploads** - the upload and session handlers of `main.py` and the transactions they
use. `upload[u].pc`:

| pc | code |
|---|---|
| new, scoped | before and after `check_scope` (main.py:210), before `reserve_upload` (217) |
| sending | in `backend_json` (219); `Arrive` is an attempt reaching the backend, `Replay` the next one |
| finishing | the backend has answered 201; before `finish_upload` with the document (222) |
| releasing | a 4xx; before `finish_upload` without one (227) |
| closed | the response is sent, `told` is what the client knows |

`Arrive` may come after the gateway has given up: the request was on its way. `FinishFails`
and `ReserveFails` lose their transaction or only its answer. `LoseSession` is a session the
backend has and the gateway never owns. The two reading routes change nothing.

**UploadLedger** - the abstract specification: an upload `Take`s a slot of its user while
there is one, `Fill`s it with a document or `GiveBack`s it.

**RankFusion** - `reciprocal_rank_fusion` and the cut of `hybrid_retrieve`. Scores are sums of
1/(k + rank), as exact fractions compared by multiplying crosswise; the two SQL rankings are inputs.
`WellRanked` is the reference: what every hit must be, said without scores. The floats of the code order different
scores as the fractions do (for k = 60 and the 60 ranks a request can ask for, by enumeration), and
the sum of two is the same in either order; equal scores of other pairs of ranks they may round apart
(1/66 + 1/99 and 1/72 + 1/88), where the code's order is not that of the ids. `WellRanked` asks nothing there.

**BackendRun** - `answer_question` and `stream_question`. `pc` follows the code: posted,
embedding (run and user message flushed), retrieved, generating, answered (assistant's
message flushed), committed, and failing, failed for the exception handlers. `staged` is what the
open transaction holds, `run` and `messages` what is committed. `broken` is a transaction the
database has given up: what the handler's commit then does is SQLAlchemy's affair, and
either outcome is allowed (`RecordFailure` commits nothing, `Abort` raises). `Cancel` is the
cancellation of a stream, which no `except Exception` sees.

The session of `get_db` is taken to live until a streamed response has been sent. That is
how FastAPI behaves from 0.118 on; before, it was closed when the response began, and the
generator would go on in a transaction of its own without the user's message. The mutant
`EmitMetaClosed` is that behaviour, and `ConversationMatchesRun` sees it.

**SseFraming** - a frame as a sequence of symbols (the event's name, line ends, what opens
and closes the JSON, its text), the search for `\r?\n\r?\n`, the incremental decoder,
`splitlines`, and which frames `json.loads` takes.

**AnswerStream** - BackendRun, its bytes, and the loop of `iter_events` and `query_stream` that
reads them: `Receive` takes any number of the bytes sent, `ReadFrame` is one turn of the
inner loop, `Overflow` and `EndOfStream` what follows it. `RunState` and `RunTold` are what a caller may know of the
run and what the caller has been told: a status, a JSON answer, or how the reading of the stream ended.

**AgentRun** - the abstract specification of that: `Start`, `Succeed` (the answer of the commit may be lost),
`Fail`, and one `Report` of done, error, declined (401, 404 or 502) or broken, which says nothing.
A run may fail in the step that reports it: a refusal by `prepare` is one step of BackendRun.

## 4. Runs

| run | instance | shows |
|---|---|---|
| store_safety | 2 calls, 2 ids, allowance 1, stale_after 2, clock 0..2 | the inductive invariant, quota, spacing, admission, settled rows, refinement of TrialLedger |
| store_liveness | 3 calls, 2 workers with 1 connection each, 1 id | `CallsEnd`: nobody waits for ever for a connection or a lock |
| query_stream | 2 streamed queries over 2 ids, allowance 1, 2 attempts, 1 fault | the inductive invariant, the handler properties and the refinement of TrialLedger |
| query_json_research | the same for the JSON and research routes, mixed | the handler properties |
| query_liveness | 2 research queries over 2 ids, 1 fault or restart | `EventuallySettled`, and `NeverWedged`: rows that nobody will settle block their account only for a time |
| uploads | 2 uploads of one or two users, 1 session, limit 1, 2 attempts, 1 fault of either service | the inductive invariant, the limit, tickets, ownership, files, chunks, what clients are told, refinement of UploadLedger, `UploadsEnd` |
| answer_stream | every pair of rankings of 4 chunks, top_k 1 and 2, up to 2 deltas, 1 fault, both line ends | what the backend records, reports and sends, what the gateway reads and relays, and the refinement of AgentRun |
| store_pending, query_overlap, query_replay, query_interrupted, sse_separator | | section 6 |

*Bounds.* Two calls suffice for every conflict in the store: a transaction conflicts with
the one that holds the lock. Two ids are one more than the allowance. The clock reaches
`StaleAfter`, so a row goes stale exactly at the boundary. Three calls are needed for a pool
that is full of waiters. Two queries are the one that ran and the one that comes
after or beside it; equal and different keys both occur (chosen in Init). Two attempts are
one replay. One fault lets a commit's answer be lost or a service restart.

In uploads the limit is 1, so the second upload of a user meets it while the first has a
ticket, a document or neither; the user and the session of each upload are chosen in Init,
and only the opener of the session is fixed, which is symmetric. So is the id of the first query in
query_liveness, where TLC's symmetry reduction would not be sound. With chunks of 3 words and an
overlap of 1 the texts are empty, end at the boundary of a window, one word beside it, and
have an empty page between two others: the cases of the stop test.

In answer_stream `MinCandidates` is 2 where the code has 10, so that a ranking of 4 chunks is cut
(top_k 1: 3 candidates) and is not (top_k 2); `RrfK` is the code's 60. `MaxFrame` is 8 symbols: the deltas
have a character of two bytes, white space only, a frame at the limit (over it with CR LF), and a
line separator. Two deltas make three frames and more, so that two may arrive at once.

The proofs remove the bounds for everything but liveness.

*Fairness.* RequestStore: strong fairness of getting a connection and the lock (asyncpg's pool
and PostgreSQL's lock queue are first come, first served), weak fairness of the next
statement. QueryLifecycle: weak fairness of a coroutine that can go on (the event loop),
of timers, of time, and of a client that takes what is yielded or goes away; none of
backends, which may hang for ever. The client's part is a real assumption:
the interrupted event and the greeting are yielded outside the timeout, and a client that
neither reads nor leaves keeps the row reserved. DocumentUploads: weak fairness of what a gateway
handler does by itself, its timeout included; none of the backend or the network.

*Deadlock* is not checked in uploads, answer_stream and sse_separator: uploads are finitely
many and all end, a run ends, and so does the model.

*Properties of the handlers.* `AnswerIsPaid`, `ReleaseIsReal`: what the client is told is what the table says, and
stays so. `ReleasedWasNotAnswered`: an allowance is released only for a run that has no answer and will
have none, or one the backend itself does not know to have committed. `ClosedIsSettled`: no end of a coroutine forgets its row. `KeyRunsOnce`: an id is run by one query.
`AnswersWithinAllowance`: end to end, answers delivered under the trial do not exceed it.
`ClosedIsSettled` leaves out queries that a fault or restart has hit, for their rows do stay reserved; what becomes of these is
`NeverWedged`: charged as they are, they do not block the account for ever.

*Of the uploads.* `StoredWithinLimit`: the backend stores no more documents of a user than the gateway
allows, though it counts nothing itself. `OrphansHaveTickets`: a stored document nobody owns is
paid for by its ticket. `OwnedIsStored`, `ScopesAgree`: what a user owns is there, and what the gateway
lets through the backend does not refuse. `ToldIsTrue`: 201 and 4xx are so for good. `StoredOnce`: replays
store nothing twice, for none of 502, 503, 504 comes after a commit. `FilesHaveDocuments`: a file without document
is left only by a stop of the backend or a disk that failed. `ChunksCover`: every word is in a chunk, in order, with the overlap.

*Of a streamed answer.* `CitationsRanked`; `ReportIsRecorded`, `OutcomeIsFinal`, `ConversationMatchesRun`: what is
reported was recorded before, is never changed, and fits the messages of the session. `ParsedIsReceived`,
`RefusalsExplained`: the parser reads exactly what was sent, all of it at a regular end, or has a reason. `ImplementsRun`: what the
gateway reads of a run, or gets as a plain JSON answer, is as AgentRun promises and QueryLifecycle assumes. With `ConversationMatchesRun` it
leaves only that the answer relayed is the one recorded, `RelayedIsRecorded`, which is proved and has no run.

## 5. Proofs

The theorems hold for every set of users, ids, sessions, calls, queries, uploads, chunks and deltas,
every limit, allowance, timeout, pool size, number of attempts and number of faults. Assumptions: the
named ASSUMEs of the modules (finite sets of ids, calls and queries; positive limits; texts are
sequences: `Deltas \subseteq Seq(Symbols)`, `Texts \subseteq Seq(Nat)`). All proof
modules go the same way: an invariant `IInv` (`RunInv` of a run) that TLC has checked, `Init => IInv`,
`IInv /\ [Next]_vars => IInv'`, and each property read from `IInv`.

**RequestStoreProofs**: `TypeCorrect`, `StoreInvariant`; `QuotaSafe`, `SpacedSafe`, `SettledSafe`, `AloneSafe`, the
properties of store_safety; `Refinement`: RequestStore implements TrialLedger.

Quota and spacing are not inductive, for a call in the middle of reserve has
read the table some steps ago. `LockHeld` says that a call is between FOR UPDATE and COMMIT
exactly when it holds its user's lock, so two such calls work on different accounts
(`LockedApart`); `ChecksHold` says that what each has read is then still true; `BegunBefore`
that its `now` is in the past. `TableStep` condenses the next-state relation: a step leaves the
rows alone, admits one that passed the checks, or settles one. Every theorem about rows is
proved from it. Counting rests on the lemmas of RequestTableProofs (`InsertKeepsQuota`,
`SettleKeepsQuota`).

**QueryLifecycleProofs**: `QueryInvariant`, `QueriesTyped`; `AnswerSafe`, `ReleaseSafe`, `ClosedSafe`, `ReleasedSafe`, `KeySafe`,
`AllowanceSafe`, all the safety properties of the handlers; `QueriesImplementLedger`: they use the store as
TrialLedger allows.

Here the difficulty is that a row is found by its id, and ids may be equal: a query keeps what
it was told only if no other settles its row. `KeysApart` says that an id has been admitted
for one query (`Admitted`: it is past reserve, has a run, or was told so); `RowAgrees` what an admitted query and its row say of each
other, above all that the row is still reserved until the first finish is tried, so that
this finish takes effect; `LocalsAgree` that `status` is failed only while the run has no
answer, or one that was lost; `RunsCounted` that the backend has started no more runs than attempts. The proof is in two
halves: `Condensed` shows that every action keeps the types and is one of six kinds of steps
(`Moved`, `Reserves`, `Finishes`, `Runs`, `Waits`, `Stops`) that say only what the invariant reads; then each kind keeps the
part of the invariant that belongs to the query that moves (`MovedGood`, `FinishesGood`, ...) and
`OthersStay` that of all others. `AllowanceSafe` maps every answer to the id it is charged under,
an injection into the rows that count.

**DocumentUploadsProofs**: `UploadInvariant`, `UploadsTyped`; `WithinLimitSafe`, `OrphansSafe`, `ToldSafe`, `StoredOnceSafe`,
`OwnedSafe`, `ScopesSafe`, `FilesSafe`, `ChunksSafe`: all the safety properties of uploads;
`UploadsImplementLedger`: the handlers implement UploadLedger.

That the backend stays within a limit it does not know follows from an injection: every stored
document is paid for by a row of the gateway. `DocumentsHold` says that a
document is of the last request of its upload and that this request will not be
repeated; `HandlersHold` that the ticket is there while a request may be under way and gone only when
nothing is stored and nothing will be (`Quiet`), or the document is owned; `RowsHold` that
a row tells of its upload; `CountsHold` that the rows are within the limit. `Condensed` again reduces the actions to kinds of steps.
`ScopesSafe` needs that a session the gateway owns is one the backend has stored, also while the handler
that opens it is under way (`SessionsHold`), and that a document goes to the session its upload was
scoped to. `FilesSafe` and `OwnedSafe` are parts of the invariant.

**SequenceLemmas**: orders and what is sorted by them, concatenation, subsequences, prefixes, `FlattenSeq`. What is defined by recursion over a
sequence is reasoned about by `SequenceInduction`: a set that has the empty sequence, and with a sequence each
that is longer by one element, has all of them. It speaks of a set where the library's
theorems have an operator as parameter, so the provers can use it. `SortedListing`: a finite set with a total order has a listing in
that order; the place of an element is the number of those before it.

**ChunkingProofs**: `DocumentCovered`, what `ChunksSafe` cites: for texts of any length, every size of a chunk and
every smaller overlap, the chunks of a document satisfy `Covers`. `TurnsAre` and `LastTurn` say that the turns of the
loop are 0..c-1 and that the last reaches the last word; `PageChunksAre` that neighbours overlap as
they should; `PageCovered` that a word is in the first chunk that does not end before it; `NextPage` adds a page.

**SseFramingProofs**: the frame of one event, for texts of any length, both line ends and a buffer with any part of it or
more. `BlanksOf`: the pattern `\r?\n\r?\n` matches nowhere inside of a frame, for the only line end in it is
followed by what opens the JSON; `Found`: so it matches when the whole frame has arrived, and not before,
and splits the buffer where the frame ends; `Decoded`: what is read is the event, or its text has a
separator; `Shorter`: the number of characters is below that of the frame. `WireAppend`, `WirePrefix`: the bytes of a stream.

**AnswerStreamProofs**: of the run's transaction `RunInvariant`, `ReportSafe`, `OutcomeSafe`, `ConversationSafe`; of its citations
`CitationsSafe`; of the stream and its reader `StreamInvariant`, `ParsedSafe`, `RefusalsSafe`, `RelayedSafe`;
of both `AnswerImplementsRun`: AnswerStream implements AgentRun.

That what is reported was recorded is not inductive, for done is sent a step after the
commit and an error event a step after the handler's. `PlaceTells` says what each place in the code implies:
nothing is recorded before the commit; an exception met after a commit that took place finds
the transaction gone (`broken`), so the handler has nothing to commit and the outcome stays; before
the end nothing but meta and tokens has been sent. `Transcripts` says what messages the open transaction
holds at each place, and that the answer in it is the text of the deltas sent. `RunStepKeeps`
also says that no step changes a recorded outcome, which is `OutcomeSafe`.

`ParsedIsReceived` says nothing of what is in the buffer, so it is not inductive. `Follows` is: the bytes of the events parsed, the
buffer and the half character in the decoder are together what has been received. From it, the buffer is the beginning of the next
frame or has it as a whole (`BufferBegins`), and SseFramingProofs says what the parser makes of that. A half character
held back cannot be the end of a frame (`WholeFrame`). A frame refused by the test inside the loop has lost its
end, one refused by the test after it is not complete: hence the -1 of `Oversized`. `LastIsLast` (done and error come last, at the end of the run) and
`ReaderTells` connect the end of the reader with the outcome of the run.

For the refinement, `Responses` says what the caller has been told at each place: nothing before the retrieval is done, and of
a commit whose answer was lost only that something failed. With `ReaderTells` this fixes the report of every end:
done is read only of a confirmed commit, and once something is told no step of the backend changes what it was told of.

`CitationsSafe` holds for every k, every top_k and rankings of any length. `PlusOrders` and `ShareOrders` say that a share falls as the rank grows and that a sum
of shares keeps the order of its parts, by cross-multiplication; so the key of the sort is a total order
(`BeforeOrders`) in which whoever deserves to be above is before (`AboveIsBefore`). `FusedSorts` takes the listing from
`SortedListing`, and `HitsRanked` cuts it: what is before a hit in the order has a smaller place, so it is a hit too.

Only model-checked: liveness (`CallsEnd`, `EventuallySettled`, `NeverWedged`, `UploadsEnd`), which TLAPS does not reach here
(fairness and ENABLED). The runs of
section 6 are counterexamples, which TLC finds.

## 6. Where docs and code disagree

- `store_pending`: the setup guide says pending rows stay blocked until reviewed and are
  not expired (GATEWAY_SETUP.md:151-152); reserve stops counting them after `stale_after` (store.py:71).
- `query_overlap`: two requests of one account with open upstream calls and running backends; the comment
  at store.py:61-64 excludes it. The greeting of research_chat is yielded between `reserve`
  and the start of the timeout.
- `query_replay`: the backend's own 502 is replayed, up to `WAKE_ATTEMPTS` runs for one id; the comment
  at main.py:23-26 says the application's 5xx are passed through. Each replay leaves another failed
  run and another user's message in the session.
- `query_interrupted`: README.md:208-209 says an interrupted stream releases the
  reservation; it is settled as uncertain and stays charged (as GATEWAY_SETUP.md:151 says).
- `sse_separator`: gateway/streaming.py:20 splits a frame with `str.splitlines`, which also breaks at U+2028, U+2029
  and U+0085; the backend sends these unescaped (`ensure_ascii=False`). A correct answer with one of
  them is interrupted, and charged. The module calls itself a parser for the backend's JSON SSE contract.

## 7. Not modelled

- *Usage report*: two reads that change nothing; nothing promises that they are of one moment.
- *Body limit*: a loop over one request body, without state that another request sees.
- *Token verification*: a pure check by a library. *Settings and migration*: constants, and one
  transaction of CREATE IF NOT EXISTS. *Backend shell*: wiring and a shared-secret check.
  *Tables and schemas*: declarations.
- *Gemini*: its outcomes are choices. Its synchronous calls block the event loop of the backend, which
  delays and changes no state.
- *The hosting edge* is taken at the code's word (main.py:23-26): a 502, 503 or 504 of its own means that the
  application was not reached. The code itself cannot tell (main.py:48, 165). On this rest `StoredOnce`, `StoredWithinLimit`,
  `OrphansHaveTickets`, `ToldIsTrue` and `ReleasedWasNotAnswered`, and their theorems: a backend that dies after its commit,
  and an edge that answers 502 for it, would have the document stored a second time for one ticket. No run shows this.
- The checks of scope and input before `reserve` in the agent handlers change nothing; `check_scope` itself is in
  DocumentUploads (`InScope`).
- An operator who repairs rows by hand (GATEWAY_SETUP.md:155) acts outside the program.
