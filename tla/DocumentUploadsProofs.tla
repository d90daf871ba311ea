----------------------- MODULE DocumentUploadsProofs -----------------------
(***************************************************************************)
(* Theorems about DocumentUploads for every set of users, uploads and      *)
(* sessions, every limit, number of attempts and number of faults.         *)
(***************************************************************************)
EXTENDS DocumentUploads, ChunkingProofs, FiniteSetTheorems, TLAPS

(***************************************************************************)
(* The steps as the invariant sees them.  Every action is one of these     *)
(* (lemma Condensed); the invariant is proved from them.                   *)
(***************************************************************************)

\* Only the handler of u moves, or only the request of u.
OnlyUpload(u) ==
    /\ \A v \in Uploads \ {u} : upload'[v] = upload[v]
    /\ upload'[u].user = upload[u].user /\ upload'[u].session = upload[u].session

OnlyIngest(u) ==
    /\ \A v \in Uploads \ {u} : ingest'[v] = ingest[v]
    /\ UNCHANGED <<upload, resources>>

Becomes(u, place, told) == upload'[u].pc = place /\ upload'[u].told = told

Answered(u, answers) == ingest'[u].pc = "answered" /\ ingest'[u].answer \in answers

\* A step of the backend on a request.
Worked(u) ==
    /\ OnlyIngest(u)
    /\ Working(u)
    /\ ingest'[u].number = ingest[u].number
    /\ \/ /\ ingest[u].pc # "stored" /\ UNCHANGED documents
          /\ \/ ingest'[u].pc \in {"written", "chunked"} /\ ingest'[u].session = ingest[u].session
             \/ Answered(u, {"rejected", "upstream", "broken", "unwritten"})
       \/ /\ ingest[u].pc = "chunked" /\ documents' = documents \cup {Row(u)}
          /\ \/ ingest'[u].pc = "stored" /\ ingest'[u].session = ingest[u].session
             \/ Answered(u, {"broken"})
       \/ /\ ingest[u].pc = "stored" /\ UNCHANGED documents
          /\ Answered(u, {"created", "broken"})

\* A request arrives, or the next attempt is made.
Attempted(u) ==
    /\ \A v \in Uploads \ {u} : ingest'[v] = ingest[v]
    /\ UNCHANGED <<documents, resources>>
    /\ OnlyUpload(u) /\ Becomes(u, upload[u].pc, upload[u].told)
    /\ \/ /\ At(u, "sending") \/ upload[u].told = "unknown"
          /\ Ingesting(u, "idle")
          /\ ingest'[u].pc = "received" /\ ingest'[u].number > 0
          /\ ingest'[u].session = upload[u].session
       \/ /\ Ingesting(u, "idle") \/ Ingested(u, "upstream")
          /\ ingest'[u].pc = "idle"

\* The handler goes on without a transaction.
Turned(u) ==
    /\ UNCHANGED <<documents, ingest, resources>>
    /\ OnlyUpload(u)
    /\ \/ At(u, "new") /\ Becomes(u, "scoped", upload[u].told)
       \/ upload[u].pc \in {"new", "scoped"} /\ Becomes(u, "closed", "refused")
       \/ At(u, "sending") /\ Ingested(u, "created") /\ Becomes(u, "finishing", upload[u].told)
       \/ At(u, "sending") /\ Quiet(u) /\ Becomes(u, "releasing", upload[u].told)
       \/ At(u, "sending") /\ Becomes(u, "closed", "unknown")

Reserved(u) ==
    /\ UNCHANGED <<documents, ingest>>
    /\ OnlyUpload(u)
    /\ At(u, "scoped")
    /\ \/ ReserveTicket(u) /\ Becomes(u, "sending", upload[u].told)
       \/ (ReserveTicket(u) \/ UNCHANGED resources) /\ Becomes(u, "closed", "unavailable")

Finished(u) ==
    /\ UNCHANGED <<documents, ingest>>
    /\ OnlyUpload(u)
    /\ \/ /\ At(u, "finishing")
          /\ \/ FinishUpload(u, {FileOf(u)}) /\ upload'[u].told \in {"created", "unavailable"}
             \/ UNCHANGED resources /\ upload'[u].told = "unavailable"
       \/ /\ At(u, "releasing")
          /\ \/ FinishUpload(u, {}) /\ upload'[u].told \in {"rejected", "unavailable"}
             \/ UNCHANGED resources /\ upload'[u].told = "unavailable"
    /\ upload'[u].pc = "closed"

SessionOwned ==
    /\ UNCHANGED <<documents, ingest, upload>>
    /\ \/ UNCHANGED resources
       \/ \E r : r.kind = "session" /\ r \in Resource /\ resources' = resources \cup {r}

BackendStopped ==
    /\ UNCHANGED <<documents, resources, upload>>
    /\ \A u \in Uploads :
          \/ ingest'[u] = ingest[u]
          \/ Working(u) /\ ingest'[u].pc = "crashed" /\ ingest'[u].number = ingest[u].number

GatewayStopped ==
    /\ UNCHANGED <<documents, resources, ingest>>
    /\ \A u \in Uploads :
          \/ upload'[u] = upload[u]
          \/ /\ upload'[u].user = upload[u].user /\ upload'[u].session = upload[u].session
             /\ \/ At(u, "sending") /\ Becomes(u, "closed", "unknown")
                \/ ~At(u, "sending") /\ ~At(u, "new") /\ Becomes(u, "closed", upload[u].told)

Step ==
    \/ \E u \in Uploads : Worked(u) \/ Attempted(u) \/ Turned(u) \/ Reserved(u) \/ Finished(u)
    \/ SessionOwned \/ BackendStopped \/ GatewayStopped

-----------------------------------------------------------------------------
(* Types *)

LEMMA RespondTyped ==
    ASSUME TypeOK, NEW u \in Uploads, NEW answer \in Answers, Respond(u, answer)
    PROVE  /\ ingest' \in [Uploads -> Request]
           /\ \A v \in Uploads \ {u} : ingest'[v] = ingest[v]
           /\ Answered(u, {answer}) /\ ingest'[u].number = ingest[u].number
  BY DEF TypeOK, Respond, Request, Places, Answered

LEMMA ProceedTyped ==
    ASSUME TypeOK, NEW u \in Uploads, NEW place \in Places, NEW pages \in Texts \cup {<<>>},
           Proceed(u, place, pages)
    PROVE  /\ ingest' \in [Uploads -> Request]
           /\ \A v \in Uploads \ {u} : ingest'[v] = ingest[v]
           /\ ingest'[u].pc = place /\ ingest'[u].number = ingest[u].number
           /\ ingest'[u].session = ingest[u].session
  BY DEF TypeOK, Proceed, Request, Answers

LEMMA FaultTyped == TypeOK /\ Fault => faults' \in 0..MaxFaults
  BY IngestionAssumption DEF TypeOK, Fault

\* A working request has a file, and makes a document.
LEMMA RowTyped ==
    ASSUME TypeOK, HandlersHold, NEW u \in Uploads, Working(u)
    PROVE  FileOf(u) \in DocumentIds /\ Row(u) \in Document
  <1>1. ingest[u].number \in 1..WakeAttempts /\ ingest[u].session \in Sessions \cup {NoSession}
    BY DEF HandlersHold, TypeOK, Request, Working, Ingesting
  <1> QED
    BY <1>1 DEF FileOf, DocumentIds, Row, Document

LEMMA IngestTyped ==
    ASSUME TypeOK, HandlersHold, NEW u \in Uploads, IngestStep(u), UNCHANGED gateway
    PROVE  TypeOK' /\ Worked(u)
  <1> USE DEF Ingesting, Working, gateway
  <1>1. CASE Reject(u)
    BY <1>1, RespondTyped DEF Reject, TypeOK, Answers, Answered, Worked, OnlyIngest
  <1>2. CASE WriteFile(u)
    BY <1>2, RowTyped, ProceedTyped DEF WriteFile, TypeOK, Places, Worked, OnlyIngest
  <1>3. CASE WriteFails(u)
    BY <1>3, RowTyped, RespondTyped, FaultTyped
       DEF WriteFails, TypeOK, Answers, Answered, Worked, OnlyIngest
  <1>4. CASE Extract(u)
    BY <1>4, ProceedTyped DEF Extract, TypeOK, Places, Worked, OnlyIngest
  <1>5. CASE IngestFails(u)
    BY <1>5, RespondTyped DEF IngestFails, Undo, TypeOK, Answers, Answered, Worked, OnlyIngest
  <1>6. CASE Store(u)
    BY <1>6, RowTyped, ProceedTyped DEF Store, TypeOK, Places, Worked, OnlyIngest
  <1>7. CASE StoreFails(u)
    BY <1>7, RowTyped, RespondTyped, FaultTyped
       DEF StoreFails, Undo, TypeOK, Answers, Answered, Worked, OnlyIngest
  <1>8. CASE Refresh(u)
    BY <1>8, RespondTyped DEF Refresh, TypeOK, Answers, Answered, Worked, OnlyIngest
  <1>9. CASE RefreshFails(u)
    BY <1>9, RespondTyped, FaultTyped
       DEF RefreshFails, Undo, TypeOK, Answers, Answered, Worked, OnlyIngest
  <1> QED
    BY <1>1, <1>2, <1>3, <1>4, <1>5, <1>6, <1>7, <1>8, <1>9 DEF IngestStep

LEMMA GotoTyped ==
    ASSUME TypeOK, NEW u \in Uploads, NEW place \in Stages, Goto(u, place)
    PROVE  /\ (upload \in [Uploads -> Handler])'
           /\ OnlyUpload(u) /\ Becomes(u, place, upload[u].told)
  BY DEF TypeOK, Goto, Handler, OnlyUpload, Becomes

LEMMA CloseTyped ==
    ASSUME TypeOK, NEW u \in Uploads, NEW told \in Told, Close(u, told)
    PROVE  /\ (upload \in [Uploads -> Handler])'
           /\ OnlyUpload(u) /\ Becomes(u, "closed", told)
  BY IngestionAssumption DEF TypeOK, Close, Handler, Stages, OnlyUpload, Becomes

LEMMA TicketTyped ==
    ASSUME TypeOK, NEW u \in Uploads
    PROVE  Ticket(u) \in Resource
  BY DEF TypeOK, Ticket, Handler, Resource

LEMMA FinishTyped ==
    ASSUME TypeOK, NEW u \in Uploads, NEW ids \in SUBSET DocumentIds, FinishUpload(u, ids)
    PROVE  resources' \subseteq Resource
  BY DEF TypeOK, FinishUpload, Resource

LEMMA HandleTyped ==
    ASSUME TypeOK, HandlersHold, NEW u \in Uploads, Handle(u)
    PROVE  TypeOK' /\ (Turned(u) \/ Reserved(u) \/ Finished(u))
  <1> USE DEF At, Ingested, Ingesting, backend
  <1>1. CASE CheckScope(u)
    BY <1>1, GotoTyped DEF CheckScope, TypeOK, Stages, Turned
  <1>2. CASE Refuse(u)
    BY <1>2, CloseTyped DEF Refuse, TypeOK, Told, Turned
  <1>3. CASE Reserve(u)
    BY <1>3, GotoTyped, TicketTyped DEF Reserve, ReserveTicket, TypeOK, Stages, Reserved
  <1>4. CASE ReserveFails(u)
    BY <1>4, CloseTyped, TicketTyped, FaultTyped
       DEF ReserveFails, ReserveTicket, TypeOK, Told, Reserved
  <1>5. CASE Created(u)
    BY <1>5, GotoTyped DEF Created, TypeOK, Stages, Turned
  <1>6. CASE Rejected(u)
    BY <1>6, GotoTyped DEF Rejected, Quiet, TypeOK, Stages, Turned
  <1>7. CASE GiveUp(u)
    BY <1>7, CloseTyped DEF GiveUp, TypeOK, Told, Turned
  <1>f. At(u, "finishing") => FileOf(u) \in DocumentIds
    BY DEF HandlersHold, TypeOK, Request, FileOf, DocumentIds
  <1>8. CASE Finish(u)
    BY <1>8, <1>f, CloseTyped, FinishTyped DEF Finish, TypeOK, Told, Becomes, Finished
  <1>9. CASE FinishFails(u)
    BY <1>9, <1>f, CloseTyped, FinishTyped, FaultTyped DEF FinishFails, TypeOK, Told, Becomes, Finished
  <1> QED
    BY <1>1, <1>2, <1>3, <1>4, <1>5, <1>6, <1>7, <1>8, <1>9 DEF Handle

LEMMA AttemptTyped ==
    ASSUME TypeOK, HandlersHold, NEW u \in Uploads, Arrive(u) \/ Replay(u)
    PROVE  TypeOK' /\ Attempted(u)
  <1> USE DEF At, Ingested, Ingesting, OnlyUpload, Becomes
  <1>1. CASE Arrive(u)
    <2>1. /\ ingest' \in [Uploads -> Request]
          /\ \A v \in Uploads \ {u} : ingest'[v] = ingest[v]
          /\ ingest'[u].pc = "received" /\ ingest'[u].number > 0
          /\ ingest'[u].session = upload[u].session
      BY <1>1, IngestionAssumption DEF Arrive, Receive, TypeOK, Request, Handler, Places, Answers
    <2> QED
      BY <1>1, <2>1 DEF Arrive, Receive, gateway, TypeOK, Attempted
  <1>2. CASE Replay(u)
    <2>1. /\ (upload \in [Uploads -> Handler])'
          /\ OnlyUpload(u) /\ Becomes(u, upload[u].pc, upload[u].told)
      <3>1. upload[u].attempt + 1 \in 1..WakeAttempts
        BY <1>2, IngestionAssumption DEF Replay, TypeOK, Handler
      <3>2. upload' = [upload EXCEPT ![u].attempt = upload[u].attempt + 1]
        BY <1>2 DEF Replay
      <3>3. (upload \in [Uploads -> Handler])'
        BY <3>1, <3>2 DEF TypeOK, Handler
      <3> QED
        BY <3>2, <3>3 DEF TypeOK, Handler
    <2> QED
      BY <1>2, <2>1, ProceedTyped DEF Replay, TypeOK, Places, Attempted
  <1> QED
    BY <1>1, <1>2

LEMMA SessionTyped ==
    ASSUME TypeOK, NEW s \in Sessions, OpenSession(s) \/ Own(s) \/ LoseSession(s)
    PROVE  TypeOK' /\ SessionOwned
  <1> DEFINE row == [kind |-> "session", id |-> s, subject |-> opening[s].user, session |-> NoSession]
  <1>1. row \in Resource /\ row.kind = "session"
    BY DEF TypeOK, Resource
  <1>2. ASSUME NEW place \in {"stored", "closed"}, Move(s, place)
        PROVE  opening' \in [Sessions -> [pc : {"new", "stored", "closed"}, user : Users]]
    BY <1>2 DEF Move, TypeOK
  <1>3. CASE OpenSession(s)
    BY <1>2, <1>3 DEF OpenSession, StoreSession, TypeOK, SessionOwned
  <1>4. CASE Own(s)
    BY <1>1, <1>2, <1>4 DEF Own, OwnSession, backend, TypeOK, SessionOwned
  <1>5. CASE LoseSession(s)
    BY <1>1, <1>2, <1>5, FaultTyped DEF LoseSession, OwnSession, TypeOK, SessionOwned
  <1> QED
    BY <1>3, <1>4, <1>5

LEMMA BackendRestartTyped ==
    ASSUME TypeOK, BackendRestart, UNCHANGED gateway
    PROVE  TypeOK' /\ BackendStopped
  <1>1. ASSUME NEW u \in Uploads
        PROVE  /\ ingest'[u] \in Request
               /\ \/ ingest'[u] = ingest[u]
                  \/ Working(u) /\ ingest'[u].pc = "crashed" /\ ingest'[u].number = ingest[u].number
    BY DEF BackendRestart, TypeOK, Request, Places, Answers, Working
  <1> QED
    BY <1>1, FaultTyped DEF BackendRestart, gateway, TypeOK, BackendStopped

LEMMA GatewayRestartTyped ==
    ASSUME TypeOK, GatewayRestart
    PROVE  TypeOK' /\ GatewayStopped
  <1>1. ASSUME NEW u \in Uploads
        PROVE  /\ upload'[u] \in Handler
               /\ \/ upload'[u] = upload[u]
                  \/ /\ upload'[u].user = upload[u].user /\ upload'[u].session = upload[u].session
                     /\ \/ At(u, "sending") /\ Becomes(u, "closed", "unknown")
                        \/ ~At(u, "sending") /\ ~At(u, "new") /\ Becomes(u, "closed", upload[u].told)
    BY IngestionAssumption DEF GatewayRestart, TypeOK, Handler, Stages, Told, At, Becomes
  <1>2. opening' \in [Sessions -> [pc : {"new", "stored", "closed"}, user : Users]]
    BY DEF GatewayRestart, TypeOK
  <1> QED
    BY <1>1, <1>2, FaultTyped DEF GatewayRestart, TypeOK, GatewayStopped

LEMMA Condensed ==
    ASSUME TypeOK, HandlersHold, [Next]_vars
    PROVE  TypeOK' /\ (Step \/ UNCHANGED <<documents, ingest, resources, upload>>)
  <1>1. CASE UNCHANGED vars
    BY <1>1 DEF vars, backend, gateway, TypeOK
  <1>2. ASSUME NEW u \in Uploads, Handle(u) \/ Arrive(u) \/ Replay(u)
                  \/ (IngestStep(u) /\ UNCHANGED gateway)
        PROVE  TypeOK' /\ Step
    BY <1>2, HandleTyped, AttemptTyped, IngestTyped DEF Step
  <1>3. ASSUME NEW s \in Sessions, OpenSession(s) \/ Own(s) \/ LoseSession(s)
        PROVE  TypeOK' /\ Step
    BY <1>3, SessionTyped DEF Step
  <1>4. CASE (BackendRestart /\ UNCHANGED gateway) \/ GatewayRestart
    BY <1>4, BackendRestartTyped, GatewayRestartTyped DEF Step
  <1> QED
    BY <1>1, <1>2, <1>3, <1>4 DEF Next

-----------------------------------------------------------------------------
(* The parts of the invariant *)

DocumentRow(u) == [kind |-> "document", id |-> FileOf(u), subject |-> upload[u].user,
                   session |-> upload[u].session]

\* Tickets name users and sessions, which stay.
LEMMA TicketsStay ==
    ASSUME Step
    PROVE  \A u \in Uploads :
             /\ upload'[u].user = upload[u].user /\ upload'[u].session = upload[u].session
             /\ Ticket(u)' = Ticket(u)
  <1>1. ASSUME NEW u \in Uploads
        PROVE  upload'[u].user = upload[u].user /\ upload'[u].session = upload[u].session
    BY DEF Step, Worked, Attempted, Turned, Reserved, Finished, SessionOwned, BackendStopped,
           GatewayStopped, OnlyUpload, OnlyIngest
  <1> QED
    BY <1>1 DEF Ticket

\* finish_upload replaces the one ticket of the upload.
LEMMA TicketGone ==
    ASSUME RowsHold, NEW u \in Uploads, NEW ids, FinishUpload(u, ids)
    PROVE  /\ Ticket(u) \in resources
           /\ ids = {} => resources' = resources \ {Ticket(u)}
           /\ ids = {FileOf(u)} => resources' = (resources \ {Ticket(u)}) \cup {DocumentRow(u)}
  <1>1. PICK r \in resources :
          /\ r.kind = "upload" /\ r.id = u
          /\ resources' = (resources \ {r}) \cup
                {[kind |-> "document", id |-> id, subject |-> r.subject,
                  session |-> r.session] : id \in ids}
    BY DEF FinishUpload
  <1>2. r = Ticket(u)
    BY <1>1 DEF RowsHold
  <1> QED
    BY <1>1, <1>2 DEF Ticket, DocumentRow

\* How a step changes the rows of the gateway.
LEMMA RowsChange ==
    ASSUME IInv, Step
    PROVE  \/ UNCHANGED resources
           \/ \E r : r.kind = "session" /\ resources' = resources \cup {r}
           \/ \E u \in Uploads :
                 Reserved(u) /\ ReserveTicket(u) /\ resources' = resources \cup {Ticket(u)}
           \/ \E u \in Uploads :
                 /\ Finished(u) /\ Ticket(u) \in resources
                 /\ \/ At(u, "releasing") /\ resources' = resources \ {Ticket(u)}
                    \/ /\ At(u, "finishing")
                       /\ resources' = (resources \ {Ticket(u)}) \cup {DocumentRow(u)}
  <1> USE DEF IInv
  <1>1. ASSUME NEW u \in Uploads, Finished(u), ~UNCHANGED resources
        PROVE  /\ Ticket(u) \in resources
               /\ \/ At(u, "releasing") /\ resources' = resources \ {Ticket(u)}
                  \/ /\ At(u, "finishing")
                     /\ resources' = (resources \ {Ticket(u)}) \cup {DocumentRow(u)}
    <2>1. CASE At(u, "finishing") /\ FinishUpload(u, {FileOf(u)})
      BY <2>1, TicketGone
    <2>2. CASE At(u, "releasing") /\ FinishUpload(u, {})
      BY <2>2, TicketGone
    <2> QED
      BY <1>1, <2>1, <2>2 DEF Finished
  <1> QED
    BY <1>1 DEF Step, Worked, Attempted, Turned, Reserved, ReserveTicket, SessionOwned,
                BackendStopped, GatewayStopped, OnlyIngest

\* How a step changes the request of an upload, and its documents.
LEMMA RequestChange ==
    ASSUME IInv, Step, NEW u \in Uploads
    PROVE  \/ /\ ingest'[u] = ingest[u]
              /\ \A d \in documents' : d.id[1] = u => d \in documents
           \/ Worked(u) \/ Attempted(u)
           \/ /\ Working(u) /\ ingest'[u].pc = "crashed" /\ ingest'[u].number = ingest[u].number
              /\ UNCHANGED <<documents, upload, resources>>
  <1>1. CASE \E v \in Uploads \ {u} : Worked(v)
    BY <1>1 DEF Worked, OnlyIngest, Row, FileOf
  <1> QED
    BY <1>1 DEF Step, Attempted, Turned, Reserved, Finished, SessionOwned, BackendStopped,
                GatewayStopped

LEMMA DocumentsStep ==
    ASSUME IInv, Step
    PROVE  /\ DocumentsHold' /\ documents \subseteq documents'
           /\ \A d \in documents' : d.id[1] \in Uploads
  <1> USE DEF IInv
  <1>1. documents \subseteq documents'
    BY DEF Step, Worked, Attempted, Turned, Reserved, Finished, SessionOwned, BackendStopped,
           GatewayStopped
  <1>2. ASSUME NEW d \in documents', d.id[1] \in Uploads
        PROVE  LET u == d.id[1] IN
               /\ d = Stored(u)'
               /\ ingest'[u].pc \in {"stored", "crashed"} \/ Answered(u, {"created", "broken"})
    <2> DEFINE u == d.id[1]
    <2> USE DEF Ingesting, Ingested, Answered, Stored, FileOf
    <2>1. CASE d \in documents /\ ingest'[u] = ingest[u]
      BY <1>2, <2>1, TicketsStay DEF DocumentsHold
    <2>2. CASE Worked(u)
      <3>1. d \in documents => ingest[u].pc = "stored"
        BY <1>2, <2>2 DEF DocumentsHold, Worked, Working
      <3>2. d \notin documents => ingest[u].pc = "chunked" /\ d = Row(u)
        BY <1>2, <2>2, <3>1 DEF Worked
      <3>3. d = Stored(u)
        BY <1>2, <2>2, <3>1, <3>2 DEF DocumentsHold, HandlersHold, Worked, Row
      <3> QED
        BY <1>2, <2>2, <3>1, <3>2, <3>3, TicketsStay DEF Worked
    <2>3. CASE Attempted(u)
      BY <1>2, <2>3 DEF DocumentsHold, Attempted
    <2>4. CASE Working(u) /\ ingest'[u].pc = "crashed" /\ ingest'[u].number = ingest[u].number
               /\ UNCHANGED <<documents, upload>>
      BY <1>2, <2>4, TicketsStay DEF DocumentsHold
    <2> QED
      BY <1>2, <2>1, <2>2, <2>3, <2>4, RequestChange
  <1>3. \A d \in documents' : d.id[1] \in Uploads
    <2>1. \A d \in documents : d.id[1] \in Uploads
      BY DEF TypeOK, Document, DocumentIds
    <2>2. UNCHANGED documents \/ \E u \in Uploads : documents' = documents \cup {Row(u)}
      BY DEF Step, Worked, Attempted, Turned, Reserved, Finished, SessionOwned, BackendStopped,
             GatewayStopped
    <2> QED
      BY <2>1, <2>2 DEF Row, FileOf
  <1> QED
    BY <1>1, <1>2, <1>3 DEF DocumentsHold, Answered, Ingested, Ingesting

LEMMA RowsStep ==
    ASSUME IInv, Step
    PROVE  RowsHold'
  <1> USE DEF IInv
  <1>1. IsFiniteSet(resources')
    <2>1. PICK added, removed : resources' = (resources \ {removed}) \cup {added}
                                \/ resources' \in {resources, resources \cup {added}}
                                \/ resources' = resources \ {removed}
      BY RowsChange
    <2>2. IsFiniteSet(resources)
      BY DEF RowsHold
    <2>3. IsFiniteSet(resources \ {removed}) /\ IsFiniteSet(resources \cup {added})
      BY <2>2, FS_AddElement, FS_RemoveElement
    <2>4. IsFiniteSet((resources \ {removed}) \cup {added})
      BY <2>3, FS_AddElement
    <2> QED
      BY <2>1, <2>2, <2>3, <2>4
  <1>2. ASSUME NEW r \in resources', r \notin resources
        PROVE  \/ r.kind = "session"
               \/ \E u \in Uploads : r = Ticket(u)
               \/ \E u \in Uploads : At(u, "finishing") /\ r = DocumentRow(u)
    BY <1>2, RowsChange
  <1>3. ASSUME NEW r \in resources', r.kind = "upload"
        PROVE  r = Ticket(r.id)'
    <2>1. CASE r \in resources
      BY <1>3, <2>1, TicketsStay DEF RowsHold, TypeOK, Resource
    <2>2. ASSUME NEW u \in Uploads, r = Ticket(u)
          PROVE  r.id = u
      BY <2>2 DEF Ticket
    <2> QED
      BY <1>2, <1>3, <2>1, <2>2, TicketsStay DEF DocumentRow
  <1>4. ASSUME NEW r \in resources', r.kind = "document"
        PROVE  LET u == r.id[1] IN
               /\ u \in Uploads /\ r.id = FileOf(u) /\ r.subject = upload[u].user
               /\ Ingested(u, "created")
    <2>1. CASE r \in resources
      BY <1>4, <2>1 DEF RowsHold, TypeOK, Resource, DocumentIds
    <2>2. ASSUME NEW u \in Uploads, At(u, "finishing"), r = DocumentRow(u)
          PROVE  /\ r.id[1] = u /\ r.id = FileOf(u) /\ r.subject = upload[u].user
                 /\ Ingested(u, "created")
      BY <2>2 DEF HandlersHold, DocumentRow, FileOf
    <2> QED
      BY <1>2, <1>4, <2>1, <2>2 DEF Ticket
  <1>5. ASSUME NEW u \in Uploads, Ingested(u, "created")
        PROVE  Ingested(u, "created")' /\ FileOf(u)' = FileOf(u)
    BY <1>5, RequestChange DEF Worked, Attempted, Working, Ingested, Ingesting, FileOf
  <1> QED
    BY <1>1, <1>3, <1>4, <1>5, TicketsStay DEF RowsHold

\* No other upload's ticket comes or goes; this one comes with Reserved and
\* goes with Finished.
LEMMA TicketChange ==
    ASSUME IInv, Step, NEW u \in Uploads
    PROVE  /\ Ticket(u) \in resources /\ Ticket(u)' \notin resources' =>
                 Finished(u) /\ (At(u, "finishing") => DocumentRow(u) \in resources')
           /\ Ticket(u) \notin resources /\ Ticket(u)' \in resources' => Reserved(u)
           /\ \A r \in resources : r.kind = "document" => r \in resources'
  <1>1. \A v \in Uploads : Ticket(v) = Ticket(u) => v = u
    BY DEF Ticket
  <1>2. Ticket(u).kind = "upload" /\ \A v \in Uploads : DocumentRow(v).kind = "document"
    BY DEF Ticket, DocumentRow
  <1>3. CASE \E r : r.kind = "session" /\ resources' = resources \cup {r}
    BY <1>2, <1>3, TicketsStay
  <1>4. CASE \E v \in Uploads : Reserved(v) /\ resources' = resources \cup {Ticket(v)}
    BY <1>1, <1>4, TicketsStay
  <1>5. CASE \E v \in Uploads :
               /\ Finished(v)
               /\ \/ At(v, "releasing") /\ resources' = resources \ {Ticket(v)}
                  \/ /\ At(v, "finishing")
                     /\ resources' = (resources \ {Ticket(v)}) \cup {DocumentRow(v)}
    <2>1. \A v \in Uploads : Ticket(v).kind = "upload"
      BY DEF Ticket
    <2> QED
      BY <1>1, <1>2, <1>5, <2>1, TicketsStay DEF At
  <1> QED
    BY <1>3, <1>4, <1>5, RowsChange, TicketsStay

\* A handler moves alone, or all stop.
LEMMA HandlerChange ==
    ASSUME IInv, Step, NEW u \in Uploads
    PROVE  \/ Becomes(u, upload[u].pc, upload[u].told)
           \/ Turned(u) \/ Reserved(u) \/ Finished(u)
           \/ /\ UNCHANGED <<documents, ingest, resources>>
              /\ \/ At(u, "sending") /\ Becomes(u, "closed", "unknown")
                 \/ ~At(u, "sending") /\ ~At(u, "new") /\ Becomes(u, "closed", upload[u].told)
  <1>1. ASSUME NEW v \in Uploads, v # u, OnlyUpload(v)
        PROVE  Becomes(u, upload[u].pc, upload[u].told)
    BY <1>1 DEF OnlyUpload, Becomes
  <1>2. CASE \E v \in Uploads : Worked(v) \/ Attempted(v)
    BY <1>1, <1>2 DEF Worked, OnlyIngest, Attempted, Becomes
  <1>3. CASE \E v \in Uploads : Turned(v) \/ Reserved(v) \/ Finished(v)
    BY <1>1, <1>3 DEF Turned, Reserved, Finished
  <1>4. CASE SessionOwned \/ BackendStopped \/ GatewayStopped
    BY <1>4 DEF SessionOwned, BackendStopped, GatewayStopped, Becomes
  <1> QED
    BY <1>2, <1>3, <1>4 DEF Step

LEMMA HandlersStep ==
    ASSUME IInv, Step
    PROVE  HandlersHold'
  <1> USE DEF IInv, Ingesting, Ingested
  <1> SUFFICES ASSUME NEW u \in Uploads
               PROVE  /\ ingest'[u].pc # "idle" => ingest'[u].number > 0
                      /\ Working(u)' => ingest'[u].session = upload'[u].session
                      /\ Ingesting(u, "stored")' \/ Ingested(u, "created")' =>
                            Stored(u)' \in documents'
                      /\ upload'[u].pc \in {"new", "scoped"} =>
                            Ticket(u)' \notin resources' /\ Ingesting(u, "idle")'
                      /\ upload'[u].pc # "closed" => upload'[u].told = "nothing"
                      /\ upload'[u].pc = "releasing" => Quiet(u)'
                      /\ upload'[u].pc = "finishing" => Ingested(u, "created")'
                      /\ upload'[u].told \in {"refused", "rejected"} => Quiet(u)'
                      /\ upload'[u].pc \in {"sending", "finishing", "releasing"}
                            \/ upload'[u].told = "unknown" \/ Working(u)' =>
                            Ticket(u)' \in resources'
    BY DEF HandlersHold, At
  <1>1. ingest'[u].pc # "idle" => ingest'[u].number > 0
    BY RequestChange DEF HandlersHold, Worked, Attempted, Working, Answered
  <1>2. Working(u)' => ingest'[u].session = upload'[u].session
    BY RequestChange, TicketsStay DEF HandlersHold, Worked, Attempted, Working, Answered
  <1>3. Ingesting(u, "stored")' \/ Ingested(u, "created")' => Stored(u)' \in documents'
    BY RequestChange, TicketsStay, DocumentsStep
       DEF HandlersHold, Worked, Attempted, Working, Answered, Stored, FileOf, Row
  <1>4. upload'[u].pc # "closed" => upload'[u].told = "nothing"
    BY HandlerChange DEF HandlersHold, Turned, Reserved, Finished, Becomes, At
  <1>5. Quiet(u) => Quiet(u)' \/ upload[u].told = "unknown" \/ At(u, "sending")
    BY RequestChange DEF Worked, Attempted, Working, Quiet
  <1>6. Ingested(u, "created") => Ingested(u, "created")'
    BY RequestChange DEF Worked, Attempted, Working
  <1>7. upload'[u].pc \in {"new", "scoped"} =>
            Ticket(u)' \notin resources' /\ Ingesting(u, "idle")'
    BY HandlerChange, TicketChange, RequestChange
       DEF HandlersHold, Turned, Reserved, Finished, Becomes, At, Worked, Attempted, Working
  <1>8. upload'[u].pc = "releasing" \/ upload'[u].told \in {"refused", "rejected"} => Quiet(u)'
    BY <1>5, HandlerChange DEF HandlersHold, Turned, Reserved, Finished, Becomes, At, Quiet
  <1>9. upload'[u].pc = "finishing" => Ingested(u, "created")'
    BY <1>6, HandlerChange DEF HandlersHold, Turned, Reserved, Finished, Becomes, At
  <1>10. upload'[u].pc \in {"sending", "finishing", "releasing"}
            \/ upload'[u].told = "unknown" \/ Working(u)' => Ticket(u)' \in resources'
    <2>1. CASE Finished(u)
      BY <2>1 DEF Finished, HandlersHold, Quiet, Working, At
    <2>2. CASE Reserved(u)
      <3>1. ~Working(u)' /\ upload[u].told = "nothing"
        BY <2>2 DEF Reserved, HandlersHold, Working, At
      <3>2. resources' = resources \cup {Ticket(u)} => Ticket(u)' \in resources'
        BY TicketsStay
      <3> QED
        BY <2>2, <3>1, <3>2 DEF Reserved, ReserveTicket, Becomes
    <2>3. CASE Turned(u)
      BY <2>3, TicketsStay DEF Turned, HandlersHold, Working, Becomes, At
    <2> QED
      BY <2>1, <2>2, <2>3, HandlerChange, TicketChange, RequestChange
         DEF HandlersHold, Becomes, At, Worked, Attempted, Working
  <1> QED
    BY <1>1, <1>2, <1>3, <1>4, <1>7, <1>8, <1>9, <1>10

LEMMA OrphansStep ==
    ASSUME IInv, Step
    PROVE  OrphansHaveTickets'
  <1> USE DEF IInv
  <1> SUFFICES ASSUME NEW d \in documents', NEW u \in Uploads, u = d.id[1]
               PROVE  \E r \in resources' :
                         \/ r.kind = "document" /\ r.id = d.id
                         \/ r.kind = "upload" /\ r.id = u
    BY DocumentsStep DEF OrphansHaveTickets
  <1>1. Ticket(u)' \in resources' => \E r \in resources' : r.kind = "upload" /\ r.id = u
    BY DEF Ticket
  <1>2. CASE d \notin documents
    <2>1. Working(u) /\ UNCHANGED resources
      BY <1>2, RequestChange DEF Worked, OnlyIngest, Attempted
    <2> QED
      BY <1>1, <2>1, TicketsStay DEF HandlersHold
  <1>3. CASE d \in documents
    <2>1. PICK r \in resources :
            \/ r.kind = "document" /\ r.id = d.id
            \/ r.kind = "upload" /\ r.id = u
      BY <1>3 DEF OrphansHaveTickets
    <2>2. CASE r.kind = "document" /\ r.id = d.id
      BY <2>2, TicketChange
    <2>3. CASE r.kind = "upload" /\ r.id = u
      <3>1. Ticket(u) \in resources
        BY <2>3 DEF RowsHold
      <3>2. d.id = FileOf(u) /\ ~Quiet(u)
        BY <1>3 DEF DocumentsHold, Stored, Quiet, Ingesting, Ingested
      <3>3. Finished(u) => At(u, "finishing")
        BY <3>2 DEF Finished, HandlersHold
      <3> QED
        BY <1>1, <3>1, <3>2, <3>3, TicketChange DEF DocumentRow
    <2> QED
      BY <2>1, <2>2, <2>3
  <1> QED
    BY <1>2, <1>3

LEMMA ToldStep ==
    ASSUME IInv, Step
    PROVE  ToldIsTrue'
  <1> USE DEF IInv
  <1> SUFFICES ASSUME NEW u \in Uploads
               PROVE  /\ upload'[u].told \in {"created", "refused", "rejected"} =>
                            ~\E r \in resources' : r.kind = "upload" /\ r.id = u
                      /\ upload'[u].told = "created" =>
                            \E r \in resources' : r.kind = "document" /\ r.id[1] = u
                                                  /\ r.subject = upload'[u].user
                      /\ upload'[u].told \in {"refused", "rejected"} =>
                            {d \in documents' : d.id[1] = u} = {}
    BY DEF ToldIsTrue
  <1>0. upload'[u].told \in {"refused", "rejected"} => {d \in documents' : d.id[1] = u} = {}
    BY HandlersStep, DocumentsStep DEF HandlersHold, DocumentsHold, Quiet, Ingesting, Ingested
  <1>1. (\E r \in resources : r.kind = "upload" /\ r.id = u) <=> Ticket(u) \in resources
    BY DEF RowsHold, Ticket
  <1>2. (\E r \in resources' : r.kind = "upload" /\ r.id = u) => Ticket(u)' \in resources'
    BY RowsStep DEF RowsHold
  <1>3. CASE Finished(u)
    <2>1. Ticket(u)' = Ticket(u) /\ upload'[u].user = upload[u].user
      BY TicketsStay
    <2>2. upload'[u].told = "created" =>
             Ticket(u)' \notin resources' /\ DocumentRow(u) \in resources'
      BY <1>3, <2>1, TicketGone DEF Finished, Ticket, DocumentRow, At
    <2>3. upload'[u].told = "rejected" => Ticket(u)' \notin resources'
      BY <1>3, <2>1, TicketGone DEF Finished, At
    <2>4. upload'[u].told # "refused"
      BY <1>3 DEF Finished
    <2>5. DocumentRow(u).kind = "document" /\ DocumentRow(u).id[1] = u
          /\ DocumentRow(u).subject = upload[u].user
      BY DEF DocumentRow, FileOf
    <2> QED
      BY <1>0, <1>2, <2>1, <2>2, <2>3, <2>4, <2>5
  <1>4. CASE Turned(u)
    <2>1. upload'[u].told # "created" /\ upload'[u].told # "rejected"
      BY <1>4 DEF Turned, Becomes, HandlersHold, At
    <2>2. upload'[u].told = "refused" => Ticket(u)' \notin resources'
      BY <1>4, TicketsStay DEF Turned, Becomes, HandlersHold, At
    <2> QED
      BY <1>0, <1>2, <2>1, <2>2
  <1>5. CASE Reserved(u)
    BY <1>5 DEF Reserved, Becomes, HandlersHold, At
  <1>6. CASE upload'[u].told = upload[u].told /\ ~Finished(u) /\ ~Reserved(u)
    <2>1. upload'[u].user = upload[u].user
      BY TicketsStay
    <2>2. upload[u].told \in {"created", "refused", "rejected"} => Ticket(u)' \notin resources'
      BY <1>1, <1>6, TicketChange DEF ToldIsTrue
    <2>3. upload[u].told = "created" =>
            \E r \in resources' : r.kind = "document" /\ r.id[1] = u /\ r.subject = upload[u].user
      BY TicketChange DEF ToldIsTrue
    <2> QED
      BY <1>0, <1>2, <1>6, <2>1, <2>2, <2>3
  <1> QED
    BY <1>3, <1>4, <1>5, <1>6, HandlerChange DEF Becomes

LEMMA CountsStep ==
    ASSUME IInv, Step
    PROVE  CountsHold'
  <1> USE DEF IInv
  <1> SUFFICES ASSUME NEW user \in Users
               PROVE  Cardinality(Counted(user)') <= Limit
    BY DEF CountsHold
  <1>1. IsFiniteSet(Counted(user)) /\ Cardinality(Counted(user)) <= Limit
    BY FS_Subset DEF RowsHold, Counted, CountsHold
  <1>2. \A n : n = Cardinality(Counted(user)) => n \in Nat
    BY <1>1, FS_CardinalityType
  <1>3. CASE Counted(user)' = Counted(user)
    BY <1>1, <1>3
  <1>4. CASE \E u \in Uploads : ReserveTicket(u) /\ resources' = resources \cup {Ticket(u)}
    <2>1. PICK u \in Uploads : ReserveTicket(u) /\ resources' = resources \cup {Ticket(u)}
      BY <1>4
    <2>2. Ticket(u).kind = "upload" /\ Ticket(u).subject = upload[u].user
      BY DEF Ticket
    <2>3. CASE user = upload[u].user
      <3>1. Counted(user)' = Counted(user) \cup {Ticket(u)}
        BY <2>1, <2>2, <2>3 DEF Counted
      <3>2. Cardinality(Counted(user)) < Limit
        BY <2>1, <2>3 DEF ReserveTicket
      <3>3. Cardinality(Counted(user) \cup {Ticket(u)})
               \in {Cardinality(Counted(user)), Cardinality(Counted(user)) + 1}
        BY <1>1, FS_AddElement
      <3> QED
        BY <1>2, <3>1, <3>2, <3>3, LimitAssumption
    <2>4. CASE user # upload[u].user
      BY <1>3, <2>1, <2>2, <2>4 DEF Counted
    <2> QED
      BY <2>3, <2>4
  <1>5. CASE \E u \in Uploads : resources' = resources \ {Ticket(u)}
    <2>1. Counted(user)' \subseteq Counted(user)
      BY <1>5 DEF Counted
    <2>2. Cardinality(Counted(user)') <= Cardinality(Counted(user))
          /\ Cardinality(Counted(user)') \in Nat
      BY <1>1, <2>1, FS_Subset, FS_CardinalityType
    <2> QED
      BY <1>1, <1>2, <2>2, LimitAssumption
  <1>6. CASE \E u \in Uploads :
               /\ Ticket(u) \in resources
               /\ resources' = (resources \ {Ticket(u)}) \cup {DocumentRow(u)}
    <2>1. PICK u \in Uploads :
               /\ Ticket(u) \in resources
               /\ resources' = (resources \ {Ticket(u)}) \cup {DocumentRow(u)}
      BY <1>6
    <2>2. /\ Ticket(u).kind = "upload" /\ Ticket(u).subject = upload[u].user
          /\ DocumentRow(u).kind = "document" /\ DocumentRow(u).subject = upload[u].user
      BY DEF Ticket, DocumentRow
    <2>3. CASE user = upload[u].user
      <3>1. /\ Ticket(u) \in Counted(user)
            /\ Counted(user)' = (Counted(user) \ {Ticket(u)}) \cup {DocumentRow(u)}
        BY <2>1, <2>2, <2>3 DEF Counted
      <3> DEFINE rest == Counted(user) \ {Ticket(u)}
      <3>2. IsFiniteSet(rest) /\ Cardinality(rest) = Cardinality(Counted(user)) - 1
        BY <1>1, <3>1, FS_RemoveElement
      <3>3. Cardinality(rest \cup {DocumentRow(u)}) \in {Cardinality(rest), Cardinality(rest) + 1}
        BY <3>2, FS_AddElement
      <3> QED
        <4> HIDE DEF rest
        <4>1. Counted(user)' = rest \cup {DocumentRow(u)}
          BY <3>1 DEF rest
        <4> QED
          BY <1>1, <1>2, <3>2, <3>3, <4>1, LimitAssumption
    <2>4. CASE user # upload[u].user
      BY <1>3, <2>1, <2>2, <2>4 DEF Counted
    <2> QED
      BY <2>3, <2>4
  <1>7. CASE \E r : r.kind = "session" /\ resources' = resources \cup {r}
    BY <1>3, <1>7 DEF Counted
  <1>8. CASE UNCHANGED resources
    BY <1>3, <1>8 DEF Counted
  <1> QED
    BY <1>4, <1>5, <1>6, <1>7, <1>8, RowsChange

-----------------------------------------------------------------------------
(* Sessions, ownership and files: what Step leaves out *)

SessionRow(s) == [kind |-> "session", id |-> s, subject |-> opening[s].user, session |-> NoSession]

\* Sessions are stored and not removed, their openers stay, and a session is
\* owned only by its opener, after it has been stored.
LEMMA SessionsStep ==
    ASSUME IInv, [Next]_vars
    PROVE  /\ SessionsHold' /\ sessions \subseteq sessions'
           /\ \A s \in Sessions : opening'[s].user = opening[s].user
           /\ \A r \in resources' \ resources : r.kind = "session" =>
                 \E s \in Sessions : r = SessionRow(s) /\ opening[s].pc = "stored"
  <1> USE DEF IInv, SessionsHold
  <1>1. CASE UNCHANGED vars
    BY <1>1 DEF vars, backend, gateway
  <1>2. ASSUME NEW u \in Uploads, Handle(u)
        PROVE  /\ UNCHANGED <<sessions, opening>>
               /\ \A r \in resources' \ resources : r.kind # "session"
    <2>1. Ticket(u).kind # "session"
      BY DEF Ticket
    <2>2. ASSUME NEW ids, FinishUpload(u, ids)
          PROVE  \A r \in resources' \ resources : r.kind = "document"
      BY <2>2 DEF FinishUpload
    <2> QED
      BY <1>2, <2>1, <2>2 DEF Handle, CheckScope, Refuse, Reserve, ReserveFails, ReserveTicket,
         Created, Rejected, GiveUp, Finish, FinishFails, backend
  <1>3. ASSUME NEW u \in Uploads,
               Arrive(u) \/ Replay(u) \/ (IngestStep(u) /\ UNCHANGED gateway)
        PROVE  UNCHANGED <<sessions, opening, resources>>
    BY <1>3 DEF Arrive, Receive, Replay, IngestStep, Reject, WriteFile, WriteFails, Extract, IngestFails,
       Store, StoreFails, Refresh, RefreshFails, gateway
  <1>4. ASSUME NEW s \in Sessions, OpenSession(s)
        PROVE  /\ SessionsHold' /\ sessions \subseteq sessions' /\ UNCHANGED resources
               /\ \A t \in Sessions : opening'[t].user = opening[t].user
    BY <1>4 DEF OpenSession, StoreSession, Move, TypeOK
  <1>5. ASSUME NEW s \in Sessions, Own(s) \/ LoseSession(s)
        PROVE  /\ SessionsHold' /\ UNCHANGED sessions
               /\ \A t \in Sessions : opening'[t].user = opening[t].user
               /\ opening[s].pc = "stored" /\ resources' \subseteq resources \cup {SessionRow(s)}
    BY <1>5 DEF Own, LoseSession, OwnSession, SessionRow, Move, backend, TypeOK
  <1>6. CASE (BackendRestart /\ UNCHANGED gateway) \/ GatewayRestart
    BY <1>6 DEF BackendRestart, GatewayRestart, gateway, TypeOK
  <1> QED
    BY <1>1, <1>2, <1>3, <1>4, <1>5, <1>6 DEF Next

LEMMA OwnedStep ==
    ASSUME IInv, [Next]_vars
    PROVE  OwnedIsStored'
  <1> USE DEF IInv
  <1>0. Step \/ UNCHANGED <<documents, ingest, resources, upload>>
    BY Condensed
  <1>1. /\ documents \subseteq documents'
        /\ \A u \in Uploads : upload'[u].user = upload[u].user
    BY <1>0, DocumentsStep, TicketsStay
  <1>2. ASSUME NEW r \in resources', r.kind = "session"
        PROVE  r.id \in sessions' /\ opening'[r.id].user = r.subject
    <2>1. CASE r \in resources
      <3>1. r.id \in Sessions
        BY <1>2, <2>1 DEF TypeOK, Resource
      <3> QED
        BY <1>2, <2>1, <3>1, SessionsStep DEF OwnedIsStored
    <2>2. CASE r \notin resources
      BY <1>2, <2>2, SessionsStep DEF SessionRow, SessionsHold
    <2> QED
      BY <2>1, <2>2
  <1>3. ASSUME NEW r \in resources', r.kind = "document"
        PROVE  /\ [id |-> r.id, session |-> r.session] \in documents'
               /\ upload'[r.id[1]].user = r.subject
    <2>1. CASE r \in resources
      <3>1. r.id[1] \in Uploads
        BY <1>3, <2>1 DEF TypeOK, Resource, DocumentIds
      <3> QED
        BY <1>1, <1>3, <2>1, <3>1 DEF OwnedIsStored
    <2>2. CASE r \notin resources
      <3>1. PICK u \in Uploads : At(u, "finishing") /\ r = DocumentRow(u)
        <4>1. \A u \in Uploads : Ticket(u).kind = "upload"
          BY DEF Ticket
        <4> QED
          BY <1>0, <1>3, <2>2, <4>1, RowsChange
      <3>2. /\ Stored(u) \in documents /\ r.id[1] = u /\ r.subject = upload[u].user
            /\ [id |-> r.id, session |-> r.session] = Stored(u)
        BY <3>1 DEF HandlersHold, DocumentRow, Stored, FileOf
      <3> QED
        BY <1>1, <3>2
    <2> QED
      BY <2>1, <2>2
  <1> QED
    BY <1>2, <1>3 DEF OwnedIsStored

\* A file of an upload without a document is left by its last request.
LeftBehind(u) ==
    Ingesting(u, "crashed") \/ Ingested(u, "unwritten") \/ ingest[u].pc \in {"written", "chunked"}

\* The file of a request is unlinked when the request fails, and a request
\* whose file stays is not repeated.
LEMMA FilesStep ==
    ASSUME IInv, [Next]_vars
    PROVE  FilesHaveDocuments'
  <1>0. TypeOK' /\ documents \subseteq documents'
    BY Condensed, DocumentsStep DEF IInv
  <1> SUFFICES ASSUME NEW f \in files', NEW u \in Uploads, f[1] = u,
                      ~ \E d \in documents' : d.id = f
               PROVE  f[2] = ingest'[u].number /\ LeftBehind(u)'
    BY <1>0 DEF FilesHaveDocuments, LeftBehind, TypeOK, DocumentIds
  <1>1. f \in files => f[2] = ingest[u].number /\ LeftBehind(u)
    BY <1>0 DEF IInv, FilesHaveDocuments, LeftBehind
  <1>2. f[2] = ingest[u].number => f = FileOf(u)
    BY <1>0 DEF TypeOK, DocumentIds, FileOf
  <1> USE DEF LeftBehind, Ingesting, Ingested
  <1>3. CASE f \in files /\ ingest'[u] = ingest[u]
    BY <1>1, <1>3
  <1>4. ASSUME NEW v \in Uploads, IngestStep(v)
        PROVE  f[2] = ingest'[u].number /\ LeftBehind(u)'
    <2>1. CASE v # u
      <3>1. ingest'[u] = ingest[u] /\ files' \subseteq files \cup {FileOf(v)} /\ FileOf(v)[1] = v
        <4>1. FileOf(v)[1] = v
          BY DEF FileOf
        <4>2. \A place, pages : Proceed(v, place, pages) => ingest'[u] = ingest[u]
          BY <2>1 DEF IInv, TypeOK, Proceed
        <4>3. \A answer : Respond(v, answer) => ingest'[u] = ingest[u]
          BY <2>1 DEF IInv, TypeOK, Respond
        <4> QED
          BY <1>4, <4>1, <4>2, <4>3 DEF IngestStep, Reject, WriteFile, WriteFails, Extract, IngestFails,
             Store, StoreFails, Refresh, RefreshFails, Undo
      <3> QED
        BY <1>3, <2>1, <3>1
    <2>2. CASE v = u
      <3> USE <1>1, <1>2, <2>2
      <3>1. \A place, pages : Proceed(u, place, pages) =>
               ingest'[u].pc = place /\ ingest'[u].number = ingest[u].number
        BY <1>0 DEF IInv, TypeOK, Proceed
      <3>2. \A answer : Respond(u, answer) =>
               ingest'[u].pc = "answered" /\ ingest'[u].answer = answer /\ ingest'[u].number = ingest[u].number
        BY <1>0 DEF IInv, TypeOK, Respond
      <3>3. ~ \E answer : Undo(u, answer)
        BY DEF Undo
      <3>4. CASE Reject(u) \/ Refresh(u)
        BY <3>2, <3>4 DEF Reject, Refresh
      <3>5. CASE WriteFile(u)
        BY <3>1, <3>5 DEF WriteFile, FileOf
      <3>6. CASE WriteFails(u)
        BY <3>2, <3>6 DEF WriteFails, FileOf
      <3>7. CASE Extract(u)
        BY <3>1, <3>7 DEF Extract
      <3>8. CASE Store(u)
        <4>1. UNCHANGED files /\ Row(u) \in documents' /\ Row(u).id = FileOf(u)
          BY <3>8 DEF Store, Row
        <4> QED
          BY <4>1
      <3>9. ~ (IngestFails(u) \/ StoreFails(u) \/ RefreshFails(u))
        BY <3>3 DEF IngestFails, StoreFails, RefreshFails
      <3> QED
        BY <1>4, <3>4, <3>5, <3>6, <3>7, <3>8, <3>9 DEF IngestStep
    <2> QED
      BY <2>1, <2>2
  <1>5. ASSUME NEW v \in Uploads, Arrive(v) \/ Replay(v)
        PROVE  f[2] = ingest'[u].number /\ LeftBehind(u)'
    <2>1. UNCHANGED files /\ ingest[v].pc \in {"idle", "answered"} /\ ~Ingested(v, "unwritten")
      BY <1>5 DEF Arrive, Receive, Replay
    <2>2. v # u => ingest'[u] = ingest[u]
      BY <1>5 DEF Arrive, Receive, Replay, Proceed, IInv, TypeOK
    <2> QED
      BY <1>1, <1>3, <2>1, <2>2
  <1>6. CASE BackendRestart
    BY <1>1, <1>6 DEF BackendRestart
  <1>7. CASE UNCHANGED <<files, ingest>>
    BY <1>3, <1>7
  <1> QED
    BY <1>4, <1>5, <1>6, <1>7 DEF Next, vars, backend, Handle, CheckScope, Refuse, Reserve,
       ReserveFails, Created, Rejected, GiveUp, Finish, FinishFails, OpenSession, StoreSession, Own, LoseSession,
       GatewayRestart

-----------------------------------------------------------------------------
(* The theorems *)

LEMMA InvariantInit == Init => IInv
  <1> SUFFICES ASSUME Init PROVE IInv
    OBVIOUS
  <1> USE DEF Init, IngestInit
  <1>1. TypeOK
    BY IngestionAssumption DEF TypeOK, Handler, Request, Idle, Places, Answers, Stages, Told
  <1>2. RowsHold
    BY FS_EmptySet DEF RowsHold
  <1>3. DocumentsHold /\ OrphansHaveTickets
    BY DEF DocumentsHold, OrphansHaveTickets
  <1>4. ToldIsTrue
    BY DEF ToldIsTrue
  <1>5. HandlersHold
    BY DEF HandlersHold, Working, Quiet, Ingesting, Ingested, Idle, At
  <1>6. CountsHold
    BY FS_EmptySet, LimitAssumption DEF CountsHold, Counted
  <1>7. SessionsHold /\ OwnedIsStored /\ FilesHaveDocuments
    BY DEF SessionsHold, OwnedIsStored, FilesHaveDocuments
  <1> QED
    BY <1>1, <1>2, <1>3, <1>4, <1>5, <1>6, <1>7 DEF IInv

LEMMA InvariantNext == IInv /\ [Next]_vars => IInv'
  <1> SUFFICES ASSUME IInv, [Next]_vars PROVE IInv'
    OBVIOUS
  <1>1. TypeOK' /\ (Step \/ UNCHANGED <<documents, ingest, resources, upload>>)
    BY Condensed DEF IInv
  <1>2. /\ RowsHold' /\ DocumentsHold' /\ HandlersHold' /\ CountsHold'
        /\ OrphansHaveTickets' /\ ToldIsTrue'
    <2>1. CASE Step
      BY <2>1, RowsStep, DocumentsStep, HandlersStep, CountsStep, OrphansStep, ToldStep
    <2>2. CASE UNCHANGED <<documents, ingest, resources, upload>>
      BY <2>2 DEF IInv, RowsHold, DocumentsHold, HandlersHold, CountsHold, OrphansHaveTickets,
         ToldIsTrue, Ticket, FileOf, Stored, Quiet, Working, Ingesting, Ingested, At, Counted
    <2> QED
      BY <1>1, <2>1, <2>2
  <1>3. SessionsHold' /\ OwnedIsStored' /\ FilesHaveDocuments'
    BY SessionsStep, OwnedStep, FilesStep
  <1> QED
    BY <1>1, <1>2, <1>3 DEF IInv

\* The invariant the runs check holds of every behaviour.
THEOREM UploadInvariant == Spec => []IInv
  BY InvariantInit, InvariantNext, PTL DEF Spec

\* Type correctness.
THEOREM UploadsTyped == Spec => []TypeOK
  BY UploadInvariant, PTL DEF IInv

\* A document that nobody owns still has its ticket.
THEOREM OrphansSafe == Spec => []OrphansHaveTickets
  BY UploadInvariant, PTL DEF IInv

\* What a client is told of its upload is so.
THEOREM ToldSafe == Spec => []ToldIsTrue
  BY UploadInvariant, PTL DEF IInv

\* What a user owns is stored at the backend, with the same session.
THEOREM OwnedSafe == Spec => []OwnedIsStored
  BY UploadInvariant, PTL DEF IInv

\* A file without a document is left by a crash or by the disk, or is being
\* read.
THEOREM FilesSafe == Spec => []FilesHaveDocuments
  BY UploadInvariant, PTL DEF IInv

\* The backend finds what the gateway lets through: its sessions and documents
\* are those that are owned.
THEOREM ScopesSafe == Spec => []ScopesAgree
  <1>1. ASSUME IInv, NEW user \in Users, NEW session \in Sessions \cup {NoSession}, NEW ids,
               InScope(user, ids, session)
        PROVE  InBackendScope(ids, session)
    <2>1. OwnedIsStored
      BY <1>1 DEF IInv
    <2>2. session \in sessions \cup {NoSession}
      <3>1. session # NoSession =>
               \E r \in resources : r.kind = "session" /\ r.id = session
        BY <1>1 DEF InScope
      <3> QED
        BY <2>1, <3>1 DEF OwnedIsStored
    <2>3. ASSUME NEW id \in ids
          PROVE  \E d \in documents : d.id = id /\ (session # NoSession => d.session = session)
      <3>1. PICK r \in resources :
              /\ r.kind = "document" /\ r.id = id
              /\ session # NoSession => r.session = session
        BY <1>1 DEF InScope
      <3>2. [id |-> id, session |-> r.session] \in documents
        BY <2>1, <3>1 DEF OwnedIsStored
      <3> QED
        BY <3>1, <3>2
    <2> QED
      BY <2>2, <2>3 DEF InBackendScope
  <1>2. IInv => ScopesAgree
    BY <1>1 DEF ScopesAgree
  <1> QED
    BY <1>2, UploadInvariant, PTL

\* What an upload is about to store covers its document: every word of every
\* page is in a chunk, in order and with the overlap (chunking.py:7-20,
\* document_ingestion.py:44-48).
THEOREM ChunksSafe == Spec => []ChunksCover
  <1>1. ASSUME TypeOK, NEW u \in Uploads
        PROVE  Covers(ChunkRecords(ingest[u].pages), ingest[u].pages)
    <2>1. ingest[u].pages \in Texts \cup {<<>>}
      BY <1>1 DEF TypeOK, Request
    <2>2. <<>> \in Seq(Nat)
      OBVIOUS
    <2>3. ingest[u].pages \in Seq(Nat)
      BY <2>1, <2>2, IngestionAssumption
    <2> QED
      BY <2>3, DocumentCovered
  <1>2. TypeOK => ChunksCover
    BY <1>1 DEF ChunksCover
  <1> QED
    BY <1>2, UploadsTyped, PTL

\* Replays store nothing twice: every document of an upload is the one of
\* its last request.
THEOREM StoredOnceSafe == Spec => []StoredOnce
  <1>1. IInv => StoredOnce
    BY DEF IInv, StoredOnce, DocumentsHold, Stored
  <1> QED
    BY <1>1, UploadInvariant, PTL

\* A document of the backend is paid for by a row of the gateway, and two
\* documents by two rows.
LEMMA DocumentsPaid ==
    ASSUME IInv, NEW user \in Users
    PROVE  Cardinality({d \in documents : upload[d.id[1]].user = user}) <= Limit
  <1> DEFINE mine == {d \in documents : upload[d.id[1]].user = user}
             Pays(r, d) == \/ r.kind = "document" /\ r.id = d.id
                           \/ r.kind = "upload" /\ r.id = d.id[1]
             payment == [d \in mine |-> CHOOSE r \in Counted(user) : Pays(r, d)]
  <1>1. \A d \in mine : \E r \in Counted(user) : Pays(r, d)
    <2> SUFFICES ASSUME NEW d \in mine PROVE \E r \in Counted(user) : Pays(r, d)
      OBVIOUS
    <2>1. PICK r \in resources : Pays(r, d)
      BY DEF IInv, OrphansHaveTickets
    <2>2. r.subject = user
      BY <2>1 DEF IInv, RowsHold, Ticket
    <2> QED
      BY <2>1, <2>2 DEF Counted
  <1>2. \A r, d, e : d \in mine /\ e \in mine /\ Pays(r, d) /\ Pays(r, e) => d = e
    <2>1. \A d, e \in documents : d.id[1] = e.id[1] => d = e
      BY DEF IInv, DocumentsHold, Stored
    <2> QED
      BY <2>1
  <1>3. payment \in Injection(mine, Counted(user))
    <2>1. \A d \in mine : payment[d] \in Counted(user) /\ Pays(payment[d], d)
      BY <1>1
    <2> HIDE DEF Pays
    <2>2. payment \in [mine -> Counted(user)]
      BY <2>1
    <2>3. \A d, e \in mine : payment[d] = payment[e] => d = e
      BY <1>2, <2>1
    <2> QED
      BY <2>2, <2>3 DEF Injection, IsInjective
  <1>4. IsFiniteSet(Counted(user)) /\ Cardinality(Counted(user)) <= Limit
    BY FS_Subset DEF IInv, RowsHold, Counted, CountsHold
  <1>5. /\ IsFiniteSet(mine)
        /\ Cardinality(mine) <= Cardinality(Counted(user))
    BY <1>3, <1>4, FS_Injection
  <1> HIDE DEF mine
  <1>6. Cardinality(mine) <= Limit
    BY <1>4, <1>5, FS_CardinalityType, LimitAssumption
  <1> QED
    BY <1>6 DEF mine

\* The backend never holds more documents of a user than the gateway allows.
THEOREM WithinLimitSafe == Spec => []StoredWithinLimit
  <1>1. IInv => StoredWithinLimit
    BY DocumentsPaid DEF StoredWithinLimit
  <1> QED
    BY <1>1, UploadInvariant, PTL

-----------------------------------------------------------------------------
(* The refinement *)

Held(u) == Ticket(u) \in resources
Filled(u) == \E r \in resources : r.kind = "document" /\ r.id[1] = u

Slots == \A u \in Uploads :
    SlotState(u) = IF Held(u) THEN "held" ELSE IF Filled(u) THEN "filled" ELSE "none"

LEMMA SlotStates == RowsHold => Slots
  <1> SUFFICES ASSUME RowsHold, NEW u \in Uploads
               PROVE  SlotState(u) =
                        IF Held(u) THEN "held" ELSE IF Filled(u) THEN "filled" ELSE "none"
    BY DEF Slots
  <1>1. (\E r \in resources : r.kind = "upload" /\ r.id = u) <=> Held(u)
    BY DEF RowsHold, Ticket, Held
  <1> QED
    BY <1>1 DEF SlotState, Filled

\* A slot that is used has a row that counts.
LEMMA UsedIsCounted ==
    ASSUME IInv, NEW user \in Users
    PROVE  LET used == {u \in Uploads : upload[u].user = user /\ SlotState(u) # "none"} IN
           /\ Cardinality(used) <= Cardinality(Counted(user))
           /\ Cardinality(used) \in Nat /\ Cardinality(Counted(user)) \in Nat
  <1> DEFINE used == {u \in Uploads : upload[u].user = user /\ SlotState(u) # "none"}
             Pays(r, u) == (r.kind = "upload" /\ r.id = u) \/ (r.kind = "document" /\ r.id[1] = u)
             payment == [u \in used |-> CHOOSE r \in Counted(user) : Pays(r, u)]
  <1>1. \A u \in used : \E r \in Counted(user) : Pays(r, u)
    <2> SUFFICES ASSUME NEW u \in used PROVE \E r \in Counted(user) : Pays(r, u)
      OBVIOUS
    <2>1. PICK r \in resources : Pays(r, u)
      BY DEF SlotState
    <2>2. r.subject = user
      BY <2>1 DEF IInv, RowsHold, Ticket
    <2> QED
      BY <2>1, <2>2 DEF Counted
  <1>2. \A r, u, v : Pays(r, u) /\ Pays(r, v) => u = v
    OBVIOUS
  <1>3. payment \in Injection(used, Counted(user))
    <2>1. \A u \in used : payment[u] \in Counted(user) /\ Pays(payment[u], u)
      BY <1>1
    <2> HIDE DEF Pays, used
    <2>2. payment \in [used -> Counted(user)]
      BY <2>1
    <2>3. \A u, v \in used : payment[u] = payment[v] => u = v
      BY <1>2, <2>1
    <2> QED
      BY <2>2, <2>3 DEF Injection, IsInjective
  <1>4. IsFiniteSet(Counted(user))
    BY FS_Subset DEF IInv, RowsHold, Counted
  <1>5. IsFiniteSet(used) /\ Cardinality(used) <= Cardinality(Counted(user))
    BY <1>3, <1>4, FS_Injection
  <1> QED
    BY <1>4, <1>5, FS_CardinalityType

LEMMA LedgerInit == Init => Ledger!Init
  BY DEF Init, Ledger!Init, Ledger!Slot, SlotState

slots == [u \in Uploads |-> [user |-> upload[u].user, state |-> SlotState(u)]]

\* A step that moves the slot of u alone.
LEMMA SlotsMove ==
    ASSUME IInv, IInv', Step, NEW u \in Uploads,
           \A v \in Uploads \ {u} : SlotState(v)' = SlotState(v)
    PROVE  slots' = [slots EXCEPT ![u].state = SlotState(u)']
  <1>1. \A v \in Uploads : upload'[v].user = upload[v].user
    BY TicketsStay
  <1> QED
    BY <1>1 DEF slots

\* The rows of the other uploads stay.
LEMMA OthersStay ==
    ASSUME IInv, Step, NEW u \in Uploads,
           \/ resources' = resources \cup {Ticket(u)}
           \/ resources' = resources \ {Ticket(u)}
           \/ resources' = (resources \ {Ticket(u)}) \cup {DocumentRow(u)}
    PROVE  \A v \in Uploads \ {u} : Held(v)' = Held(v) /\ Filled(v)' = Filled(v)
  <1> SUFFICES ASSUME NEW v \in Uploads, v # u
               PROVE  Held(v)' = Held(v) /\ Filled(v)' = Filled(v)
    OBVIOUS
  <1>1. /\ Ticket(u).kind = "upload" /\ DocumentRow(u).kind = "document"
        /\ DocumentRow(u).id[1] = u
        /\ Ticket(v) # Ticket(u) /\ Ticket(v).kind = "upload" /\ Ticket(v)' = Ticket(v)
    BY TicketsStay DEF Ticket, DocumentRow, FileOf
  <1>2. Held(v)' <=> Held(v)
    BY <1>1 DEF Held
  <1>3. Filled(v)' <=> Filled(v)
    BY <1>1 DEF Filled
  <1> QED
    BY <1>2, <1>3 DEF Held, Filled

LEMMA LedgerNext ==
    ASSUME IInv, IInv', Step
    PROVE  [Ledger!Next]_slots
  <1>1. Slots /\ Slots'
    BY SlotStates, PTL DEF IInv
  <1>2. \A u \in Uploads : Filled(u) => Ingested(u, "created")
    BY DEF IInv, RowsHold, Filled
  <1>3. ASSUME NEW u \in Uploads, Reserved(u), ReserveTicket(u),
               resources' = resources \cup {Ticket(u)}
        PROVE  Ledger!Take(u)
    <2>1. SlotState(u) = "none" /\ SlotState(u)' = "held"
      <3>1. At(u, "scoped") /\ ~Held(u) /\ Ingesting(u, "idle")
        BY <1>3 DEF Reserved, IInv, HandlersHold, Held, At
      <3>2. ~Filled(u) /\ Held(u)'
        BY <1>2, <1>3, <3>1, TicketsStay DEF Held, Ingested, Ingesting
      <3> QED
        BY <1>1, <3>1, <3>2 DEF Slots
    <2>2. \A v \in Uploads \ {u} : SlotState(v)' = SlotState(v)
      BY <1>1, <1>3, OthersStay DEF Slots
    <2>3. slots' = [slots EXCEPT ![u].state = "held"]
      BY <2>1, <2>2, SlotsMove
    <2>4. upload[u].user \in Users /\ Cardinality(Counted(upload[u].user)) < Limit
      BY <1>3 DEF ReserveTicket, IInv, TypeOK, Handler
    <2>5. Ledger!Used(upload[u].user) =
             {v \in Uploads : upload[v].user = upload[u].user /\ SlotState(v) # "none"}
      BY DEF Ledger!Used
    <2>6. Ledger!Cardinality(Ledger!Used(upload[u].user)) < Limit
      <3> DEFINE used == {v \in Uploads : upload[v].user = upload[u].user /\ SlotState(v) # "none"}
      <3>1. Ledger!Cardinality(used) = Cardinality(used)
        BY DEF Ledger!Cardinality, Cardinality
      <3>2. /\ Cardinality(used) <= Cardinality(Counted(upload[u].user))
            /\ Cardinality(used) \in Nat /\ Cardinality(Counted(upload[u].user)) \in Nat
        BY <2>4, UsedIsCounted
      <3> QED
        BY <2>4, <2>5, <3>1, <3>2, LimitAssumption
    <2> QED
      BY <2>1, <2>3, <2>6 DEF Ledger!Take, slots
  <1>4. ASSUME NEW u \in Uploads, At(u, "releasing"), Ticket(u) \in resources,
               resources' = resources \ {Ticket(u)}
        PROVE  Ledger!GiveBack(u)
    <2>1. SlotState(u) = "held" /\ SlotState(u)' = "none"
      <3>1. ~Ingested(u, "created")
        BY <1>4 DEF IInv, HandlersHold, Quiet, Ingested, Ingesting
      <3>2. Held(u) /\ ~Held(u)' /\ ~Filled(u)'
        BY <1>2, <1>4, <3>1, TicketsStay DEF Held, Filled
      <3> QED
        BY <1>1, <3>2 DEF Slots
    <2>2. \A v \in Uploads \ {u} : SlotState(v)' = SlotState(v)
      BY <1>1, <1>4, OthersStay DEF Slots
    <2> QED
      BY <2>1, <2>2, SlotsMove DEF Ledger!GiveBack, slots
  <1>5. ASSUME NEW u \in Uploads, At(u, "finishing"), Ticket(u) \in resources,
               resources' = (resources \ {Ticket(u)}) \cup {DocumentRow(u)}
        PROVE  Ledger!Fill(u)
    <2>1. SlotState(u) = "held" /\ SlotState(u)' = "filled"
      <3>1. /\ Ticket(u).kind = "upload" /\ DocumentRow(u).kind = "document"
            /\ DocumentRow(u).id[1] = u
        BY DEF Ticket, DocumentRow, FileOf
      <3>2. Held(u) /\ ~Held(u)' /\ Filled(u)'
        BY <1>5, <3>1, TicketsStay DEF Held, Filled
      <3> QED
        BY <1>1, <3>2 DEF Slots
    <2>2. \A v \in Uploads \ {u} : SlotState(v)' = SlotState(v)
      BY <1>1, <1>5, OthersStay DEF Slots
    <2> QED
      BY <2>1, <2>2, SlotsMove DEF Ledger!Fill, slots
  <1>6. CASE \A u \in Uploads : Held(u)' = Held(u) /\ Filled(u)' = Filled(u)
    BY <1>1, <1>6, TicketsStay DEF Slots, slots
  <1>7. CASE UNCHANGED resources \/ \E r : r.kind = "session" /\ resources' = resources \cup {r}
    <2>1. \A u \in Uploads : Ticket(u).kind = "upload" /\ Ticket(u)' = Ticket(u)
      BY TicketsStay DEF Ticket
    <2>2. \A u \in Uploads : (Held(u)' <=> Held(u)) /\ (Filled(u)' <=> Filled(u))
      BY <1>7, <2>1 DEF Held, Filled
    <2>3. \A u \in Uploads : Held(u)' = Held(u) /\ Filled(u)' = Filled(u)
      BY <2>2 DEF Held, Filled
    <2> QED
      BY <1>6, <2>3
  <1> QED
    BY <1>3, <1>4, <1>5, <1>7, RowsChange DEF Ledger!Next

\* The upload handlers move slots as UploadLedger says.
THEOREM UploadsImplementLedger == Spec => ImplementsUploadLedger
  <1>1. IInv /\ IInv' /\ [Next]_vars => [Ledger!Next]_slots
    <2> SUFFICES ASSUME IInv, IInv', [Next]_vars PROVE [Ledger!Next]_slots
      OBVIOUS
    <2>1. Step \/ UNCHANGED <<documents, ingest, resources, upload>>
      BY Condensed DEF IInv
    <2>2. CASE UNCHANGED <<documents, ingest, resources, upload>>
      BY <2>2 DEF slots, SlotState
    <2> QED
      BY <2>1, <2>2, LedgerNext
  <1> QED
    BY <1>1, LedgerInit, UploadInvariant, PTL DEF Spec, ImplementsUploadLedger, Ledger!Spec, slots

=============================================================================
