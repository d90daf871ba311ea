------------------------- MODULE DocumentIngestion -------------------------
(***************************************************************************)
(* The backend's side of an upload: upload_document of                     *)
(* app/api/v1/documents.py and ingest_document of                          *)
(* app/services/document_ingestion.py.  Each request writes a file, then   *)
(* stores its document and chunks in one transaction, and removes the file *)
(* when an exception comes by.  What is flushed before the commit is seen  *)
(* by nobody, so it and the commit are one step.                           *)
(***************************************************************************)
EXTENDS Chunking

CONSTANTS
    Uploads,      \* uploads of clients; the gateway may send one repeatedly
    Sessions, NoSession,
    WakeAttempts, \* WAKE_ATTEMPTS of the gateway: requests per upload
    Texts,        \* the page lengths a file may turn out to have
    MaxFaults     \* bound on faults and restarts of either service

ASSUME IngestionAssumption ==
    /\ NoSession \notin Sessions
    /\ WakeAttempts \in Nat \ {0} /\ MaxFaults \in Nat
    /\ Texts \subseteq Seq(Nat)

VARIABLES
    sessions,     \* committed rows of sessions
    documents,    \* committed rows of documents
    files,        \* the upload directory
    ingest,       \* per upload: the request the backend works on
    faults

backend == <<sessions, documents, files, ingest, faults>>

\* Every request makes a document and a file of its own.
DocumentIds == Uploads \X (1..WakeAttempts)
Document == [id : DocumentIds, session : Sessions \cup {NoSession}]

\* HTTP: 201, 4xx, the backend's own 502, any other 500; and a 500 raised by
\* path.write_bytes, before the try block.
Answers == {"none", "created", "rejected", "upstream", "broken", "unwritten"}

Places == {"idle", "received", "written", "chunked", "stored", "answered", "crashed"}

Request == [pc : Places, number : 0..WakeAttempts, session : Sessions \cup {NoSession},
            pages : Texts \cup {<<>>}, answer : Answers]

Idle == [pc |-> "idle", number |-> 0, session |-> NoSession,
         pages |-> <<>>, answer |-> "none"]

FileOf(u) == <<u, ingest[u].number>>
Ingesting(u, place) == ingest[u].pc = place
Ingested(u, answer) == Ingesting(u, "answered") /\ ingest[u].answer = answer

Fault == faults < MaxFaults /\ faults' = faults + 1

\* The request goes on, with the pages among its locals.
Proceed(u, place, pages) ==
    ingest' = [ingest EXCEPT ![u] = [pc |-> place, number |-> @.number,
                   session |-> @.session, pages |-> pages, answer |-> "none"]]

\* The response is sent; the locals are gone.
Respond(u, answer) ==
    ingest' = [ingest EXCEPT ![u] = [pc |-> "answered", number |-> @.number,
                   session |-> NoSession, pages |-> <<>>, answer |-> answer]]

-----------------------------------------------------------------------------

Receive(u, session) ==
    /\ Ingesting(u, "idle") /\ ingest[u].number < WakeAttempts
    /\ ingest' = [ingest EXCEPT ![u] = [pc |-> "received", number |-> @.number + 1,
                      session |-> session, pages |-> <<>>, answer |-> "none"]]
    /\ UNCHANGED <<sessions, documents, files, faults>>

\* require_session, the API key, the MIME type or the size.
Reject(u) ==
    /\ Ingesting(u, "received")
    /\ Respond(u, "rejected")
    /\ UNCHANGED <<sessions, documents, files, faults>>

WriteFile(u) ==
    /\ Ingesting(u, "received")
    /\ ingest[u].session \in sessions \cup {NoSession}
    /\ files' = files \cup {FileOf(u)}
    /\ Proceed(u, "written", <<>>)
    /\ UNCHANGED <<sessions, documents, faults>>

\* The disk is full: part of the file may stay.
WriteFails(u) ==
    /\ Ingesting(u, "received")
    /\ ingest[u].session \in sessions \cup {NoSession}
    /\ Fault
    /\ \E left \in {{}, {FileOf(u)}} : files' = files \cup left
    /\ Respond(u, "unwritten")
    /\ UNCHANGED <<sessions, documents>>

\* extract_pages, and chunk_text finds some text.
Extract(u) ==
    /\ Ingesting(u, "written")
    /\ \E pages \in Texts :
          /\ ChunkRecords(pages) # <<>>
          /\ Proceed(u, "chunked", pages)
    /\ UNCHANGED <<sessions, documents, files, faults>>

\* Mutant: the file of a failed upload is kept.
UndoKeepsFile(u, answer) ==
    /\ UNCHANGED files
    /\ Respond(u, answer)

\* The two handlers of an exception: rollback, then unlink.
Undo(u, answer) ==
    /\ files' = files \ {FileOf(u)}
    /\ Respond(u, answer)

\* No readable text (400), an unreadable file (500); then Gemini rejects the
\* key (401), fails (502), or returns something unexpected.
IngestFails(u) ==
    /\ \/ Ingesting(u, "written") /\ \E answer \in {"rejected", "broken"} : Undo(u, answer)
       \/ /\ Ingesting(u, "chunked")
          /\ \E answer \in {"rejected", "upstream", "broken"} : Undo(u, answer)
    /\ UNCHANGED <<sessions, documents, faults>>

\* The document as the transaction commits it; chunks are not read again here.
Row(u) == [id |-> FileOf(u), session |-> ingest[u].session]

Store(u) ==
    /\ Ingesting(u, "chunked")
    /\ documents' = documents \cup {Row(u)}
    /\ Proceed(u, "stored", <<>>)
    /\ UNCHANGED <<sessions, files, faults>>

\* A statement or the commit fails, or the commit's answer is lost.
StoreFails(u) ==
    /\ Ingesting(u, "chunked") /\ Fault
    /\ \E stored \in {{}, {Row(u)}} : documents' = documents \cup stored
    /\ Undo(u, "broken")
    /\ UNCHANGED sessions

\* db.refresh, and the response.
Refresh(u) ==
    /\ Ingesting(u, "stored")
    /\ Respond(u, "created")
    /\ UNCHANGED <<sessions, documents, files, faults>>

\* It fails after the commit: the rollback has nothing to undo, unlink has.
RefreshFails(u) ==
    /\ Ingesting(u, "stored") /\ Fault
    /\ Undo(u, "broken")
    /\ UNCHANGED <<sessions, documents>>

\* The backend stops: transactions are rolled back, files stay.
BackendRestart ==
    /\ Fault
    /\ ingest' = [u \in Uploads |->
           IF ingest[u].pc \in {"idle", "answered", "crashed"} THEN ingest[u]
           ELSE [pc |-> "crashed", number |-> ingest[u].number,
                 session |-> NoSession, pages |-> <<>>, answer |-> "none"]]
    /\ UNCHANGED <<sessions, documents, files>>

\* create_session commits at once.
StoreSession(s) ==
    /\ sessions' = sessions \cup {s}
    /\ UNCHANGED <<documents, files, ingest, faults>>

IngestStep(u) ==
    \/ Reject(u) \/ WriteFile(u) \/ WriteFails(u) \/ Extract(u) \/ IngestFails(u)
    \/ Store(u) \/ StoreFails(u) \/ Refresh(u) \/ RefreshFails(u)

IngestInit ==
    /\ sessions = {} /\ documents = {} /\ files = {}
    /\ ingest = [u \in Uploads |-> Idle]
    /\ faults = 0

\* guards.py: require_session and validate_document_scope raise no 404.
InBackendScope(ids, session) ==
    /\ session \in sessions \cup {NoSession}
    /\ \A id \in ids : \E d \in documents :
          d.id = id /\ (session # NoSession => d.session = session)

=============================================================================
