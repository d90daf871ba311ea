-------------------------- MODULE DocumentUploads --------------------------
(***************************************************************************)
(* Who owns what: the upload and session handlers of gateway/main.py, the  *)
(* transactions of gateway/store.py they use (own, check_scope,            *)
(* reserve_upload, finish_upload), and the backend they call.  Every       *)
(* transaction runs under the user's row lock and is atomic here, as       *)
(* RequestStore shows for reserve and finish.                              *)
(***************************************************************************)
EXTENDS DocumentIngestion

CONSTANTS
    Users,
    Limit         \* GATEWAY_MAX_DOCUMENTS_PER_USER

ASSUME LimitAssumption == Limit \in Nat \ {0}

VARIABLES
    resources,    \* rows of gateway_resources
    upload,       \* per upload: its handler and what the client was told
    opening       \* per POST /sessions (named like its session): its handler

gateway == <<resources, upload, opening>>
vars == <<backend, gateway>>

Resource ==
    [kind : {"session"}, id : Sessions, subject : Users, session : {NoSession}]
    \cup [kind : {"upload"}, id : Uploads, subject : Users, session : Sessions \cup {NoSession}]
    \cup [kind : {"document"}, id : DocumentIds, subject : Users, session : Sessions \cup {NoSession}]

\* Before check_scope; before reserve_upload; awaiting the backend; before
\* finish_upload with a document, or without one; after the response.
Stages == {"new", "scoped", "sending", "finishing", "releasing", "closed"}

\* "unknown" is the 502 of backend_json, "unavailable" the 503 of an
\* unexpected exception.
Told == {"nothing", "refused", "created", "rejected", "unknown", "unavailable"}

Handler == [pc : Stages, user : Users, session : Sessions \cup {NoSession},
            attempt : 1..WakeAttempts, told : Told]

TypeOK ==
    /\ sessions \subseteq Sessions
    /\ documents \subseteq Document
    /\ files \subseteq DocumentIds
    /\ ingest \in [Uploads -> Request]
    /\ faults \in 0..MaxFaults
    /\ resources \subseteq Resource
    /\ upload \in [Uploads -> Handler]
    /\ opening \in [Sessions -> [pc : {"new", "stored", "closed"}, user : Users]]

Init ==
    /\ IngestInit
    /\ resources = {}
    /\ upload \in [Uploads ->
           [pc : {"new"}, user : Users, session : Sessions \cup {NoSession},
            attempt : {1}, told : {"nothing"}]]
    /\ opening \in [Sessions -> [pc : {"new"}, user : Users]]

At(u, place) == upload[u].pc = place
Goto(u, place) == upload' = [upload EXCEPT ![u].pc = place]

\* The response; the replays are over.
Close(u, told) ==
    upload' = [upload EXCEPT ![u] = [pc |-> "closed", user |-> @.user, session |-> @.session,
                   attempt |-> 1, told |-> told]]

-----------------------------------------------------------------------------
(* The store *)

\* Mutant: a document of the user is enough, whatever its session.
InScopeAnySession(user, ids, session) ==
    /\ session # NoSession =>
          \E r \in resources : r.kind = "session" /\ r.id = session /\ r.subject = user
    /\ \A id \in ids : \E r \in resources :
          r.kind = "document" /\ r.id = id /\ r.subject = user

\* check_scope: the ids and the session are the user's, and the documents are
\* the session's (policy.py, validate_owned_resources).
InScope(user, ids, session) ==
    LET Owns(kind, id) ==
            {r \in resources : r.kind = kind /\ r.id = id /\ r.subject = user}
    IN  /\ session # NoSession => Owns("session", session) # {}
        /\ \A id \in ids : \E r \in Owns("document", id) :
              session # NoSession => r.session = session

\* Documents and upload reservations count alike.
Counted(user) ==
    {r \in resources : r.subject = user /\ r.kind \in {"document", "upload"}}

Ticket(u) == [kind |-> "upload", id |-> u, subject |-> upload[u].user,
              session |-> upload[u].session]

\* Mutant: a reservation does not count.
ReserveTicketUncounted(u) ==
    /\ Cardinality({r \in Counted(upload[u].user) : r.kind = "document"}) < Limit
    /\ resources' = resources \cup {Ticket(u)}

\* Mutant: > instead of >=.
ReserveTicketOneMore(u) ==
    /\ Cardinality(Counted(upload[u].user)) <= Limit
    /\ resources' = resources \cup {Ticket(u)}

ReserveTicket(u) ==
    /\ Cardinality(Counted(upload[u].user)) < Limit
    /\ resources' = resources \cup {Ticket(u)}

\* Mutant: two transactions, of which the INSERT's may fail.
FinishUploadTorn(u, ids) ==
    \E r \in resources :
        /\ r.kind = "upload" /\ r.id = u /\ r.subject = upload[u].user
        /\ \E inserted \in {{}, ids} :
              resources' = (resources \ {r}) \cup
                  {[kind |-> "document", id |-> id, subject |-> r.subject,
                    session |-> r.session] : id \in inserted}

\* finish_upload: delete the ticket and, given a document, insert it with the
\* ticket's session.  A missing ticket would raise RuntimeError.
FinishUpload(u, ids) ==
    \E r \in resources :
        /\ r.kind = "upload" /\ r.id = u /\ r.subject = upload[u].user
        /\ resources' = (resources \ {r}) \cup
               {[kind |-> "document", id |-> id, subject |-> r.subject,
                 session |-> r.session] : id \in ids}

-----------------------------------------------------------------------------
(* The upload handler *)

\* check_scope and the checks of type and size.
CheckScope(u) ==
    /\ At(u, "new")
    /\ InScope(upload[u].user, {}, upload[u].session)
    /\ Goto(u, "scoped")
    /\ UNCHANGED <<backend, resources, opening>>

\* Mutant: nothing answers an upload over the allowance.
RefuseScope(u) ==
    /\ At(u, "new")
    /\ Close(u, "refused")
    /\ UNCHANGED <<backend, resources, opening>>

\* One of them fails, or the allowance of documents is reached.
Refuse(u) ==
    /\ \/ At(u, "new")
       \/ At(u, "scoped") /\ Cardinality(Counted(upload[u].user)) >= Limit
    /\ Close(u, "refused")
    /\ UNCHANGED <<backend, resources, opening>>

Reserve(u) ==
    /\ At(u, "scoped")
    /\ ReserveTicket(u)
    /\ Goto(u, "sending")
    /\ UNCHANGED <<backend, opening>>

\* The transaction fails, or its answer is lost: no one will finish it.
ReserveFails(u) ==
    /\ At(u, "scoped") /\ Fault
    /\ UNCHANGED resources \/ ReserveTicket(u)
    /\ Close(u, "unavailable")
    /\ UNCHANGED <<sessions, documents, files, ingest, opening>>

\* The request reaches the backend, perhaps when the gateway has given up.
Arrive(u) ==
    /\ At(u, "sending") \/ upload[u].told = "unknown"
    /\ Receive(u, upload[u].session)
    /\ UNCHANGED gateway

\* Mutant: any 5xx is replayed.
ReplayBroken(u) ==
    /\ At(u, "sending") /\ upload[u].attempt < WakeAttempts
    /\ Ingesting(u, "idle") \/ Ingested(u, "upstream") \/ Ingested(u, "broken")
    /\ upload' = [upload EXCEPT ![u].attempt = @ + 1]
    /\ Proceed(u, "idle", <<>>)
    /\ UNCHANGED <<sessions, documents, files, faults, resources, opening>>

\* 502, 503 or 504 with attempts left: of the backend itself, or from the edge
\* while it wakes, which main.py:23-26 takes for a request it has not reached.
Replay(u) ==
    /\ At(u, "sending") /\ upload[u].attempt < WakeAttempts
    /\ Ingesting(u, "idle") \/ Ingested(u, "upstream")
    /\ upload' = [upload EXCEPT ![u].attempt = @ + 1]
    /\ Proceed(u, "idle", <<>>)
    /\ UNCHANGED <<sessions, documents, files, faults, resources, opening>>

\* Mutant: the status of the response is not looked at.
CreatedUnchecked(u) ==
    /\ At(u, "sending") /\ Ingesting(u, "answered")
    /\ Goto(u, "finishing")
    /\ UNCHANGED <<backend, resources, opening>>

Created(u) ==
    /\ At(u, "sending") /\ Ingested(u, "created")
    /\ Goto(u, "finishing")
    /\ UNCHANGED <<backend, resources, opening>>

\* Mutant: an upstream failure releases the ticket as a rejection does.
RejectedUnknown(u) ==
    /\ At(u, "sending")
    /\ ingest[u].pc \in {"idle", "crashed"} \/ Ingested(u, "rejected") \/ Ingested(u, "broken")
    /\ Goto(u, "releasing")
    /\ UNCHANGED <<backend, resources, opening>>

\* A 4xx, of the backend or of what stands before it.
Rejected(u) ==
    /\ At(u, "sending")
    /\ Ingesting(u, "idle") \/ Ingested(u, "rejected")
    /\ Goto(u, "releasing")
    /\ UNCHANGED <<backend, resources, opening>>

\* A 5xx, a lost connection, the timeout or an invalid body: 502, and the
\* ticket is kept.
GiveUp(u) ==
    /\ At(u, "sending")
    /\ Close(u, "unknown")
    /\ UNCHANGED <<backend, resources, opening>>

Finish(u) ==
    /\ \/ At(u, "finishing") /\ FinishUpload(u, {FileOf(u)}) /\ Close(u, "created")
       \/ At(u, "releasing") /\ FinishUpload(u, {}) /\ Close(u, "rejected")
    /\ UNCHANGED <<backend, opening>>

FinishFails(u) ==
    /\ upload[u].pc \in {"finishing", "releasing"} /\ Fault
    /\ \/ UNCHANGED resources
       \/ FinishUpload(u, IF At(u, "finishing") THEN {FileOf(u)} ELSE {})
    /\ Close(u, "unavailable")
    /\ UNCHANGED <<sessions, documents, files, ingest, opening>>

-----------------------------------------------------------------------------
(* create_session.  Replays reach the backend once and change nothing. *)

Move(s, place) == opening' = [opening EXCEPT ![s].pc = place]

OpenSession(s) ==
    /\ opening[s].pc = "new"
    /\ StoreSession(s)
    /\ Move(s, "stored")
    /\ UNCHANGED <<resources, upload>>

OwnSession(s) == resources' = resources \cup
    {[kind |-> "session", id |-> s, subject |-> opening[s].user, session |-> NoSession]}

\* Mutant: the session is owned before the backend has created it.
OwnFirst(s) ==
    /\ opening[s].pc # "closed"
    /\ OwnSession(s)
    /\ Move(s, "closed")
    /\ UNCHANGED <<backend, upload>>

Own(s) ==
    /\ opening[s].pc = "stored"
    /\ OwnSession(s)
    /\ Move(s, "closed")
    /\ UNCHANGED <<backend, upload>>

\* The response is lost, or own fails with its row lost or committed.
LoseSession(s) ==
    /\ opening[s].pc = "stored"
    /\ \/ UNCHANGED <<resources, faults>>
       \/ Fault /\ (UNCHANGED resources \/ OwnSession(s))
    /\ Move(s, "closed")
    /\ UNCHANGED <<sessions, documents, files, ingest, upload>>

-----------------------------------------------------------------------------

\* The gateway stops with its handlers; a client without an answer sees its
\* connection end.
GatewayRestart ==
    /\ Fault
    /\ upload' = [u \in Uploads |->
           IF At(u, "new") THEN upload[u]
           ELSE [pc |-> "closed", user |-> upload[u].user, session |-> upload[u].session,
                 attempt |-> 1,
                 told |-> IF At(u, "sending") THEN "unknown" ELSE upload[u].told]]
    /\ opening' = [s \in Sessions |-> IF opening[s].pc = "new" THEN opening[s]
                                      ELSE [opening[s] EXCEPT !.pc = "closed"]]
    /\ UNCHANGED <<sessions, documents, files, ingest, resources>>

\* What a handler does by itself; GiveUp is its timeout.
Handle(u) ==
    \/ CheckScope(u) \/ Refuse(u) \/ Reserve(u) \/ ReserveFails(u)
    \/ Created(u) \/ Rejected(u) \/ GiveUp(u) \/ Finish(u) \/ FinishFails(u)

Next ==
    \/ \E u \in Uploads :
          \/ Handle(u) \/ Arrive(u) \/ Replay(u)
          \/ IngestStep(u) /\ UNCHANGED gateway
    \/ \E s \in Sessions : OpenSession(s) \/ Own(s) \/ LoseSession(s)
    \/ BackendRestart /\ UNCHANGED gateway
    \/ GatewayRestart

Spec == Init /\ [][Next]_vars

\* The event loop runs every handler that can go on, and its timeout.
Fairness == \A u \in Uploads : WF_vars(Handle(u))

-----------------------------------------------------------------------------
(* Properties *)

\* The backend never holds more documents of a user than the gateway allows,
\* whatever was lost, replayed, timed out or restarted between the two: every
\* document an unfinished upload may have left is paid for by its ticket
\* (store.py:44-46, main.py:224-228).
StoredWithinLimit ==
    \A user \in Users :
        Cardinality({d \in documents : upload[d.id[1]].user = user}) <= Limit

\* A document of the backend that nobody owns still has the ticket of its
\* upload, so that an operator can find it (GATEWAY_SETUP.md:155-157).
OrphansHaveTickets ==
    \A d \in documents : \E r \in resources :
        \/ r.kind = "document" /\ r.id = d.id
        \/ r.kind = "upload" /\ r.id = d.id[1]

\* Ownership follows the backend: what a user owns exists there, the user
\* uploaded it, and both services agree on its session.
OwnedIsStored ==
    \A r \in resources :
        /\ r.kind = "session" => r.id \in sessions /\ opening[r.id].user = r.subject
        /\ r.kind = "document" =>
              /\ [id |-> r.id, session |-> r.session] \in documents
              /\ upload[r.id[1]].user = r.subject

\* The two scope checks agree: a request the gateway lets through, and
\* reserves an allowance for, is not refused by the backend with a 404 for
\* its session or its documents (policy.py:13-22, guards.py:8-31).
ScopesAgree ==
    \A user \in Users, session \in Sessions \cup {NoSession} :
        \A ids \in SUBSET {r.id : r \in {r \in resources : r.kind = "document"}} :
            InScope(user, ids, session) => InBackendScope(ids, session)

\* What the client is told of its upload is so, and stays so: 201 means that
\* the document is the user's, a 4xx that the backend has stored nothing and
\* will not, and both that the ticket is gone (main.py:219-228).
ToldIsTrue ==
    \A u \in Uploads :
        LET Kept   == \E r \in resources : r.kind = "upload" /\ r.id = u
            Stored == {d \in documents : d.id[1] = u}
        IN  /\ upload[u].told = "created" => ~Kept /\ \E r \in resources :
                  r.kind = "document" /\ r.id[1] = u /\ r.subject = upload[u].user
            /\ upload[u].told \in {"refused", "rejected"} => ~Kept /\ Stored = {}

\* An upload is stored once, although 502, 503 and 504 are replayed: none of
\* them comes after a commit (main.py:163-170, core/errors.py:24-26).
StoredOnce == \A d, e \in documents : d.id[1] = e.id[1] => d = e

\* No file stays behind a request that failed, unless the backend stopped or
\* could not write it: the file is there for a document that is committed
\* (documents.py:45-56).
FilesHaveDocuments ==
    \A f \in files :
        LET u == f[1] IN
        \/ f[2] = ingest[u].number
              /\ (Ingesting(u, "crashed") \/ Ingested(u, "unwritten")
                  \/ ingest[u].pc \in {"written", "chunked"})
        \/ \E d \in documents : d.id = f

\* The chunks that are embedded and stored cover the text (chunking.py).
ChunksCover ==
    \A u \in Uploads : Ingesting(u, "chunked") => Covers(ChunkRecords(ingest[u].pages), ingest[u].pages)

\* Every upload is answered: the ticket finish_upload deletes is always there,
\* and neither service waits for the other for ever.
UploadsEnd == \A u \in Uploads : At(u, "scoped") ~> At(u, "closed")

\* The handlers move slots as the abstract ledger does: a document takes the
\* place of its ticket in one step (store.py:49-54).
SlotState(u) ==
    IF \E r \in resources : r.kind = "upload" /\ r.id = u THEN "held"
    ELSE IF \E r \in resources : r.kind = "document" /\ r.id[1] = u THEN "filled"
    ELSE "none"

Ledger == INSTANCE UploadLedger WITH
    slots <- [u \in Uploads |-> [user |-> upload[u].user, state |-> SlotState(u)]]

ImplementsUploadLedger == Ledger!Spec

-----------------------------------------------------------------------------
(* The inductive invariant *)

Working(u) == ingest[u].pc \in {"received", "written", "chunked", "stored"}

\* Nothing of u is stored, and nothing will be.
Quiet(u) == Ingesting(u, "idle") \/ Ingested(u, "rejected")

Stored(u) == [id |-> FileOf(u), session |-> upload[u].session]

\* A row of the gateway tells of its upload.
RowsHold ==
    /\ IsFiniteSet(resources)
    /\ \A r \in resources :
          /\ r.kind = "upload" => r = Ticket(r.id)
          /\ r.kind = "document" =>
                LET u == r.id[1] IN
                r.id = FileOf(u) /\ r.subject = upload[u].user /\ Ingested(u, "created")

\* A document is of the last request of its upload, which is not repeated.
DocumentsHold ==
    \A d \in documents :
        LET u == d.id[1] IN
        /\ d = Stored(u)
        /\ \/ ingest[u].pc \in {"stored", "crashed"}
           \/ Ingested(u, "created") \/ Ingested(u, "broken")

\* What the places of the two handlers of an upload say of each other.
HandlersHold ==
    \A u \in Uploads :
        /\ ~Ingesting(u, "idle") => ingest[u].number > 0
        /\ Working(u) => ingest[u].session = upload[u].session
        /\ Ingesting(u, "stored") \/ Ingested(u, "created") => Stored(u) \in documents
        /\ upload[u].pc \in {"new", "scoped"} =>
              Ticket(u) \notin resources /\ Ingesting(u, "idle")
        /\ upload[u].pc # "closed" => upload[u].told = "nothing"
        /\ At(u, "releasing") => Quiet(u)
        /\ At(u, "finishing") => Ingested(u, "created")
        /\ upload[u].told \in {"refused", "rejected"} => Quiet(u)
        /\ upload[u].pc \in {"sending", "finishing", "releasing"}
              \/ upload[u].told = "unknown" \/ Working(u) => Ticket(u) \in resources

\* A session is stored before it is owned.
SessionsHold == \A s \in Sessions : opening[s].pc = "stored" => s \in sessions

CountsHold == \A user \in Users : Cardinality(Counted(user)) <= Limit

IInv ==
    /\ TypeOK /\ RowsHold /\ DocumentsHold /\ HandlersHold /\ SessionsHold /\ CountsHold
    /\ OrphansHaveTickets /\ ToldIsTrue /\ OwnedIsStored /\ FilesHaveDocuments

=============================================================================
