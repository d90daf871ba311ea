---------------------------- MODULE AnswerStream ----------------------------
(***************************************************************************)
(* A streamed answer end to end: a run of the backend (BackendRun), its    *)
(* events as bytes cut anywhere (SseFraming), and the loop of query_stream *)
(* in gateway/main.py that reads them.  QueryLifecycle takes from here     *)
(* what it assumes of a run and of the events that arrive.                 *)
(***************************************************************************)
EXTENDS BackendRun, SseFraming

VARIABLES
    lineEnd,
    received,     \* bytes of the stream received
    buffer,       \* local of iter_events
    held,         \* the half character in the decoder
    parsed,       \* events iter_events has yielded
    reader        \* the gateway's end of the stream

gateway == <<lineEnd, received, buffer, held, parsed, reader>>
vars == <<backend, gateway>>

\* "empty", "malformed", "oversized", "left" and "ended" are exceptions: the
\* client sees an interrupted stream.
Readers == {"reading", "completed", "released", "empty", "malformed", "oversized", "left", "ended"}

TypeOK ==
    /\ lineEnd \in LineEnds
    /\ received \in 0..Len(Wire(sent, lineEnd))
    /\ held \in {<<>>, <<"lead">>}
    /\ reader \in Readers

Init ==
    /\ RunInit
    /\ lineEnd \in LineEnds
    /\ received = 0 /\ buffer = <<>> /\ held = <<>> /\ parsed = <<>>
    /\ reader = "reading"

Reading == reader = "reading"
Stop(outcome) ==
    reader' = outcome /\ received' = 0 /\ buffer' = <<>> /\ held' = <<>>

\* Some bytes arrive, after the frames of those before them have been read.
Receive ==
    /\ Reading /\ ~HasFrame(buffer) /\ Characters(buffer) <= MaxFrame
    /\ \E n \in received + 1 .. Len(Wire(sent, lineEnd)) :
          LET bytes == held \o SubSeq(Wire(sent, lineEnd), received + 1, n)
              whole == WholeCharacters(bytes)
          IN  /\ received' = n
              /\ buffer' = buffer \o SubSeq(bytes, 1, whole)
              /\ held' = SubSeq(bytes, whole + 1, Len(bytes))
    /\ UNCHANGED <<backend, lineEnd, parsed, reader>>

\* saw_text
SawText == \E i \in DOMAIN Text(parsed) : Text(parsed)[i] # "blank"

\* The gateway's part of the loop: error and done end it.
Handle(event, rest) ==
    /\ parsed' = Append(parsed, event)
    /\ CASE event.name = "error" -> Stop("released")
         [] event.name = "done"  -> Stop(IF SawText THEN "completed" ELSE "empty")
         [] OTHER                -> buffer' = rest /\ UNCHANGED <<received, held, reader>>

\* One turn of the inner loop of iter_events.
ReadFrame ==
    /\ Reading /\ HasFrame(buffer)
    /\ LET split == Split(buffer) IN
       IF Characters(split.frame) > MaxFrame THEN Stop("oversized") /\ UNCHANGED parsed
       ELSE IF ~Intact(split.frame) THEN Stop("malformed") /\ UNCHANGED parsed
       ELSE Handle(Read(split.frame), split.rest)
    /\ UNCHANGED <<backend, lineEnd>>

\* Mutant: the test is made before the loop.
OverflowFirst ==
    /\ Reading /\ Characters(buffer) > MaxFrame
    /\ Stop("oversized")
    /\ UNCHANGED <<backend, lineEnd, parsed>>

\* The test after the loop.
Overflow ==
    /\ Reading /\ ~HasFrame(buffer) /\ Characters(buffer) > MaxFrame
    /\ Stop("oversized")
    /\ UNCHANGED <<backend, lineEnd, parsed>>

\* Mutant: frames that are left are not read.
EndOfStreamEarly ==
    /\ Reading /\ Characters(buffer) <= MaxFrame
    /\ At("ended") /\ http = "200" /\ Streams
    /\ received = Len(Wire(sent, lineEnd))
    /\ reader' = "ended"
    /\ UNCHANGED <<backend, lineEnd, received, buffer, held, parsed>>

\* The end of the response: nothing may be left, and done has not come.
EndOfStream ==
    /\ Reading /\ ~HasFrame(buffer) /\ Characters(buffer) <= MaxFrame
    /\ At("ended") /\ http = "200" /\ Streams
    /\ received = Len(Wire(sent, lineEnd))
    /\ reader' = "ended"
    /\ UNCHANGED <<backend, lineEnd, received, buffer, held, parsed>>

\* The client goes, the timeout fires or the connection breaks.
Leave ==
    /\ Reading /\ http = "200" /\ Streams
    /\ Stop("left")
    /\ UNCHANGED <<backend, lineEnd, parsed>>

Next ==
    \/ RunStep /\ UNCHANGED gateway
    \/ Cancel /\ ~Reading /\ UNCHANGED gateway
    \/ Receive \/ ReadFrame \/ Overflow \/ EndOfStream \/ Leave

Spec == Init /\ [][Next]_vars

-----------------------------------------------------------------------------
(* Properties *)

\* The events read are those sent, in order, and all of them whose frames have
\* arrived, wherever the network cuts the bytes: inside an end of line, between
\* the two line ends or inside a character.  At a regular end nothing is left.
ParsedIsReceived ==
    /\ IsPrefix(parsed, sent)
    /\ Reading /\ ~HasFrame(buffer) =>
          \A n \in DOMAIN sent :
              Len(Wire(SubSeq(sent, 1, n), lineEnd)) <= received => n <= Len(parsed)
    /\ reader = "ended" => parsed = sent /\ buffer = <<>> /\ held = <<>>

\* The frame the parser stopped at.
Offending == Frame(sent[Len(parsed) + 1], lineEnd)

\* The frame without its end is over the limit; or it comes so near to it that
\* it is over with all but the last byte of its end, if that is where it is cut.
Oversized ==
    reader = "oversized" /\ Len(sent) > Len(parsed) /\ Characters(Offending) - 1 > MaxFrame

\* iter_events gives up on no event but an oversized one: "the existing
\* backend's named JSON SSE contract" (gateway/streaming.py:1).
OnlyOversizedRefused == reader \in {"malformed", "oversized"} => Oversized

\* It gives up on an event only if it is oversized or its text has a separator.
RefusalsExplained ==
    /\ reader = "oversized" => Oversized
    /\ reader = "malformed" => "separator" \in ToSet(Offending)

\* What the gateway tells its client of a run is so: after done the answer it
\* has relayed is recorded, and a released allowance was not for an answer,
\* unless the answer of its commit was lost (main.py:286-297).  ImplementsRun
\* and ConversationMatchesRun leave no other case; it is proved, not run.
RelayedIsRecorded ==
    /\ reader = "completed" =>
          /\ run = "completed"
          /\ request.session => messages[2].text = Text(parsed)
    /\ reader = "released" => run # "completed" \/ lost

\* The run as its caller may know it.
RunState ==
    IF run = "completed" THEN (IF lost THEN "lost" ELSE "completed")
    ELSE IF pc \in {"failed", "ended"} THEN "failed"
    ELSE IF At("posted") THEN "none"
    ELSE "running"

\* How the reading of a stream ends.
ReadAs ==
    CASE Reading              -> "nothing"
      [] reader = "completed" -> "done"
      [] reader = "released"  -> "error"
      [] OTHER                -> "broken"

\* A response other than 200, the JSON answer, or how the stream was read.
RunTold ==
    CASE http \in {"401", "404", "502"} -> "declined"
      [] http = "500"                   -> "broken"
      [] http = "none"                  -> "nothing"
      [] http = "200" /\ ~Streams       -> "done"
      [] http = "200" /\ Streams        -> ReadAs

\* The backend and the gateway's reader together do what QueryLifecycle takes
\* for granted: an answer is announced only after its commit and to the end,
\* a refusal only of a run that has none and gets none, an error event of such
\* a run or of one whose commit was not confirmed (document_agent.py:116-206,
\* main.py:286-297).
Agent == INSTANCE AgentRun WITH state <- RunState, told <- RunTold
ImplementsRun == Agent!Spec

-----------------------------------------------------------------------------
(* The inductive invariant of the proofs *)

Bytes == Names \cup Symbols \cup {"LF", "CR", "open", "close"}

\* What has been received is what has been parsed, followed by the buffer and
\* the half character in the decoder.
Follows ==
    /\ parsed \in Seq(Events) /\ IsPrefix(parsed, sent)
    /\ Reading => /\ buffer \in Seq(Bytes)
                  /\ Wire(parsed, lineEnd) \o buffer \o held
                        = SubSeq(Wire(sent, lineEnd), 1, received)

\* done and error are the last event, sent when the run has ended.
LastIsLast ==
    \A i \in DOMAIN sent :
        /\ Streams
        /\ sent[i].name \in {"done", "error"} => i = Len(sent) /\ At("ended")

\* What the end of the stream at the gateway says of the run.
ReaderTells ==
    /\ reader \in {"completed", "ended"} => At("ended") /\ parsed = sent
    /\ reader = "completed" => Streams /\ run = "completed" /\ ~lost
    /\ reader = "released" => At("ended") /\ (run # "completed" \/ lost)
    /\ reader = "ended" => buffer = <<>> /\ held = <<>>
    /\ reader = "malformed" => Len(sent) > Len(parsed)
    /\ ~Reading => http = "200" /\ Streams

StreamInv ==
    TypeOK /\ RunInv /\ Follows /\ LastIsLast /\ ReaderTells /\ RefusalsExplained

=============================================================================
