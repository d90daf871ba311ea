----------------------------- MODULE SseFraming -----------------------------
(***************************************************************************)
(* The stream between the two services: sse_event of                       *)
(* app/services/streaming.py writes a frame, iter_events of                *)
(* gateway/streaming.py finds and reads it.  A frame is a sequence of      *)
(* symbols: "event: name", the ends of lines, "data:" and what opens the   *)
(* JSON, the text, and what closes it.  A character of the text may have   *)
(* two bytes (lead, trail); "separator" stands for U+2028, U+2029 and      *)
(* U+0085, which str.splitlines takes for the end of a line and            *)
(* ensure_ascii=False leaves as they are.                                  *)
(***************************************************************************)
EXTENDS Integers, SequencesExt

CONSTANT MaxFrame    \* 1_048_576

ASSUME FrameAssumption == MaxFrame \in Nat

\* The backend writes LF; the parser takes CR LF too, which its tests send.
LineEnds == {<<"LF">>, <<"CR", "LF">>}

Frame(event, end) ==
    <<event.name>> \o end \o <<"open">> \o event.text \o <<"close">> \o end \o end

Wire(events, end) == FlattenSeq([i \in DOMAIN events |-> Frame(events[i], end)])

\* len of what is decoded.
Characters(s) == Cardinality({i \in DOMAIN s : s[i] # "trail"})

\* Mutant: a chunk that ends in half a character is held back.
WholeCharactersOrNone(bytes) ==
    IF bytes # <<>> /\ Last(bytes) = "lead" THEN 0 ELSE Len(bytes)

\* What the incremental decoder gives out: all but half a character.
WholeCharacters(bytes) ==
    IF bytes # <<>> /\ Last(bytes) = "lead" THEN Len(bytes) - 1 ELSE Len(bytes)

\* \r?\n\r?\n
Blanks(s) ==
    {b \in (DOMAIN s) \X (DOMAIN s) : b[2] \in b[1]+1..b[1]+3 /\ SubSeq(s, b[1], b[2]) \in
        {<<"LF", "LF">>, <<"LF", "CR", "LF">>, <<"CR", "LF", "LF">>, <<"CR", "LF", "CR", "LF">>}}

HasFrame(buffer) == Blanks(buffer) # {}

\* Mutant: what has arrived after the frame is dropped.
SplitDropsRest(buffer) ==
    LET blank == CHOOSE b \in Blanks(buffer) : \A c \in Blanks(buffer) : b[1] <= c[1]
    IN  [frame |-> SubSeq(buffer, 1, blank[1] - 1), rest |-> <<>>]

\* The leftmost match.
Split(buffer) ==
    LET blank == CHOOSE b \in Blanks(buffer) : \A c \in Blanks(buffer) : b[1] <= c[1]
    IN  [frame |-> SubSeq(buffer, 1, blank[1] - 1),
         rest  |-> SubSeq(buffer, blank[2] + 1, Len(buffer))]

\* frame.splitlines()
Lines(frame) ==
    LET ends   == {i \in DOMAIN frame : frame[i] \in {"LF", "CR", "separator"}}
        starts == {1} \cup {i + 1 : i \in ends}
    IN  {SubSeq(frame, i, Min({j \in ends : j >= i} \cup {Len(frame) + 1}) - 1) : i \in starts}

Data(frame) == CHOOSE line \in Lines(frame) : line # <<>> /\ line[1] = "open"

\* json.loads takes it.
Intact(frame) == Last(Data(frame)) = "close"

Read(frame) == [name |-> frame[1], text |-> SubSeq(Data(frame), 2, Len(Data(frame)) - 1)]

=============================================================================
