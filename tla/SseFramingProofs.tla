-------------------------- MODULE SseFramingProofs --------------------------
(***************************************************************************)
(* Lemmas about the framing of a stream, for texts of any length: where    *)
(* iter_events finds the end of a frame, and what it reads from it.        *)
(***************************************************************************)
EXTENDS AnswerStream, SequenceLemmas, FiniteSetTheorems, TLAPS

\* A frame without the empty line that ends it.
Body(event, end) == <<event.name>> \o end \o <<"open">> \o event.text \o <<"close">>

LEMMA EventParts ==
    ASSUME NEW event \in Events
    PROVE  event.name \in Names /\ event.text \in Seq(Symbols) /\ event.text \in Seq(Bytes)
  <1>1. event.text \in Seq(Symbols)
    <2>1. <<>> \in Seq(Symbols)
      OBVIOUS
    <2> QED
      BY <2>1, RunAssumption DEF Events
  <1>2. Symbols \subseteq Bytes
    BY DEF Bytes
  <1> QED
    BY <1>1, <1>2, SeqMonotonic DEF Events

LEMMA LineEnd ==
    ASSUME NEW end \in LineEnds
    PROVE  /\ end \in Seq(Bytes)
           /\ \/ Len(end) = 1 /\ end[1] = "LF"
              \/ Len(end) = 2 /\ end[1] = "CR" /\ end[2] = "LF"
  <1>1. "LF" \in Bytes /\ "CR" \in Bytes
    BY DEF Bytes
  <1>2. CASE end = <<"LF">>
    BY <1>1, <1>2
  <1>3. CASE end = <<"CR", "LF">>
    BY <1>1, <1>3
  <1> QED
    BY <1>2, <1>3 DEF LineEnds

LEMMA BodyAt ==
    ASSUME NEW event \in Events, NEW end \in LineEnds
    PROVE  /\ Body(event, end) \in Seq(Bytes)
           /\ Len(Body(event, end)) = 3 + Len(end) + Len(event.text)
           /\ Body(event, end)[1] = event.name
           /\ \A i \in 1..Len(end) : Body(event, end)[1 + i] = end[i]
           /\ Body(event, end)[2 + Len(end)] = "open"
           /\ \A i \in 1..Len(event.text) : Body(event, end)[2 + Len(end) + i] = event.text[i]
           /\ Body(event, end)[3 + Len(end) + Len(event.text)] = "close"
  <1>1. PICK e \in Seq(Bytes) : e = end
    BY LineEnd
  <1>2. PICK t \in Seq(Bytes) : t = event.text
    BY EventParts
  <1>3. PICK n : n = <<event.name>>
    OBVIOUS
  <1>4. PICK o : o = <<"open">>
    OBVIOUS
  <1>5. PICK c : c = <<"close">>
    OBVIOUS
  <1>a. /\ n \in Seq(Bytes) /\ Len(n) = 1 /\ n[1] = event.name
        /\ o \in Seq(Bytes) /\ Len(o) = 1 /\ o[1] = "open"
        /\ c \in Seq(Bytes) /\ Len(c) = 1 /\ c[1] = "close"
    <2>1. event.name \in Bytes /\ "open" \in Bytes /\ "close" \in Bytes
      BY EventParts DEF Bytes
    <2> QED
      BY <1>3, <1>4, <1>5, <2>1, Single
  <1>6. PICK s1 : s1 = n \o e
    OBVIOUS
  <1>b. /\ s1 \in Seq(Bytes) /\ Len(s1) = 1 + Len(e)
        /\ s1[1] = event.name /\ \A i \in 1..Len(e) : s1[1 + i] = e[i]
    <2>1. /\ s1 \in Seq(Bytes) /\ Len(s1) = Len(n) + Len(e)
          /\ \A i \in 1..Len(n) : s1[i] = n[i]
          /\ \A i \in 1..Len(e) : s1[Len(n) + i] = e[i]
      <3>1. n \in Seq(Bytes)
        BY <1>a
      <3> QED
        BY <1>6, <3>1, ConcatAt
    <2> QED
      BY <1>a, <2>1
  <1>7. PICK s2 : s2 = s1 \o o
    OBVIOUS
  <1>c. /\ s2 \in Seq(Bytes) /\ Len(s2) = 2 + Len(e) /\ s2[2 + Len(e)] = "open"
        /\ \A i \in 1..1 + Len(e) : s2[i] = s1[i]
    <2>1. /\ s2 \in Seq(Bytes) /\ Len(s2) = Len(s1) + Len(o)
          /\ \A i \in 1..Len(s1) : s2[i] = s1[i]
          /\ \A i \in 1..Len(o) : s2[Len(s1) + i] = o[i]
      <3>1. s1 \in Seq(Bytes) /\ o \in Seq(Bytes)
        BY <1>a, <1>b
      <3> QED
        BY <1>7, <3>1, ConcatAt
    <2>2. Len(e) \in Nat /\ 1 \in 1..Len(o)
      BY <1>a
    <2> QED
      BY <1>a, <1>b, <2>1, <2>2
  <1>8. PICK s3 : s3 = s2 \o t
    OBVIOUS
  <1>d. /\ s3 \in Seq(Bytes) /\ Len(s3) = 2 + Len(e) + Len(t)
        /\ \A i \in 1..2 + Len(e) : s3[i] = s2[i]
        /\ \A i \in 1..Len(t) : s3[2 + Len(e) + i] = t[i]
    <2>1. /\ s3 \in Seq(Bytes) /\ Len(s3) = Len(s2) + Len(t)
          /\ \A i \in 1..Len(s2) : s3[i] = s2[i]
          /\ \A i \in 1..Len(t) : s3[Len(s2) + i] = t[i]
      <3>1. s2 \in Seq(Bytes)
        BY <1>c
      <3> QED
        BY <1>8, <3>1, ConcatAt
    <2> QED
      BY <1>c, <2>1
  <1>9. PICK s4 : s4 = s3 \o c
    OBVIOUS
  <1>e. /\ s4 \in Seq(Bytes) /\ Len(s4) = 3 + Len(e) + Len(t) /\ s4[3 + Len(e) + Len(t)] = "close"
        /\ \A i \in 1..2 + Len(e) + Len(t) : s4[i] = s3[i]
    <2>1. /\ s4 \in Seq(Bytes) /\ Len(s4) = Len(s3) + Len(c)
          /\ \A i \in 1..Len(s3) : s4[i] = s3[i]
          /\ \A i \in 1..Len(c) : s4[Len(s3) + i] = c[i]
      <3>1. s3 \in Seq(Bytes) /\ c \in Seq(Bytes)
        BY <1>a, <1>d
      <3> QED
        BY <1>9, <3>1, ConcatAt
    <2>2. Len(e) \in Nat /\ Len(t) \in Nat /\ 1 \in 1..Len(c)
      BY <1>a
    <2> QED
      BY <1>a, <1>d, <2>1, <2>2
  <1>10. Body(event, end) = s4
    BY <1>1, <1>2, <1>3, <1>4, <1>5, <1>6, <1>7, <1>8, <1>9 DEF Body
  <1>11. /\ s4[1] = event.name /\ s4[2 + Len(e)] = "open"
         /\ \A i \in 1..Len(e) : s4[1 + i] = e[i]
         /\ \A i \in 1..Len(t) : s4[2 + Len(e) + i] = t[i]
    <2>1. Len(e) \in Nat /\ Len(t) \in Nat
      OBVIOUS
    <2>2. \A i \in 1..1 + Len(e) : s4[i] = s1[i]
      <3>1. \A i \in 1..1 + Len(e) : s4[i] = s3[i] /\ s3[i] = s2[i] /\ s2[i] = s1[i]
        <4>1. \A i \in 1..1 + Len(e) : i \in 1..2 + Len(e) /\ i \in 1..2 + Len(e) + Len(t)
          BY <2>1
        <4> QED
          BY <1>c, <1>d, <1>e, <4>1
      <3> QED
        BY <3>1
    <2>3. s4[2 + Len(e)] = "open"
      <3>1. 2 + Len(e) \in 1..2 + Len(e) /\ 2 + Len(e) \in 1..2 + Len(e) + Len(t)
        BY <2>1
      <3> QED
        BY <1>c, <1>d, <1>e, <3>1
    <2>4. ASSUME NEW i \in 1..Len(e)
          PROVE  s4[1 + i] = e[i]
      <3>1. 1 + i \in 1..1 + Len(e)
        BY <2>1
      <3> QED
        BY <1>b, <2>2, <3>1
    <2>5. ASSUME NEW i \in 1..Len(t)
          PROVE  s4[2 + Len(e) + i] = t[i]
      <3>1. 2 + Len(e) + i \in 1..2 + Len(e) + Len(t)
        BY <2>1
      <3> QED
        BY <1>d, <1>e, <3>1
    <2> QED
      BY <1>b, <2>1, <2>2, <2>3, <2>4, <2>5
  <1> QED
    BY <1>1, <1>2, <1>e, <1>10, <1>11

LEMMA FrameAt ==
    ASSUME NEW event \in Events, NEW end \in LineEnds
    PROVE  /\ Frame(event, end) \in Seq(Bytes)
           /\ Len(Frame(event, end)) = Len(Body(event, end)) + 2 * Len(end)
           /\ \A i \in 1..Len(Body(event, end)) : Frame(event, end)[i] = Body(event, end)[i]
           /\ \A i \in 1..Len(end) :
                 /\ Frame(event, end)[Len(Body(event, end)) + i] = end[i]
                 /\ Frame(event, end)[Len(Body(event, end)) + Len(end) + i] = end[i]
  <1>1. PICK e \in Seq(Bytes) : e = end
    BY LineEnd
  <1>2. PICK b \in Seq(Bytes) : b = Body(event, end)
    BY BodyAt
  <1>a. PICK c : c = b \o e
    OBVIOUS
  <1>3. /\ c \in Seq(Bytes) /\ Len(c) = Len(b) + Len(e)
        /\ \A i \in 1..Len(b) : c[i] = b[i]
        /\ \A i \in 1..Len(e) : c[Len(b) + i] = e[i]
    BY <1>a, ConcatAt
  <1>b. PICK f : f = c \o e
    OBVIOUS
  <1>4. /\ f \in Seq(Bytes) /\ Len(f) = Len(c) + Len(e)
        /\ \A i \in 1..Len(c) : f[i] = c[i]
        /\ \A i \in 1..Len(e) : f[Len(c) + i] = e[i]
    <2>1. c \in Seq(Bytes)
      BY <1>3
    <2> QED
      BY <1>b, <2>1, ConcatAt
  <1>5. Frame(event, end) = f
    BY <1>1, <1>2, <1>a, <1>b DEF Frame, Body
  <1>6. Len(b) \in Nat /\ Len(e) \in Nat
    OBVIOUS
  <1>7. Len(f) = Len(b) + 2 * Len(e)
    BY <1>3, <1>4, <1>6
  <1>8. \A i \in 1..Len(b) : f[i] = b[i]
    BY <1>3, <1>4, <1>6
  <1>9. ASSUME NEW i \in 1..Len(e)
        PROVE  f[Len(b) + i] = e[i] /\ f[Len(b) + Len(e) + i] = e[i]
    <2>1. Len(b) + i \in 1..Len(c)
      BY <1>3, <1>6
    <2> QED
      BY <1>3, <1>4, <2>1
  <1> QED
    BY <1>1, <1>2, <1>4, <1>5, <1>7, <1>8, <1>9

\* The empty lines, and where they are in a sequence.
LineBreaks == {<<"LF", "LF">>, <<"LF", "CR", "LF">>, <<"CR", "LF", "LF">>, <<"CR", "LF", "CR", "LF">>}

LEMMA Break2 ==
    ASSUME NEW a, NEW b
    PROVE  <<a, b>> \in LineBreaks <=> (a = "LF" /\ b = "LF")
  BY DEF LineBreaks

LEMMA Break3 ==
    ASSUME NEW a, NEW b, NEW c
    PROVE  <<a, b, c>> \in LineBreaks <=> (a \in {"LF", "CR"} /\ b \in {"LF", "CR"} \ {a} /\ c = "LF")
  BY DEF LineBreaks

LEMMA Break4 ==
    ASSUME NEW a, NEW b, NEW c, NEW d
    PROVE  <<a, b, c, d>> \in LineBreaks <=> (a = "CR" /\ b = "LF" /\ c = "CR" /\ d = "LF")
  BY DEF LineBreaks

LEMMA Tuple2 ==
    ASSUME NEW S, NEW t \in Seq(S), Len(t) = 2
    PROVE  t = <<t[1], t[2]>>
  OBVIOUS

LEMMA Tuple3 ==
    ASSUME NEW S, NEW t \in Seq(S), Len(t) = 3
    PROVE  t = <<t[1], t[2], t[3]>>
  OBVIOUS

LEMMA Tuple4 ==
    ASSUME NEW S, NEW t \in Seq(S), Len(t) = 4
    PROVE  t = <<t[1], t[2], t[3], t[4]>>
  OBVIOUS

LEMMA SubSeqIs ==
    ASSUME NEW S, NEW s \in Seq(S), NEW i \in 1..Len(s), NEW j \in i..Len(s)
    PROVE  /\ j = i + 1 => SubSeq(s, i, j) = <<s[i], s[i+1]>>
           /\ j = i + 2 => SubSeq(s, i, j) = <<s[i], s[i+1], s[i+2]>>
           /\ j = i + 3 => SubSeq(s, i, j) = <<s[i], s[i+1], s[i+2], s[i+3]>>
  <1>1. PICK t : t = SubSeq(s, i, j)
    OBVIOUS
  <1>2. /\ t \in Seq(S) /\ Len(t) = j - i + 1
        /\ \A k \in 1..j - i + 1 : t[k] = s[i + k - 1]
    <2>1. i \in 1..Len(s) + 1 /\ j \in i - 1..Len(s)
      OBVIOUS
    <2> QED
      BY <1>1, <2>1, SubSeqAt
  <1>3. ASSUME j = i + 1
        PROVE  SubSeq(s, i, j) = <<s[i], s[i+1]>>
    <2>1. Len(t) = 2
      BY <1>2, <1>3
    <2>2. t[1] = s[i] /\ t[2] = s[i+1]
      BY <1>2, <1>3
    <2>3. t = <<t[1], t[2]>>
      BY <1>2, <2>1, Tuple2
    <2> QED
      BY <1>1, <2>2, <2>3
  <1>4. ASSUME j = i + 2
        PROVE  SubSeq(s, i, j) = <<s[i], s[i+1], s[i+2]>>
    <2>1. Len(t) = 3
      BY <1>2, <1>4
    <2>2. t[1] = s[i] /\ t[2] = s[i+1] /\ t[3] = s[i+2]
      BY <1>2, <1>4
    <2>3. t = <<t[1], t[2], t[3]>>
      BY <1>2, <2>1, Tuple3
    <2> QED
      BY <1>1, <2>2, <2>3
  <1>5. ASSUME j = i + 3
        PROVE  SubSeq(s, i, j) = <<s[i], s[i+1], s[i+2], s[i+3]>>
    <2>1. Len(t) = 4
      BY <1>2, <1>5
    <2>2. t[1] = s[i] /\ t[2] = s[i+1] /\ t[3] = s[i+2] /\ t[4] = s[i+3]
      BY <1>2, <1>5
    <2>3. t = <<t[1], t[2], t[3], t[4]>>
      BY <1>2, <2>1, Tuple4
    <2> QED
      BY <1>1, <2>2, <2>3
  <1> QED
    BY <1>3, <1>4, <1>5

\* What the pattern matches.
LEMMA BlankIs ==
    ASSUME NEW S, NEW s \in Seq(S), NEW i \in 1..Len(s), NEW j \in 1..Len(s)
    PROVE  <<i, j>> \in Blanks(s) <=>
              \/ j = i + 1 /\ s[i] = "LF" /\ s[i+1] = "LF"
              \/ j = i + 2 /\ s[i] \in {"LF", "CR"} /\ s[i+1] \in {"LF", "CR"} \ {s[i]} /\ s[i+2] = "LF"
              \/ j = i + 3 /\ s[i] = "CR" /\ s[i+1] = "LF" /\ s[i+2] = "CR" /\ s[i+3] = "LF"
  <1>1. DOMAIN s = 1..Len(s)
    OBVIOUS
  <1>2. <<i, j>> \in Blanks(s) <=> (j \in i+1..i+3 /\ SubSeq(s, i, j) \in LineBreaks)
    BY <1>1 DEF Blanks, LineBreaks
  <1>3. CASE j = i + 1
    <2>1. SubSeq(s, i, j) = <<s[i], s[i+1]>>
      BY <1>3, SubSeqIs
    <2>2. <<i, j>> \in Blanks(s) <=> <<s[i], s[i+1]>> \in LineBreaks
      <3>1. j \in i+1..i+3
        BY <1>3
      <3> QED
        BY <1>2, <2>1, <3>1
    <2> QED
      BY <1>3, <2>2, Break2
  <1>4. CASE j = i + 2
    <2>1. SubSeq(s, i, j) = <<s[i], s[i+1], s[i+2]>>
      BY <1>4, SubSeqIs
    <2>2. <<i, j>> \in Blanks(s) <=> <<s[i], s[i+1], s[i+2]>> \in LineBreaks
      <3>1. j \in i+1..i+3
        BY <1>4
      <3> QED
        BY <1>2, <2>1, <3>1
    <2> QED
      BY <1>4, <2>2, Break3
  <1>5. CASE j = i + 3
    <2>1. SubSeq(s, i, j) = <<s[i], s[i+1], s[i+2], s[i+3]>>
      BY <1>5, SubSeqIs
    <2>2. <<i, j>> \in Blanks(s) <=> <<s[i], s[i+1], s[i+2], s[i+3]>> \in LineBreaks
      <3>1. j \in i+1..i+3
        BY <1>5
      <3> QED
        BY <1>2, <2>1, <3>1
    <2> QED
      BY <1>5, <2>2, Break4
  <1> QED
    BY <1>2, <1>3, <1>4, <1>5

\* Where the marks are in a frame without its end.
LEMMA MarksOfBody ==
    ASSUME NEW event \in Events, NEW end \in LineEnds, NEW i \in 1..Len(Body(event, end))
    PROVE  /\ Body(event, end)[i] \in {"LF", "CR"} <=> i \in 2..1 + Len(end)
           /\ Body(event, end)[i] = "open" <=> i = 2 + Len(end)
           /\ Body(event, end)[i] = "close" <=> i = Len(Body(event, end))
           /\ Body(event, end)[i] = "separator" <=>
                 (i \in 3 + Len(end)..2 + Len(end) + Len(event.text) /\ event.text[i - 2 - Len(end)] = "separator")
  <1>1. PICK b : b = Body(event, end)
    OBVIOUS
  <1>2. PICK k : k = Len(end)
    OBVIOUS
  <1>3. PICK t : t = event.text
    OBVIOUS
  <1>4. k \in 1..2 /\ \A j \in 1..k : end[j] \in {"LF", "CR"}
    <2>1. (k = 1 /\ end[1] = "LF") \/ (k = 2 /\ end[1] = "CR" /\ end[2] = "LF")
      BY <1>2, LineEnd
    <2> QED
      BY <2>1
  <1>5. t \in Seq(Symbols) /\ Len(t) \in Nat
    BY <1>3, EventParts
  <1>6. /\ b \in Seq(Bytes) /\ Len(b) = 3 + k + Len(t) /\ b[1] = event.name
        /\ \A j \in 1..k : b[1 + j] = end[j]
        /\ b[2 + k] = "open" /\ b[3 + k + Len(t)] = "close"
        /\ \A j \in 1..Len(t) : b[2 + k + j] = t[j]
    <2>1. /\ b \in Seq(Bytes) /\ Len(b) = 3 + Len(end) + Len(event.text) /\ b[1] = event.name
          /\ \A j \in 1..Len(end) : b[1 + j] = end[j]
          /\ b[2 + Len(end)] = "open" /\ b[3 + Len(end) + Len(event.text)] = "close"
          /\ \A j \in 1..Len(event.text) : b[2 + Len(end) + j] = event.text[j]
      BY <1>1, BodyAt, ZenonT(40)
    <2> QED
      BY <1>2, <1>3, <2>1
  <1>7. i \in 1..3 + k + Len(t)
    BY <1>1, <1>6
  <1> SUFFICES /\ b[i] \in {"LF", "CR"} <=> i \in 2..1 + k
               /\ b[i] = "open" <=> i = 2 + k
               /\ b[i] = "close" <=> i = 3 + k + Len(t)
               /\ b[i] = "separator" <=> (i \in 3 + k..2 + k + Len(t) /\ t[i - 2 - k] = "separator")
    BY <1>1, <1>2, <1>3, <1>6
  <1>8. CASE i = 1
    <2>1. b[i] \in {"meta", "token", "done", "error"}
      BY <1>6, <1>8, EventParts DEF Names
    <2> QED
      BY <1>4, <1>5, <1>8, <2>1
  <1>9. CASE i \in 2..1 + k
    <2>1. i - 1 \in 1..k /\ 1 + (i - 1) = i
      BY <1>4, <1>9
    <2>2. b[i] \in {"LF", "CR"}
      BY <1>4, <1>6, <2>1
    <2> QED
      BY <1>4, <1>5, <1>9, <2>2
  <1>10. CASE i = 2 + k
    BY <1>4, <1>5, <1>6, <1>10
  <1>11. CASE i \in 3 + k..2 + k + Len(t)
    <2>1. i - 2 - k \in 1..Len(t) /\ 2 + k + (i - 2 - k) = i
      BY <1>4, <1>5, <1>11
    <2>2. b[i] = t[i - 2 - k] /\ t[i - 2 - k] \in Symbols
      BY <1>5, <1>6, <2>1, ElementOfSeq
    <2> QED
      BY <1>4, <1>5, <1>11, <2>2 DEF Symbols
  <1>12. CASE i = 3 + k + Len(t)
    BY <1>4, <1>5, <1>6, <1>12
  <1> QED
    BY <1>4, <1>5, <1>7, <1>8, <1>9, <1>10, <1>11, <1>12

\* prefix is the start of what begins with the frame of event.
Begins(prefix, event, end) ==
    /\ prefix \in Seq(Bytes)
    /\ \A i \in 1..Len(prefix) : i <= Len(Frame(event, end)) => prefix[i] = Frame(event, end)[i]

\* There is no empty line before the end of the frame, and one there: the
\* pattern matches when the whole frame has arrived, and not before.
LEMMA BlanksOf ==
    ASSUME NEW event \in Events, NEW end \in LineEnds, NEW prefix, Begins(prefix, event, end),
           NEW i \in 1..Len(prefix), NEW j \in 1..Len(prefix), <<i, j>> \in Blanks(prefix)
    PROVE  /\ i > Len(Body(event, end)) /\ j >= Len(Frame(event, end))
           /\ i = Len(Body(event, end)) + 1 => j = Len(Frame(event, end))
  <1>1. PICK n : n = Len(Body(event, end))
    OBVIOUS
  <1>2. PICK k : k = Len(end)
    OBVIOUS
  <1>3. PICK m : m = Len(Frame(event, end))
    OBVIOUS
  <1>4. (k = 1 /\ end[1] = "LF") \/ (k = 2 /\ end[1] = "CR" /\ end[2] = "LF")
    BY <1>2, LineEnd
  <1>5. n \in Nat /\ n >= 3 + k
    <2>1. PICK l \in Nat : n = 3 + Len(end) + l
      <3>1. Len(event.text) \in Nat
        BY EventParts
      <3>2. n = 3 + Len(end) + Len(event.text)
        BY <1>1, BodyAt
      <3> QED
        BY <3>1, <3>2
    <2>2. k \in Nat
      BY <1>4
    <2> QED
      BY <1>2, <2>1, <2>2
  <1>6. m = n + 2 * k
    BY <1>1, <1>2, <1>3, FrameAt
  <1>7. \A x \in 1..Len(prefix) : x <= n => (prefix[x] \in {"LF", "CR"} <=> x \in 2..1 + k)
    <2> SUFFICES ASSUME NEW x \in 1..Len(prefix), x <= n
                 PROVE  prefix[x] \in {"LF", "CR"} <=> x \in 2..1 + k
      OBVIOUS
    <2>1. x \in 1..n /\ x <= m
      BY <1>4, <1>5, <1>6
    <2>2. prefix[x] = Frame(event, end)[x] /\ Frame(event, end)[x] = Body(event, end)[x]
      BY <1>1, <1>3, <2>1, FrameAt DEF Begins
    <2> QED
      <3>1. x \in 1..Len(Body(event, end))
        BY <1>1, <2>1
      <3>2. Body(event, end)[x] \in {"LF", "CR"} <=> x \in 2..1 + Len(end)
        BY <3>1, MarksOfBody
      <3> QED
        BY <1>2, <2>2, <3>2
  <1>8. \A x \in 1..Len(prefix) : x \in n + 1..n + k => prefix[x] = end[x - n]
    <2> SUFFICES ASSUME NEW x \in 1..Len(prefix), x \in n + 1..n + k
                 PROVE  prefix[x] = end[x - n]
      OBVIOUS
    <2>1. x - n \in 1..k /\ n + (x - n) = x /\ x <= m
      BY <1>4, <1>5, <1>6
    <2>2. prefix[x] = Frame(event, end)[x]
      BY <1>3, <2>1 DEF Begins
    <2>3. Frame(event, end)[n + (x - n)] = end[x - n]
      BY <1>1, <1>2, <2>1, FrameAt
    <2> QED
      BY <2>1, <2>2, <2>3
  <1>9. \A x \in 1..Len(prefix) : x \in n + k + 1..n + 2 * k => prefix[x] = end[x - n - k]
    <2> SUFFICES ASSUME NEW x \in 1..Len(prefix), x \in n + k + 1..n + 2 * k
                 PROVE  prefix[x] = end[x - n - k]
      OBVIOUS
    <2>1. x - n - k \in 1..k /\ n + k + (x - n - k) = x /\ x <= m
      BY <1>4, <1>5, <1>6
    <2>2. prefix[x] = Frame(event, end)[x]
      BY <1>3, <2>1 DEF Begins
    <2>3. Frame(event, end)[n + k + (x - n - k)] = end[x - n - k]
      BY <1>1, <1>2, <2>1, FrameAt
    <2> QED
      BY <2>1, <2>2, <2>3
  <1>10. \A x \in 1..Len(prefix) : x \in 2..1 + k => prefix[x] = end[x - 1]
    <2> SUFFICES ASSUME NEW x \in 1..Len(prefix), x \in 2..1 + k
                 PROVE  prefix[x] = end[x - 1]
      OBVIOUS
    <2>1. x - 1 \in 1..k /\ 1 + (x - 1) = x /\ x \in 1..n /\ x <= m
      BY <1>4, <1>5, <1>6
    <2>2. prefix[x] = Frame(event, end)[x] /\ Frame(event, end)[x] = Body(event, end)[x]
      BY <1>1, <1>3, <2>1, FrameAt DEF Begins
    <2>3. Body(event, end)[1 + (x - 1)] = end[x - 1]
      BY <1>2, <2>1, BodyAt, ZenonT(40)
    <2> QED
      BY <2>1, <2>2, <2>3
  <1>11. \/ j = i + 1 /\ prefix[i] = "LF" /\ prefix[i+1] = "LF"
         \/ j = i + 2 /\ prefix[i] \in {"LF", "CR"} /\ prefix[i+1] \in {"LF", "CR"} \ {prefix[i]} /\ prefix[i+2] = "LF"
         \/ j = i + 3 /\ prefix[i] = "CR" /\ prefix[i+1] = "LF" /\ prefix[i+2] = "CR" /\ prefix[i+3] = "LF"
    <2>1. prefix \in Seq(Bytes)
      BY DEF Begins
    <2> QED
      BY <2>1, BlankIs
  <1>12. /\ i + 1 <= j /\ prefix[i] \in {"LF", "CR"} /\ prefix[i+1] \in {"LF", "CR"}
         /\ prefix[i] = "CR" => i + 2 <= j /\ prefix[i+2] \in {"LF", "CR"}
    BY <1>11
  <1>13. i > n
    <2> SUFFICES ASSUME i <= n PROVE FALSE
      BY <1>5
    <2>1. i \in 2..1 + k
      BY <1>7, <1>12
    <2>2. i + 1 \in 1..Len(prefix) /\ i + 1 <= n
      BY <1>4, <1>5, <1>12, <2>1
    <2>3. i + 1 \in 2..1 + k
      BY <1>7, <1>12, <2>2
    <2>4. i = 2 /\ k = 2 /\ end[1] = "CR"
      BY <1>4, <2>1, <2>3
    <2>5. prefix[i] = "CR"
      <3>1. i - 1 = 1
        BY <2>4
      <3> QED
        BY <1>10, <2>1, <2>4, <3>1
    <2>6. i + 2 \in 1..Len(prefix) /\ i + 2 <= n
      BY <1>5, <1>12, <2>4, <2>5
    <2>7. i + 2 \in 2..1 + k
      BY <1>7, <1>12, <2>5, <2>6
    <2> QED
      BY <2>4, <2>7
  <1>14. CASE k = 1
    <2>1. end[1] = "LF" /\ m = n + 2
      BY <1>4, <1>6, <1>14
    <2>2. j >= m
      BY <1>5, <1>12, <1>13, <2>1
    <2>3. ASSUME i = n + 1 PROVE j = m
      <3>1. PICK x \in 1..Len(prefix) : x = i + 1
        BY <1>12
      <3>2. /\ i \in n + 1..n + k /\ i - n = 1
            /\ x \in n + k + 1..n + 2 * k /\ x - n - k = 1
        BY <1>5, <1>14, <2>3, <3>1
      <3>3. prefix[i] = "LF" /\ prefix[x] = "LF"
        BY <1>8, <1>9, <2>1, <3>2
      <3>4. j = i + 1
        BY <1>11, <3>1, <3>3
      <3> QED
        BY <1>5, <2>1, <2>3, <3>4
    <2> QED
      BY <1>1, <1>3, <1>13, <2>2, <2>3
  <1>15. CASE k = 2
    <2>1. end[1] = "CR" /\ end[2] = "LF" /\ m = n + 4
      BY <1>4, <1>6, <1>15
    <2>2. \A x \in 1..Len(prefix) : /\ x = n + 1 => prefix[x] = "CR"
                                    /\ x = n + 2 => prefix[x] = "LF"
                                    /\ x = n + 3 => prefix[x] = "CR"
      <3> SUFFICES ASSUME NEW x \in 1..Len(prefix)
                   PROVE  /\ x = n + 1 => prefix[x] = "CR"
                          /\ x = n + 2 => prefix[x] = "LF"
                          /\ x = n + 3 => prefix[x] = "CR"
        OBVIOUS
      <3>1. ASSUME x = n + 1 PROVE prefix[x] = "CR"
        <4>1. x \in n + 1..n + k /\ x - n = 1
          BY <1>5, <1>15, <3>1
        <4> QED
          BY <1>8, <2>1, <4>1
      <3>2. ASSUME x = n + 2 PROVE prefix[x] = "LF"
        <4>1. x \in n + 1..n + k /\ x - n = 2
          BY <1>5, <1>15, <3>2
        <4> QED
          BY <1>8, <2>1, <4>1
      <3>3. ASSUME x = n + 3 PROVE prefix[x] = "CR"
        <4>1. x \in n + k + 1..n + 2 * k /\ x - n - k = 1
          BY <1>5, <1>15, <3>3
        <4> QED
          BY <1>9, <2>1, <4>1
      <3> QED
        BY <3>1, <3>2, <3>3
    <2>3. CASE i = n + 1
      <3>1. prefix[i] = "CR" /\ i + 2 \in 1..Len(prefix)
        BY <1>12, <2>2, <2>3
      <3>2. prefix[i+2] = "CR"
        <4>1. i + 2 = n + 3
          BY <1>5, <2>3
        <4> QED
          BY <2>2, <3>1, <4>1
      <3>3. j = i + 3
        BY <1>11, <3>1, <3>2
      <3>4. j = m
        BY <1>5, <2>1, <2>3, <3>3
      <3> QED
        BY <1>1, <1>3, <1>5, <1>13, <2>1, <3>4
    <2>4. CASE i = n + 2
      <3>1. prefix[i] = "LF" /\ i + 1 \in 1..Len(prefix)
        BY <1>12, <2>2, <2>4
      <3>2. prefix[i+1] = "CR"
        <4>1. i + 1 = n + 3
          BY <1>5, <2>4
        <4> QED
          BY <2>2, <3>1, <4>1
      <3>3. j = i + 2
        BY <1>11, <3>1, <3>2
      <3> QED
        BY <1>1, <1>3, <1>5, <1>13, <2>1, <2>4, <3>3
    <2>5. CASE i = n + 3
      <3>1. prefix[i] = "CR"
        BY <2>2, <2>5
      <3> QED
        BY <1>1, <1>3, <1>5, <1>12, <1>13, <2>1, <2>5, <3>1
    <2>6. CASE i > n + 3
      BY <1>1, <1>3, <1>5, <1>12, <1>13, <2>1, <2>6
    <2> QED
      BY <1>5, <1>13, <2>3, <2>4, <2>5, <2>6
  <1> QED
    BY <1>4, <1>14, <1>15

\* The pattern finds the frame when all of it has arrived, and what follows.
LEMMA Found ==
    ASSUME NEW event \in Events, NEW end \in LineEnds, NEW prefix, Begins(prefix, event, end)
    PROVE  /\ HasFrame(prefix) <=> Len(prefix) >= Len(Frame(event, end))
           /\ HasFrame(prefix) =>
                 /\ Split(prefix).frame = Body(event, end)
                 /\ Split(prefix).rest = SubSeq(prefix, Len(Frame(event, end)) + 1, Len(prefix))
  <1>1. PICK n : n = Len(Body(event, end))
    OBVIOUS
  <1>2. PICK m : m = Len(Frame(event, end))
    OBVIOUS
  <1>3. prefix \in Seq(Bytes) /\ Len(prefix) \in Nat /\ DOMAIN prefix = 1..Len(prefix)
    BY DEF Begins
  <1>k. PICK k : k = Len(end)
    OBVIOUS
  <1>l. (k = 1 /\ end[1] = "LF") \/ (k = 2 /\ end[1] = "CR" /\ end[2] = "LF")
    BY <1>k, LineEnd
  <1>m. m = n + 2 * k
    BY <1>1, <1>2, <1>k, FrameAt
  <1>n. n \in Nat \ {0}
    <2>1. Len(event.text) \in Nat
      BY EventParts
    <2>2. PICK l \in Nat : n = 3 + Len(end) + l
      BY <1>1, <2>1, BodyAt, ZenonT(40)
    <2> QED
      BY <1>k, <1>l, <2>2
  <1>4. n \in Nat \ {0} /\ m \in Nat /\ n < m
    BY <1>l, <1>m, <1>n
  <1>5. ASSUME NEW b \in Blanks(prefix)
        PROVE  /\ b[1] \in n + 1..Len(prefix) /\ b[2] \in m..Len(prefix) /\ b = <<b[1], b[2]>>
               /\ b[1] = n + 1 => b[2] = m
    <2>1. b[1] \in 1..Len(prefix) /\ b[2] \in 1..Len(prefix) /\ b = <<b[1], b[2]>>
      BY <1>3 DEF Blanks
    <2> QED
      BY <1>1, <1>2, <1>4, <2>1, BlanksOf
  <1>6. ASSUME Len(prefix) >= m
        PROVE  <<n + 1, m>> \in Blanks(prefix)
    <2>1. \A x \in 1..m : prefix[x] = Frame(event, end)[x]
      BY <1>2, <1>3, <1>4, <1>6 DEF Begins
    <2>2. \A x \in 1..k : /\ Frame(event, end)[n + x] = end[x]
                          /\ Frame(event, end)[n + k + x] = end[x]
      BY <1>1, <1>k, FrameAt
    <2>3. n + 1 \in 1..Len(prefix) /\ m \in 1..Len(prefix)
      BY <1>3, <1>4, <1>6
    <2>4. CASE k = 1
      <3>1. m = (n + 1) + 1 /\ n + 1 \in 1..m /\ (n + 1) + 1 \in 1..m /\ n + k + 1 = (n + 1) + 1 /\ 1 \in 1..k
        BY <1>m, <1>n, <2>4
      <3>2. Frame(event, end)[n + 1] = end[1] /\ Frame(event, end)[n + k + 1] = end[1]
        BY <2>2, <3>1
      <3>3. prefix[n + 1] = "LF" /\ prefix[(n + 1) + 1] = "LF"
        BY <1>l, <2>1, <2>4, <3>1, <3>2
      <3> QED
        BY <1>3, <2>3, <3>1, <3>3, BlankIs
    <2>5. CASE k = 2
      <3>1. /\ m = (n + 1) + 3 /\ n + 1 \in 1..m /\ (n + 1) + 1 \in 1..m /\ (n + 1) + 2 \in 1..m /\ (n + 1) + 3 \in 1..m
            /\ n + 2 = (n + 1) + 1 /\ n + k + 1 = (n + 1) + 2 /\ n + k + 2 = (n + 1) + 3
            /\ 1 \in 1..k /\ 2 \in 1..k
        BY <1>m, <1>n, <2>5
      <3>2. /\ Frame(event, end)[n + 1] = end[1] /\ Frame(event, end)[n + 2] = end[2]
            /\ Frame(event, end)[n + k + 1] = end[1] /\ Frame(event, end)[n + k + 2] = end[2]
        BY <2>2, <3>1
      <3>3. /\ prefix[n + 1] = "CR" /\ prefix[(n + 1) + 1] = "LF"
            /\ prefix[(n + 1) + 2] = "CR" /\ prefix[(n + 1) + 3] = "LF"
        BY <1>l, <2>1, <2>5, <3>1, <3>2
      <3> QED
        BY <1>3, <2>3, <3>1, <3>3, BlankIs
    <2> QED
      BY <1>l, <2>4, <2>5
  <1>7. HasFrame(prefix) <=> Len(prefix) >= m
    BY <1>3, <1>4, <1>5, <1>6 DEF HasFrame
  <1>8. ASSUME HasFrame(prefix)
        PROVE  /\ Split(prefix).frame = Body(event, end)
               /\ Split(prefix).rest = SubSeq(prefix, m + 1, Len(prefix))
    <2> DEFINE blank == CHOOSE b \in Blanks(prefix) : \A c \in Blanks(prefix) : b[1] <= c[1]
    <2>1. Len(prefix) >= m
      BY <1>7, <1>8
    <2>2. \E b \in Blanks(prefix) : \A c \in Blanks(prefix) : b[1] <= c[1]
      <3>1. PICK b \in Blanks(prefix) : b[1] = n + 1
        BY <1>6, <2>1
      <3> QED
        BY <1>4, <1>5, <3>1
    <2>3. blank \in Blanks(prefix) /\ \A c \in Blanks(prefix) : blank[1] <= c[1]
      BY <2>2
    <2>4. blank[1] = n + 1 /\ blank[2] = m
      <3>1. PICK b \in Blanks(prefix) : b[1] = n + 1
        BY <1>6, <2>1
      <3>2. blank[1] <= n + 1
        BY <2>3, <3>1
      <3> HIDE DEF blank
      <3> QED
        BY <1>3, <1>4, <1>5, <2>3, <3>2
    <2>5. Split(prefix) = [frame |-> SubSeq(prefix, 1, blank[1] - 1), rest |-> SubSeq(prefix, blank[2] + 1, Len(prefix))]
      BY DEF Split
    <2> HIDE DEF blank
    <2>6. Split(prefix).frame = SubSeq(prefix, 1, n) /\ Split(prefix).rest = SubSeq(prefix, m + 1, Len(prefix))
      BY <1>4, <2>4, <2>5
    <2>7. SubSeq(prefix, 1, n) = Body(event, end)
      <3>1. Body(event, end) \in Seq(Bytes) /\ \A i \in 1..n : Frame(event, end)[i] = Body(event, end)[i]
        BY <1>1, BodyAt, FrameAt
      <3>2. SubSeq(prefix, 1, n) \in Seq(Bytes) /\ Len(SubSeq(prefix, 1, n)) = n
        BY <1>3, <1>4, <2>1, SubSeqAt
      <3>3. \A i \in 1..n : SubSeq(prefix, 1, n)[i] = prefix[i]
        BY <1>3, <1>4, <2>1, SubSeqAt
      <3>4. \A i \in 1..n : prefix[i] = Frame(event, end)[i]
        BY <1>2, <1>3, <1>4, <2>1 DEF Begins
      <3> QED
        BY <1>1, <3>1, <3>2, <3>3, <3>4, SeqEqual
    <2> QED
      BY <2>6, <2>7
  <1> QED
    BY <1>2, <1>7, <1>8

EndsIn(s) == {i \in DOMAIN s : s[i] \in {"LF", "CR", "separator"}}

LineFrom(s, i) == SubSeq(s, i, Min({j \in EndsIn(s) : j >= i} \cup {Len(s) + 1}) - 1)

\* What iter_events reads from a frame is the event, if no separator cuts the
\* line of its data; a line that is cut is not taken for JSON.
LEMMA Decoded ==
    ASSUME NEW event \in Events, NEW end \in LineEnds
    PROVE  /\ Intact(Body(event, end)) <=> ~ \E i \in DOMAIN event.text : event.text[i] = "separator"
           /\ Intact(Body(event, end)) => Read(Body(event, end)) = event
  <1>1. PICK b : b = Body(event, end)
    OBVIOUS
  <1>2. PICK k : k = Len(end)
    OBVIOUS
  <1>3. PICK t : t = event.text
    OBVIOUS
  <1>4. /\ k \in 1..2 /\ t \in Seq(Symbols) /\ Len(t) \in Nat /\ DOMAIN t = 1..Len(t)
        /\ b \in Seq(Bytes) /\ Len(b) = 3 + k + Len(t) /\ DOMAIN b = 1..Len(b)
    <2>1. k \in 1..2
      <3>1. k = 1 \/ k = 2
        BY <1>2, LineEnd
      <3> QED
        BY <3>1
    <2>2. t \in Seq(Symbols)
      BY <1>3, EventParts
    <2>3. b \in Seq(Bytes) /\ Len(b) = 3 + Len(end) + Len(event.text)
      BY <1>1, BodyAt
    <2> QED
      BY <1>2, <1>3, <2>1, <2>2, <2>3
  <1>5. \A i \in 1..Len(b) :
           /\ b[i] \in {"LF", "CR"} <=> i \in 2..1 + k
           /\ b[i] = "open" <=> i = 2 + k
           /\ b[i] = "close" <=> i = Len(b)
           /\ b[i] = "separator" <=> (i \in 3 + k..2 + k + Len(t) /\ t[i - 2 - k] = "separator")
    <2> SUFFICES ASSUME NEW i \in 1..Len(b)
                 PROVE  /\ b[i] \in {"LF", "CR"} <=> i \in 2..1 + k
                        /\ b[i] = "open" <=> i = 2 + k
                        /\ b[i] = "close" <=> i = Len(b)
                        /\ b[i] = "separator" <=> (i \in 3 + k..2 + k + Len(t) /\ t[i - 2 - k] = "separator")
      OBVIOUS
    <2>1. i \in 1..Len(Body(event, end))
      BY <1>1
    <2>2. /\ Body(event, end)[i] \in {"LF", "CR"} <=> i \in 2..1 + Len(end)
          /\ Body(event, end)[i] = "open" <=> i = 2 + Len(end)
          /\ Body(event, end)[i] = "close" <=> i = Len(Body(event, end))
          /\ Body(event, end)[i] = "separator" <=>
                 (i \in 3 + Len(end)..2 + Len(end) + Len(event.text) /\ event.text[i - 2 - Len(end)] = "separator")
      BY <2>1, MarksOfBody
    <2> QED
      BY <1>1, <1>2, <1>3, <2>2
  <1>6. Lines(b) = {LineFrom(b, i) : i \in {1} \cup {j + 1 : j \in EndsIn(b)}}
    BY DEF Lines, LineFrom, EndsIn
  <1>7. PICK m : m = Min({j \in EndsIn(b) : j >= 2 + k} \cup {Len(b) + 1})
    OBVIOUS
  <1>8. /\ m \in 3 + k..Len(b) + 1 /\ (m \in EndsIn(b) \/ m = Len(b) + 1)
        /\ \A j \in EndsIn(b) : j >= 2 + k => m <= j
    <2>1. PICK S : S = {j \in EndsIn(b) : j >= 2 + k} \cup {Len(b) + 1}
      OBVIOUS
    <2>2. S \in SUBSET Nat /\ Len(b) + 1 \in S
      BY <1>4, <2>1 DEF EndsIn
    <2>3. m \in S /\ \A x \in S : m <= x
      BY <1>7, <2>1, <2>2, MinIs
    <2>4. 2 + k \notin EndsIn(b)
      BY <1>4, <1>5 DEF EndsIn
    <2>5. \A j \in EndsIn(b) : j \in 1..Len(b)
      BY <1>4 DEF EndsIn
    <2> QED
      BY <1>4, <2>1, <2>3, <2>4, <2>5
  <1>9. LineFrom(b, 2 + k) \in Lines(b) /\ LineFrom(b, 2 + k) = SubSeq(b, 2 + k, m - 1)
    <2>1. 1 + k \in EndsIn(b) /\ (1 + k) + 1 = 2 + k
      BY <1>4, <1>5 DEF EndsIn
    <2> QED
      BY <1>6, <1>7, <2>1 DEF LineFrom
  <1>10. PICK line : line = SubSeq(b, 2 + k, m - 1)
    OBVIOUS
  <1>11. /\ line \in Seq(Bytes) /\ Len(line) = m - 2 - k /\ m - 2 - k \in Nat \ {0}
         /\ \A i \in 1..m - 2 - k : line[i] = b[1 + k + i]
    <2>1. PICK x \in 1..Len(b) + 1 : x = 2 + k
      BY <1>4
    <2>2. PICK y \in x - 1..Len(b) : y = m - 1
      BY <1>4, <1>8, <2>1
    <2>3. /\ line \in Seq(Bytes) /\ Len(line) = y - x + 1
          /\ \A i \in 1..y - x + 1 : line[i] = b[x + i - 1]
      BY <1>4, <1>10, <2>1, <2>2, SubSeqAt, SMTT(30)
    <2>4. y - x + 1 = m - 2 - k /\ m - 2 - k \in Nat \ {0}
      BY <1>4, <1>8, <2>1, <2>2
    <2>5. ASSUME NEW i \in 1..m - 2 - k
          PROVE  line[i] = b[1 + k + i]
      <3>1. x + i - 1 = 1 + k + i
        BY <1>4, <2>1
      <3> QED
        BY <2>3, <2>4, <3>1
    <2> QED
      BY <2>3, <2>4, <2>5
  <1>12. line # <<>> /\ line[1] = "open"
    <2>1. 1 \in 1..m - 2 - k /\ 1 + k + 1 = 2 + k /\ 2 + k \in 1..Len(b)
      BY <1>4, <1>11
    <2>2. line[1] = b[2 + k]
      BY <1>11, <2>1
    <2>3. b[2 + k] = "open"
      BY <1>5, <2>1
    <2> QED
      BY <1>11, <2>2, <2>3
  <1>13. ASSUME NEW other \in Lines(b), other # <<>>, other[1] = "open"
         PROVE  other = line
    <2>1. PICK i \in {1} \cup {j + 1 : j \in EndsIn(b)} : other = LineFrom(b, i)
      BY <1>6
    <2>2. i \in 1..Len(b) + 1
      BY <1>4, <2>1 DEF EndsIn
    <2>3. PICK e : e = Min({j \in EndsIn(b) : j >= i} \cup {Len(b) + 1})
      OBVIOUS
    <2>4. e \in i..Len(b) + 1
      <3>1. PICK S : S = {j \in EndsIn(b) : j >= i} \cup {Len(b) + 1}
        OBVIOUS
      <3>2. S \in SUBSET Nat /\ Len(b) + 1 \in S /\ \A x \in S : x >= i
        BY <1>4, <2>2, <3>1 DEF EndsIn
      <3>3. e \in S /\ \A x \in S : e <= x
        BY <2>3, <3>1, <3>2, MinIs
      <3> QED
        BY <2>2, <3>2, <3>3
    <2>5. other = SubSeq(b, i, e - 1)
      BY <2>1, <2>3 DEF LineFrom
    <2>6. PICK y \in i - 1..Len(b) : y = e - 1
      BY <1>4, <2>2, <2>4
    <2>7. /\ other \in Seq(Bytes) /\ Len(other) = y - i + 1
          /\ \A x \in 1..y - i + 1 : other[x] = b[i + x - 1]
      BY <1>4, <2>2, <2>5, <2>6, SubSeqAt
    <2>8. 1 \in 1..y - i + 1 /\ i \in 1..Len(b)
      BY <1>4, <1>13, <2>2, <2>6, <2>7
    <2>9. other[1] = b[i]
      <3>1. i + 1 - 1 = i
        BY <2>2
      <3> QED
        BY <2>7, <2>8, <3>1
    <2>10. i = 2 + k
      BY <1>5, <1>13, <2>8, <2>9
    <2> QED
      BY <1>7, <1>10, <2>3, <2>5, <2>10
  <1>14. Data(b) = line
    BY <1>9, <1>10, <1>12, <1>13 DEF Data
  <1>15. Intact(b) <=> m = Len(b) + 1
    <2>1. m - 2 - k \in 1..m - 2 - k /\ 1 + k + (m - 2 - k) = m - 1 /\ m - 1 \in 1..Len(b)
      BY <1>4, <1>8, <1>11
    <2>2. line[Len(line)] = b[m - 1]
      BY <1>11, <2>1
    <2>3. b[m - 1] = "close" <=> m - 1 = Len(b)
      BY <1>5, <2>1
    <2>4. m - 1 = Len(b) <=> m = Len(b) + 1
      BY <1>4, <1>8
    <2> QED
      BY <1>14, <2>2, <2>3, <2>4 DEF Intact, Last
  <1>16. m = Len(b) + 1 <=> ~ \E i \in DOMAIN t : t[i] = "separator"
    <2>1. ASSUME m # Len(b) + 1
          PROVE  \E i \in DOMAIN t : t[i] = "separator"
      <3>1. m \in 1..Len(b) /\ m \notin 2..1 + k /\ b[m] \in {"LF", "CR", "separator"}
        BY <1>4, <1>8, <2>1 DEF EndsIn
      <3>2. b[m] \in {"LF", "CR"} <=> m \in 2..1 + k
        BY <1>5, <3>1
      <3>3. b[m] = "separator"
        BY <3>1, <3>2
      <3>4. m \in 3 + k..2 + k + Len(t) /\ t[m - 2 - k] = "separator"
        BY <1>5, <3>1, <3>3
      <3>5. m - 2 - k \in DOMAIN t
        BY <1>4, <3>4
      <3> QED
        BY <3>4, <3>5
    <2>2. ASSUME NEW i \in DOMAIN t, t[i] = "separator"
          PROVE  m # Len(b) + 1
      <3>1. PICK j : j = 2 + k + i
        OBVIOUS
      <3>2. j \in 1..Len(b) /\ j \in 3 + k..2 + k + Len(t) /\ j - 2 - k = i /\ j >= 2 + k
        BY <1>4, <3>1
      <3>3. b[j] = "separator"
        BY <1>5, <2>2, <3>2
      <3>4. j \in EndsIn(b)
        BY <1>4, <3>2, <3>3 DEF EndsIn
      <3>5. m <= j
        BY <1>8, <3>2, <3>4
      <3> QED
        BY <1>4, <1>8, <3>2, <3>5
    <2> QED
      BY <2>1, <2>2
  <1>17. ASSUME m = Len(b) + 1
         PROVE  Read(b) = event
    <2>1. b[1] = event.name
      BY <1>1, BodyAt
    <2>2. Len(line) = Len(t) + 2
      BY <1>4, <1>11, <1>17
    <2>3. PICK u : u = SubSeq(line, 2, Len(line) - 1)
      OBVIOUS
    <2>4. u \in Seq(Bytes) /\ Len(u) = Len(t) /\ \A i \in 1..Len(t) : u[i] = line[1 + i]
      <3>1. PICK x \in 1..Len(line) + 1 : x = 2
        BY <1>4, <2>2
      <3>2. PICK y \in x - 1..Len(line) : y = Len(line) - 1
        BY <1>4, <2>2, <3>1
      <3>3. /\ u \in Seq(Bytes) /\ Len(u) = y - x + 1
            /\ \A i \in 1..y - x + 1 : u[i] = line[x + i - 1]
        BY <1>11, <2>3, <3>1, <3>2, SubSeqAt
      <3>4. y - x + 1 = Len(t)
        BY <1>4, <2>2, <3>1, <3>2
      <3>5. ASSUME NEW i \in 1..Len(t)
            PROVE  u[i] = line[1 + i]
        <4>1. x + i - 1 = 1 + i
          BY <3>1
        <4> QED
          BY <3>3, <3>4, <4>1
      <3> QED
        BY <3>3, <3>4, <3>5
    <2>5. ASSUME NEW i \in 1..Len(t)
          PROVE  u[i] = t[i]
      <3>1. 1 + i \in 1..m - 2 - k /\ 1 + k + (1 + i) = 2 + k + i
        BY <1>4, <1>17
      <3>2. u[i] = b[2 + k + i]
        BY <1>11, <2>4, <3>1
      <3>3. Body(event, end)[2 + Len(end) + i] = event.text[i]
        BY <1>3, BodyAt, ZenonT(40)
      <3> QED
        BY <1>1, <1>2, <1>3, <3>2, <3>3
    <2>6. t \in Seq(Bytes)
      BY <1>3, EventParts
    <2>7. u = t
      BY <2>4, <2>5, <2>6, SeqEqual
    <2>8. event = [name |-> event.name, text |-> event.text]
      BY DEF Events
    <2> QED
      BY <1>3, <1>14, <2>1, <2>3, <2>7, <2>8 DEF Read
  <1> QED
    BY <1>1, <1>3, <1>15, <1>16, <1>17

-----------------------------------------------------------------------------
(* Sizes *)

LEMMA FrameEnds ==
    ASSUME NEW event \in Events, NEW end \in LineEnds
    PROVE  Frame(event, end)[Len(Frame(event, end))] = "LF"
  <1>1. PICK f : f = Frame(event, end)
    OBVIOUS
  <1>2. PICK k : k = Len(end)
    OBVIOUS
  <1>3. (k = 1 /\ end[1] = "LF") \/ (k = 2 /\ end[2] = "LF")
    BY <1>2, LineEnd
  <1>4. k \in 1..k /\ end[k] = "LF"
    BY <1>3
  <1>5. PICK n \in Nat : n = Len(Body(event, end))
    <2>1. Body(event, end) \in Seq(Bytes)
      BY BodyAt
    <2> QED
      BY <2>1, LenProperties
  <1>6. Len(f) = n + 2 * k
    BY <1>1, <1>2, <1>5, FrameAt
  <1>7. f[n + k + k] = end[k]
    BY <1>1, <1>2, <1>4, <1>5, FrameAt
  <1>8. n + k + k = Len(f)
    BY <1>3, <1>5, <1>6
  <1> QED
    BY <1>1, <1>4, <1>7, <1>8

\* What a frame begins with has fewer characters than the frame.
LEMMA Shorter ==
    ASSUME NEW event \in Events, NEW end \in LineEnds, NEW s, Begins(s, event, end),
           Len(s) < Len(Frame(event, end))
    PROVE  Characters(s) <= Characters(Frame(event, end)) - 1
  <1>1. PICK f : f = Frame(event, end)
    OBVIOUS
  <1>2. PICK m : m = Len(f)
    OBVIOUS
  <1>3. /\ f \in Seq(Bytes) /\ s \in Seq(Bytes) /\ m \in Nat /\ Len(s) < m
        /\ DOMAIN f = 1..m /\ DOMAIN s = 1..Len(s) /\ Len(s) \in Nat
        /\ \A i \in 1..Len(s) : s[i] = f[i]
    <2>1. f \in Seq(Bytes)
      BY <1>1, FrameAt
    <2>2. s \in Seq(Bytes)
      BY DEF Begins
    <2>3. m \in Nat /\ DOMAIN f = 1..m /\ DOMAIN s = 1..Len(s) /\ Len(s) \in Nat /\ Len(s) < m
      BY <1>1, <1>2, <2>1, <2>2
    <2>4. \A i \in 1..Len(s) : s[i] = f[i]
      BY <1>1, <1>2, <2>3 DEF Begins
    <2> QED
      BY <2>1, <2>2, <2>3, <2>4
  <1>4. f[m] = "LF"
    BY <1>1, <1>2, FrameEnds
  <1>5. PICK P : P = {i \in DOMAIN s : s[i] # "trail"}
    OBVIOUS
  <1>6. PICK Q : Q = {i \in DOMAIN f : f[i] # "trail"}
    OBVIOUS
  <1>7. IsFiniteSet(Q) /\ m \in Q
    <2>1. IsFiniteSet(1..m)
      BY <1>3, FS_Interval
    <2>2. Q \in SUBSET (1..m)
      BY <1>3, <1>6
    <2>3. m \in 1..m
      BY <1>3
    <2> QED
      BY <1>3, <1>4, <1>6, <2>1, <2>2, <2>3, FS_Subset
  <1>8. P \in SUBSET (Q \ {m})
    BY <1>3, <1>5, <1>6
  <1>9. IsFiniteSet(Q \ {m}) /\ Cardinality(Q \ {m}) = Cardinality(Q) - 1
    BY <1>7, FS_RemoveElement
  <1>10. Cardinality(P) <= Cardinality(Q \ {m})
    BY <1>8, <1>9, FS_Subset
  <1> QED
    BY <1>1, <1>5, <1>6, <1>9, <1>10 DEF Characters

LEMMA BodyShorter ==
    ASSUME NEW event \in Events, NEW end \in LineEnds
    PROVE  Characters(Body(event, end)) <= Characters(Frame(event, end)) - 1
  <1>1. PICK n \in Nat : n = Len(Body(event, end))
    <2>1. Body(event, end) \in Seq(Bytes)
      BY BodyAt
    <2> QED
      BY <2>1, LenProperties
  <1>2. Len(end) = 1 \/ Len(end) = 2
    BY LineEnd
  <1>3. Len(Frame(event, end)) = n + 2 * Len(end)
    BY <1>1, FrameAt
  <1>4. n < Len(Frame(event, end))
    BY <1>2, <1>3
  <1>5. Begins(Body(event, end), event, end)
    BY BodyAt, FrameAt, ZenonT(40) DEF Begins
  <1> QED
    BY <1>1, <1>4, <1>5, Shorter

\* A count, zero for an empty sequence.
LEMMA CharactersOf ==
    ASSUME NEW s \in Seq(Bytes)
    PROVE  Characters(s) \in Nat /\ (s = <<>> => Characters(s) = 0)
  <1>1. PICK P : P = {i \in DOMAIN s : s[i] # "trail"}
    OBVIOUS
  <1>2. IsFiniteSet(1..Len(s)) /\ P \in SUBSET (1..Len(s))
    <2>1. Len(s) \in Nat /\ DOMAIN s = 1..Len(s)
      OBVIOUS
    <2> QED
      BY <1>1, <2>1, FS_Interval
  <1>3. IsFiniteSet(P)
    BY <1>2, FS_Subset
  <1>4. s = <<>> => P = {}
    BY <1>1
  <1> QED
    BY <1>1, <1>3, <1>4, FS_CardinalityType, FS_EmptySet DEF Characters

-----------------------------------------------------------------------------
(* The stream *)

LEMMA Frames ==
    ASSUME NEW events \in Seq(Events), NEW end \in LineEnds
    PROVE  [i \in DOMAIN events |-> Frame(events[i], end)] \in Seq(Seq(Bytes))
  <1>1. \A event \in Events : Frame(event, end) \in Seq(Bytes)
    BY FrameAt
  <1>2. PICK n \in Nat : DOMAIN events = 1..n /\ \A i \in 1..n : events[i] \in Events
    BY LenProperties
  <1>3. [i \in 1..n |-> Frame(events[i], end)] \in [1..n -> Seq(Bytes)]
    BY <1>1, <1>2
  <1> QED
    BY <1>2, <1>3, SeqDef

LEMMA WireTyped ==
    ASSUME NEW events \in Seq(Events), NEW end \in LineEnds
    PROVE  Wire(events, end) \in Seq(Bytes)
  BY Frames, FlattenTyped DEF Wire

LEMMA WireEmpty ==
    ASSUME NEW end
    PROVE  Wire(<<>>, end) = <<>>
  <1>1. [i \in DOMAIN <<>> |-> Frame(<<>>[i], end)] = <<>>
    OBVIOUS
  <1> QED
    BY <1>1, FlattenEmpty DEF Wire

\* A frame that is sent comes after those before it.
LEMMA WireAppend ==
    ASSUME NEW events \in Seq(Events), NEW event \in Events, NEW end \in LineEnds
    PROVE  Wire(Append(events, event), end) = Wire(events, end) \o Frame(event, end)
  <1>1. PICK frames \in Seq(Seq(Bytes)) : frames = [i \in DOMAIN events |-> Frame(events[i], end)]
    BY Frames
  <1>2. PICK f : f = Frame(event, end)
    OBVIOUS
  <1>3. f \in Seq(Bytes)
    BY <1>2, FrameAt
  <1>4. [i \in DOMAIN Append(events, event) |-> Frame(Append(events, event)[i], end)] = Append(frames, f)
    BY <1>1, <1>2
  <1>5. Wire(events, end) = FlattenSeq(frames) /\ Wire(Append(events, event), end) = FlattenSeq(Append(frames, f))
    BY <1>1, <1>4 DEF Wire
  <1>6. FlattenSeq(Append(frames, f)) = FlattenSeq(frames) \o f
    BY <1>3, FlattenAppend
  <1> QED
    BY <1>2, <1>5, <1>6

LEMMA WireConcat ==
    ASSUME NEW p \in Seq(Events), NEW q \in Seq(Events), NEW end \in LineEnds
    PROVE  Wire(p \o q, end) = Wire(p, end) \o Wire(q, end)
  <1>1. PICK fp \in Seq(Seq(Bytes)) : fp = [i \in DOMAIN p |-> Frame(p[i], end)]
    BY Frames
  <1>2. PICK fq \in Seq(Seq(Bytes)) : fq = [i \in DOMAIN q |-> Frame(q[i], end)]
    BY Frames
  <1>3. [i \in DOMAIN (p \o q) |-> Frame((p \o q)[i], end)] = fp \o fq
    <2>1. PICK t : t = p \o q
      OBVIOUS
    <2>2. /\ t \in Seq(Events) /\ Len(t) = Len(p) + Len(q)
          /\ \A i \in 1..Len(p) : t[i] = p[i]
          /\ \A i \in 1..Len(q) : t[Len(p) + i] = q[i]
      BY <2>1, ConcatAt
    <2>3. PICK ft \in Seq(Seq(Bytes)) : ft = [i \in DOMAIN t |-> Frame(t[i], end)]
      BY <2>2, Frames
    <2>4. PICK u : u = fp \o fq
      OBVIOUS
    <2>5. /\ u \in Seq(Seq(Bytes)) /\ Len(u) = Len(fp) + Len(fq)
          /\ \A i \in 1..Len(fp) : u[i] = fp[i]
          /\ \A i \in 1..Len(fq) : u[Len(fp) + i] = fq[i]
      BY <2>4, ConcatAt
    <2>6. Len(fp) = Len(p) /\ Len(fq) = Len(q) /\ Len(ft) = Len(t)
      BY <1>1, <1>2, <2>2, <2>3
    <2>7. ASSUME NEW i \in 1..Len(t)
          PROVE  ft[i] = u[i]
      <3>1. ft[i] = Frame(t[i], end)
        BY <2>2, <2>3
      <3>2. CASE i <= Len(p)
        <4>1. i \in 1..Len(p) /\ i \in 1..Len(fp) /\ i \in DOMAIN p
          BY <2>6, <3>2
        <4> QED
          BY <1>1, <2>2, <2>5, <3>1, <4>1
      <3>3. CASE i > Len(p)
        <4>1. PICK j \in 1..Len(q) : i = Len(p) + j
          <5>1. i - Len(p) \in 1..Len(q) /\ i = Len(p) + (i - Len(p))
            BY <2>2, <3>3
          <5> QED
            BY <5>1
        <4>2. fq[j] = Frame(q[j], end)
          BY <1>2, <4>1
        <4>3. u[i] = fq[j] /\ t[i] = q[j]
          BY <2>2, <2>5, <2>6, <4>1
        <4> QED
          BY <3>1, <4>2, <4>3
      <3> QED
        BY <3>2, <3>3
    <2>8. ft = u
      BY <2>2, <2>3, <2>5, <2>6, <2>7, SeqEqual
    <2> QED
      BY <2>1, <2>3, <2>4, <2>8
  <1>4. FlattenSeq(fp \o fq) = FlattenSeq(fp) \o FlattenSeq(fq)
    BY FlattenConcat
  <1> QED
    BY <1>1, <1>2, <1>3, <1>4 DEF Wire

LEMMA WirePrefix ==
    ASSUME NEW p \in Seq(Events), NEW q \in Seq(Events), IsPrefix(p, q), NEW end \in LineEnds
    PROVE  \E r \in Seq(Bytes) : Wire(q, end) = Wire(p, end) \o r
  <1>1. PICK rest \in Seq(Events) : q = p \o rest
    BY PrefixRest
  <1> QED
    BY <1>1, WireConcat, WireTyped
=============================================================================
