--------------------------- MODULE ChunkingProofs ---------------------------
(***************************************************************************)
(* chunk_text cuts every text so that its words are covered, for every     *)
(* size of a chunk, every overlap, and texts of any length.                *)
(***************************************************************************)
EXTENDS Chunking, SequenceLemmas, FiniteSetTheorems, TLAPS

-----------------------------------------------------------------------------
(* The turns of the loop *)

\* Only the code's one product, i * Stride, is needed: as a sum.
LEMMA Products ==
    /\ Stride \in Nat \ {0} /\ Stride <= ChunkSize /\ Stride = ChunkSize - Overlap
    /\ \A i \in Nat : i * Stride \in Nat /\ (i + 1) * Stride = i * Stride + Stride
    /\ \A i \in Nat, j \in Nat : i <= j => i <= i * Stride /\ i * Stride <= j * Stride
    /\ 0 * Stride = 0
  <1>1. /\ Stride \in Nat \ {0} /\ Stride <= ChunkSize /\ Stride = ChunkSize - Overlap
    BY ChunkingAssumption DEF Stride
  <1>2. PICK k \in Nat \ {0} : k = Stride
    BY <1>1
  <1>3. /\ \A i \in Nat : i * k \in Nat /\ (i + 1) * k = i * k + k
        /\ 0 * k = 0
    OBVIOUS
  <1>4. ASSUME NEW i \in Nat, NEW j \in Nat, i <= j
        PROVE  i <= i * k /\ i * k <= j * k
    <2>1. PICK d \in Nat, e \in Nat : d = j - i /\ e = k - 1
      BY <1>4
    <2>2. j = i + d /\ k = e + 1
      BY <2>1
    <2>3. j * k = i * k + d * k /\ d * k \in Nat /\ i * k \in Nat
      BY <2>2
    <2>4. i * k = i * e + i /\ i * e \in Nat
      BY <2>2
    <2> QED
      BY <2>3, <2>4
  <1> QED
    BY <1>1, <1>2, <1>3, <1>4

\* The loop makes its turns one after the other, and ends.
LEMMA TurnsAre ==
    ASSUME NEW n \in Nat
    PROVE  /\ Cardinality(Turns(n)) \in Nat
           /\ Turns(n) = 0..Cardinality(Turns(n)) - 1
  <1>1. PICK S : S = Turns(n)
    OBVIOUS
  <1>2. S \subseteq 0..n-1
    BY <1>1 DEF Turns
  <1>3. ASSUME NEW i \in S, NEW j \in Nat, j < i
        PROVE  j \in S
    <2>1. /\ i \in Nat /\ i * Stride < n /\ (i - 1) * Stride + ChunkSize < n /\ i - 1 \in Nat
          /\ j \in 0..n-1
      BY <1>1, <1>2, <1>3 DEF Turns
    <2>2. j * Stride <= i * Stride /\ j * Stride \in Nat /\ i * Stride \in Nat
      <3>1. i \in Nat /\ j \in Nat /\ j <= i
        BY <1>3, <2>1
      <3> QED
        BY <3>1, Products
    <2>3. ASSUME j > 0
          PROVE  (j - 1) * Stride + ChunkSize < n
      <3>1. PICK a \in Nat, b \in Nat : a = j - 1 /\ b = i - 1
        BY <2>1, <2>3
      <3>2. a <= b
        BY <1>3, <2>1, <3>1
      <3>3. a * Stride <= b * Stride /\ a * Stride \in Nat /\ b * Stride \in Nat
        BY <3>2, Products
      <3> QED
        BY <2>1, <3>1, <3>3, ChunkingAssumption
    <2> QED
      BY <1>1, <2>1, <2>2, <2>3 DEF Turns
  <1>4. PICK m \in Nat : m \notin S /\ \A x \in Nat : x < m => x \in S
    <2>1. n \in Nat \ S
      BY <1>2
    <2>2. PICK R : R = Nat \ S
      OBVIOUS
    <2>3. R \in SUBSET Nat /\ R # {}
      BY <2>1, <2>2
    <2>4. Min(R) \in R /\ \A x \in R : Min(R) <= x
      BY <2>3, MinIs
    <2> QED
      BY <2>2, <2>4
  <1>5. S = 0..m-1
    <2>1. \A i : i \in S => i \in Nat /\ i < m
      BY <1>2, <1>3, <1>4
    <2>2. \A i : i \in 0..m-1 <=> (i \in Nat /\ i < m)
      OBVIOUS
    <2>3. \A i : i \in S <=> i \in 0..m-1
      BY <1>4, <2>1, <2>2
    <2> QED
      BY <2>3
  <1>6. Cardinality(0..m-1) = m
    BY FS_Interval
  <1> QED
    BY <1>1, <1>5, <1>6

\* The last turn is the one whose window reaches the last word.
LEMMA LastTurn ==
    ASSUME NEW n \in Nat, NEW c \in Nat, c = Cardinality(Turns(n))
    PROVE  /\ n = 0 => c = 0
           /\ n > 0 => c > 0 /\ (c - 1) * Stride + ChunkSize >= n
           /\ \A i \in 1..c : (i - 1) * Stride < n
           /\ \A i \in 1..c - 1 : (i - 1) * Stride + ChunkSize < n
  <1>0. Turns(n) = 0..c - 1
    BY TurnsAre
  <1>1. \A i : i \in Turns(n) <=> (i \in Nat /\ i < c)
    <2>1. \A i : i \in 0..c - 1 <=> (i \in Nat /\ i < c)
      OBVIOUS
    <2> QED
      BY <1>0, <2>1
  <1>2. n = 0 => c = 0
    <2>1. n = 0 => Turns(n) = {}
      BY DEF Turns
    <2>2. c > 0 => 0 \in 0..c - 1
      OBVIOUS
    <2> QED
      BY <1>1, <2>1, <2>2
  <1>3. n > 0 => c > 0
    <2>1. n > 0 => 0 \in Turns(n)
      BY Products DEF Turns
    <2> QED
      BY <1>1, <2>1
  <1>4. ASSUME NEW i \in 1..c
        PROVE  (i - 1) * Stride < n
    <2>1. i - 1 \in Turns(n)
      BY <1>1
    <2> QED
      BY <2>1 DEF Turns
  <1>5. ASSUME NEW i \in 1..c - 1
        PROVE  (i - 1) * Stride + ChunkSize < n
    <2>1. i \in Turns(n)
      BY <1>1
    <2> QED
      BY <2>1 DEF Turns
  <1>6. ASSUME n > 0
        PROVE  (c - 1) * Stride + ChunkSize >= n
    <2>1. PICK d \in Nat : d = c - 1
      BY <1>3, <1>6
    <2>2. c \notin Turns(n)
      BY <1>1
    <2>3. /\ d * Stride \in Nat /\ c * Stride = d * Stride + Stride /\ c * Stride >= c
          /\ Stride \in Nat /\ Stride <= ChunkSize
      <3>1. c = d + 1
        BY <2>1
      <3>2. d * Stride \in Nat /\ (d + 1) * Stride = d * Stride + Stride
        BY Products
      <3>3. c <= c * Stride /\ c * Stride \in Nat
        BY Products
      <3> QED
        BY <3>1, <3>2, <3>3, Products
    <2>4. CASE c \notin 0..n-1
      <3>1. c >= n
        BY <2>4
      <3> QED
        BY <2>1, <2>3, <3>1, ChunkingAssumption
    <2>5. CASE c \in 0..n-1
      <3>1. c * Stride >= n \/ (c - 1) * Stride + ChunkSize >= n
        BY <2>1, <2>2, <2>3, <2>5, ChunkingAssumption DEF Turns
      <3> QED
        BY <2>1, <2>3, <3>1, ChunkingAssumption
    <2> QED
      BY <2>4, <2>5
  <1> QED
    BY <1>2, <1>3, <1>4, <1>5, <1>6

-----------------------------------------------------------------------------
(* The chunks of a page *)

Chunk == [page : Nat, first : Nat, last : Nat]

PageChunks(page, n) ==
    [i \in DOMAIN ChunkText(n) |-> [page |-> page, first |-> ChunkText(n)[i].first,
                                                   last |-> ChunkText(n)[i].last]]

\* The chunks follow each other with the overlap, from the first word to the last.
Overlapping(cs, page, n) ==
    /\ cs \in Seq(Chunk)
    /\ \A i \in 1..Len(cs) : /\ cs[i].page = page /\ cs[i].first > 0
                             /\ cs[i].last \in cs[i].first..n
                             /\ cs[i].last <= cs[i].first + ChunkSize - 1
    /\ \A i \in 1..Len(cs) - 1 : /\ cs[i + 1].first = cs[i].last - Overlap + 1
                                 /\ cs[i + 1].last > cs[i].last
    /\ Len(cs) > 0 => cs[1].first = 1 /\ cs[Len(cs)].last = n
    /\ n > 0 => Len(cs) > 0

LEMMA PageChunksAre ==
    ASSUME NEW n \in Nat, NEW page \in Nat
    PROVE  Overlapping(PageChunks(page, n), page, n)
  <1>0. PICK cs : cs = PageChunks(page, n)
    OBVIOUS
  <1>1. PICK c \in Nat : c = Cardinality(Turns(n))
    BY TurnsAre
  <1>2. /\ n = 0 => c = 0
        /\ n > 0 => c > 0 /\ (c - 1) * Stride + ChunkSize >= n
        /\ \A i \in 1..c : (i - 1) * Stride < n
        /\ \A i \in 1..c - 1 : (i - 1) * Stride + ChunkSize < n
    BY <1>1, LastTurn
  <1>3. cs = [i \in 1..c |-> [page |-> page, first |-> (i - 1) * Stride + 1,
                                            last |-> Min({(i - 1) * Stride + ChunkSize, n})]]
    BY <1>0, <1>1 DEF PageChunks, ChunkText, Window
  <1>4. ASSUME NEW i \in 1..c
        PROVE  /\ cs[i] \in Chunk
               /\ (i - 1) * Stride \in Nat /\ i * Stride = (i - 1) * Stride + Stride
               /\ cs[i].page = page /\ cs[i].first = (i - 1) * Stride + 1
               /\ cs[i].last = IF (i - 1) * Stride + ChunkSize <= n
                               THEN (i - 1) * Stride + ChunkSize ELSE n
    <2>1. PICK j \in Nat : j = i - 1
      OBVIOUS
    <2>2. j * Stride \in Nat /\ (j + 1) * Stride = j * Stride + Stride
      BY Products
    <2>3. PICK s \in Nat : s = j * Stride
      BY <2>2
    <2>4. s + ChunkSize \in Nat
      BY ChunkingAssumption
    <2>5. Min({s + ChunkSize, n}) = IF s + ChunkSize <= n THEN s + ChunkSize ELSE n
      BY <2>4, LesserOf
    <2>6. cs[i] = [page |-> page, first |-> s + 1, last |-> Min({s + ChunkSize, n})]
      BY <1>3, <2>1, <2>3
    <2>7. i = j + 1 /\ (i - 1) * Stride = s /\ i * Stride = s + Stride
      BY <2>1, <2>2, <2>3
    <2>8. Min({s + ChunkSize, n}) \in Nat /\ s + 1 \in Nat
      BY <2>4, <2>5
    <2>9. cs[i] \in Chunk
      BY <2>6, <2>8 DEF Chunk
    <2> QED
      BY <2>3, <2>5, <2>6, <2>7, <2>9
  <1>5. cs \in Seq(Chunk) /\ Len(cs) = c
    <2>1. cs = [i \in 1..c |-> cs[i]]
      BY <1>3
    <2>2. [i \in 1..c |-> cs[i]] \in Seq(Chunk) /\ Len([i \in 1..c |-> cs[i]]) = c
      BY <1>4
    <2> QED
      BY <2>1, <2>2
  <1>6. Stride \in Nat \ {0} /\ Stride <= ChunkSize /\ Stride = ChunkSize - Overlap
        /\ ChunkSize \in Nat /\ Overlap \in Nat
    BY Products, ChunkingAssumption
  <1>7. ASSUME NEW i \in 1..c
        PROVE  /\ cs[i].page = page /\ cs[i].first > 0
               /\ cs[i].last \in cs[i].first..n
               /\ cs[i].last <= cs[i].first + ChunkSize - 1
    <2>1. PICK s \in Nat : s = (i - 1) * Stride
      BY <1>4
    <2>2. s < n
      BY <1>2, <2>1
    <2> QED
      BY <1>4, <1>6, <2>1, <2>2
  <1>8. ASSUME NEW i \in 1..c - 1
        PROVE  /\ cs[i + 1].first = cs[i].last - Overlap + 1
               /\ cs[i + 1].last > cs[i].last
    <2>1. i \in 1..c /\ i + 1 \in 1..c /\ (i + 1) - 1 = i
      OBVIOUS
    <2>2. PICK s \in Nat : s = (i - 1) * Stride
      BY <1>4, <2>1
    <2>3. PICK t \in Nat : t = i * Stride
      BY <1>4, <2>1
    <2>4. t = s + Stride /\ s + ChunkSize < n
      BY <1>2, <1>4, <2>1, <2>2, <2>3
    <2>5. cs[i].last = s + ChunkSize
      BY <1>4, <1>6, <2>1, <2>2, <2>4
    <2>6. /\ cs[i + 1].first = t + 1
          /\ cs[i + 1].last = IF t + ChunkSize <= n THEN t + ChunkSize ELSE n
      BY <1>4, <2>1, <2>3
    <2> QED
      BY <1>6, <2>4, <2>5, <2>6
  <1>9. ASSUME c > 0
        PROVE  cs[1].first = 1 /\ cs[c].last = n
    <2>1. 1 \in 1..c /\ c \in 1..c /\ 1 - 1 = 0 /\ n > 0
      BY <1>2, <1>9
    <2>2. cs[1].first = 1
      <3>1. cs[1].first = (1 - 1) * Stride + 1
        BY <1>4, <2>1
      <3>2. 0 * Stride = 0
        BY Products
      <3> QED
        BY <2>1, <3>1, <3>2
    <2>3. cs[c].last = n
      BY <1>2, <1>4, <1>6, <2>1
    <2> QED
      BY <2>2, <2>3
  <1>10. Overlapping(cs, page, n)
    BY <1>2, <1>5, <1>7, <1>8, <1>9 DEF Overlapping
  <1> QED
    BY <1>0, <1>10

\* A word is in the first chunk that does not end before it.
LEMMA PageCovered ==
    ASSUME NEW n \in Nat, NEW page \in Nat, NEW cs, cs = PageChunks(page, n), NEW w \in 1..n
    PROVE  \E i \in 1..Len(cs) : w \in cs[i].first..cs[i].last
  <1>0. Overlapping(cs, page, n) /\ cs \in Seq(Chunk)
    <2>1. Overlapping(PageChunks(page, n), page, n)
      BY PageChunksAre
    <2>2. Overlapping(cs, page, n)
      BY <2>1
    <2> QED
      BY <2>2 DEF Overlapping
  <1>1. PICK c \in Nat : c = Len(cs)
    BY <1>0
  <1>2. /\ c > 0 /\ cs[1].first = 1 /\ cs[c].last = n
        /\ \A i \in 1..c : cs[i].first \in Nat /\ cs[i].last \in Nat
        /\ \A i \in 1..c - 1 : cs[i + 1].first = cs[i].last - Overlap + 1
    <2>1. \A i \in 1..c : cs[i] \in Chunk
      BY <1>0, <1>1
    <2>2. \A i \in 1..c : cs[i].first \in Nat /\ cs[i].last \in Nat
      BY <2>1 DEF Chunk
    <2>3. /\ \A i \in 1..Len(cs) - 1 : cs[i + 1].first = cs[i].last - Overlap + 1
          /\ Len(cs) > 0 => cs[1].first = 1 /\ cs[Len(cs)].last = n
          /\ n > 0 => Len(cs) > 0
      BY <1>0 DEF Overlapping
    <2>4. n > 0
      OBVIOUS
    <2> QED
      BY <1>1, <2>2, <2>3, <2>4
  <1>3. PICK S : S = {i \in 1..c : w <= cs[i].last}
    OBVIOUS
  <1>4. S \in SUBSET Nat /\ S # {}
    <2>1. c \in S
      BY <1>2, <1>3
    <2> QED
      BY <1>3, <2>1
  <1>5. PICK m \in S : \A x \in S : m <= x
    BY <1>4, MinIs
  <1>6. m \in 1..c /\ w <= cs[m].last
    BY <1>3
  <1>7. CASE m = 1
    BY <1>1, <1>2, <1>6, <1>7
  <1>8. CASE m > 1
    <2>1. PICK l \in 1..c - 1 : m = l + 1
      <3>1. m - 1 \in 1..c - 1 /\ m = (m - 1) + 1
        BY <1>6, <1>8
      <3> QED
        BY <3>1
    <2>2. l \notin S
      BY <1>5, <2>1
    <2>3. cs[l].last < w
      BY <1>2, <1>3, <2>1, <2>2
    <2>4. cs[m].first <= w
      BY <1>2, <2>1, <2>3, ChunkingAssumption
    <2>5. cs[m].first \in Nat /\ cs[m].last \in Nat /\ w \in Nat
      BY <1>2, <1>6
    <2>6. w \in cs[m].first..cs[m].last
      BY <1>6, <2>4, <2>5
    <2> QED
      BY <1>1, <1>6, <2>6
  <1> QED
    BY <1>6, <1>7, <1>8

LEMMA PageChunksTyped ==
    ASSUME NEW n \in Nat, NEW page \in Nat
    PROVE  PageChunks(page, n) \in Seq(Chunk)
  BY PageChunksAre DEF Overlapping

-----------------------------------------------------------------------------
(* The chunks of a document *)

LEMMA PagesOf ==
    ASSUME NEW pages \in Seq(Nat)
    PROVE  [p \in DOMAIN pages |-> PageChunks(p, pages[p])] \in Seq(Seq(Chunk))
  <1>1. PICK n \in Nat : DOMAIN pages = 1..n /\ \A p \in 1..n : pages[p] \in Nat
    BY LenProperties
  <1>2. ASSUME NEW p \in 1..n
        PROVE  PageChunks(p, pages[p]) \in Seq(Chunk)
    BY <1>1, PageChunksTyped
  <1>3. [p \in 1..n |-> PageChunks(p, pages[p])] \in [1..n -> Seq(Chunk)]
    BY <1>2
  <1> QED
    BY <1>1, <1>3, SeqDef

LEMMA RecordsAre ==
    ASSUME NEW pages \in Seq(Nat)
    PROVE  ChunkRecords(pages) = FlattenSeq([p \in DOMAIN pages |-> PageChunks(p, pages[p])])
  BY DEF ChunkRecords, PageChunks

\* The chunks of a page come after those of the pages before it.
LEMMA RecordsAppend ==
    ASSUME NEW pages \in Seq(Nat), NEW n \in Nat
    PROVE  ChunkRecords(Append(pages, n)) = ChunkRecords(pages) \o PageChunks(Len(pages) + 1, n)
  <1>1. PICK parts \in Seq(Seq(Chunk)) : parts = [p \in DOMAIN pages |-> PageChunks(p, pages[p])]
    BY PagesOf
  <1>2. PICK next \in Seq(Chunk) : next = PageChunks(Len(pages) + 1, n)
    <2>1. Len(pages) + 1 \in Nat
      OBVIOUS
    <2> QED
      BY <2>1, PageChunksTyped
  <1>3. PICK longer : longer = Append(pages, n)
    OBVIOUS
  <1>4. longer \in Seq(Nat) /\ [p \in DOMAIN longer |-> PageChunks(p, longer[p])] = Append(parts, next)
    BY <1>1, <1>2, <1>3
  <1>5. ChunkRecords(pages) = FlattenSeq(parts) /\ ChunkRecords(longer) = FlattenSeq(Append(parts, next))
    BY <1>1, <1>4, RecordsAre
  <1>6. FlattenSeq(Append(parts, next)) = FlattenSeq(parts) \o next
    BY FlattenAppend
  <1> QED
    BY <1>2, <1>3, <1>5, <1>6

\* What is known of the chunks of the pages so far.
Good(chunks, pages) ==
    /\ chunks \in Seq(Chunk) /\ Covers(chunks, pages)
    /\ \A c \in ToSet(chunks) : c.page \in 1..Len(pages)

LEMMA NextPage ==
    ASSUME NEW pages \in Seq(Nat), NEW n \in Nat, NEW cs, Good(cs, pages)
    PROVE  Good(cs \o PageChunks(Len(pages) + 1, n), Append(pages, n))
  <1>1. PICK l \in Nat : l = Len(pages)
    OBVIOUS
  <1>2. PICK new : new = PageChunks(l + 1, n)
    OBVIOUS
  <1>3. PICK q : q = Append(pages, n)
    OBVIOUS
  <1>4. /\ q \in Seq(Nat) /\ Len(q) = l + 1 /\ q[l + 1] = n /\ DOMAIN q = 1..l + 1
        /\ \A p \in 1..l : q[p] = pages[p]
    BY <1>1, <1>3
  <1>5. /\ new \in Seq(Chunk)
        /\ \A i \in 1..Len(new) : /\ new[i].page = l + 1 /\ new[i].first > 0
                                  /\ new[i].last \in new[i].first..n
                                  /\ new[i].last <= new[i].first + ChunkSize - 1
        /\ \A i \in 1..Len(new) - 1 : /\ new[i + 1].first = new[i].last - Overlap + 1
                                      /\ new[i + 1].last > new[i].last
        /\ Len(new) > 0 => new[1].first = 1
    <2>1. l + 1 \in Nat
      OBVIOUS
    <2>2. Overlapping(new, l + 1, n)
      BY <1>2, <2>1, PageChunksAre
    <2> QED
      BY <2>2 DEF Overlapping
  <1>6. cs \in Seq(Chunk)
    BY DEF Good
  <1>7. PICK a \in Nat, b \in Nat : a = Len(cs) /\ b = Len(new)
    BY <1>5, <1>6
  <1>8. PICK t : t = cs \o new
    OBVIOUS
  <1>9. /\ t \in Seq(Chunk) /\ Len(t) = a + b
        /\ \A i \in 1..a : t[i] = cs[i]
        /\ \A i \in 1..b : t[a + i] = new[i]
    <2>1. new \in Seq(Chunk)
      BY <1>5
    <2> QED
      BY <1>6, <1>7, <1>8, <2>1, ConcatAt
  <1>10. /\ \A i \in 1..a : cs[i] \in ToSet(cs) /\ t[i] \in ToSet(t)
         /\ \A i \in 1..b : t[a + i] \in ToSet(t)
    <2>1. DOMAIN cs = 1..a /\ DOMAIN t = 1..a + b
      BY <1>6, <1>7, <1>9
    <2>2. \A i \in 1..a : i \in 1..a + b
      OBVIOUS
    <2>3. \A i \in 1..b : a + i \in 1..a + b
      OBVIOUS
    <2> QED
      BY <2>1, <2>2, <2>3 DEF ToSet
  <1>11. \A c \in ToSet(t) : \/ \E i \in 1..a : c = cs[i] /\ cs[i] \in ToSet(cs)
                            \/ \E i \in 1..b : c = new[i]
    <2> SUFFICES ASSUME NEW c \in ToSet(t)
                 PROVE  \/ \E i \in 1..a : c = cs[i] /\ cs[i] \in ToSet(cs)
                        \/ \E i \in 1..b : c = new[i]
      OBVIOUS
    <2>1. PICK j \in 1..a + b : c = t[j]
      BY <1>9 DEF ToSet
    <2>2. CASE j <= a
      BY <1>9, <1>10, <2>1, <2>2
    <2>3. CASE j > a
      <3>1. PICK i \in 1..b : i = j - a
        BY <2>3
      <3>2. a + i = j
        BY <3>1
      <3> QED
        BY <1>9, <2>1, <3>1, <3>2
    <2> QED
      BY <2>2, <2>3
  <1>12. \A c \in ToSet(cs) : c.page \in 1..l /\ c.page \in 1..l + 1
    BY <1>1 DEF Good
  <1>13. \A c \in ToSet(t) : c.page \in 1..l + 1
    <2>1. \A i \in 1..b : new[i].page \in 1..l + 1
      BY <1>5, <1>7
    <2> QED
      BY <1>11, <1>12, <2>1
  <1>14. ASSUME NEW p \in 1..l + 1, NEW w \in 1..q[p]
         PROVE  \E c \in ToSet(t) : c.page = p /\ w \in c.first..c.last
    <2>1. CASE p \in 1..l
      <3>1. p \in DOMAIN pages /\ w \in 1..pages[p]
        BY <1>1, <1>4, <2>1
      <3>2. PICK c \in ToSet(cs) : c.page = p /\ w \in c.first..c.last
        BY <3>1 DEF Good, Covers
      <3>3. PICK i \in 1..a : c = cs[i]
        BY <1>6, <1>7 DEF ToSet
      <3>4. c \in ToSet(t)
        BY <1>9, <1>10, <3>3
      <3> QED
        BY <3>2, <3>4
    <2>2. CASE p = l + 1
      <3>1. w \in 1..n
        BY <1>4, <2>2
      <3>2. PICK i \in 1..b : w \in new[i].first..new[i].last
        <4>1. l + 1 \in Nat
          OBVIOUS
        <4>2. \E i \in 1..Len(new) : w \in new[i].first..new[i].last
          BY <1>2, <3>1, <4>1, PageCovered
        <4> QED
          BY <1>7, <4>2
      <3>3. new[i].page = p /\ new[i] \in ToSet(t)
        BY <1>5, <1>7, <1>9, <1>10, <2>2
      <3> QED
        BY <3>2, <3>3
    <2> QED
      BY <2>1, <2>2
  <1>15. ASSUME NEW c \in ToSet(t)
         PROVE  c.last \in c.first..Min({c.first + ChunkSize - 1, q[c.page]})
    <2>1. ASSUME c \in ToSet(cs)
          PROVE  c.last \in c.first..Min({c.first + ChunkSize - 1, q[c.page]})
      <3>1. q[c.page] = pages[c.page]
        BY <1>4, <1>12, <2>1
      <3>2. c.last \in c.first..Min({c.first + ChunkSize - 1, pages[c.page]})
        BY <2>1 DEF Good, Covers
      <3> QED
        BY <3>1, <3>2
    <2>2. ASSUME NEW i \in 1..b, c = new[i]
          PROVE  c.last \in c.first..Min({c.first + ChunkSize - 1, q[c.page]})
      <3>1. q[c.page] = n
        BY <1>4, <1>5, <1>7, <2>2
      <3>2. c \in Chunk /\ c.first \in Nat /\ c.first > 0
        <4>1. new \in Seq(Chunk) /\ i \in 1..Len(new) /\ c.first > 0
          BY <1>5, <1>7, <2>2
        <4>2. c \in Chunk
          BY <2>2, <4>1
        <4> QED
          BY <4>1, <4>2 DEF Chunk
      <3>3. PICK e \in Nat : e = c.first + ChunkSize - 1
        BY <3>2, ChunkingAssumption
      <3>4. Min({e, n}) = IF e <= n THEN e ELSE n
        BY LesserOf
      <3>5. c.last \in c.first..n /\ c.last <= e
        BY <1>5, <1>7, <2>2, <3>3
      <3>6. c.last \in c.first..Min({e, n})
        BY <3>2, <3>4, <3>5
      <3> QED
        BY <3>1, <3>3, <3>6
    <2> QED
      BY <1>11, <2>1, <2>2
  <1>16. ASSUME NEW i \in 1..Len(t) - 1
         PROVE  IF t[i + 1].page = t[i].page
                THEN t[i + 1].first = t[i].last - Overlap + 1 /\ t[i + 1].last > t[i].last
                ELSE t[i + 1].page > t[i].page /\ t[i + 1].first = 1
    <2>1. CASE i < a
      <3>1. i \in 1..Len(cs) - 1 /\ i \in 1..a /\ i + 1 \in 1..a
        BY <1>7, <2>1
      <3>2. t[i] = cs[i] /\ t[i + 1] = cs[i + 1]
        BY <1>9, <3>1
      <3> QED
        BY <3>1, <3>2 DEF Good, Covers
    <2>2. CASE i = a
      <3>1. i \in 1..a /\ 1 \in 1..b /\ b > 0
        BY <1>9, <2>2
      <3>2. t[i] \in ToSet(cs) /\ t[i + 1] = new[1]
        BY <1>9, <1>10, <2>2, <3>1
      <3>3. t[i].page \in 1..l /\ t[i + 1].page = l + 1 /\ t[i + 1].first = 1
        BY <1>5, <1>7, <1>12, <3>1, <3>2
      <3> QED
        BY <3>3
    <2>3. CASE i > a
      <3>1. PICK j \in 1..b - 1 : j = i - a
        BY <1>9, <2>3
      <3>2. i = a + j /\ i + 1 = a + (j + 1) /\ j \in 1..b /\ j + 1 \in 1..b
        BY <3>1
      <3>3. t[i] = new[j] /\ t[i + 1] = new[j + 1]
        BY <1>9, <3>2
      <3>4. new[j].page = l + 1 /\ new[j + 1].page = l + 1
        BY <1>5, <1>7, <3>2
      <3>5. new[j + 1].first = new[j].last - Overlap + 1 /\ new[j + 1].last > new[j].last
        BY <1>5, <1>7, <3>1
      <3> QED
        BY <3>3, <3>4, <3>5
    <2> QED
      BY <2>1, <2>2, <2>3
  <1>17. Covers(t, q)
    <2>1. \A p \in DOMAIN q : \A w \in 1..q[p] :
             \E c \in ToSet(t) : c.page = p /\ w \in c.first..c.last
      BY <1>4, <1>14
    <2> QED
      BY <1>15, <1>16, <2>1 DEF Covers
  <1>18. Good(t, q)
    BY <1>4, <1>9, <1>13, <1>17 DEF Good
  <1> QED
    BY <1>1, <1>2, <1>3, <1>8, <1>18

\* Whatever the lengths of its pages, the chunks that ingest_document stores of
\* a document cover it: every word is in a chunk, the chunks follow the text, and
\* those of a page overlap (chunking.py:7-20, document_ingestion.py:44-48).
THEOREM DocumentCovered ==
    ASSUME NEW pages \in Seq(Nat)
    PROVE  Covers(ChunkRecords(pages), pages)
  <1> DEFINE T == {q \in Seq(Nat) : Good(ChunkRecords(q), q)}
  <1>1. <<>> \in T
    <2>1. <<>> \in Seq(Nat) /\ <<>> \in Seq(Chunk) /\ DOMAIN <<>> = {} /\ Len(<<>>) = 0
      OBVIOUS
    <2>2. ChunkRecords(<<>>) = <<>>
      BY <2>1, FlattenEmpty DEF ChunkRecords
    <2>3. Good(<<>>, <<>>)
      BY <2>1 DEF Good, Covers, ToSet
    <2> QED
      BY <2>1, <2>2, <2>3
  <1>2. ASSUME NEW q \in Seq(Nat), NEW n \in Nat, q \in T
        PROVE  Append(q, n) \in T
    <2>1. Good(ChunkRecords(q), q)
      BY <1>2
    <2>2. Good(ChunkRecords(q) \o PageChunks(Len(q) + 1, n), Append(q, n))
      BY <2>1, NextPage
    <2>3. Append(q, n) \in Seq(Nat)
      OBVIOUS
    <2> QED
      BY <2>2, <2>3, RecordsAppend
  <1> HIDE DEF T
  <1>3. Seq(Nat) \subseteq T
    BY <1>1, <1>2, SequenceInduction
  <1> QED
    BY <1>3 DEF T, Good

=============================================================================
