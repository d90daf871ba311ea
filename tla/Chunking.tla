------------------------------ MODULE Chunking ------------------------------
(***************************************************************************)
(* chunk_text of app/services/chunking.py, and the chunk_records that      *)
(* document_ingestion.py collects from the pages of a document.  The words *)
(* of a page are 1..n; a chunk is the interval of the words it joins.      *)
(***************************************************************************)
EXTENDS Integers, SequencesExt

CONSTANTS ChunkSize, Overlap    \* the defaults of chunk_text

ASSUME ChunkingAssumption ==
    ChunkSize \in Nat \ {0} /\ Overlap \in Nat /\ Overlap < ChunkSize

Stride == ChunkSize - Overlap

\* Mutant: the loop breaks with > instead of >=.
TurnsLate(n) ==
    {i \in 0..n-1 : i * Stride < n /\ (i > 0 => (i - 1) * Stride + ChunkSize <= n)}

\* The turns of the loop: they start at the multiples of the stride below n, up
\* to the first whose window reaches the last word.
Turns(n) ==
    {i \in 0..n-1 : i * Stride < n /\ (i > 0 => (i - 1) * Stride + ChunkSize < n)}

\* words[start:start + chunk_size]
Window(start, n) == [first |-> start + 1, last |-> Min({start + ChunkSize, n})]

ChunkText(n) ==
    [i \in 1..Cardinality(Turns(n)) |-> Window((i - 1) * Stride, n)]

\* The chunks of a document, page by page.
ChunkRecords(pages) ==
    FlattenSeq([p \in DOMAIN pages |->
        [i \in DOMAIN ChunkText(pages[p]) |->
            [page |-> p, first |-> ChunkText(pages[p])[i].first,
                         last |-> ChunkText(pages[p])[i].last]]])

\* What chunking is for: every word of every page is in a chunk, chunks follow
\* the text, a chunk starts with the last Overlap words of the one before it on
\* its page, and adds something to it.
Covers(chunks, pages) ==
    /\ \A p \in DOMAIN pages : \A w \in 1..pages[p] :
          \E c \in ToSet(chunks) : c.page = p /\ w \in c.first..c.last
    /\ \A c \in ToSet(chunks) : c.last \in c.first..Min({c.first + ChunkSize - 1, pages[c.page]})
    /\ \A i \in 1..Len(chunks) - 1 :
          LET c == chunks[i]
              d == chunks[i + 1]
          IN  IF d.page = c.page
              THEN d.first = c.last - Overlap + 1 /\ d.last > c.last
              ELSE d.page > c.page /\ d.first = 1

=============================================================================
