----------------------------- MODULE RankFusion -----------------------------
(***************************************************************************)
(* reciprocal_rank_fusion of app/services/rrf.py and the part of           *)
(* hybrid_retrieve (retrieval.py) that follows its two queries.  Scores    *)
(* are exact fractions, compared by multiplying crosswise.  The floats of  *)
(* the code order different scores alike; equal scores of different ranks  *)
(* they may round apart (1/66 + 1/99 and 1/72 + 1/88).                     *)
(***************************************************************************)
EXTENDS Integers, SequencesExt

CONSTANTS
    Chunks,       \* ids of chunks, as numbers: the order breaks ties
    RrfK,         \* settings.rrf_k
    MinCandidates \* the 10 of candidate_k

ASSUME FusionAssumption ==
    Chunks \subseteq Nat /\ IsFiniteSet(Chunks) /\ RrfK \in Nat /\ MinCandidates \in Nat \ {0}

CandidateK(topK) == Max({topK * 3, MinCandidates})

\* What the queries may return: the dense ranking has every chunk, the sparse
\* one those that match the words of the question.
Rankings(topK) ==
    LET Ranked == {r \in SetToAllKPermutations(Chunks) : Len(r) <= CandidateK(topK)}
    IN  {r \in Ranked : Len(r) = Min({CandidateK(topK), Cardinality(Chunks)})} \X Ranked

Rank(ranking, id) == CHOOSE r \in DOMAIN ranking : ranking[r] = id

\* 1/(k + rank), or nothing, as a pair of numerator and denominator.
Share(ranking, id) ==
    IF id \in ToSet(ranking) THEN <<1, RrfK + Rank(ranking, id)>> ELSE <<0, 1>>

Plus(p, q) == <<p[1] * q[2] + q[1] * p[2], p[2] * q[2]>>
Exceeds(p, q) == p[1] * q[2] > q[1] * p[2]

\* Mutant: the score in one ranking replaces that in the other.
ScoreLast(id, rankings) ==
    Share(IF id \in ToSet(rankings[2]) THEN rankings[2] ELSE rankings[1], id)

Score(id, rankings) == Plus(Share(rankings[1], id), Share(rankings[2], id))

\* The key of the sort: by descending score, then by id.
Before(a, b, rankings) ==
    LET p == Score(a, rankings)
        q == Score(b, rankings)
    IN  Exceeds(p, q) \/ (~Exceeds(q, p) /\ a < b)

Candidates(rankings) == ToSet(rankings[1]) \cup ToSet(rankings[2])

Fused(rankings) ==
    CHOOSE s \in SetToSeqs(Candidates(rankings)) :
        \A i, j \in DOMAIN s : i < j => Before(s[i], s[j], rankings)

\* fused[:top_k]
Hits(rankings, topK) ==
    SubSeq(Fused(rankings), 1, Min({topK, Len(Fused(rankings))}))

-----------------------------------------------------------------------------
(* What fusion is for *)

\* Unlisted is below every rank.
Place(ranking, id) ==
    IF id \in ToSet(ranking) THEN Rank(ranking, id) ELSE Cardinality(Chunks) + 1

\* a deserves to be above b: no ranking has it below b and one has it above;
\* or the rankings have the two in each other's places, and a is the lesser.
Above(a, b, rankings) ==
    LET p == [i \in 1..2 |-> Place(rankings[i], a)]
        q == [i \in 1..2 |-> Place(rankings[i], b)]
    IN  \/ p # q /\ \A i \in 1..2 : p[i] <= q[i]
        \/ a < b /\ p[1] = q[2] /\ p[2] = q[1]

\* The hits are the best candidates in their order.
WellRanked(hits, rankings, topK) ==
    /\ ToSet(hits) \subseteq Candidates(rankings) /\ IsInjective(hits)
    /\ Len(hits) = Min({topK, Cardinality(Candidates(rankings))})
    /\ \A i \in DOMAIN hits, a \in Candidates(rankings) :
          Above(a, hits[i], rankings) => \E j \in 1..i-1 : hits[j] = a

=============================================================================
