------------------------- MODULE AnswerStreamProofs -------------------------
(***************************************************************************)
(* Theorems about a streamed answer, from the run of the backend to the    *)
(* gateway's reader, for every set of chunks and deltas, texts of any      *)
(* length, every bound, and every way the network cuts the bytes.          *)
(***************************************************************************)
EXTENDS AnswerStream, SseFramingProofs, TLAPS

\* A step that leaves what is committed alone.
Kept == UNCHANGED <<run, messages>>

-----------------------------------------------------------------------------
(* Rank fusion *)

\* Numerator and denominator.
Fractions == Nat \X (Nat \ {0})

LEMMA CancelLess ==
    ASSUME NEW a \in Nat, NEW b \in Nat, NEW c \in Nat \ {0}
    PROVE  (a * c > b * c <=> a > b) /\ (a * c >= b * c <=> a >= b)
  OBVIOUS

LEMMA ExceedsOrders ==
    ASSUME NEW p \in Fractions, NEW q \in Fractions, NEW r \in Fractions
    PROVE  /\ ~Exceeds(p, p)
           /\ Exceeds(p, q) => ~Exceeds(q, p)
           /\ Exceeds(p, q) /\ ~Exceeds(r, q) => Exceeds(p, r)
           /\ ~Exceeds(q, p) /\ Exceeds(q, r) => Exceeds(p, r)
           /\ ~Exceeds(q, p) /\ ~Exceeds(r, q) => ~Exceeds(r, p)
  <1>1. PICK a \in Nat, b \in Nat \ {0}, c \in Nat, d \in Nat \ {0}, e \in Nat, f \in Nat \ {0} :
            p = <<a, b>> /\ q = <<c, d>> /\ r = <<e, f>>
    <2>1. \A t \in Fractions : \E i \in Nat, j \in Nat \ {0} : t = <<i, j>>
      BY DEF Fractions
    <2>2. PICK a \in Nat, b \in Nat \ {0} : p = <<a, b>>
      BY <2>1
    <2>3. PICK c \in Nat, d \in Nat \ {0} : q = <<c, d>>
      BY <2>1
    <2>4. PICK e \in Nat, f \in Nat \ {0} : r = <<e, f>>
      BY <2>1
    <2> QED
      BY <2>2, <2>3, <2>4
  <1>2. /\ Exceeds(p, q) <=> a * d > c * b
        /\ Exceeds(q, p) <=> c * b > a * d
        /\ Exceeds(q, r) <=> c * f > e * d
        /\ Exceeds(r, q) <=> e * d > c * f
        /\ Exceeds(p, r) <=> a * f > e * b
        /\ Exceeds(r, p) <=> e * b > a * f
        /\ ~Exceeds(p, p)
    BY <1>1 DEF Exceeds
  <1>3. PICK ad \in Nat, cb \in Nat, cf \in Nat, ed \in Nat, af \in Nat, eb \in Nat :
            /\ ad = a * d /\ cb = c * b /\ cf = c * f /\ ed = e * d /\ af = a * f /\ eb = e * b
            /\ ad * f = af * d /\ cb * f = cf * b /\ ed * b = eb * d
    OBVIOUS
  <1>4. /\ ad * f > cb * f <=> ad > cb
        /\ ad * f >= cb * f <=> ad >= cb
        /\ cf * b > ed * b <=> cf > ed
        /\ cf * b >= ed * b <=> cf >= ed
        /\ af * d > eb * d <=> af > eb
        /\ af * d >= eb * d <=> af >= eb
    BY CancelLess
  <1>5. PICK x \in Nat, y \in Nat, z \in Nat : x = ad * f /\ y = cb * f /\ z = ed * b
    OBVIOUS
  <1>6. /\ x > y <=> ad > cb
        /\ x >= y <=> ad >= cb
        /\ y > z <=> cf > ed
        /\ y >= z <=> cf >= ed
        /\ x > z <=> af > eb
        /\ x >= z <=> af >= eb
    BY <1>3, <1>4, <1>5
  <1> QED
    BY <1>2, <1>3, <1>6

\* Sums of fractions keep their order.
LEMMA PlusOrders ==
    ASSUME NEW p \in Fractions, NEW q \in Fractions, NEW r \in Fractions, NEW s \in Fractions,
           ~Exceeds(r, p), ~Exceeds(s, q), Exceeds(p, r) \/ Exceeds(q, s)
    PROVE  Exceeds(Plus(p, q), Plus(r, s))
  <1>1. \A t \in Fractions : \E i \in Nat, j \in Nat \ {0} : t = <<i, j>>
    BY DEF Fractions
  <1>2. PICK a \in Nat, b \in Nat \ {0}, c \in Nat, d \in Nat \ {0} : p = <<a, b>> /\ q = <<c, d>>
    BY <1>1
  <1>3. PICK e \in Nat, f \in Nat \ {0}, g \in Nat, h \in Nat \ {0} : r = <<e, f>> /\ s = <<g, h>>
    BY <1>1
  <1>4. p = <<a, b>> /\ q = <<c, d>> /\ r = <<e, f>> /\ s = <<g, h>>
    BY <1>2, <1>3
  <1>5. PICK af \in Nat, eb \in Nat, ch \in Nat, gd \in Nat :
            af = a * f /\ eb = e * b /\ ch = c * h /\ gd = g * d
    OBVIOUS
  <1>6. af >= eb /\ ch >= gd /\ (af > eb \/ ch > gd)
    BY <1>4, <1>5 DEF Exceeds
  <1>7. PICK dh \in Nat \ {0}, bf \in Nat \ {0} : dh = d * h /\ bf = b * f
    <2>1. d * h \in Nat \ {0} /\ b * f \in Nat \ {0}
      OBVIOUS
    <2> QED
      BY <2>1
  <1>8. (a * d + c * b) * (f * h) = af * dh + ch * bf
    BY <1>5, <1>7
  <1>9. (e * h + g * f) * (b * d) = eb * dh + gd * bf
    BY <1>5, <1>7
  <1>10. /\ af * dh >= eb * dh /\ ch * bf >= gd * bf
         /\ af * dh > eb * dh \/ ch * bf > gd * bf
    BY <1>6, CancelLess
  <1>11. af * dh + ch * bf > eb * dh + gd * bf
    <2>1. PICK t \in Nat, u \in Nat, v \in Nat, w \in Nat :
              t = af * dh /\ u = ch * bf /\ v = eb * dh /\ w = gd * bf
      OBVIOUS
    <2>2. t >= v /\ u >= w /\ (t > v \/ u > w)
      BY <1>10, <2>1
    <2>3. t + u > v + w
      BY <2>2
    <2> QED
      BY <2>1, <2>3
  <1>12. Plus(p, q) = <<a * d + c * b, b * d>> /\ Plus(r, s) = <<e * h + g * f, f * h>>
    BY <1>4 DEF Plus
  <1> QED
    BY <1>8, <1>9, <1>11, <1>12 DEF Exceeds

-----------------------------------------------------------------------------

\* What a query returns: chunks, none of them twice.
IsRanking(r) ==
    \E m \in 0..Cardinality(Chunks) :
        r \in [1..m -> Chunks] /\ \A i, j \in 1..m : i # j => r[i] # r[j]

LEMMA RankingsTyped ==
    ASSUME NEW topK \in Nat \ {0}, NEW rankings \in Rankings(topK)
    PROVE  IsRanking(rankings[1]) /\ IsRanking(rankings[2])
  <1>1. ASSUME NEW r \in SetToAllKPermutations(Chunks)
        PROVE  IsRanking(r)
    <2>1. PICK ids \in SUBSET Chunks : r \in SetToSeqs(ids)
      BY <1>1 DEF SetToAllKPermutations
    <2>2. Cardinality(ids) \in 0..Cardinality(Chunks)
      <3>1. IsFiniteSet(ids) /\ Cardinality(ids) <= Cardinality(Chunks)
        BY FusionAssumption, FS_Subset
      <3>2. Cardinality(ids) \in Nat /\ Cardinality(Chunks) \in Nat
        BY <3>1, FusionAssumption, FS_CardinalityType
      <3> QED
        BY <3>1, <3>2
    <2>3. /\ r \in [1..Cardinality(ids) -> ids]
          /\ \A i, j \in 1..Cardinality(ids) : i # j => r[i] # r[j]
      BY <2>1 DEF SetToSeqs
    <2>4. r \in [1..Cardinality(ids) -> Chunks]
      BY <2>3
    <2> QED
      BY <2>2, <2>3, <2>4 DEF IsRanking
  <1> QED
    BY <1>1 DEF Rankings

\* A listed chunk has one rank, and it is at most the number of chunks.
LEMMA RankIs ==
    ASSUME NEW r, IsRanking(r)
    PROVE  /\ ToSet(r) \subseteq Chunks
           /\ \A id \in ToSet(r) : Rank(r, id) \in 1..Cardinality(Chunks)
  <1>1. PICK m \in 0..Cardinality(Chunks) : r \in [1..m -> Chunks]
    BY DEF IsRanking
  <1>2. Cardinality(Chunks) \in Nat
    BY FusionAssumption, FS_CardinalityType
  <1>3. ASSUME NEW id \in ToSet(r)
        PROVE  Rank(r, id) \in 1..m
    BY <1>1 DEF ToSet, Rank
  <1> QED
    BY <1>1, <1>2, <1>3 DEF ToSet

LEMMA ShareTyped ==
    ASSUME NEW r, IsRanking(r), NEW id
    PROVE  Share(r, id) \in Fractions
  <1>1. Rank(r, id) \in 1..Cardinality(Chunks) \/ id \notin ToSet(r)
    BY RankIs
  <1>2. Cardinality(Chunks) \in Nat
    BY FusionAssumption, FS_CardinalityType
  <1>3. id \in ToSet(r) => RrfK + Rank(r, id) \in Nat \ {0}
    BY <1>1, <1>2, FusionAssumption
  <1> QED
    BY <1>3 DEF Share, Fractions

\* A better place has a greater share.
LEMMA ShareOrders ==
    ASSUME NEW r, IsRanking(r), NEW a, NEW b, Place(r, a) <= Place(r, b)
    PROVE  /\ ~Exceeds(Share(r, b), Share(r, a))
           /\ Place(r, a) # Place(r, b) => Exceeds(Share(r, a), Share(r, b))
  <1>1. PICK n \in Nat : n = Cardinality(Chunks)
    BY FusionAssumption, FS_CardinalityType
  <1>2. \A id \in ToSet(r) : Rank(r, id) \in 1..n
    BY <1>1, RankIs
  <1>3. PICK k \in Nat : k = RrfK
    BY FusionAssumption
  <1>4. CASE a \in ToSet(r) /\ b \in ToSet(r)
    <2>1. PICK i \in 1..n, j \in 1..n : i = Rank(r, a) /\ j = Rank(r, b)
      BY <1>2, <1>4
    <2>2. Share(r, a) = <<1, k + i>> /\ Share(r, b) = <<1, k + j>> /\ i <= j
      BY <1>3, <1>4, <2>1 DEF Share, Place
    <2> QED
      BY <1>4, <2>1, <2>2 DEF Exceeds, Place
  <1>5. CASE a \in ToSet(r) /\ b \notin ToSet(r)
    <2>1. PICK i \in 1..n : i = Rank(r, a)
      BY <1>2, <1>5
    <2>2. Share(r, a) = <<1, k + i>> /\ Share(r, b) = <<0, 1>>
      BY <1>3, <1>5, <2>1 DEF Share
    <2> QED
      BY <2>1, <2>2 DEF Exceeds
  <1>6. CASE a \notin ToSet(r)
    <2>1. b \notin ToSet(r)
      BY <1>1, <1>2, <1>6 DEF Place
    <2> QED
      BY <1>6, <2>1 DEF Share, Exceeds, Place
  <1> QED
    BY <1>4, <1>5, <1>6

\* The same place has the same share, in whichever ranking.
LEMMA SharesEqual ==
    ASSUME NEW r, IsRanking(r), NEW t, IsRanking(t), NEW a, NEW b, Place(r, a) = Place(t, b)
    PROVE  Share(r, a) = Share(t, b)
  <1>1. PICK n \in Nat : n = Cardinality(Chunks)
    BY FusionAssumption, FS_CardinalityType
  <1>2. /\ \A id \in ToSet(r) : Rank(r, id) \in 1..n
        /\ \A id \in ToSet(t) : Rank(t, id) \in 1..n
    BY <1>1, RankIs
  <1> QED
    BY <1>1, <1>2 DEF Place, Share

LEMMA ScoreTyped ==
    ASSUME NEW rankings, IsRanking(rankings[1]), IsRanking(rankings[2]), NEW id
    PROVE  Score(id, rankings) \in Fractions
  <1>0. \A t \in Fractions : \E i \in Nat, j \in Nat \ {0} : t = <<i, j>>
    BY DEF Fractions
  <1>1. PICK a \in Nat, b \in Nat \ {0} : Share(rankings[1], id) = <<a, b>>
    BY <1>0, ShareTyped
  <1>2. PICK c \in Nat, d \in Nat \ {0} : Share(rankings[2], id) = <<c, d>>
    BY <1>0, ShareTyped
  <1>3. a * d + c * b \in Nat /\ b * d \in Nat \ {0}
    OBVIOUS
  <1> QED
    BY <1>1, <1>2, <1>3 DEF Score, Plus, Fractions

\* The key of the sort orders the chunks strictly and totally.
LEMMA BeforeOrders ==
    ASSUME NEW rankings, IsRanking(rankings[1]), IsRanking(rankings[2])
    PROVE  /\ \A a \in Chunks : ~Before(a, a, rankings)
           /\ \A a, b \in Chunks : a # b => Before(a, b, rankings) \/ Before(b, a, rankings)
           /\ \A a, b, c \in Chunks :
                 Before(a, b, rankings) /\ Before(b, c, rankings) => Before(a, c, rankings)
  <1>1. ASSUME NEW a \in Chunks, NEW b \in Chunks, NEW c \in Chunks
        PROVE  /\ ~Before(a, a, rankings)
               /\ a # b => Before(a, b, rankings) \/ Before(b, a, rankings)
               /\ Before(a, b, rankings) /\ Before(b, c, rankings) => Before(a, c, rankings)
    <2>1. PICK p \in Fractions, q \in Fractions, r \in Fractions :
              p = Score(a, rankings) /\ q = Score(b, rankings) /\ r = Score(c, rankings)
      BY ScoreTyped
    <2>2. a \in Nat /\ b \in Nat /\ c \in Nat
      BY FusionAssumption
    <2>3. /\ Before(a, b, rankings) <=> Exceeds(p, q) \/ (~Exceeds(q, p) /\ a < b)
          /\ Before(b, a, rankings) <=> Exceeds(q, p) \/ (~Exceeds(p, q) /\ b < a)
          /\ Before(b, c, rankings) <=> Exceeds(q, r) \/ (~Exceeds(r, q) /\ b < c)
          /\ Before(a, c, rankings) <=> Exceeds(p, r) \/ (~Exceeds(r, p) /\ a < c)
          /\ Before(a, a, rankings) <=> Exceeds(p, p) \/ (~Exceeds(p, p) /\ a < a)
      BY <2>1 DEF Before
    <2>4. /\ ~Exceeds(p, p)
          /\ Exceeds(p, q) => ~Exceeds(q, p)
          /\ Exceeds(p, q) /\ ~Exceeds(r, q) => Exceeds(p, r)
          /\ ~Exceeds(q, p) /\ Exceeds(q, r) => Exceeds(p, r)
          /\ ~Exceeds(q, p) /\ ~Exceeds(r, q) => ~Exceeds(r, p)
          /\ Exceeds(q, r) => ~Exceeds(r, q)
      BY ExceedsOrders
    <2> QED
      BY <2>2, <2>3, <2>4
  <1> QED
    BY <1>1

\* A chunk that deserves it comes before.
LEMMA AboveIsBefore ==
    ASSUME NEW rankings, IsRanking(rankings[1]), IsRanking(rankings[2]),
           NEW a \in Chunks, NEW b \in Chunks, Above(a, b, rankings)
    PROVE  Before(a, b, rankings)
  <1>1. PICK r, t : r = rankings[1] /\ t = rankings[2] /\ IsRanking(r) /\ IsRanking(t)
    OBVIOUS
  <1>2. \/ /\ Place(r, a) <= Place(r, b) /\ Place(t, a) <= Place(t, b)
           /\ Place(r, a) # Place(r, b) \/ Place(t, a) # Place(t, b)
        \/ a < b /\ Place(r, a) = Place(t, b) /\ Place(t, a) = Place(r, b)
    BY <1>1 DEF Above
  <1>3. PICK p \in Fractions, q \in Fractions, u \in Fractions, v \in Fractions :
            p = Share(r, a) /\ q = Share(t, a) /\ u = Share(r, b) /\ v = Share(t, b)
    BY <1>1, ShareTyped
  <1>4. Score(a, rankings) = Plus(p, q) /\ Score(b, rankings) = Plus(u, v)
    BY <1>1, <1>3 DEF Score
  <1>5. CASE /\ Place(r, a) <= Place(r, b) /\ Place(t, a) <= Place(t, b)
             /\ Place(r, a) # Place(r, b) \/ Place(t, a) # Place(t, b)
    <2>1. ~Exceeds(u, p) /\ ~Exceeds(v, q) /\ (Exceeds(p, u) \/ Exceeds(q, v))
      BY <1>1, <1>3, <1>5, ShareOrders
    <2>2. Exceeds(Plus(p, q), Plus(u, v))
      BY <2>1, PlusOrders
    <2> QED
      BY <1>4, <2>2 DEF Before
  <1>6. CASE a < b /\ Place(r, a) = Place(t, b) /\ Place(t, a) = Place(r, b)
    <2>1. p = v /\ q = u
      BY <1>1, <1>3, <1>6, SharesEqual
    <2>2. Plus(p, q) = Plus(q, p)
      <3>1. PICK i \in Nat, j \in Nat \ {0}, k \in Nat, l \in Nat \ {0} : p = <<i, j>> /\ q = <<k, l>>
        BY DEF Fractions
      <3>2. i * l + k * j = k * j + i * l /\ j * l = l * j
        OBVIOUS
      <3> QED
        BY <3>1, <3>2 DEF Plus
    <2>3. Score(a, rankings) = Score(b, rankings)
      BY <1>4, <2>1, <2>2
    <2>4. ~Exceeds(Score(b, rankings), Score(a, rankings))
      BY <2>3, ScoreTyped, ExceedsOrders
    <2> QED
      BY <1>6, <2>4 DEF Before
  <1> QED
    BY <1>2, <1>5, <1>6

\* The sort lists every candidate once, in the order of its key.
LEMMA FusedSorts ==
    ASSUME NEW rankings, IsRanking(rankings[1]), IsRanking(rankings[2]),
           NEW s, s = Fused(rankings), NEW n, n = Cardinality(Candidates(rankings))
    PROVE  /\ n \in Nat /\ s \in [1..n -> Chunks]
           /\ \A i, j \in 1..n : i < j => Before(s[i], s[j], rankings)
           /\ \A i, j \in 1..n : s[i] = s[j] => i = j
           /\ \A a \in Candidates(rankings) : \E i \in 1..n : s[i] = a
           /\ \A i \in 1..n : s[i] \in Candidates(rankings)
  <1> DEFINE C == Candidates(rankings)
             order == {pair \in C \X C : Before(pair[1], pair[2], rankings)}
             Sorts(f) == /\ f \in SetToSeqs(C)
                         /\ \A i, j \in DOMAIN f : i < j => Before(f[i], f[j], rankings)
  <1>0. n = Cardinality(C)
    OBVIOUS
  <1>1. C \in SUBSET Chunks /\ IsFiniteSet(C) /\ n \in Nat
    <2>1. C \in SUBSET Chunks
      BY RankIs DEF Candidates
    <2>2. IsFiniteSet(C)
      BY <2>1, FusionAssumption, FS_Subset
    <2> QED
      BY <1>0, <2>1, <2>2, FS_CardinalityType
  <1>2. \A a, b \in C : <<a, b>> \in order <=> Before(a, b, rankings)
    OBVIOUS
  <1>3. order \in SUBSET (C \X C)
    OBVIOUS
  <1> HIDE DEF C, order
  <1>4. /\ \A x \in C : <<x, x>> \notin order
        /\ \A x, y \in C : x # y => <<x, y>> \in order \/ <<y, x>> \in order
        /\ \A x, y, z \in C : <<x, y>> \in order /\ <<y, z>> \in order => <<x, z>> \in order
    BY <1>1, <1>2, BeforeOrders
  <1>5. PICK t \in [1..n -> C] : \A i, j \in 1..n : i < j => <<t[i], t[j]>> \in order
    BY <1>1, <1>3, <1>4, <1>0, SortedListing
  <1>6. Sorts(t)
    <2>1. \A i, j \in 1..n : i # j => t[i] # t[j]
      <3>1. \A i, j \in 1..n : i < j => t[i] # t[j]
        BY <1>4, <1>5
      <3> QED
        BY <1>1, <3>1
    <2>2. t \in SetToSeqs(C)
      BY <1>0, <1>5, <2>1 DEF SetToSeqs
    <2> QED
      BY <1>2, <1>5, <2>2
  <1>8. Sorts(s)
    BY <1>6 DEF Fused, C
  <1>9. s \in [1..n -> C] /\ \A i, j \in 1..n : i # j => s[i] # s[j]
    BY <1>0, <1>8 DEF SetToSeqs
  <1>10. \A i, j \in 1..n : i < j => Before(s[i], s[j], rankings)
    BY <1>8, <1>9
  <1>11. s \in Surjection(1..n, C)
    <2>1. s \in Injection(1..n, C)
      BY <1>9 DEF Injection, IsInjective
    <2>2. IsFiniteSet(1..n) /\ Cardinality(1..n) = n
      BY <1>1, FS_Interval
    <2> QED
      BY <1>0, <1>1, <2>1, <2>2, FS_Injection
  <1>12. \A a \in C : \E i \in 1..n : s[i] = a
    BY <1>11 DEF Surjection
  <1>13. s \in [1..n -> Chunks]
    BY <1>1, <1>9
  <1>14. \A i \in 1..n : s[i] \in C
    BY <1>9
  <1> QED
    BY <1>1, <1>9, <1>10, <1>12, <1>13, <1>14 DEF C

\* The hits are the first of the candidates in that order.
LEMMA HitsRanked ==
    ASSUME NEW topK \in Nat \ {0}, NEW rankings \in Rankings(topK)
    PROVE  WellRanked(Hits(rankings, topK), rankings, topK)
  <1>1. IsRanking(rankings[1]) /\ IsRanking(rankings[2])
    BY RankingsTyped
  <1>2. PICK s, n : s = Fused(rankings) /\ n = Cardinality(Candidates(rankings))
    OBVIOUS
  <1>3. /\ n \in Nat /\ s \in [1..n -> Chunks]
        /\ \A i, j \in 1..n : i < j => Before(s[i], s[j], rankings)
        /\ \A i, j \in 1..n : s[i] = s[j] => i = j
        /\ \A a \in Candidates(rankings) : \E i \in 1..n : s[i] = a
        /\ \A i \in 1..n : s[i] \in Candidates(rankings)
    BY <1>1, <1>2, FusedSorts
  <1>4. s \in Seq(Chunks) /\ Len(s) = n
    BY <1>3
  <1>5. PICK m : m = Min({topK, n})
    OBVIOUS
  <1>6. m \in 0..n
    BY <1>3, <1>5, LesserOf
  <1>7. PICK hits : hits = Hits(rankings, topK)
    OBVIOUS
  <1>8. hits \in Seq(Chunks) /\ Len(hits) = m /\ \A i \in 1..m : hits[i] = s[i]
    <2>1. hits = SubSeq(s, 1, m)
      BY <1>2, <1>4, <1>5, <1>7 DEF Hits
    <2>2. 1 \in 1..Len(s) + 1 /\ m \in 1 - 1..Len(s)
      BY <1>4, <1>6
    <2>3. /\ SubSeq(s, 1, m) \in Seq(Chunks) /\ Len(SubSeq(s, 1, m)) = m - 1 + 1
          /\ \A i \in 1..m - 1 + 1 : SubSeq(s, 1, m)[i] = s[1 + i - 1]
      BY <1>4, <2>2, SubSeqAt
    <2>4. m - 1 + 1 = m /\ \A i \in 1..m : 1 + i - 1 = i
      BY <1>6
    <2> QED
      BY <2>1, <2>3, <2>4
  <1>9. DOMAIN hits = 1..m
    BY <1>8
  <1>10. ToSet(hits) \subseteq Candidates(rankings) /\ IsInjective(hits)
    BY <1>3, <1>6, <1>8, <1>9 DEF ToSet, IsInjective
  <1>11. ASSUME NEW i \in 1..m, NEW a \in Candidates(rankings), Above(a, hits[i], rankings)
         PROVE  \E j \in 1..i-1 : hits[j] = a
    <2>1. i \in 1..n /\ hits[i] = s[i]
      BY <1>3, <1>6, <1>8
    <2>2. PICK j \in 1..n : s[j] = a
      BY <1>3
    <2>3. Before(s[j], s[i], rankings)
      BY <1>1, <1>3, <1>11, <2>1, <2>2, AboveIsBefore
    <2>4. ~(j = i) /\ ~(i < j)
      BY <1>1, <1>3, <2>1, <2>3, BeforeOrders
    <2>5. j \in 1..i-1 /\ j \in 1..m
      BY <1>6, <2>4
    <2> QED
      BY <1>8, <2>2, <2>5
  <1> QED
    BY <1>2, <1>5, <1>7, <1>8, <1>9, <1>10, <1>11 DEF WellRanked

-----------------------------------------------------------------------------
(* Texts *)

Part(event) == IF event.name = "token" THEN event.text ELSE <<>>

LEMMA Parts ==
    ASSUME NEW events \in Seq(Events)
    PROVE  [i \in DOMAIN events |-> Part(events[i])] \in Seq(Seq(Symbols))
  <1>1. \A event \in Events : Part(event) \in Seq(Symbols)
    <2>1. <<>> \in Seq(Symbols)
      OBVIOUS
    <2> QED
      BY <2>1, RunAssumption DEF Events, Part
  <1>2. PICK n \in Nat : DOMAIN events = 1..n /\ \A i \in 1..n : events[i] \in Events
    BY LenProperties
  <1>3. [i \in 1..n |-> Part(events[i])] \in [1..n -> Seq(Symbols)]
    BY <1>1, <1>2
  <1> QED
    BY <1>2, <1>3, SeqDef

LEMMA TextTyped ==
    ASSUME NEW events \in Seq(Events)
    PROVE  Text(events) \in Seq(Symbols)
  <1>1. Text(events) = FlattenSeq([i \in DOMAIN events |-> Part(events[i])])
    BY DEF Text, Part
  <1> QED
    BY <1>1, Parts, FlattenTyped

\* An event that is no delta adds nothing to the text.
LEMMA TextAppend ==
    ASSUME NEW events \in Seq(Events), NEW event \in Events, event.name # "token"
    PROVE  Text(Append(events, event)) = Text(events)
  <1>1. PICK parts \in Seq(Seq(Symbols)) : parts = [i \in DOMAIN events |-> Part(events[i])]
    BY Parts
  <1>2. [i \in DOMAIN Append(events, event) |-> Part(Append(events, event)[i])] = Append(parts, <<>>)
    BY <1>1 DEF Part
  <1>3. Text(events) = FlattenSeq(parts) /\ Text(Append(events, event)) = FlattenSeq(Append(parts, <<>>))
    BY <1>1, <1>2 DEF Text, Part
  <1>4. FlattenSeq(Append(parts, <<>>)) = FlattenSeq(parts) \o <<>>
    <2>1. <<>> \in Seq(Symbols)
      OBVIOUS
    <2> QED
      BY <2>1, FlattenAppend
  <1>5. FlattenSeq(parts) \o <<>> = FlattenSeq(parts)
    BY FlattenTyped, ConcatEmptySeq
  <1> QED
    BY <1>3, <1>4, <1>5

-----------------------------------------------------------------------------
(* The run *)

LEMMA InitRun == RunInit => RunCore
  <1> SUFFICES ASSUME RunInit PROVE RunCore
    OBVIOUS
  <1>1. sent = <<>> /\ DOMAIN sent = {}
    <2>1. sent = <<>> /\ Len(sent) = 0
      BY DEF RunInit
    <2> QED
      BY <2>1
  <1>2. RunTypes
    <2>1. sent \in Seq(Events)
      BY <1>1
    <2>2. faults \in 0..MaxFaults
      BY RunAssumption DEF RunInit, RunAssumption
    <2> QED
      BY <2>1, <2>2 DEF RunInit, RunTypes, Places
  <1>3. PlaceTells
    BY <1>1 DEF RunInit, PlaceTells, At
  <1>4. ReportIsRecorded
    BY <1>1 DEF RunInit, ReportIsRecorded, At
  <1> QED
    BY <1>2, <1>3, <1>4 DEF RunCore

\* An event that is appended is the last, and the others stay.
LEMMA EmitStep ==
    ASSUME RunTypes, NEW name \in Names, NEW text \in Deltas \cup {<<>>}, Emit(name, text)
    PROVE  /\ sent' \in Seq(Events)
           /\ Len(sent) \in Nat /\ Len(sent') = Len(sent) + 1
           /\ \A i \in DOMAIN sent' : sent'[i].name = name \/ (i \in DOMAIN sent /\ sent'[i] = sent[i])
  <1>1. sent \in Seq(Events) /\ [name |-> name, text |-> text] \in Events
    BY DEF RunTypes, Events
  <1> QED
    BY <1>1 DEF Emit

\* The steps before a commit and those that report nothing.
LEMMA EarlyStep ==
    ASSUME RunCore, \/ Refuse \/ Begin \/ Retrieve \/ EmitMeta \/ Generate
                   \/ EmitToken \/ Answer \/ GeminiFails
    PROVE  RunCore' /\ Kept
  <1>0. RunTypes /\ PlaceTells /\ ReportIsRecorded
    BY DEF RunCore
  <1> USE DEF At, Goto, Streams, Places
  <1>1. CASE Refuse
    <2>1. /\ pc = "posted" /\ UNCHANGED <<request, sent, run, messages, lost>>
          /\ pc' = "ended" /\ broken' = FALSE /\ error' = "none" /\ http' \in {"404", "500"}
          /\ faults' \in 0..MaxFaults
      BY <1>0, <1>1, RunAssumption DEF Refuse, Respond, End, Fault, local, stored, RunTypes
    <2> QED
      BY <1>0, <2>1 DEF RunCore, RunTypes, PlaceTells, ReportIsRecorded, Kept
  <1>2. CASE Begin
    BY <1>0, <1>2 DEF Begin, local, stored, RunCore, RunTypes, PlaceTells, ReportIsRecorded, Kept
  <1>3. CASE Retrieve
    BY <1>0, <1>3 DEF Retrieve, stored, RunCore, RunTypes, PlaceTells, ReportIsRecorded, Kept
  <1>4. CASE EmitMeta
    <2>1. Emit("meta", <<>>) /\ "meta" \in Names
      BY <1>4 DEF EmitMeta, Names
    <2>2. /\ sent' \in Seq(Events)
          /\ \A i \in DOMAIN sent' : sent'[i].name = "meta" \/ (i \in DOMAIN sent /\ sent'[i] = sent[i])
      BY <1>0, <2>1, EmitStep
    <2> QED
      BY <1>0, <1>4, <2>2 DEF EmitMeta, stored, RunCore, RunTypes, PlaceTells, ReportIsRecorded, Kept, Events
  <1>5. CASE Generate
    BY <1>0, <1>5 DEF Generate, stored, RunCore, RunTypes, PlaceTells, ReportIsRecorded, Kept
  <1>6. CASE EmitToken
    <2>1. PICK delta \in Deltas : Emit("token", delta)
      BY <1>6 DEF EmitToken
    <2>2. "token" \in Names
      BY DEF Names
    <2>3. /\ sent' \in Seq(Events)
          /\ \A i \in DOMAIN sent' : sent'[i].name = "token" \/ (i \in DOMAIN sent /\ sent'[i] = sent[i])
      BY <1>0, <2>1, <2>2, EmitStep
    <2> QED
      BY <1>0, <1>6, <2>3 DEF EmitToken, local, stored, RunCore, RunTypes, PlaceTells, ReportIsRecorded, Kept, Events
  <1>7. CASE Answer
    BY <1>0, <1>7 DEF Answer, local, stored, RunCore, RunTypes, PlaceTells, ReportIsRecorded, Kept
  <1>8. CASE GeminiFails
    BY <1>0, <1>8 DEF GeminiFails, local, stored, RunCore, RunTypes, PlaceTells, ReportIsRecorded, Kept
  <1> QED
    BY <1>1, <1>2, <1>3, <1>4, <1>5, <1>6, <1>7, <1>8

\* The commit, the exception handlers and the ends of a run.
LEMMA LateStep ==
    ASSUME RunCore, Commit \/ Deliver \/ DatabaseFails \/ RecordFailure \/ Abort
                   \/ ReportFailure \/ Cancel \/ Restart
    PROVE  RunCore' /\ (run # "none" => Kept)
  <1>0. RunTypes /\ PlaceTells /\ ReportIsRecorded
    BY DEF RunCore
  <1> USE DEF At, Goto, Streams, Places
  <1>1. CASE Commit
    BY <1>0, <1>1 DEF Commit, Record, local, RunCore, RunTypes, PlaceTells, ReportIsRecorded, Kept
  <1>2. CASE Deliver
    <2>1. "done" \in Names
      BY DEF Names
    <2>2. /\ sent' \in Seq(Events)
          /\ \A i \in DOMAIN sent' : sent'[i].name = "done" \/ (i \in DOMAIN sent /\ sent'[i] = sent[i])
      BY <1>0, <1>2, <2>1, EmitStep DEF Deliver, RunTypes, Events
    <2> QED
      BY <1>0, <1>2, <2>2 DEF Deliver, Respond, End, local, stored, RunCore, RunTypes, PlaceTells,
                              ReportIsRecorded, Kept, Events
  <1>3. CASE DatabaseFails
    <2>1. faults' \in 0..MaxFaults
      BY <1>0, <1>3, RunAssumption DEF DatabaseFails, Fault, RunTypes
    <2> QED
      BY <1>0, <1>3, <2>1 DEF DatabaseFails, Record, local, stored, RunCore, RunTypes, PlaceTells,
                              ReportIsRecorded, Kept
  <1>4. CASE RecordFailure
    BY <1>0, <1>4 DEF RecordFailure, Record, local, RunCore, RunTypes, PlaceTells, ReportIsRecorded, Kept
  <1>5. CASE Abort
    <2>1. faults' \in 0..MaxFaults
      BY <1>0, <1>5, RunAssumption DEF Abort, Fault, RunTypes
    <2> QED
      BY <1>0, <1>5, <2>1 DEF Abort, Respond, End, Record, local, RunCore, RunTypes, PlaceTells,
                              ReportIsRecorded, Kept
  <1>6. CASE ReportFailure
    <2>1. "error" \in Names
      BY DEF Names
    <2>2. /\ sent' \in Seq(Events)
          /\ \A i \in DOMAIN sent' : sent'[i].name = "error" \/ (i \in DOMAIN sent /\ sent'[i] = sent[i])
      BY <1>0, <1>6, <2>1, EmitStep DEF ReportFailure, RunTypes, Events
    <2> QED
      BY <1>0, <1>6, <2>2 DEF ReportFailure, Respond, End, local, stored, RunCore, RunTypes, PlaceTells,
                              ReportIsRecorded, Kept, Events
  <1>7. CASE Cancel \/ Restart
    <2>1. faults' \in 0..MaxFaults
      BY <1>0, <1>7, RunAssumption DEF Cancel, Restart, Fault, RunTypes
    <2>2. /\ UNCHANGED <<request, sent, http, lost>> /\ CommitOrNot
          /\ pc \notin {"posted", "ended"} /\ pc' = "ended" /\ broken' = FALSE /\ error' = "none"
      BY <1>7 DEF Cancel, Restart, End
    <2> QED
      BY <1>0, <2>1, <2>2 DEF CommitOrNot, Record, RunCore, RunTypes, PlaceTells, ReportIsRecorded, Kept
  <1> QED
    BY <1>1, <1>2, <1>3, <1>4, <1>5, <1>6, <1>7

\* Every step keeps these facts, and a record once written.
LEMMA CoreStep ==
    ASSUME RunCore, [Next]_vars
    PROVE  RunCore' /\ [run # "none" => Kept]_backend
  <1>1. CASE RunStep \/ Cancel
    <2>1. RunCore' /\ (run # "none" => Kept)
      BY <1>1, EarlyStep, LateStep DEF RunStep
    <2> QED
      BY <2>1
  <1>2. CASE UNCHANGED backend
    BY <1>2 DEF backend, stored, RunCore, RunTypes, PlaceTells, ReportIsRecorded, At, Streams
  <1> QED
    BY <1>1, <1>2 DEF Next, vars, Receive, ReadFrame, Overflow, EndOfStream, Leave

\* Only a delta changes the text of an answer.
LEMMA TextStep ==
    ASSUME RunCore, RunStep \/ Cancel
    PROVE  request' = request /\ (EmitToken \/ Text(sent') = Text(sent))
  <1>1. request' = request
    BY DEF RunStep, Refuse, Begin, Retrieve, EmitMeta, Generate, EmitToken, Answer, Commit, Deliver,
           GeminiFails, DatabaseFails, RecordFailure, Abort, ReportFailure, Restart, Cancel, local
  <1>2. \/ EmitToken \/ UNCHANGED sent
        \/ \E name \in {"meta", "done", "error"} : Emit(name, <<>>)
    BY DEF RunStep, Refuse, Begin, Retrieve, EmitMeta, Generate, Answer, Commit, Deliver,
           GeminiFails, DatabaseFails, RecordFailure, Abort, ReportFailure, Restart, Cancel
  <1>3. ASSUME NEW name \in {"meta", "done", "error"}, Emit(name, <<>>)
        PROVE  Text(sent') = Text(sent)
    <2>1. sent \in Seq(Events)
      BY DEF RunCore, RunTypes, Events
    <2>2. [name |-> name, text |-> <<>>] \in Events
      BY DEF Events, Names
    <2> QED
      BY <1>3, <2>1, <2>2, TextAppend DEF Emit
  <1> QED
    BY <1>1, <1>2, <1>3

LEMMA Pair ==
    ASSUME NEW first, NEW second
    PROVE  <<first>> \o <<second>> = <<first, second>>
  <1> DEFINE S == {first, second}
  <1>1. <<first>> \in Seq(S) /\ <<second>> \in Seq(S)
    OBVIOUS
  <1>2. <<first>> \o <<second>> \in Seq(S) /\ <<first, second>> \in Seq(S)
    BY <1>1
  <1> HIDE DEF S
  <1>3. PICK t \in Seq(S), u \in Seq(S) : t = <<first>> \o <<second>> /\ u = <<first, second>>
    BY <1>2
  <1>4. Len(t) = 2 /\ t[1] = first /\ t[2] = second
    BY <1>1, <1>3
  <1>5. Len(u) = 2 /\ u[1] = first /\ u[2] = second
    BY <1>3
  <1>6. t = u
    BY <1>4, <1>5, SeqEqual
  <1> QED
    BY <1>3, <1>6

LEMMA InitTranscripts == RunInit => Transcripts
  BY DEF RunInit, Transcripts, At

\* The open transaction holds the question, then the answer; what is committed
\* is what it holds.
LEMMA TranscriptsStep ==
    ASSUME RunCore, Transcripts, RunStep \/ Cancel
    PROVE  Transcripts'
  <1>1. request' = request /\ Asked' = Asked
    BY TextStep DEF Asked, Said
  <1>2. PlaceTells
    BY DEF RunCore
  <1> USE DEF At, Goto
  <1>3. CASE EmitToken
    BY <1>1, <1>2, <1>3 DEF EmitToken, Transcripts, PlaceTells, stored
  <1>4. CASE Answer
    <2>1. PICK text : /\ staged' = Asked \o Said("assistant", text) /\ (Streams => text = Text(sent))
                      /\ UNCHANGED <<sent, broken, run, messages>> /\ pc' = "answered" /\ run = "none"
      BY <1>2, <1>4 DEF Answer, Transcripts, PlaceTells, stored, local
    <2>2. IsAnswered(staged)'
      <3>1. CASE request.session
        <4>1. staged' = <<[role |-> "user", text |-> <<>>], [role |-> "assistant", text |-> text]>>
          BY <2>1, <3>1, Pair DEF Asked, Said
        <4>2. staged'[2].text = text
          BY <4>1
        <4> QED
          BY <1>1, <2>1, <3>1, <4>2 DEF IsAnswered, Answered, Said, Streams
      <3>2. CASE ~request.session
        BY <1>1, <2>1, <3>2 DEF IsAnswered, Answered, Asked, Said, Streams
      <3> QED
        BY <3>1, <3>2
    <2> QED
      BY <1>4, <2>1, <2>2 DEF Answer, Transcripts
  <1>5. CASE ~EmitToken /\ ~Answer
    <2>1. Text(sent') = Text(sent)
      BY <1>5, TextStep
    <2>2. IsAnswered(messages) /\ messages' = messages => IsAnswered(messages)'
      BY <1>1, <2>1 DEF IsAnswered, Answered, Asked, Said, Streams
    <2>3. IsAnswered(staged) /\ messages' = staged => IsAnswered(messages)'
      BY <1>1, <2>1 DEF IsAnswered, Answered, Asked, Said, Streams
    <2>4. CASE UNCHANGED <<run, messages>>
      <3>1. CASE Refuse \/ Begin \/ Retrieve \/ EmitMeta \/ Generate
        <4>1. CASE Refuse
          BY <1>2, <2>4, <4>1 DEF Refuse, Respond, End, Transcripts, PlaceTells
        <4>2. CASE Begin
          BY <1>1, <1>2, <2>4, <4>2 DEF Begin, Asked, Transcripts, PlaceTells
        <4>3. CASE Retrieve \/ EmitMeta \/ Generate
          BY <1>1, <1>2, <2>4, <4>3 DEF Retrieve, EmitMeta, Generate, Transcripts, PlaceTells
        <4> QED
          BY <3>1, <4>1, <4>2, <4>3
      <3>2. CASE Deliver \/ GeminiFails \/ DatabaseFails
        BY <1>1, <1>2, <2>2, <2>4, <3>2
           DEF Deliver, GeminiFails, DatabaseFails, Respond, End, Transcripts, PlaceTells
      <3>3. CASE RecordFailure \/ Abort \/ ReportFailure \/ Restart \/ Cancel
        BY <1>1, <1>2, <2>2, <2>4, <3>3
           DEF RecordFailure, Abort, ReportFailure, Restart, Cancel, Respond, End, Transcripts, PlaceTells
      <3>4. ~Commit
        BY <1>2, <2>4 DEF Commit, Record, PlaceTells
      <3> QED
        BY <1>5, <3>1, <3>2, <3>3, <3>4 DEF RunStep
    <2>5. CASE ~UNCHANGED <<run, messages>>
      <3>1. /\ pc' \in {"committed", "failing", "failed", "ended"} /\ staged' = <<>>
            /\ broken' <=> pc' = "failing"
            /\ \/ At("answered") /\ Record("completed")
               \/ At("failing") /\ ~broken /\ Record("failed") /\ pc' # "failing"
        BY <1>5, <2>5 DEF Transcripts, RunStep, Refuse, Begin, Retrieve, EmitMeta, Generate, Commit, Deliver, GeminiFails,
           DatabaseFails, RecordFailure, Abort, ReportFailure, Restart, Cancel, CommitOrNot, Respond, End, stored
      <3>2. CASE At("answered") /\ Record("completed")
        BY <2>3, <3>1, <3>2 DEF Record, Transcripts
      <3>3. CASE At("failing") /\ ~broken /\ Record("failed") /\ pc' # "failing"
        BY <1>1, <3>1, <3>3 DEF Record, Transcripts
      <3> QED
        BY <3>1, <3>2, <3>3
    <2> QED
      BY <2>4, <2>5
  <1> QED
    BY <1>3, <1>4, <1>5

LEMMA InitResponses == RunInit => Responses
  <1> SUFFICES ASSUME RunInit PROVE Responses
    OBVIOUS
  <1> QED
    BY DEF RunInit, Responses

\* The status of a response is sent once, and what is told of a lost answer is
\* only that something failed.
LEMMA ResponsesStep ==
    ASSUME RunCore, Responses, RunStep \/ Cancel
    PROVE  Responses' /\ (http = "200" => http' = "200")
  <1>1. RunTypes /\ PlaceTells
    BY DEF RunCore
  <1>2. ASSUME NEW name \in Names, NEW text \in Deltas \cup {<<>>}, Emit(name, text)
        PROVE  /\ sent' # <<>>
               /\ \A i \in DOMAIN sent' : sent'[i].name = name \/ (i \in DOMAIN sent /\ sent'[i] = sent[i])
    <2>1. sent' \in Seq(Events) /\ Len(sent) \in Nat /\ Len(sent') = Len(sent) + 1
      BY <1>1, <1>2, EmitStep
    <2>2. sent' # <<>>
      BY <2>1
    <2> QED
      BY <1>1, <1>2, <2>2, EmitStep
  <1>3. "meta" \in Names /\ "token" \in Names /\ "done" \in Names /\ "error" \in Names
    BY DEF Names
  <1> USE DEF At, Goto, Streams
  <1>4. CASE Refuse \/ Begin \/ Retrieve \/ Generate
    BY <1>1, <1>4 DEF Refuse, Begin, Retrieve, Generate, Respond, End, local, stored, Responses, PlaceTells
  <1>5. CASE EmitMeta
    BY <1>1, <1>2, <1>3, <1>5 DEF EmitMeta, stored, Responses, PlaceTells
  <1>6. CASE EmitToken
    <2>1. PICK delta \in Deltas : Emit("token", delta)
      BY <1>6 DEF EmitToken
    <2> QED
      BY <1>2, <1>3, <1>6, <2>1 DEF EmitToken, local, stored, Responses
  <1>7. CASE Answer \/ Commit \/ GeminiFails
    BY <1>1, <1>7 DEF Answer, Commit, GeminiFails, Record, local, stored, Responses, PlaceTells
  <1>8. CASE Deliver
    BY <1>1, <1>2, <1>3, <1>8 DEF Deliver, Respond, End, local, stored, Responses, PlaceTells
  <1>9. CASE DatabaseFails
    BY <1>1, <1>9 DEF DatabaseFails, Record, local, stored, Responses, PlaceTells
  <1>10. CASE RecordFailure \/ Abort
    BY <1>1, <1>10 DEF RecordFailure, Abort, Record, Respond, End, local, Responses, PlaceTells
  <1>11. CASE ReportFailure
    BY <1>1, <1>2, <1>3, <1>11 DEF ReportFailure, Respond, End, local, stored, Responses, PlaceTells, RunTypes
  <1>12. CASE Restart \/ Cancel
    BY <1>1, <1>12 DEF Restart, Cancel, CommitOrNot, Record, End, Responses, PlaceTells
  <1> QED
    BY <1>4, <1>5, <1>6, <1>7, <1>8, <1>9, <1>10, <1>11, <1>12 DEF RunStep

\* Every step keeps the invariant.
LEMMA RunStepKeeps ==
    ASSUME RunInv, [Next]_vars
    PROVE  RunInv' /\ [run # "none" => Kept]_backend
  <1>1. RunCore' /\ [run # "none" => Kept]_backend
    BY CoreStep DEF RunInv
  <1>2. CASE RunStep \/ Cancel
    BY <1>1, <1>2, TranscriptsStep, ResponsesStep DEF RunInv
  <1>3. CASE UNCHANGED backend
    <2>1. Responses'
      BY <1>3 DEF RunInv, backend, stored, Responses, At, Streams
    <2> QED
      BY <1>1, <1>3, <2>1 DEF RunInv, backend, stored, Transcripts, At, IsAnswered, Answered, Asked, Said, Streams
  <1> QED
    BY <1>2, <1>3 DEF Next, vars, Receive, ReadFrame, Overflow, EndOfStream, Leave

-----------------------------------------------------------------------------
(* The reader *)

LEMMA ReaderTypes ==
    ASSUME TypeOK, RunInv, Follows
    PROVE  /\ sent \in Seq(Events) /\ parsed \in Seq(Events) /\ IsPrefix(parsed, sent)
           /\ lineEnd \in LineEnds
           /\ Wire(sent, lineEnd) \in Seq(Bytes) /\ Wire(parsed, lineEnd) \in Seq(Bytes)
           /\ held \in Seq(Bytes) /\ (held = <<>> \/ held = <<"lead">>)
           /\ received \in 0..Len(Wire(sent, lineEnd))
  <1>1. "lead" \in Bytes
    BY DEF Bytes, Symbols
  <1>2. held \in Seq(Bytes)
    <2>1. held = <<>> \/ held = <<"lead">>
      BY DEF TypeOK
    <2> QED
      BY <1>1, <2>1, EmptySeq, Single
  <1> QED
    BY <1>2, WireTyped DEF TypeOK, RunInv, RunCore, RunTypes, Follows

\* The lengths of what has been received.
LEMMA Lengths ==
    ASSUME TypeOK, RunInv, Follows, Reading
    PROVE  /\ buffer \o held \in Seq(Bytes)
           /\ Len(buffer \o held) = Len(buffer) + Len(held)
           /\ received = Len(Wire(parsed, lineEnd)) + Len(buffer \o held)
           /\ \A i \in 1..Len(buffer \o held) :
                 (buffer \o held)[i] = Wire(sent, lineEnd)[Len(Wire(parsed, lineEnd)) + i]
  <1>1. PICK p : p = Wire(parsed, lineEnd)
    OBVIOUS
  <1>2. PICK w : w = Wire(sent, lineEnd)
    OBVIOUS
  <1>3. p \in Seq(Bytes) /\ w \in Seq(Bytes) /\ buffer \in Seq(Bytes) /\ held \in Seq(Bytes)
    BY <1>1, <1>2, ReaderTypes DEF Follows
  <1>4. PICK b : b = buffer \o held
    OBVIOUS
  <1>5. b \in Seq(Bytes) /\ Len(b) = Len(buffer) + Len(held)
    BY <1>3, <1>4, ConcatAt
  <1>6. PICK r : r = SubSeq(w, 1, received)
    OBVIOUS
  <1>7. r \in Seq(Bytes) /\ Len(r) = received /\ \A i \in 1..received : r[i] = w[i]
    <2>1. received \in 1 - 1..Len(w) /\ 1 \in 1..Len(w) + 1 /\ received - 1 + 1 = received
      BY <1>2, <1>3, ReaderTypes
    <2>2. /\ r \in Seq(Bytes) /\ Len(r) = received - 1 + 1
          /\ \A i \in 1..received - 1 + 1 : r[i] = w[1 + i - 1]
      BY <1>3, <1>6, <2>1, SubSeqAt
    <2>3. \A i \in 1..received : 1 + i - 1 = i
      OBVIOUS
    <2> QED
      BY <2>1, <2>2, <2>3
  <1>8. p \o b = r
    <2>1. p \o buffer \o held = p \o (buffer \o held)
      <3>1. PICK c \in Seq(Bytes), h \in Seq(Bytes), d \in Seq(Bytes) : c = buffer /\ h = held /\ d = p
        BY <1>3
      <3>2. Join(Join(d, c), h) = Join(d, Join(c, h))
        BY Joined
      <3> QED
        BY <3>1, <3>2 DEF Join
    <2> QED
      BY <1>1, <1>2, <1>4, <1>6, <2>1 DEF Follows
  <1>9. /\ Len(r) = Len(p) + Len(b)
        /\ \A i \in 1..Len(b) : r[Len(p) + i] = b[i]
    BY <1>3, <1>5, <1>8, ConcatAt
  <1>10. ASSUME NEW i \in 1..Len(b)
         PROVE  b[i] = w[Len(p) + i]
    <2>1. Len(p) + i \in 1..received
      BY <1>3, <1>5, <1>7, <1>9
    <2> QED
      BY <1>7, <1>9, <2>1
  <1> QED
    BY <1>1, <1>2, <1>4, <1>5, <1>7, <1>9, <1>10

\* The event whose frame comes next.
Coming == sent[Len(parsed) + 1]

\* The buffer begins with the frame of the event that comes next.
LEMMA BufferBegins ==
    ASSUME TypeOK, RunInv, Follows, Reading, Len(parsed) < Len(sent)
    PROVE  /\ Coming \in Events
           /\ Begins(buffer \o held, Coming, lineEnd)
           /\ Begins(buffer, Coming, lineEnd)
  <1>1. PICK p : p = Wire(parsed, lineEnd)
    OBVIOUS
  <1>2. PICK w : w = Wire(sent, lineEnd)
    OBVIOUS
  <1>3. PICK b : b = buffer \o held
    OBVIOUS
  <1>4. PICK e : e = Coming
    OBVIOUS
  <1>5. /\ p \in Seq(Bytes) /\ b \in Seq(Bytes) /\ buffer \in Seq(Bytes) /\ held \in Seq(Bytes)
        /\ Len(b) = Len(buffer) + Len(held)
        /\ \A i \in 1..Len(b) : b[i] = w[Len(p) + i]
    BY <1>1, <1>2, <1>3, Lengths, ReaderTypes DEF Follows
  <1>6. /\ e \in Events /\ Append(parsed, e) \in Seq(Events) /\ IsPrefix(Append(parsed, e), sent)
    BY <1>4, PrefixNext, ReaderTypes DEF Coming
  <1>7. PICK f : f = Frame(e, lineEnd)
    OBVIOUS
  <1>8. f \in Seq(Bytes)
    BY <1>6, <1>7, FrameAt, ReaderTypes
  <1>9. PICK pf : pf = p \o f
    OBVIOUS
  <1>10. /\ pf \in Seq(Bytes) /\ Len(pf) = Len(p) + Len(f)
         /\ \A i \in 1..Len(f) : pf[Len(p) + i] = f[i]
    BY <1>5, <1>8, <1>9, ConcatAt
  <1>11. PICK r \in Seq(Bytes) : w = pf \o r
    <2>1. Wire(Append(parsed, e), lineEnd) = pf
      BY <1>1, <1>6, <1>7, <1>9, WireAppend, ReaderTypes
    <2>2. \E r \in Seq(Bytes) : Wire(sent, lineEnd) = Wire(Append(parsed, e), lineEnd) \o r
      BY <1>6, WirePrefix, ReaderTypes
    <2> QED
      BY <1>2, <2>1, <2>2
  <1>12. \A i \in 1..Len(pf) : w[i] = pf[i]
    BY <1>10, <1>11, ConcatAt
  <1>13. ASSUME NEW i \in 1..Len(b), i <= Len(f)
         PROVE  b[i] = f[i]
    <2>1. i \in 1..Len(f) /\ Len(p) + i \in 1..Len(pf)
      BY <1>5, <1>8, <1>10, <1>13
    <2> QED
      BY <1>5, <1>10, <1>12, <2>1
  <1>14. ASSUME NEW i \in 1..Len(buffer)
         PROVE  i \in 1..Len(b) /\ buffer[i] = b[i]
    <2>1. buffer[i] = b[i]
      BY <1>3, <1>5, ConcatAt
    <2>2. Len(buffer) \in Nat /\ Len(held) \in Nat
      BY <1>5
    <2>3. i \in 1..Len(b)
      BY <1>5, <2>2
    <2> QED
      BY <2>1, <2>3
  <1> QED
    BY <1>3, <1>4, <1>5, <1>6, <1>7, <1>13, <1>14 DEF Begins

\* If every event has been parsed, nothing is left.
LEMMA NothingLeft ==
    ASSUME TypeOK, RunInv, Follows, Reading, Len(parsed) >= Len(sent)
    PROVE  parsed = sent /\ buffer = <<>> /\ held = <<>>
  <1>1. parsed = sent
    <2>1. Len(parsed) = Len(sent) /\ \A i \in 1..Len(parsed) : parsed[i] = sent[i]
      BY PrefixIs, ReaderTypes
    <2> QED
      BY <2>1, SeqEqual, ReaderTypes
  <1>2. Len(buffer) \in Nat /\ Len(held) \in Nat
    BY ReaderTypes DEF Follows
  <1>3. Len(buffer) + Len(held) = 0
    <2>1. PICK n \in Nat : n = Len(Wire(sent, lineEnd))
      BY ReaderTypes
    <2>2. received = n + (Len(buffer) + Len(held)) /\ received <= n
      BY <1>1, <2>1, Lengths, ReaderTypes
    <2> QED
      BY <1>2, <2>1, <2>2
  <1>4. Len(buffer) = 0 /\ Len(held) = 0
    BY <1>2, <1>3
  <1> QED
    BY <1>1, <1>4, EmptySeq, ReaderTypes DEF Follows

LEMMA EmptyHasNone == ~HasFrame(<<>>)
  BY DEF HasFrame, Blanks

\* Where the frame of the next event ends: a half character is never the last
\* byte of a frame.
LEMMA WholeFrame ==
    ASSUME TypeOK, RunInv, Follows, Reading, Len(parsed) < Len(sent)
    PROVE  HasFrame(buffer) <=> Len(buffer \o held) >= Len(Frame(Coming, lineEnd))
  <1>1. PICK f : f = Frame(Coming, lineEnd)
    OBVIOUS
  <1>2. PICK b : b = buffer \o held
    OBVIOUS
  <1>3. f \in Seq(Bytes) /\ f[Len(f)] = "LF"
    BY <1>1, BufferBegins, FrameAt, FrameEnds, ReaderTypes
  <1>4. /\ buffer \in Seq(Bytes) /\ held \in Seq(Bytes) /\ (held = <<>> \/ held = <<"lead">>)
        /\ b \in Seq(Bytes) /\ Len(b) = Len(buffer) + Len(held)
        /\ \A i \in 1..Len(held) : b[Len(buffer) + i] = held[i]
    <2>1. buffer \in Seq(Bytes) /\ held \in Seq(Bytes) /\ (held = <<>> \/ held = <<"lead">>)
      BY ReaderTypes DEF Follows
    <2> QED
      BY <1>2, <2>1, ConcatAt
  <1>5. \A i \in 1..Len(b) : i <= Len(f) => b[i] = f[i]
    BY <1>1, <1>2, BufferBegins DEF Begins
  <1>6. HasFrame(buffer) <=> Len(buffer) >= Len(f)
    BY <1>1, BufferBegins, Found, ReaderTypes
  <1>7. CASE held = <<>>
    <2>1. Len(b) = Len(buffer)
      BY <1>4, <1>7
    <2> QED
      BY <1>1, <1>2, <1>6, <2>1
  <1>8. CASE held = <<"lead">>
    <2>1. Len(held) = 1 /\ held[1] = "lead" /\ 1 \in 1..Len(held)
      BY <1>8
    <2>2. Len(b) = Len(buffer) + 1 /\ b[Len(buffer) + 1] = "lead"
      BY <1>4, <2>1
    <2>3. ASSUME Len(b) = Len(f) PROVE FALSE
      <3>1. Len(b) \in 1..Len(b)
        BY <1>4, <2>2
      <3>2. b[Len(b)] = "LF"
        BY <1>3, <1>5, <2>3, <3>1
      <3> QED
        BY <2>2, <3>2
    <2> QED
      BY <1>1, <1>2, <1>3, <1>4, <1>6, <2>2, <2>3
  <1> QED
    BY <1>4, <1>7, <1>8

\* A line end inside of the stream is never cut off with what follows it: the
\* events of which every frame has arrived have been parsed.
LEMMA AllParsed ==
    ASSUME TypeOK, RunInv, Follows, Reading, ~HasFrame(buffer),
           NEW n \in DOMAIN sent, Len(Wire(SubSeq(sent, 1, n), lineEnd)) <= received
    PROVE  n <= Len(parsed)
  <1> SUFFICES ASSUME n > Len(parsed) PROVE FALSE
    BY ReaderTypes
  <1>1. Len(parsed) < Len(sent) /\ Len(parsed) + 1 \in 1..n /\ n \in 1..Len(sent)
    BY ReaderTypes
  <1>2. PICK e : e = Coming
    OBVIOUS
  <1>3. PICK q : q = SubSeq(sent, 1, n)
    OBVIOUS
  <1>4. q \in Seq(Events) /\ Len(q) = n /\ \A i \in 1..n : q[i] = sent[i]
    <2>1. 1 \in 1..Len(sent) + 1 /\ n \in 1 - 1..Len(sent) /\ n - 1 + 1 = n
      BY <1>1
    <2>2. /\ q \in Seq(Events) /\ Len(q) = n - 1 + 1
          /\ \A i \in 1..n - 1 + 1 : q[i] = sent[1 + i - 1]
      BY <1>3, <2>1, SubSeqAt, ReaderTypes, SMTT(30)
    <2>3. \A i \in 1..n : 1 + i - 1 = i
      OBVIOUS
    <2> QED
      BY <2>1, <2>2, <2>3
  <1>5. IsPrefix(parsed, q) /\ q[Len(parsed) + 1] = e
    <2>1. \A i \in 1..Len(parsed) : parsed[i] = sent[i]
      BY PrefixIs, ReaderTypes
    <2>2. Len(parsed) <= Len(q) /\ \A i \in 1..Len(parsed) : parsed[i] = q[i]
      BY <1>1, <1>4, <2>1, ReaderTypes, SMTT(30)
    <2> QED
      BY <1>1, <1>2, <1>4, <2>2, PrefixIs, ReaderTypes DEF Coming
  <1>6. e \in Events /\ Append(parsed, e) \in Seq(Events) /\ IsPrefix(Append(parsed, e), q)
    BY <1>1, <1>4, <1>5, PrefixNext, ReaderTypes
  <1>7. PICK f \in Seq(Bytes) : f = Frame(e, lineEnd)
    BY <1>6, FrameAt, ReaderTypes
  <1>8. PICK p \in Seq(Bytes) : p = Wire(parsed, lineEnd)
    BY ReaderTypes
  <1>9. PICK pf : pf = p \o f
    OBVIOUS
  <1>10. pf \in Seq(Bytes) /\ Len(pf) = Len(p) + Len(f)
    BY <1>9, ConcatAt
  <1>11. PICK r \in Seq(Bytes) : Wire(q, lineEnd) = pf \o r
    <2>1. Wire(Append(parsed, e), lineEnd) = pf
      BY <1>6, <1>7, <1>8, <1>9, WireAppend, ReaderTypes
    <2> QED
      BY <1>4, <1>6, <2>1, WirePrefix, ReaderTypes
  <1>12. Len(Wire(q, lineEnd)) = Len(p) + Len(f) + Len(r)
    <2>1. pf \in Seq(Bytes)
      BY <1>10
    <2>2. Len(pf \o r) = Len(pf) + Len(r)
      BY <2>1, ConcatAt
    <2> QED
      BY <1>10, <1>11, <2>2
  <1>13. received = Len(p) + Len(buffer \o held) /\ Len(buffer \o held) \in Nat
    BY <1>8, Lengths
  <1>14. Len(buffer \o held) < Len(f)
    BY <1>1, <1>2, <1>7, <1>13, WholeFrame
  <1> QED
    BY <1>3, <1>12, <1>13, <1>14

-----------------------------------------------------------------------------
(* The steps of the run, seen from the reader *)

\* A step of the run sends nothing or one event, and its last one when it ends.
LEMMA SentStep ==
    ASSUME RunInv, RunStep \/ Cancel
    PROVE  /\ ~At("ended") /\ Streams' = Streams
           /\ \/ sent' = sent
              \/ /\ Streams
                 /\ \E event \in Events :
                       /\ sent' = Append(sent, event)
                       /\ event.name \in {"done", "error"} => At("ended")'
  <1>0. RunTypes /\ PlaceTells
    BY DEF RunInv, RunCore
  <1>1. /\ ~At("ended") /\ Streams' = Streams
    BY DEF RunStep, Refuse, Begin, Retrieve, EmitMeta, Generate, EmitToken, Answer, Commit, Deliver,
           GeminiFails, DatabaseFails, RecordFailure, Abort, ReportFailure, Restart, Cancel, local, At, Streams
  <1>2. ASSUME NEW name \in Names, NEW text \in Deltas \cup {<<>>}, Emit(name, text)
        PROVE  \E event \in Events : sent' = Append(sent, event) /\ event.name = name
    <2>1. [name |-> name, text |-> text] \in Events
      BY DEF Events
    <2> QED
      BY <1>2, <2>1 DEF Emit
  <1>3. "meta" \in Names /\ "token" \in Names /\ "done" \in Names /\ "error" \in Names /\ <<>> \in Deltas \cup {<<>>}
    BY DEF Names
  <1>4. CASE EmitMeta
    BY <1>1, <1>2, <1>3, <1>4 DEF EmitMeta
  <1>5. CASE EmitToken
    BY <1>1, <1>2, <1>3, <1>5 DEF EmitToken
  <1>6. CASE Deliver
    BY <1>1, <1>2, <1>3, <1>6 DEF Deliver, Respond, End, Goto, At
  <1>7. CASE ReportFailure
    BY <1>0, <1>1, <1>2, <1>3, <1>7 DEF ReportFailure, Respond, End, Goto, At, PlaceTells
  <1>8. CASE ~EmitMeta /\ ~EmitToken /\ ~Deliver /\ ~ReportFailure
    BY <1>1, <1>8 DEF RunStep, Refuse, Begin, Retrieve, Generate, Answer, Commit,
           GeminiFails, DatabaseFails, RecordFailure, Abort, Restart, Cancel
  <1> QED
    BY <1>4, <1>5, <1>6, <1>7, <1>8

\* What is sent leaves what has been received as it is.
LEMMA RunStreamStep ==
    ASSUME StreamInv, RunStep \/ (Cancel /\ ~Reading), UNCHANGED gateway
    PROVE  StreamInv'
  <1>0. TypeOK /\ RunInv /\ Follows /\ LastIsLast /\ ReaderTells /\ RefusalsExplained
    BY DEF StreamInv
  <1>1. RunInv'
    BY <1>0, RunStepKeeps DEF Next
  <1>2. UNCHANGED <<lineEnd, received, buffer, held, parsed, reader>> /\ Reading' = Reading
    BY DEF gateway, Reading
  <1>3. /\ ~At("ended") /\ Streams' = Streams
        /\ \/ sent' = sent
           \/ /\ Streams
              /\ \E event \in Events :
                    /\ sent' = Append(sent, event)
                    /\ event.name \in {"done", "error"} => At("ended")'
    BY <1>0, SentStep
  <1>4. reader \notin {"completed", "ended", "released"}
    BY <1>0, <1>3 DEF ReaderTells
  <1>5. sent' \in Seq(Events)
    BY <1>1 DEF RunInv, RunCore, RunTypes
  <1>6. LastIsLast'
    <2>1. \A i \in DOMAIN sent : Streams /\ sent[i].name \notin {"done", "error"}
      BY <1>0, <1>3 DEF LastIsLast
    <2>2. CASE sent' = sent
      BY <1>3, <2>1, <2>2 DEF LastIsLast
    <2>3. CASE sent' # sent
      <3>1. PICK event \in Events : /\ sent' = Append(sent, event) /\ Streams'
                                    /\ event.name \in {"done", "error"} => At("ended")'
        BY <1>3, <2>3
      <3>2. /\ sent \in Seq(Events) /\ Len(sent') = Len(sent) + 1 /\ sent'[Len(sent')] = event
            /\ \A i \in 1..Len(sent) : sent'[i] = sent[i]
        BY <1>0, <3>1, ReaderTypes
      <3> QED
        BY <1>3, <1>5, <2>1, <3>1, <3>2 DEF LastIsLast
    <2> QED
      BY <2>2, <2>3
  <1>7. PICK w \in Seq(Bytes), v \in Seq(Bytes) : w = Wire(sent, lineEnd) /\ v = Wire(sent', lineEnd)
    BY <1>0, <1>5, WireTyped, ReaderTypes
  <1>8. /\ IsPrefix(parsed, sent')
        /\ Len(w) <= Len(v) /\ \A i \in 1..Len(w) : w[i] = v[i]
        /\ Len(sent) <= Len(sent') /\ \A i \in 1..Len(sent) : sent[i] = sent'[i]
    <2>1. CASE sent' = sent
      BY <1>0, <1>7, <2>1, ReaderTypes
    <2>2. CASE sent' # sent
      <3>1. PICK event \in Events : sent' = Append(sent, event)
        BY <1>3, <2>2
      <3>2. sent \in Seq(Events) /\ parsed \in Seq(Events) /\ IsPrefix(parsed, sent) /\ lineEnd \in LineEnds
        BY <1>0, ReaderTypes
      <3>3. IsPrefix(parsed, sent')
        BY <3>1, <3>2, PrefixAppend
      <3>4. PICK f \in Seq(Bytes) : f = Frame(event, lineEnd)
        BY <3>2, FrameAt
      <3>5. v = w \o f
        BY <1>7, <3>1, <3>2, <3>4, WireAppend
      <3>6. Len(w) <= Len(v) /\ \A i \in 1..Len(w) : w[i] = v[i]
        BY <3>5, ConcatAt
      <3> QED
        BY <3>1, <3>2, <3>3, <3>6
    <2> QED
      BY <2>1, <2>2
  <1>9. TypeOK'
    <2>1. received \in 0..Len(v)
      BY <1>0, <1>7, <1>8 DEF TypeOK
    <2> QED
      BY <1>0, <1>2, <1>7, <2>1 DEF TypeOK
  <1>10. Follows'
    <2>1. SubSeq(w, 1, received) = SubSeq(v, 1, received)
      <3>1. received \in 0..Len(w)
        BY <1>0, <1>7 DEF TypeOK
      <3> QED
        BY <1>8, <3>1, SubSeqEqual
    <2> QED
      BY <1>0, <1>2, <1>7, <1>8, <2>1 DEF Follows
  <1>11. ReaderTells'
    <2>1. http = "200" => http' = "200"
      BY <1>0, ResponsesStep DEF RunInv
    <2> QED
      BY <1>0, <1>2, <1>3, <1>4, <1>5, <1>8, <2>1, ReaderTypes DEF ReaderTells
  <1>12. RefusalsExplained'
    <2>1. ASSUME Len(sent) > Len(parsed)
          PROVE  Len(sent') > Len(parsed') /\ Offending' = Offending
      <3>1. sent'[Len(parsed) + 1] = sent[Len(parsed) + 1]
        BY <1>0, <1>8, <2>1, ReaderTypes
      <3> QED
        BY <1>0, <1>2, <1>5, <1>8, <2>1, <3>1, ReaderTypes DEF Offending
    <2>2. CASE reader = "oversized"
      BY <1>0, <1>2, <2>1, <2>2 DEF RefusalsExplained, Oversized
    <2>3. CASE reader = "malformed"
      BY <1>0, <1>2, <2>1, <2>3 DEF RefusalsExplained, ReaderTells
    <2>4. CASE reader \notin {"oversized", "malformed"}
      BY <1>2, <2>4 DEF RefusalsExplained
    <2> QED
      BY <2>2, <2>3, <2>4
  <1> QED
    BY <1>1, <1>6, <1>9, <1>10, <1>11, <1>12 DEF StreamInv

-----------------------------------------------------------------------------
(* The steps of the reader *)

\* Whoever has something to read has had the headers of a stream.
LEMMA Heard ==
    ASSUME RunInv, NEW n \in Nat, n < Len(sent)
    PROVE  http = "200" /\ Streams
  <1>1. sent # <<>>
    OBVIOUS
  <1> QED
    BY <1>1 DEF RunInv, Responses

\* A reader that has stopped says nothing of the bytes any more.
LEMMA Stopped ==
    ASSUME TypeOK, RunInv, Follows, UNCHANGED <<backend, lineEnd>>,
           NEW outcome \in Readers \ {"reading"}, Stop(outcome),
           parsed' \in Seq(Events), IsPrefix(parsed', sent)
    PROVE  TypeOK' /\ Follows'
  <1>1. UNCHANGED sent /\ Len(Wire(sent, lineEnd)) \in Nat
    BY ReaderTypes DEF backend
  <1>2. received' \in 0..Len(Wire(sent, lineEnd))
    BY <1>1 DEF Stop
  <1>3. Wire(sent, lineEnd)' = Wire(sent, lineEnd)
    BY <1>1
  <1> QED
    BY <1>1, <1>2, <1>3 DEF Stop, TypeOK, Follows, Reading

LEMMA ReceiveStep ==
    ASSUME StreamInv, Receive
    PROVE  StreamInv'
  <1>0. TypeOK /\ RunInv /\ Follows /\ LastIsLast /\ ReaderTells /\ RefusalsExplained
    BY DEF StreamInv
  <1>1. Reading /\ UNCHANGED <<backend, lineEnd, parsed, reader>> /\ UNCHANGED sent
    BY DEF Receive, backend
  <1>2. RunInv'
    BY <1>0, RunStepKeeps DEF Next
  <1>3. LastIsLast' /\ ReaderTells' /\ RefusalsExplained'
    BY <1>0, <1>1 DEF LastIsLast, ReaderTells, RefusalsExplained, Reading, backend, At, Streams
  <1>4. PICK w \in Seq(Bytes) : w = Wire(sent, lineEnd)
    BY <1>0, ReaderTypes
  <1>5. PICK n \in received + 1..Len(w) :
           LET bytes == held \o SubSeq(w, received + 1, n)
               whole == WholeCharacters(bytes)
           IN  /\ received' = n
               /\ buffer' = buffer \o SubSeq(bytes, 1, whole)
               /\ held' = SubSeq(bytes, whole + 1, Len(bytes))
    BY <1>4 DEF Receive
  <1>6. PICK new : new = SubSeq(w, received + 1, n)
    OBVIOUS
  <1>7. received \in 0..Len(w)
    BY <1>0, <1>4 DEF TypeOK
  <1>8. new \in Seq(Bytes) /\ Len(new) = n - received /\ Len(new) > 0
    <2>1. PICK k \in 1..Len(w) + 1 : k = received + 1
      BY <1>5, <1>7
    <2>2. n \in k - 1..Len(w)
      BY <1>5, <1>7, <2>1
    <2>3. new \in Seq(Bytes) /\ Len(new) = n - k + 1
      BY <1>6, <2>1, <2>2, SubSeqAt
    <2> QED
      BY <1>5, <1>7, <2>1, <2>3
  <1>9. PICK bytes : bytes = held \o new
    OBVIOUS
  <1>10. held \in Seq(Bytes) /\ buffer \in Seq(Bytes)
    BY <1>0, <1>1, ReaderTypes DEF Follows
  <1>11. bytes \in Seq(Bytes) /\ Len(bytes) = Len(held) + Len(new) /\ Len(bytes) > 0 /\ bytes # <<>>
    <2>1. bytes \in Seq(Bytes) /\ Len(bytes) = Len(held) + Len(new)
      BY <1>8, <1>9, <1>10, ConcatAt
    <2> QED
      BY <1>8, <1>10, <2>1
  <1>12. PICK whole : whole = WholeCharacters(bytes)
    OBVIOUS
  <1>13. /\ whole \in 0..Len(bytes)
         /\ \/ whole = Len(bytes)
            \/ whole = Len(bytes) - 1 /\ bytes[Len(bytes)] = "lead"
    BY <1>11, <1>12 DEF WholeCharacters, Last
  <1>14. PICK first : first = SubSeq(bytes, 1, whole)
    OBVIOUS
  <1>15. PICK rest : rest = SubSeq(bytes, whole + 1, Len(bytes))
    OBVIOUS
  <1>16. received' = n /\ buffer' = buffer \o first /\ held' = rest
    BY <1>5, <1>6, <1>9, <1>12, <1>14, <1>15
  <1>17. /\ first \in Seq(Bytes) /\ rest \in Seq(Bytes) /\ first \o rest = bytes
         /\ rest = <<>> \/ rest = <<"lead">>
    <2>1. first \in Seq(Bytes)
      BY <1>11, <1>13, <1>14
    <2>2. PICK k \in 1..Len(bytes) + 1 : k = whole + 1
      BY <1>13
    <2>3. PICK m \in k - 1..Len(bytes) : m = Len(bytes)
      BY <1>11, <1>13, <2>2
    <2>4. /\ rest \in Seq(Bytes) /\ Len(rest) = m - k + 1
          /\ \A i \in 1..m - k + 1 : rest[i] = bytes[k + i - 1]
      BY <1>11, <1>15, <2>2, <2>3, SubSeqAt, ZenonT(40)
    <2>5. first \o rest = bytes
      <3>0. bytes \in Seq(Bytes) /\ Len(bytes) \in 0..Len(bytes) /\ whole \in 0..Len(bytes)
        BY <1>11, <1>13
      <3>1. first \o rest = SubSeq(bytes, 1, Len(bytes))
        BY <1>14, <1>15, <3>0, Cut
      <3> QED
        BY <1>11, <3>1, SubSeqFull
    <2>6. CASE whole = Len(bytes)
      <3>1. Len(rest) = 0
        BY <1>11, <2>2, <2>3, <2>4, <2>6
      <3> QED
        BY <2>1, <2>4, <2>5, <3>1, EmptySeq
    <2>7. CASE whole = Len(bytes) - 1 /\ bytes[Len(bytes)] = "lead"
      <3>1. Len(rest) = 1 /\ k + 1 - 1 = Len(bytes) /\ 1 \in 1..m - k + 1
        BY <1>11, <2>2, <2>3, <2>4, <2>7
      <3>2. rest[1] = "lead"
        BY <2>4, <2>7, <3>1
      <3>3. <<"lead">> \in Seq(Bytes) /\ Len(<<"lead">>) = 1 /\ <<"lead">>[1] = "lead"
        BY Single DEF Bytes, Symbols
      <3>4. rest = <<"lead">>
        <4>1. PICK l \in Seq(Bytes) : l = <<"lead">>
          BY <3>3
        <4>2. \A i \in 1..Len(rest) : rest[i] = l[i]
          BY <3>1, <3>2, <3>3, <4>1
        <4>3. rest = l
          BY <2>4, <3>1, <3>3, <4>1, <4>2, SeqEqual
        <4> QED
          BY <4>1, <4>3
      <3> QED
        BY <2>1, <2>4, <2>5, <3>4
    <2> QED
      BY <1>13, <2>6, <2>7
  <1>18. TypeOK'
    <2>1. n \in 0..Len(w)
      BY <1>5, <1>7
    <2>2. Wire(sent, lineEnd)' = w
      BY <1>1, <1>4
    <2> QED
      BY <1>0, <1>1, <1>16, <1>17, <2>1, <2>2 DEF TypeOK
  <1>19. Follows'
    <2>1. PICK p \in Seq(Bytes) : p = Wire(parsed, lineEnd)
      BY <1>0, ReaderTypes
    <2>2. (p \o buffer) \o held = SubSeq(w, 1, received)
      BY <1>0, <1>1, <1>4, <2>1 DEF Follows
    <2>3. PICK pb \in Seq(Bytes) : pb = p \o buffer
      BY <1>10, ConcatAt
    <2>4. (p \o (buffer \o first)) \o rest = pb \o bytes
      <3>1. PICK b \in Seq(Bytes), f \in Seq(Bytes), r \in Seq(Bytes) : b = buffer /\ f = first /\ r = rest
        BY <1>10, <1>17
      <3>2. Join(Join(p, b), f) = Join(p, Join(b, f))
        BY Joined
      <3>3. Join(Join(pb, f), r) = Join(pb, Join(f, r))
        BY Joined
      <3> QED
        BY <1>17, <2>3, <3>1, <3>2, <3>3 DEF Join
    <2>5. pb \o bytes = (pb \o held) \o new
      <3>1. PICK h \in Seq(Bytes), r \in Seq(Bytes) : h = held /\ r = new
        BY <1>8, <1>10
      <3>2. Join(Join(pb, h), r) = Join(pb, Join(h, r))
        BY Joined
      <3> QED
        BY <1>9, <3>1, <3>2 DEF Join
    <2>6. SubSeq(w, 1, received) \o new = SubSeq(w, 1, n)
      <3>1. n \in 0..Len(w) /\ received \in 0..n
        BY <1>5, <1>7
      <3> QED
        BY <1>6, <3>1, Cut
    <2>7. (p \o buffer') \o held' = SubSeq(w, 1, received')
      BY <1>16, <2>2, <2>3, <2>4, <2>5, <2>6
    <2>8. buffer' \in Seq(Bytes)
      BY <1>10, <1>16, <1>17, ConcatAt
    <2> QED
      BY <1>0, <1>1, <1>4, <2>1, <2>7, <2>8 DEF Follows
  <1> QED
    BY <1>2, <1>3, <1>18, <1>19 DEF StreamInv

\* A frame that is found is that of the event that comes next.
LEMMA FrameFound ==
    ASSUME TypeOK, RunInv, Follows, Reading, HasFrame(buffer)
    PROVE  /\ Len(parsed) < Len(sent) /\ Coming \in Events
           /\ Split(buffer).frame = Body(Coming, lineEnd)
           /\ Append(parsed, Coming) \in Seq(Events) /\ IsPrefix(Append(parsed, Coming), sent)
           /\ Split(buffer).rest \in Seq(Bytes)
           /\ Wire(Append(parsed, Coming), lineEnd) \o Split(buffer).rest \o held
                 = SubSeq(Wire(sent, lineEnd), 1, received)
  <1>1. Len(parsed) < Len(sent)
    <2> SUFFICES ASSUME Len(parsed) >= Len(sent) PROVE FALSE
      BY ReaderTypes
    <2>1. buffer = <<>>
      BY NothingLeft
    <2> QED
      BY <2>1, EmptyHasNone
  <1>2. PICK e \in Events : e = Coming
    BY <1>1, BufferBegins
  <1>3. Append(parsed, e) \in Seq(Events) /\ IsPrefix(Append(parsed, e), sent)
    BY <1>1, <1>2, PrefixNext, ReaderTypes DEF Coming
  <1>4. PICK f \in Seq(Bytes) : f = Frame(e, lineEnd)
    BY FrameAt, ReaderTypes
  <1>5. PICK rest : rest = SubSeq(buffer, Len(f) + 1, Len(buffer))
    OBVIOUS
  <1>6. /\ Len(buffer) >= Len(f) /\ Split(buffer).frame = Body(e, lineEnd)
        /\ Split(buffer).rest = rest
    BY <1>1, <1>2, <1>4, <1>5, BufferBegins, Found, ReaderTypes
  <1>7. buffer \in Seq(Bytes) /\ held \in Seq(Bytes) /\ \A i \in 1..Len(f) : buffer[i] = f[i]
    <2>1. buffer \in Seq(Bytes) /\ held \in Seq(Bytes)
      BY ReaderTypes DEF Follows
    <2>2. \A i \in 1..Len(buffer) : i <= Len(f) => buffer[i] = f[i]
      BY <1>1, <1>2, <1>4, BufferBegins DEF Begins
    <2> QED
      BY <1>6, <2>1, <2>2
  <1>8. rest \in Seq(Bytes) /\ f \o rest = buffer
    <2>1. Len(f) \in 0..Len(buffer) /\ Len(buffer) \in 0..Len(buffer)
      BY <1>6, <1>7
    <2>2. PICK k \in 1..Len(buffer) + 1 : k = Len(f) + 1
      BY <2>1
    <2>3. Len(buffer) \in k - 1..Len(buffer)
      BY <2>1, <2>2
    <2>4. rest \in Seq(Bytes)
      BY <1>5, <1>7, <2>2, <2>3, SubSeqAt
    <2>5. SubSeq(f, 1, Len(f)) = SubSeq(buffer, 1, Len(f))
      BY <1>6, <1>7, SubSeqEqual
    <2>6. SubSeq(buffer, 1, Len(f)) \o rest = SubSeq(buffer, 1, Len(buffer))
      BY <1>5, <1>7, <2>1, Cut
    <2>7. SubSeq(f, 1, Len(f)) = f /\ SubSeq(buffer, 1, Len(buffer)) = buffer
      BY <1>7, SubSeqFull
    <2> QED
      BY <2>4, <2>5, <2>6, <2>7
  <1>9. PICK p \in Seq(Bytes) : p = Wire(parsed, lineEnd)
    BY ReaderTypes
  <1>10. Wire(Append(parsed, e), lineEnd) = p \o f
    BY <1>4, <1>9, WireAppend, ReaderTypes
  <1>11. (p \o f) \o rest = p \o buffer
    <2>1. PICK r \in Seq(Bytes) : r = rest
      BY <1>8
    <2>2. Join(Join(p, f), r) = Join(p, Join(f, r))
      BY Joined
    <2> QED
      BY <1>8, <2>1, <2>2 DEF Join
  <1>12. (p \o buffer) \o held = SubSeq(Wire(sent, lineEnd), 1, received)
    BY <1>9 DEF Follows
  <1> QED
    BY <1>1, <1>2, <1>3, <1>6, <1>8, <1>10, <1>11, <1>12

\* done and error are what the run ended with.
LEMMA LastFound ==
    ASSUME StreamInv, Reading, HasFrame(buffer), Coming.name \in {"done", "error"}
    PROVE  /\ At("ended") /\ Streams /\ Append(parsed, Coming) = sent
           /\ Coming.name = "done" => run = "completed" /\ ~lost
           /\ Coming.name = "error" => run # "completed" \/ lost
  <1>0. TypeOK /\ RunInv /\ Follows /\ LastIsLast
    BY DEF StreamInv
  <1>1. /\ Len(parsed) < Len(sent) /\ Append(parsed, Coming) \in Seq(Events)
        /\ IsPrefix(Append(parsed, Coming), sent) /\ Coming \in Events
    BY <1>0, FrameFound
  <1>2. Len(parsed) + 1 \in DOMAIN sent /\ sent[Len(parsed) + 1] = Coming
    BY <1>0, <1>1, ReaderTypes DEF Coming
  <1>3. At("ended") /\ Streams /\ Len(sent) = Len(parsed) + 1
    BY <1>0, <1>2 DEF LastIsLast
  <1>4. Append(parsed, Coming) = sent
    <2>1. PICK q \in Seq(Events) : q = Append(parsed, Coming)
      BY <1>1
    <2>2. Len(q) = Len(sent)
      BY <1>0, <1>1, <1>3, <2>1, ReaderTypes
    <2>3. \A i \in 1..Len(q) : q[i] = sent[i]
      <3>1. sent \in Seq(Events) /\ IsPrefix(q, sent)
        BY <1>0, <1>1, <2>1, ReaderTypes
      <3> QED
        BY <3>1, PrefixIs
    <2>4. q = sent
      BY <1>0, <2>2, <2>3, SeqEqual, ReaderTypes
    <2> QED
      BY <2>1, <2>4
  <1>5. ReportIsRecorded /\ Responses
    BY <1>0 DEF RunInv, RunCore
  <1> QED
    BY <1>2, <1>3, <1>4, <1>5 DEF ReportIsRecorded, Responses

LEMMA ReadFrameStep ==
    ASSUME StreamInv, ReadFrame
    PROVE  StreamInv'
  <1>0. TypeOK /\ RunInv /\ Follows /\ LastIsLast /\ ReaderTells /\ RefusalsExplained
    BY DEF StreamInv
  <1>1. Reading /\ HasFrame(buffer) /\ UNCHANGED <<backend, lineEnd>> /\ UNCHANGED sent
    BY DEF ReadFrame, backend
  <1>2. RunInv' /\ LastIsLast'
    BY <1>0, <1>1, RunStepKeeps DEF Next, LastIsLast, backend, At, Streams
  <1>3. PICK frame : frame = Split(buffer).frame
    OBVIOUS
  <1>4. PICK rest : rest = Split(buffer).rest
    OBVIOUS
  <1>5. PICK e \in Events : e = Coming
    BY <1>0, <1>1, FrameFound
  <1>6. /\ Len(parsed) < Len(sent) /\ frame = Body(e, lineEnd)
        /\ Append(parsed, e) \in Seq(Events) /\ IsPrefix(Append(parsed, e), sent)
        /\ rest \in Seq(Bytes)
        /\ Wire(Append(parsed, e), lineEnd) \o rest \o held = SubSeq(Wire(sent, lineEnd), 1, received)
    BY <1>0, <1>1, <1>3, <1>4, <1>5, FrameFound
  <1>7. lineEnd \in LineEnds /\ Offending = Frame(e, lineEnd)
    BY <1>0, <1>5, ReaderTypes DEF Offending, Coming
  <1>a. http' = "200" /\ Streams'
    <2>1. Len(parsed) \in Nat
      BY <1>0, ReaderTypes
    <2> QED
      BY <1>0, <1>1, <1>6, <2>1, Heard DEF backend, Streams
  <1>8. CASE Stop("oversized") /\ UNCHANGED parsed /\ Characters(frame) > MaxFrame
    <2>1. TypeOK' /\ Follows'
      BY <1>0, <1>1, <1>8, Stopped, ReaderTypes DEF Readers
    <2>2. Characters(frame) <= Characters(Offending) - 1
      BY <1>6, <1>7, BodyShorter
    <2>3. Characters(frame) \in Nat /\ Characters(Offending) \in Nat
      <3>1. frame \in Seq(Bytes) /\ Offending \in Seq(Bytes)
        BY <1>6, <1>7, BodyAt, FrameAt
      <3> QED
        BY <3>1, CharactersOf
    <2>4. Characters(Offending) - 1 > MaxFrame
      BY <1>8, <2>2, <2>3, FrameAssumption
    <2>5. Offending' = Offending
      BY <1>1, <1>8 DEF Offending
    <2>6. RefusalsExplained' /\ ReaderTells'
      BY <1>1, <1>6, <1>a, <1>8, <2>4, <2>5 DEF Stop, RefusalsExplained, Oversized, ReaderTells
    <2> QED
      BY <1>2, <2>1, <2>6 DEF StreamInv
  <1>9. CASE Stop("malformed") /\ UNCHANGED parsed /\ ~Intact(frame)
    <2>1. TypeOK' /\ Follows'
      BY <1>0, <1>1, <1>9, Stopped, ReaderTypes DEF Readers
    <2>2. PICK i \in DOMAIN e.text : e.text[i] = "separator"
      BY <1>6, <1>7, <1>9, Decoded
    <2>3. "separator" \in ToSet(Offending)
      <3>1. PICK k \in Nat : k = Len(lineEnd)
        BY <1>7, LineEnd
      <3>2. e.text \in Seq(Symbols)
        BY EventParts
      <3>3. PICK m \in Nat : m = Len(e.text)
        BY <3>2
      <3>4. i \in 1..m
        BY <3>2, <3>3
      <3>5. Body(e, lineEnd)[2 + k + i] = "separator" /\ Len(Body(e, lineEnd)) = 3 + k + m
        BY <1>7, <2>2, <3>1, <3>3, <3>4, BodyAt
      <3>6. 2 + k + i \in 1..3 + k + m
        BY <3>4
      <3>7. Frame(e, lineEnd)[2 + k + i] = "separator"
        BY <1>7, <3>5, <3>6, FrameAt
      <3>8. Frame(e, lineEnd) \in Seq(Bytes) /\ Len(Frame(e, lineEnd)) = 3 + k + m + 2 * k
        BY <1>7, <3>1, <3>5, FrameAt
      <3>9. 2 + k + i \in DOMAIN Frame(e, lineEnd)
        BY <3>6, <3>8
      <3> QED
        BY <1>7, <3>7, <3>9 DEF ToSet
    <2>4. Offending' = Offending
      BY <1>1, <1>9 DEF Offending
    <2>5. RefusalsExplained' /\ ReaderTells'
      BY <1>1, <1>6, <1>a, <1>9, <2>3, <2>4 DEF Stop, RefusalsExplained, Oversized, ReaderTells
    <2> QED
      BY <1>2, <2>1, <2>5 DEF StreamInv
  <1>10. CASE Handle(Read(frame), rest) /\ Intact(frame)
    <2>1. Read(frame) = e
      BY <1>6, <1>7, <1>10, Decoded
    <2>2. parsed' = Append(parsed, e)
      BY <1>10, <2>1 DEF Handle
    <2>3. CASE e.name \in {"done", "error"}
      <3>1. PICK outcome \in {"released", "completed", "empty"} :
               /\ Stop(outcome)
               /\ outcome = "released" => e.name = "error"
               /\ outcome = "completed" => e.name = "done"
        BY <1>10, <2>1, <2>3 DEF Handle
      <3>2. outcome \in Readers \ {"reading"}
        BY DEF Readers
      <3>3. parsed' \in Seq(Events) /\ IsPrefix(parsed', sent)
        BY <1>6, <2>2
      <3>4. TypeOK' /\ Follows'
        BY <1>0, <1>1, <3>1, <3>2, <3>3, Stopped
      <3>5. /\ At("ended") /\ Streams /\ Append(parsed, e) = sent
            /\ e.name = "done" => run = "completed" /\ ~lost
            /\ e.name = "error" => run # "completed" \/ lost
        BY <1>1, <1>5, <2>3, LastFound
      <3>6. reader' = outcome
        BY <3>1 DEF Stop
      <3>7. ReaderTells' /\ RefusalsExplained'
        BY <1>1, <1>a, <2>2, <3>1, <3>5, <3>6 DEF ReaderTells, RefusalsExplained, backend, stored, At, Streams
      <3> QED
        BY <1>2, <3>4, <3>7 DEF StreamInv
    <2>4. CASE e.name \notin {"done", "error"}
      <3>1. buffer' = rest /\ UNCHANGED <<received, held, reader>>
        BY <1>10, <2>1, <2>4 DEF Handle
      <3>2. TypeOK'
        BY <1>0, <1>1, <3>1 DEF TypeOK
      <3>3. Follows'
        BY <1>1, <1>6, <2>2, <3>1 DEF Follows
      <3>4. ReaderTells' /\ RefusalsExplained'
        BY <1>1, <3>1 DEF ReaderTells, RefusalsExplained, Reading
      <3> QED
        BY <1>2, <3>2, <3>3, <3>4 DEF StreamInv
    <2> QED
      BY <2>3, <2>4
  <1> QED
    BY <1>3, <1>4, <1>8, <1>9, <1>10 DEF ReadFrame

LEMMA OverflowStep ==
    ASSUME StreamInv, Overflow
    PROVE  StreamInv'
  <1>0. TypeOK /\ RunInv /\ Follows /\ LastIsLast /\ ReaderTells /\ RefusalsExplained
    BY DEF StreamInv
  <1>1. /\ Reading /\ ~HasFrame(buffer) /\ Characters(buffer) > MaxFrame /\ Stop("oversized")
        /\ UNCHANGED <<backend, lineEnd, parsed>> /\ UNCHANGED sent
    BY DEF Overflow, backend
  <1>2. RunInv' /\ LastIsLast'
    BY <1>0, <1>1, RunStepKeeps DEF Next, LastIsLast, backend, At, Streams
  <1>3. TypeOK' /\ Follows'
    BY <1>0, <1>1, Stopped, ReaderTypes DEF Readers
  <1>4. buffer \in Seq(Bytes)
    BY <1>0, <1>1 DEF Follows
  <1>5. Len(parsed) < Len(sent)
    <2>1. buffer # <<>>
      BY <1>1, <1>4, CharactersOf, FrameAssumption
    <2> QED
      BY <1>0, <1>1, <2>1, NothingLeft, ReaderTypes
  <1>6. PICK e \in Events : e = Coming /\ Begins(buffer, e, lineEnd)
    BY <1>0, <1>1, <1>5, BufferBegins
  <1>7. lineEnd \in LineEnds /\ Offending = Frame(e, lineEnd)
    BY <1>0, <1>6, ReaderTypes DEF Offending, Coming
  <1>8. Len(buffer) < Len(Offending)
    <2>1. Len(Frame(e, lineEnd)) \in Nat /\ Len(buffer) \in Nat
      BY <1>4, <1>7, FrameAt
    <2>2. ~(Len(buffer) >= Len(Frame(e, lineEnd)))
      BY <1>1, <1>6, <1>7, Found
    <2> QED
      BY <1>7, <2>1, <2>2
  <1>9. Characters(buffer) <= Characters(Offending) - 1
    BY <1>6, <1>7, <1>8, Shorter
  <1>10. Characters(Offending) - 1 > MaxFrame
    <2>1. Offending \in Seq(Bytes)
      BY <1>7, FrameAt
    <2>2. Characters(buffer) \in Nat /\ Characters(Offending) \in Nat
      BY <1>4, <2>1, CharactersOf
    <2> QED
      BY <1>1, <1>9, <2>2, FrameAssumption
  <1>11. Offending' = Offending
    BY <1>1 DEF Offending
  <1>12. http' = "200" /\ Streams'
    <2>1. Len(parsed) \in Nat
      BY <1>0, ReaderTypes
    <2> QED
      BY <1>0, <1>1, <1>5, <2>1, Heard DEF backend, Streams
  <1>13. RefusalsExplained' /\ ReaderTells'
    BY <1>1, <1>5, <1>10, <1>11, <1>12 DEF Stop, RefusalsExplained, Oversized, ReaderTells
  <1> QED
    BY <1>2, <1>3, <1>13 DEF StreamInv

LEMMA EndOfStreamStep ==
    ASSUME StreamInv, EndOfStream
    PROVE  StreamInv'
  <1>0. TypeOK /\ RunInv /\ Follows /\ LastIsLast /\ ReaderTells /\ RefusalsExplained
    BY DEF StreamInv
  <1>1. /\ Reading /\ ~HasFrame(buffer) /\ received = Len(Wire(sent, lineEnd)) /\ At("ended")
        /\ reader' = "ended" /\ http' = "200" /\ Streams'
        /\ UNCHANGED <<backend, lineEnd, received, buffer, held, parsed>> /\ UNCHANGED sent
    BY DEF EndOfStream, backend, Streams
  <1>2. RunInv' /\ LastIsLast'
    BY <1>0, <1>1, RunStepKeeps DEF Next, LastIsLast, backend, At, Streams
  <1>3. TypeOK' /\ Follows'
    BY <1>0, <1>1 DEF TypeOK, Follows, Readers, Reading
  <1>4. Len(parsed) >= Len(sent)
    <2> SUFFICES ASSUME Len(sent) > 0 PROVE Len(parsed) >= Len(sent)
      BY <1>0, ReaderTypes
    <2>1. Len(sent) \in DOMAIN sent
      BY <1>0, ReaderTypes
    <2>2. SubSeq(sent, 1, Len(sent)) = sent
      BY <1>0, SubSeqFull, ReaderTypes
    <2>3. Len(Wire(SubSeq(sent, 1, Len(sent)), lineEnd)) <= received
      <3>1. PICK n \in Nat : n = Len(Wire(sent, lineEnd))
        BY <1>0, ReaderTypes
      <3>2. n <= n
        OBVIOUS
      <3> QED
        BY <1>1, <2>2, <3>1, <3>2
    <2>4. Len(sent) <= Len(parsed)
      BY <1>0, <1>1, <2>1, <2>3, AllParsed
    <2> QED
      BY <1>0, <2>4, ReaderTypes
  <1>5. parsed = sent /\ buffer = <<>> /\ held = <<>>
    BY <1>0, <1>1, <1>4, NothingLeft
  <1>6. RefusalsExplained' /\ ReaderTells'
    BY <1>1, <1>5 DEF RefusalsExplained, ReaderTells, backend, At
  <1> QED
    BY <1>2, <1>3, <1>6 DEF StreamInv

LEMMA LeaveStep ==
    ASSUME StreamInv, Leave
    PROVE  StreamInv'
  <1>0. TypeOK /\ RunInv /\ Follows /\ LastIsLast /\ ReaderTells /\ RefusalsExplained
    BY DEF StreamInv
  <1>1. /\ Reading /\ Stop("left") /\ http' = "200" /\ Streams'
        /\ UNCHANGED <<backend, lineEnd, parsed>> /\ UNCHANGED sent
    BY DEF Leave, backend, Streams
  <1>2. RunInv' /\ LastIsLast'
    BY <1>0, <1>1, RunStepKeeps DEF Next, LastIsLast, backend, At, Streams
  <1>3. TypeOK' /\ Follows'
    BY <1>0, <1>1, Stopped, ReaderTypes DEF Readers
  <1>4. RefusalsExplained' /\ ReaderTells'
    BY <1>1 DEF Stop, RefusalsExplained, ReaderTells
  <1> QED
    BY <1>2, <1>3, <1>4 DEF StreamInv

LEMMA InitStream == Init => StreamInv
  <1> SUFFICES ASSUME Init PROVE StreamInv
    OBVIOUS
  <1>1. RunInv
    BY InitRun, InitTranscripts, InitResponses DEF Init, RunInv
  <1>2. sent = <<>> /\ parsed = <<>> /\ buffer = <<>> /\ held = <<>> /\ received = 0
        /\ reader = "reading" /\ lineEnd \in LineEnds
    BY DEF Init, RunInit
  <1>3. Wire(sent, lineEnd) = <<>>
    BY <1>2, WireEmpty
  <1>4. TypeOK
    BY <1>2, <1>3 DEF TypeOK, Readers
  <1>5. Follows
    <2>1. parsed \in Seq(Events) /\ sent \in Seq(Events) /\ Len(parsed) = 0 /\ Len(sent) = 0
      BY <1>2
    <2>2. IsPrefix(parsed, sent)
      <3>1. Len(parsed) <= Len(sent) /\ \A i \in 1..Len(parsed) : parsed[i] = sent[i]
        BY <2>1
      <3> QED
        BY <2>1, <3>1, PrefixIs
    <2>3. PICK s : s = <<>>
      OBVIOUS
    <2>4. s \in Seq(Bytes) /\ Len(s) = 0 /\ (s \o s) \o s = SubSeq(s, 1, 0)
      <3>1. s \in Seq(Bytes) /\ Len(s) = 0
        BY <2>3
      <3>2. s \o s = s
        BY <2>3, <3>1, ConcatEmptySeq
      <3>3. SubSeq(s, 1, Len(s)) = s
        BY <3>1, SubSeqFull
      <3> QED
        BY <3>1, <3>2, <3>3
    <2> QED
      BY <1>2, <1>3, <2>1, <2>2, <2>3, <2>4 DEF Follows
  <1>6. LastIsLast
    <2>1. DOMAIN sent = {}
      BY <1>2
    <2> QED
      BY <2>1 DEF LastIsLast
  <1>7. ReaderTells /\ RefusalsExplained
    BY <1>2 DEF ReaderTells, RefusalsExplained, Reading
  <1> QED
    BY <1>1, <1>4, <1>5, <1>6, <1>7 DEF StreamInv

\* Every step keeps the invariant.
LEMMA StreamStep ==
    ASSUME StreamInv, [Next]_vars
    PROVE  StreamInv'
  <1>1. CASE (RunStep \/ (Cancel /\ ~Reading)) /\ UNCHANGED gateway
    BY <1>1, RunStreamStep
  <1>2. CASE UNCHANGED vars
    <2>1. RunInv'
      BY <1>2, RunStepKeeps DEF StreamInv
    <2> QED
      BY <1>2, <2>1 DEF vars, gateway, backend, stored, StreamInv, TypeOK, Follows, LastIsLast, ReaderTells,
                     RefusalsExplained, Oversized, Offending, Reading, At, Streams
  <1> QED
    BY <1>1, <1>2, ReceiveStep, ReadFrameStep, OverflowStep, EndOfStreamStep, LeaveStep DEF Next

-----------------------------------------------------------------------------
(* The theorems *)

\* The invariant of the transaction of document_agent.py.
THEOREM RunInvariant == Spec => []RunInv
  <1>1. Init => RunInv
    BY InitRun, InitTranscripts, InitResponses DEF Init, RunInv
  <1>2. RunInv /\ [Next]_vars => RunInv'
    BY RunStepKeeps
  <1> QED
    BY <1>1, <1>2, PTL DEF Spec

\* done and the JSON answer are sent after the commit, and a failure is not
\* reported of a run that is recorded as completed, unless the answer of its
\* commit was lost (document_agent.py:116-129, 182-206).
THEOREM ReportSafe == Spec => []ReportIsRecorded
  <1>1. RunInv => ReportIsRecorded
    BY DEF RunInv, RunCore
  <1> QED
    BY <1>1, RunInvariant, PTL

\* No exception handler, cancellation or restart changes a recorded outcome.
THEOREM OutcomeSafe == Spec => OutcomeIsFinal
  <1>1. RunInv /\ [Next]_vars => [run # "none" => UNCHANGED <<run, messages>>]_backend
    BY RunStepKeeps DEF Kept
  <1> QED
    BY <1>1, RunInvariant, PTL DEF Spec, OutcomeIsFinal

\* However a run ends, by an answer, an exception handler, a cancelled stream
\* or a restart, the session holds the messages its outcome calls for, and the
\* answer it holds is the one that was streamed (document_agent.py:166-206).
THEOREM ConversationSafe == Spec => []ConversationMatchesRun
  <1>1. RunInv => ConversationMatchesRun
    <2> SUFFICES ASSUME RunInv PROVE ConversationMatchesRun
      OBVIOUS
    <2>1. Transcripts /\ run \in {"none", "completed", "failed"} /\ request.session \in BOOLEAN
      BY DEF RunInv, RunCore, RunTypes
    <2>2. CASE run = "none"
      BY <2>1, <2>2 DEF Transcripts, ConversationMatchesRun
    <2>3. CASE run = "failed"
      BY <2>1, <2>3 DEF Transcripts, ConversationMatchesRun, Asked, Said
    <2>4. CASE run = "completed"
      <3>1. IsAnswered(messages)
        BY <2>1, <2>4 DEF Transcripts
      <3>2. CASE request.session
        <4>1. PICK text : /\ messages = Answered(text) /\ (Streams => text = Text(sent))
          BY <3>1 DEF IsAnswered
        <4>2. messages = <<[role |-> "user", text |-> <<>>], [role |-> "assistant", text |-> text]>>
          BY <3>2, <4>1, Pair DEF Answered, Asked, Said
        <4>3. [i \in DOMAIN messages |-> messages[i].role] = <<"user", "assistant">>
          BY <4>2
        <4> QED
          BY <2>4, <3>2, <4>1, <4>2, <4>3 DEF ConversationMatchesRun
      <3>3. CASE ~request.session
        <4>1. messages = <<>>
          BY <3>1, <3>3 DEF IsAnswered, Answered, Asked, Said
        <4> QED
          BY <3>3, <4>1 DEF ConversationMatchesRun
      <3> QED
        BY <3>2, <3>3
    <2> QED
      BY <2>1, <2>2, <2>3, <2>4
  <1> QED
    BY <1>1, RunInvariant, PTL

\* The rankings that are fused are those of the two queries.
Fuses == At("retrieved") => \E topK \in TopKs : ranked \in {topK} \X Rankings(topK)

LEMMA FusesStep ==
    ASSUME Fuses, [Next]_vars
    PROVE  Fuses'
  <1>1. CASE Retrieve
    BY <1>1 DEF Retrieve, Fuses
  <1>2. CASE UNCHANGED <<pc, ranked>>
    BY <1>2 DEF Fuses, At
  <1>3. CASE pc' # "retrieved"
    BY <1>3 DEF Fuses, At
  <1>4. Retrieve \/ UNCHANGED <<pc, ranked>> \/ pc' # "retrieved"
    BY DEF Next, vars, backend, local, RunStep, Refuse, Begin, EmitMeta, Generate, EmitToken, Answer, Commit,
           Deliver, GeminiFails, DatabaseFails, RecordFailure, Abort, ReportFailure, Restart, Cancel,
           Receive, ReadFrame, Overflow, EndOfStream, Leave, Respond, End, Goto
  <1> QED
    BY <1>1, <1>2, <1>3, <1>4

\* The citations are the best of the candidates, in an order no tie leaves open
\* (CitationsRanked), for every two rankings, every top_k and every rrf_k.
THEOREM CitationsSafe == Spec => []CitationsRanked
  <1>1. Init => Fuses
    BY DEF Init, RunInit, Fuses, At
  <1>2. Fuses /\ [Next]_vars => Fuses'
    BY FusesStep
  <1>3. Fuses => CitationsRanked
    <2> SUFFICES ASSUME Fuses, At("retrieved")
                 PROVE  WellRanked(Hits(ranked[2], ranked[1]), ranked[2], ranked[1])
      BY DEF CitationsRanked
    <2>1. PICK topK \in TopKs : ranked \in {topK} \X Rankings(topK)
      BY DEF Fuses
    <2>2. ranked[1] = topK /\ ranked[2] \in Rankings(topK) /\ topK \in Nat \ {0}
      BY <2>1, RunAssumption
    <2> QED
      BY <2>2, HitsRanked
  <1> QED
    BY <1>1, <1>2, <1>3, PTL DEF Spec

-----------------------------------------------------------------------------
(* The theorems about the reader *)

\* The invariant of the two ends of a stream: what the gateway has received is
\* what it has parsed, its buffer and half a character (gateway/streaming.py:8-16).
THEOREM StreamInvariant == Spec => []StreamInv
  <1>1. StreamInv /\ [Next]_vars => StreamInv'
    BY StreamStep
  <1> QED
    BY <1>1, InitStream, PTL DEF Spec

\* However the bytes are cut, the events that iter_events yields are those sent,
\* in order, and all of them whose frames have arrived; a response that ends
\* without done or error leaves nothing unread (gateway/streaming.py:11-29,
\* gateway/main.py:296).
THEOREM ParsedSafe == Spec => []ParsedIsReceived
  <1>1. StreamInv => ParsedIsReceived
    <2> SUFFICES ASSUME StreamInv PROVE ParsedIsReceived
      OBVIOUS
    <2>1. TypeOK /\ RunInv /\ Follows
      BY DEF StreamInv
    <2>2. reader = "ended" => parsed = sent /\ buffer = <<>> /\ held = <<>>
      BY DEF StreamInv, ReaderTells
    <2> QED
      BY <2>1, <2>2, AllParsed DEF ParsedIsReceived, Follows
  <1> QED
    BY <1>1, StreamInvariant, PTL

\* iter_events gives up on an event only if it is over the limit, or its text
\* has one of the separators that splitlines breaks at (gateway/streaming.py:17-26).
THEOREM RefusalsSafe == Spec => []RefusalsExplained
  <1>1. StreamInv => RefusalsExplained
    BY DEF StreamInv
  <1> QED
    BY <1>1, StreamInvariant, PTL

\* An answer that the gateway reports as completed is recorded as it was relayed,
\* and an allowance it releases was not for a run recorded as completed, unless
\* the answer of its commit was lost (gateway/main.py:286-297,
\* document_agent.py:182-206).
THEOREM RelayedSafe == Spec => []RelayedIsRecorded
  <1>1. StreamInv => RelayedIsRecorded
    <2> SUFFICES ASSUME StreamInv PROVE RelayedIsRecorded
      OBVIOUS
    <2>1. ReaderTells /\ Transcripts
      BY DEF StreamInv, RunInv
    <2>2. CASE reader = "completed"
      <3>1. run = "completed" /\ Streams /\ parsed = sent /\ IsAnswered(messages)
        BY <2>1, <2>2 DEF ReaderTells, Transcripts
      <3>2. ASSUME request.session
            PROVE  messages[2].text = Text(parsed)
        BY <3>1, <3>2 DEF IsAnswered
      <3> QED
        BY <2>2, <3>1, <3>2 DEF RelayedIsRecorded
    <2>3. CASE reader # "completed"
      BY <2>1, <2>3 DEF ReaderTells, RelayedIsRecorded
    <2> QED
      BY <2>2, <2>3
  <1> QED
    BY <1>1, StreamInvariant, PTL

-----------------------------------------------------------------------------
(* The run as its caller may know it *)

LEMMA InitAgent == Init => Agent!Init
  BY DEF Init, RunInit, Agent!Init, RunState, RunTold, At

\* A step of the run starts it, ends it, answers for it, or shows nothing.
LEMMA AgentRunStep ==
    ASSUME StreamInv, RunStep \/ (Cancel /\ ~Reading), UNCHANGED gateway
    PROVE  [Agent!Next]_<<RunState, RunTold>>
  <1>0. /\ RunTypes /\ PlaceTells /\ Responses
        /\ ~Reading => http = "200" /\ Streams
    BY DEF StreamInv, RunInv, RunCore, ReaderTells
  <1>1. reader' = reader
    BY DEF gateway
  <1> USE DEF At, Goto, Streams, Reading
  <1>2. CASE Refuse
    <2>1. RunState = "none" /\ RunState' = "failed"
      BY <1>0, <1>2 DEF Refuse, Respond, End, stored, PlaceTells, RunState
    <2>2. RunTold = "nothing" /\ RunTold' \in {"declined", "broken"}
      BY <1>0, <1>2 DEF Refuse, Respond, End, Responses, RunTold, ReadAs
    <2> QED
      BY <2>1, <2>2 DEF Agent!Next, Agent!Fail, Agent!Tell
  <1>3. CASE Begin
    <2>1. RunState = "none" /\ RunState' = "running"
      BY <1>0, <1>3 DEF Begin, stored, PlaceTells, RunState
    <2>2. RunTold = "nothing" /\ RunTold' = "nothing"
      BY <1>0, <1>3 DEF Begin, Responses, RunTold, ReadAs
    <2> QED
      BY <2>1, <2>2 DEF Agent!Next, Agent!Start
  <1>4. CASE Retrieve \/ EmitMeta \/ Generate \/ EmitToken \/ Answer \/ GeminiFails
    <2>1. UNCHANGED RunState
      BY <1>0, <1>4 DEF Retrieve, EmitMeta, Generate, EmitToken, Answer, GeminiFails, local, stored, PlaceTells, RunState
    <2>2. UNCHANGED RunTold
      BY <1>0, <1>1, <1>4 DEF Retrieve, EmitMeta, Generate, EmitToken, Answer, GeminiFails, local, Responses, RunTold, ReadAs
    <2> QED
      BY <2>1, <2>2
  <1>5. CASE Commit
    <2>1. RunState = "running" /\ RunState' = "completed"
      BY <1>0, <1>5 DEF Commit, Record, local, PlaceTells, Responses, RunState
    <2>2. UNCHANGED RunTold
      BY <1>1, <1>5 DEF Commit, local, RunTold, ReadAs
    <2> QED
      BY <2>1, <2>2 DEF Agent!Next, Agent!Succeed
  <1>6. CASE Deliver
    <2>1. RunState = "completed" /\ RunState' = "completed"
      BY <1>0, <1>6 DEF Deliver, Respond, End, stored, PlaceTells, Responses, RunState
    <2>2. CASE Streams
      <3>1. UNCHANGED RunTold
        BY <1>0, <1>1, <1>6, <2>2 DEF Deliver, Respond, End, local, Responses, RunTold, ReadAs
      <3> QED
        BY <2>1, <3>1
    <2>3. CASE ~Streams
      <3>1. RunTold = "nothing" /\ RunTold' = "done"
        BY <1>0, <1>6, <2>3 DEF Deliver, Respond, End, local, PlaceTells, RunTold, ReadAs
      <3> QED
        BY <2>1, <3>1 DEF Agent!Next, Agent!Report, Agent!Tell, Agent!MaySayDone
    <2> QED
      BY <2>2, <2>3
  <1>7. CASE DatabaseFails
    <2>1. \/ UNCHANGED RunState
          \/ RunState = "running" /\ RunState' = "lost"
      BY <1>0, <1>7 DEF DatabaseFails, Record, local, stored, PlaceTells, RunState
    <2>2. UNCHANGED RunTold
      BY <1>1, <1>7 DEF DatabaseFails, local, RunTold, ReadAs
    <2> QED
      BY <2>1, <2>2 DEF Agent!Next, Agent!Succeed
  <1>8. CASE RecordFailure
    <2>1. \/ UNCHANGED RunState
          \/ RunState = "running" /\ RunState' = "failed"
      BY <1>0, <1>8 DEF RecordFailure, Record, local, PlaceTells, RunState
    <2>2. UNCHANGED RunTold
      BY <1>1, <1>8 DEF RecordFailure, local, RunTold, ReadAs
    <2> QED
      BY <2>1, <2>2 DEF Agent!Next, Agent!Fail
  <1>9. CASE Abort
    <2>1. \/ UNCHANGED RunState
          \/ RunState = "running" /\ RunState' = "failed"
      BY <1>0, <1>9 DEF Abort, Record, Respond, End, local, PlaceTells, RunState
    <2>2. UNCHANGED RunTold \/ (RunTold = "nothing" /\ RunTold' = "broken")
      BY <1>0, <1>1, <1>9 DEF Abort, Respond, End, local, PlaceTells, RunTold, ReadAs
    <2> QED
      BY <2>1, <2>2 DEF Agent!Next, Agent!Fail, Agent!Report, Agent!Tell
  <1>10. CASE ReportFailure
    <2>1. RunState \in {"failed", "lost"} /\ UNCHANGED RunState
      BY <1>0, <1>10 DEF ReportFailure, Respond, End, stored, PlaceTells, RunState
    <2>2. \/ UNCHANGED RunTold
          \/ RunTold = "nothing" /\ RunTold' = "broken"
          \/ RunTold = "nothing" /\ RunTold' = "declined" /\ RunState = "failed"
      BY <1>0, <1>1, <1>10
         DEF ReportFailure, Respond, End, local, RunTypes, PlaceTells, Responses, RunTold, ReadAs, RunState
    <2> QED
      BY <2>1, <2>2 DEF Agent!Next, Agent!Report, Agent!Tell, Agent!MayDecline
  <1>11. CASE Restart \/ Cancel
    <2>1. \/ UNCHANGED RunState
          \/ RunState = "running" /\ RunState' \in {"completed", "failed"}
      BY <1>0, <1>11 DEF Restart, Cancel, CommitOrNot, Record, End, PlaceTells, Responses, RunState
    <2>2. UNCHANGED RunTold
      BY <1>1, <1>11 DEF Restart, Cancel, RunTold, ReadAs
    <2> QED
      BY <2>1, <2>2 DEF Agent!Next, Agent!Succeed, Agent!Fail
  <1> QED
    BY <1>2, <1>3, <1>4, <1>5, <1>6, <1>7, <1>8, <1>9, <1>10, <1>11 DEF RunStep

\* A step of the reader changes nothing, or ends the stream with a report.
LEMMA AgentReaderStep ==
    ASSUME StreamInv, StreamInv', Receive \/ ReadFrame \/ Overflow \/ EndOfStream \/ Leave
    PROVE  [Agent!Next]_<<RunState, RunTold>>
  <1>1. UNCHANGED backend /\ Reading
    BY DEF Receive, ReadFrame, Overflow, EndOfStream, Leave
  <1>2. UNCHANGED RunState
    BY <1>1 DEF backend, stored, RunState, At
  <1>3. CASE reader' = reader
    <2>1. UNCHANGED RunTold
      BY <1>1, <1>3 DEF backend, RunTold, ReadAs, Streams, Reading
    <2> QED
      BY <1>2, <2>1
  <1>4. CASE reader' # reader
    <2>1. /\ ~Reading' /\ http = "200" /\ Streams /\ http' = "200" /\ Streams'
      BY <1>1, <1>4 DEF StreamInv, ReaderTells, Reading, backend, Streams
    <2>2. RunTold = ReadAs /\ RunTold' = ReadAs'
      BY <2>1 DEF RunTold
    <2>3. /\ ReadAs = "nothing"
          /\ ReadAs' = IF reader' = "completed" THEN "done"
                       ELSE IF reader' = "released" THEN "error" ELSE "broken"
      BY <1>1, <2>1 DEF ReadAs, Reading
    <2>4. reader' = "completed" => RunState' = "completed"
      BY DEF StreamInv, ReaderTells, RunState
    <2>5. reader' = "released" => RunState' \in {"failed", "lost"}
      BY DEF StreamInv, ReaderTells, RunState, At
    <2> QED
      BY <1>2, <2>2, <2>3, <2>4, <2>5 DEF Agent!Next, Agent!Report, Agent!Tell, Agent!MaySayDone, Agent!MaySayError
  <1> QED
    BY <1>3, <1>4

\* The backend and the gateway's reader keep what AgentRun promises: the run
\* ends once, and one report of it reaches the caller, which fits it for ever
\* (document_agent.py:98-208, main.py:286-297).
THEOREM AnswerImplementsRun == Spec => ImplementsRun
  <1>1. StreamInv /\ StreamInv' /\ [Next]_vars => [Agent!Next]_(Agent!vars)
    <2> SUFFICES ASSUME StreamInv, StreamInv', [Next]_vars
                 PROVE  [Agent!Next]_<<RunState, RunTold>>
      BY DEF Agent!vars
    <2>1. CASE UNCHANGED vars
      BY <2>1 DEF vars, gateway, backend, stored, RunState, RunTold, ReadAs, At, Streams, Reading
    <2> QED
      BY <2>1, AgentRunStep, AgentReaderStep DEF Next
  <1> QED
    BY <1>1, InitAgent, StreamInvariant, PTL DEF Spec, ImplementsRun, Agent!Spec

=============================================================================
