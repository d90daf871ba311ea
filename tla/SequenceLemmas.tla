--------------------------- MODULE SequenceLemmas ---------------------------
(***************************************************************************)
(* Lemmas about sequences of any length: what concatenation and SubSeq     *)
(* return at an index, induction, and FlattenSeq.                          *)
(*                                                                         *)
(* Induction is over a set of numbers, not over a predicate: the provers   *)
(* instantiate sets.  FlattenSeq is computed by a recursive function, of   *)
(* which it has to be shown first that there is one, and only one.         *)
(***************************************************************************)
EXTENDS Integers, SequencesExt, SequenceTheorems, FiniteSetTheorems, WellFoundedInduction, TLAPS

LEMMA Single ==
    ASSUME NEW S, NEW x \in S
    PROVE  <<x>> \in Seq(S) /\ Len(<<x>>) = 1 /\ <<x>>[1] = x
  OBVIOUS

LEMMA ConcatAt ==
    ASSUME NEW S, NEW s \in Seq(S), NEW t \in Seq(S)
    PROVE  /\ s \o t \in Seq(S)
           /\ Len(s \o t) = Len(s) + Len(t)
           /\ \A i \in 1..Len(s) : (s \o t)[i] = s[i]
           /\ \A i \in 1..Len(t) : (s \o t)[Len(s) + i] = t[i]
  BY ConcatProperties

\* Concatenation under a name that the provers do not expand.
Join(s, t) == s \o t

LEMMA Joined ==
    ASSUME NEW S, NEW s \in Seq(S), NEW t \in Seq(S), NEW u \in Seq(S)
    PROVE  Join(Join(s, t), u) = Join(s, Join(t, u))
  BY ConcatAssociative DEF Join

LEMMA SubSeqAt ==
    ASSUME NEW S, NEW s \in Seq(S), NEW m \in 1..Len(s) + 1, NEW n \in m - 1..Len(s)
    PROVE  /\ SubSeq(s, m, n) \in Seq(S)
           /\ Len(SubSeq(s, m, n)) = n - m + 1
           /\ \A i \in 1..n - m + 1 : SubSeq(s, m, n)[i] = s[m + i - 1]
  OBVIOUS

LEMMA PrefixIs ==
    ASSUME NEW S, NEW p \in Seq(S), NEW q \in Seq(S)
    PROVE  IsPrefix(p, q) <=> (Len(p) <= Len(q) /\ \A i \in 1..Len(p) : p[i] = q[i])
  <1> SUFFICES ASSUME Len(p) <= Len(q)
               PROVE  SubSeq(p, 1, Len(p)) = SubSeq(q, 1, Len(p)) <=> \A i \in 1..Len(p) : p[i] = q[i]
    BY DEF IsPrefix
  <1>1. PICK r : r = SubSeq(q, 1, Len(p))
    OBVIOUS
  <1>2. /\ r \in Seq(S) /\ Len(r) = Len(p)
        /\ \A i \in 1..Len(p) : r[i] = q[i]
    BY <1>1, SubSeqAt
  <1>3. SubSeq(p, 1, Len(p)) = p
    BY SubSeqFull
  <1>4. p = r <=> \A i \in 1..Len(p) : p[i] = r[i]
    BY <1>2, SeqEqual
  <1> QED
    BY <1>1, <1>2, <1>3, <1>4

\* A prefix is followed by something.
LEMMA PrefixRest ==
    ASSUME NEW S, NEW p \in Seq(S), NEW q \in Seq(S), IsPrefix(p, q)
    PROVE  \E r \in Seq(S) : q = p \o r
  <1>1. PICK r : r = SubSeq(q, Len(p) + 1, Len(q))
    OBVIOUS
  <1>2. Len(p) <= Len(q) /\ \A i \in 1..Len(p) : p[i] = q[i]
    BY PrefixIs
  <1>3. /\ r \in Seq(S) /\ Len(r) = Len(q) - Len(p)
        /\ \A i \in 1..Len(q) - Len(p) : r[i] = q[Len(p) + i]
    <2>1. PICK m \in 1..Len(q) + 1 : m = Len(p) + 1
      BY <1>2
    <2>2. PICK n \in m - 1..Len(q) : n = Len(q)
      BY <1>2, <2>1
    <2>3. /\ r \in Seq(S) /\ Len(r) = n - m + 1
          /\ \A i \in 1..n - m + 1 : r[i] = q[m + i - 1]
      BY <1>1, <2>1, <2>2, SubSeqAt
    <2>4. n - m + 1 = Len(q) - Len(p)
      BY <2>1, <2>2
    <2>5. ASSUME NEW i \in 1..Len(q) - Len(p)
          PROVE  r[i] = q[Len(p) + i]
      <3>1. m + i - 1 = Len(p) + i
        BY <2>1
      <3> QED
        BY <2>3, <2>4, <3>1
    <2> QED
      BY <2>3, <2>4, <2>5
  <1>4. PICK t : t = p \o r
    OBVIOUS
  <1>5. /\ t \in Seq(S) /\ Len(t) = Len(p) + Len(r)
        /\ \A i \in 1..Len(p) : t[i] = p[i]
        /\ \A i \in 1..Len(r) : t[Len(p) + i] = r[i]
    <2>1. r \in Seq(S)
      BY <1>3
    <2> QED
      BY <1>4, <2>1, ConcatAt
  <1>6. Len(t) = Len(q)
    BY <1>3, <1>5
  <1>7. ASSUME NEW i \in 1..Len(q)
        PROVE  t[i] = q[i]
    <2>1. CASE i <= Len(p)
      BY <1>2, <1>5, <2>1
    <2>2. CASE i > Len(p)
      <3>1. i - Len(p) \in 1..Len(q) - Len(p) /\ Len(p) + (i - Len(p)) = i
        BY <2>2
      <3> QED
        BY <1>3, <1>5, <3>1
    <2> QED
      BY <2>1, <2>2
  <1>8. t = q
    BY <1>5, <1>6, <1>7, SeqEqual
  <1> QED
    BY <1>3, <1>4, <1>8

\* A prefix and the element after it are a prefix.
LEMMA PrefixNext ==
    ASSUME NEW S, NEW p \in Seq(S), NEW q \in Seq(S), IsPrefix(p, q), Len(p) < Len(q)
    PROVE  /\ q[Len(p) + 1] \in S
           /\ Append(p, q[Len(p) + 1]) \in Seq(S)
           /\ IsPrefix(Append(p, q[Len(p) + 1]), q)
  <1>1. PICK e : e = q[Len(p) + 1]
    OBVIOUS
  <1>2. e \in S
    BY <1>1
  <1>3. PICK t : t = Append(p, e)
    OBVIOUS
  <1>4. /\ t \in Seq(S) /\ Len(t) = Len(p) + 1 /\ t[Len(p) + 1] = e
        /\ \A i \in 1..Len(p) : t[i] = p[i]
    BY <1>2, <1>3
  <1>5. \A i \in 1..Len(p) : p[i] = q[i]
    BY PrefixIs
  <1>6. \A i \in 1..Len(t) : t[i] = q[i]
    BY <1>1, <1>4, <1>5
  <1>7. IsPrefix(t, q)
    BY <1>4, <1>6, PrefixIs
  <1> QED
    BY <1>1, <1>2, <1>3, <1>4, <1>7

LEMMA PrefixAppend ==
    ASSUME NEW S, NEW p \in Seq(S), NEW q \in Seq(S), NEW e \in S, IsPrefix(p, q)
    PROVE  IsPrefix(p, Append(q, e))
  <1>1. PICK t : t = Append(q, e)
    OBVIOUS
  <1>2. t \in Seq(S) /\ Len(t) = Len(q) + 1 /\ \A i \in 1..Len(q) : t[i] = q[i]
    BY <1>1
  <1>3. Len(p) <= Len(q) /\ \A i \in 1..Len(p) : p[i] = q[i]
    BY PrefixIs
  <1>4. Len(p) <= Len(t) /\ \A i \in 1..Len(p) : p[i] = t[i]
    BY <1>2, <1>3
  <1>5. IsPrefix(p, t)
    BY <1>2, <1>4, PrefixIs
  <1> QED
    BY <1>1, <1>5

LEMMA SubSeqEqual ==
    ASSUME NEW S, NEW s \in Seq(S), NEW t \in Seq(S), NEW n \in 0..Len(s), n <= Len(t),
           \A i \in 1..n : s[i] = t[i]
    PROVE  SubSeq(s, 1, n) = SubSeq(t, 1, n)
  <1>1. /\ SubSeq(s, 1, n) \in Seq(S) /\ Len(SubSeq(s, 1, n)) = n
        /\ \A i \in 1..n : SubSeq(s, 1, n)[i] = s[i]
    OBVIOUS
  <1>2. /\ SubSeq(t, 1, n) \in Seq(S) /\ Len(SubSeq(t, 1, n)) = n
        /\ \A i \in 1..n : SubSeq(t, 1, n)[i] = t[i]
    OBVIOUS
  <1>3. PICK u \in Seq(S), v \in Seq(S) : u = SubSeq(s, 1, n) /\ v = SubSeq(t, 1, n)
    BY <1>1, <1>2
  <1>4. u = v
    BY <1>1, <1>2, <1>3, SeqEqual
  <1> QED
    BY <1>3, <1>4

\* A sequence that is cut is its two parts.
LEMMA Cut ==
    ASSUME NEW S, NEW s \in Seq(S), NEW n \in 0..Len(s), NEW m \in 0..n
    PROVE  SubSeq(s, 1, m) \o SubSeq(s, m + 1, n) = SubSeq(s, 1, n)
  <1>1. PICK a : a = SubSeq(s, 1, m)
    OBVIOUS
  <1>2. PICK b : b = SubSeq(s, m + 1, n)
    OBVIOUS
  <1>3. PICK c : c = SubSeq(s, 1, n)
    OBVIOUS
  <1>4. a \in Seq(S) /\ Len(a) = m /\ \A i \in 1..m : a[i] = s[i]
    BY <1>1
  <1>5. b \in Seq(S) /\ Len(b) = n - m /\ \A i \in 1..n - m : b[i] = s[m + i]
    <2>1. PICK k \in 1..Len(s) + 1 : k = m + 1
      OBVIOUS
    <2>2. n \in k - 1..Len(s)
      BY <2>1
    <2>3. /\ b \in Seq(S) /\ Len(b) = n - k + 1
          /\ \A i \in 1..n - k + 1 : b[i] = s[k + i - 1]
      BY <1>2, <2>1, <2>2, SubSeqAt
    <2>4. n - k + 1 = n - m /\ \A i \in 1..n - m : k + i - 1 = m + i
      BY <2>1
    <2> QED
      BY <2>3, <2>4
  <1>6. c \in Seq(S) /\ Len(c) = n /\ \A i \in 1..n : c[i] = s[i]
    BY <1>3
  <1>7. PICK d : d = a \o b
    OBVIOUS
  <1>8. /\ d \in Seq(S) /\ Len(d) = n
        /\ \A i \in 1..m : d[i] = s[i]
        /\ \A i \in 1..n - m : d[m + i] = s[m + i]
    <2>1. /\ d \in Seq(S) /\ Len(d) = Len(a) + Len(b)
          /\ \A i \in 1..Len(a) : d[i] = a[i]
          /\ \A i \in 1..Len(b) : d[Len(a) + i] = b[i]
      <3>1. a \in Seq(S) /\ b \in Seq(S)
        BY <1>4, <1>5
      <3> QED
        BY <1>7, <3>1, ConcatAt
    <2>2. \A i \in 1..m : d[i] = s[i]
      BY <1>4, <2>1
    <2>3. \A i \in 1..n - m : d[m + i] = s[m + i]
      BY <1>4, <1>5, <2>1
    <2>4. Len(d) = n
      BY <1>4, <1>5, <2>1
    <2> QED
      BY <2>1, <2>2, <2>3, <2>4
  <1>9. ASSUME NEW i \in 1..n
        PROVE  d[i] = c[i]
    <2>1. CASE i <= m
      BY <1>6, <1>8, <2>1
    <2>2. CASE i > m
      <3>1. PICK j \in 1..n - m : j = i - m
        BY <2>2
      <3>2. i = m + j
        BY <3>1
      <3> QED
        BY <1>6, <1>8, <3>1, <3>2
    <2> QED
      BY <2>1, <2>2
  <1>10. c = d
    BY <1>6, <1>8, <1>9, SeqEqual
  <1> QED
    BY <1>1, <1>2, <1>3, <1>7, <1>10

-----------------------------------------------------------------------------
(* Induction *)

LEMMA Induction ==
    ASSUME NEW S, 0 \in S, \A n \in Nat : n \in S => n + 1 \in S
    PROVE  Nat \subseteq S
  <1> SUFFICES ASSUME Nat \ S # {} PROVE FALSE
    OBVIOUS
  <1>1. PICK m \in Nat \ S : \A n \in Nat \ S : ~ (<<n, m>> \in OpToRel(<, Nat))
    BY WFMin, NatLessThanWellFounded
  <1>2. m # 0 /\ m - 1 \in Nat /\ m - 1 < m
    OBVIOUS
  <1>3. <<m - 1, m>> \in OpToRel(<, Nat)
    BY <1>2 DEF OpToRel
  <1>4. m - 1 \in S
    BY <1>1, <1>2, <1>3
  <1> QED
    BY <1>2, <1>4

\* A set of numbers has a smallest.
LEMMA MinIs ==
    ASSUME NEW S \in SUBSET Nat, S # {}
    PROVE  Min(S) \in S /\ \A x \in S : Min(S) <= x
  <1>1. PICK m \in S : \A x \in S : ~(<<x, m>> \in OpToRel(<, Nat))
    BY WFMin, NatLessThanWellFounded
  <1>2. ASSUME NEW x \in S, x < m
        PROVE  FALSE
    <2>1. <<x, m>> \in OpToRel(<, Nat)
      BY <1>2 DEF OpToRel
    <2> QED
      BY <1>1, <2>1
  <1>3. \A x \in S : m <= x
    BY <1>2
  <1> QED
    BY <1>3 DEF Min

LEMMA LesserOf ==
    ASSUME NEW a \in Nat, NEW b \in Nat
    PROVE  Min({a, b}) = IF a <= b THEN a ELSE b
  <1>1. Min({a, b}) \in {a, b} /\ \A x \in {a, b} : Min({a, b}) <= x
    BY MinIs
  <1> QED
    BY <1>1

-----------------------------------------------------------------------------
(* Orders *)

\* A part of a finite set has fewer elements.
LEMMA SmallerSet ==
    ASSUME NEW S, IsFiniteSet(S), NEW T \in SUBSET S, T # S
    PROVE  /\ Cardinality(T) \in Nat /\ Cardinality(S) \in Nat
           /\ Cardinality(T) < Cardinality(S)
  <1>1. IsFiniteSet(T) /\ Cardinality(T) <= Cardinality(S) /\ Cardinality(T) # Cardinality(S)
    BY FS_Subset
  <1>2. Cardinality(T) \in Nat /\ Cardinality(S) \in Nat
    BY <1>1, FS_CardinalityType
  <1> QED
    BY <1>1, <1>2

\* A finite set can be listed along a strict total order on it: the place of an
\* element is the number of those before it.
LEMMA SortedListing ==
    ASSUME NEW S, IsFiniteSet(S), NEW order \in SUBSET (S \X S),
           \A x \in S : <<x, x>> \notin order,
           \A x, y \in S : x # y => <<x, y>> \in order \/ <<y, x>> \in order,
           \A x, y, z \in S : <<x, y>> \in order /\ <<y, z>> \in order => <<x, z>> \in order
    PROVE  \E s \in [1..Cardinality(S) -> S] :
              \A i, j \in 1..Cardinality(S) : i < j => <<s[i], s[j]>> \in order
  <1> DEFINE Below(x) == {y \in S : <<y, x>> \in order}
             n == Cardinality(S)
             place == [x \in S |-> Cardinality(Below(x)) + 1]
  <1>1. n \in Nat
    BY FS_CardinalityType
  <1>2. ASSUME NEW x \in S
        PROVE  Cardinality(Below(x)) \in Nat /\ Cardinality(Below(x)) < n
    <2>1. Below(x) \in SUBSET S /\ Below(x) # S
      OBVIOUS
    <2> QED
      BY <2>1, SmallerSet
  <1>3. ASSUME NEW x \in S, NEW y \in S, <<x, y>> \in order
        PROVE  Cardinality(Below(x)) < Cardinality(Below(y))
    <2>1. Below(x) \in SUBSET Below(y) /\ Below(x) # Below(y)
      BY <1>3
    <2>2. IsFiniteSet(Below(y))
      BY FS_Subset
    <2> QED
      BY <2>1, <2>2, SmallerSet
  <1> HIDE DEF Below, n
  <1>4. place \in [S -> 1..n]
    BY <1>1, <1>2
  <1>5. \A x, y \in S : <<x, y>> \in order => place[x] < place[y]
    BY <1>2, <1>3
  <1> HIDE DEF place
  <1>6. place \in Surjection(S, 1..n)
    <2>1. place \in Injection(S, 1..n)
      <3>1. \A x, y \in S : <<x, y>> \in order => place[x] # place[y]
        BY <1>1, <1>4, <1>5
      <3> QED
        BY <1>4, <3>1 DEF Injection, IsInjective
    <2>2. IsFiniteSet(1..n) /\ Cardinality(1..n) = n
      BY <1>1, FS_Interval
    <2> QED
      BY <1>4, <2>1, <2>2, FS_Injection DEF n
  <1>7. PICK s : s = [i \in 1..n |-> CHOOSE x \in S : place[x] = i]
    OBVIOUS
  <1>8. \A i \in 1..n : s[i] \in S /\ place[s[i]] = i
    BY <1>6, <1>7 DEF Surjection
  <1>9. ASSUME NEW i \in 1..n, NEW j \in 1..n, i < j
        PROVE  <<s[i], s[j]>> \in order
    <2>1. PICK x \in S, y \in S : x = s[i] /\ y = s[j] /\ place[x] = i /\ place[y] = j
      BY <1>8
    <2>2. x # y /\ ~ <<y, x>> \in order
      BY <1>1, <1>4, <1>5, <1>9, <2>1
    <2> QED
      BY <2>1, <2>2
  <1>10. s \in [1..n -> S]
    BY <1>7, <1>8
  <1> QED
    BY <1>9, <1>10 DEF n

-----------------------------------------------------------------------------
(* FlattenSeq *)

\* f is what FlattenSeq computes for the first n sequences of seqs.
Flattens(f, seqs, n) ==
    f = [i \in 1..n |-> IF i = 1 THEN seqs[i] ELSE f[i-1] \o seqs[i]]

LEMMA FlattensExists ==
    ASSUME NEW seqs, NEW n \in Nat \ {0}
    PROVE  \E f : Flattens(f, seqs, n)
  <1> DEFINE S == {m \in Nat : \E f : Flattens(f, seqs, m + 1)}
  <1>1. 0 \in S
    <2> DEFINE f == [i \in 1..1 |-> seqs[i]]
    <2>1. Flattens(f, seqs, 0 + 1)
      BY DEF Flattens
    <2> QED
      BY <2>1
  <1>2. ASSUME NEW m \in Nat, m \in S
        PROVE  m + 1 \in S
    <2>1. PICK f : Flattens(f, seqs, m + 1)
      BY <1>2
    <2> DEFINE g == [i \in 1..(m + 1) + 1 |-> IF i = m + 2 THEN f[m + 1] \o seqs[i] ELSE f[i]]
    <2>2. ASSUME NEW i \in 1..(m + 1) + 1
          PROVE  g[i] = IF i = 1 THEN seqs[i] ELSE g[i-1] \o seqs[i]
      <3>1. CASE i = m + 2
        <4>1. i # 1 /\ i - 1 = m + 1 /\ m + 1 \in 1..(m + 1) + 1 /\ m + 1 # m + 2
          BY <3>1
        <4>2. g[m + 1] = f[m + 1] /\ g[i] = f[m + 1] \o seqs[i]
          BY <3>1, <4>1
        <4> QED
          BY <4>1, <4>2
      <3>2. CASE i # m + 2
        <4>1. i \in 1..m + 1 /\ (i # 1 => i - 1 \in 1..m + 1)
          BY <3>2
        <4>2. f[i] = IF i = 1 THEN seqs[i] ELSE f[i-1] \o seqs[i]
          BY <2>1, <4>1 DEF Flattens
        <4> QED
          BY <3>2, <4>1, <4>2
      <3> QED
        BY <3>1, <3>2
    <2>3. Flattens(g, seqs, (m + 1) + 1)
      BY <2>2 DEF Flattens
    <2> QED
      BY <2>3
  <1>3. Nat \subseteq S
    <2> HIDE DEF S
    <2> QED
      BY <1>1, <1>2, Induction
  <1>4. n - 1 \in S /\ (n - 1) + 1 = n
    BY <1>3
  <1> QED
    BY <1>4

\* What is computed for the first sequences does not depend on those after them.
LEMMA FlattensAgree ==
    ASSUME NEW s, NEW t, NEW n \in Nat \ {0}, NEW k \in Nat, k = n + 1,
           \A i \in 1..n : s[i] = t[i],
           NEW f, NEW g, Flattens(f, s, n), Flattens(g, t, k)
    PROVE  f[n] = g[n]
  <1> DEFINE S == {j \in Nat : j + 1 \in 1..n => f[j + 1] = g[j + 1]}
  <1>1. ASSUME NEW i \in 1..n
        PROVE  /\ f[i] = IF i = 1 THEN s[i] ELSE f[i-1] \o s[i]
               /\ g[i] = IF i = 1 THEN t[i] ELSE g[i-1] \o t[i]
    <2>1. i \in 1..k
      OBVIOUS
    <2>2. f[i] = IF i = 1 THEN s[i] ELSE f[i-1] \o s[i]
      BY DEF Flattens
    <2>3. g[i] = IF i = 1 THEN t[i] ELSE g[i-1] \o t[i]
      BY <2>1 DEF Flattens
    <2> QED
      BY <2>2, <2>3
  <1>2. 0 \in S
    BY <1>1
  <1>3. ASSUME NEW j \in Nat, j \in S
        PROVE  j + 1 \in S
    BY <1>1, <1>3
  <1>4. Nat \subseteq S
    <2> HIDE DEF S
    <2> QED
      BY <1>2, <1>3, Induction
  <1>5. n - 1 \in S /\ (n - 1) + 1 = n
    BY <1>4
  <1> QED
    BY <1>5

LEMMA FlattenIs ==
    ASSUME NEW seqs, NEW n \in Nat \ {0}, Len(seqs) = n
    PROVE  \E f : Flattens(f, seqs, n) /\ FlattenSeq(seqs) = f[n]
  <1> DEFINE f == CHOOSE f : f = [i \in 1..Len(seqs) |-> IF i = 1 THEN seqs[i] ELSE f[i-1] \o seqs[i]]
  <1>1. FlattenSeq(seqs) = f[n]
    BY DEF FlattenSeq
  <1>2. Flattens(f, seqs, n)
    BY FlattensExists DEF Flattens
  <1> QED
    BY <1>1, <1>2

LEMMA FlattenEmpty == FlattenSeq(<<>>) = <<>>
  BY DEF FlattenSeq

LEMMA FlattenOne ==
    ASSUME NEW t, Len(t) = 1
    PROVE  FlattenSeq(t) = t[1]
  <1> DEFINE n == 1
  <1>1. n \in Nat \ {0} /\ Len(t) = n
    OBVIOUS
  <1> HIDE DEF n
  <1>2. PICK f : Flattens(f, t, n) /\ FlattenSeq(t) = f[n]
    BY <1>1, FlattenIs
  <1>3. f[n] = t[n]
    BY <1>2 DEF Flattens, n
  <1> QED
    BY <1>2, <1>3 DEF n

LEMMA FlattenLonger ==
    ASSUME NEW s, NEW t, NEW n \in Nat \ {0}, NEW k \in Nat \ {0}, k = n + 1,
           Len(s) = n, Len(t) = k, \A i \in 1..n : s[i] = t[i]
    PROVE  FlattenSeq(t) = FlattenSeq(s) \o t[k]
  <1>1. PICK f : Flattens(f, s, n) /\ FlattenSeq(s) = f[n]
    BY FlattenIs
  <1>2. PICK g : Flattens(g, t, k) /\ FlattenSeq(t) = g[k]
    BY FlattenIs
  <1>3. f[n] = g[n]
    BY <1>1, <1>2, FlattensAgree
  <1>4. g[k] = g[n] \o t[k]
    <2>1. k \in 1..k /\ k # 1 /\ k - 1 = n
      OBVIOUS
    <2> QED
      BY <1>2, <2>1 DEF Flattens
  <1> QED
    BY <1>1, <1>2, <1>3, <1>4

\* A sequence added at the end comes at the end.
LEMMA FlattenAppend ==
    ASSUME NEW A, NEW seqs \in Seq(Seq(A)), NEW s \in Seq(A)
    PROVE  FlattenSeq(Append(seqs, s)) = FlattenSeq(seqs) \o s
  <1>1. PICK t : t = Append(seqs, s)
    OBVIOUS
  <1>2. PICK n \in Nat : n = Len(seqs)
    OBVIOUS
  <1>3. PICK k \in Nat \ {0} : k = n + 1
    OBVIOUS
  <1>4. Len(t) = k /\ t[k] = s /\ \A i \in 1..n : seqs[i] = t[i]
    BY <1>1, <1>2, <1>3
  <1>5. CASE n = 0
    <2>1. seqs = <<>> /\ <<>> \o s = s
      <3>1. seqs = <<>>
        BY <1>2, <1>5, EmptySeq
      <3>2. <<>> \o s = s
        BY ConcatEmptySeq
      <3> QED
        BY <3>1, <3>2
    <2>2. Len(t) = 1 /\ t[1] = s
      BY <1>3, <1>4, <1>5
    <2>3. FlattenSeq(t) = t[1]
      BY <2>2, FlattenOne
    <2>4. FlattenSeq(seqs) = <<>>
      BY <2>1, FlattenEmpty
    <2> QED
      BY <1>1, <2>1, <2>2, <2>3, <2>4
  <1>6. CASE n # 0
    <2>1. n \in Nat \ {0} /\ Len(seqs) = n
      BY <1>2, <1>6
    <2>2. FlattenSeq(t) = FlattenSeq(seqs) \o t[k]
      BY <1>3, <1>4, <2>1, FlattenLonger
    <2> QED
      BY <1>1, <1>4, <2>2
  <1> QED
    BY <1>5, <1>6

\* Induction on the length of a sequence.
LEMMA SequenceInduction ==
    ASSUME NEW A, NEW T, <<>> \in T,
           \A q \in Seq(A), e \in A : q \in T => Append(q, e) \in T
    PROVE  Seq(A) \subseteq T
  <1> DEFINE S == {n \in Nat : \A q \in Seq(A) : Len(q) = n => q \in T}
  <1>1. 0 \in S
    BY EmptySeq
  <1>2. ASSUME NEW n \in Nat, n \in S
        PROVE  n + 1 \in S
    <2> SUFFICES ASSUME NEW q \in Seq(A), Len(q) = n + 1
                 PROVE  q \in T
      OBVIOUS
    <2>1. q # <<>>
      OBVIOUS
    <2>2. PICK r \in Seq(A), e \in A : q = Append(r, e)
      BY <2>1, SequenceEmptyOrAppend
    <2>3. Len(r) = n
      BY <2>2
    <2> QED
      BY <1>2, <2>2, <2>3
  <1>3. Nat \subseteq S
    <2> HIDE DEF S
    <2> QED
      BY <1>1, <1>2, Induction
  <1> QED
    <2> SUFFICES ASSUME NEW q \in Seq(A) PROVE q \in T
      OBVIOUS
    <2>1. Len(q) \in S
      BY <1>3, LenProperties
    <2> QED
      BY <2>1

LEMMA FlattenTyped ==
    ASSUME NEW A, NEW seqs \in Seq(Seq(A))
    PROVE  FlattenSeq(seqs) \in Seq(A)
  <1> DEFINE T == {q \in Seq(Seq(A)) : FlattenSeq(q) \in Seq(A)}
  <1>1. <<>> \in T
    <2>1. <<>> \in Seq(Seq(A)) /\ <<>> \in Seq(A)
      OBVIOUS
    <2> QED
      BY <2>1, FlattenEmpty
  <1>2. ASSUME NEW q \in Seq(Seq(A)), NEW e \in Seq(A), q \in T
        PROVE  Append(q, e) \in T
    <2>1. FlattenSeq(Append(q, e)) = FlattenSeq(q) \o e
      BY FlattenAppend
    <2>2. FlattenSeq(q) \o e \in Seq(A)
      BY <1>2, ConcatProperties
    <2>3. Append(q, e) \in Seq(Seq(A))
      OBVIOUS
    <2> QED
      BY <2>1, <2>2, <2>3
  <1> HIDE DEF T
  <1>3. Seq(Seq(A)) \subseteq T
    BY <1>1, <1>2, SequenceInduction
  <1> QED
    BY <1>3 DEF T

LEMMA FlattenConcat ==
    ASSUME NEW A, NEW p \in Seq(Seq(A)), NEW q \in Seq(Seq(A))
    PROVE  FlattenSeq(p \o q) = FlattenSeq(p) \o FlattenSeq(q)
  <1> DEFINE T == {r \in Seq(Seq(A)) : FlattenSeq(p \o r) = FlattenSeq(p) \o FlattenSeq(r)}
  <1>1. <<>> \in T
    <2>1. p \o <<>> = p /\ FlattenSeq(p) \o <<>> = FlattenSeq(p)
      BY ConcatEmptySeq, FlattenTyped
    <2>2. <<>> \in Seq(Seq(A))
      OBVIOUS
    <2> QED
      BY <2>1, <2>2, FlattenEmpty
  <1>2. ASSUME NEW r \in Seq(Seq(A)), NEW e \in Seq(A), r \in T
        PROVE  Append(r, e) \in T
    <2>1. p \o Append(r, e) = Append(p \o r, e)
      BY SMTT(30)
    <2>2. FlattenSeq(Append(p \o r, e)) = FlattenSeq(p \o r) \o e
      BY FlattenAppend, ConcatProperties
    <2>3. FlattenSeq(Append(r, e)) = FlattenSeq(r) \o e
      BY FlattenAppend
    <2>4. (FlattenSeq(p) \o FlattenSeq(r)) \o e = FlattenSeq(p) \o (FlattenSeq(r) \o e)
      <3>1. PICK a \in Seq(A), b \in Seq(A) : a = FlattenSeq(p) /\ b = FlattenSeq(r)
        BY FlattenTyped
      <3>2. Join(Join(a, b), e) = Join(a, Join(b, e))
        BY Joined
      <3> QED
        BY <3>1, <3>2 DEF Join
    <2>5. Append(r, e) \in Seq(Seq(A))
      OBVIOUS
    <2> QED
      BY <1>2, <2>1, <2>2, <2>3, <2>4, <2>5
  <1> HIDE DEF T
  <1>3. Seq(Seq(A)) \subseteq T
    BY <1>1, <1>2, SequenceInduction
  <1> QED
    BY <1>3 DEF T

\* The first sequence comes first.
LEMMA FlattenFirst ==
    ASSUME NEW A, NEW s \in Seq(A), NEW q \in Seq(Seq(A))
    PROVE  FlattenSeq(<<s>> \o q) = s \o FlattenSeq(q)
  <1>1. <<s>> \in Seq(Seq(A)) /\ Len(<<s>>) = 1 /\ <<s>>[1] = s
    OBVIOUS
  <1>2. FlattenSeq(<<s>>) = s
    BY <1>1, FlattenOne
  <1> QED
    BY <1>1, <1>2, FlattenConcat

=============================================================================
