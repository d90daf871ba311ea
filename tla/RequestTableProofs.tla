------------------------- MODULE RequestTableProofs -------------------------
(***************************************************************************)
(* What inserting and settling one row does to the rows an account is      *)
(* charged for.  Both the store and the handlers above it rest on these.   *)
(***************************************************************************)
EXTENDS RequestTable, FiniteSetTheorems, TLAPS

\* The charged rows of a table are finitely many, so counting them is sound
\* (the SELECT count(*) of store.py:75).
LEMMA ChargedFinite ==
    ASSUME NEW t \in Tables
    PROVE  IsFiniteSet(Charged(t)) /\ Cardinality(Charged(t)) \in Nat
  <1>1. Charged(t) \in SUBSET RequestIds
    BY DEF Charged
  <1>2. IsFiniteSet(Charged(t))
    BY <1>1, RequestIdsAssumption, FS_Subset
  <1> QED
    BY <1>2, FS_CardinalityType

\* INSERT of a new row (store.py:77) keeps the table well formed and charges
\* at most that row; behind check_allowance (store.py:74-76) the account stays
\* within its allowance.
LEMMA InsertKeepsQuota ==
    ASSUME NEW t \in Tables, NEW id \in RequestIds,
           NEW metered \in BOOLEAN, NEW now \in Int,
           ~IsDuplicate(t, id),
           metered => ~IsExhausted(t),
           Cardinality(Charged(t)) <= Allowance,
           NEW u, u = [t EXCEPT ![id] = Reserved(metered, now)]
    PROVE  u \in Tables /\ Cardinality(Charged(u)) <= Allowance
  <1>1. u \in Tables
    BY DEF Tables, Row, Statuses, Outcomes, Reserved
  <1>2. CASE metered
    <2>1. Charged(u) = Charged(t) \cup {id}
      BY <1>2 DEF Charged, Tables, Reserved
    <2>2. id \notin Charged(t)
      BY DEF Charged, IsDuplicate
    <2>3. Cardinality(Charged(u)) = Cardinality(Charged(t)) + 1
      BY <2>1, <2>2, ChargedFinite, FS_AddElement
    <2>4. Cardinality(Charged(t)) < Allowance
      BY <1>2, ChargedFinite, AllowanceAssumption DEF IsExhausted
    <2> QED
      BY <1>1, <2>3, <2>4, ChargedFinite, AllowanceAssumption
  <1>3. CASE ~metered
    <2>1. Charged(u) = Charged(t)
      BY <1>3 DEF Charged, Tables, Reserved, IsDuplicate
    <2> QED
      BY <1>1, <2>1
  <1> QED
    BY <1>2, <1>3

\* UPDATE ... WHERE status = 'reserved' (store.py:82) keeps the table well
\* formed and charges nothing that was not charged before.
LEMMA SettleKeepsQuota ==
    ASSUME NEW t \in Tables, NEW id \in RequestIds,
           NEW outcome \in Outcomes, NEW now \in Int,
           Cardinality(Charged(t)) <= Allowance,
           NEW u, u = [t EXCEPT ![id] = Settled(t[id], outcome, now)]
    PROVE  u \in Tables /\ Cardinality(Charged(u)) <= Allowance
  <1>1. u \in Tables
    BY DEF Tables, Row, Statuses, Outcomes, Settled
  <1>2. Charged(u) \in SUBSET Charged(t)
    BY DEF Charged, Tables, Settled
  <1>3. Cardinality(Charged(u)) <= Cardinality(Charged(t))
    BY <1>2, ChargedFinite, FS_Subset
  <1> QED
    BY <1>1, <1>3, ChargedFinite, AllowanceAssumption

=============================================================================
