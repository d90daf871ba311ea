-------------------------- MODULE MCQueryLifecycle --------------------------
(***************************************************************************)
(* Small instances of QueryLifecycle.  Queries, and request ids, are       *)
(* interchangeable; where liveness is checked, without TLC's symmetry, one *)
(* query has one id to begin with: which ones makes no difference.         *)
(***************************************************************************)
EXTENDS QueryLifecycle, TLC

Symmetry == Permutations(Queries) \cup Permutations(RequestIds)

MCInit ==
    /\ Init
    /\ LET first == CHOOSE q \in Queries : TRUE
       IN  query[first].key = CHOOSE id \in RequestIds : TRUE

MCFairSpec == MCInit /\ [][Next]_vars /\ Fairness

=============================================================================
