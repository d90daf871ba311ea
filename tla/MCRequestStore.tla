--------------------------- MODULE MCRequestStore ---------------------------
(***************************************************************************)
(* Small instances of RequestStore: two gateway workers, one with two      *)
(* calls in flight on a pool of one connection.                            *)
(***************************************************************************)
EXTENDS RequestStore, TLC

CONSTANTS c1, c2, c3, w1, w2

MCWorkerOf == [c \in Calls |-> IF c = c3 THEN w2 ELSE w1]

Symmetry == Permutations(RequestIds)

=============================================================================
