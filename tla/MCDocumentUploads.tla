------------------------- MODULE MCDocumentUploads -------------------------
(***************************************************************************)
(* A small instance of DocumentUploads.  The texts are empty, end at a     *)
(* boundary of the chunks or beside it, and have one page or more.  One    *)
(* user opens the session: which one makes no difference.                  *)
(***************************************************************************)
EXTENDS DocumentUploads

CONSTANT Opener

MCTexts == {<<0>>, <<3>>, <<4, 0, 5>>}

MCInit == opening = [s \in Sessions |-> [pc |-> "new", user |-> Opener]] /\ Init

MCSpec == MCInit /\ [][Next]_vars /\ Fairness

=============================================================================
