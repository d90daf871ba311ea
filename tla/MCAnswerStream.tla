--------------------------- MODULE MCAnswerStream ---------------------------
(***************************************************************************)
(* A small instance of AnswerStream.  The deltas: a character of two       *)
(* bytes, white space, one whose frame is at the limit (over it, if lines  *)
(* end in CR LF), one with a line separator.                               *)
(***************************************************************************)
EXTENDS AnswerStream

MCDeltas == {<<"lead", "trail">>, <<"blank">>, <<"a", "a", "a", "a">>, <<"a", "separator">>}

=============================================================================
