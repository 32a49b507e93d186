--------------------------- MODULE MCWrapupQueue ---------------------------
(***************************************************************************)
(* Instances of WrapupQueue for TLC: two jobs and two drain threads, one   *)
(* more than the flag admits.                                              *)
(***************************************************************************)
EXTENDS WrapupQueue

=============================================================================
