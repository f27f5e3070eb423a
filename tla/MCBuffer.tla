------------------------------ MODULE MCBuffer -------------------------------
(***************************************************************************)
(* An instance of Buffer for TLC: writes of two to five bytes, which need  *)
(* up to two chunks at once.                                               *)
(***************************************************************************)
EXTENDS Buffer

Inputs == {<<1, 2>>, <<2, 0, 1>>, <<2, 1, 0, 1, 2>>}
=============================================================================
