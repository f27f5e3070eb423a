------------------------------ MODULE CharClasses ------------------------------
(***************************************************************************)
(* init_char_class (char_classes.c): the codes of the bytes of each class  *)
(* that a table of states names (TOKEN_ALPHA, TOKEN_DIGIT, SCHEME_TOKEN).  *)
(* No table names the others.                                              *)
(***************************************************************************)
EXTENDS Integers

TokenAlpha == (65 .. 90) \cup (97 .. 122)
TokenDigit == 48 .. 57

\* Letters, digits, "+", "-" and ".".
SchemeToken == TokenAlpha \cup TokenDigit \cup {43, 45, 46}
=============================================================================
