------------------------------ MODULE MCBuffer ------------------------------
(***************************************************************************)
(* An instance of Buffer for TLC.                                          *)
(***************************************************************************)
EXTENDS Buffer

\* Two values of a byte tell any two bytes of the array apart.
MCByte == {0, 1}
=============================================================================
