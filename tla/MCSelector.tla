----------------------------- MODULE MCSelector -----------------------------
(***************************************************************************)
(* Instances of Selector for TLC.                                          *)
(***************************************************************************)
EXTENDS Selector

\* The interests the sessions of this proxy use, one operation at a time.
MCInterest == {{"READ"}, {"WRITE"}}
=============================================================================
