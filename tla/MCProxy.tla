------------------------------ MODULE MCProxy ------------------------------
(***************************************************************************)
(* Instances of Proxy for TLC.                                             *)
(***************************************************************************)
EXTENDS Proxy, TLC

\* The structs, and the resolver threads, are interchangeable.
MCSymmetry == Permutations(Obj) \cup Permutations(Thread)
=============================================================================
