---------------------------- MODULE MCOriginNode ----------------------------
(* Calls are interchangeable.                                              *)
EXTENDS OriginNode, TLC

CallSymmetry == Permutations(Calls)
=============================================================================
