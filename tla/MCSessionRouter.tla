---------------------------- MODULE MCSessionRouter ----------------------------
(***************************************************************************)
(* Instances of SessionRouter for TLC.  Callee tags and contacts are       *)
(* interchangeable.                                                        *)
(***************************************************************************)
EXTENDS SessionRouter, TLC

Symmetry == Permutations(Tag) \cup Permutations(Endpoint)
=============================================================================
