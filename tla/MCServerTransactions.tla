------------------------- MODULE MCServerTransactions -------------------------
(***************************************************************************)
(* Instances of ServerTransactions for TLC: an INVITE and a BYE, each of   *)
(* which its handler answers.                                              *)
(***************************************************************************)
EXTENDS ServerTransactions
=============================================================================
