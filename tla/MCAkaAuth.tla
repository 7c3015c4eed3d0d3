------------------------------- MODULE MCAkaAuth -------------------------------
(***************************************************************************)
(* Instances of AkaAuth for TLC: one device that registers two public      *)
(* identities under one Call-ID.                                           *)
(***************************************************************************)
EXTENDS AkaAuth
=============================================================================
