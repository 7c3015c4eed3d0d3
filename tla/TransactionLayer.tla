---------------------------- MODULE TransactionLayer ----------------------------
(***************************************************************************)
(* What the client and the server side of the SIP transaction layer have   *)
(* in common.  Each has a table of its own, keyed alike, and a shutdown of *)
(* the layer takes both.                                                   *)
(***************************************************************************)
EXTENDS Naturals

CONSTANTS
    Txn,         \* transaction objects
    Key,         \* branch and method
    MayShutDown, \* whether the layer may be shut down
    None

\* What the layer tells responses apart by.
Class == {"provisional", "success", "failure"}

ASSUME LayerAssumption == MayShutDown \in BOOLEAN /\ None \notin Txn \cup Key \cup Class
=============================================================================
