------------------------- MODULE MCClientTransactions -------------------------
(***************************************************************************)
(* Instances of ClientTransactions for TLC: an INVITE over UDP and a       *)
(* CANCEL over TCP, each with its own key.                                 *)
(***************************************************************************)
EXTENDS ClientTransactions

CONSTANTS invite, cancel, inviteKey, cancelKey, udp, tcp

Keys == [t \in Txn |-> IF t = invite THEN inviteKey ELSE cancelKey]

Chains == [t \in Txn |-> IF t \in OverUdp THEN udp ELSE tcp]
=============================================================================
