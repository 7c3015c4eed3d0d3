----------------------------- MODULE MCTcpTransport -----------------------------
(***************************************************************************)
(* An instance of TcpTransport for TLC: the stream is a message with a body *)
(* that looks like the end of a header, and one without a body.             *)
(***************************************************************************)
EXTENDS TcpTransport

Part(message, kind, length) == [message |-> message, kind |-> kind, length |-> length]

MCStream == <<Part(1, "text", 0), Part(1, "blank", 1), Part(1, "blank", 0), Part(2, "blank", 0)>>

ASSUME StreamFramed == StreamOfMessages
=============================================================================
