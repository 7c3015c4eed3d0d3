------------------------------ MODULE BlockingCall ------------------------------
(***************************************************************************)
(* What a thread may expect of IRtpengineClient: a call returns, once, with *)
(* success or an error.  Nothing is said about how long it takes, or about  *)
(* the order in which calls of several threads return.                      *)
(*                                                                          *)
(* RtpengineClient implements this; MediaSessions is built on it.           *)
(***************************************************************************)

EXTENDS RtpengineCaller

VARIABLE call     \* of each thread: "idle", "called", or what the call returned

CallTypeOK == call \in [Caller -> {"idle", "called", "ok", "error"}]

CallInit == call = [c \in Caller |-> "idle"]

Call(c) ==
    /\ call[c] = "idle"
    /\ call' = [call EXCEPT ![c] = "called"]

Finish(c) ==
    /\ call[c] = "called"
    /\ \E r \in {"ok", "error"} : call' = [call EXCEPT ![c] = r]

Succeeded(c) == call[c] = "ok"

Return(c) ==
    /\ call[c] \in {"ok", "error"}
    /\ call' = [call EXCEPT ![c] = "idle"]

CallStep == \E c \in Caller : Call(c) \/ Finish(c) \/ Return(c)

CallSafety == CallInit /\ [][CallStep]_call

CallSpec == CallSafety /\ \A c \in Caller : WF_call(Finish(c))
=============================================================================
