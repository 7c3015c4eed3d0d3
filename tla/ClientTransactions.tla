--------------------------- MODULE ClientTransactions ---------------------------
(***************************************************************************)
(* The client side of the SIP transaction layer: ClientTransaction and the *)
(* table client_txns of TransactionLayer.                                  *)
(*                                                                         *)
(* sendRequest puts a transaction into the table, sends the request and    *)
(* arms timer A (retransmission, UDP only) and timer B (32 s) afterwards.  *)
(* Responses arrive on receive chains, the timers run on the threads of    *)
(* the io_context: a response may overtake the arming of the timers, and a *)
(* timer whose handler is already queued runs although it was cancelled.   *)
(*                                                                         *)
(* Abstractions.                                                           *)
(*  - A request belongs to the transaction that carries it; the owner is   *)
(*    the code that called sendRequest and gave the callback.              *)
(*  - The network may deliver any response to a request that was sent, any *)
(*    number of times.                                                     *)
(*  - Durations are left out: an armed timer may expire at any time.       *)
(*  - retransmit_count_ only scales the interval and is left out with it.  *)
(***************************************************************************)
EXTENDS TransactionLayer

CONSTANTS
    Invites,    \* the transactions of an INVITE
    OverUdp,    \* ... those sent over UDP
    KeyOf,      \* the key of every transaction
    Receiver,   \* receive chains
    ChainOf     \* the chain of the socket a request is sent through

ASSUME ClientAssumption ==
    /\ Invites \subseteq Txn /\ OverUdp \subseteq Txn
    /\ KeyOf \in [Txn -> Key]
    /\ ChainOf \in [Txn -> Receiver]

VARIABLES
    clientTxns,  \* client_txns
    down,        \* shutting_down
    taken,       \* the transactions shutdown has taken out of the table
    sender,      \* where sendRequest stands
    clientState, \* state_
    callbacks,   \* the transactions that still have their callbacks
    timerA,      \* "armed", its handler "due", or "sending" between its locks
    timerB,      \* "armed", its handler "due", or "expired" before on_timeout
    incoming,    \* what a receive chain is doing, with which response
    finals       \* how many final responses the owner has been given

clientVars == <<clientTxns, down, taken, sender, clientState, callbacks, timerA, timerB, incoming, finals>>

Final == {"success", "failure"}
Over == {"Completed", "Terminated"}

NoResponse == [at |-> "idle", txn |-> None, class |-> None]

\* A chain that holds a response holds a transaction for it, and the owner
\* of a request is never given a second final response.
ClientTypeOK ==
    /\ clientTxns \in [Key -> Txn \cup {None}]
    /\ down \in BOOLEAN
    /\ taken \in SUBSET Txn
    /\ sender \in [Txn -> {"new", "sending", "arming", "failed", "done", "refused"}]
    /\ clientState \in [Txn -> {"Trying", "Proceeding"} \cup Over]
    /\ callbacks \in SUBSET Txn
    /\ timerA \in [Txn -> {"off", "armed", "due", "sending"}]
    /\ timerB \in [Txn -> {"off", "armed", "due", "expired"}]
    /\ incoming \in [Receiver -> {NoResponse} \cup
                                  [at: {"found", "callback", "erase"}, txn: Txn, class: Class]]
    /\ finals \in [Txn -> 0 .. 1]

ClientInit ==
    /\ clientTxns = [k \in Key |-> None]
    /\ down = FALSE
    /\ taken = {}
    /\ sender = [t \in Txn |-> "new"]
    /\ clientState = [t \in Txn |-> "Trying"]
    /\ callbacks = Txn
    /\ timerA = [t \in Txn |-> "off"]
    /\ timerB = [t \in Txn |-> "off"]
    /\ incoming = [r \in Receiver |-> NoResponse]
    /\ finals = [t \in Txn |-> 0]

-----------------------------------------------------------------------------
(* Timers: cancel() stops an armed timer, not a handler that is due. *)

Armed(timer, t) == [timer EXCEPT ![t] = "armed"]

Cancelled(timer, t) == [timer EXCEPT ![t] = IF @ = "armed" THEN "off" ELSE @]

(* sendRequest. *)

SendRequest(t) ==
    /\ sender[t] = "new"
    /\ ~down /\ clientTxns[KeyOf[t]] = None
    /\ clientTxns' = [clientTxns EXCEPT ![KeyOf[t]] = t]
    /\ sender' = [sender EXCEPT ![t] = "sending"]
    /\ UNCHANGED <<down, taken, clientState, callbacks, timerA, timerB, incoming, finals>>

\* "Duplicate client transaction key", or the layer is shutting down.
RefuseRequest(t) ==
    /\ sender[t] = "new"
    /\ down \/ clientTxns[KeyOf[t]] # None
    /\ sender' = [sender EXCEPT ![t] = "refused"]
    /\ UNCHANGED <<clientTxns, down, taken, clientState, callbacks, timerA, timerB, incoming, finals>>

Start(t) ==
    /\ sender[t] = "sending"
    /\ sender' = [sender EXCEPT ![t] = "arming"]
    /\ UNCHANGED <<clientTxns, down, taken, clientState, callbacks, timerA, timerB, incoming, finals>>

StartFails(t) ==
    /\ sender[t] = "sending"
    /\ sender' = [sender EXCEPT ![t] = "failed"]
    /\ clientState' = [clientState EXCEPT ![t] = "Terminated"]
    /\ timerA' = Cancelled(timerA, t)
    /\ timerB' = Cancelled(timerB, t)
    /\ UNCHANGED <<clientTxns, down, taken, callbacks, incoming, finals>>

\* Faulty variant: the entry stays.
EraseFailedNot(t) ==
    /\ sender[t] = "failed"
    /\ sender' = [sender EXCEPT ![t] = "done"]
    /\ UNCHANGED <<clientTxns, down, taken, clientState, callbacks, timerA, timerB, incoming, finals>>

\* The transport refused the request: sendRequest takes the entry out again.
EraseFailed(t) ==
    /\ sender[t] = "failed"
    /\ clientTxns' = [clientTxns EXCEPT ![KeyOf[t]] = None]
    /\ sender' = [sender EXCEPT ![t] = "done"]
    /\ UNCHANGED <<down, taken, clientState, callbacks, timerA, timerB, incoming, finals>>

\* Faulty variant: timer B is only armed together with timer A.
ArmTimersTogether(t) ==
    LET both == t \in OverUdp /\ clientState[t] = "Trying" IN
    /\ sender[t] = "arming"
    /\ sender' = [sender EXCEPT ![t] = "done"]
    /\ timerA' = IF both THEN Armed(timerA, t) ELSE timerA
    /\ timerB' = IF both THEN Armed(timerB, t) ELSE timerB
    /\ UNCHANGED <<clientTxns, down, taken, clientState, callbacks, incoming, finals>>

\* The end of start(): what has happened since the request left decides.
ArmTimers(t) ==
    /\ sender[t] = "arming"
    /\ sender' = [sender EXCEPT ![t] = "done"]
    /\ timerA' = IF t \in OverUdp /\ clientState[t] = "Trying" THEN Armed(timerA, t) ELSE timerA
    /\ timerB' = IF clientState[t] \notin Over THEN Armed(timerB, t) ELSE timerB
    /\ UNCHANGED <<clientTxns, down, taken, clientState, callbacks, incoming, finals>>

-----------------------------------------------------------------------------
(* Timers A and B. *)

AExpires(t) ==
    /\ timerA[t] = "armed"
    /\ timerA' = [timerA EXCEPT ![t] = "due"]
    /\ UNCHANGED <<clientTxns, down, taken, sender, clientState, callbacks, timerB, incoming, finals>>

\* retransmit(), first locked section, and the send.
Retransmit(t) ==
    /\ timerA[t] = "due"
    /\ timerA' = [timerA EXCEPT ![t] = IF clientState[t] \in Over THEN "off" ELSE "sending"]
    /\ UNCHANGED <<clientTxns, down, taken, sender, clientState, callbacks, timerB, incoming, finals>>

\* ... second locked section.
Rearm(t) ==
    /\ timerA[t] = "sending"
    /\ timerA' = [timerA EXCEPT ![t] = IF clientState[t] \in Over THEN "off" ELSE "armed"]
    /\ UNCHANGED <<clientTxns, down, taken, sender, clientState, callbacks, timerB, incoming, finals>>

BExpires(t) ==
    /\ timerB[t] = "armed"
    /\ timerB' = [timerB EXCEPT ![t] = "due"]
    /\ UNCHANGED <<clientTxns, down, taken, sender, clientState, callbacks, timerA, incoming, finals>>

\* The handler of timer B; shutdown() may have taken on_timeout_ away.
TimeOut(t) ==
    /\ timerB[t] = "due"
    /\ IF clientState[t] \in Over
       THEN /\ timerB' = [timerB EXCEPT ![t] = "off"]
            /\ UNCHANGED <<clientState, timerA>>
       ELSE /\ timerB' = [timerB EXCEPT ![t] = IF t \in callbacks THEN "expired" ELSE "off"]
            /\ clientState' = [clientState EXCEPT ![t] = "Terminated"]
            /\ timerA' = Cancelled(timerA, t)
    /\ UNCHANGED <<clientTxns, down, taken, sender, callbacks, incoming, finals>>

OnTimeout(t) ==
    /\ timerB[t] = "expired"
    /\ timerB' = [timerB EXCEPT ![t] = "off"]
    /\ clientTxns' = IF down THEN clientTxns ELSE [clientTxns EXCEPT ![KeyOf[t]] = None]
    /\ UNCHANGED <<down, taken, sender, clientState, callbacks, timerA, incoming, finals>>

-----------------------------------------------------------------------------
(* Responses. *)

\* processMessage finds the transaction of a response.
FindClientTransaction(r, k, class) ==
    LET t == clientTxns[k] IN
    /\ incoming[r] = NoResponse /\ ~down
    /\ t # None /\ ChainOf[t] = r /\ sender[t] \in {"arming", "done"}
    /\ incoming' = [incoming EXCEPT ![r] = [at |-> "found", txn |-> t, class |-> class]]
    /\ UNCHANGED <<clientTxns, down, taken, sender, clientState, callbacks, timerA, timerB, finals>>

ResponseState(t, class) ==
    CASE class = "provisional" -> "Proceeding"
      [] class = "success" /\ t \in Invites -> "Completed"
      [] OTHER -> "Terminated"

ProcessResponse(r) ==
    LET t == incoming[r].txn IN
    /\ incoming[r].at = "found"
    /\ clientState' = [clientState EXCEPT ![t] = ResponseState(t, incoming[r].class)]
    /\ timerA' = Cancelled(timerA, t)
    /\ timerB' = IF incoming[r].class \in Final THEN Cancelled(timerB, t) ELSE timerB
    /\ incoming' = [incoming EXCEPT ![r] =
                      IF t \in callbacks THEN [@ EXCEPT !.at = "callback"] ELSE NoResponse]
    /\ UNCHANGED <<clientTxns, down, taken, sender, callbacks, finals>>

\* Faulty variant: the entry of an INVITE stays after a 2xx.
OnResponseKeeps2xx(r) ==
    LET t == incoming[r].txn
        class == incoming[r].class
        again == class \in Final /\ (t \in Invites => class = "failure") IN
    /\ incoming[r].at = "callback"
    /\ finals' = IF ~down /\ class \in Final THEN [finals EXCEPT ![t] = @ + 1] ELSE finals
    /\ incoming' = [incoming EXCEPT ![r] =
                      IF ~down /\ again THEN [@ EXCEPT !.at = "erase"] ELSE NoResponse]
    /\ UNCHANGED <<clientTxns, down, taken, sender, clientState, callbacks, timerA, timerB>>

\* Faulty variant: a provisional response ends the entry as well.
OnResponseErasesAny(r) ==
    /\ incoming[r].at = "callback"
    /\ finals' = IF ~down /\ incoming[r].class \in Final
                 THEN [finals EXCEPT ![incoming[r].txn] = @ + 1] ELSE finals
    /\ incoming' = [incoming EXCEPT ![r] = IF ~down THEN [@ EXCEPT !.at = "erase"] ELSE NoResponse]
    /\ UNCHANGED <<clientTxns, down, taken, sender, clientState, callbacks, timerA, timerB>>

\* The owner's callback, without a lock.
OnResponse(r) ==
    LET t == incoming[r].txn
        final == ~down /\ incoming[r].class \in Final IN
    /\ incoming[r].at = "callback"
    /\ finals' = IF final THEN [finals EXCEPT ![t] = @ + 1] ELSE finals
    /\ incoming' = [incoming EXCEPT ![r] = IF final THEN [@ EXCEPT !.at = "erase"] ELSE NoResponse]
    /\ UNCHANGED <<clientTxns, down, taken, sender, clientState, callbacks, timerA, timerB>>

EraseAnswered(r) ==
    /\ incoming[r].at = "erase"
    /\ clientTxns' = [clientTxns EXCEPT ![KeyOf[incoming[r].txn]] = None]
    /\ incoming' = [incoming EXCEPT ![r] = NoResponse]
    /\ UNCHANGED <<down, taken, sender, clientState, callbacks, timerA, timerB, finals>>

-----------------------------------------------------------------------------
(* Shutdown of the layer: the flag, the table, then every transaction. *)

BeginClientShutdown ==
    /\ MayShutDown /\ ~down
    /\ down' = TRUE
    /\ UNCHANGED <<clientTxns, taken, sender, clientState, callbacks, timerA, timerB, incoming, finals>>

TakeClientTable ==
    /\ down /\ \E k \in Key : clientTxns[k] # None
    /\ taken' = {t \in Txn : clientTxns[KeyOf[t]] = t}
    /\ clientTxns' = [k \in Key |-> None]
    /\ UNCHANGED <<down, sender, clientState, callbacks, timerA, timerB, incoming, finals>>

ShutDownClient(t) ==
    /\ t \in taken
    /\ taken' = taken \ {t}
    /\ clientState' = [clientState EXCEPT ![t] = "Terminated"]
    /\ callbacks' = callbacks \ {t}
    /\ timerA' = Cancelled(timerA, t)
    /\ timerB' = Cancelled(timerB, t)
    /\ UNCHANGED <<clientTxns, down, sender, incoming, finals>>

-----------------------------------------------------------------------------
Send(t) == Start(t) \/ StartFails(t) \/ EraseFailed(t) \/ ArmTimers(t)

RunTimerA(t) == AExpires(t) \/ Retransmit(t) \/ Rearm(t)

RunTimerB(t) == BExpires(t) \/ TimeOut(t) \/ OnTimeout(t)

Receive(r) == ProcessResponse(r) \/ OnResponse(r) \/ EraseAnswered(r)

ClientNext ==
    \/ \E t \in Txn :
          \/ SendRequest(t) \/ RefuseRequest(t) \/ Send(t)
          \/ RunTimerA(t) \/ RunTimerB(t) \/ ShutDownClient(t)
    \/ \E r \in Receiver :
          \/ \E k \in Key, class \in Class : FindClientTransaction(r, k, class)
          \/ Receive(r)
    \/ BeginClientShutdown \/ TakeClientTable

ClientSpec == ClientInit /\ [][ClientNext]_clientVars

\* Handlers that have begun run on, and an armed timer expires.
FairClientSpec ==
    /\ ClientSpec
    /\ \A t \in Txn : WF_clientVars(Send(t)) /\ WF_clientVars(RunTimerA(t)) /\ WF_clientVars(RunTimerB(t))
    /\ \A r \in Receiver : WF_clientVars(Receive(r))
    /\ WF_clientVars(TakeClientTable)

-----------------------------------------------------------------------------
(* Properties. *)

\* No entry of the table is forgotten: the caller of sendRequest is still at
\* it, timer B will remove it, a receive chain is about to, or a shutdown.
NoStrandedEntry ==
    \A k \in Key : LET t == clientTxns[k] IN
        t # None /\ ~down =>
            \/ sender[t] # "done"
            \/ timerB[t] # "off"
            \/ \E r \in Receiver : incoming[r].txn = t /\ incoming[r].class \in Final

\* A transaction whose timer B runs is the one the table has for its key, so
\* that its responses find it: a request of the same key is refused as long
\* as that is so, and what ends another transaction does not end this one.
RunningIsListed ==
    \A t \in Txn : timerB[t] = "armed" /\ ~down => clientTxns[KeyOf[t]] = t

\* The variables have their types, which gives an owner one final response at most,
\* and the table fits what runs.
ClientTableConsistent == ClientTypeOK /\ NoStrandedEntry /\ RunningIsListed

\* Every transaction leaves the table: answered, timed out, not sent at all,
\* or shut down (docs/requirements.md 3.2).
TableDrains == \A k \in Key, t \in Txn : clientTxns[k] = t ~> clientTxns[k] # t
=============================================================================
