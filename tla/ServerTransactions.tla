--------------------------- MODULE ServerTransactions ---------------------------
(***************************************************************************)
(* The server side of the SIP transaction layer: ServerTransaction and the *)
(* table server_txns of TransactionLayer.                                  *)
(*                                                                         *)
(* A request that reaches the layer looks its key up, makes a transaction  *)
(* of its own when there is none, and puts that into the table unless      *)
(* another receive chain was faster: three sections under the lock of the  *)
(* table.  The owner of a transaction (the handler of the request, or the  *)
(* callback of a forwarded request) sends its responses from whatever      *)
(* thread it runs on, while ACKs arrive and timers expire.                 *)
(*                                                                         *)
(* Abstractions.                                                           *)
(*  - Every transaction object is a member of Txn; what is not in the      *)
(*    table and was never made is "new".                                   *)
(*  - A key stands for branch and method.  The requests of a key may       *)
(*    arrive any number of times on any chain.                             *)
(*  - The owner sends provisional responses and one final response, one    *)
(*    after the other; what it may fail to do is in Answers.               *)
(*  - Durations are left out: an armed timer may expire at any time.       *)
(***************************************************************************)
EXTENDS TransactionLayer

CONSTANTS
    InviteKey,   \* the keys of an INVITE
    Answered,    \* the keys whose owner sends a final response
    Chain        \* receive chains

ASSUME ServerAssumption == InviteKey \subseteq Key /\ Answered \subseteq Key

VARIABLES
    serverTxns, \* server_txns
    phase,      \* "up", "flagged" (shutting_down) or "closed" (the table is taken)
    doomed,     \* the transactions shutdown has taken out of the table
    keyOf,      \* the key of every transaction that was made
    state,      \* state_
    last,       \* the class of last_response_
    notified,   \* termination_notified_
    bound,      \* the transactions that still have their callback
    timer,      \* timers H and J: "armed", or the handler "due"
    owner,      \* where the owner of a transaction stands
    leaving,    \* the transactions whose callback on_terminated_ is running
    rx,         \* what a receive chain is doing, for which key
    handled     \* the transactions the request handler was called for

serverVars == <<serverTxns, phase, doomed, keyOf, state, last, notified, bound, timer, owner, leaving, rx, handled>>

Idle == [at |-> "idle", key |-> None, txn |-> None]

\* Every transaction in the table was made for the key it is listed under.
ServerTypeOK ==
    /\ serverTxns \in [Key -> Txn \cup {None}]
    /\ \A k \in Key : serverTxns[k] # None => keyOf[serverTxns[k]] = k
    /\ phase \in {"up", "flagged", "closed"}
    /\ doomed \in SUBSET Txn
    /\ keyOf \in [Txn -> Key \cup {None}]
    /\ state \in [Txn -> {"Trying", "Proceeding", "Completed", "Terminated"}]
    /\ last \in [Txn -> Class \cup {None}]
    /\ notified \in SUBSET Txn
    /\ bound \in SUBSET Txn
    /\ timer \in [Txn -> {"off", "armed", "due"}]
    /\ owner \in [Txn -> [at: {"idle", "sent", "timers"}, class: Class \cup {None}]]
    /\ leaving \in SUBSET Txn
    /\ rx \in [Chain -> [at: {"idle", "make", "insert", "handle"}, key: Key \cup {None},
                         txn: Txn \cup {None}]]
    /\ handled \in SUBSET Txn

Quiet == [at |-> "idle", class |-> None]

ServerInit ==
    /\ serverTxns = [k \in Key |-> None]
    /\ phase = "up"
    /\ doomed = {}
    /\ keyOf = [t \in Txn |-> None]
    /\ state = [t \in Txn |-> "Trying"]
    /\ last = [t \in Txn |-> None]
    /\ notified = {}
    /\ bound = Txn
    /\ timer = [t \in Txn |-> "off"]
    /\ owner = [t \in Txn |-> Quiet]
    /\ leaving = {}
    /\ rx = [c \in Chain |-> Idle]
    /\ handled = {}

-----------------------------------------------------------------------------
\* Faulty variant: the callback runs every time.
MarkTerminatedAgain(t) ==
    /\ notified' = notified \cup {t}
    /\ leaving' = IF t \in bound THEN leaving \cup {t} ELSE leaving

\* markTerminatedLocked: the callback runs the first time, if it is still set.
MarkTerminated(t) ==
    /\ notified' = notified \cup {t}
    /\ leaving' = IF t \in bound \ notified THEN leaving \cup {t} ELSE leaving

Stopped(t) == [timer EXCEPT ![t] = IF @ = "armed" THEN "off" ELSE @]

-----------------------------------------------------------------------------
(* processMessage. *)

\* A request whose transaction is in the table has its last response sent
\* again, which changes nothing; one without goes on.
Arrive(c, k) ==
    /\ rx[c] = Idle /\ phase = "up"
    /\ serverTxns[k] = None
    /\ rx' = [rx EXCEPT ![c] = [at |-> "make", key |-> k, txn |-> None]]
    /\ UNCHANGED <<serverTxns, phase, doomed, keyOf, state, last, notified, bound, timer, owner, leaving,
                   handled>>

\* Faulty variant: the key is read after the request was moved away.
MakeTransactionMoved(c, t) ==
    /\ rx[c].at = "make" /\ keyOf[t] = None
    /\ rx' = [rx EXCEPT ![c].at = "insert", ![c].txn = t]
    /\ UNCHANGED <<serverTxns, phase, doomed, keyOf, state, last, notified, bound, timer, owner, leaving,
                   handled>>

MakeTransaction(c, t) ==
    /\ rx[c].at = "make" /\ keyOf[t] = None
    /\ keyOf' = [keyOf EXCEPT ![t] = rx[c].key]
    /\ rx' = [rx EXCEPT ![c].at = "insert", ![c].txn = t]
    /\ UNCHANGED <<serverTxns, phase, doomed, state, last, notified, bound, timer, owner, leaving, handled>>

\* Faulty variant: the transaction of a faster chain is replaced.
InsertReplaces(c) ==
    LET k == rx[c].key IN
    /\ rx[c].at = "insert"
    /\ IF phase # "up"
       THEN rx' = [rx EXCEPT ![c] = Idle] /\ UNCHANGED serverTxns
       ELSE /\ serverTxns' = [serverTxns EXCEPT ![k] = rx[c].txn]
            /\ rx' = [rx EXCEPT ![c].at = "handle"]
    /\ UNCHANGED <<phase, doomed, keyOf, state, last, notified, bound, timer, owner, leaving, handled>>

\* try_emplace: whoever comes second drops its transaction and sends the last
\* response of the first one again.
Insert(c) ==
    LET k == rx[c].key IN
    /\ rx[c].at = "insert"
    /\ IF phase # "up" \/ serverTxns[k] # None
       THEN rx' = [rx EXCEPT ![c] = Idle] /\ UNCHANGED serverTxns
       ELSE /\ serverTxns' = [serverTxns EXCEPT ![k] = rx[c].txn]
            /\ rx' = [rx EXCEPT ![c].at = "handle"]
    /\ UNCHANGED <<phase, doomed, keyOf, state, last, notified, bound, timer, owner, leaving, handled>>

\* The request handler; shutdown may have taken it away.
Handle(c) ==
    /\ rx[c].at = "handle"
    /\ handled' = IF phase = "closed" THEN handled ELSE handled \cup {rx[c].txn}
    /\ rx' = [rx EXCEPT ![c] = Idle]
    /\ UNCHANGED <<serverTxns, phase, doomed, keyOf, state, last, notified, bound, timer, owner, leaving>>

\* An ACK with the branch of an INVITE whose transaction is in the table.
AcknowledgeAck(c, k) ==
    LET t == serverTxns[k] IN
    /\ rx[c] = Idle /\ phase = "up"
    /\ k \in InviteKey /\ t # None
    /\ state[t] = "Completed"
    /\ state' = [state EXCEPT ![t] = "Terminated"]
    /\ timer' = Stopped(t)
    /\ MarkTerminated(t)
    /\ UNCHANGED <<serverTxns, phase, doomed, keyOf, last, bound, owner, rx, handled>>

-----------------------------------------------------------------------------
(* sendResponse: the send, the state, the timers. *)

SendResponse(t, class) ==
    /\ t \in handled /\ owner[t] = Quiet
    /\ keyOf[t] \in Answered /\ last[t] \in {"provisional", None}
    /\ owner' = [owner EXCEPT ![t] = [at |-> "sent", class |-> class]]
    /\ UNCHANGED <<serverTxns, phase, doomed, keyOf, state, last, notified, bound, timer, leaving, rx, handled>>

\* Faulty variant: the 2xx of an INVITE waits for an ACK as a failure does.
RecordResponseCompletes(t) ==
    LET class == owner[t].class IN
    /\ owner[t].at = "sent"
    /\ last' = [last EXCEPT ![t] = class]
    /\ state' = [state EXCEPT ![t] = IF class = "provisional" THEN "Proceeding" ELSE "Completed"]
    /\ owner' = [owner EXCEPT ![t] = Quiet]
    /\ UNCHANGED <<timer, notified, leaving, serverTxns, phase, doomed, keyOf, bound, rx, handled>>

\* The locked section.  An INVITE answered 2xx is over at once.
RecordResponse(t) ==
    LET class == owner[t].class
        over == class = "success" /\ keyOf[t] \in InviteKey IN
    /\ owner[t].at = "sent"
    /\ last' = [last EXCEPT ![t] = class]
    /\ state' = [state EXCEPT ![t] = IF class = "provisional" THEN "Proceeding"
                                     ELSE IF over THEN "Terminated" ELSE "Completed"]
    /\ IF over THEN timer' = Stopped(t) /\ MarkTerminated(t)
               ELSE UNCHANGED <<timer, notified, leaving>>
    /\ owner' = [owner EXCEPT ![t] = IF class = "provisional" \/ over THEN Quiet
                                     ELSE [at |-> "timers", class |-> class]]
    /\ UNCHANGED <<serverTxns, phase, doomed, keyOf, bound, rx, handled>>

\* startTimers: H for an INVITE that failed, J for any other final response.
StartTimers(t) ==
    /\ owner[t].at = "timers"
    /\ timer' = [timer EXCEPT ![t] = "armed"]
    /\ owner' = [owner EXCEPT ![t] = Quiet]
    /\ UNCHANGED <<serverTxns, phase, doomed, keyOf, state, last, notified, bound, leaving, rx, handled>>

TimerExpires(t) ==
    /\ timer[t] = "armed"
    /\ timer' = [timer EXCEPT ![t] = "due"]
    /\ UNCHANGED <<serverTxns, phase, doomed, keyOf, state, last, notified, bound, owner, leaving, rx, handled>>

RunTimer(t) ==
    /\ timer[t] = "due"
    /\ timer' = [timer EXCEPT ![t] = "off"]
    /\ state' = [state EXCEPT ![t] = "Terminated"]
    /\ MarkTerminated(t)
    /\ UNCHANGED <<serverTxns, phase, doomed, keyOf, last, bound, owner, rx, handled>>

\* The callback takes its own transaction out of the table, no other.
OnTerminated(t) ==
    /\ t \in leaving
    /\ leaving' = leaving \ {t}
    /\ serverTxns' = IF phase = "up" /\ serverTxns[keyOf[t]] = t
                     THEN [serverTxns EXCEPT ![keyOf[t]] = None] ELSE serverTxns
    /\ UNCHANGED <<phase, doomed, keyOf, state, last, notified, bound, timer, owner, rx, handled>>

-----------------------------------------------------------------------------
(* Shutdown of the layer. *)

BeginServerShutdown ==
    /\ MayShutDown /\ phase = "up"
    /\ phase' = "flagged"
    /\ UNCHANGED <<serverTxns, doomed, keyOf, state, last, notified, bound, timer, owner, leaving, rx, handled>>

TakeServerTable ==
    /\ phase = "flagged"
    /\ phase' = "closed"
    /\ doomed' = {t \in Txn : \E k \in Key : serverTxns[k] = t}
    /\ serverTxns' = [k \in Key |-> None]
    /\ UNCHANGED <<keyOf, state, last, notified, bound, timer, owner, leaving, rx, handled>>

ShutDownServer(t) ==
    /\ t \in doomed
    /\ doomed' = doomed \ {t}
    /\ state' = [state EXCEPT ![t] = "Terminated"]
    /\ notified' = notified \cup {t}
    /\ bound' = bound \ {t}
    /\ timer' = Stopped(t)
    /\ UNCHANGED <<serverTxns, phase, keyOf, last, owner, leaving, rx, handled>>

-----------------------------------------------------------------------------
Respond(t) == \E class \in Class : SendResponse(t, class)

FinishResponse(t) == RecordResponse(t) \/ StartTimers(t)

GetHandled(c) == (\E t \in Txn : MakeTransaction(c, t)) \/ Insert(c) \/ Handle(c)

ServerNext ==
    \/ \E c \in Chain :
          \/ \E k \in Key : Arrive(c, k) \/ AcknowledgeAck(c, k)
          \/ GetHandled(c)
    \/ \E t \in Txn :
          \/ Respond(t) \/ FinishResponse(t)
          \/ TimerExpires(t) \/ RunTimer(t) \/ OnTerminated(t) \/ ShutDownServer(t)
    \/ BeginServerShutdown \/ TakeServerTable

ServerSpec == ServerInit /\ [][ServerNext]_serverVars

\* Handlers that have begun run on, armed timers expire, and the owner of an
\* answered key sends its final response, which the transport takes, after
\* finitely many provisional ones.
FairServerSpec ==
    /\ ServerSpec
    /\ \A t \in Txn :
          /\ SF_serverVars(\E class \in Class \ {"provisional"} : SendResponse(t, class))
          /\ WF_serverVars(FinishResponse(t))
          /\ WF_serverVars(TimerExpires(t) \/ RunTimer(t))
          /\ WF_serverVars(OnTerminated(t))
    /\ \A c \in Chain : WF_serverVars(GetHandled(c))
    /\ WF_serverVars(TakeServerTable)

-----------------------------------------------------------------------------
(* Properties. *)

\* A request that was handled is in the table until it is over, so that every
\* copy of it, on whatever chain, gets its response again and is not handled
\* a second time.
OpenRequestListed ==
    \A t \in handled : phase = "up" /\ state[t] # "Terminated" => serverTxns[keyOf[t]] = t

\* The variables have their types and the table fits what has been handled.
ServerTableConsistent == ServerTypeOK /\ OpenRequestListed

\* A transaction says once that it is over, however an ACK, the timers and the
\* start of the timers after the response follow each other.
TerminationToldOnce ==
    [][\A t \in notified \ leaving : t \notin leaving']_serverVars

\* Every request that was answered leaves the table (docs/requirements.md 3.2);
\* the ACK of a 2xx, which nobody answers, does not (see README).
AnsweredRequestEnds ==
    \A t \in Txn, k \in Answered : serverTxns[k] = t ~> serverTxns[k] # t
=============================================================================
