------------------------- MODULE TransactionLayerProofs -------------------------
(***************************************************************************)
(* Theorems about the two tables of TransactionLayer.                      *)
(*                                                                         *)
(* The server side.  An open request stays listed because only what is     *)
(* over is taken out before the shutdown (LeavingIsOver), and a chain that  *)
(* is about to hand a request on holds the transaction it has listed        *)
(* (ChainsFit).  That its end is told once follows from the lock alone.     *)
(*                                                                         *)
(* The client side.  Between its sections each of the sender, the timers    *)
(* and the chain of a socket goes by what it saw: the invariant says for    *)
(* every such point what cannot have happened since.  A transaction that is *)
(* over and listed has somebody on the way to take it out (OverIsLeaving),  *)
(* and one whose owner has a final response is listed only while the chain  *)
(* that brought it is about to erase it (AnsweredIsHidden).  A socket has   *)
(* one chain, so that no second response comes in between.                  *)
(***************************************************************************)
EXTENDS ClientTransactions, ServerTransactions, TLAPS

\* A chain on its way to the handler carries a transaction of its key.
ChainsFit ==
    \A c \in Chain :
        /\ rx[c].at # "idle" => rx[c].key \in Key
        /\ rx[c].at \in {"insert", "handle"} =>
              rx[c].txn \in Txn /\ keyOf[rx[c].txn] = rx[c].key

\* Only what was handled is answered, and only what was answered finally is over
\* or has a timer, until the layer is shut down.
AnswersFit ==
    \A t \in Txn :
        /\ t \in handled => keyOf[t] \in Key
        /\ owner[t].at # "idle" => owner[t].class \in Class
        /\ owner[t].at = "sent" => last[t] \in {"provisional", None}
        /\ last[t] \in {"provisional", None} =>
              /\ owner[t].at # "timers" /\ timer[t] = "off"
              /\ phase # "closed" => state[t] \in {"Trying", "Proceeding"}

\* What leaves the table is over.
LeavingIsOver ==
    phase # "closed" => doomed = {} /\ \A t \in leaving : state[t] = "Terminated"

\* Requests that were handled, or are about to be.
Taken(t) == t \in handled \/ \E c \in Chain : rx[c].at = "handle" /\ rx[c].txn = t

\* What has not ended is found by the copies of its request.
TakenIsListed ==
    \A t \in Txn : phase = "up" /\ Taken(t) /\ state[t] # "Terminated" => serverTxns[keyOf[t]] = t

\* The server side as a whole.
ServerInv == ServerTypeOK /\ ChainsFit /\ AnswersFit /\ LeavingIsOver /\ TakenIsListed

\* What a receive chain can be, for a step that replaces one.
ChainStep == [at: {"idle", "make", "insert", "handle"}, key: Key \cup {None}, txn: Txn \cup {None}]

LEMMA ServerInitInv == ServerInit => ServerInv
BY LayerAssumption, ServerAssumption DEF ServerInit, ServerInv, ServerTypeOK, ChainsFit, AnswersFit,
                                         LeavingIsOver, TakenIsListed, Taken, Quiet, Idle

LEMMA ServerStepInv == ServerInv /\ [ServerNext]_serverVars => ServerInv'
<1> SUFFICES ASSUME ServerInv, [ServerNext]_serverVars PROVE ServerInv'
  OBVIOUS
<1> USE LayerAssumption, ServerAssumption DEF ServerInv
<1>1. ASSUME NEW c \in Chain, NEW k \in Key, Arrive(c, k) PROVE ServerInv'
  <2> USE <1>1 DEF Arrive
  <2>1. ServerTypeOK'
    BY DEF ServerTypeOK
  <2>2. ChainsFit'
    BY DEF ChainsFit
  <2>3. AnswersFit'
    BY DEF AnswersFit
  <2>4. LeavingIsOver'
    BY DEF LeavingIsOver
  <2>5. TakenIsListed'
    BY DEF TakenIsListed, Taken
  <2> QED
    BY <2>1, <2>2, <2>3, <2>4, <2>5
<1>2. ASSUME NEW c \in Chain, NEW t \in Txn, MakeTransaction(c, t) PROVE ServerInv'
  <2> USE <1>2 DEF MakeTransaction
  <2>1. ServerTypeOK'
    <3>1. rx' \in [Chain -> ChainStep]
      <4>1. rx[c] \in ChainStep /\ c \in DOMAIN rx
        BY DEF ServerTypeOK, ChainStep
      <4>2. [rx[c] EXCEPT !.at = "insert", !.txn = t] \in ChainStep
        BY <4>1 DEF ChainStep
      <4>3. rx' = [rx EXCEPT ![c] = [rx[c] EXCEPT !.at = "insert", !.txn = t]]
        BY <4>1
      <4> QED
        BY <4>2, <4>3 DEF ServerTypeOK, ChainStep
    <3>2. keyOf' \in [Txn -> Key \cup {None}]
      BY DEF ServerTypeOK
    <3>3. \A j \in Key : serverTxns[j] # None => keyOf'[serverTxns[j]] = j
      BY DEF ServerTypeOK
    <3> QED
      BY <3>1, <3>2, <3>3 DEF ServerTypeOK, ChainStep
  <2>2. ChainsFit'
    BY DEF ServerTypeOK, ChainsFit
  <2>3. AnswersFit'
    BY DEF AnswersFit
  <2>4. LeavingIsOver'
    BY DEF LeavingIsOver
  <2>5. TakenIsListed'
    BY DEF ServerTypeOK, ChainsFit, AnswersFit, TakenIsListed, Taken
  <2> QED
    BY <2>1, <2>2, <2>3, <2>4, <2>5
<1>3. ASSUME NEW c \in Chain, Insert(c) PROVE ServerInv'
  <2> USE <1>3 DEF Insert
  <2>1. ServerTypeOK'
    <3>1. rx' \in [Chain -> ChainStep]
      <4>1. rx[c] \in ChainStep /\ c \in DOMAIN rx
        BY DEF ServerTypeOK, ChainStep
      <4>2. [rx[c] EXCEPT !.at = "handle"] \in ChainStep /\ Idle \in ChainStep
        BY <4>1 DEF ChainStep, Idle
      <4>3. \/ rx' = [rx EXCEPT ![c] = [rx[c] EXCEPT !.at = "handle"]]
            \/ rx' = [rx EXCEPT ![c] = Idle]
        BY <4>1
      <4> QED
        BY <4>2, <4>3 DEF ServerTypeOK, ChainStep
    <3>2. serverTxns' \in [Key -> Txn \cup {None}]
      BY DEF ServerTypeOK
    <3>3. \A j \in Key : serverTxns'[j] # None => keyOf[serverTxns'[j]] = j
      BY DEF ServerTypeOK, ChainsFit
    <3> QED
      BY <3>1, <3>2, <3>3 DEF ServerTypeOK, ChainStep
  <2>2. ChainsFit'
    <3>1. CASE rx' = [rx EXCEPT ![c] = Idle]
      BY <3>1 DEF ChainsFit, Idle
    <3>2. CASE rx' = [rx EXCEPT ![c].at = "handle"]
      BY <3>2 DEF ChainsFit
    <3> QED
      BY <3>1, <3>2
  <2>3. AnswersFit'
    BY DEF AnswersFit
  <2>4. LeavingIsOver'
    BY DEF LeavingIsOver
  <2>5. TakenIsListed'
    <3>1. CASE phase # "up" \/ serverTxns[rx[c].key] # None
      BY <3>1 DEF ServerTypeOK, TakenIsListed, Taken, Idle
    <3>2. CASE ~(phase # "up" \/ serverTxns[rx[c].key] # None)
      <4>1. /\ rx[c].txn \in Txn /\ keyOf[rx[c].txn] = rx[c].key /\ rx[c].key \in Key
            /\ serverTxns' = [serverTxns EXCEPT ![rx[c].key] = rx[c].txn]
        BY <3>2 DEF ChainsFit
      <4>2. /\ rx'[c].at = "handle" /\ rx'[c].txn = rx[c].txn
            /\ \A d \in Chain \ {c} : rx'[d] = rx[d]
        BY <3>2 DEF ServerTypeOK
      <4>3. \A t \in Txn : Taken(t)' => Taken(t) \/ t = rx[c].txn
        BY <4>2 DEF Taken
      <4>4. ASSUME NEW t \in Txn, Taken(t), state[t] # "Terminated"
            PROVE  t # rx[c].txn => keyOf[t] # rx[c].key
        BY <3>2, <4>1, <4>4 DEF TakenIsListed
      <4> QED
        BY <4>1, <4>3, <4>4, <3>2 DEF ServerTypeOK, TakenIsListed
    <3> QED
      BY <3>1, <3>2
  <2> QED
    BY <2>1, <2>2, <2>3, <2>4, <2>5
<1>4. ASSUME NEW c \in Chain, Handle(c) PROVE ServerInv'
  <2> USE <1>4 DEF Handle
  <2>1. ServerTypeOK'
    BY DEF ServerTypeOK, Idle, ChainsFit
  <2>2. ChainsFit'
    BY DEF ChainsFit, Idle
  <2>3. AnswersFit'
    BY DEF ChainsFit, AnswersFit
  <2>4. LeavingIsOver'
    BY DEF LeavingIsOver
  <2>5. TakenIsListed'
    BY DEF TakenIsListed, Taken, Idle
  <2> QED
    BY <2>1, <2>2, <2>3, <2>4, <2>5
<1>5. ASSUME NEW c \in Chain, NEW k \in Key, AcknowledgeAck(c, k) PROVE ServerInv'
  <2> USE <1>5 DEF AcknowledgeAck, MarkTerminated, Stopped
  <2>1. ServerTypeOK'
    BY DEF ServerTypeOK
  <2>2. ChainsFit'
    BY DEF ChainsFit
  <2>3. AnswersFit'
    BY DEF AnswersFit
  <2>4. LeavingIsOver'
    BY DEF ServerTypeOK, LeavingIsOver
  <2>5. TakenIsListed'
    BY DEF TakenIsListed, Taken
  <2> QED
    BY <2>1, <2>2, <2>3, <2>4, <2>5
<1>6. ASSUME NEW t \in Txn, NEW class \in Class, SendResponse(t, class) PROVE ServerInv'
  <2> USE <1>6 DEF SendResponse
  <2>1. ServerTypeOK'
    BY DEF ServerTypeOK
  <2>2. ChainsFit'
    BY DEF ChainsFit
  <2>3. AnswersFit'
    BY DEF AnswersFit
  <2>4. LeavingIsOver'
    BY DEF LeavingIsOver
  <2>5. TakenIsListed'
    BY DEF TakenIsListed, Taken
  <2> QED
    BY <2>1, <2>2, <2>3, <2>4, <2>5
<1>7. ASSUME NEW t \in Txn, RecordResponse(t) PROVE ServerInv'
  <2> USE <1>7 DEF RecordResponse, MarkTerminated, Stopped
  <2>1. ServerTypeOK'
    BY DEF ServerTypeOK, Quiet
  <2>2. ChainsFit'
    BY DEF ChainsFit
  <2>3. AnswersFit'
    <3>1. PICK class \in Class : owner[t].class = class
      BY DEF AnswersFit
    <3>2. CASE class = "provisional"
      BY <3>1, <3>2 DEF AnswersFit, Quiet
    <3>3. CASE class = "success" /\ keyOf[t] \in InviteKey
      <4>1. /\ last' = [last EXCEPT ![t] = class]
            /\ class \notin {"provisional", None}
        BY <3>1, <3>3
      <4>2. owner'[t].at # "sent" /\ (owner'[t].at # "idle" => owner'[t].class \in Class)
        BY <3>1, <3>3 DEF ServerTypeOK, Quiet
      <4>3. \A u \in Txn \ {t} : /\ owner'[u] = owner[u] /\ last'[u] = last[u]
                               /\ state'[u] = state[u] /\ timer'[u] = timer[u]
        BY DEF ServerTypeOK
      <4>4. last'[t] = class
        BY <4>1 DEF ServerTypeOK
      <4> QED
        BY <4>1, <4>2, <4>3, <4>4 DEF AnswersFit
    <3>4. CASE class # "provisional" /\ ~(class = "success" /\ keyOf[t] \in InviteKey)
      <4>1. /\ last' = [last EXCEPT ![t] = class]
            /\ class \notin {"provisional", None}
        BY <3>1, <3>4
      <4>2. owner'[t].at # "sent" /\ (owner'[t].at # "idle" => owner'[t].class \in Class)
        BY <3>1, <3>4 DEF ServerTypeOK
      <4>3. \A u \in Txn \ {t} : /\ owner'[u] = owner[u] /\ last'[u] = last[u]
                               /\ state'[u] = state[u] /\ timer'[u] = timer[u]
        BY DEF ServerTypeOK
      <4>4. last'[t] = class
        BY <4>1 DEF ServerTypeOK
      <4> QED
        BY <4>1, <4>2, <4>3, <4>4 DEF AnswersFit
    <3> QED
      BY <3>2, <3>3, <3>4
  <2>4. LeavingIsOver'
    BY DEF ServerTypeOK, AnswersFit, LeavingIsOver
  <2>5. TakenIsListed'
    BY DEF AnswersFit, TakenIsListed, Taken
  <2> QED
    BY <2>1, <2>2, <2>3, <2>4, <2>5
<1>8. ASSUME NEW t \in Txn, StartTimers(t) PROVE ServerInv'
  <2> USE <1>8 DEF StartTimers
  <2>1. ServerTypeOK'
    BY DEF ServerTypeOK, Quiet
  <2>2. ChainsFit'
    BY DEF ChainsFit
  <2>3. AnswersFit'
    BY DEF AnswersFit, Quiet
  <2>4. LeavingIsOver'
    BY DEF LeavingIsOver
  <2>5. TakenIsListed'
    BY DEF TakenIsListed, Taken
  <2> QED
    BY <2>1, <2>2, <2>3, <2>4, <2>5
<1>9. ASSUME NEW t \in Txn, TimerExpires(t) PROVE ServerInv'
  <2> USE <1>9 DEF TimerExpires
  <2>1. ServerTypeOK'
    BY DEF ServerTypeOK
  <2>2. ChainsFit'
    BY DEF ChainsFit
  <2>3. AnswersFit'
    BY DEF AnswersFit
  <2>4. LeavingIsOver'
    BY DEF LeavingIsOver
  <2>5. TakenIsListed'
    BY DEF TakenIsListed, Taken
  <2> QED
    BY <2>1, <2>2, <2>3, <2>4, <2>5
<1>10. ASSUME NEW t \in Txn, RunTimer(t) PROVE ServerInv'
  <2> USE <1>10 DEF RunTimer, MarkTerminated
  <2>1. ServerTypeOK'
    BY DEF ServerTypeOK
  <2>2. ChainsFit'
    BY DEF ChainsFit
  <2>3. AnswersFit'
    BY DEF AnswersFit
  <2>4. LeavingIsOver'
    BY DEF ServerTypeOK, LeavingIsOver
  <2>5. TakenIsListed'
    BY DEF TakenIsListed, Taken
  <2> QED
    BY <2>1, <2>2, <2>3, <2>4, <2>5
<1>11. ASSUME NEW t \in Txn, OnTerminated(t) PROVE ServerInv'
  <2> USE <1>11 DEF OnTerminated
  <2>1. ServerTypeOK'
    BY DEF ServerTypeOK
  <2>2. ChainsFit'
    BY DEF ChainsFit
  <2>3. AnswersFit'
    BY DEF AnswersFit
  <2>4. LeavingIsOver'
    BY DEF LeavingIsOver
  <2>5. TakenIsListed'
    BY DEF LeavingIsOver, TakenIsListed, Taken
  <2> QED
    BY <2>1, <2>2, <2>3, <2>4, <2>5
<1>12. ASSUME BeginServerShutdown PROVE ServerInv'
  <2> USE <1>12 DEF BeginServerShutdown
  <2>1. ServerTypeOK'
    BY DEF ServerTypeOK
  <2>2. ChainsFit'
    BY DEF ChainsFit
  <2>3. AnswersFit'
    BY DEF AnswersFit
  <2>4. LeavingIsOver'
    BY DEF LeavingIsOver
  <2>5. TakenIsListed'
    BY DEF TakenIsListed
  <2> QED
    BY <2>1, <2>2, <2>3, <2>4, <2>5
<1>13. ASSUME TakeServerTable PROVE ServerInv'
  <2> USE <1>13 DEF TakeServerTable
  <2>1. ServerTypeOK'
    BY DEF ServerTypeOK
  <2>2. ChainsFit'
    BY DEF ChainsFit
  <2>3. AnswersFit'
    BY DEF AnswersFit
  <2>4. LeavingIsOver'
    BY DEF LeavingIsOver
  <2>5. TakenIsListed'
    BY DEF TakenIsListed
  <2> QED
    BY <2>1, <2>2, <2>3, <2>4, <2>5
<1>14. ASSUME NEW t \in Txn, ShutDownServer(t) PROVE ServerInv'
  <2> USE <1>14 DEF ShutDownServer, Stopped
  <2>1. ServerTypeOK'
    BY DEF ServerTypeOK
  <2>2. ChainsFit'
    BY DEF ChainsFit
  <2>3. AnswersFit'
    BY DEF AnswersFit, LeavingIsOver
  <2>4. LeavingIsOver'
    BY DEF LeavingIsOver
  <2>5. TakenIsListed'
    BY DEF TakenIsListed, Taken
  <2> QED
    BY <2>1, <2>2, <2>3, <2>4, <2>5
<1>15. CASE UNCHANGED serverVars
  BY <1>15 DEF serverVars, ServerTypeOK, ChainsFit, AnswersFit, LeavingIsOver, TakenIsListed, Taken
<1> QED
  BY <1>1, <1>2, <1>3, <1>4, <1>5, <1>6, <1>7, <1>8, <1>9, <1>10, <1>11, <1>12, <1>13, <1>14,
     <1>15 DEF ServerNext, GetHandled, Respond, FinishResponse

\* What the sections of processMessage, sendResponse and the timers rely on when they
\* take a lock again.
THEOREM ServerInductiveInvariant == ServerSpec => []ServerInv
BY ServerInitInv, ServerStepInv, PTL DEF ServerSpec

\* try_emplace and the callback on_terminated_: a request that was handled is listed
\* under its key until it is over, so that no copy of it is handled again.
THEOREM ServerTableFits == ServerSpec => []ServerTableConsistent
<1>1. ServerInv => ServerTableConsistent
  BY DEF ServerInv, TakenIsListed, Taken, ServerTypeOK, ServerTableConsistent, OpenRequestListed
<1> QED
  BY <1>1, ServerInductiveInvariant, PTL

\* markTerminatedLocked: a transaction whose end was told is never told to have ended
\* again, by an ACK, a timer or a response.
THEOREM TerminationIsToldOnce == ServerSpec => TerminationToldOnce
<1> DEFINE Step == \A t \in notified \ leaving : t \notin leaving'
<1>1. ASSUME [ServerNext]_serverVars PROVE Step
  <2>1. CASE UNCHANGED leaving
    BY <2>1
  <2>2. ASSUME NEW t, MarkTerminated(t) PROVE Step
    BY <2>2 DEF MarkTerminated
  <2>3. ASSUME NEW t \in Txn, RecordResponse(t) PROVE Step
    BY <2>1, <2>2, <2>3 DEF RecordResponse
  <2>4. ASSUME NEW t \in Txn, OnTerminated(t) PROVE Step
    BY <2>4 DEF OnTerminated
  <2>5. ASSUME NEW c \in Chain, NEW k \in Key, AcknowledgeAck(c, k) PROVE Step
    BY <2>2, <2>5 DEF AcknowledgeAck
  <2>6. ASSUME NEW t \in Txn, RunTimer(t) PROVE Step
    BY <2>2, <2>6 DEF RunTimer
  <2>7. ASSUME NEW t \in Txn,
               Respond(t) \/ StartTimers(t) \/ TimerExpires(t) \/ ShutDownServer(t)
        PROVE  Step
    BY <2>1, <2>7 DEF Respond, SendResponse, StartTimers, TimerExpires, ShutDownServer
  <2>8. ASSUME NEW c \in Chain,
               GetHandled(c) \/ \E k \in Key : Arrive(c, k)
        PROVE  Step
    BY <2>1, <2>8 DEF GetHandled, MakeTransaction, Insert, Handle, Arrive
  <2>9. CASE BeginServerShutdown \/ TakeServerTable
    BY <2>1, <2>9 DEF BeginServerShutdown, TakeServerTable
  <2> QED
    BY <1>1, <2>1, <2>3, <2>4, <2>5, <2>6, <2>7, <2>8, <2>9 DEF ServerNext, FinishResponse, serverVars
<1>2. [ServerNext]_serverVars => [Step]_serverVars
  BY <1>1
<1> QED
  BY <1>2, PTL DEF ServerSpec, TerminationToldOnce

-----------------------------------------------------------------------------
(* The client side. *)

\* Every request has a branch of its own, as the code makes one for each but a CANCEL,
\* whose method tells it from its INVITE.
KeysUsedOnce == \A t, u \in Txn : KeyOf[t] = KeyOf[u] => t = u

\* A chain works on responses of its own socket, and on none of a request that was not
\* sent.  Until the timers of a request are armed its response finds it in the table.
ResponsesFit ==
    \A r \in Receiver : incoming[r] # NoResponse => LET t == incoming[r].txn IN
        /\ ChainOf[t] = r
        /\ sender[t] \in {"arming", "done"}
        /\ sender[t] = "arming" /\ ~down => clientTxns[KeyOf[t]] = t
        /\ incoming[r].at = "erase" => incoming[r].class \in Final
        /\ incoming[r].at # "found" /\ incoming[r].class \in Final /\ ~down =>
              clientState[t] \in Over /\ timerB[t] # "armed"

\* An entry is listed under its key from sendRequest on.
EntriesFit ==
    /\ \A k \in Key : clientTxns[k] # None => KeyOf[clientTxns[k]] = k
    /\ \A t \in Txn : sender[t] \in {"new", "refused"} => clientTxns[KeyOf[t]] # t

\* How far sendRequest has come tells what can have happened to the transaction.
SendersFit ==
    \A t \in Txn :
        /\ timerB[t] # "off" => sender[t] = "done"
        /\ sender[t] \in {"new", "refused"} => finals[t] = 0
        /\ ~down =>
              /\ sender[t] \in {"new", "sending", "refused"} => clientState[t] \notin Over
              /\ \/ sender[t] = "sending"
                 \/ sender[t] = "arming" /\ clientState[t] \notin Over
                 => clientTxns[KeyOf[t]] = t

\* Nothing is taken away before the shutdown.
UpFit == ~down => taken = {} /\ callbacks = Txn

\* What is over and still listed has somebody who takes it out of the table.
OverIsLeaving ==
    \A t \in Txn : clientTxns[KeyOf[t]] = t /\ clientState[t] \in Over /\ ~down =>
        \/ sender[t] = "failed"
        \/ timerB[t] = "expired"
        \/ incoming[ChainOf[t]].txn = t /\ incoming[ChainOf[t]].class \in Final

\* Whose owner has its final response is found by no other response.
AnsweredIsHidden ==
    \A t \in Txn : finals[t] = 1 /\ ~down =>
        /\ incoming[ChainOf[t]].txn = t => incoming[ChainOf[t]].at = "erase"
        /\ clientTxns[KeyOf[t]] = t => incoming[ChainOf[t]].txn = t

\* The client side as a whole.
ClientInv ==
    /\ ClientTypeOK /\ ResponsesFit /\ EntriesFit /\ SendersFit /\ UpFit
    /\ OverIsLeaving /\ AnsweredIsHidden /\ RunningIsListed /\ NoStrandedEntry

LEMMA ClientInitInv == ClientInit => ClientInv
<1> SUFFICES ASSUME ClientInit PROVE ClientInv
  OBVIOUS
<1> USE LayerAssumption, ClientAssumption DEF ClientInit
<1>1. ClientTypeOK
  <2>1. finals \in [Txn -> 0 .. 1]
    OBVIOUS
  <2>2. incoming \in [Receiver -> {NoResponse} \cup
                                  [at: {"found", "callback", "erase"}, txn: Txn, class: Class]]
    OBVIOUS
  <2> QED
    BY <2>1, <2>2 DEF ClientTypeOK
<1>2. ResponsesFit
  BY DEF ResponsesFit
<1>3. EntriesFit /\ SendersFit /\ UpFit /\ OverIsLeaving /\ AnsweredIsHidden
  BY DEF EntriesFit, SendersFit, UpFit, OverIsLeaving, AnsweredIsHidden, Over
<1>4. RunningIsListed /\ NoStrandedEntry
  BY DEF RunningIsListed, NoStrandedEntry
<1> QED
  BY <1>1, <1>2, <1>3, <1>4 DEF ClientInv

\* Who erases its own entry leaves the others alone.
LEMMA OthersStay ==
    ASSUME KeysUsedOnce, ClientTypeOK, NEW t \in Txn,
           clientTxns' = [clientTxns EXCEPT ![KeyOf[t]] = None]
    PROVE  \A u \in Txn \ {t} : clientTxns'[KeyOf[u]] = clientTxns[KeyOf[u]]
BY ClientAssumption DEF KeysUsedOnce

LEMMA ClientStepInv ==
    ASSUME KeysUsedOnce
    PROVE  ClientInv /\ [ClientNext]_clientVars => ClientInv'
<1> SUFFICES ASSUME ClientInv, [ClientNext]_clientVars PROVE ClientInv'
  OBVIOUS
<1> USE LayerAssumption, ClientAssumption, KeysUsedOnce DEF ClientInv
<1>1. ASSUME NEW t \in Txn, SendRequest(t) PROVE ClientInv'
  <2> USE <1>1 DEF SendRequest
  <2>1. ClientTypeOK'
    BY DEF ClientTypeOK
  <2>2. ResponsesFit'
    BY DEF ClientTypeOK, ResponsesFit
  <2>3. EntriesFit'
    BY DEF ClientTypeOK, EntriesFit
  <2>4. SendersFit'
    BY DEF ClientTypeOK, SendersFit
  <2>5. UpFit'
    BY DEF UpFit
  <2>6. OverIsLeaving'
    BY DEF OverIsLeaving, SendersFit
  <2>7. AnsweredIsHidden'
    BY DEF SendersFit, AnsweredIsHidden
  <2>8. RunningIsListed'
    BY DEF RunningIsListed
  <2>9. NoStrandedEntry'
    BY DEF NoStrandedEntry
  <2> QED
    BY <2>1, <2>2, <2>3, <2>4, <2>5, <2>6, <2>7, <2>8, <2>9
<1>2. ASSUME NEW t \in Txn, RefuseRequest(t) PROVE ClientInv'
  <2> USE <1>2 DEF RefuseRequest
  <2>1. ClientTypeOK'
    BY DEF ClientTypeOK
  <2>2. ResponsesFit'
    BY DEF ResponsesFit
  <2>3. EntriesFit'
    BY DEF EntriesFit
  <2>4. SendersFit'
    BY DEF SendersFit
  <2>5. UpFit'
    BY DEF UpFit
  <2>6. OverIsLeaving'
    BY DEF OverIsLeaving
  <2>7. AnsweredIsHidden'
    BY DEF AnsweredIsHidden
  <2>8. RunningIsListed'
    BY DEF RunningIsListed
  <2>9. NoStrandedEntry'
    BY DEF NoStrandedEntry
  <2> QED
    BY <2>1, <2>2, <2>3, <2>4, <2>5, <2>6, <2>7, <2>8, <2>9
<1>3. ASSUME NEW t \in Txn, Start(t) PROVE ClientInv'
  <2> USE <1>3 DEF Start
  <2>1. ClientTypeOK'
    BY DEF ClientTypeOK
  <2>2. ResponsesFit'
    BY DEF ResponsesFit
  <2>3. EntriesFit'
    BY DEF EntriesFit
  <2>4. SendersFit'
    BY DEF SendersFit
  <2>5. UpFit'
    BY DEF UpFit
  <2>6. OverIsLeaving'
    BY DEF OverIsLeaving
  <2>7. AnsweredIsHidden'
    BY DEF AnsweredIsHidden
  <2>8. RunningIsListed'
    BY DEF RunningIsListed
  <2>9. NoStrandedEntry'
    BY DEF NoStrandedEntry
  <2> QED
    BY <2>1, <2>2, <2>3, <2>4, <2>5, <2>6, <2>7, <2>8, <2>9
<1>4. ASSUME NEW t \in Txn, StartFails(t) PROVE ClientInv'
  <2> USE <1>4 DEF StartFails, Cancelled
  <2>1. ClientTypeOK'
    BY DEF ClientTypeOK, Over
  <2>2. ResponsesFit'
    BY DEF ResponsesFit
  <2>3. EntriesFit'
    BY DEF EntriesFit
  <2>4. SendersFit'
    BY DEF ClientTypeOK, SendersFit
  <2>5. UpFit'
    BY DEF UpFit
  <2>6. OverIsLeaving'
    BY DEF ClientTypeOK, OverIsLeaving
  <2>7. AnsweredIsHidden'
    BY DEF AnsweredIsHidden
  <2>8. RunningIsListed'
    BY DEF RunningIsListed
  <2>9. NoStrandedEntry'
    BY DEF NoStrandedEntry
  <2> QED
    BY <2>1, <2>2, <2>3, <2>4, <2>5, <2>6, <2>7, <2>8, <2>9
<1>5. ASSUME NEW t \in Txn, EraseFailed(t) PROVE ClientInv'
  <2> USE <1>5 DEF EraseFailed
  <2>0. /\ t \in Txn
        /\ \A u \in Txn \ {t} : clientTxns'[KeyOf[u]] = clientTxns[KeyOf[u]]
    BY OthersStay
  <2>1. ClientTypeOK'
    BY DEF ClientTypeOK
  <2>2. ResponsesFit'
    BY <2>0 DEF ClientTypeOK, ResponsesFit
  <2>3. EntriesFit'
    BY DEF EntriesFit
  <2>4. SendersFit'
    BY <2>0 DEF SendersFit
  <2>5. UpFit'
    BY DEF UpFit
  <2>6. OverIsLeaving'
    BY DEF ClientTypeOK, OverIsLeaving
  <2>7. AnsweredIsHidden'
    BY DEF AnsweredIsHidden
  <2>8. RunningIsListed'
    BY <2>0 DEF RunningIsListed, SendersFit
  <2>9. NoStrandedEntry'
    BY DEF ClientTypeOK, NoStrandedEntry, EntriesFit
  <2> QED
    BY <2>1, <2>2, <2>3, <2>4, <2>5, <2>6, <2>7, <2>8, <2>9
<1>6. ASSUME NEW t \in Txn, ArmTimers(t) PROVE ClientInv'
  <2> USE <1>6 DEF ArmTimers, Armed
  <2>1. ClientTypeOK'
    BY DEF ClientTypeOK
  <2>2. ResponsesFit'
    BY DEF ResponsesFit
  <2>3. EntriesFit'
    BY DEF EntriesFit
  <2>4. SendersFit'
    BY DEF ClientTypeOK, SendersFit
  <2>5. UpFit'
    BY DEF UpFit
  <2>6. OverIsLeaving'
    BY DEF OverIsLeaving
  <2>7. AnsweredIsHidden'
    BY DEF AnsweredIsHidden
  <2>8. RunningIsListed'
    BY DEF RunningIsListed, SendersFit
  <2>9. NoStrandedEntry'
    BY DEF ClientTypeOK, NoStrandedEntry, EntriesFit, OverIsLeaving
  <2> QED
    BY <2>1, <2>2, <2>3, <2>4, <2>5, <2>6, <2>7, <2>8, <2>9
<1>7. ASSUME NEW t \in Txn, RunTimerA(t) PROVE ClientInv'
  <2> USE <1>7 DEF RunTimerA, AExpires, Retransmit, Rearm
  <2>1. ClientTypeOK'
    BY DEF ClientTypeOK
  <2>2. ResponsesFit'
    BY DEF ResponsesFit
  <2>3. EntriesFit'
    BY DEF EntriesFit
  <2>4. SendersFit'
    BY DEF SendersFit
  <2>5. UpFit'
    BY DEF UpFit
  <2>6. OverIsLeaving'
    BY DEF OverIsLeaving
  <2>7. AnsweredIsHidden'
    BY DEF AnsweredIsHidden
  <2>8. RunningIsListed'
    BY DEF RunningIsListed
  <2>9. NoStrandedEntry'
    BY DEF NoStrandedEntry
  <2> QED
    BY <2>1, <2>2, <2>3, <2>4, <2>5, <2>6, <2>7, <2>8, <2>9
<1>8. ASSUME NEW t \in Txn, BExpires(t) PROVE ClientInv'
  <2> USE <1>8 DEF BExpires
  <2>1. ClientTypeOK'
    BY DEF ClientTypeOK
  <2>2. ResponsesFit'
    BY DEF ResponsesFit
  <2>3. EntriesFit'
    BY DEF EntriesFit
  <2>4. SendersFit'
    BY DEF SendersFit
  <2>5. UpFit'
    BY DEF UpFit
  <2>6. OverIsLeaving'
    BY DEF OverIsLeaving
  <2>7. AnsweredIsHidden'
    BY DEF AnsweredIsHidden
  <2>8. RunningIsListed'
    BY DEF RunningIsListed
  <2>9. NoStrandedEntry'
    BY DEF NoStrandedEntry
  <2> QED
    BY <2>1, <2>2, <2>3, <2>4, <2>5, <2>6, <2>7, <2>8, <2>9
<1>9. ASSUME NEW t \in Txn, TimeOut(t) PROVE ClientInv'
  <2> USE <1>9 DEF TimeOut, Cancelled
  <2>1. ClientTypeOK'
    BY DEF ClientTypeOK, Class, Over
  <2>2. ResponsesFit'
    BY DEF ClientTypeOK, ResponsesFit
  <2>3. EntriesFit'
    BY DEF EntriesFit
  <2>4. SendersFit'
    BY DEF ClientTypeOK, SendersFit
  <2>5. UpFit'
    BY DEF UpFit
  <2>6. OverIsLeaving'
    BY DEF ClientTypeOK, OverIsLeaving, UpFit
  <2>7. AnsweredIsHidden'
    BY DEF AnsweredIsHidden
  <2>8. RunningIsListed'
    BY DEF ClientTypeOK, RunningIsListed
  <2>9. NoStrandedEntry'
    BY DEF ClientTypeOK, NoStrandedEntry, EntriesFit, UpFit, OverIsLeaving
  <2> QED
    BY <2>1, <2>2, <2>3, <2>4, <2>5, <2>6, <2>7, <2>8, <2>9
<1>10. ASSUME NEW t \in Txn, OnTimeout(t) PROVE ClientInv'
  <2> USE <1>10 DEF OnTimeout
  <2>0. /\ t \in Txn
        /\ \A u \in Txn \ {t} : clientTxns'[KeyOf[u]] = clientTxns[KeyOf[u]]
    BY OthersStay
  <2>1. ClientTypeOK'
    BY DEF ClientTypeOK
  <2>2. ResponsesFit'
    BY <2>0 DEF ClientTypeOK, ResponsesFit, SendersFit
  <2>3. EntriesFit'
    BY DEF EntriesFit
  <2>4. SendersFit'
    BY <2>0 DEF SendersFit
  <2>5. UpFit'
    BY DEF UpFit
  <2>6. OverIsLeaving'
    BY DEF ClientTypeOK, OverIsLeaving
  <2>7. AnsweredIsHidden'
    BY DEF AnsweredIsHidden
  <2>8. RunningIsListed'
    BY <2>0 DEF RunningIsListed
  <2>9. NoStrandedEntry'
    BY DEF ClientTypeOK, NoStrandedEntry, EntriesFit
  <2> QED
    BY <2>1, <2>2, <2>3, <2>4, <2>5, <2>6, <2>7, <2>8, <2>9
<1>11. ASSUME NEW r \in Receiver, NEW k \in Key, NEW class \in Class, FindClientTransaction(r, k,
      class) PROVE ClientInv'
  <2> USE <1>11 DEF FindClientTransaction
  <2>1. ClientTypeOK'
    BY DEF ClientTypeOK
  <2>2. ResponsesFit'
    BY DEF ResponsesFit, EntriesFit
  <2>3. EntriesFit'
    BY DEF EntriesFit
  <2>4. SendersFit'
    BY DEF SendersFit
  <2>5. UpFit'
    BY DEF UpFit
  <2>6. OverIsLeaving'
    BY DEF OverIsLeaving, NoResponse
  <2>7. AnsweredIsHidden'
    BY DEF NoResponse, EntriesFit, AnsweredIsHidden
  <2>8. RunningIsListed'
    BY DEF RunningIsListed
  <2>9. NoStrandedEntry'
    BY DEF NoStrandedEntry, NoResponse
  <2> QED
    BY <2>1, <2>2, <2>3, <2>4, <2>5, <2>6, <2>7, <2>8, <2>9
<1>12. ASSUME NEW r \in Receiver, ProcessResponse(r) PROVE ClientInv'
  <2> USE <1>12 DEF ProcessResponse, Cancelled, ResponseState, Final
  <2>1. ClientTypeOK'
    BY DEF ClientTypeOK, NoResponse, Class, Over
  <2>2. ResponsesFit'
    <3>1. incoming[r] # NoResponse /\ incoming[r].txn \in Txn /\ incoming[r].class \in Class
      BY DEF ClientTypeOK, NoResponse
    <3>2. \/ incoming'[r] = NoResponse
          \/ /\ incoming'[r].txn = incoming[r].txn /\ incoming'[r].class = incoming[r].class
             /\ incoming'[r].at = "callback"
      BY <3>1 DEF ClientTypeOK
    <3>3. \A q \in Receiver \ {r} : incoming'[q] = incoming[q]
      OBVIOUS
    <3>4. \A u \in Txn \ {incoming[r].txn} : clientState'[u] = clientState[u] /\ timerB'[u] = timerB[u]
      OBVIOUS
    <3>5. \A q \in Receiver \ {r} : incoming[q] # NoResponse =>
             incoming[q].txn \in Txn \ {incoming[r].txn}
      BY <3>1 DEF ClientTypeOK, ResponsesFit
    <3>6. incoming[r].class \in Final =>
             clientState'[incoming[r].txn] \in Over /\ timerB'[incoming[r].txn] # "armed"
      BY <3>1 DEF ClientTypeOK, Over
    <3> SUFFICES ASSUME NEW q \in Receiver, incoming'[q] # NoResponse
                 PROVE  LET t == incoming'[q].txn IN
                        /\ ChainOf[t] = q
                        /\ sender'[t] \in {"arming", "done"}
                        /\ sender'[t] = "arming" /\ ~down' => clientTxns'[KeyOf[t]] = t
                        /\ incoming'[q].at = "erase" => incoming'[q].class \in Final
                        /\ incoming'[q].at # "found" /\ incoming'[q].class \in Final /\ ~down' =>
                              clientState'[t] \in Over /\ timerB'[t] # "armed"
      BY DEF ResponsesFit
    <3>7. CASE q = r
      BY <3>1, <3>2, <3>6, <3>7 DEF ResponsesFit
    <3>8. CASE q # r
      BY <3>3, <3>4, <3>5, <3>8 DEF ResponsesFit
    <3> QED
      BY <3>7, <3>8
  <2>3. EntriesFit'
    BY DEF EntriesFit
  <2>4. SendersFit'
    BY DEF SendersFit, NoResponse, ResponsesFit
  <2>5. UpFit'
    BY DEF UpFit
  <2>6. OverIsLeaving'
    BY DEF ClientTypeOK, OverIsLeaving, NoResponse, Class, Over, ResponsesFit, UpFit
  <2>7. AnsweredIsHidden'
    BY DEF NoResponse, AnsweredIsHidden
  <2>8. RunningIsListed'
    BY DEF RunningIsListed
  <2>9. NoStrandedEntry'
    BY DEF ClientTypeOK, NoStrandedEntry, UpFit
  <2> QED
    BY <2>1, <2>2, <2>3, <2>4, <2>5, <2>6, <2>7, <2>8, <2>9
<1>13. ASSUME NEW r \in Receiver, OnResponse(r) PROVE ClientInv'
  <2> USE <1>13 DEF OnResponse
  <2>1. ClientTypeOK'
    BY DEF ClientTypeOK, NoResponse, ResponsesFit, AnsweredIsHidden
  <2>2. ResponsesFit'
    <3>1. incoming[r] # NoResponse /\ incoming[r].txn \in Txn
      BY DEF ClientTypeOK, NoResponse
    <3>2. \/ incoming'[r] = NoResponse
          \/ /\ incoming'[r].txn = incoming[r].txn /\ incoming'[r].class = incoming[r].class
             /\ incoming'[r].at = "erase" /\ incoming[r].class \in Final
      BY <3>1 DEF ClientTypeOK
    <3>3. \A q \in Receiver \ {r} : incoming'[q] = incoming[q]
      OBVIOUS
    <3> SUFFICES ASSUME NEW q \in Receiver, incoming'[q] # NoResponse
                 PROVE  LET t == incoming'[q].txn IN
                        /\ ChainOf[t] = q
                        /\ sender'[t] \in {"arming", "done"}
                        /\ sender'[t] = "arming" /\ ~down' => clientTxns'[KeyOf[t]] = t
                        /\ incoming'[q].at = "erase" => incoming'[q].class \in Final
                        /\ incoming'[q].at # "found" /\ incoming'[q].class \in Final /\ ~down' =>
                              clientState'[t] \in Over /\ timerB'[t] # "armed"
      BY DEF ResponsesFit
    <3>4. CASE q = r
      BY <3>1, <3>2, <3>4 DEF ResponsesFit
    <3>5. CASE q # r
      BY <3>3, <3>5 DEF ResponsesFit
    <3> QED
      BY <3>4, <3>5
  <2>3. EntriesFit'
    BY DEF EntriesFit
  <2>4. SendersFit'
    BY DEF SendersFit, NoResponse, ResponsesFit
  <2>5. UpFit'
    BY DEF UpFit
  <2>6. OverIsLeaving'
    BY DEF OverIsLeaving
  <2>7. AnsweredIsHidden'
    BY DEF ClientTypeOK, NoResponse, ResponsesFit, AnsweredIsHidden
  <2>8. RunningIsListed'
    BY DEF RunningIsListed
  <2>9. NoStrandedEntry'
    BY DEF NoStrandedEntry
  <2> QED
    BY <2>1, <2>2, <2>3, <2>4, <2>5, <2>6, <2>7, <2>8, <2>9
<1>14. ASSUME NEW r \in Receiver, EraseAnswered(r) PROVE ClientInv'
  <2> USE <1>14 DEF EraseAnswered
  <2>a. incoming[r] # NoResponse /\ incoming[r].txn \in Txn
    BY DEF ClientTypeOK, NoResponse
  <2>0. \A u \in Txn \ {incoming[r].txn} : clientTxns'[KeyOf[u]] = clientTxns[KeyOf[u]]
    BY <2>a, OthersStay
  <2>1. ClientTypeOK'
    BY DEF ClientTypeOK
  <2>2. ResponsesFit'
    BY <2>a, <2>0 DEF ClientTypeOK, ResponsesFit
  <2>3. EntriesFit'
    BY DEF EntriesFit
  <2>4. SendersFit'
    BY <2>a, <2>0 DEF SendersFit, ResponsesFit
  <2>5. UpFit'
    BY DEF UpFit
  <2>6. OverIsLeaving'
    BY DEF ClientTypeOK, OverIsLeaving
  <2>7. AnsweredIsHidden'
    BY DEF ClientTypeOK, NoResponse, AnsweredIsHidden
  <2>8. RunningIsListed'
    BY <2>a, <2>0 DEF RunningIsListed, ResponsesFit
  <2>9. NoStrandedEntry'
    BY DEF ClientTypeOK, NoStrandedEntry, EntriesFit
  <2> QED
    BY <2>1, <2>2, <2>3, <2>4, <2>5, <2>6, <2>7, <2>8, <2>9
<1>15. ASSUME BeginClientShutdown PROVE ClientInv'
  <2> USE <1>15 DEF BeginClientShutdown
  <2>1. ClientTypeOK'
    BY DEF ClientTypeOK
  <2>2. ResponsesFit'
    BY DEF ResponsesFit
  <2>3. EntriesFit'
    BY DEF EntriesFit
  <2>4. SendersFit'
    BY DEF SendersFit
  <2>5. UpFit'
    BY DEF UpFit
  <2>6. OverIsLeaving'
    BY DEF OverIsLeaving
  <2>7. AnsweredIsHidden'
    BY DEF AnsweredIsHidden
  <2>8. RunningIsListed'
    BY DEF RunningIsListed
  <2>9. NoStrandedEntry'
    BY DEF NoStrandedEntry
  <2> QED
    BY <2>1, <2>2, <2>3, <2>4, <2>5, <2>6, <2>7, <2>8, <2>9
<1>16. ASSUME TakeClientTable PROVE ClientInv'
  <2> USE <1>16 DEF TakeClientTable
  <2>1. ClientTypeOK'
    BY DEF ClientTypeOK
  <2>2. ResponsesFit'
    BY DEF ResponsesFit
  <2>3. EntriesFit'
    BY DEF EntriesFit
  <2>4. SendersFit'
    BY DEF SendersFit
  <2>5. UpFit'
    BY DEF UpFit
  <2>6. OverIsLeaving'
    BY DEF OverIsLeaving
  <2>7. AnsweredIsHidden'
    BY DEF AnsweredIsHidden
  <2>8. RunningIsListed'
    BY DEF RunningIsListed
  <2>9. NoStrandedEntry'
    BY DEF NoStrandedEntry
  <2> QED
    BY <2>1, <2>2, <2>3, <2>4, <2>5, <2>6, <2>7, <2>8, <2>9
<1>17. ASSUME NEW t \in Txn, ShutDownClient(t) PROVE ClientInv'
  <2> USE <1>17 DEF ShutDownClient, Cancelled
  <2>1. ClientTypeOK'
    BY DEF ClientTypeOK, Over
  <2>2. ResponsesFit'
    BY DEF ResponsesFit, UpFit
  <2>3. EntriesFit'
    BY DEF EntriesFit
  <2>4. SendersFit'
    BY DEF SendersFit, UpFit
  <2>5. UpFit'
    BY DEF UpFit
  <2>6. OverIsLeaving'
    BY DEF OverIsLeaving, UpFit
  <2>7. AnsweredIsHidden'
    BY DEF AnsweredIsHidden
  <2>8. RunningIsListed'
    BY DEF RunningIsListed
  <2>9. NoStrandedEntry'
    BY DEF NoStrandedEntry, UpFit
  <2> QED
    BY <2>1, <2>2, <2>3, <2>4, <2>5, <2>6, <2>7, <2>8, <2>9
<1>18. CASE UNCHANGED clientVars
  BY <1>18 DEF clientVars, ClientTypeOK, ResponsesFit, EntriesFit, SendersFit, UpFit, OverIsLeaving,
               AnsweredIsHidden, RunningIsListed, NoStrandedEntry
<1> QED
  BY <1>1, <1>2, <1>3, <1>4, <1>5, <1>6, <1>7, <1>8, <1>9, <1>10, <1>11, <1>12, <1>13, <1>14, <1>15,
     <1>16, <1>17, <1>18 DEF ClientNext, Send, RunTimerB, Receive

\* What sendRequest, the timers and processMessage rely on when they take a lock again.
THEOREM ClientInductiveInvariant ==
    ASSUME KeysUsedOnce
    PROVE  ClientSpec => []ClientInv
BY ClientInitInv, ClientStepInv, PTL DEF ClientSpec

\* sendRequest, the callbacks that erase and timer B: no entry is left in the table with
\* nobody to remove it, a request whose timer B runs is found by its response, and an
\* owner is given one final response at most.
THEOREM ClientTableFits ==
    ASSUME KeysUsedOnce
    PROVE  ClientSpec => []ClientTableConsistent
<1>1. ClientInv => ClientTableConsistent
  BY DEF ClientInv, ClientTableConsistent
<1> QED
  BY <1>1, ClientInductiveInvariant, PTL
=============================================================================
