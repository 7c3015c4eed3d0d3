---------------------------- MODULE RtpengineClient ----------------------------
(***************************************************************************)
(* RtpengineClientImpl: commands to rtpengine over one UDP socket.  Any    *)
(* number of threads call sendCommand at once and block; one receiver      *)
(* thread hands every answer to the command whose cookie it carries.       *)
(*                                                                         *)
(* It implements BlockingCall, which is all the P-CSCF relies on; offer,   *)
(* answer, delete, query and ping differ only in what they send.           *)
(*                                                                         *)
(* Abstractions.                                                           *)
(*  - A cookie is any number that is not in use: the counter it comes from *)
(*    has 64 bits.                                                         *)
(*  - A request, a command and an answer also say whose call they are of,  *)
(*    None once that call is over.  For a request that is the object the   *)
(*    caller and the table share; of a command nobody can read it: only    *)
(*    the property looks.                                                  *)
(*  - An answer is "ok" or not.  Datagrams that do not parse, or come from *)
(*    another sender, are discarded: for the client they were lost.        *)
(*  - Datagrams may be lost, which is one left in wire or answers for      *)
(*    ever, and arrive in any order.  Of the commands that were given up,  *)
(*    at most MaxLate may still be answered.                               *)
(*  - The two seconds of kReceiveTimeout may be over at any time.          *)
(*  - The destructor is left out: nobody holds the client any more.        *)
(***************************************************************************)
EXTENDS Naturals, FiniteSets, RtpengineCaller

CONSTANTS
    MaxCookie,  \* bound on the cookies in use at one time
    MaxLate     \* bound on the commands given up that may still be answered

Cookie == 1 .. MaxCookie

Owner == Caller \cup {None}

Command == [cookie: Cookie, of: Owner]

Answer == [cookie: Cookie, of: Owner, ok: BOOLEAN]

Outcome == [of: Owner, ok: BOOLEAN]

ASSUME ClientAssumption ==
    /\ MaxCookie \in Nat /\ MaxLate \in Nat
    /\ None \notin Cookie \cup Outcome \cup Caller

VARIABLES
    thread,    \* where a thread is in sendCommand, with its PendingRequest
    pending,   \* pending_requests_: cookies and whose request each leads to
    wire,      \* commands on their way to rtpengine, or with it
    answers,   \* answers on their way back
    receiver   \* the receiver thread, with the requests it has taken out

clientVars == <<thread, pending, wire, answers, receiver>>

NotCalling == [at |-> "idle", cookie |-> None, result |-> None]

Failed == [NotCalling EXCEPT !.at = "done"]

\* A thread between the two ends of sendCommand has a cookie of its own.
ClientTypeOK ==
    /\ thread \in [Caller -> [at: {"idle", "entered", "send", "wait", "expired", "done"},
                              cookie: Cookie \cup {None}, result: Outcome \cup {None}]]
    /\ \A c \in Caller : thread[c].at \in {"send", "wait", "expired"} => thread[c].cookie # None
    /\ \A c, d \in Caller : thread[c].cookie = thread[d].cookie /\ thread[c].cookie # None => c = d
    /\ pending \in SUBSET Command
    /\ wire \in SUBSET Command
    /\ answers \in SUBSET Answer
    /\ receiver \in [at: {"off", "running", "completing", "failing", "dead"},
                     holds: SUBSET [to: Owner, result: Outcome]]

ClientInit ==
    /\ thread = [c \in Caller |-> NotCalling]
    /\ pending = {}
    /\ wire = {}
    /\ answers = {}
    /\ receiver = [at |-> "off", holds |-> {}]

CookiesOf(S) == {m.cookie : m \in S}

InUse ==
    CookiesOf(pending \cup wire) \cup CookiesOf(answers) \cup {thread[c].cookie : c \in Caller}

\* Faulty variant: the counter is read and increased by two threads at once.
generateCookieTorn ==
    LET drawn == {thread[c].cookie : c \in Caller} \ {None}
    IN  IF drawn # {} THEN CHOOSE k \in drawn : TRUE ELSE CHOOSE k \in Cookie \ InUse : TRUE

\* Faulty variant: a number is drawn again as soon as its command has ended.
generateCookieEarly == CHOOSE k \in Cookie \ {thread[c].cookie : c \in Caller} : TRUE

\* ++cookie_counter_, whose numbers are counted again once they are out of use.
generateCookie == CHOOSE k \in Cookie \ InUse : TRUE

\* The table of requests.
Listed(k) == {p \in pending : p.cookie = k}

\* emplace: a cookie that is in the table keeps its request.
Entered(k, c) ==
    IF Listed(k) = {} THEN pending \cup {[cookie |-> k, of |-> c]} ELSE pending

Erased(k) == pending \ Listed(k)

-----------------------------------------------------------------------------
(* sendCommand. *)

EnterCall(c) ==
    /\ thread[c].at = "idle"
    /\ thread' = [thread EXCEPT ![c].at = "entered"]
    /\ UNCHANGED <<pending, wire, answers, receiver>>

\* ensureReceiverRunning and the entry in the table.  A thread object stays
\* joinable when its loop has ended: a dead receiver is never started again.
Register(c) ==
    /\ thread[c].at = "entered" /\ Cookie \ InUse # {}
    /\ thread' = [thread EXCEPT ![c] = [at |-> "send", cookie |-> generateCookie, result |-> None]]
    /\ pending' = Entered(generateCookie, c)
    /\ receiver' = [receiver EXCEPT !.at = IF @ = "off" THEN "running" ELSE @]
    /\ UNCHANGED <<wire, answers>>

\* No thread can be made for the receiver: an error, and the next call tries
\* again.
NoReceiver(c) ==
    /\ thread[c].at = "entered" /\ receiver.at = "off"
    /\ thread' = [thread EXCEPT ![c] = Failed]
    /\ UNCHANGED <<pending, wire, answers, receiver>>

Send(c) ==
    /\ thread[c].at = "send"
    /\ thread' = [thread EXCEPT ![c].at = "wait"]
    /\ wire' = wire \cup {[cookie |-> thread[c].cookie, of |-> c]}
    /\ UNCHANGED <<pending, answers, receiver>>

SendFails(c) ==
    /\ thread[c].at = "send"
    /\ thread' = [thread EXCEPT ![c] = Failed]
    /\ pending' = Erased(thread[c].cookie)
    /\ UNCHANGED <<wire, answers, receiver>>

\* wait_for returns with completed set.
WakeUp(c) ==
    /\ thread[c].at = "wait" /\ thread[c].result # None
    /\ thread' = [thread EXCEPT ![c].at = "done"]
    /\ UNCHANGED <<pending, wire, answers, receiver>>

\* Faulty variant: a wait without a deadline.
TimeOutOnlyIfDead(c) ==
    /\ thread[c].at = "wait" /\ thread[c].result = None /\ receiver.at = "dead"
    /\ thread' = [thread EXCEPT ![c].at = "expired"]
    /\ UNCHANGED <<pending, wire, answers, receiver>>

\* wait_for returns without: both are decided under the mutex of the request.
TimeOut(c) ==
    /\ thread[c].at = "wait" /\ thread[c].result = None
    /\ thread' = [thread EXCEPT ![c].at = "expired"]
    /\ UNCHANGED <<pending, wire, answers, receiver>>

\* Faulty variant: the request stays in the table when its caller leaves.
EraseExpiredForgets(c) ==
    /\ thread[c].at = "expired"
    /\ thread' = [thread EXCEPT ![c].at = "done", ![c].result = None]
    /\ UNCHANGED <<pending, wire, answers, receiver>>

EraseExpired(c) ==
    /\ thread[c].at = "expired"
    /\ thread' = [thread EXCEPT ![c].at = "done", ![c].result = None]
    /\ pending' = Erased(thread[c].cookie)
    /\ UNCHANGED <<wire, answers, receiver>>

\* What bears the name of a call that is over.
Nameless(S, c) == {[m EXCEPT !.of = IF @ = c THEN None ELSE @] : m \in S}

\* Whether an answer still comes is up to the network; MaxLate bounds it.
MayComeLate(c) ==
    \/ wire' = {m \in wire : m.of # c} /\ answers' = {m \in answers : m.of # c}
    \/ /\ wire' = Nameless(wire, c) /\ answers' = Nameless(answers, c)
       /\ Cardinality(CookiesOf({m \in wire' : m.of = None})
                        \cup CookiesOf({m \in answers' : m.of = None})) <= MaxLate

LeaveCall(c) ==
    /\ thread[c].at = "done"
    /\ thread' = [thread EXCEPT ![c] = NotCalling]
    /\ MayComeLate(c)
    /\ pending' = Nameless(pending, c)
    /\ receiver' = [receiver EXCEPT !.holds =
                       {[h EXCEPT !.to = IF @ = c THEN None ELSE @] : h \in @}]

-----------------------------------------------------------------------------
(* rtpengine and the receiver thread. *)

Serve(m) ==
    /\ m \in wire
    /\ wire' = wire \ {m}
    /\ \E ok \in BOOLEAN :
          answers' = answers \cup {[cookie |-> m.cookie, of |-> m.of, ok |-> ok]}
    /\ UNCHANGED <<thread, pending, receiver>>

\* completePendingRequest, first section: whoever takes a request out of the
\* table completes it; an answer nobody is listed for is discarded.
Receive(o) ==
    /\ receiver.at = "running" /\ o \in answers
    /\ answers' = answers \ {o}
    /\ IF Listed(o.cookie) # {}
       THEN /\ pending' = Erased(o.cookie)
            /\ receiver' = [at |-> "completing",
                            holds |-> {[to |-> p.of, result |-> [of |-> o.of, ok |-> o.ok]] :
                                          p \in Listed(o.cookie)}]
       ELSE UNCHANGED <<pending, receiver>>
    /\ UNCHANGED <<thread, wire>>

\* Faulty variant: the table is emptied without a word to those who wait.
ReceiveFailsQuietly ==
    /\ receiver.at = "running"
    /\ receiver' = [at |-> "failing", holds |-> {}]
    /\ pending' = {}
    /\ UNCHANGED <<thread, wire, answers>>

\* failAllPendingRequests, first section, after receive_from failed.
ReceiveFails ==
    /\ receiver.at = "running"
    /\ receiver' = [at |-> "failing",
                    holds |-> {[to |-> p.of, result |-> [of |-> p.of, ok |-> FALSE]] :
                                  p \in pending}]
    /\ pending' = {}
    /\ UNCHANGED <<thread, wire, answers>>

\* The second section: the result is set under the mutex of the request.  A
\* caller that has given up does not look at it.
Complete(h) ==
    /\ h \in receiver.holds
    /\ receiver' = [receiver EXCEPT !.holds = @ \ {h}]
    /\ thread' = [c \in Caller |-> IF c = h.to /\ thread[c].at # "done"
                                   THEN [thread[c] EXCEPT !.result = h.result] ELSE thread[c]]
    /\ UNCHANGED <<pending, wire, answers>>

\* The loop goes on after an answer and ends after an error.
GoOn ==
    /\ receiver.at \in {"completing", "failing"} /\ receiver.holds = {}
    /\ receiver' = [receiver EXCEPT !.at = IF @ = "completing" THEN "running" ELSE "dead"]
    /\ UNCHANGED <<thread, pending, wire, answers>>

-----------------------------------------------------------------------------
CallerStep(c) ==
    \/ Register(c)
    \/ NoReceiver(c)
    \/ Send(c)
    \/ SendFails(c)
    \/ WakeUp(c)
    \/ TimeOut(c)
    \/ EraseExpired(c)

ReceiverStep ==
    \/ \E o \in answers : Receive(o)
    \/ ReceiveFails
    \/ \E h \in receiver.holds : Complete(h)
    \/ GoOn

ClientNext ==
    \/ \E c \in Caller : EnterCall(c) \/ CallerStep(c) \/ LeaveCall(c)
    \/ \E m \in wire : Serve(m)
    \/ ReceiverStep

ClientSpec == ClientInit /\ [][ClientNext]_clientVars

\* A thread in sendCommand goes on: its wait has a deadline.  So does the
\* receiver once it has taken a request out of the table.  Nothing is assumed of
\* rtpengine or of the network.
FairClientSpec ==
    /\ ClientSpec
    /\ \A c \in Caller : WF_clientVars(CallerStep(c))
    /\ WF_clientVars(\E h \in receiver.holds : Complete(h))

-----------------------------------------------------------------------------
\* pending_requests_ holds no request whose caller has left: a request that was
\* sent in vain, timed out or was answered is gone from the table when its
\* caller returns, whichever of the receiver and the caller came first.
PendingIsAwaited ==
    \A p \in pending : \E c \in Caller :
        /\ p.of = c /\ thread[c].cookie = p.cookie
        /\ thread[c].at \in {"send", "wait", "expired"}

\* A command that waits without an answer can still be given one, unless the
\* receiver has ended: it is in the table, or the receiver is about to complete
\* it.  Who is in neither waits for nothing.
WaitsForSomething ==
    \A c \in Caller :
        /\ thread[c].at = "wait" /\ thread[c].result = None
        => (\E p \in pending : p.of = c) \/ (\E h \in receiver.holds : h.to = c)

\* The variables have their types and the table of requests fits who waits.
PendingConsistent == ClientTypeOK /\ PendingIsAwaited /\ WaitsForSomething

\* What a command is given is what rtpengine answered to that very command, or an
\* error of the receiver's: never the answer to another thread's, in flight at the
\* same time, nor, late, to one that was given up before.  The code compares cookies
\* only, so it rests on two commands never sharing one, on an answer that comes late
\* finding its cookie out of use, and on requests leaving the table in time.
OwnAnswerOnly ==
    \A c \in Caller : thread[c].result # None => thread[c].result.of = c

\* What a caller sees of sendCommand.
CallOf(t) ==
    CASE t.at = "idle" -> "idle"
      [] t.at \in {"entered", "send", "wait", "expired"} -> "called"
      [] t.at = "done" -> IF t.result # None /\ t.result.ok THEN "ok" ELSE "error"

Calls == INSTANCE BlockingCall WITH call <- [c \in Caller |-> CallOf(thread[c])]

\* Every call of the client is a blocking call that returns once, and returns,
\* however rtpengine and the receiver behave.
ImplementsBlockingCall == Calls!CallSpec
=============================================================================
