----------------------------- MODULE SessionRouter -----------------------------
(***************************************************************************)
(* Call routing in the S-CSCF (SessionRouter): the table of sessions that  *)
(* INVITE, its responses, CANCEL, ACK and BYE read and write, between a    *)
(* caller and a callee that follow RFC 3261 and a network that reorders.   *)
(*                                                                         *)
(* A call is a Call-ID with the tag of its caller.  Its initial entry (the *)
(* empty callee tag) stands for the INVITE under way, an entry with a      *)
(* callee tag for an early or established dialog.                          *)
(*                                                                         *)
(* Abstractions.                                                           *)
(*  - Every handler takes sessions_mutex_ once; what it sends after the    *)
(*    lock leaves in the same step.                                        *)
(*  - Re-INVITE and PRACK look a dialog up and change nothing; an ACK of a *)
(*    failure is absorbed by the transaction layer.                        *)
(*  - The caller's INVITE may be delivered again once its server           *)
(*    transaction is gone, MaxInvites deliveries in all.                   *)
(*  - stale marks an entry whose last_updated lies kInviteSessionTtl back. *)
(*    Timer B ends every forwarded INVITE long before that.                *)
(***************************************************************************)
EXTENDS Integers, FiniteSets

CONSTANTS Call, Tag, Endpoint, MaxInvites, None

Initial == "initial"      \* the key of the entry without callee tag
Branch == 1 .. MaxInvites
Party == {"caller", "callee"}

Session == [branch: Branch, ep: Endpoint, established: BOOLEAN, byeSeen: BOOLEAN,
            cancelSeen: BOOLEAN, stale: BOOLEAN]

Invite == [call: Call, ep: Endpoint]

ASSUME RouterAssumption ==
    /\ MaxInvites \in Nat
    /\ Initial \notin Tag
    /\ None \notin Tag \cup Nat \cup Endpoint \cup Session \cup Invite \cup {"2xx", "failure"}

VARIABLES
    sessions,    \* sessions_ of every call, by callee tag
    invites,     \* client transactions of forwarded INVITEs: [call, ep] or None
    open,        \* ... the branches of those that are alive
    forwarded,   \* number of INVITEs forwarded
    inviteTxn,   \* the caller's INVITE at the router: "none", "alive" or "gone"
    lastFinal,   \* class of the last final response of the call at the router
    toRouter,    \* messages on their way to the router
    toCaller,    \* responses to the INVITE on their way to the caller
    caller,      \* dialogs the caller has confirmed
    callerDone,  \* whether the caller has seen a final response
    canceled,    \* whether the caller has sent CANCEL
    answered,    \* branches the callee has given a final response
    callee,      \* dialogs the callee has accepted
    acked,       \* ... and whose ACK it has received
    byes,        \* BYEs sent: (tag, party)
    released     \* dialogs whose BYE the peer has answered with 2xx

router == <<sessions, invites, open, forwarded, inviteTxn, lastFinal>>
parties == <<caller, callerDone, canceled, answered, callee, acked, byes>>
vars == <<router, toRouter, toCaller, parties, released>>

Message(kind, c, t, b, class) == [kind |-> kind, call |-> c, tag |-> t, branch |-> b, class |-> class]

MessageType ==
    [kind: {"CANCEL", "ACK", "BYE", "response", "bye_response"}, call: Call,
     tag: Tag \cup {None}, branch: Branch \cup {None},
     class: {"1xx", "2xx", "failure", None} \cup Party]

\* Entries point to an INVITE that was forwarded, to the place it was sent to.
TypeOK ==
    /\ forwarded \in 0 .. MaxInvites
    /\ sessions \in [Call -> [Tag \cup {Initial} -> Session \cup {None}]]
    /\ invites \in [Branch -> Invite \cup {None}]
    /\ open \in SUBSET (1 .. forwarded)
    /\ inviteTxn \in [Call -> {"none", "alive", "gone"}]
    /\ lastFinal \in [Call -> {"2xx", "failure", None}]
    /\ toRouter \in SUBSET MessageType
    /\ toCaller \in SUBSET MessageType
    /\ caller \in [Call -> SUBSET Tag]
    /\ callerDone \in [Call -> BOOLEAN]
    /\ canceled \in [Call -> BOOLEAN]
    /\ answered \in SUBSET Branch
    /\ callee \in [Call -> SUBSET Tag]
    /\ acked \in [Call -> SUBSET Tag]
    /\ byes \in [Call -> SUBSET (Tag \X Party)]
    /\ released \in [Call -> SUBSET Tag]

Init ==
    /\ sessions = [c \in Call |-> [t \in Tag \cup {Initial} |-> None]]
    /\ invites = [b \in Branch |-> None]
    /\ open = {}
    /\ forwarded = 0
    /\ inviteTxn = [c \in Call |-> "none"]
    /\ lastFinal = [c \in Call |-> None]
    /\ toRouter = {} /\ toCaller = {}
    /\ caller = [c \in Call |-> {}]
    /\ callerDone = [c \in Call |-> FALSE]
    /\ canceled = [c \in Call |-> FALSE]
    /\ answered = {}
    /\ callee = [c \in Call |-> {}]
    /\ acked = [c \in Call |-> {}]
    /\ byes = [c \in Call |-> {}]
    /\ released = [c \in Call |-> {}]

-----------------------------------------------------------------------------
(* The table. *)

Present(S, c, t) == S[c][t] # None

\* purgeExpiredSessionsLocked.
Purged(S) ==
    [c \in Call |-> [t \in Tag \cup {Initial} |->
        IF Present(S, c, t) /\ ~S[c][t].established /\ S[c][t].stale THEN None ELSE S[c][t]]]

Erased(S, c, T) == [S EXCEPT ![c] = [t \in Tag \cup {Initial} |-> IF t \in T THEN None ELSE @[t]]]

Refreshed(entry, established) == [entry EXCEPT !.established = established, !.stale = FALSE]

\* Faulty variant: the first dialog takes the place of the initial entry.
DialogRecordedMoves(S, c, t, established) ==
    IF Present(S, c, Initial)
    THEN [S EXCEPT ![c][t] = Refreshed(S[c][Initial], established), ![c][Initial] = None]
    ELSE S

\* recordInviteResponseDialogLocked.
DialogRecorded(S, c, t, established) ==
    IF Present(S, c, t)
    THEN [S EXCEPT ![c][t] = Refreshed(@, @.established \/ established)]
    ELSE IF Present(S, c, Initial)
    THEN [S EXCEPT ![c][t] = Refreshed(S[c][Initial], established)]
    ELSE S

\* Faulty variant: a failure takes every entry of the call with it.
InviteSessionsErasedAll(S, c) == Erased(S, c, Tag \cup {Initial})

\* Faulty variant: early dialogs are left behind.
InviteSessionsErasedInitial(S, c) == Erased(S, c, {Initial})

\* eraseInviteSessionsLocked.
InviteSessionsErased(S, c) ==
    Erased(S, c, {t \in Tag \cup {Initial} :
                     t = Initial \/ (Present(S, c, t) /\ ~S[c][t].established)})

-----------------------------------------------------------------------------
(* INVITE and its responses. *)

\* Faulty variant: the branch of a forwarded INVITE is not a new one.
HandleInviteSameBranch(c, ep, sent) ==
    LET b == forwarded + 1 IN
    /\ inviteTxn[c] # "alive"
    /\ forwarded < MaxInvites
    /\ forwarded' = forwarded
    /\ sessions' = [Purged(sessions) EXCEPT ![c][Initial] =
          [branch |-> b, ep |-> ep, established |-> FALSE, byeSeen |-> FALSE, cancelSeen |-> FALSE,
           stale |-> FALSE]]
    /\ invites' = [invites EXCEPT ![b] = [call |-> c, ep |-> ep]]
    /\ open' = IF sent THEN open \cup {b} ELSE open
    /\ inviteTxn' = [inviteTxn EXCEPT ![c] = "alive"]
    /\ UNCHANGED <<lastFinal, toRouter, toCaller, parties, released>>

\* handleInvite of an initial INVITE whose callee is found: the entry is
\* written, then the request sent.  When the transport refuses it the code
\* only logs: no client transaction remains and no response is sent.
HandleInvite(c, ep, sent) ==
    LET b == forwarded + 1
        fresh == [branch |-> b, ep |-> ep, established |-> FALSE, byeSeen |-> FALSE,
                  cancelSeen |-> Present(Purged(sessions), c, Initial)
                                 /\ sessions[c][Initial].cancelSeen,
                  stale |-> FALSE] IN
    /\ inviteTxn[c] # "alive"
    /\ forwarded < MaxInvites
    /\ forwarded' = b
    /\ sessions' = [Purged(sessions) EXCEPT ![c][Initial] = fresh]
    /\ invites' = [invites EXCEPT ![b] = [call |-> c, ep |-> ep]]
    /\ open' = IF sent THEN open \cup {b} ELSE open
    /\ inviteTxn' = [inviteTxn EXCEPT ![c] = "alive"]
    /\ UNCHANGED <<lastFinal, toRouter, toCaller, parties, released>>

\* 404, 480 or 500 before anything is written.
RejectInvite(c) ==
    /\ inviteTxn[c] # "alive"
    /\ inviteTxn' = [inviteTxn EXCEPT ![c] = "gone"]
    /\ toCaller' = toCaller \cup {Message("response", c, None, None, "failure")}
    /\ UNCHANGED <<sessions, invites, open, forwarded, lastFinal, toRouter, parties, released>>

\* A response finds its client transaction, or is dropped by the layer below.
Upstream(m) ==
    /\ m \in toRouter /\ m.kind = "response"
    /\ toRouter' = toRouter \ {m}
    /\ UNCHANGED <<invites, forwarded, parties, released>>

DropResponse(m) ==
    /\ Upstream(m)
    /\ m.branch \notin open
    /\ UNCHANGED <<sessions, open, inviteTxn, lastFinal, toCaller>>

HandleProvisional(m) ==
    /\ Upstream(m)
    /\ m.branch \in open /\ m.class = "1xx"
    /\ sessions' = DialogRecorded(Purged(sessions), m.call, m.tag, FALSE)
    /\ UNCHANGED <<open, inviteTxn, lastFinal, toCaller>>

\* Faulty variant: the initial entry is erased before it is copied.
HandleSuccessErasesFirst(m) ==
    /\ Upstream(m)
    /\ m.branch \in open /\ m.class = "2xx"
    /\ sessions' = DialogRecorded(Erased(Purged(sessions), m.call, {Initial}), m.call, m.tag, TRUE)
    /\ open' = open \ {m.branch}
    /\ inviteTxn' = [inviteTxn EXCEPT ![m.call] = "gone"]
    /\ lastFinal' = [lastFinal EXCEPT ![m.call] = "2xx"]
    /\ toCaller' = toCaller \cup {m}

HandleSuccess(m) ==
    /\ Upstream(m)
    /\ m.branch \in open /\ m.class = "2xx"
    /\ sessions' = Erased(DialogRecorded(Purged(sessions), m.call, m.tag, TRUE), m.call, {Initial})
    /\ open' = open \ {m.branch}
    /\ inviteTxn' = [inviteTxn EXCEPT ![m.call] = "gone"]
    /\ lastFinal' = [lastFinal EXCEPT ![m.call] = "2xx"]
    /\ toCaller' = toCaller \cup {m}

HandleFailure(m) ==
    /\ Upstream(m)
    /\ m.branch \in open /\ m.class = "failure"
    /\ sessions' = InviteSessionsErased(Purged(sessions), m.call)
    /\ open' = open \ {m.branch}
    /\ inviteTxn' = [inviteTxn EXCEPT ![m.call] = "gone"]
    /\ lastFinal' = [lastFinal EXCEPT ![m.call] = "failure"]
    /\ toCaller' = toCaller \cup {m}

\* Timer B of the client transaction: nobody is told.
InviteTimesOut(b) ==
    /\ b \in open
    /\ open' = open \ {b}
    /\ UNCHANGED <<sessions, invites, forwarded, inviteTxn, lastFinal, toRouter, toCaller, parties,
                   released>>

-----------------------------------------------------------------------------
(* CANCEL, ACK and BYE. *)

Receive(m, kind) ==
    /\ m \in toRouter /\ m.kind = kind
    /\ UNCHANGED <<invites, open, forwarded, inviteTxn, lastFinal, toCaller>>

\* A CANCEL carries no callee tag, so only the initial entry can match; what
\* the forwarded CANCEL causes at the callee is its answer to the INVITE.
HandleCancel(m) ==
    /\ Receive(m, "CANCEL")
    /\ toRouter' = toRouter \ {m}
    /\ sessions' = IF Present(sessions, m.call, Initial)
                   THEN [sessions EXCEPT ![m.call][Initial].cancelSeen = TRUE] ELSE sessions
    /\ UNCHANGED <<parties, released>>

\* The ACK of a 2xx.  An entry marked by a CANCEL goes with it.
HandleAck(m) ==
    LET c == m.call
        found == Present(sessions, c, m.tag)
        initial == Present(sessions, c, Initial) /\ sessions[c][Initial].cancelSeen IN
    /\ Receive(m, "ACK")
    /\ toRouter' = toRouter \ {m}
    /\ sessions' = IF found /\ sessions[c][m.tag].cancelSeen
                   THEN Erased(sessions, c, {Initial, m.tag})
                   ELSE IF ~found /\ initial THEN Erased(sessions, c, {Initial}) ELSE sessions
    /\ acked' = IF found \/ initial THEN [acked EXCEPT ![c] = @ \cup {m.tag}] ELSE acked
    /\ UNCHANGED <<caller, callerDone, canceled, answered, callee, byes, released>>

\* 481 when there is no entry; else the BYE is forwarded and the peer answers
\* 2xx, or fails, or not at all (a response that cannot be sent on counts as none).
HandleBye(m) ==
    LET c == m.call IN
    /\ Receive(m, "BYE")
    /\ IF Present(sessions, c, m.tag)
       THEN /\ sessions' = [sessions EXCEPT ![c][m.tag].byeSeen = TRUE]
            /\ \E class \in {"2xx", "failure", None} :
                  toRouter' = (toRouter \ {m}) \cup
                              (IF class = None THEN {}
                               ELSE {Message("bye_response", c, m.tag, None, class)})
       ELSE /\ toRouter' = toRouter \ {m}
            /\ UNCHANGED sessions
    /\ UNCHANGED <<parties, released>>

\* Only a 2xx ends the session.
HandleByeResponse(m) ==
    LET c == m.call
        over == m.class = "2xx" IN
    /\ Receive(m, "bye_response")
    /\ toRouter' = toRouter \ {m}
    /\ sessions' = IF over /\ Present(sessions, c, m.tag) /\ sessions[c][m.tag].byeSeen
                   THEN Erased(sessions, c, {m.tag}) ELSE sessions
    /\ released' = IF over THEN [released EXCEPT ![c] = @ \cup {m.tag}] ELSE released
    /\ UNCHANGED parties

\* kInviteSessionTtl passes without a response for the entry.
EntryGetsStale(c, t) ==
    /\ Present(sessions, c, t) /\ ~sessions[c][t].stale
    /\ \A b \in open : invites[b].call # c
    /\ sessions' = [sessions EXCEPT ![c][t].stale = TRUE]
    /\ UNCHANGED <<invites, open, forwarded, inviteTxn, lastFinal, toRouter, toCaller, parties,
                   released>>

-----------------------------------------------------------------------------
(* The parties. *)

\* The callee answers an INVITE it has received; a dialog belongs to one INVITE.
CalleeResponds(b, t, class) ==
    LET c == invites[b].call IN
    /\ invites[b] # None /\ b \notin answered
    /\ t \notin callee[c]
    /\ toRouter' = toRouter \cup {Message("response", c, t, b, class)}
    /\ answered' = IF class = "1xx" THEN answered ELSE answered \cup {b}
    /\ callee' = IF class = "2xx" THEN [callee EXCEPT ![c] = @ \cup {t}] ELSE callee
    /\ UNCHANGED <<router, toCaller, caller, callerDone, canceled, acked, byes, released>>

\* The caller may cancel as long as it has seen no final response.
CallerCancels(c) ==
    /\ inviteTxn[c] # "none"
    /\ ~callerDone[c] /\ ~canceled[c]
    /\ canceled' = [canceled EXCEPT ![c] = TRUE]
    /\ toRouter' = toRouter \cup {Message("CANCEL", c, None, None, None)}
    /\ UNCHANGED <<router, toCaller, caller, callerDone, answered, callee, acked, byes, released>>

\* A 2xx is acknowledged, also after a CANCEL.
CallerReceives(m) ==
    /\ m \in toCaller
    /\ toCaller' = toCaller \ {m}
    /\ callerDone' = [callerDone EXCEPT ![m.call] = TRUE]
    /\ IF m.class = "2xx"
       THEN /\ caller' = [caller EXCEPT ![m.call] = @ \cup {m.tag}]
            /\ toRouter' = toRouter \cup {Message("ACK", m.call, m.tag, None, None)}
       ELSE UNCHANGED <<caller, toRouter>>
    /\ UNCHANGED <<router, canceled, answered, callee, acked, byes, released>>

\* Either party hangs up a dialog it knows to be confirmed.
SendBye(c, t, party) ==
    /\ t \in (IF party = "caller" THEN caller[c] ELSE acked[c])
    /\ <<t, party>> \notin byes[c]
    /\ byes' = [byes EXCEPT ![c] = @ \cup {<<t, party>>}]
    /\ toRouter' = toRouter \cup {Message("BYE", c, t, None, party)}
    /\ UNCHANGED <<router, toCaller, caller, callerDone, canceled, answered, callee, acked, released>>

-----------------------------------------------------------------------------
RouterStep(m) ==
    \/ DropResponse(m) \/ HandleProvisional(m) \/ HandleSuccess(m) \/ HandleFailure(m)
    \/ HandleCancel(m) \/ HandleAck(m) \/ HandleBye(m) \/ HandleByeResponse(m)

Next ==
    \/ \E c \in Call :
          \/ \E ep \in Endpoint, sent \in BOOLEAN : HandleInvite(c, ep, sent)
          \/ RejectInvite(c)
          \/ CallerCancels(c)
          \/ \E t \in Tag, party \in Party : SendBye(c, t, party)
          \/ \E t \in Tag \cup {Initial} : EntryGetsStale(c, t)
    \/ \E m \in toRouter : RouterStep(m)
    \/ \E m \in toCaller : CallerReceives(m)
    \/ \E b \in Branch, t \in Tag, class \in {"1xx", "2xx", "failure"} : CalleeResponds(b, t, class)
    \/ \E b \in open : InviteTimesOut(b)

Spec == Init /\ [][Next]_vars

-----------------------------------------------------------------------------
(* Properties. *)

ByesUnderWay(c) == {m.tag : m \in {m \in toRouter : m.kind = "BYE" /\ m.call = c}} \ released[c]

\* The BYE of a dialog both parties have confirmed finds its session, so that
\* the peer learns that the call is over (docs/requirements.md 2.4), as long as
\* the caller has not sent a CANCEL: see README for one that crosses the 200.
ByeForwardedUnlessCanceled ==
    \A c \in Call : ~canceled[c] => \A t \in ByesUnderWay(c) : Present(sessions, c, t)

\* An established dialog is only dropped for a BYE that was answered or an
\* ACK after a CANCEL: never by the failure of another INVITE of the call, by
\* an INVITE that comes again, or by the purge.
EstablishedKept ==
    [][\A c \in Call, t \in Tag :
          Present(sessions, c, t) /\ sessions[c][t].established /\ ~Present(sessions', c, t) =>
             \E m \in toRouter \ toRouter' :
                m.call = c /\ m.tag = t /\ m.kind \in {"ACK", "bye_response"}
                /\ (m.kind = "ACK" => canceled[c])]_vars

\* Once its last INVITE has failed, a call has no early dialog and no initial
\* entry, whatever provisional responses are still on their way.
NoGhostAfterFailure ==
    \A c \in Call :
        lastFinal[c] = "failure" /\ inviteTxn[c] = "gone"
        => \A t \in Tag \cup {Initial} : Present(sessions, c, t) => sessions[c][t].established

\* A CANCEL that arrives while the INVITE is pending finds it: the branch and
\* the place it is sent to are those of the INVITE that is open.
CancelFindsInvite ==
    \A m \in toRouter : m.kind = "CANCEL" =>
        \A b \in open : invites[b].call = m.call =>
            /\ Present(sessions, m.call, Initial)
            /\ sessions[m.call][Initial].branch = b
            /\ sessions[m.call][Initial].ep = invites[b].ep

\* The variables have their types, and what the table knows of the pending INVITE
\* is true of it.
InviteConsistent == TypeOK /\ CancelFindsInvite
=============================================================================
