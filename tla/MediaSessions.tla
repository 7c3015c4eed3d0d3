----------------------------- MODULE MediaSessions -----------------------------
(***************************************************************************)
(* The media sessions of the P-CSCF: PcscfService with MediaSessionManager *)
(* on top of the rtpengine client, for the INVITEs, responses, CANCEL and BYEs   *)
(* of one Call-ID and one caller.                                          *)
(*                                                                         *)
(* A handler changes the table in short sections and calls rtpengine       *)
(* between them.  One chain serves the caller; the others bring what comes *)
(* from the core or from the callee: responses, the BYE of the callee, and *)
(* the caller's own CANCEL and BYE when the callee is behind this P-CSCF   *)
(* too.  There is more than one of them, as a TCP connection that was      *)
(* replaced may still have messages to deliver.                            *)
(*                                                                         *)
(* Abstractions.                                                           *)
(*  - A session is known by its to-tag, None for the initial one.  A BYE   *)
(*    of the callee names the dialog in reverse, and is looked up under    *)
(*    the reverse key after its own: without an INVITE of the callee there *)
(*    is no session under the latter.                                      *)
(*  - SDP is present or not.  What is stored of it is never read.          *)
(*  - The PCF is told of no termination: no code sets rx_session_id.       *)
(*  - The caller sends INVITEs within its dialog; those of the callee are  *)
(*    left out (see README).  A callee answers an INVITE that reaches it   *)
(*    after its BYE with a failure.                                        *)
(***************************************************************************)
EXTENDS Naturals, FiniteSets, BlockingCall

CONSTANTS
    Ue,         \* the chain that serves the caller
    Tag,        \* to-tags of callees
    MaxInvites  \* bound on the INVITEs of the caller

Key == Tag \cup {None}

Others == Caller \ {Ue}

ASSUME MediaAssumption ==
    /\ Ue \in Caller /\ MaxInvites \in Nat
    /\ None \notin Tag \cup {"INVITE", "183", "2xx", "failure", "CANCEL", "BYE"}

VARIABLES
    sessions,   \* sessions_: the lifecycle of each, or "none"
    handler,    \* what a chain is doing
    invite,     \* the INVITE that was forwarded, as its client transaction has it
    invites,    \* how many INVITEs the caller has sent
    target,     \* the dialog that INVITE is sent in, None for the first one
    late,       \* whether it found that its callee had ended the dialog
    canceled,   \* whether the caller has cancelled it
    winner,     \* the to-tag of the 2xx
    byes,       \* who has sent a BYE
    looped,     \* requests of the caller on their way back from the core
    settled     \* whether its final response was worked into the table, "lost" once
                \* a 2xx was not as rtpengine did not answer

inviteVars == <<invites, target, late>>
callVars == <<invite, inviteVars, canceled, winner, byes, looped>>
mediaVars == <<sessions, handler, callVars, settled>>
vars == <<call, mediaVars>>

Lifecycle == {"none", "early", "established", "terminating"}

Handler == [at: {"idle", "offer", "begin", "answer", "settle", "plans", "delete"},
            what: {"INVITE", "183", "2xx", "failure", "CANCEL", "BYE", None},
            tag: Key, key: Key, plans: SUBSET Key]

Quiet == [at |-> "idle", what |-> None, tag |-> None, key |-> None, plans |-> {}]

TypeOK ==
    /\ CallTypeOK
    /\ sessions \in [Key -> Lifecycle]
    /\ handler \in [Caller -> Handler]
    /\ \A w \in Caller : call[w] # "idle" <=> handler[w].at \in {"offer", "answer", "delete"}
    /\ invite \in {"none", "open", "closing", "up", "failed"}
    /\ invites \in 0 .. MaxInvites
    /\ target \in Key
    /\ late \in BOOLEAN
    /\ canceled \in BOOLEAN
    /\ winner \in Key
    /\ byes \in SUBSET {"caller", "callee"}
    /\ looped \in SUBSET {"CANCEL", "BYE"}
    /\ settled \in {"no", "yes", "lost"}

Init ==
    /\ CallInit
    /\ sessions = [k \in Key |-> "none"]
    /\ handler = [w \in Caller |-> Quiet]
    /\ invite = "none"
    /\ invites = 0
    /\ target = None
    /\ late = FALSE
    /\ canceled = FALSE
    /\ winner = None
    /\ byes = {}
    /\ looped = {}
    /\ settled = "no"

-----------------------------------------------------------------------------
(* MediaSessionManager: each operator is one section under its mutex. *)

Live(k) == sessions[k] \in {"early", "established"}

\* createSession: whatever was there is replaced.
Created(k) == [sessions EXCEPT ![k] = "early"]

\* Faulty variant: the branch is made whether it is there or not.
EnsureBranchAnew(t) ==
    IF Live(None) THEN [sessions EXCEPT ![t] = "early"] ELSE sessions

\* ensureInviteResponseSessionLocked: a response with a new to-tag gets a copy
\* of the initial session, as long as that is there and not terminating.
EnsureBranch(t) ==
    IF sessions[t] = "none" /\ Live(None) THEN [sessions EXCEPT ![t] = "early"] ELSE sessions

\* commitInviteResponse.
Commit(t, established) ==
    IF Live(t) /\ established THEN [sessions EXCEPT ![t] = "established"] ELSE sessions

\* What a final response ends: all but the established dialogs and those that
\* somebody ends already.
Losers(table) ==
    {k \in Key : table[k] \in {"early", "established"}
                     /\ ~(k # None /\ table[k] = "established")}

Marked(table, plans) == [k \in Key |-> IF k \in plans THEN "terminating" ELSE table[k]]

\* markInviteFinalSuccess.
WithWinner(t) ==
    LET ensured == EnsureBranch(t)
    IN  [k \in Key |-> IF k = t /\ ensured[k] \in {"early", "established"}
                       THEN "established" ELSE ensured[k]]

FinalSuccess(t) == [table |-> WithWinner(t), plans |-> Losers(WithWinner(t)) \ {t}]

\* Faulty variant: only the dialog the response names is ended.
FinalFailureOfDialog(t) == [table |-> sessions, plans |-> Losers(sessions) \cap {t}]

\* markInviteFinalFailure.
FinalFailure(t) == [table |-> sessions, plans |-> Losers(sessions)]

\* markTerminating: the dialog, or else the initial session.
Find(t) == IF sessions[t] # "none" THEN t ELSE None

\* Faulty variant: whoever finds the session deletes it.
TerminateAnyway(t) == IF sessions[Find(t)] # "none" THEN {Find(t)} ELSE {}

ToTerminate(t) == IF Live(Find(t)) THEN {Find(t)} ELSE {}

\* completeTermination.
Erase(k) ==
    IF sessions[k] = "terminating" THEN [sessions EXCEPT ![k] = "none"] ELSE sessions

-----------------------------------------------------------------------------
(* INVITE. *)

\* The caller has a dialog, also while it sends an INVITE within.
InDialog == invite = "up" \/ target # None

\* onInvite up to the call.  The caller sends an INVITE, again after a failure,
\* and then one after the other within the dialog, until its BYE.
OnInvite(w) ==
    /\ w = Ue /\ handler[w].at = "idle" /\ invites < MaxInvites
    /\ \/ invite \in {"none", "failed"} /\ UNCHANGED <<target, late>>
       \/ /\ invite = "up" /\ "caller" \notin byes
          /\ target' = winner
          /\ late' = ("callee" \in byes)
    /\ invites' = invites + 1
    /\ sessions' = Created(target')
    /\ canceled' = FALSE
    /\ settled' = IF settled = "lost" THEN "lost" ELSE "no"
    /\ \/ Call(w) /\ handler' = [handler EXCEPT ![w] = [Quiet EXCEPT !.at = "offer", !.what = "INVITE"]]
       \/ UNCHANGED call   \* no SDP
              /\ handler' = [handler EXCEPT ![w] = [Quiet EXCEPT !.at = "plans", !.what = "INVITE"]]
    /\ UNCHANGED <<invite, winner, byes, looped>>

\* Faulty variant: the INVITE is forwarded while rtpengine works on the offer.
OfferNotAwaited(w) ==
    /\ handler[w].at = "offer" /\ UNCHANGED call
    /\ handler' = [handler EXCEPT ![w].at = "plans"]
    /\ UNCHANGED <<sessions, callVars, settled>>

\* The offer succeeded or not: the INVITE is forwarded, with one SDP or the other.
OfferReturned(w) ==
    /\ handler[w].at = "offer" /\ Return(w)
    /\ handler' = [handler EXCEPT ![w].at = "plans"]
    /\ UNCHANGED <<sessions, callVars, settled>>

-----------------------------------------------------------------------------
(* onInviteResponse. *)

\* A provisional response finds the open transaction.
OnProvisional(w, t) ==
    /\ w \in Others /\ handler[w].at = "idle" /\ invite = "open"
    /\ target \in {None, t}
    /\ handler' = [handler EXCEPT ![w] = [Quiet EXCEPT !.at = "begin", !.what = "183", !.tag = t]]
    /\ UNCHANGED <<call, sessions, callVars, settled>>

\* The first final response closes it.  The core forwards no CANCEL after it.
OnFinal(w, what, t) ==
    /\ w \in Others /\ handler[w].at = "idle" /\ invite = "open"
    /\ target \in {None, t} /\ (late => what = "failure")
    /\ invite' = "closing"
    /\ winner' = IF what = "2xx" THEN t ELSE winner
    /\ looped' = looped \ {"CANCEL"}
    /\ \E at \in {"begin", "settle"} :
          /\ at = "begin" => what = "2xx"   \* with SDP
          /\ handler' = [handler EXCEPT ![w] = [Quiet EXCEPT !.at = at, !.what = what, !.tag = t]]
    /\ UNCHANGED <<call, sessions, inviteVars, canceled, byes, settled>>

\* beginInviteResponse and the call, or nothing when the session is gone.
BeginResponse(w) ==
    LET t == handler[w].tag IN
    /\ handler[w].at = "begin"
    /\ sessions' = EnsureBranch(t)
    /\ IF sessions'[t] \in {"early", "established"}
       THEN /\ Call(w)
            /\ handler' = [handler EXCEPT ![w].at = "answer"]
       ELSE /\ UNCHANGED call
            /\ handler' = [handler EXCEPT ![w].at = "plans"]
    /\ UNCHANGED <<callVars, settled>>

AnswerReturned(w) ==
    LET final == handler[w].what = "2xx" IN
    /\ handler[w].at = "answer" /\ Return(w)
    /\ IF Succeeded(w)
       THEN /\ sessions' = Commit(handler[w].tag, final)
            /\ handler' = [handler EXCEPT ![w].at = IF final THEN "settle" ELSE "plans"]
            /\ UNCHANGED settled
       ELSE /\ settled' = IF final THEN "lost" ELSE settled
            /\ handler' = [handler EXCEPT ![w].at = "plans"]
            /\ UNCHANGED sessions
    /\ UNCHANGED callVars

Settle(w) ==
    LET final == IF handler[w].what = "2xx" THEN FinalSuccess(handler[w].tag)
                 ELSE FinalFailure(handler[w].tag)
    IN
    /\ handler[w].at = "settle"
    /\ sessions' = Marked(final.table, final.plans)
    /\ handler' = [handler EXCEPT ![w].at = "plans", ![w].plans = final.plans]
    /\ settled' = IF settled = "lost" THEN "lost" ELSE "yes"
    /\ UNCHANGED <<call, callVars>>

-----------------------------------------------------------------------------
(* CANCEL and BYE: terminateMediaForRequest. *)

Terminate(w, what, t) ==
    /\ sessions' = Marked(sessions, ToTerminate(t))
    /\ handler' = [handler EXCEPT ![w] = [Quiet EXCEPT !.at = "plans", !.what = what, !.tag = t,
                                                       !.plans = ToTerminate(t)]]
    /\ UNCHANGED <<call, settled>>

\* The caller gives up before it knows of a final response.
OnCancel(w) ==
    /\ w = Ue /\ handler[w].at = "idle"
    /\ invite \in {"open", "closing"} /\ ~canceled
    /\ canceled' = TRUE
    /\ Terminate(w, "CANCEL", target)
    /\ UNCHANGED <<invite, inviteVars, winner, byes, looped>>

OnCallerBye(w) ==
    /\ w = Ue /\ handler[w].at = "idle"
    /\ InDialog /\ "caller" \notin byes
    /\ byes' = byes \cup {"caller"}
    /\ Terminate(w, "BYE", winner)
    /\ UNCHANGED <<invite, inviteVars, canceled, winner, looped>>

OnCalleeBye(w) ==
    /\ w \in Others /\ handler[w].at = "idle"
    /\ InDialog /\ "callee" \notin byes
    /\ byes' = byes \cup {"callee"}
    /\ Terminate(w, "BYE", winner)
    /\ UNCHANGED <<invite, inviteVars, canceled, winner, looped>>

\* The request the P-CSCF has forwarded to the core is back, for the callee.
OnLooped(w, what) ==
    /\ w \in Others /\ handler[w].at = "idle" /\ what \in looped
    /\ looped' = looped \ {what}
    /\ Terminate(w, what, IF what = "BYE" THEN winner ELSE target)
    /\ UNCHANGED <<invite, inviteVars, canceled, winner, byes>>

-----------------------------------------------------------------------------
(* Deletion at rtpengine, one plan after the other, and the forwarding that *)
(* ends every handler.                                                      *)

CallDelete(w, k) ==
    /\ handler[w].at = "plans" /\ k \in handler[w].plans
    /\ Call(w)
    /\ handler' = [handler EXCEPT ![w].at = "delete", ![w].key = k]
    /\ UNCHANGED <<sessions, callVars, settled>>

\* Faulty variant: a delete that failed leaves the session where it is.
DeleteReturnedIfOk(w) ==
    /\ handler[w].at = "delete" /\ Return(w)
    /\ sessions' = IF Succeeded(w) THEN Erase(handler[w].key) ELSE sessions
    /\ handler' = [handler EXCEPT ![w].at = "plans", ![w].plans = @ \ {handler[w].key},
                                  ![w].key = None]
    /\ UNCHANGED <<callVars, settled>>

\* Whatever rtpengine said, the session is erased.
DeleteReturned(w) ==
    /\ handler[w].at = "delete" /\ Return(w)
    /\ sessions' = Erase(handler[w].key)
    /\ handler' = [handler EXCEPT ![w].at = "plans", ![w].plans = @ \ {handler[w].key},
                                  ![w].key = None]
    /\ UNCHANGED <<callVars, settled>>

\* An INVITE that cannot be sent is answered with 500 and its session stays.  One
\* that fails within a dialog leaves the dialog as it is.
Forward(w) ==
    LET what == handler[w].what
        Refused == IF target = None THEN "failed" ELSE "up"
    IN
    /\ handler[w].at = "plans" /\ handler[w].plans = {}
    /\ handler' = [handler EXCEPT ![w] = Quiet]
    /\ invite' \in CASE what = "INVITE"  -> {"open", Refused}
                     [] what = "2xx"     -> {"up"}
                     [] what = "failure" -> {Refused}
                     [] OTHER            -> {invite}
    /\ looped' \in IF w = Ue /\ (what = "BYE" \/ (what = "CANCEL" /\ invite = "open"))
                   THEN {looped, looped \cup {what}} ELSE {looped}
    /\ UNCHANGED <<call, sessions, inviteVars, canceled, winner, byes, settled>>

HandlerStep(w) ==
    \/ OfferReturned(w)
    \/ BeginResponse(w)
    \/ AnswerReturned(w)
    \/ Settle(w)
    \/ \E k \in handler[w].plans : CallDelete(w, k)
    \/ DeleteReturned(w)
    \/ Forward(w)

Arrival(w) ==
    \/ OnInvite(w)
    \/ \E t \in Tag : OnProvisional(w, t)
    \/ \E t \in Tag, what \in {"2xx", "failure"} : OnFinal(w, what, t)
    \/ OnCancel(w)
    \/ OnCallerBye(w)
    \/ OnCalleeBye(w)
    \/ \E what \in looped : OnLooped(w, what)

Next ==
    \/ \E w \in Caller : Arrival(w) \/ HandlerStep(w)
    \/ \E w \in Caller : Finish(w) /\ UNCHANGED mediaVars

Spec == Init /\ [][Next]_vars

\* A thread that has begun to handle a message goes on until it returns; so does
\* a call of rtpengine, which is what RtpengineClient implements.
FairSpec ==
    Spec /\ \A w \in Caller : WF_vars(HandlerStep(w)) /\ WF_vars(Finish(w) /\ UNCHANGED mediaVars)

-----------------------------------------------------------------------------
\* The caller's INVITE within the dialog may have brought back a session that somebody
\* was still deleting: for the callee's BYE, or for a CANCEL that found the session of
\* an INVITE that was not worked in.
Renewed(k) == k # None /\ k = target /\ (late \/ settled = "lost")

\* Who marks a session as terminating has its deletion to do: no session is left
\* terminating, and rtpengine is told once, when CANCEL, BYE of either side and final
\* responses meet, but for a session that was renewed under its deletion.
TerminationOwned ==
    \A k \in Key :
        LET owners == {w \in Caller : k \in handler[w].plans} IN
        /\ sessions[k] = "terminating" => owners # {}
        /\ ~Renewed(k) =>
              Cardinality(owners) = (IF sessions[k] = "terminating" THEN 1 ELSE 0)

\* The variables have their types and the table fits what the handlers have to do.
MediaTableConsistent == TypeOK /\ TerminationOwned

\* Once the final response of the last INVITE was worked into the table, late
\* provisional responses, CANCELs that cross it and other branches leave nothing that
\* only a timer could remove: what remains is the dialog of the 2xx, until a BYE for
\* it.  No 2xx has remained without an answer of rtpengine (see README).
NothingEarlyRemains ==
    settled = "yes" => \A k \in Key :
        /\ sessions[k] # "early"
        /\ sessions[k] = "established" => k = winner /\ byes = {}

\* An established dialog loses its media session by a BYE, or to the caller's INVITE
\* within the dialog, which begins it anew, and a CANCEL for that one; neither to
\* another branch, to a late or a final response, nor to the CANCEL of the INVITE that
\* made the dialog.
EstablishedKept ==
    [][\A t \in Tag :
          sessions[t] = "established" /\ sessions'[t] # "established"
          => byes' # {} \/ (t = target' /\ (invites' # invites \/ canceled'))]_vars

\* A call that has failed or was ended by a BYE leaves no media session behind,
\* however many deletions of rtpengine fail or time out, unless the 2xx of an INVITE
\* got no answer from rtpengine (see README).
MediaReleased ==
    settled = "yes" /\ (byes # {} \/ invite = "failed")
        ~> settled # "yes" \/ \A k \in Key : sessions[k] = "none"
=============================================================================
