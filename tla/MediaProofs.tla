------------------------------ MODULE MediaProofs ------------------------------
(****************************************************************************)
(* Theorems about the two sides of BlockingCall: MediaSessions, which is    *)
(* built on it, and RtpengineClient, which implements it.                   *)
(*                                                                          *)
(* Media sessions.  A session that is terminating has one handler that ends *)
(* it, unless it was renewed meanwhile; a final response leaves nothing     *)
(* early; an established dialog is kept until a BYE or an INVITE of the     *)
(* caller's within it.  The argument follows the INVITE.  Between its first *)
(* final response and the end of that response's handler the transaction is *)
(* closing and that handler is the only one that establishes a dialog or    *)
(* ends the losers.  When the caller sends the next INVITE, in vain or      *)
(* within the dialog, deletions that others still have to do belong to a    *)
(* BYE, or to a CANCEL that came back and found a session because a 2xx was *)
(* lost.  Unless one was, no dialog has an initial session, from which a    *)
(* session could be made again after its end (EndedIsEnded).                *)
(*                                                                          *)
(* The client.  The code compares cookies, the properties say whose they    *)
(* are.  MessagesFit ties the two together: what is on its way under the    *)
(* cookie of a thread is of that thread, so what the receiver finds in the  *)
(* table goes to whom it was sent for (HeldFit), and who has an answer is   *)
(* listed no more.  It needs that a number is drawn only when neither the   *)
(* table, a thread nor a datagram has it, that a request leaves the table   *)
(* before its caller leaves sendCommand, and that the receiver completes    *)
(* what it took before it takes more.                                       *)
(****************************************************************************)
EXTENDS MediaSessions, RtpengineClient, FiniteSetTheorems, TLAPS

Final == {"2xx", "failure"}

\* Who has a session to delete owns it, unless it was renewed meanwhile.
OneOwner ==
    /\ \A k \in Key : sessions[k] = "terminating" => \E w \in Caller : k \in handler[w].plans
    /\ \A w \in Caller : \A k \in handler[w].plans :
          ~Renewed(k) =>
              /\ sessions[k] = "terminating"
              /\ \A v \in Caller : k \in handler[v].plans => v = w

\* What a handler has seen of its message fits the message.
HandlersFit ==
    \A w \in Caller :
        /\ handler[w].at \in {"idle", "offer", "begin", "answer", "settle"} => handler[w].plans = {}
        /\ handler[w].at = "delete" => handler[w].key \in handler[w].plans
        /\ handler[w].at = "idle" => handler[w].what = None
        /\ handler[w].at = "offer" => handler[w].what = "INVITE"
        /\ handler[w].at \in {"begin", "answer"} => handler[w].what \in {"183", "2xx"}
        /\ handler[w].at = "settle" => handler[w].what \in Final
        /\ handler[w].at \in {"begin", "answer", "settle"} => handler[w].tag \in Tag
        /\ handler[w].plans # {} => handler[w].what \in Final \cup {"CANCEL", "BYE"}

\* The INVITE and its dialog tell which handlers there can be.
InviteFits ==
    /\ \A w \in Caller :
          /\ handler[w].what = "INVITE" =>
                /\ w = Ue /\ settled # "yes"
                /\ invite \in {"none", "failed"} \/ (invite = "up" /\ target # None)
          /\ handler[w].what \in Final =>
                /\ w # Ue /\ invite = "closing"
                /\ handler[w].at \in {"begin", "answer", "settle"} => settled # "yes"
          /\ handler[w].what = "2xx" => handler[w].tag = winner /\ winner # None /\ ~late
          /\ handler[w].what = "failure" /\ target = None => winner = None
    /\ \A v, w \in Caller : handler[v].what \in Final /\ handler[w].what \in Final => v = w
    /\ invite = "open" => settled # "yes"
    /\ invite = "open" /\ target = None => winner = None
    /\ invite \in {"none", "failed"} => winner = None
    /\ invite = "up" => winner # None
    /\ target # None => target = winner
    /\ settled = "lost" => winner # None

\* A BYE follows the 2xx.  A CANCEL that went on to the core has ended the session of
\* its INVITE before, and nothing brings that back before the next INVITE.
RequestsFit ==
    /\ byes # {} => InDialog
    /\ late => "callee" \in byes /\ target # None
    /\ "BYE" \in looped => byes # {}
    /\ "CANCEL" \in looped => canceled /\ invite = "open"
    /\ \A w \in Caller : handler[w].what = "BYE" => byes # {}
    /\ handler[Ue].what = "CANCEL" => canceled
    /\ \A w \in Caller : handler[w].what = "CANCEL" =>
          /\ target = None => handler[w].plans \subseteq {None}
          /\ w # Ue /\ settled # "lost" => handler[w].plans = {}

\* Unless a 2xx was lost: a dialog has no initial session, and a session that a BYE or
\* a CANCEL has ended is not there again, but for the INVITE that came too late.
EndedIsEnded ==
    settled # "lost" =>
        /\ canceled => ~Live(target) /\ ~Live(None)
        /\ InDialog => ~Live(None)
        /\ \A w \in Caller : handler[w].what = "2xx" /\ handler[w].at \in {"plans", "delete"}
              => ~Live(None)
        /\ byes # {} /\ ~late => ~Live(winner)

\* Only the dialog of the 2xx is ever established.
EstablishedIsWinner ==
    \A k \in Key : sessions[k] = "established" =>
        k = winner /\ k # None /\ (byes = {} \/ settled = "lost")

IInv ==
    /\ TypeOK
    /\ OneOwner
    /\ HandlersFit
    /\ InviteFits
    /\ RequestsFit
    /\ EndedIsEnded
    /\ EstablishedIsWinner
    /\ NothingEarlyRemains
-----------------------------------------------------------------------------
(* The sections of MediaSessionManager: what each does to the table. *)

Table == [Key -> Lifecycle]

\* createSession touches the session of its key only.
LEMMA CreatedTable ==
    ASSUME sessions \in Table, NEW c \in Key
    PROVE  /\ Created(c) \in Table
           /\ \A k \in Key : Created(c)[k] = IF k = c THEN "early" ELSE sessions[k]
BY DEF Table, Created, Lifecycle

\* A branch is added while the initial session is there, and never replaced.
LEMMA EnsuredTable ==
    ASSUME sessions \in Table, NEW t \in Key
    PROVE  /\ EnsureBranch(t) \in Table
           /\ \A k \in Key : EnsureBranch(t)[k] = IF k = t /\ sessions[t] = "none" /\ Live(None)
                                                  THEN "early" ELSE sessions[k]
BY DEF Table, EnsureBranch, Lifecycle

\* A commit establishes a session that is there, and nothing else.
LEMMA CommittedTable ==
    ASSUME sessions \in Table, NEW t \in Key, NEW final \in BOOLEAN
    PROVE  /\ Commit(t, final) \in Table
           /\ \A k \in Key : Commit(t, final)[k] = IF k = t /\ Live(t) /\ final
                                                   THEN "established" ELSE sessions[k]
BY DEF Table, Commit, Lifecycle

LEMMA MarkedTable ==
    ASSUME NEW table \in Table, NEW plans \in SUBSET Key
    PROVE  /\ Marked(table, plans) \in Table
           /\ \A k \in Key : Marked(table, plans)[k] = IF k \in plans THEN "terminating" ELSE table[k]
BY DEF Table, Marked, Lifecycle

\* Only a session that is terminating is erased.
LEMMA ErasedTable ==
    ASSUME sessions \in Table, NEW e \in Key
    PROVE  /\ Erase(e) \in Table
           /\ \A k \in Key : Erase(e)[k] = IF k = e /\ sessions[e] = "terminating"
                                           THEN "none" ELSE sessions[k]
BY DEF Table, Erase, Lifecycle

\* The final response of a dialog or of the whole INVITE: it ends what is early, it
\* establishes at most its own dialog, and it leaves the others' deletions alone.
LEMMA SettledTable ==
    ASSUME sessions \in Table, NEW t \in Tag, NEW what \in {"2xx", "failure"},
           sessions[None] # "established"
    PROVE  LET final == IF what = "2xx" THEN FinalSuccess(t) ELSE FinalFailure(t)
               after == Marked(final.table, final.plans)
           IN  /\ final.plans \in SUBSET Key /\ after \in Table
               /\ \A k \in final.plans : sessions[k] \in {"none", "early"} /\ after[k] = "terminating"
               /\ \A k \in Key \ final.plans :
                     \/ after[k] = sessions[k] /\ sessions[k] # "early"
                     \/ k = t /\ what = "2xx" /\ after[k] = "established"
                        /\ sessions[k] # "terminating" /\ (Live(k) \/ Live(None))
<1>k. t \in Key /\ None \in Key /\ t # None
  BY MediaAssumption DEF Key
<1>1. CASE what = "failure"
  <2> DEFINE plans == Losers(sessions)
  <2>1. plans \in SUBSET Key /\ \A k \in Key : k \in plans <=> sessions[k] = "early"
    BY <1>k DEF Losers
  <2>2. FinalFailure(t).table = sessions /\ FinalFailure(t).plans = plans
    BY DEF FinalFailure
  <2> HIDE DEF plans
  <2> QED
    BY <1>1, <2>1, <2>2, MarkedTable DEF Table
<1>2. CASE what = "2xx"
  <2> DEFINE won == WithWinner(t)
             plans == Losers(won) \ {t}
  <2>1. EnsureBranch(t) \in Table
        /\ \A k \in Key : EnsureBranch(t)[k] = IF k = t /\ sessions[t] = "none" /\ Live(None)
                                               THEN "early" ELSE sessions[k]
    BY <1>k, EnsuredTable
  <2>2. /\ won \in Table
        /\ \A k \in Key \ {t} : won[k] = sessions[k]
        /\ \/ won[t] = sessions[t] /\ sessions[t] \notin {"early", "established"}
           \/ won[t] = "established" /\ sessions[t] # "terminating" /\ (Live(t) \/ Live(None))
    BY <1>k, <2>1 DEF WithWinner, Table, Lifecycle, Live
  <2> HIDE DEF won
  <2>3. plans \in SUBSET Key /\ \A k \in Key : k \in plans <=> k # t /\ sessions[k] = "early"
    BY <1>k, <2>2 DEF Losers
  <2>4. FinalSuccess(t).table = won /\ FinalSuccess(t).plans = plans
    BY DEF FinalSuccess, won
  <2> HIDE DEF plans
  <2>5. /\ Marked(won, plans) \in Table
        /\ \A k \in Key : Marked(won, plans)[k] = IF k \in plans THEN "terminating" ELSE won[k]
    BY <2>2, <2>3, MarkedTable
  <2> QED
    BY <1>2, <1>k, <2>2, <2>3, <2>4, <2>5
<1> QED
  BY <1>1, <1>2
-----------------------------------------------------------------------------
LEMMA InitInvariant == Init => IInv
<1> SUFFICES ASSUME Init PROVE IInv
  OBVIOUS
<1>1. None \in Key /\ Quiet \in Handler /\ Quiet.plans = {}
  BY DEF Key, Quiet, Handler
<1>2. handler \in [Caller -> Handler] /\ \A w \in Caller : handler[w] = Quiet
  BY <1>1 DEF Init
<1>3. TypeOK
  <2>1. call \in [Caller -> {"idle", "called", "ok", "error"}] /\ \A w \in Caller : call[w] = "idle"
    BY DEF Init, CallInit
  <2>2. sessions \in [Key -> Lifecycle]
    BY DEF Init, Lifecycle
  <2>3. \A w \in Caller : call[w] # "idle" <=> handler[w].at \in {"offer", "answer", "delete"}
    BY <1>2, <2>1 DEF Quiet
  <2>4. 0 \in 0 .. MaxInvites
    BY MediaAssumption
  <2>5. /\ invite \in {"none", "open", "closing", "up", "failed"} /\ invites \in 0 .. MaxInvites
        /\ target \in Key /\ late \in BOOLEAN /\ canceled \in BOOLEAN /\ winner \in Key
        /\ settled \in {"no", "yes", "lost"}
        /\ byes \in SUBSET {"caller", "callee"} /\ looped \in SUBSET {"CANCEL", "BYE"}
    BY <1>1, <2>4 DEF Init
  <2> QED
    BY <1>2, <2>1, <2>2, <2>3, <2>5 DEF TypeOK, CallTypeOK
<1> QED
  BY <1>1, <1>2, <1>3, MediaAssumption DEF Init, IInv, OneOwner, HandlersFit, InviteFits, RequestsFit,
     EndedIsEnded, EstablishedIsWinner, NothingEarlyRemains, Live, InDialog, Renewed, Final, Quiet

\* Every step keeps the invariant: one step of the proof for each kind of section.
LEMMA StepInvariant == IInv /\ [Next]_vars => IInv'
<1> SUFFICES ASSUME IInv, [Next]_vars PROVE IInv'
  OBVIOUS
<1>a. /\ Ue \in Caller /\ MaxInvites \in Nat /\ None \in Key /\ Tag \subseteq Key
      /\ None \notin Tag
      /\ None \notin {"INVITE", "183", "2xx", "failure", "CANCEL", "BYE"}
  BY MediaAssumption DEF Key
<1>t. /\ sessions \in Table /\ handler \in [Caller -> Handler] /\ winner \in Key
      /\ call \in [Caller -> {"idle", "called", "ok", "error"}]
  BY DEF IInv, TypeOK, CallTypeOK, Table
<1>h. \A w \in Caller :
         /\ handler[w] \in Handler /\ handler[w].tag \in Key /\ handler[w].key \in Key
         /\ handler[w].plans \in SUBSET Key
         /\ handler[w].what \in {"INVITE", "183", "2xx", "failure", "CANCEL", "BYE", None}
         /\ handler[w].at \in {"idle", "offer", "begin", "answer", "settle", "plans", "delete"}
  BY <1>t DEF Handler
<1>n. sessions[None] # "established"
  BY <1>a DEF IInv, EstablishedIsWinner
<1>1. CASE UNCHANGED vars
  BY <1>1 DEF vars, inviteVars, callVars, mediaVars, IInv, TypeOK, CallTypeOK, OneOwner, HandlersFit, InviteFits,
     RequestsFit, EndedIsEnded, EstablishedIsWinner, NothingEarlyRemains, Live, InDialog, Renewed
<1>2. ASSUME NEW w \in Caller, Finish(w), UNCHANGED mediaVars PROVE IInv'
  <2>1. call' \in [Caller -> {"idle", "called", "ok", "error"}]
        /\ \A v \in Caller : call'[v] # "idle" <=> call[v] # "idle"
    BY <1>2, <1>t DEF Finish
  <2> QED
    BY <1>2, <2>1 DEF inviteVars, callVars, mediaVars, IInv, TypeOK, CallTypeOK, OneOwner, HandlersFit, InviteFits,
       RequestsFit, EndedIsEnded, EstablishedIsWinner, NothingEarlyRemains, Live, InDialog, Renewed
\* onInvite replaces the initial session, and nobody is left who deletes one.
<1>3. ASSUME NEW w \in Caller, OnInvite(w) PROVE IInv'
  <2>1. /\ w = Ue /\ handler[w].at = "idle" /\ target' \in Key /\ late' \in BOOLEAN
        /\ \/ invite \in {"none", "failed"} /\ UNCHANGED <<target, late>>
           \/ /\ invite = "up" /\ target' = winner /\ late' = ("callee" \in byes)
              /\ "caller" \notin byes
        /\ invites' \in 0 .. MaxInvites /\ canceled' = FALSE
        /\ settled' = (IF settled = "lost" THEN "lost" ELSE "no")
        /\ UNCHANGED <<invite, winner, byes, looped>>
    <3>1. /\ w = Ue /\ handler[w].at = "idle" /\ target' \in Key
          /\ \/ invite \in {"none", "failed"} /\ UNCHANGED <<target, late>>
             \/ /\ invite = "up" /\ target' = winner /\ late' = ("callee" \in byes)
                /\ "caller" \notin byes
          /\ UNCHANGED <<invite, winner, byes, looped>>
      BY <1>3, <1>a, <1>t DEF OnInvite, IInv, TypeOK
    <3>2. late' \in BOOLEAN
      <4>1. late \in BOOLEAN
        BY DEF IInv, TypeOK
      <4>2. CASE late' = late
        BY <4>1, <4>2
      <4>3. CASE late' = ("callee" \in byes)
        BY <4>3
      <4> QED
        BY <3>1, <4>2, <4>3
    <3>3. /\ invites' \in 0 .. MaxInvites /\ canceled' = FALSE
          /\ settled' = (IF settled = "lost" THEN "lost" ELSE "no")
      BY <1>3, <1>a DEF OnInvite, IInv, TypeOK
    <3> QED
      BY <3>1, <3>2, <3>3
  <2>2. /\ \A v \in Caller : handler[v].what \notin Final
        /\ invite \in {"none", "failed"} =>
              target = None /\ winner = None /\ byes = {} /\ ~late /\ settled # "lost"
        /\ invite = "up" => winner # None
        /\ winner \in {None} \cup Tag
    BY <2>1, <1>t DEF IInv, InviteFits, RequestsFit, InDialog, Final, Key
  \* Whoever deletes the session that is created does so for the callee's BYE, or for
  \* a CANCEL that found the session of an INVITE that was not worked in.
  <2>3. \A v \in Caller : target' \in handler[v].plans =>
           target' # None /\ (late' \/ settled' = "lost")
    <3> SUFFICES ASSUME NEW v \in Caller, target' \in handler[v].plans
                 PROVE  target' # None /\ (late' \/ settled' = "lost")
      OBVIOUS
    <3>1. v # w /\ handler[v].what \in {"CANCEL", "BYE"}
      BY <2>1, <2>2 DEF IInv, HandlersFit, Final
    <3>2. CASE handler[v].what = "BYE"
      BY <2>1, <2>2, <3>2 DEF IInv, RequestsFit, TypeOK
    <3>3. CASE handler[v].what = "CANCEL"
      BY <2>1, <2>2, <3>1, <3>3 DEF IInv, RequestsFit
    <3> QED
      BY <3>1, <3>2, <3>3
  <2>4. sessions' \in Table
        /\ \A k \in Key : sessions'[k] = IF k = target' THEN "early" ELSE sessions[k]
    BY <1>3, <1>t, <2>1, CreatedTable DEF OnInvite
  <2>5. /\ handler' \in [Caller -> Handler] /\ \A v \in Caller \ {w} : handler'[v] = handler[v]
        /\ handler'[w].at \in {"offer", "plans"} /\ handler'[w].what = "INVITE"
        /\ handler'[w].plans = {}
        /\ call' \in [Caller -> {"idle", "called", "ok", "error"}]
        /\ \A v \in Caller \ {w} : call'[v] = call[v]
        /\ call'[w] # "idle" <=> handler'[w].at = "offer"
    <3>1. PICK at \in {"offer", "plans"} :
               /\ handler' = [handler EXCEPT ![w] = [Quiet EXCEPT !.at = at, !.what = "INVITE"]]
               /\ IF at = "offer" THEN Call(w) ELSE UNCHANGED call
      BY <1>3 DEF OnInvite
    <3> DEFINE r == [Quiet EXCEPT !.at = at, !.what = "INVITE"]
    <3>2. r \in Handler /\ r.at = at /\ r.what = "INVITE" /\ r.plans = {}
      BY <1>a DEF Handler, Quiet
    <3>3. handler' = [handler EXCEPT ![w] = r]
      BY <3>1
    <3>4. call[w] = "idle"
      BY <2>1 DEF IInv, TypeOK
    <3> HIDE DEF r
    <3> QED
      BY <3>1, <3>2, <3>3, <3>4, <1>t DEF Call
  <2>6. TypeOK'
    BY <1>a, <1>t, <1>h, <2>1, <2>2, <2>3, <2>4, <2>5 DEF IInv, TypeOK, CallTypeOK, Table,
       inviteVars
  <2>7. OneOwner'
    <3>1. ASSUME NEW k \in Key, sessions'[k] = "terminating" PROVE \E v \in Caller : k \in handler'[v].plans
      <4>1. PICK v \in Caller : k \in handler[v].plans
        BY <2>4, <3>1 DEF IInv, OneOwner
      <4>2. v # w
        BY <4>1, <2>1 DEF IInv, HandlersFit
      <4> QED
        BY <4>1, <4>2, <2>5
    <3>2. ASSUME NEW v \in Caller, NEW k \in handler'[v].plans, ~Renewed(k)'
          PROVE  sessions'[k] = "terminating" /\ \A u \in Caller : k \in handler'[u].plans => u = v
      <4>1. v # w /\ k \in handler[v].plans /\ k \in Key
        BY <2>5, <3>2, <1>h
      <4>2. k # target'
        BY <2>3, <3>2, <4>1 DEF Renewed
      <4>3. ~Renewed(k)
        BY <2>1, <2>2, <4>2 DEF Renewed, IInv, InviteFits
      <4>4. sessions[k] = "terminating" /\ \A u \in Caller : k \in handler[u].plans => u = v
        BY <4>1, <4>3 DEF IInv, OneOwner
      <4> QED
        BY <4>1, <4>2, <4>4, <2>4, <2>5
    <3> QED
      BY <3>1, <3>2 DEF OneOwner
  <2>8. HandlersFit'
    BY <1>a, <1>t, <1>h, <2>1, <2>2, <2>3, <2>4, <2>5 DEF IInv, HandlersFit, Final
  <2>9. InviteFits'
    BY <1>a, <1>t, <1>h, <2>1, <2>2, <2>3, <2>4, <2>5 DEF IInv, InviteFits, Final, inviteVars
  <2>10. RequestsFit'
    BY <1>a, <1>t, <1>h, <2>1, <2>2, <2>3, <2>4, <2>5 DEF IInv, RequestsFit, InDialog,
       inviteVars
  <2>11. EndedIsEnded'
    <3>1. SUFFICES ASSUME settled' # "lost"
                   PROVE  /\ InDialog' => ~Live(None)'
                          /\ \A v \in Caller : handler'[v].what # "2xx"
                          /\ byes' = {} \/ late'
      BY <2>1 DEF EndedIsEnded
    <3>2. InDialog' => InDialog /\ invite = "up" /\ target' # None
      BY <2>1, <2>2 DEF InDialog
    <3>3. InDialog' => ~Live(None)'
      BY <2>1, <2>4, <3>1, <3>2, <1>a DEF IInv, EndedIsEnded, Live
    <3>4. \A v \in Caller : handler'[v].what # "2xx"
      BY <2>2, <2>5 DEF Final
    <3>5. byes' = {} \/ late'
      BY <2>1, <2>2 DEF IInv, TypeOK
    <3> QED
      BY <3>3, <3>4, <3>5
  <2>12. EstablishedIsWinner'
    BY <1>a, <1>t, <1>h, <2>1, <2>2, <2>3, <2>4, <2>5 DEF IInv, EstablishedIsWinner
  <2>13. NothingEarlyRemains'
    BY <1>a, <1>t, <1>h, <2>1, <2>2, <2>3, <2>4, <2>5, <2>12 DEF IInv, NothingEarlyRemains,
       EstablishedIsWinner, Live
  <2> QED
    BY <2>6, <2>7, <2>8, <2>9, <2>10, <2>11, <2>12, <2>13 DEF IInv
\* A call that returns.
<1>4. ASSUME NEW w \in Caller, OfferReturned(w) PROVE IInv'
  <2>1. /\ UNCHANGED <<sessions, invite, inviteVars, canceled, winner, byes, looped, settled>>
        /\ handler[w].at = "offer"
    BY <1>4 DEF OfferReturned, callVars
  <2>2. /\ call' \in [Caller -> {"idle", "called", "ok", "error"}]
        /\ \A v \in Caller \ {w} : call'[v] = call[v]
        /\ call'[w] = "idle"
    BY <1>4, <1>t DEF OfferReturned, Return
  <2>3. /\ handler' \in [Caller -> Handler] /\ \A v \in Caller \ {w} : handler'[v] = handler[v]
        /\ handler'[w].what = handler[w].what /\ handler'[w].plans = handler[w].plans
        /\ handler'[w].tag = handler[w].tag
        /\ handler'[w].at = "plans"
    <3> DEFINE r == [handler[w] EXCEPT !.at = "plans"]
    <3>1. /\ r \in Handler
          /\ r.what = handler[w].what /\ r.plans = handler[w].plans /\ r.tag = handler[w].tag
          /\ r.at = "plans"
      BY <1>a, <1>h DEF Handler, Quiet
    <3>2. handler' = [handler EXCEPT ![w] = r]
      BY <1>4 DEF OfferReturned
    <3> HIDE DEF r
    <3> QED
      BY <3>1, <3>2, <1>t
  <2>4. TypeOK'
    BY <1>a, <1>t, <1>h, <2>1, <2>2, <2>3 DEF IInv, TypeOK, CallTypeOK, Table, inviteVars
  <2>5. OneOwner'
    BY <1>a, <1>t, <1>h, <2>1, <2>2, <2>3 DEF IInv, OneOwner, Live, Renewed, inviteVars
  <2>6. HandlersFit'
    BY <1>a, <1>t, <1>h, <2>1, <2>2, <2>3 DEF IInv, HandlersFit, Final
  <2>7. InviteFits'
    BY <1>a, <1>t, <1>h, <2>1, <2>2, <2>3 DEF IInv, InviteFits, Final, inviteVars
  <2>8. RequestsFit'
    BY <1>a, <1>t, <1>h, <2>1, <2>2, <2>3 DEF IInv, RequestsFit, InDialog, inviteVars
  <2>9. EndedIsEnded'
    BY <1>a, <1>t, <1>h, <2>1, <2>2, <2>3 DEF IInv, EndedIsEnded, Live, InDialog, inviteVars,
       HandlersFit
  <2>10. EstablishedIsWinner'
    BY <1>a, <1>t, <1>h, <2>1, <2>2, <2>3 DEF IInv, EstablishedIsWinner
  <2>11. NothingEarlyRemains'
    BY <1>a, <1>t, <1>h, <2>1, <2>2, <2>3, <2>10 DEF IInv, NothingEarlyRemains,
       EstablishedIsWinner, Live
  <2> QED
    BY <2>4, <2>5, <2>6, <2>7, <2>8, <2>9, <2>10, <2>11 DEF IInv
\* The responses of the callees.
<1>5. ASSUME NEW w \in Caller, NEW t \in Tag, OnProvisional(w, t) PROVE IInv'
  <2>1. /\ UNCHANGED <<call, sessions, invite, inviteVars, canceled, winner, byes, looped, settled>>
        /\ w # Ue /\ handler[w].at = "idle"
        /\ handler[w].plans = {} /\ handler[w].what = None /\ Final \subseteq {"2xx", "failure"}
    BY <1>5 DEF OnProvisional, callVars, Others, IInv, HandlersFit, Final
  <2>2. /\ handler' \in [Caller -> Handler] /\ \A v \in Caller \ {w} : handler'[v] = handler[v]
        /\ handler'[w].at = "begin" /\ handler'[w].what = "183" /\ handler'[w].plans = {}
        /\ handler'[w].tag = t
    <3> DEFINE r == [Quiet EXCEPT !.at = "begin", !.what = "183", !.tag = t]
    <3>1. /\ r \in Handler
          /\ r.at = "begin" /\ r.what = "183" /\ r.plans = {} /\ r.tag = t
      BY <1>a, <1>h DEF Handler, Quiet
    <3>2. handler' = [handler EXCEPT ![w] = r]
      BY <1>5 DEF OnProvisional
    <3> HIDE DEF r
    <3> QED
      BY <3>1, <3>2, <1>t
  <2>3. TypeOK'
    BY <1>a, <1>t, <1>h, <2>1, <2>2 DEF IInv, TypeOK, CallTypeOK, Table, inviteVars
  <2>4. OneOwner'
    BY <1>a, <1>t, <1>h, <2>1, <2>2 DEF IInv, OneOwner, Live, Renewed, inviteVars
  <2>5. HandlersFit'
    BY <1>a, <1>t, <1>h, <2>1, <2>2 DEF IInv, HandlersFit, Final
  <2>6. InviteFits'
    BY <1>a, <1>t, <1>h, <2>1, <2>2 DEF IInv, InviteFits, Final, inviteVars
  <2>7. RequestsFit'
    BY <1>a, <1>t, <1>h, <2>1, <2>2 DEF IInv, RequestsFit, InDialog, inviteVars
  <2>8. EndedIsEnded'
    BY <1>a, <1>t, <1>h, <2>1, <2>2 DEF IInv, EndedIsEnded, Live, InDialog, inviteVars
  <2>9. EstablishedIsWinner'
    BY <1>a, <1>t, <1>h, <2>1, <2>2 DEF IInv, EstablishedIsWinner
  <2>10. NothingEarlyRemains'
    BY <1>a, <1>t, <1>h, <2>1, <2>2, <2>9 DEF IInv, NothingEarlyRemains, EstablishedIsWinner,
       Live
  <2> QED
    BY <2>3, <2>4, <2>5, <2>6, <2>7, <2>8, <2>9, <2>10 DEF IInv
<1>6. ASSUME NEW w \in Caller, NEW what \in {"2xx", "failure"}, NEW t \in Tag, OnFinal(w, what, t)
      PROVE  IInv'
  <2>1. /\ UNCHANGED <<call, sessions, inviteVars, canceled, byes, settled>>
        /\ w # Ue /\ handler[w].at = "idle" /\ invite = "open" /\ invite' = "closing"
        /\ winner' = (IF what = "2xx" THEN t ELSE winner) /\ looped' = looped \ {"CANCEL"}
        /\ handler[w].plans = {}
    BY <1>6 DEF OnFinal, Others, IInv, HandlersFit
  <2>2. /\ handler' \in [Caller -> Handler] /\ \A v \in Caller \ {w} : handler'[v] = handler[v]
        /\ handler'[w].at \in {"begin", "settle"} /\ (handler'[w].at = "begin" => what = "2xx")
        /\ handler'[w].what = what /\ handler'[w].plans = {} /\ handler'[w].tag = t
    <3>1. PICK at \in {a \in {"begin", "settle"} : a = "begin" => what = "2xx"} :
               handler' = [handler EXCEPT ![w] = [Quiet EXCEPT !.at = at, !.what = what, !.tag = t]]
      BY <1>6 DEF OnFinal
    <3> DEFINE r == [Quiet EXCEPT !.at = at, !.what = what, !.tag = t]
    <3>2. /\ r \in Handler
          /\ r.at \in {"begin", "settle"} /\ (r.at = "begin" => what = "2xx")
          /\ r.what = what /\ r.plans = {} /\ r.tag = t
      BY <3>1, <1>a, <1>h DEF Handler, Quiet
    <3>3. handler' = [handler EXCEPT ![w] = r]
      BY <3>1
    <3> HIDE DEF r
    <3> QED
      BY <3>2, <3>3, <1>t
  <2>3. /\ settled # "yes" /\ \A v \in Caller : handler[v].what \notin Final
        /\ target \in {None, t} /\ (late => what = "failure")
        /\ target = None => /\ winner = None /\ byes = {} /\ ~late
                            /\ \A k \in Key : sessions[k] # "established"
        /\ target # None => winner = t
    BY <1>6, <2>1 DEF OnFinal, IInv, InviteFits, RequestsFit, InDialog, EstablishedIsWinner, Final
  <2>4. TypeOK'
    BY <1>a, <1>t, <1>h, <2>1, <2>2, <2>3 DEF IInv, TypeOK, CallTypeOK, Table, inviteVars
  <2>5. OneOwner'
    BY <1>a, <1>t, <1>h, <2>1, <2>2, <2>3 DEF IInv, OneOwner, Live, Renewed, inviteVars
  <2>6. HandlersFit'
    BY <1>a, <1>t, <1>h, <2>1, <2>2, <2>3 DEF IInv, HandlersFit, Final
  <2>7. InviteFits'
    BY <1>a, <1>t, <1>h, <2>1, <2>2, <2>3 DEF IInv, InviteFits, Final, inviteVars
  <2>8. RequestsFit'
    BY <1>a, <1>t, <1>h, <2>1, <2>2, <2>3 DEF IInv, RequestsFit, InDialog, inviteVars
  <2>9. EndedIsEnded'
    BY <1>a, <1>t, <1>h, <2>1, <2>2, <2>3 DEF IInv, EndedIsEnded, Live, InDialog, inviteVars
  <2>10. EstablishedIsWinner'
    BY <1>a, <1>t, <1>h, <2>1, <2>2, <2>3 DEF IInv, EstablishedIsWinner
  <2>11. NothingEarlyRemains'
    BY <1>a, <1>t, <1>h, <2>1, <2>2, <2>3, <2>10 DEF IInv, NothingEarlyRemains,
       EstablishedIsWinner, Live
  <2> QED
    BY <2>4, <2>5, <2>6, <2>7, <2>8, <2>9, <2>10, <2>11 DEF IInv
<1>7. ASSUME NEW w \in Caller, BeginResponse(w) PROVE IInv'
  <2>1. /\ UNCHANGED <<invite, inviteVars, canceled, winner, byes, looped, settled>>
        /\ handler[w].at = "begin" /\ handler[w].tag \in Tag
        /\ handler[w].plans = {} /\ handler[w].what \in {"183", "2xx"}
    BY <1>7 DEF BeginResponse, callVars, IInv, HandlersFit
  <2>2. /\ sessions' \in Table
        /\ \A k \in Key : sessions'[k] =
              IF k = handler[w].tag /\ sessions[k] = "none" /\ Live(None)
              THEN "early" ELSE sessions[k]
    BY <1>7, <1>a, <1>t, <1>h, EnsuredTable DEF BeginResponse
  <2>3. /\ handler' \in [Caller -> Handler] /\ \A v \in Caller \ {w} : handler'[v] = handler[v]
        /\ handler'[w].at \in {"answer", "plans"} /\ handler'[w].what = handler[w].what
        /\ handler'[w].plans = {} /\ handler'[w].tag = handler[w].tag
        /\ call' \in [Caller -> {"idle", "called", "ok", "error"}]
        /\ \A v \in Caller \ {w} : call'[v] = call[v]
        /\ call'[w] # "idle" <=> handler'[w].at = "answer"
    <3>1. PICK at \in {"answer", "plans"} :
               /\ handler' = [handler EXCEPT ![w].at = at]
               /\ IF at = "answer" THEN Call(w) ELSE UNCHANGED call
      BY <1>7 DEF BeginResponse
    <3> DEFINE r == [handler[w] EXCEPT !.at = at]
    <3>2. /\ r \in Handler /\ r.at = at /\ r.what = handler[w].what
          /\ r.plans = {} /\ r.tag = handler[w].tag
      BY <2>1, <1>h DEF Handler
    <3>3. handler' = [handler EXCEPT ![w] = r]
      BY <3>1
    <3>4. call[w] = "idle"
      BY <2>1 DEF IInv, TypeOK
    <3> HIDE DEF r
    <3> QED
      BY <3>1, <3>2, <3>3, <3>4, <1>t DEF Call
  <2>4. handler[w].what = "2xx" /\ handler'[w].at = "plans" /\ settled # "lost" => ~Live(None)
    <3> SUFFICES ASSUME handler[w].what = "2xx", handler'[w].at = "plans", settled # "lost", Live(None)
                 PROVE  FALSE
      OBVIOUS
    <3> DEFINE t == handler[w].tag
    <3>1. ~InDialog
      BY DEF IInv, EndedIsEnded
    <3>2. sessions'[t] \notin {"early", "established"}
      BY <1>7, <1>t, <1>h DEF BeginResponse, Handler
    <3>3. sessions[t] = "terminating"
      BY <3>2, <2>1, <2>2, <1>t, <1>a DEF Table, Lifecycle
    <3>4. PICK v \in Caller : t \in handler[v].plans
      BY <3>3, <2>1, <1>a DEF IInv, OneOwner
    <3>5. handler[v].what \in {"CANCEL", "BYE"}
      BY <3>4, <2>1 DEF IInv, HandlersFit, InviteFits, Final
    <3> QED
      BY <3>1, <3>4, <3>5, <2>1, <1>a DEF IInv, RequestsFit, InDialog
  <2>5. TypeOK'
    BY <1>a, <1>t, <1>h, <2>1, <2>2, <2>3, <2>4 DEF IInv, TypeOK, CallTypeOK, Table, inviteVars
  <2>6. OneOwner'
    BY <1>a, <1>t, <1>h, <2>1, <2>2, <2>3, <2>4 DEF IInv, OneOwner, Live, Renewed, inviteVars
  <2>7. HandlersFit'
    BY <1>a, <1>t, <1>h, <2>1, <2>2, <2>3, <2>4 DEF IInv, HandlersFit, Final
  <2>8. InviteFits'
    BY <1>a, <1>t, <1>h, <2>1, <2>2, <2>3, <2>4 DEF IInv, InviteFits, Final, inviteVars
  <2>9. RequestsFit'
    BY <1>a, <1>t, <1>h, <2>1, <2>2, <2>3, <2>4 DEF IInv, RequestsFit, InDialog, inviteVars
  <2>10. EndedIsEnded'
    <3> SUFFICES ASSUME settled # "lost" PROVE EndedIsEnded'
      BY <2>1 DEF EndedIsEnded
    <3>1. InDialog \/ canceled => sessions' = sessions
      BY <2>2, <1>t DEF IInv, EndedIsEnded, Table
    <3>2. sessions'[None] = sessions[None]
      BY <2>1, <2>2, <1>a
    <3> QED
      BY <2>1, <2>3, <2>4, <3>1, <3>2 DEF IInv, EndedIsEnded, RequestsFit, Live, InDialog, inviteVars
  <2>11. EstablishedIsWinner'
    BY <1>a, <1>t, <1>h, <2>1, <2>2, <2>3, <2>4 DEF IInv, EstablishedIsWinner
  <2>12. NothingEarlyRemains'
    BY <1>a, <1>t, <1>h, <2>1, <2>2, <2>3, <2>4, <2>11 DEF IInv, NothingEarlyRemains,
       EstablishedIsWinner, Live
  <2> QED
    BY <2>5, <2>6, <2>7, <2>8, <2>9, <2>10, <2>11, <2>12 DEF IInv
<1>8. ASSUME NEW w \in Caller, AnswerReturned(w) PROVE IInv'
  <2>1. /\ UNCHANGED <<invite, inviteVars, canceled, winner, byes, looped>>
        /\ settled' = settled \/ (settled' = "lost" /\ handler[w].what = "2xx" /\ sessions' = sessions)
        /\ handler[w].at = "answer" /\ handler[w].tag \in Tag
        /\ handler[w].plans = {} /\ handler[w].what \in {"183", "2xx"}
        /\ handler[w].tag \in Key
    BY <1>8, <1>a DEF AnswerReturned, callVars, IInv, HandlersFit
  <2>2. /\ sessions' \in Table
        /\ \/ sessions' = sessions
           \/ \A k \in Key : sessions'[k] =
                 IF k = handler[w].tag /\ Live(k) /\ handler[w].what = "2xx"
                 THEN "established" ELSE sessions[k]
    <3> DEFINE final == handler[w].what = "2xx"
    <3>1. /\ Commit(handler[w].tag, final) \in Table
          /\ \A k \in Key : Commit(handler[w].tag, final)[k] =
                IF k = handler[w].tag /\ Live(handler[w].tag) /\ final
                THEN "established" ELSE sessions[k]
      BY <2>1, <1>t, CommittedTable
    <3>2. sessions' = sessions \/ sessions' = Commit(handler[w].tag, final)
      BY <1>8 DEF AnswerReturned
    <3> QED
      BY <3>1, <3>2, <1>t
  <2>3. /\ call' \in [Caller -> {"idle", "called", "ok", "error"}]
        /\ \A v \in Caller \ {w} : call'[v] = call[v]
        /\ call'[w] = "idle"
    BY <1>8, <1>t DEF AnswerReturned, Return
  <2>4. /\ handler' \in [Caller -> Handler] /\ \A v \in Caller \ {w} : handler'[v] = handler[v]
        /\ handler'[w].at \in {"settle",
            "plans"} /\ (handler'[w].at = "settle" => handler'[w].what = "2xx")
        /\ handler'[w].what = handler[w].what /\ handler'[w].plans = {}
        /\ handler'[w].tag = handler[w].tag
    <3>1. PICK at \in {a \in {"settle", "plans"} : a = "settle" => handler[w].what = "2xx"} :
               handler' = [handler EXCEPT ![w] = [handler[w] EXCEPT !.at = at]]
      BY <1>8 DEF AnswerReturned
    <3> DEFINE r == [handler[w] EXCEPT !.at = at]
    <3>2. /\ r \in Handler
          /\ r.at \in {"settle", "plans"} /\ (r.at = "settle" => r.what = "2xx")
          /\ r.what = handler[w].what /\ r.plans = {} /\ r.tag = handler[w].tag
      BY <3>1, <1>a, <1>h, <2>1 DEF Handler, Quiet
    <3>3. handler' = [handler EXCEPT ![w] = r]
      BY <3>1
    <3> HIDE DEF r
    <3> QED
      BY <3>2, <3>3, <1>t
  <2>5. handler[w].what = "2xx" => /\ w # Ue /\ invite = "closing" /\ settled # "yes" /\ ~late
                                   /\ handler[w].tag = winner /\ winner # None
    BY <2>1 DEF IInv, InviteFits, Final
  <2>6. TypeOK'
    BY <1>a, <1>t, <1>h, <2>1, <2>2, <2>3, <2>4, <2>5 DEF IInv, TypeOK, CallTypeOK, Table,
       inviteVars
  <2>7. OneOwner'
    BY <1>a, <1>t, <1>h, <2>1, <2>2, <2>3, <2>4, <2>5 DEF IInv, OneOwner, Live, Renewed,
       inviteVars
  <2>8. HandlersFit'
    BY <1>a, <1>t, <1>h, <2>1, <2>2, <2>3, <2>4, <2>5 DEF IInv, HandlersFit, Final
  <2>9. InviteFits'
    BY <1>a, <1>t, <1>h, <2>1, <2>2, <2>3, <2>4, <2>5 DEF IInv, InviteFits, Final, inviteVars
  <2>10. RequestsFit'
    BY <1>a, <1>t, <1>h, <2>1, <2>2, <2>3, <2>4, <2>5 DEF IInv, RequestsFit, InDialog,
       inviteVars
  <2>11. EndedIsEnded'
    <3> SUFFICES ASSUME settled' # "lost" PROVE EndedIsEnded'
      BY DEF EndedIsEnded
    <3>1. \A k \in Key : Live(k)' => Live(k)
      BY <2>2 DEF Live
    <3>2. handler'[w].what = "2xx" => handler'[w].at = "settle"
      BY <1>8, <2>1, <2>4, <1>t, <1>h DEF AnswerReturned, Handler
    <3> QED
      BY <2>1, <2>4, <3>1, <3>2, <1>a, <1>t DEF IInv, EndedIsEnded, TypeOK, InDialog, inviteVars
  <2>12. EstablishedIsWinner'
    BY <1>a, <1>t, <1>h, <2>1, <2>2, <2>3, <2>4, <2>5 DEF IInv, EstablishedIsWinner,
       EndedIsEnded, Live, InDialog, inviteVars
  <2>13. NothingEarlyRemains'
    BY <1>a, <1>t, <1>h, <2>1, <2>2, <2>3, <2>4, <2>5, <2>12 DEF IInv, NothingEarlyRemains,
       EstablishedIsWinner, Live
  <2> QED
    BY <2>6, <2>7, <2>8, <2>9, <2>10, <2>11, <2>12, <2>13 DEF IInv
\* markInviteFinalSuccess and markInviteFinalFailure.
<1>9. ASSUME NEW w \in Caller, Settle(w) PROVE IInv'
  <2>1. /\ UNCHANGED <<call, invite, inviteVars, canceled, winner, byes, looped>>
        /\ settled' = (IF settled = "lost" THEN "lost" ELSE "yes")
        /\ handler[w].at = "settle" /\ handler[w].tag \in Tag
        /\ handler[w].plans = {} /\ handler[w].what \in {"2xx", "failure"}
    BY <1>9 DEF Settle, callVars, IInv, HandlersFit, Final
  <2>2. /\ w # Ue /\ invite = "closing"
        /\ handler[w].what = "2xx" => handler[w].tag = winner /\ winner # None /\ ~late
        /\ \A v \in Caller : handler[v].what = "2xx" => v = w
    BY <2>1 DEF IInv, InviteFits, Final
  <2>3. PICK final : /\ final = IF handler[w].what = "2xx" THEN FinalSuccess(handler[w].tag)
                                ELSE FinalFailure(handler[w].tag)
                     /\ sessions' = Marked(final.table, final.plans)
                     /\ handler' = [handler EXCEPT ![w].at = "plans", ![w].plans = final.plans]
    BY <1>9 DEF Settle
  <2>4. PICK plans \in SUBSET Key :
            /\ plans = final.plans /\ sessions' \in Table
            /\ \A k \in plans : sessions[k] \in {"none", "early"} /\ sessions'[k] = "terminating"
            /\ \A k \in Key \ plans :
                  \/ sessions'[k] = sessions[k] /\ sessions[k] # "early"
                  \/ k = handler[w].tag /\ handler[w].what = "2xx" /\ sessions'[k] = "established"
                     /\ sessions[k] # "terminating" /\ (Live(k) \/ Live(None))
    BY <2>1, <2>3, <1>t, <1>n, SettledTable
  <2>5. /\ handler' \in [Caller -> Handler] /\ \A v \in Caller \ {w} : handler'[v] = handler[v]
        /\ handler'[w].at = "plans" /\ handler'[w].what = handler[w].what
        /\ handler'[w].tag = handler[w].tag /\ handler'[w].plans = plans
    <3> DEFINE r == [handler[w] EXCEPT !.at = "plans", !.plans = plans]
    <3>1. /\ r \in Handler /\ r.at = "plans" /\ r.what = handler[w].what
          /\ r.tag = handler[w].tag /\ r.plans = plans
      BY <2>4, <1>h DEF Handler
    <3>2. handler' = [handler EXCEPT ![w] = r]
      BY <2>3, <2>4
    <3> HIDE DEF r
    <3> QED
      BY <3>1, <3>2, <1>t
  <2>6. TypeOK'
    BY <1>t, <2>1, <2>4, <2>5 DEF IInv, TypeOK, CallTypeOK, Table, inviteVars
  <2>7. OneOwner'
    <3>1. ASSUME NEW k \in Key, sessions'[k] = "terminating"
          PROVE  \E v \in Caller : k \in handler'[v].plans
      BY <2>1, <2>4, <2>5, <3>1 DEF IInv, OneOwner
    <3>2. ASSUME NEW v \in Caller, NEW k \in handler'[v].plans, ~Renewed(k)'
          PROVE  sessions'[k] = "terminating" /\ \A u \in Caller : k \in handler'[u].plans => u = v
      <4>1. ~Renewed(k)
        BY <2>1, <3>2 DEF Renewed, inviteVars
      <4>2. CASE v = w
        BY <2>1, <2>4, <2>5, <3>2, <4>1, <4>2 DEF IInv, OneOwner
      <4>3. CASE v # w
        BY <1>h, <2>1, <2>4, <2>5, <3>2, <4>1, <4>3 DEF IInv, OneOwner
      <4> QED
        BY <4>2, <4>3
    <3> QED
      BY <3>1, <3>2 DEF OneOwner
  <2>8. HandlersFit'
    BY <1>h, <2>1, <2>5 DEF IInv, HandlersFit, Final
  <2>9. InviteFits'
    <3>1. \A v \in Caller : handler'[v].what = handler[v].what
      BY <2>5
    <3>2. handler'[w].at = "plans" /\ handler'[w].tag = handler[w].tag
      BY <2>5
    <3>3. \A v \in Caller : handler[v].what \in Final => v = w
      BY <2>1 DEF IInv, InviteFits, Final
    <3> QED
      BY <2>1, <2>2, <2>5, <3>1, <3>2, <3>3 DEF IInv, InviteFits, inviteVars
  <2>10. RequestsFit'
    BY <1>a, <1>t, <1>h, <2>1, <2>2, <2>3, <2>4, <2>5 DEF IInv, RequestsFit, InDialog,
       inviteVars
  <2>11. EndedIsEnded'
    <3> SUFFICES ASSUME settled # "lost" PROVE EndedIsEnded'
      BY <2>1 DEF EndedIsEnded
    <3>a. settled # "lost"
      OBVIOUS
    <3>1. \A k \in Key : Live(k)' => Live(k) \/ (k = winner /\ handler[w].what = "2xx" /\ Live(None))
      BY <2>2, <2>4 DEF Live
    <3>2. ~Live(None)'
      BY <2>1, <2>4, <1>a, <1>n DEF Live
    <3>3. byes # {} => ~Live(None)
      BY <3>a DEF IInv, EndedIsEnded, RequestsFit
    <3>t. target \in {None, winner} /\ target' = target
      BY <2>1 DEF IInv, InviteFits, inviteVars
    <3>4. canceled => ~Live(target)'
      BY <2>1, <3>a, <3>1, <3>2, <3>t, <1>a, <1>t DEF IInv, EndedIsEnded, inviteVars
    <3>5. byes # {} /\ ~late => ~Live(winner)'
      BY <2>1, <3>a, <3>1, <3>3, <1>t DEF IInv, EndedIsEnded, inviteVars
    <3>6. byes' = byes /\ late' = late /\ canceled' = canceled
      BY <2>1 DEF inviteVars
    <3> QED
      BY <3>2, <3>4, <3>5, <3>6 DEF EndedIsEnded
  <2>12. EstablishedIsWinner'
    <3> SUFFICES ASSUME NEW k \in Key, sessions'[k] = "established"
                 PROVE  k = winner /\ k # None /\ (byes = {} \/ settled = "lost")
      BY <2>1 DEF EstablishedIsWinner
    <3>1. CASE sessions[k] = "established"
      BY <3>1 DEF IInv, EstablishedIsWinner
    <3>2. CASE sessions[k] # "established"
      <4>1. k = winner /\ winner # None /\ ~late /\ (Live(k) \/ Live(None))
        BY <2>2, <2>4, <3>2
      <4>2. byes # {} /\ settled # "lost" => ~Live(None) /\ ~Live(winner)
        BY <4>1 DEF IInv, EndedIsEnded, RequestsFit
      <4> QED
        BY <4>1, <4>2
    <3> QED
      BY <3>1, <3>2
  <2>13. NothingEarlyRemains'
    <3>1. \A k \in Key : sessions'[k] # "early"
      BY <2>4
    <3> QED
      BY <2>1, <2>12, <3>1 DEF NothingEarlyRemains, EstablishedIsWinner, Live
  <2> QED
    BY <2>6, <2>7, <2>8, <2>9, <2>10, <2>11, <2>12, <2>13 DEF IInv
\* terminateMediaForRequest.
<1>10. ASSUME NEW w \in Caller, NEW what \in {"CANCEL", "BYE"}, NEW t \in Key, handler[w].at = "idle",
             Terminate(w, what, t), UNCHANGED <<invite, inviteVars, winner>>,
             looped' \subseteq looped, canceled' \in BOOLEAN, canceled => canceled',
             byes' \in SUBSET {"caller", "callee"}, byes \subseteq byes',
             what = "CANCEL" => t = target /\ canceled' /\ UNCHANGED byes /\ (w # Ue => canceled),
             what = "BYE" => t = winner /\ byes' # {} /\ InDialog /\ UNCHANGED canceled
      PROVE  IInv'
  <2>1. /\ handler[w].at = "idle" /\ handler[w].plans = {} /\ handler[w].what = None
        /\ UNCHANGED <<call, settled, invite, inviteVars, winner>> /\ looped' \subseteq looped
    BY <1>10 DEF Terminate, IInv, HandlersFit
  <2>2. PICK found \in Key : /\ found = Find(t) /\ found \in {t, None}
                             /\ sessions[t] # "none" => found = t
    BY <1>a DEF Find
  <2>3. /\ ToTerminate(t) \in SUBSET Key
        /\ \A k \in Key : k \in ToTerminate(t) <=> k = found /\ sessions[k] \in {"early", "established"}
    <3>1. ToTerminate(t) = IF Live(found) THEN {found} ELSE {}
      BY <2>2 DEF ToTerminate
    <3> QED
      BY <3>1, <2>2 DEF Live
  <2>4. /\ sessions' \in Table
        /\ \A k \in Key : sessions'[k] = IF k \in ToTerminate(t) THEN "terminating" ELSE sessions[k]
    BY <1>10, <2>3, <1>t, MarkedTable DEF Terminate
  <2>5. /\ handler' \in [Caller -> Handler] /\ \A v \in Caller \ {w} : handler'[v] = handler[v]
        /\ handler'[w].at = "plans" /\ handler'[w].what = what /\ handler'[w].tag = t
        /\ handler'[w].plans = ToTerminate(t)
    <3> DEFINE r == [Quiet EXCEPT !.at = "plans", !.what = what, !.tag = t, !.plans = ToTerminate(t)]
    <3>1. /\ r \in Handler
          /\ r.at = "plans" /\ r.what = what /\ r.tag = t /\ r.plans = ToTerminate(t)
      BY <1>a, <1>h, <2>3 DEF Handler, Quiet
    <3>2. handler' = [handler EXCEPT ![w] = r]
      BY <1>10 DEF Terminate
    <3> HIDE DEF r
    <3> QED
      BY <3>1, <3>2, <1>t
  <2>6. w # Ue /\ what = "CANCEL" /\ settled # "lost" => ToTerminate(t) = {}
    BY <1>10, <2>2, <2>3 DEF Live, IInv, EndedIsEnded
  <2>7. TypeOK'
    BY <1>a, <1>t, <1>h, <2>1, <2>2, <2>3, <2>4, <2>5, <2>6, <1>10 DEF IInv, TypeOK,
       CallTypeOK, Table, inviteVars
  <2>8. OneOwner'
    BY <1>a, <1>t, <1>h, <2>1, <2>2, <2>3, <2>4, <2>5, <2>6, <1>10 DEF IInv, OneOwner, Live,
       Renewed, inviteVars
  <2>9. HandlersFit'
    BY <1>a, <1>t, <1>h, <2>1, <2>2, <2>3, <2>4, <2>5, <2>6, <1>10 DEF IInv, HandlersFit, Final
  <2>10. InviteFits'
    BY <1>a, <1>t, <1>h, <2>1, <2>2, <2>3, <2>4, <2>5, <2>6, <1>10 DEF IInv, InviteFits, Final,
       inviteVars
  <2>11. RequestsFit'
    <3>1. /\ byes' # {} => InDialog'
          /\ late' => "callee" \in byes' /\ target' # None
          /\ "BYE" \in looped' => byes' # {}
          /\ "CANCEL" \in looped' => canceled' /\ invite' = "open"
      BY <1>10, <2>1 DEF IInv, RequestsFit, InDialog, inviteVars
    <3>2. \A v \in Caller : handler'[v].what = "BYE" => byes' # {}
      BY <1>10, <2>5 DEF IInv, RequestsFit
    <3>3. handler'[Ue].what = "CANCEL" => canceled'
      BY <1>10, <1>a, <2>5 DEF IInv, RequestsFit
    <3>4. what = "CANCEL" /\ target = None => ToTerminate(t) \subseteq {None}
      BY <1>10, <2>2, <2>3
    <3>5. \A v \in Caller : handler'[v].what = "CANCEL" =>
             /\ target' = None => handler'[v].plans \subseteq {None}
             /\ v # Ue /\ settled' # "lost" => handler'[v].plans = {}
      BY <3>4, <2>1, <2>5, <2>6 DEF IInv, RequestsFit, inviteVars
    <3> QED
      BY <3>1, <3>2, <3>3, <3>5 DEF RequestsFit
  <2>12. EndedIsEnded'
    <3> SUFFICES ASSUME settled # "lost" PROVE EndedIsEnded'
      BY <2>1 DEF EndedIsEnded
    <3>1. \A k \in Key : Live(k)' => Live(k)
      BY <2>4 DEF Live
    <3>2. ~Live(t)'
      BY <2>2, <2>3, <2>4 DEF Live
    <3>3. canceled' => ~Live(target)' /\ ~Live(None)'
      BY <1>10, <1>a, <2>1, <3>1, <3>2 DEF IInv, EndedIsEnded, InDialog, TypeOK, inviteVars
    <3>4. /\ InDialog' => ~Live(None)'
          /\ \A v \in Caller : handler'[v].what = "2xx" /\ handler'[v].at \in {"plans", "delete"}
                => ~Live(None)'
      BY <1>10, <1>a, <2>1, <2>5, <3>1 DEF IInv, EndedIsEnded, InDialog, inviteVars
    <3>5. byes' # {} /\ ~late' => ~Live(winner)'
      BY <1>10, <1>a, <1>t, <2>1, <3>1, <3>2 DEF IInv, EndedIsEnded, InDialog, inviteVars
    <3> QED
      BY <3>3, <3>4, <3>5 DEF EndedIsEnded
  <2>13. EstablishedIsWinner'
    BY <1>a, <1>t, <1>h, <2>1, <2>2, <2>3, <2>4, <2>5, <2>6, <1>10 DEF IInv,
       EstablishedIsWinner
  <2>14. NothingEarlyRemains'
    BY <1>a, <1>t, <1>h, <2>1, <2>2, <2>3, <2>4, <2>5, <2>6, <1>10, <2>13 DEF IInv,
       NothingEarlyRemains, EstablishedIsWinner, Live
  <2> QED
    BY <2>7, <2>8, <2>9, <2>10, <2>11, <2>12, <2>13, <2>14 DEF IInv
\* The deletions, and the end of a handler.
<1>11. ASSUME NEW w \in Caller, NEW k \in handler[w].plans, CallDelete(w, k) PROVE IInv'
  <2>1. /\ UNCHANGED <<sessions, invite, inviteVars, canceled, winner, byes, looped, settled>>
        /\ handler[w].at = "plans" /\ k \in Key
    BY <1>11, <1>h DEF CallDelete, callVars
  <2>2. /\ call' \in [Caller -> {"idle", "called", "ok", "error"}]
        /\ \A v \in Caller \ {w} : call'[v] = call[v]
        /\ call'[w] # "idle"
    BY <1>11, <1>t DEF CallDelete, Call
  <2>3. /\ handler' \in [Caller -> Handler] /\ \A v \in Caller \ {w} : handler'[v] = handler[v]
        /\ handler'[w].at = "delete" /\ handler'[w].key = k
        /\ handler'[w].plans = handler[w].plans
        /\ handler'[w].what = handler[w].what /\ handler'[w].tag = handler[w].tag
    <3> DEFINE r == [handler[w] EXCEPT !.at = "delete", !.key = k]
    <3>1. /\ r \in Handler
          /\ r.at = "delete" /\ r.key = k /\ r.plans = handler[w].plans
          /\ r.what = handler[w].what /\ r.tag = handler[w].tag
      BY <1>a, <1>h DEF Handler, Quiet
    <3>2. handler' = [handler EXCEPT ![w] = r]
      BY <1>11 DEF CallDelete
    <3> HIDE DEF r
    <3> QED
      BY <3>1, <3>2, <1>t
  <2>4. TypeOK'
    BY <1>a, <1>t, <1>h, <2>1, <2>2, <2>3 DEF IInv, TypeOK, CallTypeOK, Table, inviteVars
  <2>5. OneOwner'
    BY <1>a, <1>t, <1>h, <2>1, <2>2, <2>3 DEF IInv, OneOwner, Live, Renewed, inviteVars
  <2>6. HandlersFit'
    BY <1>a, <1>t, <1>h, <2>1, <2>2, <2>3 DEF IInv, HandlersFit, Final
  <2>7. InviteFits'
    BY <1>a, <1>t, <1>h, <2>1, <2>2, <2>3 DEF IInv, InviteFits, Final, inviteVars
  <2>8. RequestsFit'
    BY <1>a, <1>t, <1>h, <2>1, <2>2, <2>3 DEF IInv, RequestsFit, InDialog, inviteVars
  <2>9. EndedIsEnded'
    BY <1>a, <1>t, <1>h, <2>1, <2>2, <2>3 DEF IInv, EndedIsEnded, Live, InDialog, inviteVars
  <2>10. EstablishedIsWinner'
    BY <1>a, <1>t, <1>h, <2>1, <2>2, <2>3 DEF IInv, EstablishedIsWinner
  <2>11. NothingEarlyRemains'
    BY <1>a, <1>t, <1>h, <2>1, <2>2, <2>3, <2>10 DEF IInv, NothingEarlyRemains,
       EstablishedIsWinner, Live
  <2> QED
    BY <2>4, <2>5, <2>6, <2>7, <2>8, <2>9, <2>10, <2>11 DEF IInv
<1>12. ASSUME NEW w \in Caller, DeleteReturned(w) PROVE IInv'
  <2>1. /\ UNCHANGED <<invite, inviteVars, canceled, winner, byes, looped, settled>>
        /\ handler[w].at = "delete"
        /\ handler[w].key \in handler[w].plans /\ handler[w].key \in Key
    BY <1>12, <1>h DEF DeleteReturned, callVars, IInv, HandlersFit
  <2>2. /\ call' \in [Caller -> {"idle", "called", "ok", "error"}]
        /\ \A v \in Caller \ {w} : call'[v] = call[v]
        /\ call'[w] = "idle"
    BY <1>12, <1>t DEF DeleteReturned, Return
  <2>3. /\ sessions' \in Table
        /\ \A k \in Key : sessions'[k] = IF k = handler[w].key /\ sessions[k] = "terminating"
                                         THEN "none" ELSE sessions[k]
    BY <1>12, <2>1, <1>t, ErasedTable DEF DeleteReturned
  <2>4. /\ handler' \in [Caller -> Handler] /\ \A v \in Caller \ {w} : handler'[v] = handler[v]
        /\ handler'[w].at = "plans" /\ handler'[w].plans = handler[w].plans \ {handler[w].key}
        /\ handler'[w].what = handler[w].what /\ handler'[w].tag = handler[w].tag
    <3> DEFINE r == [handler[w] EXCEPT !.at = "plans", !.plans = handler[w].plans \ {handler[w].key},
                                     !.key = None]
    <3>1. /\ r \in Handler
          /\ r.at = "plans" /\ r.plans = handler[w].plans \ {handler[w].key}
          /\ r.what = handler[w].what /\ r.tag = handler[w].tag
      BY <1>a, <1>h DEF Handler, Quiet
    <3>2. handler' = [handler EXCEPT ![w] = r]
      BY <1>12 DEF DeleteReturned
    <3> HIDE DEF r
    <3> QED
      BY <3>1, <3>2, <1>t
  <2>5. TypeOK'
    BY <1>a, <1>t, <1>h, <2>1, <2>2, <2>3, <2>4 DEF IInv, TypeOK, CallTypeOK, Table, inviteVars
  <2>6. OneOwner'
    BY <1>a, <1>t, <1>h, <2>1, <2>2, <2>3, <2>4 DEF IInv, OneOwner, Live, Renewed, inviteVars
  <2>7. HandlersFit'
    BY <1>a, <1>t, <1>h, <2>1, <2>2, <2>3, <2>4 DEF IInv, HandlersFit, Final
  <2>8. InviteFits'
    BY <1>a, <1>t, <1>h, <2>1, <2>2, <2>3, <2>4 DEF IInv, InviteFits, Final, inviteVars
  <2>9. RequestsFit'
    BY <1>a, <1>t, <1>h, <2>1, <2>2, <2>3, <2>4 DEF IInv, RequestsFit, InDialog, inviteVars
  <2>10. EndedIsEnded'
    <3>1. \A k \in Key : Live(k)' => Live(k)
      BY <2>3 DEF Live
    <3> QED
      BY <2>1, <2>4, <3>1, <1>a, <1>t DEF IInv, EndedIsEnded, TypeOK, InDialog, inviteVars
  <2>11. EstablishedIsWinner'
    BY <1>a, <1>t, <1>h, <2>1, <2>2, <2>3, <2>4 DEF IInv, EstablishedIsWinner
  <2>12. NothingEarlyRemains'
    BY <1>a, <1>t, <1>h, <2>1, <2>2, <2>3, <2>4, <2>11 DEF IInv, NothingEarlyRemains,
       EstablishedIsWinner, Live
  <2> QED
    BY <2>5, <2>6, <2>7, <2>8, <2>9, <2>10, <2>11, <2>12 DEF IInv
<1>13. ASSUME NEW w \in Caller, Forward(w) PROVE IInv'
  <2>1. /\ UNCHANGED <<call, sessions, inviteVars, canceled, winner, byes, settled>>
        /\ handler[w].at = "plans" /\ handler[w].plans = {}
    BY <1>13 DEF Forward
  <2>2. handler' = [handler EXCEPT ![w] = Quiet]
    BY <1>13 DEF Forward
  <2>3. /\ handler' \in [Caller -> Handler] /\ \A v \in Caller \ {w} : handler'[v] = handler[v]
        /\ handler'[w].at = "idle" /\ handler'[w].what = None /\ handler'[w].plans = {}
    BY <2>2, <1>a, <1>t DEF Quiet, Handler
  <2>4. /\ invite \in {"none", "open", "closing", "up", "failed"}
        /\ invite' \in {"none", "open", "closing", "up", "failed"}
        /\ handler[w].what = "INVITE" =>
              invite' \in {"open", IF target = None THEN "failed" ELSE "up"}
        /\ handler[w].what = "2xx" => invite' = "up"
        /\ handler[w].what = "failure" => invite' = IF target = None THEN "failed" ELSE "up"
        /\ handler[w].what \notin {"INVITE", "2xx", "failure"} => invite' = invite
    <3>1. invite' \in CASE handler[w].what = "INVITE"  -> {"open", IF target = None THEN "failed" ELSE "up"}
                         [] handler[w].what = "2xx"     -> {"up"}
                         [] handler[w].what = "failure" -> {IF target = None THEN "failed" ELSE "up"}
                         [] OTHER                       -> {invite}
      BY <1>13 DEF Forward
    <3> QED
      BY <3>1 DEF IInv, TypeOK
  <2>5. /\ looped' \in SUBSET {"CANCEL", "BYE"} /\ looped' \subseteq looped \cup {handler[w].what}
        /\ "BYE" \in looped' /\ "BYE" \notin looped => handler[w].what = "BYE"
        /\ "CANCEL" \in looped' /\ "CANCEL" \notin looped =>
              w = Ue /\ handler[w].what = "CANCEL" /\ invite = "open"
    BY <1>13 DEF Forward, IInv, TypeOK
  <2>6. TypeOK'
    BY <1>a, <1>t, <1>h, <2>1, <2>2, <2>3, <2>4, <2>5 DEF IInv, TypeOK, CallTypeOK, Table,
       inviteVars
  <2>7. OneOwner'
    BY <1>a, <1>t, <1>h, <2>1, <2>2, <2>3, <2>4, <2>5 DEF IInv, OneOwner, Live, Renewed,
       inviteVars
  <2>8. HandlersFit'
    BY <1>a, <1>t, <1>h, <2>1, <2>2, <2>3, <2>4, <2>5 DEF IInv, HandlersFit, Final
  <2>9. InviteFits'
    BY <1>a, <1>t, <1>h, <2>1, <2>2, <2>3, <2>4, <2>5 DEF IInv, InviteFits, Final, inviteVars
  <2>10. RequestsFit'
    BY <1>a, <1>t, <1>h, <2>1, <2>2, <2>3, <2>4, <2>5 DEF IInv, RequestsFit, InDialog,
       inviteVars, InviteFits, Final
  <2>11. EndedIsEnded'
    BY <1>a, <1>t, <1>h, <2>1, <2>2, <2>3, <2>4, <2>5 DEF IInv, EndedIsEnded, Live, InDialog,
       inviteVars
  <2>12. EstablishedIsWinner'
    BY <1>a, <1>t, <1>h, <2>1, <2>2, <2>3, <2>4, <2>5 DEF IInv, EstablishedIsWinner
  <2>13. NothingEarlyRemains'
    BY <1>a, <1>t, <1>h, <2>1, <2>2, <2>3, <2>4, <2>5, <2>12 DEF IInv, NothingEarlyRemains,
       EstablishedIsWinner, Live
  <2> QED
    BY <2>6, <2>7, <2>8, <2>9, <2>10, <2>11, <2>12, <2>13 DEF IInv
<1>14. ASSUME NEW w \in Caller, OnCancel(w) PROVE IInv'
  BY <1>14, <1>10, <1>a DEF OnCancel, IInv, TypeOK, inviteVars
<1>15. ASSUME NEW w \in Caller, OnCallerBye(w) PROVE IInv'
  BY <1>15, <1>10, <1>t DEF OnCallerBye, IInv, TypeOK
<1>16. ASSUME NEW w \in Caller, OnCalleeBye(w) PROVE IInv'
  BY <1>16, <1>10, <1>t DEF OnCalleeBye, IInv, TypeOK
<1>17. ASSUME NEW w \in Caller, NEW what \in looped, OnLooped(w, what) PROVE IInv'
  <2>1. /\ what \in {"CANCEL", "BYE"}
        /\ what = "BYE" => byes # {} /\ InDialog
        /\ what = "CANCEL" => canceled
    BY DEF IInv, TypeOK, RequestsFit
  <2>2. CASE what = "BYE"
    BY <2>1, <2>2, <1>17, <1>10, <1>a, <1>t DEF OnLooped, IInv, TypeOK, inviteVars
  <2>3. CASE what = "CANCEL"
    BY <2>1, <2>3, <1>17, <1>10, <1>a, <1>t DEF OnLooped, IInv, TypeOK, inviteVars
  <2> QED
    BY <2>1, <2>2, <2>3
<1> QED
  BY <1>1, <1>2, <1>3, <1>4, <1>5, <1>6, <1>7, <1>8, <1>9, <1>10, <1>11, <1>12, <1>13, <1>14,
     <1>15, <1>16, <1>17 DEF Next, Arrival, HandlerStep

\* All parts of the invariant together, as none of them is inductive alone.
THEOREM InductiveInvariant == Spec => []IInv
<1> QED
  BY InitInvariant, StepInvariant, PTL DEF Spec

\* The sections of MediaSessionManager: a session is terminating just as long as one
\* handler, and one only, has its deletion to do.
THEOREM TerminationHasOneOwner == Spec => []MediaTableConsistent
<1>1. IInv => MediaTableConsistent
  <2> SUFFICES ASSUME IInv, NEW k \in Key
               PROVE  LET owners == {w \in Caller : k \in handler[w].plans} IN
                      /\ sessions[k] = "terminating" => owners # {}
                      /\ ~Renewed(k) =>
                            Cardinality(owners) = (IF sessions[k] = "terminating" THEN 1 ELSE 0)
    BY DEF IInv, MediaTableConsistent, TerminationOwned
  <2> DEFINE owners == {w \in Caller : k \in handler[w].plans}
  <2>0. sessions[k] = "terminating" => owners # {}
    BY DEF IInv, OneOwner
  <2> SUFFICES ASSUME ~Renewed(k)
               PROVE  Cardinality(owners) = (IF sessions[k] = "terminating" THEN 1 ELSE 0)
    BY <2>0
  <2>1. CASE sessions[k] = "terminating"
    <3>1. PICK w \in Caller : owners = {w}
      BY <2>1 DEF IInv, OneOwner
    <3> QED
      BY <2>1, <3>1, FS_Singleton
  <2>2. CASE sessions[k] # "terminating"
    <3>1. owners = {}
      BY <2>2 DEF IInv, OneOwner
    <3> QED
      BY <2>2, <3>1, FS_EmptySet
  <2> QED
    BY <2>1, <2>2
<1> QED
  BY <1>1, InductiveInvariant, PTL

\* markInviteFinalSuccess, markInviteFinalFailure, ensureInviteResponseSessionLocked:
\* what is left after a final response is the dialog of the 2xx, until its BYE.
THEOREM FinalResponseCleansUp == Spec => []NothingEarlyRemains
<1>1. IInv => NothingEarlyRemains
  BY DEF IInv
<1> QED
  BY <1>1, InductiveInvariant, PTL

\* onInvite, terminateMediaForRequest and the sections of the table: an established
\* dialog loses its session by a BYE, or to the caller's INVITE within the dialog and a
\* CANCEL for that one; not to the CANCEL that crossed its 2xx, nor to a response.
THEOREM EstablishedDialogKept == Spec => EstablishedKept
<1> DEFINE Step == \A t \in Tag : sessions[t] = "established" /\ sessions'[t] # "established" 
                       => byes' # {} \/ (t = target' /\ (invites' # invites \/ canceled'))
<1>1. IInv /\ [Next]_vars => [Step]_vars
  <2> SUFFICES ASSUME IInv, [Next]_vars,
                      NEW t \in Tag, sessions[t] = "established", sessions'[t] # "established",
                      byes' = {}, ~(t = target' /\ (invites' # invites \/ canceled'))
               PROVE  FALSE
    OBVIOUS
  <2>a. t \in Key /\ None \in Key /\ t # None /\ sessions \in Table
    BY MediaAssumption DEF Key, IInv, TypeOK, Table
  <2>n. sessions[None] # "established"
    BY <2>a DEF IInv, EstablishedIsWinner
  <2>1. CASE UNCHANGED sessions
    BY <2>1
  <2>2. ASSUME NEW w \in Caller, OnInvite(w) PROVE FALSE
    <3>1. target' \in Key /\ t = target'
      BY <2>2, <2>a, CreatedTable DEF OnInvite, IInv, TypeOK
    <3>2. invites' # invites
      BY <2>2 DEF OnInvite, IInv, TypeOK
    <3> QED
      BY <3>1, <3>2
  <2>3. ASSUME NEW w \in Caller, BeginResponse(w) PROVE FALSE
    BY <2>3, <2>a, EnsuredTable DEF BeginResponse, IInv, HandlersFit, Key
  <2>4. ASSUME NEW w \in Caller, AnswerReturned(w) PROVE FALSE
    <3>1. handler[w].tag \in Key
      BY <2>4 DEF AnswerReturned, IInv, HandlersFit, Key
    <3>2. \A final \in BOOLEAN, k \in Key : Commit(handler[w].tag, final)[k] =
             IF k = handler[w].tag /\ Live(handler[w].tag) /\ final
             THEN "established" ELSE sessions[k]
      BY <2>a, <3>1, CommittedTable
    <3>3. Commit(handler[w].tag, handler[w].what = "2xx")[t] = "established"
      BY <3>2, <2>a
    <3> QED
      BY <2>4, <3>3 DEF AnswerReturned
  <2>5. ASSUME NEW w \in Caller, Settle(w) PROVE FALSE
    <3>1. handler[w].tag \in Tag /\ handler[w].what \in {"2xx", "failure"}
      BY <2>5 DEF Settle, IInv, HandlersFit, Final
    <3> QED
      BY <2>5, <2>a, <2>n, <3>1, SettledTable DEF Settle
  <2>6. ASSUME NEW w \in Caller, NEW what, Terminate(w, what, target), target' = target, canceled'
        PROVE  FALSE
    <3>1. ToTerminate(target) \in SUBSET {target, None} /\ target \in Key
      BY DEF ToTerminate, Find, IInv, TypeOK
    <3>2. t \in ToTerminate(target)
      BY <2>6, <2>a, <3>1, MarkedTable DEF Terminate
    <3> QED
      BY <2>6, <2>a, <3>1, <3>2
  <2>7. ASSUME NEW w \in Caller, DeleteReturned(w) PROVE FALSE
    BY <2>7, <2>a, ErasedTable DEF DeleteReturned, IInv, TypeOK, Handler
  <2>8. ASSUME NEW w \in Caller, NEW what \in looped, OnLooped(w, what) PROVE FALSE
    <3>1. /\ what \in {"CANCEL", "BYE"}
          /\ what = "CANCEL" => canceled
          /\ what = "BYE" => byes # {}
      BY DEF IInv, TypeOK, RequestsFit
    <3>2. UNCHANGED <<inviteVars, canceled, byes>>
      BY <2>8 DEF OnLooped
    <3>3. what = "CANCEL" /\ Terminate(w, what, target)
      BY <2>8, <3>1, <3>2 DEF OnLooped
    <3> QED
      BY <2>6, <3>1, <3>2, <3>3 DEF inviteVars
  <2>9. ASSUME NEW w \in Caller, Arrival(w) PROVE FALSE
    BY <2>1, <2>2, <2>6, <2>8, <2>9 DEF Arrival, OnProvisional, OnFinal, OnCancel, OnCallerBye,
                                        OnCalleeBye, inviteVars
  <2>10. ASSUME NEW w \in Caller, HandlerStep(w) PROVE FALSE
    BY <2>1, <2>3, <2>4, <2>5, <2>7, <2>10 DEF HandlerStep, OfferReturned, CallDelete, Forward
  <2> QED
    BY <2>1, <2>9, <2>10 DEF Next, vars, mediaVars
<1> QED
  BY <1>1, InductiveInvariant, PTL DEF Spec, EstablishedKept

-----------------------------------------------------------------------------
(* The rtpengine client. *)

\* Who is in sendCommand, or about to return from it.
Engaged(c) == thread[c].at \notin {"idle", "entered"}

\* A command or an answer on its way is of the thread with its cookie, and of
\* nobody once that thread has returned.
MessagesFit ==
    \A m \in wire \cup answers, c \in Caller :
        /\ m.of = c => thread[c].cookie = m.cookie /\ thread[c].at \in {"wait", "expired", "done"}
        /\ thread[c].cookie = m.cookie => m.of = c

\* What the receiver is about to hand to a thread is meant for it.
HeldFit ==
    \A h \in receiver.holds, c \in Caller : h.to = c => h.result.of = c /\ Engaged(c)

\* From the moment its request is listed, a command without a result is in the
\* table or with the receiver.
ListedOrHeld ==
    \A c \in Caller :
        thread[c].at \in {"send", "wait"} /\ thread[c].result = None
            => (\E p \in pending : p.of = c) \/ (\E h \in receiver.holds : h.to = c)

\* The receiver takes nothing up before it has completed what it took up last.
HoldsOnlyAtWork == receiver.at \in {"off", "running", "dead"} => receiver.holds = {}

\* Who is completed, or about to be, is not in the table any more.
CompletedIsTaken ==
    \A p \in pending, c \in Caller :
        p.of = c => thread[c].result = None /\ \A h \in receiver.holds : h.to # c

ClientInv ==
    /\ ClientTypeOK
    /\ PendingIsAwaited
    /\ MessagesFit
    /\ HeldFit
    /\ ListedOrHeld
    /\ HoldsOnlyAtWork
    /\ CompletedIsTaken
    /\ OwnAnswerOnly

\* generateCookie: a number nobody uses, if there is one.
LEMMA CookieIsFresh ==
    ASSUME Cookie \ InUse # {}
    PROVE  /\ generateCookie \in Cookie
           /\ \A c \in Caller : thread[c].cookie # generateCookie
           /\ \A m \in pending \cup wire \cup answers : m.cookie # generateCookie
BY DEF generateCookie, InUse, CookiesOf

LEMMA ClientInitInv == ClientInit => ClientInv
BY ClientAssumption DEF ClientInit, ClientInv, ClientTypeOK, PendingIsAwaited, MessagesFit, HeldFit,
    ListedOrHeld, HoldsOnlyAtWork, CompletedIsTaken, OwnAnswerOnly, NotCalling

\* Every step keeps the invariant.
LEMMA ClientStepInv == ClientInv /\ [ClientNext]_clientVars => ClientInv'
<1> SUFFICES ASSUME ClientInv, [ClientNext]_clientVars PROVE ClientInv'
  OBVIOUS
<1> None \notin Cookie /\ None \notin Outcome /\ None \notin Caller
  BY ClientAssumption
<1> USE DEF ClientInv, Command, Answer, Outcome, Owner
<1>1. CASE UNCHANGED clientVars
  BY <1>1 DEF clientVars, ClientTypeOK, PendingIsAwaited, MessagesFit, HeldFit, Engaged, ListedOrHeld,
              HoldsOnlyAtWork, CompletedIsTaken, OwnAnswerOnly
<1>2. ASSUME NEW c \in Caller, EnterCall(c) PROVE ClientInv'
  <2> USE <1>2 DEF EnterCall
  <2>1. ClientTypeOK'
    BY DEF ClientTypeOK
  <2>2. PendingIsAwaited'
    BY DEF ClientTypeOK, PendingIsAwaited
  <2>3. MessagesFit'
    BY DEF ClientTypeOK, MessagesFit
  <2>4. HeldFit'
    BY DEF ClientTypeOK, HeldFit, Engaged
  <2>5. ListedOrHeld'
    BY DEF ClientTypeOK, ListedOrHeld
  <2>6. HoldsOnlyAtWork'
    BY DEF ClientTypeOK, HoldsOnlyAtWork
  <2>7. CompletedIsTaken'
    BY DEF ClientTypeOK, CompletedIsTaken
  <2>8. OwnAnswerOnly'
    BY DEF ClientTypeOK, OwnAnswerOnly, HeldFit
  <2> QED
    BY <2>1, <2>2, <2>3, <2>4, <2>5, <2>6, <2>7, <2>8
<1>3. ASSUME NEW c \in Caller, Register(c) PROVE ClientInv'
  <2> USE <1>3 DEF Register
  <2>1. /\ generateCookie \in Cookie /\ \A d \in Caller : thread[d].cookie # generateCookie
        /\ \A m \in pending \cup wire \cup answers : m.cookie # generateCookie
    BY CookieIsFresh
  <2>2. pending' = pending \cup {[cookie |-> generateCookie, of |-> c]}
    BY <2>1 DEF Entered, Listed
  <2>3. ClientTypeOK'
    BY <2>1, <2>2 DEF ClientTypeOK
  <2>4. PendingIsAwaited'
    BY <2>1, <2>2 DEF ClientTypeOK, PendingIsAwaited
  <2>5. MessagesFit'
    BY <2>1, <2>2 DEF ClientTypeOK, MessagesFit
  <2>6. HeldFit'
    BY <2>1, <2>2 DEF ClientTypeOK, HeldFit, Engaged
  <2>7. ListedOrHeld'
    <3>1. ASSUME NEW d \in Caller \ {c}, thread'[d].at \in {"send", "wait"}, thread'[d].result = None
          PROVE  (\E p \in pending : p.of = d) \/ (\E h \in receiver.holds : h.to = d)
      BY <3>1 DEF ClientTypeOK, ListedOrHeld
    <3>2. pending \subseteq pending' /\ receiver'.holds = receiver.holds
      BY <2>2 DEF ClientTypeOK
    <3>3. \E p \in pending' : p.of = c
      <4>1. [cookie |-> generateCookie, of |-> c] \in pending'
        BY <2>2
      <4> QED
        BY <4>1
    <3> QED
      BY <3>1, <3>2, <3>3 DEF ListedOrHeld
  <2>8. HoldsOnlyAtWork'
    BY DEF ClientTypeOK, HoldsOnlyAtWork
  <2>9. CompletedIsTaken'
    BY <2>1, <2>2 DEF ClientTypeOK, CompletedIsTaken, HeldFit, Engaged
  <2>10. OwnAnswerOnly'
    BY <2>1, <2>2 DEF ClientTypeOK, OwnAnswerOnly, HeldFit
  <2> QED
    BY <2>3, <2>4, <2>5, <2>6, <2>7, <2>8, <2>9, <2>10
<1>4. ASSUME NEW c \in Caller, NoReceiver(c) PROVE ClientInv'
  <2> USE <1>4 DEF NoReceiver, Failed, NotCalling
  <2>1. ClientTypeOK'
    BY DEF ClientTypeOK
  <2>2. PendingIsAwaited'
    BY DEF ClientTypeOK, PendingIsAwaited
  <2>3. MessagesFit'
    BY DEF ClientTypeOK, MessagesFit
  <2>4. HeldFit'
    BY DEF ClientTypeOK, HeldFit, Engaged
  <2>5. ListedOrHeld'
    BY DEF ClientTypeOK, ListedOrHeld
  <2>6. HoldsOnlyAtWork'
    BY DEF ClientTypeOK, HoldsOnlyAtWork
  <2>7. CompletedIsTaken'
    BY DEF ClientTypeOK, CompletedIsTaken
  <2>8. OwnAnswerOnly'
    BY DEF ClientTypeOK, OwnAnswerOnly, HeldFit
  <2> QED
    BY <2>1, <2>2, <2>3, <2>4, <2>5, <2>6, <2>7, <2>8
<1>5. ASSUME NEW c \in Caller, Send(c) PROVE ClientInv'
  <2> USE <1>5 DEF Send
  <2>1. ClientTypeOK'
    BY DEF ClientTypeOK
  <2>2. PendingIsAwaited'
    BY DEF ClientTypeOK, PendingIsAwaited
  <2>3. MessagesFit'
    BY DEF ClientTypeOK, MessagesFit
  <2>4. HeldFit'
    BY DEF ClientTypeOK, HeldFit, Engaged
  <2>5. ListedOrHeld'
    BY DEF ClientTypeOK, ListedOrHeld
  <2>6. HoldsOnlyAtWork'
    BY DEF ClientTypeOK, HoldsOnlyAtWork
  <2>7. CompletedIsTaken'
    BY DEF ClientTypeOK, CompletedIsTaken
  <2>8. OwnAnswerOnly'
    BY DEF ClientTypeOK, OwnAnswerOnly, HeldFit
  <2> QED
    BY <2>1, <2>2, <2>3, <2>4, <2>5, <2>6, <2>7, <2>8
<1>6. ASSUME NEW c \in Caller, SendFails(c) PROVE ClientInv'
  <2> USE <1>6 DEF SendFails, Failed, NotCalling, Erased, Listed
  <2>1. ClientTypeOK'
    BY DEF ClientTypeOK
  <2>2. PendingIsAwaited'
    BY DEF ClientTypeOK, PendingIsAwaited
  <2>3. MessagesFit'
    BY DEF ClientTypeOK, MessagesFit
  <2>4. HeldFit'
    BY DEF ClientTypeOK, HeldFit, Engaged
  <2>5. ListedOrHeld'
    <3>1. ASSUME NEW d \in Caller, thread'[d].at \in {"send", "wait"}, thread'[d].result = None
          PROVE  (\E p \in pending' : p.of = d) \/ (\E h \in receiver.holds : h.to = d)
      <4>1. d # c /\ thread'[d] = thread[d]
        BY <3>1 DEF ClientTypeOK
      <4>2. ASSUME NEW p \in pending, p.of = d PROVE p \in pending'
        BY <4>1, <4>2 DEF ClientTypeOK, PendingIsAwaited
      <4> QED
        BY <3>1, <4>1, <4>2 DEF ListedOrHeld
    <3> QED
      BY <3>1 DEF ListedOrHeld
  <2>6. HoldsOnlyAtWork'
    BY DEF ClientTypeOK, HoldsOnlyAtWork
  <2>7. CompletedIsTaken'
    BY DEF ClientTypeOK, CompletedIsTaken
  <2>8. OwnAnswerOnly'
    BY DEF ClientTypeOK, OwnAnswerOnly, HeldFit
  <2> QED
    BY <2>1, <2>2, <2>3, <2>4, <2>5, <2>6, <2>7, <2>8
<1>7. ASSUME NEW c \in Caller, WakeUp(c) PROVE ClientInv'
  <2> USE <1>7 DEF WakeUp
  <2>1. ClientTypeOK'
    BY DEF ClientTypeOK
  <2>2. PendingIsAwaited'
    BY DEF ClientTypeOK, PendingIsAwaited, CompletedIsTaken
  <2>3. MessagesFit'
    BY DEF ClientTypeOK, MessagesFit
  <2>4. HeldFit'
    BY DEF ClientTypeOK, HeldFit, Engaged
  <2>5. ListedOrHeld'
    BY DEF ClientTypeOK, ListedOrHeld
  <2>6. HoldsOnlyAtWork'
    BY DEF ClientTypeOK, HoldsOnlyAtWork
  <2>7. CompletedIsTaken'
    BY DEF ClientTypeOK, CompletedIsTaken
  <2>8. OwnAnswerOnly'
    BY DEF ClientTypeOK, OwnAnswerOnly, HeldFit
  <2> QED
    BY <2>1, <2>2, <2>3, <2>4, <2>5, <2>6, <2>7, <2>8
<1>8. ASSUME NEW c \in Caller, TimeOut(c) PROVE ClientInv'
  <2> USE <1>8 DEF TimeOut
  <2>1. ClientTypeOK'
    BY DEF ClientTypeOK
  <2>2. PendingIsAwaited'
    BY DEF ClientTypeOK, PendingIsAwaited
  <2>3. MessagesFit'
    BY DEF ClientTypeOK, MessagesFit
  <2>4. HeldFit'
    BY DEF ClientTypeOK, HeldFit, Engaged
  <2>5. ListedOrHeld'
    BY DEF ClientTypeOK, ListedOrHeld
  <2>6. HoldsOnlyAtWork'
    BY DEF ClientTypeOK, HoldsOnlyAtWork
  <2>7. CompletedIsTaken'
    BY DEF ClientTypeOK, CompletedIsTaken
  <2>8. OwnAnswerOnly'
    BY DEF ClientTypeOK, OwnAnswerOnly, HeldFit
  <2> QED
    BY <2>1, <2>2, <2>3, <2>4, <2>5, <2>6, <2>7, <2>8
<1>9. ASSUME NEW c \in Caller, EraseExpired(c) PROVE ClientInv'
  <2>1. ClientTypeOK'
    <3> DEFINE r == [thread[c] EXCEPT !.at = "done", !.result = None]
    <3>1. /\ r.at = "done" /\ r.cookie = thread[c].cookie
          /\ r \in [at: {"idle", "entered", "send", "wait", "expired", "done"},
                   cookie: Cookie \cup {None}, result: Outcome \cup {None}]
      BY <1>9 DEF EraseExpired, ClientTypeOK
    <3>2. /\ thread' = [thread EXCEPT ![c] = r] /\ pending' \subseteq pending
          /\ UNCHANGED <<wire, answers, receiver>>
      BY <1>9 DEF EraseExpired, Erased
    <3> HIDE DEF r
    <3>3. /\ thread' \in [Caller -> [at: {"idle", "entered", "send", "wait", "expired", "done"},
                                    cookie: Cookie \cup {None}, result: Outcome \cup {None}]]
          /\ thread'[c] = r /\ \A d \in Caller \ {c} : thread'[d] = thread[d]
      BY <3>1, <3>2 DEF ClientTypeOK
    <3> QED
      BY <3>1, <3>2, <3>3 DEF ClientTypeOK
  <2> USE <1>9 DEF EraseExpired, Erased, Listed
  <2>2. PendingIsAwaited'
    BY DEF ClientTypeOK, PendingIsAwaited
  <2>3. MessagesFit'
    BY DEF ClientTypeOK, MessagesFit
  <2>4. HeldFit'
    BY DEF ClientTypeOK, HeldFit, Engaged
  <2>5. ListedOrHeld'
    <3>1. ASSUME NEW d \in Caller, thread'[d].at \in {"send", "wait"}, thread'[d].result = None
          PROVE  (\E p \in pending' : p.of = d) \/ (\E h \in receiver.holds : h.to = d)
      <4>1. d # c /\ thread'[d] = thread[d]
        BY <3>1 DEF ClientTypeOK
      <4>2. ASSUME NEW p \in pending, p.of = d PROVE p \in pending'
        BY <4>1, <4>2 DEF ClientTypeOK, PendingIsAwaited
      <4> QED
        BY <3>1, <4>1, <4>2 DEF ListedOrHeld
    <3> QED
      BY <3>1 DEF ListedOrHeld
  <2>6. HoldsOnlyAtWork'
    BY DEF ClientTypeOK, HoldsOnlyAtWork
  <2>7. CompletedIsTaken'
    BY DEF ClientTypeOK, CompletedIsTaken
  <2>8. OwnAnswerOnly'
    BY DEF ClientTypeOK, OwnAnswerOnly, HeldFit
  <2> QED
    BY <2>1, <2>2, <2>3, <2>4, <2>5, <2>6, <2>7, <2>8
<1>10. ASSUME NEW c \in Caller, LeaveCall(c) PROVE ClientInv'
  <2> USE <1>10 DEF LeaveCall, MayComeLate, Nameless, NotCalling
  <2>1. ClientTypeOK'
    BY DEF ClientTypeOK
  <2>2. PendingIsAwaited'
    BY DEF ClientTypeOK, PendingIsAwaited
  <2>3. MessagesFit'
    BY DEF ClientTypeOK, MessagesFit
  <2>4. HeldFit'
    BY DEF ClientTypeOK, HeldFit, Engaged
  <2>5. ListedOrHeld'
    BY DEF ClientTypeOK, ListedOrHeld
  <2>6. HoldsOnlyAtWork'
    BY DEF ClientTypeOK, HoldsOnlyAtWork
  <2>7. CompletedIsTaken'
    BY DEF ClientTypeOK, CompletedIsTaken
  <2>8. OwnAnswerOnly'
    BY DEF ClientTypeOK, OwnAnswerOnly, HeldFit
  <2> QED
    BY <2>1, <2>2, <2>3, <2>4, <2>5, <2>6, <2>7, <2>8
<1>11. ASSUME NEW m \in wire, Serve(m) PROVE ClientInv'
  <2> USE <1>11 DEF Serve
  <2>1. ClientTypeOK'
    BY DEF ClientTypeOK
  <2>2. PendingIsAwaited'
    BY DEF ClientTypeOK, PendingIsAwaited
  <2>3. MessagesFit'
    BY DEF ClientTypeOK, MessagesFit
  <2>4. HeldFit'
    BY DEF ClientTypeOK, HeldFit, Engaged
  <2>5. ListedOrHeld'
    BY DEF ClientTypeOK, ListedOrHeld
  <2>6. HoldsOnlyAtWork'
    BY DEF ClientTypeOK, HoldsOnlyAtWork
  <2>7. CompletedIsTaken'
    BY DEF ClientTypeOK, CompletedIsTaken
  <2>8. OwnAnswerOnly'
    BY DEF ClientTypeOK, OwnAnswerOnly, HeldFit
  <2> QED
    BY <2>1, <2>2, <2>3, <2>4, <2>5, <2>6, <2>7, <2>8
<1>12. ASSUME NEW o \in answers, Receive(o) PROVE ClientInv'
  <2> USE <1>12 DEF Receive, Erased, Listed
  <2>1. receiver.holds = {}
    BY DEF HoldsOnlyAtWork
  <2>2. /\ pending' = {p \in pending : p.cookie # o.cookie}
        /\ \A h \in receiver'.holds : \E p \in pending :
              p.cookie = o.cookie /\ h.to = p.of /\ h.result.of = o.of
        /\ \A p \in pending : p.cookie = o.cookie => \E h \in receiver'.holds : h.to = p.of
    <3>1. CASE Listed(o.cookie) = {}
      BY <2>1, <3>1 DEF ClientTypeOK
    <3>2. CASE Listed(o.cookie) # {}
      <4>1. receiver'.holds = {[to |-> p.of, result |-> [of |-> o.of, ok |-> o.ok]] :
                                  p \in Listed(o.cookie)}
        BY <3>2
      <4>2. ASSUME NEW p \in pending, p.cookie = o.cookie
            PROVE  \E h \in receiver'.holds : h.to = p.of
        <5>1. [to |-> p.of, result |-> [of |-> o.of, ok |-> o.ok]] \in receiver'.holds
          BY <4>1, <4>2
        <5> QED
          BY <5>1
      <4> QED
        BY <3>2, <4>1, <4>2
    <3> QED
      BY <3>1, <3>2
  <2>3. ClientTypeOK'
    BY DEF ClientTypeOK
  <2>4. PendingIsAwaited'
    BY DEF ClientTypeOK, PendingIsAwaited
  <2>5. MessagesFit'
    BY DEF ClientTypeOK, MessagesFit
  <2>6. HeldFit'
    BY <2>1, <2>2 DEF ClientTypeOK, HeldFit, Engaged, PendingIsAwaited, MessagesFit
  <2>7. ListedOrHeld'
    <3>1. ASSUME NEW d \in Caller, NEW p \in pending, p.of = d
          PROVE  (\E q \in pending' : q.of = d) \/ (\E h \in receiver'.holds : h.to = d)
      BY <3>1, <2>2
    <3> QED
      BY <3>1, <2>1 DEF ClientTypeOK, ListedOrHeld
  <2>8. HoldsOnlyAtWork'
    BY DEF ClientTypeOK, HoldsOnlyAtWork
  <2>9. CompletedIsTaken'
    <3>1. ASSUME NEW p \in pending', NEW h \in receiver'.holds PROVE h.to # p.of \/ p.of = None
      <4>1. PICK q \in pending : q.of = h.to /\ q.cookie = o.cookie /\ p.cookie # o.cookie
        BY <2>1, <2>2
      <4> QED
        BY <4>1 DEF PendingIsAwaited
    <3> QED
      BY <3>1 DEF ClientTypeOK, CompletedIsTaken
  <2>10. OwnAnswerOnly'
    BY DEF ClientTypeOK, OwnAnswerOnly, HeldFit
  <2> QED
    BY <2>3, <2>4, <2>5, <2>6, <2>7, <2>8, <2>9, <2>10
<1>13. CASE ReceiveFails
  <2> USE <1>13 DEF ReceiveFails
  <2>1. /\ receiver'.holds = {[to |-> p.of, result |-> [of |-> p.of, ok |-> FALSE]] : p \in pending}
        /\ \A h \in receiver'.holds : \E p \in pending : h = [to |-> p.of, result |-> [of |-> p.of, ok |-> FALSE]]
        /\ \A p \in pending : \E h \in receiver'.holds : h.to = p.of
    <3>1. \A p \in pending : [to |-> p.of, result |-> [of |-> p.of, ok |-> FALSE]].to = p.of
      OBVIOUS
    <3> QED
      BY <3>1
  <2>2. receiver.holds = {}
    BY DEF HoldsOnlyAtWork
  <2>3. ClientTypeOK'
    <3>1. ASSUME NEW p \in pending
          PROVE  [to |-> p.of, result |-> [of |-> p.of, ok |-> FALSE]] \in [to: Owner, result: Outcome]
      BY DEF ClientTypeOK
    <3>2. ASSUME NEW h \in receiver'.holds PROVE h \in [to: Owner, result: Outcome]
      <4>1. PICK p \in pending : h = [to |-> p.of, result |-> [of |-> p.of, ok |-> FALSE]]
        BY <2>1
      <4> QED
        BY <3>1, <4>1
    <3> QED
      BY <3>2 DEF ClientTypeOK
  <2>4. PendingIsAwaited'
    BY DEF ClientTypeOK, PendingIsAwaited
  <2>5. MessagesFit'
    BY DEF ClientTypeOK, MessagesFit
  <2>6. HeldFit'
    BY <2>1 DEF ClientTypeOK, HeldFit, Engaged, PendingIsAwaited
  <2>7. ListedOrHeld'
    <3>1. ASSUME NEW d \in Caller, NEW p \in pending, p.of = d
          PROVE  \E h \in receiver'.holds : h.to = d
      BY <3>1, <2>1
    <3> QED
      BY <3>1, <2>2 DEF ClientTypeOK, ListedOrHeld
  <2>8. HoldsOnlyAtWork'
    BY DEF ClientTypeOK, HoldsOnlyAtWork
  <2>9. CompletedIsTaken'
    BY DEF ClientTypeOK, CompletedIsTaken
  <2>10. OwnAnswerOnly'
    BY DEF ClientTypeOK, OwnAnswerOnly, HeldFit
  <2> QED
    BY <2>3, <2>4, <2>5, <2>6, <2>7, <2>8, <2>9, <2>10
<1>14. ASSUME NEW h \in receiver.holds, Complete(h) PROVE ClientInv'
  <2> USE <1>14 DEF Complete
  <2>1. ClientTypeOK'
    BY DEF ClientTypeOK
  <2>2. PendingIsAwaited'
    BY DEF ClientTypeOK, PendingIsAwaited
  <2>3. MessagesFit'
    BY DEF ClientTypeOK, MessagesFit
  <2>4. HeldFit'
    BY DEF ClientTypeOK, HeldFit, Engaged
  <2>5. ListedOrHeld'
    BY DEF ClientTypeOK, ListedOrHeld
  <2>6. HoldsOnlyAtWork'
    BY DEF ClientTypeOK, HoldsOnlyAtWork
  <2>7. CompletedIsTaken'
    BY DEF ClientTypeOK, CompletedIsTaken
  <2>8. OwnAnswerOnly'
    BY DEF ClientTypeOK, OwnAnswerOnly, HeldFit
  <2> QED
    BY <2>1, <2>2, <2>3, <2>4, <2>5, <2>6, <2>7, <2>8
<1>15. CASE GoOn
  <2> USE <1>15 DEF GoOn
  <2>1. ClientTypeOK'
    BY DEF ClientTypeOK
  <2>2. PendingIsAwaited'
    BY DEF ClientTypeOK, PendingIsAwaited
  <2>3. MessagesFit'
    BY DEF ClientTypeOK, MessagesFit
  <2>4. HeldFit'
    BY DEF ClientTypeOK, HeldFit, Engaged
  <2>5. ListedOrHeld'
    BY DEF ClientTypeOK, ListedOrHeld
  <2>6. HoldsOnlyAtWork'
    BY DEF ClientTypeOK, HoldsOnlyAtWork
  <2>7. CompletedIsTaken'
    BY DEF ClientTypeOK, CompletedIsTaken
  <2>8. OwnAnswerOnly'
    BY DEF ClientTypeOK, OwnAnswerOnly, HeldFit
  <2> QED
    BY <2>1, <2>2, <2>3, <2>4, <2>5, <2>6, <2>7, <2>8
<1> QED
  BY <1>1, <1>2, <1>3, <1>4, <1>5, <1>6, <1>7, <1>8, <1>9, <1>10, <1>11, <1>12, <1>13, <1>14,
     <1>15 DEF ClientNext, CallerStep, ReceiverStep

-----------------------------------------------------------------------------
\* Callers, receiver and timeouts together keep pending_ and the answers in step.
THEOREM ClientInductiveInvariant == ClientSpec => []ClientInv
<1> QED
  BY ClientInitInv, ClientStepInv, PTL DEF ClientSpec

\* The variables have their types: no two threads ever have the same cookie, and
\* the counter's numbers are counted again without a clash.
THEOREM ClientTypeCorrect == ClientSpec => []ClientTypeOK
<1>1. ClientInv => ClientTypeOK
  BY DEF ClientInv
<1> QED
  BY <1>1, ClientInductiveInvariant, PTL

\* pending_requests_ holds requests of callers that have not left, and every
\* command that waits without an answer is in it or with the receiver.
THEOREM PendingRequestsFit == ClientSpec => []PendingConsistent
<1>1. ClientInv => PendingConsistent
  BY DEF ClientInv, PendingConsistent, ListedOrHeld, WaitsForSomething
<1> QED
  BY <1>1, ClientInductiveInvariant, PTL

\* completePendingRequest and failAllPendingRequests: what a thread is handed was
\* answered to its own command, not to one in flight beside it and not, late, to one
\* that was given up, although the client looks at nothing but the cookie.
THEOREM AnswersReachTheirCommand == ClientSpec => []OwnAnswerOnly
<1>1. ClientInv => OwnAnswerOnly
  BY DEF ClientInv
<1> QED
  BY <1>1, ClientInductiveInvariant, PTL

-----------------------------------------------------------------------------
(* RtpengineClient implements BlockingCall. *)

\* What the callers see, as BlockingCall has it.
Seen == [c \in Caller |-> CallOf(thread[c])]

LEMMA InitRefines == ClientInit => Calls!CallInit
BY DEF ClientInit, NotCalling, Calls!CallInit, CallOf

\* What a step of one thread changes of it.
LEMMA SeenOfOne ==
    ASSUME NEW c \in Caller, ClientTypeOK, ClientTypeOK',
           \A d \in Caller \ {c} : thread'[d] = thread[d]
    PROVE  Seen' = [Seen EXCEPT ![c] = CallOf(thread'[c])]
BY DEF Seen, ClientTypeOK

LEMMA StepRefines == ClientInv /\ [ClientNext]_clientVars => [Calls!CallStep]_Seen
<1> SUFFICES ASSUME ClientInv, [ClientNext]_clientVars PROVE [Calls!CallStep]_Seen
  OBVIOUS
<1>0. ClientTypeOK /\ ClientTypeOK'
  BY ClientStepInv DEF ClientInv
<1> USE DEF Seen
<1>1. CASE thread' = thread
  BY <1>1
<1>2. ASSUME NEW c \in Caller, EnterCall(c) PROVE Calls!Call(c)
  <2>1. Seen[c] = "idle" /\ CallOf(thread'[c]) = "called"
    BY <1>2, <1>0 DEF EnterCall, CallOf, ClientTypeOK
  <2>2. Seen' = [Seen EXCEPT ![c] = "called"]
    BY <1>2, <1>0, <2>1, SeenOfOne DEF EnterCall, ClientTypeOK
  <2> QED
    BY <2>1, <2>2 DEF Calls!Call
<1>3. ASSUME NEW c \in Caller, Register(c) PROVE Seen' = Seen
  <2>1. Seen[c] = "called" /\ CallOf(thread'[c]) = "called"
    BY <1>3, <1>0 DEF Register, CallOf, ClientTypeOK
  <2>2. Seen' = [Seen EXCEPT ![c] = "called"]
    BY <1>3, <1>0, <2>1, SeenOfOne DEF Register, ClientTypeOK
  <2> QED
    BY <2>1, <2>2
<1>4. ASSUME NEW c \in Caller, NoReceiver(c) PROVE Calls!Finish(c)
  <2>1. Seen[c] = "called" /\ CallOf(thread'[c]) = "error"
    BY <1>4, <1>0 DEF NoReceiver, CallOf, ClientTypeOK, Failed, NotCalling
  <2>2. Seen' = [Seen EXCEPT ![c] = "error"]
    BY <1>4, <1>0, <2>1, SeenOfOne DEF NoReceiver, ClientTypeOK
  <2> QED
    BY <2>1, <2>2 DEF Calls!Finish
<1>5. ASSUME NEW c \in Caller, Send(c) PROVE Seen' = Seen
  <2>1. Seen[c] = "called" /\ CallOf(thread'[c]) = "called"
    BY <1>5, <1>0 DEF Send, CallOf, ClientTypeOK
  <2>2. Seen' = [Seen EXCEPT ![c] = "called"]
    BY <1>5, <1>0, <2>1, SeenOfOne DEF Send, ClientTypeOK
  <2> QED
    BY <2>1, <2>2
<1>6. ASSUME NEW c \in Caller, SendFails(c) PROVE Calls!Finish(c)
  <2>1. Seen[c] = "called" /\ CallOf(thread'[c]) = "error"
    BY <1>6, <1>0 DEF SendFails, CallOf, ClientTypeOK, Failed, NotCalling
  <2>2. Seen' = [Seen EXCEPT ![c] = "error"]
    BY <1>6, <1>0, <2>1, SeenOfOne DEF SendFails, ClientTypeOK
  <2> QED
    BY <2>1, <2>2 DEF Calls!Finish
<1>7. ASSUME NEW c \in Caller, TimeOut(c) PROVE Seen' = Seen
  <2>1. Seen[c] = "called" /\ CallOf(thread'[c]) = "called"
    BY <1>7, <1>0 DEF TimeOut, CallOf, ClientTypeOK
  <2>2. Seen' = [Seen EXCEPT ![c] = "called"]
    BY <1>7, <1>0, <2>1, SeenOfOne DEF TimeOut, ClientTypeOK
  <2> QED
    BY <2>1, <2>2
<1>8. ASSUME NEW c \in Caller, EraseExpired(c) PROVE Calls!Finish(c)
  <2>1. Seen[c] = "called" /\ CallOf(thread'[c]) = "error"
    BY <1>8, <1>0 DEF EraseExpired, CallOf, ClientTypeOK
  <2>2. Seen' = [Seen EXCEPT ![c] = "error"]
    BY <1>8, <1>0, <2>1, SeenOfOne DEF EraseExpired, ClientTypeOK
  <2> QED
    BY <2>1, <2>2 DEF Calls!Finish
<1>9. ASSUME NEW c \in Caller, WakeUp(c) PROVE Calls!Finish(c)
  <2>1. Seen[c] = "called" /\ CallOf(thread'[c]) \in {"ok", "error"}
    BY <1>9, <1>0 DEF WakeUp, CallOf, ClientTypeOK
  <2>2. Seen' = [Seen EXCEPT ![c] = CallOf(thread'[c])]
    BY <1>9, <1>0, SeenOfOne DEF WakeUp, ClientTypeOK
  <2> QED
    BY <2>1, <2>2 DEF Calls!Finish
<1>10. ASSUME NEW c \in Caller, LeaveCall(c) PROVE Calls!Return(c)
  <2>1. Seen[c] \in {"ok", "error"} /\ CallOf(thread'[c]) = "idle"
    BY <1>10, <1>0 DEF LeaveCall, NotCalling, CallOf, ClientTypeOK
  <2>2. Seen' = [Seen EXCEPT ![c] = "idle"]
    BY <1>10, <1>0, <2>1, SeenOfOne DEF LeaveCall, ClientTypeOK
  <2> QED
    BY <2>1, <2>2 DEF Calls!Return
<1>11. ASSUME NEW o \in receiver.holds, Complete(o) PROVE Seen' = Seen
  <2>1. ASSUME NEW c \in Caller PROVE CallOf(thread'[c]) = CallOf(thread[c])
    <3>1. thread[c] \in [at: {"idle", "entered", "send", "wait", "expired", "done"},
                         cookie: Cookie \cup {None}, result: Outcome \cup {None}]
      BY <1>0 DEF ClientTypeOK
    <3>2. thread'[c].at = thread[c].at /\ (thread[c].at = "done" => thread'[c] = thread[c])
      BY <1>11, <3>1 DEF Complete
    <3> QED
      BY <3>1, <3>2 DEF CallOf
  <2> QED
    BY <2>1
<1> QED
  <2>1. Calls!CallStep \/ Seen' = Seen
    BY <1>1, <1>2, <1>3, <1>4, <1>5, <1>6, <1>7, <1>8, <1>9, <1>10, <1>11
       DEF ClientNext, CallerStep, ReceiverStep, Calls!CallStep, Serve, Receive, ReceiveFails, GoOn,
           clientVars
  <2> QED
    BY <2>1

\* A thread that calls the client sees calls that return once, whatever rtpengine
\* and the receiver do.  That they do return is left to the run.
THEOREM ClientKeepsPromise == ClientSpec => Calls!CallSafety
<1>1. ClientSpec => Calls!CallInit /\ [][Calls!CallStep]_Seen
  BY InitRefines, StepRefines, ClientInductiveInvariant, PTL DEF ClientSpec
<1> QED
  BY <1>1, PTL DEF Calls!CallSafety, Seen
=============================================================================
