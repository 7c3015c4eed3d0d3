------------------------------- MODULE ProxyChain -------------------------------
(***************************************************************************)
(* The proxies of one domain as a chain: ProxyCore as the P-, I- and S-CSCF *)
(* use it, with the choice each of them makes of the next hop.  A callee    *)
(* registers, is called, and one of the two hangs up.                       *)
(*                                                                          *)
(* A response goes back in two ways at once: each proxy takes its own Via   *)
(* off it, and sends it to where the request of its server transaction came *)
(* from.  Requests of a dialog are routed by the session of the S-CSCF.     *)
(*                                                                          *)
(* Abstractions.                                                            *)
(*  - A server transaction is known by where its request came from; copies  *)
(*    of requests and the timers are the matter of ClientTransactions and   *)
(*    ServerTransactions.  That a transaction times out is kept here.       *)
(*  - There is one callee device, and a session of the S-CSCF is what       *)
(*    SessionRouter keeps of it.  CANCEL is left to that module.            *)
(*  - The topology token of the P-CSCF always stands for the entry of the   *)
(*    core, which is also where requests without one go.                    *)
(*  - The 100 of the S-CSCF and of the devices is left out: it changes no    *)
(*    state on its way.  The 183 of the callee is reliable and carries SDP,  *)
(*    so that it is picked up only after its PRACK.                          *)
(*  - Registrations are granted; Registrar has the other outcomes.          *)
(*  - A branch is named by the hops its request had left: with the request   *)
(*    and its sender that is as good as the unique one the code draws.       *)
(*  - At most one transaction times out or message cannot be sent.           *)
(***************************************************************************)
EXTENDS Naturals, Sequences, FiniteSets

CONSTANTS
    caller, callee,   \* two devices behind one P-CSCF
    P, I, S,          \* the proxies
    None,
    Entries,          \* what core_entry of the P-CSCF may be: I or S
    Peers,            \* what peer_icscf of the S-CSCF may be: I or None
    Hops,             \* what Max-Forwards a caller may begin with
    Plenty            \* the Max-Forwards of all other requests

Ue == {caller, callee}
Proxy == {P, I, S}
Node == Ue \cup Proxy

VARIABLES
    config,    \* the entry of the core, the peer I-CSCF and whom the HSS knows
    wire,      \* messages on their way
    txns,      \* requests a proxy has forwarded and that have no final response
    binding,   \* the binding of the callee at the S-CSCF
    session,   \* the session of the call at the S-CSCF
    offered,   \* the INVITE that rings at a device
    phase,     \* where each of the two devices is
    lost       \* whether a transaction has timed out or a message could not be sent

network == <<wire, txns, lost>>
vars == <<config, network, binding, session, offered, phase>>

Hop == [node: Node, branch: Nat]

Request == {"REGISTER", "INVITE", "ACK", "PRACK", "BYE"}

Code == {183, 200, 404, 480, 481, 482, 483, 486, 500}

\* code is None in a request; peer is the device the Request-URI leads to.
Message == [type: Request, code: Code \cup {None}, via: Seq(Hop), hops: Nat,
            src: Node, dst: Node, peer: Ue]

ASSUME ChainAssumption ==
    /\ Cardinality(Node) = 5 /\ None \notin Node \cup Code \cup Message
    /\ Entries \subseteq {I, S} /\ Peers \subseteq {I, None}
    /\ Plenty \in Nat /\ Hops \subseteq Nat

NoSession == [from |-> None, to |-> None, initial |-> FALSE, dialog |-> "none"]

TypeOK ==
    /\ config \in [entry: Entries, peer: Peers, known: SUBSET {callee}]
    /\ \A m \in wire : m \in Message
    /\ \A t \in txns : t \in [hop: Hop, type: Request, peer: Ue, source: Node, media: BOOLEAN]
    /\ binding \in {"none", "active", "expired"}
    /\ session \in [from: {P, I, None}, to: {P, I, None}, initial: BOOLEAN,
                    dialog: {"none", "early", "up"}]
    /\ offered = None \/ offered \in Message
    /\ phase \in [Ue -> {"idle", "registering", "ready", "calling", "early", "pracked", "ringing",
                         "answered", "up", "leaving", "over", "failed"}]
    /\ lost \in BOOLEAN

Init ==
    /\ config \in [entry: Entries, peer: Peers, known: SUBSET {callee}]
    /\ wire = {} /\ txns = {}
    /\ binding = "none"
    /\ session = NoSession
    /\ offered = None
    /\ phase = [u \in Ue |-> "idle"]
    /\ lost = FALSE

-----------------------------------------------------------------------------
(* Messages. *)

IsRequest(m) == m.code = None

Final(m) == m.code >= 200

TopVia(m) == m.via[1]

\* createResponse copies every Via; sendResponse goes to where the request came from.
Response(m, code) == [m EXCEPT !.code = code, !.src = m.dst, !.dst = m.src]

\* prepareRequestForForward, once it has found a hop left.
Prepared(m, n, dst) ==
    [m EXCEPT !.via = <<[node |-> n, branch |-> m.hops]>> \o @, !.hops = @ - 1,
              !.src = n, !.dst = dst]

\* sanitizeForUeEgress
BottomVia(via) == <<via[Len(via)]>>

Answer(m, code) ==
    /\ wire' = (wire \ {m}) \cup {Response(m, code)}
    /\ UNCHANGED <<txns, lost>>

Drop(m) ==
    /\ wire' = wire \ {m}
    /\ UNCHANGED <<txns, lost>>

\* Faulty variant: the proxy does not look for itself.
LoopDetectedNever(m, n) == FALSE

\* isLoopDetected
LoopDetected(m, n) == \E k \in 1 .. Len(m.via) : m.via[k].node = n

\* media: whether the callback is the one of an INVITE that has a media session.
Transaction(m, n, media) ==
    [hop |-> [node |-> n, branch |-> m.hops], type |-> m.type, peer |-> m.peer, source |-> m.src,
     media |-> media]

\* sendRequest: the client transaction, with what its callback needs.
SendOn(m, n, dst) ==
    /\ wire' = (wire \ {m}) \cup {Prepared(m, n, dst)}
    /\ txns' = txns \cup {Transaction(m, n, m.type = "INVITE" /\ n = P /\ dst = config.entry)}
    /\ UNCHANGED lost

\* forwardRequest, which the proxies use for ACK: no transaction.
SendStateless(m, n, dst) ==
    /\ wire' = (wire \ {m}) \cup (IF m.hops > 0 THEN {Prepared(m, n, dst)} ELSE {})
    /\ UNCHANGED <<txns, lost>>

\* The transport refuses: 500, sent back like any other response.
CannotSend(m) ==
    /\ ~lost
    /\ wire' = (wire \ {m}) \cup {Response(m, 500)} /\ lost' = TRUE
    /\ UNCHANGED txns

\* Faulty variant: a request that has no hop left is dropped.
ForwardStatefulSilently(m, n, dst, detectLoop) ==
    \/ detectLoop /\ LoopDetected(m, n) /\ Answer(m, 482)
    \/ ~(detectLoop /\ LoopDetected(m, n)) /\ m.hops = 0 /\ Drop(m)
    \/ ~(detectLoop /\ LoopDetected(m, n)) /\ m.hops > 0 /\ SendOn(m, n, dst)

\* Faulty variant: a request with no hop left is sent on.
ForwardStatefulOnceMore(m, n, dst, detectLoop) ==
    \/ detectLoop /\ LoopDetected(m, n) /\ Answer(m, 482)
    \/ ~(detectLoop /\ LoopDetected(m, n)) /\ SendOn(m, n, dst)
    \/ ~(detectLoop /\ LoopDetected(m, n)) /\ CannotSend(m)

\* forwardStateful of ProxyCore, without its callback.
ForwardStateful(m, n, dst, detectLoop) ==
    \/ detectLoop /\ LoopDetected(m, n) /\ Answer(m, 482)
    \/ ~(detectLoop /\ LoopDetected(m, n)) /\ m.hops = 0 /\ Answer(m, 483)
    \/ ~(detectLoop /\ LoopDetected(m, n)) /\ m.hops > 0 /\ SendOn(m, n, dst)
    \/ ~(detectLoop /\ LoopDetected(m, n)) /\ m.hops > 0 /\ CannotSend(m)

-----------------------------------------------------------------------------
(* The P-CSCF.  core_peers are the I- and the S-CSCF. *)

FromCore(m) == m.src \in {I, S}

PcscfRequest(m) ==
    /\ m \in wire /\ IsRequest(m) /\ m.dst = P
    /\ \/ m.type # "ACK" /\ ~FromCore(m) /\ ForwardStateful(m, P, config.entry, TRUE)
       \/ m.type # "ACK" /\ FromCore(m) /\ ForwardStateful(m, P, m.peer, FALSE)
       \/ m.type = "ACK" /\ ~FromCore(m)
             /\ IF LoopDetected(m, P) THEN Drop(m) ELSE SendStateless(m, P, config.entry)
       \/ m.type = "ACK" /\ FromCore(m)
             /\ wire' = (wire \ {m}) \cup
                    (IF m.hops > 0
                     THEN {Prepared([m EXCEPT !.via = BottomVia(@)], P, m.peer)} ELSE {})
             /\ UNCHANGED <<txns, lost>>
    /\ UNCHANGED <<config, binding, session, offered, phase>>

-----------------------------------------------------------------------------
(* The I-CSCF.  The HSS names the S-CSCF that is assigned, or the default. *)

IcscfRequest(m) ==
    /\ m \in wire /\ IsRequest(m) /\ m.dst = I
    /\ CASE m.type = "REGISTER" ->
                IF m.peer \in config.known THEN ForwardStateful(m, I, S, TRUE) ELSE Answer(m, 500)
         [] m.type = "INVITE" ->
                IF m.peer \in config.known THEN ForwardStateful(m, I, S, TRUE) ELSE Answer(m, 404)
         [] m.type = "ACK" -> SendStateless(m, I, S)
         [] OTHER -> ForwardStateful(m, I, S, TRUE)
    /\ UNCHANGED <<config, binding, session, offered, phase>>

-----------------------------------------------------------------------------
(* The S-CSCF.  It looks for no loop, and answers nothing when it cannot send. *)

SendOrFail(m, dst) ==
    \/ SendOn(m, S, dst)
    \/ /\ ~lost /\ wire' = wire \ {m} /\ lost' = TRUE
       /\ UNCHANGED txns

\* The Path header that the P-CSCF has added becomes the route to the device.
ScscfRegister(m) ==
    /\ m \in wire /\ IsRequest(m) /\ m.dst = S /\ m.type = "REGISTER"
    /\ IF m.peer \in config.known
       THEN binding' = "active" /\ Answer(m, 200)
       ELSE UNCHANGED binding /\ Answer(m, 500)
    /\ UNCHANGED <<config, session, offered, phase>>

ScscfInvite(m) ==
    LET dst == IF binding = "none" THEN config.peer ELSE P IN
    /\ m \in wire /\ IsRequest(m) /\ m.dst = S /\ m.type = "INVITE"
    /\ CASE dst = None          -> Answer(m, 404) /\ UNCHANGED session
         [] binding = "expired" -> Answer(m, 480) /\ UNCHANGED session
         [] m.hops = 0          -> Answer(m, 500) /\ UNCHANGED session
         [] OTHER -> /\ session' = [session EXCEPT !.from = m.src, !.to = dst, !.initial = TRUE]
                     /\ SendOrFail(m, dst)
    /\ UNCHANGED <<config, binding, offered, phase>>

\* Faulty variant: every BYE goes to where the INVITE came from.
OtherEndOfBye(m) == IF m.peer = callee /\ m.type # "BYE" THEN session.to ELSE session.from

\* resolveInDialogDestination: the other end of the dialog.
OtherEnd(m) == IF m.peer = callee THEN session.to ELSE session.from

\* handleBye and handlePrack.
ScscfInDialog(m) ==
    /\ m \in wire /\ IsRequest(m) /\ m.dst = S /\ m.type \in {"BYE", "PRACK"}
    /\ CASE session.dialog = "none" -> Answer(m, 481)
         [] m.hops = 0              -> Answer(m, 500)
         [] OTHER                   -> SendOrFail(m, OtherEnd(m))
    /\ UNCHANGED <<config, binding, session, offered, phase>>

ScscfAck(m) ==
    /\ m \in wire /\ IsRequest(m) /\ m.dst = S /\ m.type = "ACK"
    /\ IF session.dialog = "none" THEN Drop(m) ELSE SendStateless(m, S, OtherEnd(m))
    /\ UNCHANGED <<config, binding, session, offered, phase>>

Recorded(dialog) ==
    IF session.initial \/ session.dialog # "none" THEN [session EXCEPT !.dialog = dialog] ELSE session

\* Faulty variant: a failure ends the early dialog and leaves the initial session.
SessionAfterDialogOnly(m) ==
    CASE m.type = "INVITE" /\ m.code > 200 -> [session EXCEPT !.dialog = "none"]
      [] m.type = "INVITE" /\ m.code = 200 -> [Recorded("up") EXCEPT !.initial = FALSE]
      [] m.type = "BYE" /\ m.code = 200    -> NoSession
      [] OTHER -> session

\* handleInviteResponseState, and the callback of a BYE.
SessionAfter(m) ==
    CASE m.type = "INVITE" /\ m.code > 200 ->
            IF session.dialog = "up" THEN [session EXCEPT !.initial = FALSE] ELSE NoSession
      [] m.type = "INVITE" /\ m.code = 200 -> [Recorded("up") EXCEPT !.initial = FALSE]
      [] m.type = "INVITE" /\ m.code = 183 /\ session.dialog = "none" -> Recorded("early")
      [] m.type = "BYE" /\ m.code = 200    -> NoSession
      [] OTHER -> session

-----------------------------------------------------------------------------
(* Responses at a proxy: the callback of forwardStateful or of the S-CSCF. *)

TxnOf(m) ==
    {t \in txns : t.hop.node = m.dst /\ t.hop = TopVia(m) /\ t.type = m.type /\ t.peer = m.peer}

\* Faulty variant: the Via of the proxy comes off whatever is left.
UpstreamViaAlways(t, via) == Tail(IF t.media THEN BottomVia(via) ELSE via)

\* onInviteResponse of the P-CSCF, then forwardResponseUpstream, which keeps the
\* last Via.
UpstreamVia(t, via) ==
    LET left == IF t.media THEN BottomVia(via) ELSE via
    IN  IF Len(left) > 1 THEN Tail(left) ELSE left

ProxyResponse(m) ==
    /\ m \in wire /\ ~IsRequest(m) /\ m.dst \in Proxy
    /\ IF TxnOf(m) = {} THEN UNCHANGED <<txns, session>> /\ wire' = wire \ {m}
       ELSE \E t \in TxnOf(m) :
              /\ wire' = (wire \ {m}) \cup
                    {[m EXCEPT !.via = UpstreamVia(t, @), !.src = m.dst, !.dst = t.source]}
              /\ txns' = IF Final(m) THEN txns \ {t} ELSE txns
              /\ session' = IF m.dst = S THEN SessionAfter(m) ELSE session
    /\ UNCHANGED <<config, binding, offered, phase, lost>>

\* A client transaction that times out tells nobody.
TimesOut(t) ==
    /\ t \in txns /\ ~lost
    /\ txns' = txns \ {t}
    /\ lost' = TRUE
    /\ UNCHANGED <<config, wire, binding, session, offered, phase>>

-----------------------------------------------------------------------------
(* The devices.  Each follows RFC 3261. *)

NewRequest(type, from, hops) ==
    [type |-> type, code |-> None, via |-> <<[node |-> from, branch |-> hops]>>, hops |-> hops,
     src |-> from, dst |-> P, peer |-> IF from = caller \/ type = "REGISTER" THEN callee ELSE caller]

Moves(u, from, to) ==
    /\ phase[u] \in from
    /\ phase' = [phase EXCEPT ![u] = to]

Sends(type, from, hops) ==
    /\ wire' = wire \cup {NewRequest(type, from, hops)}
    /\ UNCHANGED <<txns, lost, config, binding, session, offered>>

Registers == Moves(callee, {"idle"}, "registering") /\ Sends("REGISTER", callee, Plenty)

Calls(hops) == Moves(caller, {"idle"}, "calling") /\ Sends("INVITE", caller, hops)

SendsPrack == Moves(caller, {"early"}, "pracked") /\ Sends("PRACK", caller, Plenty)

HangsUp(u) == Moves(u, {"up"}, "leaving") /\ Sends("BYE", u, Plenty)

\* A device that is registering or in a call is busy.
DeviceRequest(m) ==
    /\ m \in wire /\ IsRequest(m) /\ m.dst \in Ue
    /\ \/ /\ m.type = "INVITE" /\ phase[m.dst] = "ready"
          /\ offered' = m /\ phase' = [phase EXCEPT ![m.dst] = "ringing"]
          /\ Answer(m, 183)
       \/ /\ m.type = "INVITE" /\ phase[m.dst] # "ready"
          /\ Answer(m, 486) /\ UNCHANGED <<offered, phase>>
       \/ /\ m.type = "PRACK" /\ Answer(m, 200)
          /\ phase' = [phase EXCEPT ![m.dst] = IF @ = "ringing" THEN "pracked" ELSE @]
          /\ UNCHANGED offered
       \/ /\ m.type = "BYE" /\ Answer(m, 200)
          /\ phase' = [phase EXCEPT ![m.dst] = "over"] /\ UNCHANGED offered
       \/ /\ m.type = "ACK" /\ Drop(m)
          /\ phase' = [phase EXCEPT ![m.dst] = IF @ = "answered" THEN "up" ELSE @]
          /\ UNCHANGED offered
    /\ UNCHANGED <<config, binding, session>>

PicksUp(code) ==
    /\ IF code = 200 THEN Moves(callee, {"pracked"}, "answered")
                     ELSE Moves(callee, {"ringing", "pracked"}, "over")
    /\ wire' = wire \cup {Response(offered, code)} /\ offered' = None
    /\ UNCHANGED <<txns, lost, config, binding, session>>

DeviceResponse(m) ==
    LET u == m.dst IN
    /\ m \in wire /\ ~IsRequest(m) /\ u \in Ue
    /\ \/ m.type = "REGISTER" /\ phase' = [phase EXCEPT ![u] = "ready"]
       \/ m.type = "PRACK" /\ UNCHANGED phase
       \/ m.type = "BYE" /\ phase' = [phase EXCEPT ![u] = "over"]
       \/ /\ m.type = "INVITE" /\ ~(m.code = 200 /\ phase[u] \in {"calling", "early", "pracked"})
          /\ phase' = [phase EXCEPT ![u] = CASE m.code = 183 /\ @ = "calling" -> "early"
                                             [] Final(m) /\ @ \in {"calling", "early", "pracked"} -> "failed"
                                             [] OTHER -> @]
    /\ wire' = wire \ {m}
    /\ UNCHANGED <<txns, lost, config, binding, session, offered>>

Acknowledges(m) ==
    /\ m \in wire /\ m.dst = caller /\ m.type = "INVITE" /\ m.code = 200
    /\ Moves(caller, {"calling", "early", "pracked"}, "up")
    /\ wire' = (wire \ {m}) \cup {NewRequest("ACK", caller, Plenty)}
    /\ UNCHANGED <<txns, lost, config, binding, session, offered>>

\* The registration runs out: first its contacts, then the cleanup removes it.
BindingExpires ==
    /\ binding # "none" /\ phase[caller] \in {"idle", "calling"}
    /\ binding' = IF binding = "active" THEN "expired" ELSE "none"
    /\ UNCHANGED <<config, network, session, offered, phase>>

-----------------------------------------------------------------------------
Deliver(m) ==
    \/ PcscfRequest(m)
    \/ IcscfRequest(m)
    \/ ScscfRegister(m) \/ ScscfInvite(m) \/ ScscfInDialog(m) \/ ScscfAck(m)
    \/ ProxyResponse(m)
    \/ DeviceRequest(m) \/ DeviceResponse(m) \/ Acknowledges(m)

Next ==
    \/ \E m \in wire : Deliver(m)
    \/ \E t \in txns : TimesOut(t)
    \/ Registers
    \/ \E hops \in Hops : Calls(hops)
    \/ SendsPrack
    \/ \E code \in {200, 486} : PicksUp(code)
    \/ \E u \in Ue : HangsUp(u)
    \/ BindingExpires

Spec == Init /\ [][Next]_vars

\* A message that is not lost arrives and is handled.  Nobody has to call, to
\* pick up or to hang up.
FairSpec == Spec /\ WF_vars(\E m \in wire : Deliver(m))

-----------------------------------------------------------------------------
\* The two ways a response goes back agree: wherever a server transaction sends
\* it, the receiver finds its own Via on top, and a device finds no other one,
\* although the P-CSCF cuts the Vias of an INVITE's responses short.
ViasRetrace ==
    \A m \in wire :
        IF IsRequest(m) THEN TopVia(m).node = m.src
        ELSE /\ Len(m.via) > 0
             /\ TopVia(m).node = m.dst
             /\ m.dst \in Ue => Len(m.via) = 1

Visits(m, n) == Cardinality({k \in 1 .. Len(m.via) : m.via[k].node = n})

\* The S-CSCF looks for no loop and may send an INVITE back to the I-CSCF that
\* sent it: still no request passes the I-CSCF twice, nor the S-CSCF more than
\* twice.
LoopsCut == \A m \in wire : Visits(m, I) <= 1 /\ Visits(m, S) <= 2

\* The variables have their types and the Vias tell the truth about the way.
ViasConsistent == TypeOK /\ ViasRetrace /\ LoopsCut

\* When nothing is under way and nothing was lost, the S-CSCF has a session if
\* and only if both devices are in the call.  It is said of an INVITE that came
\* straight from the P-CSCF (see README for one that came by the I-CSCF).
ReleasedWhenQuiet ==
    wire = {} /\ txns = {} /\ ~lost /\ session.from # I =>
        /\ (session # NoSession) = (phase[caller] = "up")
        /\ phase[caller] = "up" => session.dialog = "up" /\ ~session.initial /\ phase[callee] = "up"

\* An INVITE is answered with a final response, or rings, whatever the callee's
\* registration, the hops it has left and the way it takes.
CallAnswered ==
    phase[caller] = "calling"
        ~> lost \/ phase[caller] \in {"up", "leaving", "over", "failed"} \/ phase[callee] = "ringing"

\* Who hangs up ends the call of the other too, on the route of the dialog.  It
\* is said of the callee only when the INVITE came straight from the P-CSCF.
HangUpArrives ==
    \A u, v \in Ue :
        u # v /\ phase[u] = "leaving" /\ (u = caller \/ session.from = P) ~> lost \/ phase[v] = "over"
=============================================================================
