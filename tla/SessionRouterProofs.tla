--------------------------- MODULE SessionRouterProofs ---------------------------
(***************************************************************************)
(* Theorems about SessionRouter: type correctness, that a CANCEL finds the *)
(* INVITE it is for, that a BYE finds its session, that a failure leaves   *)
(* nothing behind, and that established dialogs are kept.                  *)
(*                                                                         *)
(* What the table promises rests on who can still change it.  Responses    *)
(* only count while their INVITE is open, there is one open INVITE to a    *)
(* call, and its initial entry can be lost to an ACK only after a CANCEL   *)
(* has left its mark.  A dialog the caller knows of was established at the *)
(* router before, and neither the purge nor a failure touches it then.     *)
(***************************************************************************)
EXTENDS SessionRouter, TLAPS

\* Branches are given in order, and an open INVITE keeps the transaction of its
\* caller alive; a call without INVITE has no failure.
OpenIsPending ==
    /\ \A b \in Branch : invites[b] # None <=> b \in 1 .. forwarded
    /\ \A b \in open : inviteTxn[invites[b].call] = "alive"
    /\ \A c \in Call : inviteTxn[c] = "none" => lastFinal[c] # "failure"
    /\ \A a, b \in open : invites[a].call = invites[b].call => a = b

\* What is on its way to the router and to the caller is complete, and is about
\* INVITEs that were forwarded and dialogs the caller has confirmed.
Truthful ==
    /\ \A m \in toRouter :
          /\ m.kind \in {"response", "ACK", "BYE", "bye_response"} => m.tag \in Tag
          /\ m.kind = "response" => /\ m.branch \in 1 .. forwarded
                                    /\ m.call = invites[m.branch].call
          /\ m.kind \in {"ACK", "BYE"} => m.tag \in caller[m.call]
          /\ m.kind = "CANCEL" => /\ m = Message("CANCEL", m.call, None, None, None)
                                  /\ canceled[m.call]
    /\ \A m \in toCaller : m.class = "2xx" => m.tag \in Tag
    /\ \A c \in Call : acked[c] \subseteq caller[c]

\* No CANCEL of the call has reached the router.
Unmarked(c) == ~canceled[c] \/ \E m \in toRouter : m.kind = "CANCEL" /\ m.call = c

\* The entry that stands for an open INVITE.
Pending(c, b) ==
    /\ Present(sessions, c, Initial)
    /\ sessions[c][Initial].branch = b
    /\ sessions[c][Initial].ep = invites[b].ep

MarksAreTrue ==
    \A c \in Call : Unmarked(c) =>
        /\ \A t \in Tag \cup {Initial} : Present(sessions, c, t) => ~sessions[c][t].cancelSeen
        /\ \A b \in open : invites[b].call = c => Pending(c, b)

\* The purge does not take the entry of an open INVITE.
OpenIsFresh ==
    \A b \in open : LET c == invites[b].call IN
        Present(sessions, c, Initial) => ~sessions[c][Initial].stale

\* Dialogs the caller knows of, or is about to.
Confirmed ==
    [c \in Call |-> caller[c] \cup {m.tag : m \in {m \in toCaller : m.class = "2xx" /\ m.call = c}}]

ConfirmedIsEstablished ==
    \A c \in Call : ~canceled[c] =>
        \A t \in Confirmed[c] \ released[c] : Present(sessions, c, t) /\ sessions[c][t].established

IInv ==
    /\ TypeOK
    /\ OpenIsPending
    /\ Truthful
    /\ MarksAreTrue
    /\ OpenIsFresh
    /\ ConfirmedIsEstablished
    /\ NoGhostAfterFailure

-----------------------------------------------------------------------------
(* The operators on the table. *)

Key == Tag \cup {Initial}
Table == [Call -> [Key -> Session \cup {None}]]

\* The purge takes no established session, and none that is fresh.
LEMMA PurgedTable ==
    ASSUME NEW S \in Table
    PROVE  /\ Purged(S) \in Table
           /\ \A c \in Call, t \in Key :
                 /\ Purged(S)[c][t] \in {S[c][t], None}
                 /\ S[c][t] # None /\ (S[c][t].established \/ ~S[c][t].stale) =>
                       Purged(S)[c][t] = S[c][t]
BY DEF Table, Key, Purged, Present

LEMMA ErasedTable ==
    ASSUME NEW S \in Table, NEW c \in Call, NEW T
    PROVE  /\ Erased(S, c, T) \in Table
           /\ \A d \in Call, t \in Key :
                 Erased(S, c, T)[d][t] = IF d = c /\ t \in T THEN None ELSE S[d][t]
BY DEF Table, Key, Erased

\* The fields of an entry that was refreshed.
LEMMA RefreshedFields ==
    ASSUME NEW s \in Session, NEW e \in BOOLEAN
    PROVE  /\ Refreshed(s, e) \in Session
           /\ Refreshed(s, e).cancelSeen = s.cancelSeen
           /\ Refreshed(s, e).established = e
BY DEF Refreshed, Session

\* The entry of the dialog is the one that was there or a copy of the initial one,
\* and no other entry changes.
LEMMA RecordedTable ==
    ASSUME NEW S \in Table, NEW c \in Call, NEW t \in Tag, NEW e \in BOOLEAN
    PROVE  LET R == DialogRecorded(S, c, t, e) IN
           /\ R \in Table
           /\ \A d \in Call, u \in Key : d # c \/ u # t => R[d][u] = S[d][u]
           /\ R[c][t] # None =>
                 \E k \in {t, Initial} : S[c][k] # None /\ R[c][t].cancelSeen = S[c][k].cancelSeen
           /\ S[c][t] # None \/ S[c][Initial] # None =>
                 R[c][t] # None /\ (e => R[c][t].established)
           /\ S[c][t] # None /\ S[c][t].established => R[c][t].established
<1> DEFINE R == DialogRecorded(S, c, t, e)
<1>a. t \in Key /\ Initial \in Key /\ t # Initial /\ None \notin Session
  BY RouterAssumption DEF Key
<1>b. ASSUME NEW s \in Session, R = [S EXCEPT ![c][t] = s]
      PROVE  /\ R \in Table
             /\ \A d \in Call, u \in Key : R[d][u] = IF d = c /\ u = t THEN s ELSE S[d][u]
  BY <1>a, <1>b DEF Table
<1>1. CASE S[c][t] # None
  <2> DEFINE f == S[c][t].established \/ e
             s == Refreshed(S[c][t], f)
  <2>1. S[c][t] \in Session /\ f \in BOOLEAN
    BY <1>a, <1>1 DEF Table, Session
  <2>2. s \in Session /\ s.cancelSeen = S[c][t].cancelSeen /\ s.established = f
    BY <2>1, RefreshedFields
  <2>3. R = [S EXCEPT ![c][t] = s]
    BY <1>1, <1>a DEF DialogRecorded, Present, Table
  <2>4. R \in Table /\ \A d \in Call, u \in Key : R[d][u] = IF d = c /\ u = t THEN s ELSE S[d][u]
    BY <1>b, <2>2, <2>3
  <2> HIDE DEF R, s
  <2> QED
    BY <1>1, <1>a, <2>2, <2>4 DEF R
<1>2. CASE S[c][t] = None /\ S[c][Initial] # None
  <2> DEFINE s == Refreshed(S[c][Initial], e)
  <2>1. S[c][Initial] \in Session
    BY <1>a, <1>2 DEF Table
  <2>2. s \in Session /\ s.cancelSeen = S[c][Initial].cancelSeen /\ s.established = e
    BY <2>1, RefreshedFields
  <2>3. R = [S EXCEPT ![c][t] = s]
    BY <1>2, <1>a DEF DialogRecorded, Present, Table
  <2>4. R \in Table /\ \A d \in Call, u \in Key : R[d][u] = IF d = c /\ u = t THEN s ELSE S[d][u]
    BY <1>b, <2>2, <2>3
  <2> HIDE DEF R, s
  <2> QED
    BY <1>2, <1>a, <2>2, <2>4 DEF R
<1>3. CASE S[c][t] = None /\ S[c][Initial] = None
  BY <1>3 DEF DialogRecorded, Present
<1> QED
  BY <1>1, <1>2, <1>3

LEMMA RecordedKeeps ==
    ASSUME NEW S \in Table, NEW c \in Call, NEW t \in Tag, NEW e \in BOOLEAN,
           NEW d \in Call, NEW u \in Key, S[d][u] # None
    PROVE  DialogRecorded(S, c, t, e)[d][u] # None
<1> DEFINE R == DialogRecorded(S, c, t, e)
<1>1. /\ \A b \in Call, k \in Key : b # c \/ k # t => R[b][k] = S[b][k]
      /\ S[c][t] # None \/ S[c][Initial] # None => R[c][t] # None
  BY RecordedTable
<1> HIDE DEF R
<1>2. R[d][u] # None
  BY <1>1
<1> QED
  BY <1>2 DEF R

LEMMA InitInvariant == Init => IInv
BY RouterAssumption DEF Init, IInv, TypeOK, OpenIsPending, Truthful, Unmarked, Pending,
   MarksAreTrue,
   OpenIsFresh, Confirmed, ConfirmedIsEstablished, NoGhostAfterFailure, Present, Branch

\* What is on its way is typed field by field.
LEMMA MessageTyped ==
    ASSUME NEW m \in MessageType
    PROVE  m.call \in Call /\ m.tag \in Tag \cup {None} /\ m.branch \in Branch \cup {None}
BY DEF MessageType

\* Every action keeps the invariant.  A response counts only while its INVITE is
\* open, which is why a failure cannot be followed by an early dialog; a mark is
\* only set by a CANCEL, which is why an ACK takes nothing of a call without one.
LEMMA StepInvariant == IInv /\ [Next]_vars => IInv'
<1> SUFFICES ASSUME IInv, [Next]_vars PROVE IInv'
  OBVIOUS
<1>a. None \notin Session /\ None \notin Invite /\ None \notin Tag /\ Initial \notin Tag
      /\ None \notin Nat /\ None # "2xx" /\ None # "failure"
  BY RouterAssumption
<1>b. sessions \in Table
  BY DEF IInv, TypeOK, Table, Key
<1>t. /\ forwarded \in 0 .. MaxInvites /\ MaxInvites \in Nat /\ Branch = 1 .. MaxInvites
      /\ invites \in [Branch -> Invite \cup {None}]
      /\ inviteTxn \in [Call -> {"none", "alive", "gone"}]
      /\ lastFinal \in [Call -> {"2xx", "failure", None}]
  BY RouterAssumption DEF IInv, TypeOK, Branch
<1>u. /\ caller \in [Call -> SUBSET Tag] /\ acked \in [Call -> SUBSET Tag]
      /\ released \in [Call -> SUBSET Tag] /\ canceled \in [Call -> BOOLEAN]
      /\ open \subseteq 1 .. forwarded
  BY DEF IInv, TypeOK
<1>c. \A b \in open : /\ b \in 1 .. forwarded /\ b \in Branch
                      /\ invites[b] \in Invite /\ invites[b].call \in Call
  <2>1. ASSUME NEW b \in open PROVE b \in 1 .. forwarded /\ b \in Branch
    BY <1>t, <1>u
  <2>2. ASSUME NEW b \in open PROVE invites[b] \in Invite
    BY <2>1 DEF IInv, TypeOK, OpenIsPending
  <2> QED
    BY <2>1, <2>2 DEF Invite
<1>d. \A m \in toRouter \cup toCaller : m.call \in Call
  BY MessageTyped DEF IInv, TypeOK
<1>f. \A c \in Call : Confirmed[c] \subseteq Tag
  BY <1>u DEF IInv, Truthful, Confirmed
<1>p. /\ Purged(sessions) \in Table
      /\ \A d \in Call, u \in Key :
            /\ Purged(sessions)[d][u] \in {sessions[d][u], None}
            /\ sessions[d][u] # None /\ (sessions[d][u].established \/ ~sessions[d][u].stale)
                  => Purged(sessions)[d][u] = sessions[d][u]
  BY <1>b, PurgedTable
<1>1. CASE UNCHANGED vars
  <2> USE <1>1 DEF vars, router, parties
  <2>1. TypeOK'
    BY DEF IInv, TypeOK
  <2>2. OpenIsPending'
    BY DEF IInv, OpenIsPending
  <2>3. Truthful'
    BY DEF IInv, Truthful
  <2>4. MarksAreTrue'
    BY DEF IInv, MarksAreTrue, Unmarked, Pending, Present
  <2>5. OpenIsFresh'
    BY DEF IInv, OpenIsFresh, Present
  <2>6. ConfirmedIsEstablished'
    BY DEF IInv, ConfirmedIsEstablished, Present, Confirmed
  <2>7. NoGhostAfterFailure'
    BY DEF IInv, NoGhostAfterFailure, Present
  <2> QED
    BY <2>1, <2>2, <2>3, <2>4, <2>5, <2>6, <2>7 DEF IInv
<1>2. ASSUME NEW c \in Call, NEW ep \in Endpoint, NEW sent \in BOOLEAN, HandleInvite(c, ep, sent)
      PROVE  IInv'
  <2>1. PICK fresh \in Session :
          /\ fresh.branch = forwarded + 1 /\ fresh.ep = ep /\ ~fresh.established /\ ~fresh.stale
          /\ fresh.cancelSeen => sessions[c][Initial] # None /\ sessions[c][Initial].cancelSeen
          /\ sessions' = [Purged(sessions) EXCEPT ![c][Initial] = fresh]
    <3> DEFINE fresh == [branch |-> forwarded + 1, ep |-> ep, established |-> FALSE, byeSeen |-> FALSE,
                         cancelSeen |-> Present(Purged(sessions), c, Initial)
                                        /\ sessions[c][Initial].cancelSeen,
                         stale |-> FALSE]
    <3>1. forwarded + 1 \in Branch
      BY <1>2, RouterAssumption DEF HandleInvite, IInv, TypeOK, Branch
    <3>2. Present(Purged(sessions), c, Initial) => sessions[c][Initial] # None
      BY <1>p DEF Present, Key
    <3>3. (Present(Purged(sessions), c, Initial) /\ sessions[c][Initial].cancelSeen) \in BOOLEAN
      BY <3>2, <1>b DEF Table, Key, Session, Present
    <3>4. fresh \in Session
      BY <3>1, <3>3 DEF Session
    <3> QED
      BY <1>2, <3>2, <3>4 DEF HandleInvite
  <2>2. /\ sessions' \in Table
        /\ \A d \in Call, u \in Key :
              sessions'[d][u] = IF d = c /\ u = Initial THEN fresh ELSE Purged(sessions)[d][u]
    BY <1>p, <2>1 DEF Table, Key
  <2>3. /\ forwarded' = forwarded + 1 /\ forwarded' \in 1 .. MaxInvites /\ forwarded' \in Branch
        /\ invites' = [invites EXCEPT ![forwarded'] = [call |-> c, ep |-> ep]]
        /\ invites'[forwarded'] \in Invite /\ invites'[forwarded'].call = c
        /\ invites'[forwarded'].ep = ep
        /\ open' \subseteq open \cup {forwarded'}
    BY <1>2, RouterAssumption DEF HandleInvite, IInv, TypeOK, Branch, Invite
  <2>4. /\ inviteTxn[c] # "alive" /\ inviteTxn' = [inviteTxn EXCEPT ![c] = "alive"]
        /\ UNCHANGED <<lastFinal, toRouter, toCaller, released, canceled, callee, acked, byes,
                       answered, caller, callerDone>>
    BY <1>2 DEF HandleInvite, parties
  <2>5. \A b \in open : b # forwarded' /\ invites'[b] = invites[b] /\ invites[b].call # c
    BY <1>c, <1>t, <2>3, <2>4 DEF IInv, OpenIsPending
  <2>6. Confirmed' = Confirmed
    BY <2>4 DEF Confirmed
  <2>7. TypeOK'
    <3>1. sessions' \in [Call -> [Tag \cup {Initial} -> Session \cup {None}]]
      BY <2>2 DEF Table, Key
    <3>2. /\ forwarded' \in 0 .. MaxInvites /\ invites' \in [Branch -> Invite \cup {None}]
          /\ open' \in SUBSET (1 .. forwarded')
          /\ inviteTxn' \in [Call -> {"none", "alive", "gone"}]
      <4>1. open' \subseteq 1 .. forwarded'
        BY <1>t, <1>u, <2>3
      <4>2. invites' \in [Branch -> Invite \cup {None}]
        BY <1>t, <2>3
      <4> QED
        BY <1>t, <2>3, <2>4, <4>1, <4>2
    <3> QED
      BY <3>1, <3>2, <2>4 DEF IInv, TypeOK
  <2>8. OpenIsPending'
    BY <1>a, <1>c, <1>t, <2>3, <2>4, <2>5 DEF IInv, OpenIsPending
  <2>9. Truthful'
    BY <1>t, <2>3, <2>4, MessageTyped DEF IInv, TypeOK, Truthful, OpenIsPending
  <2>10. MarksAreTrue'
    BY <1>a, <1>c, <1>p, <2>1, <2>2, <2>3, <2>4, <2>5 DEF IInv, MarksAreTrue, OpenIsFresh,
       Unmarked, Pending, Present, Key
  <2>11. OpenIsFresh'
    BY <1>c, <1>p, <2>1, <2>2, <2>3, <2>5 DEF IInv, OpenIsFresh, Present, Key
  <2>12. ConfirmedIsEstablished'
    <3> SUFFICES ASSUME NEW d \in Call, ~canceled'[d], NEW u \in Confirmed'[d] \ released'[d]
                 PROVE  Present(sessions', d, u) /\ sessions'[d][u].established
      BY DEF ConfirmedIsEstablished
    <3>1. ~canceled[d] /\ u \in Confirmed[d] \ released[d] /\ u \in Tag
      BY <2>4, <2>6, <1>f, <1>u
    <3>2. sessions[d][u] # None /\ sessions[d][u].established
      BY <3>1 DEF IInv, ConfirmedIsEstablished, Present
    <3> QED
      BY <3>1, <3>2, <1>a, <1>p, <2>2 DEF Present, Key
  <2>13. NoGhostAfterFailure'
    BY <1>a, <1>p, <1>t, <2>2, <2>4 DEF IInv, NoGhostAfterFailure, Present, Key
  <2> QED
    BY <2>7, <2>8, <2>9, <2>10, <2>11, <2>12, <2>13 DEF IInv
<1>3. ASSUME NEW c \in Call, RejectInvite(c) PROVE IInv'
  <2>1. PICK f \in MessageType : f.class = "failure" /\ toCaller' = toCaller \cup {f}
    BY <1>3 DEF RejectInvite, Message, MessageType
  <2>2. /\ inviteTxn[c] # "alive" /\ inviteTxn' = [inviteTxn EXCEPT ![c] = "gone"]
        /\ UNCHANGED <<sessions, invites, open, forwarded, lastFinal, toRouter, released,
                       canceled, callee, acked, byes, answered, caller, callerDone>>
    BY <1>3 DEF RejectInvite, parties
  <2>3. Confirmed' = Confirmed
    BY <2>1, <2>2 DEF Confirmed
  <2>4. TypeOK'
    BY <2>1, <2>2, <2>3 DEF IInv, TypeOK
  <2>5. OpenIsPending'
    BY <1>c, <1>t, <2>1, <2>2, <2>3 DEF IInv, OpenIsPending
  <2>6. Truthful'
    BY <2>1, <2>2, <2>3 DEF IInv, Truthful
  <2>7. MarksAreTrue'
    BY <2>1, <2>2, <2>3 DEF IInv, MarksAreTrue, Unmarked, Pending, Present
  <2>8. OpenIsFresh'
    BY <2>1, <2>2, <2>3 DEF IInv, OpenIsFresh, Present
  <2>9. ConfirmedIsEstablished'
    BY <2>1, <2>2, <2>3 DEF IInv, ConfirmedIsEstablished, Present
  <2>10. NoGhostAfterFailure'
    BY <1>t, <1>a, <2>1, <2>2, <2>3 DEF IInv, OpenIsPending, NoGhostAfterFailure, Present
  <2> QED
    BY <2>4, <2>5, <2>6, <2>7, <2>8, <2>9, <2>10 DEF IInv
<1>4. ASSUME NEW b \in open, InviteTimesOut(b) PROVE IInv'
  <2>1. /\ open' = open \ {b}
        /\ UNCHANGED <<sessions, invites, forwarded, inviteTxn, lastFinal, toRouter, toCaller,
                       released, canceled, callee, acked, byes, answered, caller, callerDone>>
    BY <1>4 DEF InviteTimesOut, parties
  <2>2. Confirmed' = Confirmed
    BY <2>1 DEF Confirmed
  <2>3. TypeOK'
    BY <2>1, <2>2 DEF IInv, TypeOK
  <2>4. OpenIsPending'
    BY <2>1, <2>2 DEF IInv, OpenIsPending
  <2>5. Truthful'
    BY <2>1, <2>2 DEF IInv, Truthful
  <2>6. MarksAreTrue'
    BY <2>1, <2>2 DEF IInv, MarksAreTrue, Unmarked, Pending, Present
  <2>7. OpenIsFresh'
    BY <2>1, <2>2 DEF IInv, OpenIsFresh, Present
  <2>8. ConfirmedIsEstablished'
    BY <2>1, <2>2 DEF IInv, ConfirmedIsEstablished, Present
  <2>9. NoGhostAfterFailure'
    BY <2>1, <2>2 DEF IInv, NoGhostAfterFailure, Present
  <2> QED
    BY <2>3, <2>4, <2>5, <2>6, <2>7, <2>8, <2>9 DEF IInv
<1>5. ASSUME NEW m \in toRouter, DropResponse(m) PROVE IInv'
  <2>1. /\ toRouter' = toRouter \ {m} /\ m.kind = "response"
        /\ UNCHANGED <<sessions, invites, open, forwarded, inviteTxn, lastFinal, toCaller,
                       released, canceled, callee, acked, byes, answered, caller, callerDone>>
    BY <1>5 DEF DropResponse, Upstream, parties
  <2>2. Confirmed' = Confirmed
    BY <2>1 DEF Confirmed
  <2>3. TypeOK'
    BY <2>1, <2>2 DEF IInv, TypeOK
  <2>4. OpenIsPending'
    BY <2>1, <2>2 DEF IInv, OpenIsPending
  <2>5. Truthful'
    BY <2>1, <2>2 DEF IInv, Truthful
  <2>6. MarksAreTrue'
    BY <2>1, <2>2 DEF IInv, MarksAreTrue, Unmarked, Pending, Present
  <2>7. OpenIsFresh'
    BY <2>1, <2>2 DEF IInv, OpenIsFresh, Present
  <2>8. ConfirmedIsEstablished'
    BY <2>1, <2>2 DEF IInv, ConfirmedIsEstablished, Present
  <2>9. NoGhostAfterFailure'
    BY <2>1, <2>2 DEF IInv, NoGhostAfterFailure, Present
  <2> QED
    BY <2>3, <2>4, <2>5, <2>6, <2>7, <2>8, <2>9 DEF IInv
<1>6. ASSUME NEW c \in Call, CallerCancels(c) PROVE IInv'
  <2>1. LET f == Message("CANCEL", c, None, None, None) IN
          /\ f \in MessageType
          /\ f.kind = "CANCEL" /\ f.call = c /\ f.tag = None /\ f.class = None /\ f.branch = None
    BY DEF Message, MessageType, Party
  <2>2. /\ toRouter' = toRouter \cup {Message("CANCEL", c, None, None, None)}
        /\ ~canceled[c] /\ canceled' = [canceled EXCEPT ![c] = TRUE]
        /\ UNCHANGED <<sessions, invites, open, forwarded, inviteTxn, lastFinal, toCaller,
                       released, callee, acked, byes, answered, caller, callerDone>>
    BY <1>6 DEF CallerCancels, router
  <2>3. Confirmed' = Confirmed
    BY <2>2 DEF Confirmed
  <2>4. TypeOK'
    BY <2>1, <2>2, <2>3 DEF IInv, TypeOK
  <2>5. OpenIsPending'
    BY <2>1, <2>2, <2>3 DEF IInv, OpenIsPending
  <2>6. Truthful'
    BY <1>u, <1>d, <2>1, <2>2, <2>3 DEF IInv, Truthful
  <2>7. MarksAreTrue'
    BY <1>u, <2>1, <2>2, <2>3 DEF IInv, MarksAreTrue, Unmarked, Pending, Present
  <2>8. OpenIsFresh'
    BY <2>1, <2>2, <2>3 DEF IInv, OpenIsFresh, Present
  <2>9. ConfirmedIsEstablished'
    BY <1>u, <2>1, <2>2, <2>3 DEF IInv, ConfirmedIsEstablished, Present
  <2>10. NoGhostAfterFailure'
    BY <2>1, <2>2, <2>3 DEF IInv, NoGhostAfterFailure, Present
  <2> QED
    BY <2>4, <2>5, <2>6, <2>7, <2>8, <2>9, <2>10 DEF IInv
<1>7. ASSUME NEW c \in Call, NEW t \in Tag, NEW party \in Party, SendBye(c, t, party) PROVE IInv'
  <2>1. LET f == Message("BYE", c, t, None, party) IN
          /\ f \in MessageType
          /\ f.kind = "BYE" /\ f.call = c /\ f.tag = t /\ f.class = party /\ f.branch = None
    BY DEF Message, MessageType, Party
  <2>2. /\ toRouter' = toRouter \cup {Message("BYE", c, t, None, party)}
        /\ t \in caller[c] /\ byes' = [byes EXCEPT ![c] = @ \cup {<<t, party>>}]
        /\ UNCHANGED <<sessions, invites, open, forwarded, inviteTxn, lastFinal, toCaller,
                       released, callee, acked, canceled, answered, caller, callerDone>>
    BY <1>7 DEF SendBye, router, IInv, Truthful
  <2>3. Confirmed' = Confirmed
    BY <2>2 DEF Confirmed
  <2>4. TypeOK'
    <3>1. byes' \in [Call -> SUBSET (Tag \X Party)]
      <4>1. byes \in [Call -> SUBSET (Tag \X Party)]
        BY DEF IInv, TypeOK
      <4> QED
        BY <4>1, <2>2
    <3> QED
      BY <3>1, <2>1, <2>2 DEF IInv, TypeOK
  <2>5. OpenIsPending'
    BY <2>1, <2>2, <2>3 DEF IInv, OpenIsPending
  <2>6. Truthful'
    BY <2>1, <2>2, <2>3 DEF IInv, Truthful
  <2>7. MarksAreTrue'
    BY <2>1, <2>2, <2>3 DEF IInv, MarksAreTrue, Unmarked, Pending, Present
  <2>8. OpenIsFresh'
    BY <2>1, <2>2, <2>3 DEF IInv, OpenIsFresh, Present
  <2>9. ConfirmedIsEstablished'
    BY <2>1, <2>2, <2>3 DEF IInv, ConfirmedIsEstablished, Present
  <2>10. NoGhostAfterFailure'
    BY <2>1, <2>2, <2>3 DEF IInv, NoGhostAfterFailure, Present
  <2> QED
    BY <2>4, <2>5, <2>6, <2>7, <2>8, <2>9, <2>10 DEF IInv
<1>8. ASSUME NEW c \in Call, NEW t \in Tag \cup {Initial}, EntryGetsStale(c, t) PROVE IInv'
  <2>1. /\ sessions[c][t] # None /\ sessions[c][t] \in Session
        /\ \A b \in open : invites[b].call # c
        /\ UNCHANGED <<invites, open, forwarded, inviteTxn, lastFinal, toRouter, toCaller,
                       released, canceled, callee, acked, byes, answered, caller, callerDone>>
    BY <1>8, <1>b DEF EntryGetsStale, parties, Present, Table, Key
  <2>2. PICK s \in Session :
          /\ s.branch = sessions[c][t].branch /\ s.ep = sessions[c][t].ep
          /\ s.cancelSeen = sessions[c][t].cancelSeen
          /\ s.established = sessions[c][t].established
          /\ sessions' = [sessions EXCEPT ![c][t] = s]
    <3> DEFINE s == [sessions[c][t] EXCEPT !.stale = TRUE]
    <3>1. s \in Session
      BY <2>1 DEF Session
    <3>2. sessions' = [sessions EXCEPT ![c][t] = s]
      BY <1>8 DEF EntryGetsStale
    <3> QED
      BY <2>1, <3>1, <3>2 DEF Session
  <2>3. /\ sessions' \in Table
        /\ \A d \in Call, u \in Key :
              sessions'[d][u] = IF d = c /\ u = t THEN s ELSE sessions[d][u]
    BY <1>b, <2>2 DEF Table, Key
  <2>4. Confirmed' = Confirmed
    BY <2>1 DEF Confirmed
  <2>5. TypeOK'
    <3>1. sessions' \in [Call -> [Tag \cup {Initial} -> Session \cup {None}]]
      BY <2>3 DEF Table, Key
    <3> QED
      BY <3>1, <2>1 DEF IInv, TypeOK
  <2>6. OpenIsPending'
    BY <2>1, <2>2, <2>3, <2>4 DEF IInv, OpenIsPending
  <2>7. Truthful'
    BY <2>1, <2>2, <2>3, <2>4 DEF IInv, Truthful
  <2>8. MarksAreTrue'
    BY <1>a, <1>c, <2>1, <2>2, <2>3 DEF IInv, MarksAreTrue, Unmarked, Pending, Present, Key
  <2>9. OpenIsFresh'
    BY <1>a, <1>c, <2>1, <2>2, <2>3 DEF IInv, OpenIsFresh, Present, Key
  <2>10. ConfirmedIsEstablished'
    <3> SUFFICES ASSUME NEW d \in Call, ~canceled'[d], NEW u \in Confirmed'[d] \ released'[d]
                 PROVE  Present(sessions', d, u) /\ sessions'[d][u].established
      BY DEF ConfirmedIsEstablished
    <3>1. ~canceled[d] /\ u \in Confirmed[d] \ released[d] /\ u \in Tag
      BY <2>1, <2>4, <1>f, <1>u
    <3>2. sessions[d][u] # None /\ sessions[d][u].established
      BY <3>1 DEF IInv, ConfirmedIsEstablished, Present
    <3> QED
      BY <3>1, <3>2, <1>a, <2>2, <2>3 DEF Present, Key
  <2>11. NoGhostAfterFailure'
    BY <1>a, <2>1, <2>2, <2>3 DEF IInv, NoGhostAfterFailure, Present, Key
  <2> QED
    BY <2>5, <2>6, <2>7, <2>8, <2>9, <2>10, <2>11 DEF IInv
<1>9. ASSUME NEW m \in toCaller, CallerReceives(m) PROVE IInv'
  <2>1. /\ m \in MessageType /\ m.call \in Call /\ (m.class = "2xx" => m.tag \in Tag)
    BY MessageTyped DEF IInv, TypeOK, Truthful
  <2>2. LET f == Message("ACK", m.call, m.tag, None, None) IN
          /\ m.class = "2xx" => f \in MessageType
          /\ f.kind = "ACK" /\ f.call = m.call /\ f.tag = m.tag
    BY <2>1 DEF Message, MessageType
  <2>3. /\ toCaller' = toCaller \ {m} /\ callerDone' = [callerDone EXCEPT ![m.call] = TRUE]
        /\ UNCHANGED <<sessions, invites, open, forwarded, inviteTxn, lastFinal, released,
                       callee, acked, canceled, answered, byes>>
        /\ IF m.class = "2xx"
           THEN /\ caller' = [caller EXCEPT ![m.call] = @ \cup {m.tag}]
                /\ toRouter' = toRouter \cup {Message("ACK", m.call, m.tag, None, None)}
           ELSE UNCHANGED <<caller, toRouter>>
    BY <1>9 DEF CallerReceives, router
  <2>4. Confirmed' = Confirmed
    <3>1. \A d \in Call : Confirmed'[d] = Confirmed[d]
      BY <1>u, <2>1, <2>3 DEF Confirmed
    <3> QED
      BY <3>1 DEF Confirmed
  <2>5. /\ caller' \in [Call -> SUBSET Tag] /\ \A d \in Call : caller[d] \subseteq caller'[d]
        /\ m.class = "2xx" => m.tag \in caller'[m.call]
    BY <1>u, <2>1, <2>3
  <2>6. TypeOK'
    BY <2>1, <2>2, <2>3, <2>5 DEF IInv, TypeOK
  <2>7. OpenIsPending'
    BY <2>1, <2>2, <2>3, <2>4, <2>5 DEF IInv, OpenIsPending
  <2>8. Truthful'
    BY <1>d, <2>1, <2>2, <2>3, <2>5 DEF IInv, Truthful
  <2>9. MarksAreTrue'
    BY <2>2, <2>3 DEF IInv, MarksAreTrue, Unmarked, Pending, Present
  <2>10. OpenIsFresh'
    BY <2>1, <2>2, <2>3, <2>4, <2>5 DEF IInv, OpenIsFresh, Present
  <2>11. ConfirmedIsEstablished'
    BY <2>1, <2>2, <2>3, <2>4, <2>5 DEF IInv, ConfirmedIsEstablished, Present
  <2>12. NoGhostAfterFailure'
    BY <2>1, <2>2, <2>3, <2>4, <2>5 DEF IInv, NoGhostAfterFailure, Present
  <2> QED
    BY <2>6, <2>7, <2>8, <2>9, <2>10, <2>11, <2>12 DEF IInv
<1>10. ASSUME NEW b \in Branch, NEW t \in Tag, NEW class \in {"1xx", "2xx", "failure"},
             CalleeResponds(b, t, class)
      PROVE IInv'
  <2>1. invites[b] # None /\ invites[b].call \in Call /\ b \in 1 .. forwarded
    BY <1>10, <1>a, <1>t DEF CalleeResponds, IInv, OpenIsPending, Invite
  <2>2. LET f == Message("response", invites[b].call, t, b, class) IN
          /\ f \in MessageType
          /\ f.kind = "response" /\ f.call = invites[b].call /\ f.tag = t /\ f.branch = b
    BY <2>1 DEF Message, MessageType
  <2>3. /\ toRouter' = toRouter \cup {Message("response", invites[b].call, t, b, class)}
        /\ UNCHANGED <<sessions, invites, open, forwarded, inviteTxn, lastFinal, toCaller,
                       released, acked, canceled, caller, callerDone, byes>>
    BY <1>10 DEF CalleeResponds, router
  <2>4. answered' \in SUBSET Branch /\ callee' \in [Call -> SUBSET Tag]
    BY <1>10, <2>1 DEF CalleeResponds, IInv, TypeOK
  <2>5. Confirmed' = Confirmed
    BY <2>3 DEF Confirmed
  <2>6. TypeOK'
    BY <2>2, <2>3, <2>4 DEF IInv, TypeOK
  <2>7. OpenIsPending'
    BY <2>1, <2>2, <2>3, <2>4, <2>5 DEF IInv, OpenIsPending
  <2>8. Truthful'
    BY <2>1, <2>2, <2>3 DEF IInv, Truthful
  <2>9. MarksAreTrue'
    BY <2>2, <2>3 DEF IInv, MarksAreTrue, Unmarked, Pending, Present
  <2>10. OpenIsFresh'
    BY <2>1, <2>2, <2>3, <2>4, <2>5 DEF IInv, OpenIsFresh, Present
  <2>11. ConfirmedIsEstablished'
    BY <2>1, <2>2, <2>3, <2>4, <2>5 DEF IInv, ConfirmedIsEstablished, Present
  <2>12. NoGhostAfterFailure'
    BY <2>1, <2>2, <2>3, <2>4, <2>5 DEF IInv, NoGhostAfterFailure, Present
  <2> QED
    BY <2>6, <2>7, <2>8, <2>9, <2>10, <2>11, <2>12 DEF IInv
<1>11. ASSUME NEW m \in toRouter, HandleCancel(m) PROVE IInv'
  <2>1. /\ m.kind = "CANCEL" /\ m \in MessageType /\ m.call \in Call /\ canceled[m.call]
        /\ m = Message("CANCEL", m.call, None, None, None)
        /\ UNCHANGED <<invites, open, forwarded, inviteTxn, lastFinal, toCaller, caller,
                       callerDone, canceled, answered, callee, byes, acked, released>>
    BY <1>11, MessageTyped DEF HandleCancel, Receive, parties, IInv, TypeOK, Truthful
  <2>2. /\ sessions' \in Table
        /\ \A d \in Call, u \in Key :
              d # m.call \/ u # Initial => sessions'[d][u] = sessions[d][u]
        /\ sessions[m.call][Initial] = None => sessions'[m.call][Initial] = None
        /\ sessions[m.call][Initial] # None =>
              /\ sessions'[m.call][Initial] # None
              /\ sessions'[m.call][Initial].branch = sessions[m.call][Initial].branch
              /\ sessions'[m.call][Initial].ep = sessions[m.call][Initial].ep
              /\ sessions'[m.call][Initial].stale = sessions[m.call][Initial].stale
              /\ sessions'[m.call][Initial].established = sessions[m.call][Initial].established
    <3> DEFINE s == [sessions[m.call][Initial] EXCEPT !.cancelSeen = TRUE]
    <3>1. CASE sessions[m.call][Initial] = None
      BY <1>11, <3>1, <1>b DEF HandleCancel, Present
    <3>2. CASE sessions[m.call][Initial] # None
      <4>1. sessions[m.call][Initial] \in Session
        BY <3>2, <2>1, <1>b DEF Table, Key
      <4>2. /\ s \in Session /\ s.branch = sessions[m.call][Initial].branch
            /\ s.ep = sessions[m.call][Initial].ep /\ s.stale = sessions[m.call][Initial].stale
            /\ s.established = sessions[m.call][Initial].established
        BY <4>1 DEF Session
      <4>3. sessions' = [sessions EXCEPT ![m.call][Initial] = s]
        BY <1>11, <3>2 DEF HandleCancel, Present
      <4> HIDE DEF s
      <4>4. sessions' \in Table
        BY <4>2, <4>3, <2>1, <1>b DEF Table, Key
      <4>5. ASSUME NEW d \in Call, NEW u \in Key
            PROVE  sessions'[d][u] = IF d = m.call /\ u = Initial THEN s ELSE sessions[d][u]
        BY <4>3, <2>1, <1>b DEF Table, Key
      <4> QED
        BY <4>2, <4>4, <4>5, <3>2, <2>1, <1>a DEF Key
    <3> QED
      BY <3>1, <3>2
  <2>3. toRouter' = toRouter \ {m}
    BY <1>11 DEF HandleCancel
  <2>4. Confirmed' = Confirmed
    BY <2>1 DEF Confirmed
  <2>5. TypeOK'
    <3>1. sessions' \in [Call -> [Tag \cup {Initial} -> Session \cup {None}]]
      BY <2>2 DEF Table, Key
    <3> QED
      BY <3>1, <2>1, <2>3 DEF IInv, TypeOK
  <2>6. OpenIsPending'
    BY <2>1 DEF IInv, OpenIsPending
  <2>7. Truthful'
    BY <2>1, <2>3 DEF IInv, Truthful
  <2>8. MarksAreTrue'
    <3>1. ASSUME NEW d \in Call, Unmarked(d)' PROVE d # m.call /\ Unmarked(d)
      BY <3>1, <2>1, <2>3 DEF Unmarked, IInv, Truthful
    <3>2. ASSUME NEW d \in Call, Unmarked(d)'
          PROVE  \A u \in Key : sessions'[d][u] = sessions[d][u]
      BY <3>1, <3>2, <2>2
    <3> QED
      BY <3>1, <3>2, <2>1 DEF IInv, MarksAreTrue, Pending, Present, Key
  <2>9. OpenIsFresh'
    BY <1>c, <2>1, <2>2 DEF IInv, OpenIsFresh, Present, Key
  <2>10. ConfirmedIsEstablished'
    <3> SUFFICES ASSUME NEW d \in Call, ~canceled'[d], NEW u \in Confirmed'[d] \ released'[d]
                 PROVE  Present(sessions', d, u) /\ sessions'[d][u].established
      BY DEF ConfirmedIsEstablished
    <3>1. ~canceled[d] /\ u \in Confirmed[d] \ released[d] /\ u \in Tag
      BY <2>1, <2>4, <1>f, <1>u
    <3>2. sessions[d][u] # None /\ sessions[d][u].established
      BY <3>1 DEF IInv, ConfirmedIsEstablished, Present
    <3> QED
      BY <3>1, <3>2, <2>2, <1>a DEF Present, Key
  <2>11. NoGhostAfterFailure'
    BY <2>1, <2>2 DEF IInv, NoGhostAfterFailure, Present, Key
  <2> QED
    BY <2>5, <2>6, <2>7, <2>8, <2>9, <2>10, <2>11 DEF IInv
<1>12. ASSUME NEW m \in toRouter, HandleAck(m) PROVE IInv'
  <2>1. /\ m.kind = "ACK" /\ m \in MessageType /\ m.call \in Call /\ m.tag \in Tag
        /\ m.tag \in caller[m.call]
        /\ UNCHANGED <<invites, open, forwarded, inviteTxn, lastFinal, toCaller, caller,
                       callerDone, canceled, answered, callee, byes, released>>
    BY <1>12, MessageTyped DEF HandleAck, Receive, IInv, TypeOK, Truthful
  <2>2. /\ sessions' \in Table
        /\ \A d \in Call, u \in Key : sessions'[d][u] \in {sessions[d][u], None}
        /\ \A d \in Call : Unmarked(d) => \A u \in Key : sessions'[d][u] = sessions[d][u]
    <3> DEFINE c == m.call
    <3>1. PICK T : T \subseteq Key /\ sessions' \in {sessions, Erased(sessions, c, T)}
                   /\ (sessions' = sessions \/ ~Unmarked(c))
      <4>1. Present(sessions, c, m.tag) /\ sessions[c][m.tag].cancelSeen => ~Unmarked(c)
        BY <2>1 DEF IInv, MarksAreTrue
      <4>2. Present(sessions, c, Initial) /\ sessions[c][Initial].cancelSeen => ~Unmarked(c)
        BY <2>1 DEF IInv, MarksAreTrue
      <4>3. {Initial, m.tag} \subseteq Key /\ {Initial} \subseteq Key
        BY <2>1 DEF Key
      <4> QED
        BY <1>12, <4>1, <4>2, <4>3 DEF HandleAck
    <3> QED
      BY <3>1, <2>1, <1>b, ErasedTable
  <2>3. toRouter' = toRouter \ {m} /\ acked' \in [Call -> SUBSET Tag]
        /\ \A d \in Call : acked'[d] \subseteq caller[d]
    BY <1>12, <1>u, <2>1 DEF HandleAck, IInv, Truthful
  <2>4. Confirmed' = Confirmed
    BY <2>1 DEF Confirmed
  <2>5. TypeOK'
    <3>1. sessions' \in [Call -> [Tag \cup {Initial} -> Session \cup {None}]]
      BY <2>2 DEF Table, Key
    <3> QED
      BY <3>1, <2>1, <2>3 DEF IInv, TypeOK
  <2>6. OpenIsPending'
    BY <2>1 DEF IInv, OpenIsPending
  <2>7. Truthful'
    BY <2>1, <2>3 DEF IInv, Truthful
  <2>8. MarksAreTrue'
    <3>1. ASSUME NEW d \in Call, Unmarked(d)' PROVE Unmarked(d)
      BY <3>1, <2>1, <2>3 DEF Unmarked
    <3> QED
      BY <3>1, <2>1, <2>2 DEF IInv, MarksAreTrue, Pending, Present, Key
  <2>9. OpenIsFresh'
    BY <1>a, <1>c, <2>1, <2>2 DEF IInv, OpenIsFresh, Present, Key
  <2>10. ConfirmedIsEstablished'
    <3> SUFFICES ASSUME NEW d \in Call, ~canceled'[d], NEW u \in Confirmed'[d] \ released'[d]
                 PROVE  Present(sessions', d, u) /\ sessions'[d][u].established
      BY DEF ConfirmedIsEstablished
    <3>1. ~canceled[d] /\ u \in Confirmed[d] \ released[d] /\ u \in Tag
      BY <2>1, <2>4, <1>f, <1>u
    <3>2. sessions[d][u] # None /\ sessions[d][u].established
      BY <3>1 DEF IInv, ConfirmedIsEstablished, Present
    <3> QED
      BY <3>1, <3>2, <2>2, <1>a DEF Present, Key, Unmarked
  <2>11. NoGhostAfterFailure'
    BY <1>a, <2>1, <2>2 DEF IInv, NoGhostAfterFailure, Present, Key
  <2> QED
    BY <2>5, <2>6, <2>7, <2>8, <2>9, <2>10, <2>11 DEF IInv
<1>13. ASSUME NEW m \in toRouter, HandleBye(m) PROVE IInv'
  <2>1. /\ m.kind = "BYE" /\ m \in MessageType /\ m.call \in Call /\ m.tag \in Tag
        /\ UNCHANGED <<invites, open, forwarded, inviteTxn, lastFinal, toCaller, caller,
                       callerDone, canceled, answered, callee, byes, acked, released>>
    BY <1>13, MessageTyped DEF HandleBye, Receive, parties, IInv, TypeOK, Truthful
  <2>2. /\ sessions' \in Table
        /\ \A d \in Call, u \in Key :
              /\ sessions'[d][u] = None <=> sessions[d][u] = None
              /\ sessions[d][u] # None =>
                    /\ sessions'[d][u].branch = sessions[d][u].branch
                    /\ sessions'[d][u].ep = sessions[d][u].ep
                    /\ sessions'[d][u].stale = sessions[d][u].stale
                    /\ sessions'[d][u].cancelSeen = sessions[d][u].cancelSeen
                    /\ sessions'[d][u].established = sessions[d][u].established
    <3> DEFINE s == [sessions[m.call][m.tag] EXCEPT !.byeSeen = TRUE]
    <3>1. CASE sessions[m.call][m.tag] = None
      BY <1>13, <3>1, <1>b DEF HandleBye, Present
    <3>2. CASE sessions[m.call][m.tag] # None
      <4>1. sessions[m.call][m.tag] \in Session
        BY <3>2, <2>1, <1>b DEF Table, Key
      <4>2. /\ s \in Session /\ s.branch = sessions[m.call][m.tag].branch
            /\ s.ep = sessions[m.call][m.tag].ep /\ s.stale = sessions[m.call][m.tag].stale
            /\ s.cancelSeen = sessions[m.call][m.tag].cancelSeen
            /\ s.established = sessions[m.call][m.tag].established
        BY <4>1 DEF Session
      <4>3. sessions' = [sessions EXCEPT ![m.call][m.tag] = s]
        BY <1>13, <3>2 DEF HandleBye, Present
      <4> HIDE DEF s
      <4>4. sessions' \in Table
        BY <4>2, <4>3, <2>1, <1>b DEF Table, Key
      <4>5. ASSUME NEW d \in Call, NEW u \in Key
            PROVE  sessions'[d][u] = IF d = m.call /\ u = m.tag THEN s ELSE sessions[d][u]
        BY <4>3, <2>1, <1>b DEF Table, Key
      <4> QED
        BY <4>2, <4>4, <4>5, <3>2, <1>a
    <3> QED
      BY <3>1, <3>2
  <2>3. \/ toRouter' = toRouter \ {m}
        \/ \E f \in MessageType : /\ f.kind = "bye_response" /\ f.tag \in Tag
                                  /\ toRouter' = (toRouter \ {m}) \cup {f}
    <3>1. ASSUME NEW class \in {"2xx", "failure", None}
          PROVE  LET f == Message("bye_response", m.call, m.tag, None, class) IN
                 f \in MessageType /\ f.kind = "bye_response" /\ f.tag = m.tag
      BY <2>1 DEF Message, MessageType
    <3> QED
      BY <1>13, <2>1, <3>1 DEF HandleBye
  <2>4. Confirmed' = Confirmed
    BY <2>1 DEF Confirmed
  <2>5. TypeOK'
    <3>1. sessions' \in [Call -> [Tag \cup {Initial} -> Session \cup {None}]]
      BY <2>2 DEF Table, Key
    <3>2. toRouter' \in SUBSET MessageType
      BY <2>3 DEF IInv, TypeOK
    <3> QED
      BY <3>1, <3>2, <2>1 DEF IInv, TypeOK
  <2>6. OpenIsPending'
    BY <2>1 DEF IInv, OpenIsPending
  <2>7. Truthful'
    BY <2>1, <2>3 DEF IInv, Truthful
  <2>8. MarksAreTrue'
    <3>1. ASSUME NEW d \in Call, Unmarked(d)' PROVE Unmarked(d)
      BY <3>1, <2>1, <2>3 DEF Unmarked
    <3> QED
      BY <3>1, <2>1, <2>2 DEF IInv, MarksAreTrue, Pending, Present, Key
  <2>9. OpenIsFresh'
    BY <1>c, <2>1, <2>2 DEF IInv, OpenIsFresh, Present, Key
  <2>10. ConfirmedIsEstablished'
    <3> SUFFICES ASSUME NEW d \in Call, ~canceled'[d], NEW u \in Confirmed'[d] \ released'[d]
                 PROVE  Present(sessions', d, u) /\ sessions'[d][u].established
      BY DEF ConfirmedIsEstablished
    <3>1. ~canceled[d] /\ u \in Confirmed[d] \ released[d] /\ u \in Tag
      BY <2>1, <2>4, <1>f, <1>u
    <3>2. sessions[d][u] # None /\ sessions[d][u].established
      BY <3>1 DEF IInv, ConfirmedIsEstablished, Present
    <3> QED
      BY <3>1, <3>2, <2>2, <1>a DEF Present, Key
  <2>11. NoGhostAfterFailure'
    BY <2>1, <2>2 DEF IInv, NoGhostAfterFailure, Present, Key
  <2> QED
    BY <2>5, <2>6, <2>7, <2>8, <2>9, <2>10, <2>11 DEF IInv
<1>14. ASSUME NEW m \in toRouter, HandleByeResponse(m) PROVE IInv'
  <2>1. /\ m.kind = "bye_response" /\ m \in MessageType /\ m.call \in Call /\ m.tag \in Tag
        /\ UNCHANGED <<invites, open, forwarded, inviteTxn, lastFinal, toCaller, caller,
                       callerDone, canceled, answered, callee, byes, acked>>
    BY <1>14, MessageTyped DEF HandleByeResponse, Receive, parties, IInv, TypeOK, Truthful
  <2>2. /\ sessions' \in Table
        /\ \A d \in Call, u \in Key :
              /\ sessions'[d][u] \in {sessions[d][u], None}
              /\ sessions'[d][u] # sessions[d][u] => d = m.call /\ u = m.tag /\ m.class = "2xx"
    <3>1. \/ sessions' = sessions
          \/ m.class = "2xx" /\ sessions' = Erased(sessions, m.call, {m.tag})
      BY <1>14 DEF HandleByeResponse
    <3> QED
      BY <3>1, <2>1, <1>b, ErasedTable
  <2>3. /\ toRouter' = toRouter \ {m} /\ released' \in [Call -> SUBSET Tag]
        /\ \A d \in Call : released[d] \subseteq released'[d]
        /\ m.class = "2xx" => m.tag \in released'[m.call]
    BY <1>14, <1>u, <2>1 DEF HandleByeResponse
  <2>4. Confirmed' = Confirmed
    BY <2>1 DEF Confirmed
  <2>5. TypeOK'
    <3>1. sessions' \in [Call -> [Tag \cup {Initial} -> Session \cup {None}]]
      BY <2>2 DEF Table, Key
    <3> QED
      BY <3>1, <2>1, <2>3 DEF IInv, TypeOK
  <2>6. OpenIsPending'
    BY <2>1 DEF IInv, OpenIsPending
  <2>7. Truthful'
    BY <2>1, <2>3 DEF IInv, Truthful
  <2>8. MarksAreTrue'
    <3>1. ASSUME NEW d \in Call, Unmarked(d)' PROVE Unmarked(d)
      BY <3>1, <2>1, <2>3 DEF Unmarked
    <3> QED
      BY <3>1, <1>a, <2>1, <2>2 DEF IInv, MarksAreTrue, Pending, Present, Key
  <2>9. OpenIsFresh'
    BY <1>a, <1>c, <2>1, <2>2 DEF IInv, OpenIsFresh, Present, Key
  <2>10. ConfirmedIsEstablished'
    <3> SUFFICES ASSUME NEW d \in Call, ~canceled'[d], NEW u \in Confirmed'[d] \ released'[d]
                 PROVE  Present(sessions', d, u) /\ sessions'[d][u].established
      BY DEF ConfirmedIsEstablished
    <3>1. ~canceled[d] /\ u \in Confirmed[d] \ released[d] /\ u \in Tag
      BY <2>1, <2>3, <2>4, <1>f, <1>u
    <3>2. sessions[d][u] # None /\ sessions[d][u].established
      BY <3>1 DEF IInv, ConfirmedIsEstablished, Present
    <3> QED
      BY <3>1, <3>2, <2>2, <2>3, <1>a DEF Present, Key
  <2>11. NoGhostAfterFailure'
    BY <1>a, <2>1, <2>2 DEF IInv, NoGhostAfterFailure, Present, Key
  <2> QED
    BY <2>5, <2>6, <2>7, <2>8, <2>9, <2>10, <2>11 DEF IInv
<1>15. ASSUME NEW m \in toRouter, HandleProvisional(m) PROVE IInv'
  <2>1. /\ m \in MessageType /\ m.kind = "response" /\ m.call \in Call /\ m.tag \in Tag
        /\ m.class = "1xx"
        /\ m.branch \in open /\ invites[m.branch].call = m.call /\ inviteTxn[m.call] = "alive"
        /\ toRouter' = toRouter \ {m}
        /\ UNCHANGED <<invites, forwarded, released, canceled, callee, acked, byes, answered,
                       caller, callerDone>>
        /\ UNCHANGED <<open, inviteTxn, lastFinal, toCaller>>
    BY <1>15, MessageTyped DEF HandleProvisional, Upstream, parties, IInv, TypeOK, Truthful,
       OpenIsPending
  <2>2. /\ sessions' \in Table
        /\ \A d \in Call, u \in Key :
              d # m.call \/ u # m.tag => sessions'[d][u] = Purged(sessions)[d][u]
        /\ sessions'[m.call][m.tag] # None =>
              \E k \in {m.tag, Initial} :
                 /\ sessions[m.call][k] # None
                 /\ sessions'[m.call][m.tag].cancelSeen = sessions[m.call][k].cancelSeen
        /\ sessions[m.call][m.tag] # None /\ sessions[m.call][m.tag].established =>
              sessions'[m.call][m.tag] # None /\ sessions'[m.call][m.tag].established
    <3> DEFINE P == Purged(sessions)
           R == DialogRecorded(P, m.call, m.tag, FALSE)
    <3>1. sessions' = R
      BY <1>15 DEF HandleProvisional
    <3>2. /\ R \in Table
          /\ \A d \in Call, u \in Key : d # m.call \/ u # m.tag => R[d][u] = P[d][u]
          /\ R[m.call][m.tag] # None =>
                \E k \in {m.tag, Initial} :
                   P[m.call][k] # None /\ R[m.call][m.tag].cancelSeen = P[m.call][k].cancelSeen
          /\ P[m.call][m.tag] # None \/ P[m.call][Initial] # None =>
                R[m.call][m.tag] # None /\ (FALSE => R[m.call][m.tag].established)
          /\ P[m.call][m.tag] # None /\ P[m.call][m.tag].established =>
                R[m.call][m.tag].established
      BY <1>p, <2>1, RecordedTable
    <3> HIDE DEF R
    <3> QED
      BY <1>a, <1>p, <2>1, <3>1, <3>2 DEF Key
  <2>3. Confirmed' = Confirmed
    BY <2>1 DEF Confirmed
  <2>4. TypeOK'
    <3>1. sessions' \in [Call -> [Tag \cup {Initial} -> Session \cup {None}]]
      BY <2>2 DEF Table, Key
    <3> QED
      BY <3>1, <2>1 DEF IInv, TypeOK
  <2>5. OpenIsPending'
    BY <2>1 DEF IInv, OpenIsPending
  <2>6. Truthful'
    BY <2>1 DEF IInv, Truthful
  <2>7. MarksAreTrue'
    <3>1. ASSUME NEW d \in Call, Unmarked(d)' PROVE Unmarked(d)
      BY <3>1, <2>1 DEF Unmarked
    <3> QED
      BY <3>1, <1>a, <1>c, <1>p, <2>1, <2>2 DEF IInv, MarksAreTrue, OpenIsFresh, Pending,
         Present, Key
  <2>8. OpenIsFresh'
    BY <1>a, <1>c, <1>p, <2>1, <2>2 DEF IInv, OpenIsFresh, Present, Key
  <2>9. ConfirmedIsEstablished'
    <3> SUFFICES ASSUME NEW d \in Call, ~canceled'[d], NEW u \in Confirmed'[d] \ released'[d]
                 PROVE  Present(sessions', d, u) /\ sessions'[d][u].established
      BY DEF ConfirmedIsEstablished
    <3>1. ~canceled[d] /\ u \in Confirmed[d] \ released[d] /\ u \in Tag
      BY <2>1, <2>3, <1>f, <1>u
    <3>2. sessions[d][u] # None /\ sessions[d][u].established
      BY <3>1 DEF IInv, ConfirmedIsEstablished, Present
    <3> QED
      BY <3>1, <3>2, <1>a, <1>p, <2>1, <2>2 DEF Present, Key
  <2>10. NoGhostAfterFailure'
    BY <1>a, <1>p, <2>1, <2>2 DEF IInv, NoGhostAfterFailure, Present, Key
  <2> QED
    BY <2>4, <2>5, <2>6, <2>7, <2>8, <2>9, <2>10 DEF IInv
<1>16. ASSUME NEW m \in toRouter, HandleSuccess(m) PROVE IInv'
  <2>1. /\ m \in MessageType /\ m.kind = "response" /\ m.call \in Call /\ m.tag \in Tag
        /\ m.class = "2xx"
        /\ m.branch \in open /\ invites[m.branch].call = m.call /\ inviteTxn[m.call] = "alive"
        /\ toRouter' = toRouter \ {m}
        /\ UNCHANGED <<invites, forwarded, released, canceled, callee, acked, byes, answered,
                       caller, callerDone>>
    BY <1>16, MessageTyped DEF HandleSuccess, Upstream, parties, IInv, TypeOK, Truthful,
       OpenIsPending
  <2>2. /\ open' = open \ {m.branch} /\ inviteTxn' = [inviteTxn EXCEPT ![m.call] = "gone"]
        /\ lastFinal' = [lastFinal EXCEPT ![m.call] = "2xx"] /\ toCaller' = toCaller \cup {m}
    BY <1>16 DEF HandleSuccess
  <2>3. /\ sessions' \in Table
        /\ \A d \in Call, u \in Key : d # m.call => sessions'[d][u] = Purged(sessions)[d][u]
        /\ sessions'[m.call][Initial] = None
        /\ \A u \in Tag \ {m.tag} : sessions'[m.call][u] = Purged(sessions)[m.call][u]
        /\ sessions'[m.call][m.tag] # None =>
              \E k \in {m.tag, Initial} :
                 /\ sessions[m.call][k] # None
                 /\ sessions'[m.call][m.tag].cancelSeen = sessions[m.call][k].cancelSeen
        /\ Purged(sessions)[m.call][m.tag] # None \/ Purged(sessions)[m.call][Initial] # None =>
              sessions'[m.call][m.tag] # None /\ sessions'[m.call][m.tag].established
    <3> DEFINE P == Purged(sessions)
           R == DialogRecorded(P, m.call, m.tag, TRUE)
    <3>1. sessions' = Erased(R, m.call, {Initial})
      BY <1>16 DEF HandleSuccess
    <3>2. /\ R \in Table
          /\ \A d \in Call, u \in Key : d # m.call \/ u # m.tag => R[d][u] = P[d][u]
          /\ R[m.call][m.tag] # None =>
                \E k \in {m.tag, Initial} :
                   P[m.call][k] # None /\ R[m.call][m.tag].cancelSeen = P[m.call][k].cancelSeen
          /\ P[m.call][m.tag] # None \/ P[m.call][Initial] # None =>
                R[m.call][m.tag] # None /\ (TRUE => R[m.call][m.tag].established)
          /\ P[m.call][m.tag] # None /\ P[m.call][m.tag].established =>
                R[m.call][m.tag].established
      BY <1>p, <2>1, RecordedTable
    <3>3. /\ sessions' \in Table
          /\ \A d \in Call, u \in Key :
                sessions'[d][u] = IF d = m.call /\ u = Initial THEN None ELSE R[d][u]
      <4> HIDE DEF R
      <4> QED
        BY <2>1, <3>1, <3>2, ErasedTable
    <3> HIDE DEF R
    <3> QED
      BY <1>a, <1>p, <2>1, <3>2, <3>3 DEF Key
  <2>4. \A b \in open' : b \in open /\ invites[b].call # m.call
    BY <2>1, <2>2 DEF IInv, OpenIsPending
  <2>5. \A d \in Call : Confirmed'[d] = IF d = m.call THEN Confirmed[d] \cup {m.tag} ELSE Confirmed[d]
    BY <2>1, <2>2 DEF Confirmed
  <2>6. TypeOK'
    <3>1. sessions' \in [Call -> [Tag \cup {Initial} -> Session \cup {None}]]
      BY <2>3 DEF Table, Key
    <3>2. open' \in SUBSET (1 .. forwarded') /\ toCaller' \in SUBSET MessageType
      BY <1>u, <2>1, <2>2 DEF IInv, TypeOK
    <3> QED
      BY <3>1, <3>2, <2>1, <2>2 DEF IInv, TypeOK
  <2>7. OpenIsPending'
    BY <1>c, <1>t, <2>1, <2>2, <2>4 DEF IInv, OpenIsPending
  <2>8. Truthful'
    BY <2>1, <2>2 DEF IInv, Truthful
  <2>9. MarksAreTrue'
    <3>1. ASSUME NEW d \in Call, Unmarked(d)' PROVE Unmarked(d)
      BY <3>1, <2>1 DEF Unmarked
    <3> QED
      BY <3>1, <1>a, <1>c, <1>p, <2>1, <2>2, <2>3, <2>4 DEF IInv, MarksAreTrue, OpenIsFresh,
         Pending, Present, Key
  <2>10. OpenIsFresh'
    BY <1>a, <1>c, <1>p, <2>1, <2>2, <2>3, <2>4 DEF IInv, OpenIsFresh, Present, Key
  <2>11. ConfirmedIsEstablished'
    <3> SUFFICES ASSUME NEW d \in Call, ~canceled'[d], NEW u \in Confirmed'[d] \ released'[d]
                 PROVE  Present(sessions', d, u) /\ sessions'[d][u].established
      BY DEF ConfirmedIsEstablished
    <3>1. CASE d = m.call /\ u = m.tag
      <4>1. sessions[d][Initial] # None /\ ~sessions[d][Initial].stale
        BY <3>1, <2>1 DEF IInv, MarksAreTrue, Unmarked, Pending, OpenIsFresh, Present
      <4> QED
        BY <3>1, <4>1, <1>p, <2>3 DEF Present, Key
    <3>2. CASE ~(d = m.call /\ u = m.tag)
      <4>1. ~canceled[d] /\ u \in Confirmed[d] \ released[d] /\ u \in Tag
        BY <3>2, <2>1, <2>5, <1>f, <1>u
      <4>2. sessions[d][u] # None /\ sessions[d][u].established
        BY <4>1 DEF IInv, ConfirmedIsEstablished, Present
      <4> QED
        BY <3>2, <4>1, <4>2, <1>a, <1>p, <2>3 DEF Present, Key
    <3> QED
      BY <3>1, <3>2
  <2>12. NoGhostAfterFailure'
    BY <1>a, <1>p, <1>t, <2>1, <2>2, <2>3 DEF IInv, NoGhostAfterFailure, Present, Key
  <2> QED
    BY <2>6, <2>7, <2>8, <2>9, <2>10, <2>11, <2>12 DEF IInv
<1>17. ASSUME NEW m \in toRouter, HandleFailure(m) PROVE IInv'
  <2>1. /\ m \in MessageType /\ m.kind = "response" /\ m.call \in Call /\ m.tag \in Tag
        /\ m.class = "failure"
        /\ m.branch \in open /\ invites[m.branch].call = m.call /\ inviteTxn[m.call] = "alive"
        /\ toRouter' = toRouter \ {m}
        /\ UNCHANGED <<invites, forwarded, released, canceled, callee, acked, byes, answered,
                       caller, callerDone>>
    BY <1>17, MessageTyped DEF HandleFailure, Upstream, parties, IInv, TypeOK, Truthful,
       OpenIsPending
  <2>2. /\ open' = open \ {m.branch} /\ inviteTxn' = [inviteTxn EXCEPT ![m.call] = "gone"]
        /\ lastFinal' = [lastFinal EXCEPT ![m.call] = "failure"] /\ toCaller' = toCaller \cup {m}
    BY <1>17 DEF HandleFailure
  <2>3. /\ sessions' \in Table
        /\ \A d \in Call, u \in Key : sessions'[d][u] \in {sessions[d][u], None}
        /\ \A d \in Call, u \in Key : d # m.call => sessions'[d][u] = Purged(sessions)[d][u]
        /\ \A u \in Key : sessions'[m.call][u] # None => sessions'[m.call][u].established
        /\ \A u \in Tag : sessions[m.call][u] # None /\ sessions[m.call][u].established =>
                            sessions'[m.call][u] = sessions[m.call][u]
    <3> DEFINE P == Purged(sessions)
           T == {t \in Key : t = Initial \/ (Present(P, m.call, t) /\ ~P[m.call][t].established)}
    <3>1. sessions' = Erased(P, m.call, T)
      BY <1>17 DEF HandleFailure, InviteSessionsErased, Key
    <3>2. /\ sessions' \in Table
          /\ \A d \in Call, u \in Key :
                sessions'[d][u] = IF d = m.call /\ u \in T THEN None ELSE P[d][u]
      <4> HIDE DEF T
      <4> QED
        BY <1>p, <2>1, <3>1, ErasedTable
    <3> QED
      BY <1>a, <1>p, <2>1, <3>2 DEF Present, Key
  <2>4. \A b \in open' : b \in open /\ invites[b].call # m.call
    BY <2>1, <2>2 DEF IInv, OpenIsPending
  <2>5. Confirmed' = Confirmed
    BY <2>1, <2>2 DEF Confirmed
  <2>6. TypeOK'
    <3>1. sessions' \in [Call -> [Tag \cup {Initial} -> Session \cup {None}]]
      BY <2>3 DEF Table, Key
    <3>2. open' \in SUBSET (1 .. forwarded') /\ toCaller' \in SUBSET MessageType
      BY <1>u, <2>1, <2>2 DEF IInv, TypeOK
    <3> QED
      BY <3>1, <3>2, <2>1, <2>2 DEF IInv, TypeOK
  <2>7. OpenIsPending'
    BY <1>c, <1>t, <2>1, <2>2, <2>4 DEF IInv, OpenIsPending
  <2>8. Truthful'
    BY <2>1, <2>2 DEF IInv, Truthful
  <2>9. MarksAreTrue'
    <3>1. ASSUME NEW d \in Call, Unmarked(d)' PROVE Unmarked(d)
      BY <3>1, <2>1 DEF Unmarked
    <3> QED
      BY <3>1, <1>a, <1>c, <1>p, <2>1, <2>2, <2>3, <2>4 DEF IInv, MarksAreTrue, OpenIsFresh,
         Pending, Present, Key
  <2>10. OpenIsFresh'
    BY <1>a, <1>c, <1>p, <2>1, <2>2, <2>3, <2>4 DEF IInv, OpenIsFresh, Present, Key
  <2>11. ConfirmedIsEstablished'
    <3> SUFFICES ASSUME NEW d \in Call, ~canceled'[d], NEW u \in Confirmed'[d] \ released'[d]
                 PROVE  Present(sessions', d, u) /\ sessions'[d][u].established
      BY DEF ConfirmedIsEstablished
    <3>1. ~canceled[d] /\ u \in Confirmed[d] \ released[d] /\ u \in Tag
      BY <2>1, <2>5, <1>f, <1>u
    <3>2. sessions[d][u] # None /\ sessions[d][u].established
      BY <3>1 DEF IInv, ConfirmedIsEstablished, Present
    <3> QED
      BY <3>1, <3>2, <1>a, <1>p, <2>3 DEF Present, Key
  <2>12. NoGhostAfterFailure'
    <3> SUFFICES ASSUME NEW d \in Call, lastFinal'[d] = "failure", inviteTxn'[d] = "gone",
                        NEW u \in Key, sessions'[d][u] # None
                 PROVE  sessions'[d][u].established
      BY DEF NoGhostAfterFailure, Present, Key
    <3>1. CASE d = m.call
      BY <3>1, <2>3
    <3>2. CASE d # m.call
      <4>1. lastFinal[d] = "failure" /\ inviteTxn[d] = "gone" /\ sessions'[d][u] = sessions[d][u]
        BY <3>2, <1>t, <2>2, <2>3
      <4> QED
        BY <4>1 DEF IInv, NoGhostAfterFailure, Present, Key
    <3> QED
      BY <3>1, <3>2
  <2> QED
    BY <2>6, <2>7, <2>8, <2>9, <2>10, <2>11, <2>12 DEF IInv
<1> QED
  BY <1>1, <1>2, <1>3, <1>4, <1>5, <1>6, <1>7, <1>8, <1>9, <1>10, <1>11, <1>12, <1>13, <1>14,
     <1>15, <1>16, <1>17 DEF Next, RouterStep

-----------------------------------------------------------------------------
(* The theorems. *)

\* Every reachable state has the invariant.
THEOREM InductiveInvariant == Spec => []IInv
BY InitInvariant, StepInvariant, PTL DEF Spec

\* Every variable keeps its type: no branch is used twice, and none is open that
\* was not given to an INVITE.
THEOREM TypeCorrect == Spec => []TypeOK
<1>1. IInv => TypeOK
  BY DEF IInv
<1> QED
  BY <1>1, InductiveInvariant, PTL

\* handleCancel: a CANCEL finds the INVITE it is for, with the branch and the place
\* that was sent to, whatever dialogs its responses have left in the table.
THEOREM CancelFindsItsInvite == Spec => []InviteConsistent
<1>1. IInv => InviteConsistent
  <2> SUFFICES ASSUME IInv, NEW m \in toRouter, m.kind = "CANCEL",
                      NEW b \in open, invites[b].call = m.call
               PROVE  Pending(m.call, b)
    BY DEF IInv, InviteConsistent, CancelFindsInvite, Pending
  <2>1. m.call \in Call
    BY MessageTyped DEF IInv, TypeOK
  <2> QED
    BY <2>1 DEF IInv, MarksAreTrue, Unmarked
<1> QED
  BY <1>1, InductiveInvariant, PTL

\* handleBye: a BYE between parties that have confirmed the dialog, and of whom
\* none has canceled, finds the session.
THEOREM ByeFindsItsSession == Spec => []ByeForwardedUnlessCanceled
<1>1. IInv => ByeForwardedUnlessCanceled
  <2> SUFFICES ASSUME IInv, NEW c \in Call, ~canceled[c], NEW t \in ByesUnderWay(c)
               PROVE  Present(sessions, c, t)
    BY DEF ByeForwardedUnlessCanceled
  <2>1. t \in Confirmed[c] \ released[c]
    BY DEF ByesUnderWay, IInv, Truthful, Confirmed
  <2> QED
    BY <2>1 DEF IInv, ConfirmedIsEstablished
<1> QED
  BY <1>1, InductiveInvariant, PTL

\* eraseInviteSessionsLocked: a call whose last INVITE failed keeps no early
\* dialog and no initial entry.
THEOREM NothingAfterFailure == Spec => []NoGhostAfterFailure
<1>1. IInv => NoGhostAfterFailure
  BY DEF IInv
<1> QED
  BY <1>1, InductiveInvariant, PTL

\* eraseSessionLocked and purgeExpiredSessionsLocked: only a BYE that was answered, or
\* the ACK of a canceled call, takes an established session.
THEOREM EstablishedSessionsKept == Spec => EstablishedKept
<1> DEFINE Step == \A c \in Call, t \in Tag :
              Present(sessions, c, t) /\ sessions[c][t].established /\ ~Present(sessions', c, t) =>
                 \E m \in toRouter \ toRouter' :
                    m.call = c /\ m.tag = t /\ m.kind \in {"ACK", "bye_response"}
                    /\ (m.kind = "ACK" => canceled[c])
<1>1. IInv /\ [Next]_vars => [Step]_vars
  <2> SUFFICES ASSUME IInv, [Next]_vars, NEW c \in Call, NEW t \in Tag,
                      Present(sessions, c, t), sessions[c][t].established, ~Present(sessions', c, t)
               PROVE  \E m \in toRouter \ toRouter' :
                         m.call = c /\ m.tag = t /\ m.kind \in {"ACK", "bye_response"}
                         /\ (m.kind = "ACK" => canceled[c])
    OBVIOUS
  <2>a. sessions[c][t] # None /\ sessions'[c][t] = None
    BY DEF Present
  <2>b. /\ t \in Key /\ t # Initial /\ None \notin Session
        /\ sessions \in Table /\ sessions[c][t] \in Session
    <3>1. sessions \in Table
      BY DEF IInv, TypeOK, Table, Key
    <3> QED
      BY <2>a, <3>1, RouterAssumption DEF Table, Key
  <2>p. /\ Purged(sessions) \in Table
        /\ Purged(sessions)[c][t] = sessions[c][t]
    BY <2>a, <2>b, PurgedTable
  <2>m. \A m \in toRouter : m.call \in Call /\ m \in MessageType
    BY MessageTyped DEF IInv, TypeOK
  <2>1. CASE UNCHANGED sessions
    BY <2>1, <2>a
  <2>2. ASSUME NEW d \in Call, NEW ep \in Endpoint, NEW sent \in BOOLEAN, HandleInvite(d, ep, sent)
        PROVE  FALSE
    BY <2>2, <2>a, <2>b, <2>p DEF HandleInvite, Table, Key
  <2>3. ASSUME NEW d \in Call, NEW u \in Key, NEW S \in Table, NEW s, s # None,
               S[c][t] # None, sessions' = [S EXCEPT ![d][u] = s]
        PROVE  FALSE
    BY <2>3, <2>a, <2>b DEF Table
  <2>4. ASSUME NEW m \in toRouter, HandleProvisional(m) PROVE FALSE
    <3>1. m.tag \in Tag /\ m.call \in Call
      BY <2>4, <2>m DEF HandleProvisional, Upstream, IInv, Truthful
    <3>2. DialogRecorded(Purged(sessions), m.call, m.tag, FALSE)[c][t] # None
      BY <2>a, <2>b, <2>p, <3>1, RecordedKeeps
    <3> QED
      BY <2>4, <2>a, <3>2 DEF HandleProvisional
  <2>5. ASSUME NEW m \in toRouter, HandleSuccess(m) PROVE FALSE
    <3>1. m.tag \in Tag /\ m.call \in Call
      BY <2>5, <2>m DEF HandleSuccess, Upstream, IInv, Truthful
    <3> DEFINE R == DialogRecorded(Purged(sessions), m.call, m.tag, TRUE)
    <3>2. R[c][t] # None
      BY <2>a, <2>b, <2>p, <3>1, RecordedKeeps
    <3>3. R \in Table
      BY <2>p, <3>1, RecordedTable
    <3>4. sessions' = Erased(R, m.call, {Initial})
      BY <2>5 DEF HandleSuccess
    <3> HIDE DEF R
    <3> QED
      BY <2>a, <2>b, <3>1, <3>2, <3>3, <3>4, ErasedTable
  <2>6. ASSUME NEW m \in toRouter, HandleFailure(m) PROVE FALSE
    <3> DEFINE P == Purged(sessions)
               T == {u \in Tag \cup {Initial} :
                        u = Initial \/ (Present(P, m.call, u) /\ ~P[m.call][u].established)}
    <3>1. sessions' = Erased(P, m.call, T) /\ m.call \in Call
      BY <2>6, <2>m DEF HandleFailure, InviteSessionsErased
    <3>2. c = m.call => t \notin T
      BY <2>b, <2>p
    <3> HIDE DEF T
    <3>3. sessions'[c][t] = P[c][t]
      BY <3>1, <3>2, <2>b, <2>p, ErasedTable
    <3> QED
      BY <3>3, <2>a, <2>p
  <2>7. ASSUME NEW m \in toRouter, HandleCancel(m) PROVE FALSE
    <3>1. PICK k : sessions' = [sessions EXCEPT ![m.call][Initial] = k]
      BY <2>7, <2>a, <2>1 DEF HandleCancel
    <3> QED
      BY <3>1, <2>a, <2>b, <2>m DEF Table, Key
  <2>8. ASSUME NEW m \in toRouter, HandleAck(m)
        PROVE  m.call = c /\ m.tag = t /\ m.kind = "ACK" /\ m \notin toRouter' /\ canceled[c]
    <3>1. m.call \in Call /\ m.kind = "ACK" /\ m \notin toRouter'
      BY <2>8, <2>m DEF HandleAck, Receive
    <3>2. /\ sessions' = Erased(sessions, m.call, {Initial, m.tag})
          /\ Present(sessions, m.call, m.tag) /\ sessions[m.call][m.tag].cancelSeen
      <4>1. sessions' # Erased(sessions, m.call, {Initial})
        BY <2>a, <2>b, <3>1, ErasedTable
      <4> QED
        BY <2>8, <2>1, <2>a, <4>1 DEF HandleAck
    <3>3. m.call = c /\ m.tag = t
      BY <2>a, <2>b, <3>1, <3>2, ErasedTable
    <3> QED
      BY <3>1, <3>2, <3>3 DEF IInv, MarksAreTrue, Unmarked
  <2>9. ASSUME NEW m \in toRouter, HandleBye(m) PROVE FALSE
    <3> DEFINE s == [sessions[m.call][m.tag] EXCEPT !.byeSeen = TRUE]
    <3>1. m.tag \in Tag /\ m.call \in Call
      BY <2>9, <2>m DEF HandleBye, Receive, IInv, Truthful
    <3>2. Present(sessions, m.call, m.tag) /\ sessions' = [sessions EXCEPT ![m.call][m.tag] = s]
      BY <2>9, <2>1, <2>a DEF HandleBye
    <3>3. s \in Session
      <4>1. sessions[m.call][m.tag] \in Session
        BY <3>1, <3>2, <2>b DEF Present, Table, Key
      <4> QED
        BY <4>1 DEF Session
    <3> HIDE DEF s
    <3> QED
      BY <2>3, <2>a, <2>b, <3>1, <3>2, <3>3 DEF Key
  <2>10. ASSUME NEW m \in toRouter, HandleByeResponse(m)
         PROVE  m.call = c /\ m.tag = t /\ m.kind = "bye_response" /\ m \notin toRouter'
    <3>1. m.call \in Call /\ m.kind = "bye_response" /\ m \notin toRouter'
      BY <2>10, <2>m DEF HandleByeResponse, Receive
    <3>2. sessions' = Erased(sessions, m.call, {m.tag})
      BY <2>10, <2>1, <2>a DEF HandleByeResponse
    <3> QED
      BY <2>a, <2>b, <3>1, <3>2, ErasedTable
  <2>11. ASSUME NEW d \in Call, NEW u \in Tag \cup {Initial}, EntryGetsStale(d, u) PROVE FALSE
    <3> DEFINE s == [sessions[d][u] EXCEPT !.stale = TRUE]
    <3>1. s \in Session /\ sessions' = [sessions EXCEPT ![d][u] = s]
      <4>1. sessions[d][u] \in Session
        BY <2>11, <2>b DEF EntryGetsStale, Present, Table, Key
      <4> QED
        BY <2>11, <4>1 DEF EntryGetsStale, Session
    <3> HIDE DEF s
    <3> QED
      BY <2>3, <2>a, <2>b, <3>1 DEF Key
  <2>12. CASE \/ \E m \in toRouter : DropResponse(m)
              \/ \E m \in toCaller : CallerReceives(m)
              \/ \E b \in open : InviteTimesOut(b)
              \/ UNCHANGED vars
    BY <2>12, <2>a DEF DropResponse, CallerReceives, InviteTimesOut, vars, router
  <2>13. CASE \/ \E d \in Call : RejectInvite(d) \/ CallerCancels(d)
              \/ \E d \in Call, u \in Tag, party \in Party : SendBye(d, u, party)
              \/ \E b \in Branch, u \in Tag, class \in {"1xx", "2xx", "failure"} :
                    CalleeResponds(b, u, class)
    BY <2>13, <2>a DEF RejectInvite, CallerCancels, SendBye, CalleeResponds, router
  <2> QED
    BY <2>2, <2>4, <2>5, <2>6, <2>7, <2>8, <2>9, <2>10, <2>11, <2>12, <2>13 DEF Next, RouterStep
<1> QED
  BY <1>1, InductiveInvariant, PTL DEF Spec, EstablishedKept

=============================================================================
