---------------------------- MODULE RegistrarProofs ----------------------------
(***************************************************************************)
(* Theorems about Registrar for every set of identities, workers and       *)
(* REGISTER messages, every profile, and an HSS that may fail or not; the  *)
(* one on implicit registration sets names what it needs of them.  The     *)
(* last section carries them over to ScscfService, which has the timer.    *)
(***************************************************************************)
EXTENDS ScscfService, TLAPS

-----------------------------------------------------------------------------
(* What the operations of the store do to the contacts. *)

LEMMA PrunedTypes ==
    ASSUME StoreTypeOK, NEW B
    PROVE  Pruned(B) \in [Impu -> SUBSET Contact]
BY DEF StoreTypeOK, Pruned, Live

\* An upsert leaves live contacts or the new one in the identities of the batch.
LEMMA UpsertLockedContents ==
    ASSUME NEW C, NEW s, NEW c, NEW D \in UpsertContactLocked(C, s, c)
    PROVE  D \subseteq C \cup {c}
BY DEF UpsertContactLocked, Matching

LEMMA UpsertTypes ==
    ASSUME StoreTypeOK, NEW B \in SUBSET Impu, NEW s, NEW c \in Contact,
           NEW require \in BOOLEAN, UpsertContacts(B, s, c, require)
    PROVE  StoreTypeOK'
<1>1. CASE UpsertApplies(B, s, require)
  <2>1. PICK after \in [B -> UNION {UpsertContactLocked(Live(contacts[i]), s, c) : i \in B}] :
            /\ \A i \in B : after[i] \in UpsertContactLocked(Live(contacts[i]), s, c)
            /\ contacts' = [i \in Impu |-> IF i \in B THEN after[i] ELSE contacts[i]]
    BY <1>1 DEF UpsertContacts
  <2>2. ASSUME NEW i \in B PROVE after[i] \in SUBSET Contact
    <3>1. after[i] \subseteq Live(contacts[i]) \cup {c}
      BY <2>1, UpsertLockedContents
    <3> QED
      BY <3>1 DEF StoreTypeOK, Live
  <2> QED
    BY <2>1, <2>2 DEF StoreTypeOK
<1>2. CASE ~UpsertApplies(B, s, require)
  <2>1. contacts' = Pruned(B)
    BY <1>2 DEF UpsertContacts
  <2> QED
    BY <2>1, PrunedTypes DEF StoreTypeOK
<1> QED
  BY <1>1, <1>2

LEMMA RemoveTypes ==
    ASSUME StoreTypeOK, NEW B, NEW s, NEW callId, NEW cseq,
           RemoveContacts(B, s, callId, cseq) \/ RemoveBindings(B)
    PROVE  StoreTypeOK'
BY DEF StoreTypeOK, RemoveContacts, RemoveBindings, Remaining, Live

LEMMA AgedTypes ==
    ASSUME NEW c \in Contact PROVE Aged(c) \in Contact
BY DEF Aged, Contact

-----------------------------------------------------------------------------
(* Type correctness.  TypeOK is not inductive: that a commit writes a      *)
(* contact needs what the handler holds at each of its locations.          *)

\* What a handler holds: a request that is no de-registration on the way to a
\* registration, and once the assignment has begun the contact to write, made
\* from that request.
HandlerInv ==
    \A w \in Worker :
        /\ pc[w] # "idle" => req[w] \in Request
        /\ pc[w] \notin {"idle", "dereg_sar", "dereg_commit"} => req[w].contact # Wildcard
        /\ pc[w] \in {"reg_commit", "rereg_sar", "rereg_commit"} =>
              /\ fresh[w] \in Contact
              /\ fresh[w].callId = req[w].callId /\ fresh[w].cseq = req[w].cseq

IInv == TypeOK /\ HandlerInv

LEMMA BindingTypes ==
    ASSUME NEW r \in Request, r.contact # Wildcard,
           NEW p, p.inst \in InstanceId \cup {None}, p.reg \in RegId \cup {None}
    PROVE  MakeContactBinding(r, p) \in Contact
<1>1. r \in RequestType
  BY RegistrarAssumption
<1>2. DetermineRegisterExpires(r) \in Nat
  BY <1>1, RegistrarAssumption DEF DetermineRegisterExpires, RequestType
<1> QED
  BY <1>1, <1>2 DEF MakeContactBinding, Contact, RequestType

LEMMA AnswerTypes ==
    ASSUME IInv, NEW w \in Worker, NEW status \in Status,
           Answer(w, status), StoreTypeOK', pending' \in SUBSET Challenge
    PROVE  IInv'
<1>1. TypeOK'
  BY DEF IInv, TypeOK, Answer, Goto, Location
<1>2. HandlerInv'
  BY DEF IInv, TypeOK, HandlerInv, Answer, Goto
<1> QED
  BY <1>1, <1>2 DEF IInv

LEMMA AcceptTypes ==
    ASSUME IInv, NEW w \in Worker, NEW r \in Request, NEW location, NEW contact,
           Accept(w, r, location, contact), StoreTypeOK',
           \/ location = "dereg_sar" /\ contact = None
           \/ location \in {"verify", "challenge"} /\ contact = None /\ r.contact # Wildcard
           \/ /\ location = "rereg_sar" /\ contact \in Contact /\ r.contact # Wildcard
              /\ contact.callId = r.callId /\ contact.cseq = r.cseq
    PROVE  IInv'
<1>1. r.impu \in Impu
  BY RegistrarAssumption DEF RequestType
<1>2. TypeOK'
  BY <1>1 DEF IInv, TypeOK, Accept, Goto, Location
<1>3. HandlerInv'
  BY DEF IInv, TypeOK, HandlerInv, Accept, Goto
<1> QED
  BY <1>2, <1>3 DEF IInv

LEMMA AssignedTypes ==
    ASSUME TypeOK, NEW w \in Worker
    PROVE  \A T \in Assigned(w) : T \in SUBSET Impu
BY RegistrarAssumption DEF TypeOK, Assigned

LEMMA InitIInv == Init => IInv
BY DEF Init, IInv, TypeOK, HandlerInv, StoreInit, StoreTypeOK, Location

LEMMA StartIInv ==
    ASSUME IInv, NEW w \in Worker, Start(w)
    PROVE  IInv'
<1>1. PICK r \in Request : StartDeregister(w, r) \/ StartReregister(w, r) \/ StartRegister(w, r)
  BY DEF Start
<1>2. r \in RequestType
  BY RegistrarAssumption
<1>3. CASE StartDeregister(w, r)
  <2>1. StoreTypeOK'
    BY <1>3 DEF IInv, TypeOK, StartDeregister, StoreTypeOK
  <2> QED
    BY <1>3, <2>1, AcceptTypes DEF StartDeregister
<1>4. CASE StartReregister(w, r)
  <2>1. StoreTypeOK'
    BY <1>4, PrunedTypes DEF IInv, TypeOK, StartReregister, Lookup, StoreTypeOK
  <2>2. PICK p \in Matching(Live(contacts[r.impu]), MakeContactSelector(r)) :
            Accept(w, r, "rereg_sar", MakeContactBinding(r, p))
    BY <1>4 DEF StartReregister
  <2>3. p \in Contact
    BY <1>2 DEF Matching, Live, IInv, TypeOK, StoreTypeOK, RequestType
  <2>4. r.contact # Wildcard
    BY <1>4 DEF StartReregister, IsDeregister
  <2>5. MakeContactBinding(r, p) \in Contact
    BY <2>3, <2>4, BindingTypes DEF Contact
  <2> QED
    BY <2>1, <2>2, <2>4, <2>5, AcceptTypes DEF MakeContactBinding
<1>5. CASE StartRegister(w, r)
  <2>1. StoreTypeOK'
    BY <1>5, PrunedTypes DEF IInv, TypeOK, StartRegister, Lookup, StoreTypeOK
  <2>2. r.contact # Wildcard
    BY <1>5 DEF StartRegister, IsDeregister
  <2> QED
    BY <1>5, <2>1, <2>2, AcceptTypes DEF StartRegister
<1> QED
  BY <1>1, <1>3, <1>4, <1>5

LEMMA ChallengeIInv ==
    ASSUME IInv, NEW w \in Worker,
           \/ SendChallenge(w) \/ ChallengeFails(w) \/ VerifyMismatch(w)
           \/ NoPendingAuthState(w) \/ NoProvider(w)
    PROVE  IInv'
<1>1. CASE SendChallenge(w)
  <2>1. StoreTypeOK'
    BY <1>1 DEF SendChallenge, IInv, TypeOK, StoreTypeOK
  <2>2. req[w] \in RequestType
    BY <1>1, RegistrarAssumption DEF SendChallenge, IInv, HandlerInv
  <2>3. pending' \in SUBSET Challenge
    BY <1>1, <2>2 DEF SendChallenge, IInv, TypeOK, Challenge, RequestType
  <2> QED
    BY <1>1, <2>1, <2>3, AnswerTypes DEF SendChallenge, Status
<1>2. CASE ChallengeFails(w) \/ VerifyMismatch(w) \/ NoProvider(w)
  <2>1. StoreTypeOK' /\ pending' \in SUBSET Challenge
    BY <1>2 DEF ChallengeFails, VerifyMismatch, NoProvider, IInv, TypeOK, StoreTypeOK
  <2>2. \E status \in Status : Answer(w, status)
    BY <1>2 DEF ChallengeFails, VerifyMismatch, NoProvider, Status
  <2> QED
    BY <2>1, <2>2, AnswerTypes
<1>3. CASE NoPendingAuthState(w)
  <2>1. TypeOK'
    BY <1>3 DEF NoPendingAuthState, Goto, local, IInv, TypeOK, StoreTypeOK, Location
  <2>2. HandlerInv'
    BY <1>3 DEF NoPendingAuthState, Goto, local, IInv, TypeOK, HandlerInv
  <2> QED
    BY <2>1, <2>2 DEF IInv
<1> QED
  BY <1>1, <1>2, <1>3

LEMMA VerifyOkIInv ==
    ASSUME IInv, NEW w \in Worker, VerifyOk(w)
    PROVE  IInv'
<1>1. PICK p \in PendingFor(w) : /\ pending' = pending \ {p}
                                 /\ targets' = [targets EXCEPT ![w] = {p.impu}]
  BY DEF VerifyOk
<1>2. p.impu \in Impu
  BY DEF PendingFor, IInv, TypeOK, Challenge
<1>3. TypeOK'
  BY <1>1, <1>2 DEF VerifyOk, Goto, IInv, TypeOK, StoreTypeOK, Location
<1>4. HandlerInv'
  BY DEF VerifyOk, Goto, IInv, TypeOK, HandlerInv
<1> QED
  BY <1>3, <1>4 DEF IInv

LEMMA SarIInv ==
    ASSUME IInv, NEW w \in Worker,
           RegisterSar(w) \/ RegisterSarFails(w) \/ ReregisterSar(w) \/ DeregisterSar(w)
    PROVE  IInv'
<1>1. CASE RegisterSar(w)
  <2>1. MakeContactBinding(req[w], NoPrevious) \in Contact
    BY <1>1, BindingTypes DEF RegisterSar, IInv, HandlerInv, NoPrevious
  <2>2. PICK T \in Assigned(w) : targets' = [targets EXCEPT ![w] = T]
    BY <1>1 DEF RegisterSar
  <2>3. T \in SUBSET Impu
    BY <2>2, AssignedTypes DEF IInv
  <2>4. TypeOK'
    BY <1>1, <2>1, <2>2, <2>3 DEF RegisterSar, Goto, IInv, TypeOK, StoreTypeOK, Location
  <2>5. HandlerInv'
    BY <1>1, <2>1 DEF RegisterSar, Goto, IInv, TypeOK, HandlerInv, MakeContactBinding
  <2> QED
    BY <2>4, <2>5 DEF IInv
<1>2. CASE RegisterSarFails(w)
  <2>1. StoreTypeOK' /\ pending' \in SUBSET Challenge
    BY <1>2 DEF RegisterSarFails, IInv, TypeOK, StoreTypeOK
  <2> QED
    BY <1>2, <2>1, AnswerTypes DEF RegisterSarFails, Status
<1>3. CASE ReregisterSar(w) \/ DeregisterSar(w)
  <2>1. PICK T \in Assigned(w) \cup (IF HssMayFail THEN {targets[w]} ELSE {}) :
            targets' = [targets EXCEPT ![w] = T]
    BY <1>3 DEF ReregisterSar, DeregisterSar
  <2>2. T \in SUBSET Impu
    BY <2>1, AssignedTypes DEF IInv, TypeOK
  <2>3. TypeOK'
    BY <1>3, <2>1, <2>2 DEF ReregisterSar, DeregisterSar, Goto, IInv, TypeOK, StoreTypeOK, Location
  <2>4. HandlerInv'
    BY <1>3 DEF ReregisterSar, DeregisterSar, Goto, IInv, TypeOK, HandlerInv
  <2> QED
    BY <2>3, <2>4 DEF IInv
<1> QED
  BY <1>1, <1>2, <1>3

LEMMA CommitIInv ==
    ASSUME IInv, NEW w \in Worker,
           RegisterCommit(w) \/ ReregisterCommit(w) \/ DeregisterCommit(w)
    PROVE  IInv'
<1>1. targets[w] \in SUBSET Impu /\ pending' \in SUBSET Challenge
  BY DEF RegisterCommit, ReregisterCommit, DeregisterCommit, IInv, TypeOK
<1>2. StoreTypeOK'
  <2>1. CASE RegisterCommit(w)
    <3>1. fresh[w] \in Contact
      BY <2>1 DEF RegisterCommit, IInv, HandlerInv
    <3> QED
      BY <1>1, <2>1, <3>1, UpsertTypes DEF RegisterCommit, IInv, TypeOK
  <2>2. CASE ReregisterCommit(w)
    <3>1. fresh[w] \in Contact
      BY <2>2 DEF ReregisterCommit, IInv, HandlerInv
    <3> QED
      BY <1>1, <2>2, <3>1, UpsertTypes DEF ReregisterCommit, IInv, TypeOK
  <2>3. CASE DeregisterCommit(w)
    BY <2>3, RemoveTypes DEF DeregisterCommit, IInv, TypeOK
  <2> QED
    BY <2>1, <2>2, <2>3
<1>3. \E status \in Status : Answer(w, status)
  <2>1. CASE RegisterCommit(w) \/ DeregisterCommit(w)
    <3>1. Answer(w, 200)
      BY <2>1 DEF RegisterCommit, DeregisterCommit
    <3> QED
      BY <3>1 DEF Status
  <2>2. CASE ReregisterCommit(w)
    <3> DEFINE applies == UpsertApplies(targets[w], MakeContactSelector(req[w]), TRUE)
    <3>1. Answer(w, IF applies THEN 200 ELSE 500)
      BY <2>2 DEF ReregisterCommit
    <3> HIDE DEF applies
    <3>2. Answer(w, 200) \/ Answer(w, 500)
      BY <3>1
    <3> QED
      BY <3>2 DEF Status
  <2> QED
    BY <2>1, <2>2
<1> QED
  BY <1>1, <1>2, <1>3, AnswerTypes

LEMMA BackgroundIInv ==
    ASSUME IInv,
           \/ \E i \in Impu : LookupByRouter(i)
           \/ \E p \in pending : ChallengeExpires(p)
           \/ Cleanup
           \/ Tick
    PROVE  IInv'
<1>1. CASE (\E i \in Impu : LookupByRouter(i)) \/ Cleanup
  <2>1. StoreTypeOK'
    BY <1>1, PrunedTypes DEF LookupByRouter, Lookup, Cleanup, PurgeExpired, IInv, TypeOK, StoreTypeOK
  <2> QED
    BY <1>1, <2>1 DEF LookupByRouter, Cleanup, local, IInv, TypeOK, HandlerInv
<1>2. CASE \E p \in pending : ChallengeExpires(p)
  BY <1>2 DEF ChallengeExpires, local, IInv, TypeOK, StoreTypeOK, HandlerInv
<1>3. CASE Tick
  <2>1. StoreTypeOK'
    BY <1>3, AgedTypes DEF Tick, AgeContacts, IInv, TypeOK, StoreTypeOK
  <2>2. /\ fresh' \in [Worker -> Contact \cup {None}]
        /\ \A w \in Worker : fresh[w] \in Contact =>
              /\ fresh'[w] \in Contact
              /\ fresh'[w].callId = fresh[w].callId /\ fresh'[w].cseq = fresh[w].cseq
    BY <1>3, AgedTypes, NoneAssumption DEF Tick, IInv, TypeOK, Aged, Contact
  <2> QED
    BY <1>3, <2>1, <2>2 DEF Tick, IInv, TypeOK, HandlerInv
<1> QED
  BY <1>1, <1>2, <1>3

LEMMA NextIInv == IInv /\ [Next]_vars => IInv'
<1> SUFFICES ASSUME IInv, [Next]_vars PROVE IInv'
  OBVIOUS
<1>1. ASSUME NEW w \in Worker, Start(w) \/ Handle(w) PROVE IInv'
  BY <1>1, StartIInv, ChallengeIInv, VerifyOkIInv, SarIInv, CommitIInv DEF Handle
<1>2. CASE UNCHANGED vars
  BY <1>2 DEF vars, IInv, TypeOK, HandlerInv, StoreTypeOK
<1> QED
  BY <1>1, <1>2, BackgroundIInv DEF Next, Operations

\* The inductive invariant: types, and what handleRegister holds at each place
\* between its reading of the binding and its writing to the store.
THEOREM InductiveInvariant == Spec => []IInv
BY InitIInv, NextIInv, PTL DEF Spec

\* The variables of the registrar keep their types; in particular every
\* contact ever stored is one built from a REGISTER with a real Contact value.
THEOREM TypeCorrect == Spec => []TypeOK
<1>1. IInv => TypeOK
  BY DEF IInv
<1> QED
  BY <1>1, InductiveInvariant, PTL

-----------------------------------------------------------------------------
(* The action properties. *)

\* Every step that touches the store is a sweep of some identities, a tick of
\* the clock, or the commit of a worker.
LEMMA StoreSteps ==
    ASSUME IInv, [Next]_vars
    PROVE  \/ UNCHANGED contacts
           \/ \E B \in SUBSET Impu : contacts' = Pruned(B)
           \/ AgeContacts
           \/ \E w \in Worker : RegisterCommit(w) \/ ReregisterCommit(w) \/ DeregisterCommit(w)
<1>1. ASSUME NEW w \in Worker, Start(w)
      PROVE  UNCHANGED contacts \/ \E B \in SUBSET Impu : contacts' = Pruned(B)
  BY <1>1, RegistrarAssumption
  DEF Start, StartDeregister, StartReregister, StartRegister, Lookup, RequestType
<1>2. ASSUME NEW w \in Worker, Handle(w)
      PROVE  UNCHANGED contacts \/ RegisterCommit(w) \/ ReregisterCommit(w) \/ DeregisterCommit(w)
  BY <1>2 DEF Handle, SendChallenge, ChallengeFails, VerifyOk, VerifyMismatch, NoPendingAuthState,
              NoProvider, RegisterSar, RegisterSarFails, ReregisterSar, DeregisterSar
<1>3. ASSUME (\E i \in Impu : LookupByRouter(i)) \/ Cleanup
      PROVE  \E B \in SUBSET Impu : contacts' = Pruned(B)
  BY <1>3 DEF LookupByRouter, Cleanup, Lookup, PurgeExpired
<1>4. ASSUME (\E p \in pending : ChallengeExpires(p)) \/ UNCHANGED vars
      PROVE  UNCHANGED contacts
  BY <1>4 DEF ChallengeExpires, vars
<1> QED
  BY <1>1, <1>2, <1>3, <1>4 DEF Next, Operations, Tick

\* What an upsert leaves in an identity: outside the batch nothing changes;
\* inside, every contact was there and live or is the new one.
LEMMA UpsertEffect ==
    ASSUME StoreTypeOK, NEW B \in SUBSET Impu, NEW s, NEW c,
           NEW require \in BOOLEAN, UpsertContacts(B, s, c, require),
           NEW i \in Impu, NEW d \in contacts'[i]
    PROVE  \/ d \in contacts[i]
           \/ i \in B /\ d = c /\ UpsertApplies(B, s, require)
<1>1. CASE UpsertApplies(B, s, require)
  <2>1. PICK after \in [B -> UNION {UpsertContactLocked(Live(contacts[k]), s, c) : k \in B}] :
            /\ \A k \in B : after[k] \in UpsertContactLocked(Live(contacts[k]), s, c)
            /\ contacts' = [k \in Impu |-> IF k \in B THEN after[k] ELSE contacts[k]]
    BY <1>1 DEF UpsertContacts
  <2>2. i \in B => after[i] \subseteq Live(contacts[i]) \cup {c}
    BY <2>1, UpsertLockedContents
  <2> QED
    BY <1>1, <2>1, <2>2 DEF Live
<1>2. CASE ~UpsertApplies(B, s, require)
  BY <1>2 DEF UpsertContacts, Pruned, Live
<1> QED
  BY <1>1, <1>2

LEMMA AddsOnlyKnown == IInv /\ [Next]_vars => AddsOnlyKnownContacts
<1> SUFFICES ASSUME IInv, [Next]_vars, NEW i \in Impu, NEW d \in contacts'[i]
             PROVE  \/ \E c \in contacts[i] : d \in {c, Aged(c)}
                    \/ \E w \in Worker : Committing(w, "reg_commit") /\ i \in targets[w] /\ d = fresh[w]
                    \/ \E w \in Worker :
                          /\ Committing(w, "rereg_commit") /\ i \in targets[w] /\ d = fresh[w]
                          /\ \E c \in Live(contacts[i]) :
                                MatchesSelector(c, MakeContactSelector(req[w]))
  BY DEF AddsOnlyKnownContacts
<1>1. CASE UNCHANGED contacts
  BY <1>1
<1>2. CASE \E B \in SUBSET Impu : contacts' = Pruned(B)
  BY <1>2 DEF Pruned, Live
<1>3. CASE AgeContacts
  BY <1>3 DEF AgeContacts
<1>4. ASSUME NEW w \in Worker, RegisterCommit(w)
      PROVE  \/ d \in contacts[i]
             \/ Committing(w, "reg_commit") /\ i \in targets[w] /\ d = fresh[w]
  <2>1. Committing(w, "reg_commit") /\ targets[w] \in SUBSET Impu
    BY <1>4 DEF RegisterCommit, Committing, Answer, Goto, IInv, TypeOK
  <2>2. UpsertContacts(targets[w], MakeContactSelector(req[w]), fresh[w], FALSE)
    BY <1>4 DEF RegisterCommit
  <2>3. \/ d \in contacts[i]
        \/ /\ i \in targets[w] /\ d = fresh[w]
           /\ UpsertApplies(targets[w], MakeContactSelector(req[w]), FALSE)
    BY <2>1, <2>2, UpsertEffect DEF IInv, TypeOK
  <2> QED
    BY <2>1, <2>3
<1>5. ASSUME NEW w \in Worker, ReregisterCommit(w)
      PROVE  \/ d \in contacts[i]
             \/ /\ Committing(w, "rereg_commit") /\ i \in targets[w] /\ d = fresh[w]
                /\ \E c \in Live(contacts[i]) : MatchesSelector(c, MakeContactSelector(req[w]))
  <2>1. Committing(w, "rereg_commit") /\ targets[w] \in SUBSET Impu
    BY <1>5 DEF ReregisterCommit, Committing, Answer, Goto, IInv, TypeOK
  <2>2. \/ d \in contacts[i]
        \/ /\ i \in targets[w] /\ d = fresh[w]
           /\ UpsertApplies(targets[w], MakeContactSelector(req[w]), TRUE)
    BY <1>5, <2>1, UpsertEffect DEF ReregisterCommit, IInv, TypeOK
  <2> QED
    BY <2>1, <2>2 DEF UpsertApplies, Matching
<1>6. ASSUME NEW w \in Worker, DeregisterCommit(w)
      PROVE  d \in contacts[i]
  BY <1>6 DEF DeregisterCommit, RemoveContacts, RemoveBindings, Remaining, Live
<1> QED
  BY <1>1, <1>2, <1>3, <1>4, <1>5, <1>6, StoreSteps

\* No interleaving of refreshes, removals, expiries and sweeps revives a
\* contact that was removed: only an authenticated registration adds one.
THEOREM RemovedContactsStayRemoved == Spec => NoRevival
BY AddsOnlyKnown, InductiveInvariant, PTL DEF Spec, NoRevival

\* What an upsert takes away: contacts of the batch that the selector names
\* and that no newer REGISTER has written.
LEMMA UpsertLoss ==
    ASSUME StoreTypeOK, NEW B \in SUBSET Impu, NEW s, NEW n,
           NEW require \in BOOLEAN, UpsertContacts(B, s, n, require),
           NEW i \in Impu, NEW c \in Live(contacts[i]), c \notin contacts'[i]
    PROVE  i \in B /\ MatchesSelector(c, s) /\ ~OlderCseq(n.callId, n.cseq, c)
<1>1. CASE UpsertApplies(B, s, require)
  <2>1. PICK after \in [B -> UNION {UpsertContactLocked(Live(contacts[k]), s, n) : k \in B}] :
            /\ \A k \in B : after[k] \in UpsertContactLocked(Live(contacts[k]), s, n)
            /\ contacts' = [k \in Impu |-> IF k \in B THEN after[k] ELSE contacts[k]]
    BY <1>1 DEF UpsertContacts
  <2>2. i \in B /\ c \notin after[i]
    BY <2>1 DEF Live
  <2>3. after[i] \in UpsertContactLocked(Live(contacts[i]), s, n)
    BY <2>1, <2>2
  <2> QED
    BY <2>2, <2>3 DEF UpsertContactLocked, Matching
<1>2. CASE ~UpsertApplies(B, s, require)
  BY <1>2 DEF UpsertContacts, Pruned, Live
<1> QED
  BY <1>1, <1>2

\* Only the commit of a worker takes it from a writing location to idle.
LEMMA WritingCommits ==
    ASSUME IInv, [Next]_vars, NEW w \in Worker, Writing(w)
    PROVE  RegisterCommit(w) \/ ReregisterCommit(w) \/ DeregisterCommit(w)
<1>1. ASSUME NEW v \in Worker, Start(v) PROVE FALSE
  BY <1>1 DEF Start, StartDeregister, StartReregister, StartRegister, Accept, Goto,
              Writing, IInv, TypeOK
<1>2. ASSUME NEW v \in Worker, Handle(v)
      PROVE  RegisterCommit(w) \/ ReregisterCommit(w) \/ DeregisterCommit(w)
  <2>1. CASE RegisterCommit(v) \/ ReregisterCommit(v) \/ DeregisterCommit(v)
    <3>1. pc' = [pc EXCEPT ![v] = "idle"]
      BY <2>1 DEF RegisterCommit, ReregisterCommit, DeregisterCommit, Answer, Goto
    <3>2. v = w
      BY <3>1 DEF Writing, IInv, TypeOK
    <3> QED
      BY <2>1, <3>2
  <2>2. CASE ~(RegisterCommit(v) \/ ReregisterCommit(v) \/ DeregisterCommit(v))
    <3>1. /\ pc[v] \in {"challenge", "verify", "reg_sar", "rereg_sar", "dereg_sar"}
          /\ \E location : pc' = [pc EXCEPT ![v] = location]
      BY <1>2, <2>2
      DEF Handle, SendChallenge, ChallengeFails, VerifyOk, VerifyMismatch, NoPendingAuthState,
          NoProvider, RegisterSar, RegisterSarFails, ReregisterSar, DeregisterSar, Answer, Goto
    <3>2. pc'[w] = pc[w]
      BY <3>1 DEF Writing, IInv, TypeOK
    <3> QED
      BY <3>2 DEF Writing
  <2> QED
    BY <2>1, <2>2
<1>3. ~UNCHANGED pc
  BY DEF Writing
<1> QED
  BY <1>1, <1>2, <1>3 DEF Next, Operations, vars, local, LookupByRouter, ChallengeExpires, Cleanup, Tick

LEMMA NewerStay == IInv /\ [Next]_vars => NewerContactsStay
<1> SUFFICES ASSUME IInv, [Next]_vars, NEW w \in Worker, Writing(w),
                    pc[w] = "dereg_commit" => HasSpecificContact(req[w]),
                    NEW i \in Impu, NEW c \in Live(contacts[i]) \ contacts'[i],
                    c.callId = req[w].callId
             PROVE  c.cseq <= req[w].cseq
  BY DEF NewerContactsStay
<1>1. req[w] \in RequestType /\ c \in Contact /\ targets[w] \in SUBSET Impu /\ StoreTypeOK
  BY RegistrarAssumption DEF Writing, IInv, HandlerInv, TypeOK, StoreTypeOK, Live
<1>2. ASSUME ~OlderCseq(req[w].callId, req[w].cseq, c) PROVE c.cseq <= req[w].cseq
  BY <1>1, <1>2 DEF OlderCseq, RequestType, Contact
<1>3. CASE RegisterCommit(w) \/ ReregisterCommit(w)
  <2>1. PICK require \in BOOLEAN :
            UpsertContacts(targets[w], MakeContactSelector(req[w]), fresh[w], require)
    BY <1>3 DEF RegisterCommit, ReregisterCommit
  <2>2. /\ MatchesSelector(c, MakeContactSelector(req[w]))
        /\ ~OlderCseq(fresh[w].callId, fresh[w].cseq, c)
    BY <1>1, <2>1, UpsertLoss
  <2>3. fresh[w].callId = req[w].callId /\ fresh[w].cseq = req[w].cseq
    BY <1>3 DEF RegisterCommit, ReregisterCommit, IInv, HandlerInv
  <2> QED
    BY <1>2, <2>2, <2>3
<1>4. CASE DeregisterCommit(w)
  <2>1. RemoveContacts(targets[w], MakeContactSelector(req[w]), req[w].callId, req[w].cseq)
    BY <1>4 DEF DeregisterCommit
  <2>2. ~OlderCseq(req[w].callId, req[w].cseq, c)
    BY <1>1, <2>1 DEF RemoveContacts, Remaining, StoreTypeOK, Live
  <2> QED
    BY <1>2, <2>2
<1> QED
  BY <1>3, <1>4, WritingCommits

\* A REGISTER that is overtaken by a newer one of its Call-ID changes nothing
\* the newer one has written, however late its worker commits.
THEOREM StaleRegistersLose == Spec => StaleRegisterNeverWins
BY NewerStay, InductiveInvariant, PTL DEF Spec, StaleRegisterNeverWins

LEMMA RefreshWhole == IInv /\ [Next]_vars => RefreshWritesAllOrNone
<1> SUFFICES ASSUME IInv, [Next]_vars, NEW w \in Worker, Committing(w, "rereg_commit")
             PROVE  IF reply'[w] = 200
                    THEN \A i \in targets[w] : \E c \in contacts'[i] :
                            c = fresh[w] \/ OlderCseq(fresh[w].callId, fresh[w].cseq, c)
                    ELSE \A i \in Impu : Live(contacts'[i]) = Live(contacts[i])
  BY DEF RefreshWritesAllOrNone
<1> DEFINE s == MakeContactSelector(req[w])
           applies == UpsertApplies(targets[w], s, TRUE)
<1>1. ReregisterCommit(w)
  BY WritingCommits DEF Writing, Committing, RegisterCommit, DeregisterCommit
<1>2. UpsertContacts(targets[w], s, fresh[w], TRUE) /\ targets[w] \in SUBSET Impu
  BY <1>1 DEF ReregisterCommit, IInv, TypeOK
<1>3. Answer(w, IF applies THEN 200 ELSE 500)
  BY <1>1 DEF ReregisterCommit
<1> HIDE DEF s
<1>4. CASE applies
  <2>1. reply'[w] = 200
    BY <1>3, <1>4 DEF Answer, IInv, TypeOK
  <2>2. ASSUME NEW i \in targets[w]
        PROVE  \E c \in contacts'[i] : c = fresh[w] \/ OlderCseq(fresh[w].callId, fresh[w].cseq, c)
    <3>1. contacts'[i] \in UpsertContactLocked(Live(contacts[i]), s, fresh[w])
      BY <1>2, <1>4 DEF UpsertContacts
    <3>2. Matching(Live(contacts[i]), s) # {}
      BY <1>4 DEF UpsertApplies
    <3> QED
      BY <3>1, <3>2 DEF UpsertContactLocked, Matching
  <2> QED
    BY <2>1, <2>2
<1>5. CASE ~applies
  <2>1. reply'[w] # 200
    BY <1>3, <1>5 DEF Answer, IInv, TypeOK
  <2>2. contacts' = Pruned(targets[w])
    BY <1>2, <1>5 DEF UpsertContacts
  <2> QED
    BY <2>1, <2>2 DEF Pruned, Live
<1> QED
  BY <1>4, <1>5

\* A refresh over the associated identities is never applied to some of them,
\* and its 200 is never sent for an identity that has lost the contact.
THEOREM RefreshIsAtomic == Spec => RefreshAllOrNothing
BY RefreshWhole, InductiveInvariant, PTL DEF Spec, RefreshAllOrNothing

LEMMA OthersStay == IInv /\ [Next]_vars => OtherContactsStay
<1> SUFFICES ASSUME IInv, [Next]_vars, NEW i \in Impu, NEW c \in Live(contacts[i]),
                    c \notin contacts'[i], Aged(c) \notin contacts'[i]
             PROVE  \E w \in Worker :
                       /\ Writing(w) /\ i \in targets[w]
                       /\ \/ pc[w] = "dereg_commit" /\ ~HasSpecificContact(req[w])
                          \/ MatchesSelector(c, MakeContactSelector(req[w]))
  BY DEF OtherContactsStay
<1>1. c \in contacts[i] /\ ~Expired(c) /\ StoreTypeOK
  BY DEF Live, IInv, TypeOK
<1>2. ~UNCHANGED contacts /\ ~AgeContacts
  BY <1>1 DEF AgeContacts
<1>3. ~\E B \in SUBSET Impu : contacts' = Pruned(B)
  BY DEF Pruned, Live
<1>4. PICK w \in Worker : RegisterCommit(w) \/ ReregisterCommit(w) \/ DeregisterCommit(w)
  BY <1>2, <1>3, StoreSteps
<1>5. Writing(w) /\ targets[w] \in SUBSET Impu
  BY <1>4 DEF RegisterCommit, ReregisterCommit, DeregisterCommit, Writing, Answer, Goto,
              IInv, TypeOK
<1>6. CASE RegisterCommit(w) \/ ReregisterCommit(w)
  <2>1. PICK require \in BOOLEAN :
            UpsertContacts(targets[w], MakeContactSelector(req[w]), fresh[w], require)
    BY <1>6 DEF RegisterCommit, ReregisterCommit
  <2>2. /\ i \in targets[w] /\ MatchesSelector(c, MakeContactSelector(req[w]))
        /\ ~OlderCseq(fresh[w].callId, fresh[w].cseq, c)
    BY <1>1, <1>5, <2>1, UpsertLoss
  <2> QED
    BY <1>5, <2>2
<1>7. CASE DeregisterCommit(w)
  <2>1. pc[w] = "dereg_commit"
    BY <1>7 DEF DeregisterCommit
  <2>2. CASE HasSpecificContact(req[w])
    <3>1. RemoveContacts(targets[w], MakeContactSelector(req[w]), req[w].callId, req[w].cseq)
      BY <1>7, <2>2 DEF DeregisterCommit
    <3>2. i \in targets[w] /\ MatchesSelector(c, MakeContactSelector(req[w]))
      BY <1>1, <3>1 DEF RemoveContacts, Remaining, Live
    <3> QED
      BY <1>5, <3>2
  <2>3. CASE ~HasSpecificContact(req[w])
    <3>1. RemoveBindings(targets[w])
      BY <1>7, <2>3 DEF DeregisterCommit
    <3>2. i \in targets[w]
      BY <1>1, <3>1 DEF RemoveBindings
    <3> QED
      BY <1>5, <2>1, <2>3, <3>2
  <2> QED
    BY <2>2, <2>3
<1> QED
  BY <1>4, <1>6, <1>7

\* The registration of one device is never disturbed by requests about
\* another one, by look-ups or by sweeps.
THEOREM OtherDevicesUndisturbed == Spec => NoCollateralLoss
BY OthersStay, InductiveInvariant, PTL DEF Spec, NoCollateralLoss
-----------------------------------------------------------------------------
(* The identities of one implicit registration set.  The handler writes to  *)
(* all of them at once; they stay alike when the HSS always answers with    *)
(* the same set, and when no selector finds two contacts of an identity:    *)
(* the code would then replace the first one, whichever that is.            *)

\* Every device names its contact in one way: REGISTERs with the same Contact value
\* all carry an instance and a reg-id, or none of them does.
ContactsNamedAlike ==
    /\ \A r \in Request : r.contact # Wildcard => (r.inst = None <=> r.reg = None)
    /\ \A q, r \in Request :
          q.contact = r.contact /\ r.contact # Wildcard => (q.inst = None <=> r.inst = None)

\* The HSS answers every identity of a set with that set, and never fails.
ProfilesStay ==
    /\ ~HssMayFail
    /\ \A i \in Impu : Profiles[i] # {}
    /\ \A i \in Impu : \A A \in Profiles[i] : \A j \in A \cup {i} : \A B \in Profiles[j] :
          A \cup {i} = B \cup {j}

Associated(i, j) == \E A \in Profiles[i] : j \in A

\* A stored contact has an instance and a reg-id just when its device names them.
NamedAlike(c) ==
    /\ c.inst = None <=> c.reg = None
    /\ \A r \in Request : r.contact = c.uri => (r.inst = None <=> c.inst = None)

SameName(c, d) ==
    IF c.inst = None THEN d.inst = None /\ c.uri = d.uri
    ELSE c.inst = d.inst /\ c.reg = d.reg

Apart(C) == \A c, d \in C : SameName(c, d) => c = d

StoreNamed == \A i \in Impu : Apart(Live(contacts[i])) /\ \A c \in contacts[i] : NamedAlike(c)

\* What a handler is about to write is what its request names.
FreshNamed ==
    \A w \in Worker : pc[w] \in {"reg_commit", "rereg_sar", "rereg_commit"} =>
        /\ NamedAlike(fresh[w])
        /\ fresh[w].uri = req[w].contact
        /\ req[w].inst # None => fresh[w].inst = req[w].inst /\ fresh[w].reg = req[w].reg

\* A handler that commits does so for whole sets.
TargetsWhole ==
    \A w \in Worker : pc[w] \in {"reg_commit", "rereg_commit", "dereg_commit"} =>
        \A i, j \in Impu : Associated(i, j) => (i \in targets[w] <=> j \in targets[w])

SetInv == IInv /\ StoreNamed /\ FreshNamed /\ TargetsWhole /\ ImplicitSetConsistent

\* A selector finds at most one of the contacts of an identity.
LEMMA OneMatch ==
    ASSUME ContactsNamedAlike, NEW r \in Request, r.contact # Wildcard,
           NEW C, Apart(C), \A c \in C : NamedAlike(c),
           NEW m \in Matching(C, MakeContactSelector(r)),
           NEW n \in Matching(C, MakeContactSelector(r))
    PROVE  m = n
<1> DEFINE s == MakeContactSelector(r)
<1>1. /\ m \in C /\ n \in C /\ MatchesSelector(m, s) /\ MatchesSelector(n, s)
      /\ NamedAlike(m) /\ NamedAlike(n)
  BY DEF Matching
<1>2. r.inst = None <=> r.reg = None
  BY DEF ContactsNamedAlike
<1>3. CASE r.inst = None
  <2>1. ~UsesInstanceAndRegId(s) /\ s.uri = r.contact
    BY <1>2, <1>3 DEF UsesInstanceAndRegId, MakeContactSelector
  <2>2. m.uri = r.contact /\ n.uri = r.contact
    BY <1>1, <2>1 DEF MatchesSelector
  <2>3. m.inst = None /\ n.inst = None
    BY <1>1, <1>3, <2>2 DEF NamedAlike
  <2> QED
    BY <1>1, <2>2, <2>3 DEF Apart, SameName
<1>4. CASE r.inst # None
  <2>1. UsesInstanceAndRegId(s) /\ s.inst = r.inst /\ s.reg = r.reg
    BY <1>2, <1>4 DEF UsesInstanceAndRegId, MakeContactSelector
  <2>2. m.inst = r.inst /\ n.inst = r.inst /\ m.reg = r.reg /\ n.reg = r.reg
    BY <1>1, <2>1 DEF MatchesSelector
  <2> QED
    BY <1>1, <1>4, <2>2 DEF Apart, SameName
<1> QED
  BY <1>3, <1>4

\* The contact made from a request has the same name as those its selector finds, and
\* as no others.
LEMMA SameNameMatches ==
    ASSUME ContactsNamedAlike, NEW r \in Request, r.contact # Wildcard,
           NEW c, NamedAlike(c), c.uri = r.contact,
           r.inst # None => c.inst = r.inst /\ c.reg = r.reg,
           NEW x, NamedAlike(x), SameName(c, x) \/ SameName(x, c)
    PROVE  MatchesSelector(x, MakeContactSelector(r))
<1>1. (r.inst = None <=> r.reg = None) /\ (r.inst = None <=> c.inst = None)
  BY DEF ContactsNamedAlike, NamedAlike
<1>2. CASE r.inst = None
  BY <1>1, <1>2 DEF SameName, MatchesSelector, UsesInstanceAndRegId, MakeContactSelector
<1>3. CASE r.inst # None
  BY <1>1, <1>3 DEF SameName, MatchesSelector, UsesInstanceAndRegId, MakeContactSelector
<1> QED
  BY <1>2, <1>3

\* An upsert that finds at most one contact has one result, whose contacts are apart again.
LEMMA UpsertLockedSets ==
    ASSUME ContactsNamedAlike, NEW r \in Request, r.contact # Wildcard,
           NEW c, NamedAlike(c), c.uri = r.contact,
           r.inst # None => c.inst = r.inst /\ c.reg = r.reg,
           NEW C, Apart(C), \A x \in C : NamedAlike(x),
           NEW D \in UpsertContactLocked(C, MakeContactSelector(r), c)
    PROVE  /\ Apart(D) /\ \A x \in D : NamedAlike(x)
           /\ \A E \in UpsertContactLocked(C, MakeContactSelector(r), c) : D = E
<1> DEFINE s == MakeContactSelector(r)
<1>1. \A m, n \in Matching(C, s) : m = n
  BY OneMatch
<1>2. \A x \in C : SameName(c, x) \/ SameName(x, c) => x \in Matching(C, s)
  BY SameNameMatches DEF Matching
<1>3. CASE Matching(C, s) = {}
  <2>1. UpsertContactLocked(C, s, c) = {C \cup {c}}
    BY <1>3 DEF UpsertContactLocked
  <2> QED
    BY <1>2, <1>3, <2>1 DEF Apart
<1>4. CASE Matching(C, s) # {}
  <2>1. PICK old \in Matching(C, s) : TRUE
    BY <1>4
  <2>2. UpsertContactLocked(C, s, c)
            = {IF OlderCseq(c.callId, c.cseq, old) THEN C ELSE (C \ {old}) \cup {c}}
    BY <1>1, <1>4, <2>1 DEF UpsertContactLocked
  <2>3. Apart((C \ {old}) \cup {c})
    BY <1>1, <1>2, <2>1 DEF Apart
  <2>4. \A x \in (C \ {old}) \cup {c} : NamedAlike(x)
    OBVIOUS
  <2>5. D = IF OlderCseq(c.callId, c.cseq, old) THEN C ELSE (C \ {old}) \cup {c}
    BY <2>2
  <2>6. D = C \/ D = (C \ {old}) \cup {c}
    BY <2>5
  <2>7. Apart(D) /\ \A x \in D : NamedAlike(x)
    BY <2>3, <2>4, <2>6
  <2>8. \A E \in UpsertContactLocked(C, s, c) : D = E
    BY <2>2, <2>5
  <2> QED
    BY <2>7, <2>8
<1> QED
  BY <1>3, <1>4

\* An upsert does the same to two identities of its batch that were alike.
LEMMA UpsertSets ==
    ASSUME ContactsNamedAlike, StoreTypeOK, StoreNamed, NEW r \in Request, r.contact # Wildcard,
           NEW c, NamedAlike(c), c.uri = r.contact,
           r.inst # None => c.inst = r.inst /\ c.reg = r.reg,
           NEW B \in SUBSET Impu, NEW require \in BOOLEAN,
           UpsertContacts(B, MakeContactSelector(r), c, require)
    PROVE  /\ StoreNamed'
           /\ \A i \in Impu \ B : contacts'[i] = contacts[i]
           /\ \A i, j \in B : Live(contacts[i]) = Live(contacts[j]) => contacts'[i] = contacts'[j]
<1> DEFINE s == MakeContactSelector(r)
<1>1. CASE UpsertApplies(B, s, require)
  <2>1. PICK after \in [B -> UNION {UpsertContactLocked(Live(contacts[k]), s, c) : k \in B}] :
            /\ \A k \in B : after[k] \in UpsertContactLocked(Live(contacts[k]), s, c)
            /\ contacts' = [k \in Impu |-> IF k \in B THEN after[k] ELSE contacts[k]]
    BY <1>1 DEF UpsertContacts
  <2>2. ASSUME NEW i \in B
        PROVE  /\ Apart(after[i]) /\ \A x \in after[i] : NamedAlike(x)
               /\ \A D \in UpsertContactLocked(Live(contacts[i]), s, c) : after[i] = D
    <3>1. Apart(Live(contacts[i])) /\ \A x \in Live(contacts[i]) : NamedAlike(x)
      BY DEF StoreNamed, Live
    <3>2. after[i] \in UpsertContactLocked(Live(contacts[i]), s, c)
      BY <2>1
    <3> HIDE DEF s
    <3> QED
      BY <3>1, <3>2, UpsertLockedSets DEF s
  <2>3. \A i \in B : contacts'[i] = after[i]
    BY <2>1
  <2>4. \A i \in Impu \ B : contacts'[i] = contacts[i]
    BY <2>1
  <2>5. \A i, j \in B : Live(contacts[i]) = Live(contacts[j]) => after[i] = after[j]
    BY <2>1, <2>2
  <2>6. ASSUME NEW i \in Impu
        PROVE  Apart(Live(contacts'[i])) /\ \A x \in contacts'[i] : NamedAlike(x)
    <3>1. CASE i \in B
      BY <3>1, <2>2, <2>3 DEF Apart, Live
    <3>2. CASE i \notin B
      BY <3>2, <2>4 DEF StoreNamed
    <3> QED
      BY <3>1, <3>2
  <2> QED
    BY <2>3, <2>4, <2>5, <2>6 DEF StoreNamed
<1>2. CASE ~UpsertApplies(B, s, require)
  <2>1. \A i \in Impu : contacts'[i] = IF i \in B THEN Live(contacts[i]) ELSE contacts[i]
    BY <1>2 DEF UpsertContacts, Pruned
  <2>2. ASSUME NEW i \in Impu
        PROVE  Apart(Live(contacts'[i])) /\ \A x \in contacts'[i] : NamedAlike(x)
    BY <2>1 DEF StoreNamed, Apart, Live
  <2> QED
    BY <2>1, <2>2 DEF StoreNamed
<1> QED
  BY <1>1, <1>2

\* So does a removal.
LEMMA RemoveSets ==
    ASSUME StoreNamed, NEW B \in SUBSET Impu, NEW s, NEW callId, NEW cseq,
           RemoveContacts(B, s, callId, cseq) \/ RemoveBindings(B)
    PROVE  /\ StoreNamed'
           /\ \A i \in Impu \ B : contacts'[i] = contacts[i]
           /\ \A i, j \in B : Live(contacts[i]) = Live(contacts[j]) => contacts'[i] = contacts'[j]
<1>1. /\ \A i \in Impu \ B : contacts'[i] = contacts[i]
      /\ \A i, j \in B : Live(contacts[i]) = Live(contacts[j]) => contacts'[i] = contacts'[j]
      /\ \A i \in B : contacts'[i] \subseteq Live(contacts[i])
  BY DEF RemoveContacts, RemoveBindings, Remaining
<1>2. ASSUME NEW i \in Impu
      PROVE  Apart(Live(contacts'[i])) /\ \A x \in contacts'[i] : NamedAlike(x)
  BY <1>1 DEF StoreNamed, Apart, Live
<1> QED
  BY <1>1, <1>2 DEF StoreNamed

\* The clock does the same to all contacts, and renames none.
LEMMA AgedSets ==
    ASSUME StoreTypeOK, StoreNamed, AgeContacts
    PROVE  /\ StoreNamed'
           /\ \A i, j \in Impu : Live(contacts[i]) = Live(contacts[j]) =>
                 Live(contacts'[i]) = Live(contacts'[j])
<1>1. \A i \in Impu : contacts'[i] = {Aged(c) : c \in contacts[i]}
  BY DEF AgeContacts
<1>2. ASSUME NEW c \in Contact
      PROVE  /\ Aged(c).uri = c.uri /\ Aged(c).inst = c.inst /\ Aged(c).reg = c.reg
             /\ ~Expired(Aged(c)) => ~Expired(c)
  BY DEF Aged, Expired, Contact
<1>3. ASSUME NEW i \in Impu
      PROVE  Live(contacts'[i]) = {a \in {Aged(c) : c \in Live(contacts[i])} : ~Expired(a)}
  BY <1>1, <1>2 DEF Live, StoreTypeOK
<1>4. ASSUME NEW i \in Impu
      PROVE  Apart(Live(contacts'[i])) /\ \A x \in contacts'[i] : NamedAlike(x)
  <2>1. Apart(Live(contacts'[i]))
    <3> SUFFICES ASSUME NEW a \in Live(contacts'[i]), NEW b \in Live(contacts'[i]), SameName(a, b)
                 PROVE  a = b
      BY DEF Apart
    <3>1. PICK c \in Live(contacts[i]) : a = Aged(c)
      BY <1>3
    <3>2. PICK d \in Live(contacts[i]) : b = Aged(d)
      BY <1>3
    <3>3. c \in Contact /\ d \in Contact
      BY DEF Live, StoreTypeOK
    <3>4. SameName(c, d)
      BY <1>2, <3>1, <3>2, <3>3 DEF SameName
    <3> QED
      BY <3>1, <3>2, <3>4 DEF StoreNamed, Apart
  <2>2. ASSUME NEW x \in contacts'[i] PROVE NamedAlike(x)
    <3>1. PICK c \in contacts[i] : x = Aged(c)
      BY <1>1
    <3>2. c \in Contact /\ NamedAlike(c)
      BY DEF StoreTypeOK, StoreNamed
    <3> QED
      BY <1>2, <3>1, <3>2 DEF NamedAlike
  <2> QED
    BY <2>1, <2>2
<1>5. \A i, j \in Impu : Live(contacts[i]) = Live(contacts[j]) => Live(contacts'[i]) = Live(contacts'[j])
  BY <1>3
<1> QED
  BY <1>4, <1>5 DEF StoreNamed

LEMMA PrunedSets ==
    ASSUME StoreNamed, NEW B \in SUBSET Impu, contacts' = Pruned(B)
    PROVE  StoreNamed' /\ \A i \in Impu : Live(contacts'[i]) = Live(contacts[i])
<1>1. \A i \in Impu : contacts'[i] \subseteq contacts[i] /\ Live(contacts'[i]) = Live(contacts[i])
  BY DEF Pruned, Live
<1> QED
  BY <1>1 DEF StoreNamed

\* What the HSS assigns is a whole set.
LEMMA AssignedWhole ==
    ASSUME ProfilesStay, TypeOK, NEW w \in Worker, NEW T \in Assigned(w)
    PROVE  \A i, j \in Impu : Associated(i, j) => (i \in T <=> j \in T)
<1>1. PICK k \in targets[w] : T \in {A \cup {k} : A \in Profiles[k]}
  BY DEF Assigned
<1>2. k \in Impu
  BY DEF TypeOK
<1>3. PICK A \in Profiles[k] : T = A \cup {k}
  BY <1>1
<1>4. \A j \in T : \A B \in Profiles[j] : T = B \cup {j}
  BY <1>2, <1>3 DEF ProfilesStay
<1>5. ASSUME NEW i \in Impu, NEW j \in Impu, NEW B \in Profiles[i], j \in B, i \in T PROVE j \in T
  BY <1>4, <1>5
<1>6. ASSUME NEW i \in Impu, NEW j \in Impu, NEW B \in Profiles[i], j \in B, j \in T PROVE i \in T
  <2>1. PICK D \in Profiles[j] : TRUE
    BY DEF ProfilesStay
  <2>2. D \cup {j} = T
    BY <1>4, <1>6
  <2>3. D \cup {j} = B \cup {i}
    BY <1>6 DEF ProfilesStay
  <2> QED
    BY <2>2, <2>3
<1> QED
  BY <1>5, <1>6 DEF Associated

LEMMA InitSets == Init => SetInv
<1> SUFFICES ASSUME Init PROVE SetInv
  OBVIOUS
<1>1. IInv
  BY InitIInv
<1>2. \A i \in Impu : contacts[i] = {} /\ Live(contacts[i]) = {}
  BY DEF Init, StoreInit, Live
<1>3. StoreNamed /\ ImplicitSetConsistent
  BY <1>2, RegistrarAssumption DEF StoreNamed, Apart, ImplicitSetConsistent
<1>4. FreshNamed /\ TargetsWhole
  BY DEF Init, FreshNamed, TargetsWhole
<1> QED
  BY <1>1, <1>3, <1>4 DEF SetInv

\* The contact of a refresh has the name of the one it was found by.
LEMMA ReregisterFreshNamed ==
    ASSUME ContactsNamedAlike, IInv, StoreNamed, NEW r \in Request, r.contact # Wildcard,
           NEW p \in Matching(Live(contacts[r.impu]), MakeContactSelector(r))
    PROVE  LET c == MakeContactBinding(r, p) IN
           /\ NamedAlike(c)
           /\ c.uri = r.contact
           /\ r.inst # None => c.inst = r.inst /\ c.reg = r.reg
<1> DEFINE c == MakeContactBinding(r, p)
<1>1. r.inst = None <=> r.reg = None
  BY DEF ContactsNamedAlike
<1>2. r.impu \in Impu
  BY RegistrarAssumption DEF RequestType
<1>3. NamedAlike(p) /\ MatchesSelector(p, MakeContactSelector(r))
  BY <1>2 DEF StoreNamed, Matching, Live
<1>4. c.uri = r.contact /\ (r.inst # None => c.inst = r.inst /\ c.reg = r.reg)
  BY <1>1 DEF MakeContactBinding
<1>5. r.inst = None => p.inst = None /\ p.reg = None
  BY <1>1, <1>3 DEF NamedAlike, MatchesSelector, UsesInstanceAndRegId, MakeContactSelector
<1>6. r.inst = None => c.inst = None /\ c.reg = None
  BY <1>1, <1>5 DEF MakeContactBinding
<1>7. NamedAlike(c)
  BY <1>1, <1>4, <1>6 DEF NamedAlike, ContactsNamedAlike
<1> QED
  BY <1>4, <1>7

LEMMA RegisterFreshNamed ==
    ASSUME ContactsNamedAlike, NEW r \in Request, r.contact # Wildcard
    PROVE  LET c == MakeContactBinding(r, NoPrevious) IN
           /\ NamedAlike(c)
           /\ c.uri = r.contact
           /\ r.inst # None => c.inst = r.inst /\ c.reg = r.reg
<1> DEFINE c == MakeContactBinding(r, NoPrevious)
<1>1. r.inst = None <=> r.reg = None
  BY DEF ContactsNamedAlike
<1>2. c.uri = r.contact /\ c.inst = r.inst /\ c.reg = r.reg
  BY DEF MakeContactBinding, NoPrevious
<1> QED
  BY <1>1, <1>2 DEF NamedAlike, ContactsNamedAlike

\* A handler goes on, or answers and is done.
LEMMA HandlerSteps ==
    ASSUME NEW w \in Worker, Handle(w)
    PROVE  \/ RegisterSar(w) \/ ReregisterSar(w) \/ DeregisterSar(w)
           \/ VerifyOk(w) \/ NoPendingAuthState(w)
           \/ \E status \in Status : Answer(w, status)
<1>1. CASE SendChallenge(w) \/ ChallengeFails(w) \/ VerifyMismatch(w) \/ NoProvider(w)
  <2>1. Answer(w, 401) \/ Answer(w, 501) \/ Answer(w, 403) \/ Answer(w, 400)
    BY <1>1 DEF SendChallenge, ChallengeFails, VerifyMismatch, NoProvider
  <2> QED
    BY <2>1 DEF Status
<1>2. CASE RegisterSarFails(w) \/ RegisterCommit(w) \/ DeregisterCommit(w)
  <2>1. Answer(w, 500) \/ Answer(w, 200)
    BY <1>2 DEF RegisterSarFails, RegisterCommit, DeregisterCommit
  <2> QED
    BY <2>1 DEF Status
<1>3. CASE ReregisterCommit(w)
  <2> DEFINE applies == UpsertApplies(targets[w], MakeContactSelector(req[w]), TRUE)
  <2>1. Answer(w, IF applies THEN 200 ELSE 500)
    BY <1>3 DEF ReregisterCommit
  <2> HIDE DEF applies
  <2>2. Answer(w, 200) \/ Answer(w, 500)
    BY <2>1
  <2> QED
    BY <2>2 DEF Status
<1> QED
  BY <1>1, <1>2, <1>3 DEF Handle

LEMMA StepFreshNamed ==
    ASSUME ContactsNamedAlike, IInv, StoreNamed, FreshNamed, [Next]_vars
    PROVE  FreshNamed'
<1> USE DEF IInv, TypeOK
<1>1. ASSUME NEW w \in Worker, Start(w) PROVE FreshNamed'
  <2>1. PICK r \in Request : StartDeregister(w, r) \/ StartReregister(w, r) \/ StartRegister(w, r)
    BY <1>1 DEF Start
  <2>2. CASE StartDeregister(w, r) \/ StartRegister(w, r)
    BY <2>2 DEF StartDeregister, StartRegister, Accept, Goto, FreshNamed, NamedAlike
  <2>3. CASE StartReregister(w, r)
    <3>1. r.contact # Wildcard
      BY <2>3 DEF StartReregister, IsDeregister
    <3>2. PICK p \in Matching(Live(contacts[r.impu]), MakeContactSelector(r)) :
              Accept(w, r, "rereg_sar", MakeContactBinding(r, p))
      BY <2>3 DEF StartReregister
    <3> DEFINE c == MakeContactBinding(r, p)
    <3>3. NamedAlike(c) /\ c.uri = r.contact /\ (r.inst # None => c.inst = r.inst /\ c.reg = r.reg)
      BY <3>1, ReregisterFreshNamed
    <3> HIDE DEF c
    <3>4. /\ pc' = [pc EXCEPT ![w] = "rereg_sar"]
          /\ req' = [req EXCEPT ![w] = r]
          /\ fresh' = [fresh EXCEPT ![w] = c]
      BY <3>2 DEF Accept, Goto, c
    <3> QED
      BY <3>3, <3>4 DEF FreshNamed, NamedAlike
  <2> QED
    BY <2>1, <2>2, <2>3
<1>2. ASSUME NEW w \in Worker, RegisterSar(w) PROVE FreshNamed'
  <2>1. req[w] \in Request /\ req[w].contact # Wildcard
    BY <1>2 DEF RegisterSar, HandlerInv
  <2> DEFINE c == MakeContactBinding(req[w], NoPrevious)
  <2>2. /\ NamedAlike(c) /\ c.uri = req[w].contact
        /\ req[w].inst # None => c.inst = req[w].inst /\ c.reg = req[w].reg
    BY <2>1, RegisterFreshNamed
  <2> HIDE DEF c
  <2>3. /\ pc' = [pc EXCEPT ![w] = "reg_commit"]
        /\ req' = req
        /\ fresh' = [fresh EXCEPT ![w] = c]
    BY <1>2 DEF RegisterSar, Goto, c
  <2> QED
    BY <2>2, <2>3 DEF FreshNamed, NamedAlike
<1>3. ASSUME NEW w \in Worker, NEW status, Answer(w, status) PROVE FreshNamed'
  BY <1>3 DEF Answer, Goto, FreshNamed, NamedAlike
<1>4. ASSUME NEW w \in Worker,
             \/ NoPendingAuthState(w) \/ VerifyOk(w) \/ ReregisterSar(w) \/ DeregisterSar(w)
      PROVE  FreshNamed'
  BY <1>4 DEF NoPendingAuthState, VerifyOk, ReregisterSar, DeregisterSar, Goto, local,
              FreshNamed, NamedAlike
<1>5. ASSUME NEW w \in Worker, Handle(w) PROVE FreshNamed'
  BY <1>2, <1>3, <1>4, <1>5, HandlerSteps
<1>6. CASE Tick
  <2>1. ASSUME NEW w \in Worker, fresh[w] \in Contact
        PROVE  /\ fresh'[w].uri = fresh[w].uri
               /\ fresh'[w].inst = fresh[w].inst /\ fresh'[w].reg = fresh[w].reg
    BY <1>6, <2>1, NoneAssumption DEF Tick, Aged, Contact
  <2>2. pc' = pc /\ req' = req
    BY <1>6 DEF Tick
  <2>3. \A w \in Worker : pc[w] \in {"reg_commit", "rereg_sar", "rereg_commit"} => fresh[w] \in Contact
    BY DEF HandlerInv
  <2> QED
    BY <2>1, <2>2, <2>3 DEF FreshNamed, NamedAlike
<1>7. ASSUME \/ \E i \in Impu : LookupByRouter(i)
             \/ \E p \in pending : ChallengeExpires(p)
             \/ Cleanup
             \/ UNCHANGED vars
      PROVE  FreshNamed'
  BY <1>7 DEF LookupByRouter, ChallengeExpires, Cleanup, local, vars, FreshNamed, NamedAlike
<1> QED
  BY <1>1, <1>5, <1>6, <1>7 DEF Next, Operations

LEMMA StepTargetsWhole ==
    ASSUME ProfilesStay, IInv, TargetsWhole, [Next]_vars
    PROVE  TargetsWhole'
<1> USE DEF IInv, TypeOK
<1>1. ASSUME NEW w \in Worker, NEW location \in Location, NEW T \in Assigned(w),
             targets' = [targets EXCEPT ![w] = T], pc' = [pc EXCEPT ![w] = location]
      PROVE  TargetsWhole'
  <2>1. \A i, j \in Impu : Associated(i, j) => (i \in T <=> j \in T)
    BY AssignedWhole
  <2>2. targets'[w] = T /\ \A v \in Worker \ {w} : targets'[v] = targets[v] /\ pc'[v] = pc[v]
    BY <1>1
  <2> QED
    BY <2>1, <2>2 DEF TargetsWhole, Associated
<1>2. ASSUME NEW w \in Worker, RegisterSar(w) \/ ReregisterSar(w) \/ DeregisterSar(w)
      PROVE  TargetsWhole'
  <2>1. \E T \in Assigned(w) : targets' = [targets EXCEPT ![w] = T]
    BY <1>2 DEF RegisterSar, ReregisterSar, DeregisterSar, ProfilesStay
  <2>2. \E location \in Location : pc' = [pc EXCEPT ![w] = location]
    BY <1>2 DEF RegisterSar, ReregisterSar, DeregisterSar, Goto, Location
  <2> QED
    BY <1>1, <2>1, <2>2
<1>3. ASSUME NEW w \in Worker,
             \/ Start(w) \/ NoPendingAuthState(w) \/ VerifyOk(w)
             \/ \E status \in Status : Answer(w, status)
      PROVE  TargetsWhole'
  <2>1. \A v \in Worker \ {w} : targets'[v] = targets[v] /\ pc'[v] = pc[v]
    BY <1>3 DEF Start, StartDeregister, StartReregister, StartRegister, Accept,
                NoPendingAuthState, VerifyOk, Answer, Goto, local
  <2>2. pc'[w] \notin {"reg_commit", "rereg_commit", "dereg_commit"}
    BY <1>3 DEF Start, StartDeregister, StartReregister, StartRegister, Accept,
                NoPendingAuthState, VerifyOk, Answer, Goto, local
  <2> QED
    BY <2>1, <2>2 DEF TargetsWhole, Associated
<1>4. ASSUME NEW w \in Worker, Handle(w) PROVE TargetsWhole'
  BY <1>2, <1>3, <1>4, HandlerSteps
<1>5. ASSUME \/ \E i \in Impu : LookupByRouter(i)
             \/ \E p \in pending : ChallengeExpires(p)
             \/ Cleanup \/ Tick \/ UNCHANGED vars
      PROVE  TargetsWhole'
  BY <1>5 DEF LookupByRouter, ChallengeExpires, Cleanup, Tick, local, vars, TargetsWhole, Associated
<1> QED
  BY <1>3, <1>4, <1>5 DEF Next, Operations

\* A commit to whole sets leaves their identities alike, when it does the same to
\* any two identities of its batch that were alike.
LEMMA WholeCommit ==
    ASSUME NEW B \in SUBSET Impu, ImplicitSetConsistent,
           \A i, j \in Impu : Associated(i, j) => (i \in B <=> j \in B),
           \A i \in Impu \ B : contacts'[i] = contacts[i],
           \A i, j \in B : Live(contacts[i]) = Live(contacts[j]) => contacts'[i] = contacts'[j]
    PROVE  ImplicitSetConsistent'
<1> SUFFICES ASSUME NEW i \in Impu, NEW j \in Impu, Associated(i, j)
             PROVE  Live(contacts'[i]) = Live(contacts'[j])
  BY DEF ImplicitSetConsistent, Associated
<1>1. Live(contacts[i]) = Live(contacts[j])
  BY DEF ImplicitSetConsistent, Associated
<1>2. CASE i \in B
  BY <1>1, <1>2
<1>3. CASE i \notin B
  <2>1. contacts'[i] = contacts[i] /\ contacts'[j] = contacts[j]
    BY <1>3
  <2> QED
    BY <1>1, <2>1
<1> QED
  BY <1>2, <1>3

LEMMA StepStore ==
    ASSUME ContactsNamedAlike, SetInv, [Next]_vars
    PROVE  StoreNamed' /\ ImplicitSetConsistent'
<1>1. IInv /\ StoreTypeOK /\ StoreNamed /\ FreshNamed /\ TargetsWhole /\ ImplicitSetConsistent
  BY DEF SetInv, IInv, TypeOK
<1>2. CASE UNCHANGED contacts
  BY <1>1, <1>2 DEF StoreNamed, ImplicitSetConsistent
<1>3. ASSUME NEW B \in SUBSET Impu, contacts' = Pruned(B)
      PROVE  StoreNamed' /\ ImplicitSetConsistent'
  BY <1>1, <1>3, PrunedSets DEF ImplicitSetConsistent
<1>4. CASE AgeContacts
  BY <1>1, <1>4, AgedSets DEF ImplicitSetConsistent
<1>5. ASSUME NEW w \in Worker,
             RegisterCommit(w) \/ ReregisterCommit(w) \/ DeregisterCommit(w)
      PROVE  StoreNamed' /\ ImplicitSetConsistent'
  <2>1. targets[w] \in SUBSET Impu
    BY <1>1 DEF IInv, TypeOK
  <2>2. \A i, j \in Impu : Associated(i, j) => (i \in targets[w] <=> j \in targets[w])
    BY <1>1, <1>5 DEF TargetsWhole, RegisterCommit, ReregisterCommit, DeregisterCommit
  <2>3. /\ StoreNamed'
        /\ \A i \in Impu \ targets[w] : contacts'[i] = contacts[i]
        /\ \A i, j \in targets[w] : Live(contacts[i]) = Live(contacts[j]) => contacts'[i] = contacts'[j]
    <3>1. CASE RegisterCommit(w) \/ ReregisterCommit(w)
      <4>1. pc[w] \in {"reg_commit", "rereg_commit"}
        BY <3>1 DEF RegisterCommit, ReregisterCommit
      <4>2. req[w] \in Request /\ req[w].contact # Wildcard
        BY <1>1, <4>1 DEF IInv, HandlerInv
      <4>3. /\ NamedAlike(fresh[w]) /\ fresh[w].uri = req[w].contact
            /\ req[w].inst # None => fresh[w].inst = req[w].inst /\ fresh[w].reg = req[w].reg
        BY <1>1, <4>1 DEF FreshNamed
      <4>4. \E require \in BOOLEAN :
               UpsertContacts(targets[w], MakeContactSelector(req[w]), fresh[w], require)
        BY <3>1 DEF RegisterCommit, ReregisterCommit
      <4> QED
        BY <1>1, <2>1, <4>2, <4>3, <4>4, UpsertSets
    <3>2. CASE DeregisterCommit(w)
      BY <1>1, <2>1, <3>2, RemoveSets DEF DeregisterCommit
    <3> QED
      BY <1>5, <3>1, <3>2
  <2> QED
    BY <1>1, <2>1, <2>2, <2>3, WholeCommit
<1> QED
  BY <1>1, <1>2, <1>3, <1>4, <1>5, StoreSteps

LEMMA StepSets == ContactsNamedAlike /\ ProfilesStay /\ SetInv /\ [Next]_vars => SetInv'
<1> SUFFICES ASSUME ContactsNamedAlike, ProfilesStay, SetInv, [Next]_vars PROVE SetInv'
  OBVIOUS
<1>1. IInv /\ StoreNamed /\ FreshNamed /\ TargetsWhole
  BY DEF SetInv
<1>2. IInv' /\ FreshNamed' /\ TargetsWhole' /\ StoreNamed' /\ ImplicitSetConsistent'
  BY <1>1, NextIInv, StepFreshNamed, StepTargetsWhole, StepStore
<1> QED
  BY <1>2 DEF SetInv

\* The identities of one implicit registration set hold the same live contacts, however
\* handleRegister's registrations, refreshes and removals, the look-ups and the sweeps
\* interleave: each commit goes to a whole set under one lock.  The hypotheses are an HSS
\* that answers with the same set for each identity of it, and devices that always name
\* their contacts in the same way.
THEOREM ImplicitSetsStayAlike ==
    ASSUME ContactsNamedAlike, ProfilesStay
    PROVE  Spec => []ImplicitSetConsistent
<1>1. SetInv /\ [Next]_vars => SetInv'
  BY StepSets
<1>2. SetInv => ImplicitSetConsistent
  BY DEF SetInv
<1> QED
  BY <1>1, <1>2, InitSets, PTL DEF Spec

-----------------------------------------------------------------------------
(* The service. *)

\* The registrar of a service that sweeps when its timer fires, and that may be stopped,
\* does nothing the registrar with a free cleanup could not do: what is proved of Spec
\* holds of the service.
THEOREM ServiceIsRegistrar == ServiceSpec => Spec
<1>1. ServiceInit => Init
  BY DEF ServiceInit
<1>2. [ServiceNext]_serviceVars => [Next]_vars
  BY DEF ServiceNext, TimerStep, ScheduleCleanup, ArmTimer, TimerFires, TimerFails, Sweep,
         SweepFails, Stop, Next, vars, local, serviceVars
<1> QED
  BY <1>1, <1>2, PTL DEF ServiceSpec, Spec

\* The service keeps its types, and only stop() ends the cleanup: as long as the service
\* runs, its timer is armed or one of its handlers is about to arm it again, whether the
\* timer failed, the store refused the sweep or all went well (scheduleRegistrationCleanup
\* and its async_wait handler).
THEOREM OnlyStopEndsCleanup == ServiceSpec => [](ServiceTypeOK /\ (timer = "off" => stopping))
<1> DEFINE Rearmed == /\ timer \in TimerState /\ stopping \in BOOLEAN
                      /\ timer = "off" => stopping
<1>1. ServiceInit => Rearmed
  BY DEF ServiceInit, TimerState
<1>2. Rearmed /\ [ServiceNext]_serviceVars => Rearmed'
  BY DEF ServiceNext, TimerStep, ScheduleCleanup, ArmTimer, TimerFires, TimerFails, Sweep,
         SweepFails, Stop, serviceVars, TimerState
<1>3. Rearmed /\ TypeOK => ServiceTypeOK /\ (timer = "off" => stopping)
  BY DEF ServiceTypeOK
<1> QED
  BY <1>1, <1>2, <1>3, ServiceIsRegistrar, TypeCorrect, PTL DEF ServiceSpec
=============================================================================
