------------------------------- MODULE Registrar -------------------------------
(***************************************************************************)
(* The registrar of the S-CSCF: the handler of REGISTER, run by several    *)
(* workers at once over one registration store.                            *)
(*                                                                         *)
(* A worker is a receive chain of the SIP stack: the UDP socket is one,    *)
(* every accepted TCP connection is another one.  A chain handles one      *)
(* request at a time, on an io_context thread that blocks in every call to *)
(* the HSS; the other chains, the cleanup timer and the clock go on in the *)
(* meantime.  What a worker read from the store before a call to the HSS   *)
(* may be stale when the worker writes.                                    *)
(*                                                                         *)
(* Abstractions.                                                           *)
(*  - Request is the set of REGISTER messages on the network; any of them  *)
(*    may be delivered at any time, any number of times, in any order.     *)
(*  - The authentication provider is its set of pending challenges; the    *)
(*    check of a response is a choice (module AkaAuth has the detail).     *)
(*  - The HSS answers a Server-Assignment-Request with one of the          *)
(*    associated sets in Profiles, or fails when HssMayFail.               *)
(***************************************************************************)
EXTENDS RegistrationStore

CONSTANTS
    Worker,          \* receive chains
    Request,         \* the REGISTER messages
    Wildcard,        \* the Contact value "*"
    DefaultExpires,  \* ticks granted when the request names none (3600 s)
    Profiles,        \* Profiles[i]: the associated sets the HSS may return for i
    HssMayFail       \* whether the HSS may fail to answer

\* contact is the Contact value; expires the Expires header and
\* contactExpires the expires parameter of the Contact (None when absent);
\* auth tells an Authorization header with a nonce and a response.
RequestType ==
    [impu: Impu, contact: Uri \cup {None, Wildcard}, inst: InstanceId \cup {None},
     reg: RegId \cup {None}, expires: Nat \cup {None}, contactExpires: Nat \cup {None},
     callId: CallId, cseq: Nat, auth: BOOLEAN]

ASSUME RegistrarAssumption ==
    /\ Request \subseteq RequestType
    /\ Wildcard \notin Uri \cup {None}
    /\ DefaultExpires \in Nat \ {0}
    /\ Profiles \in [Impu -> SUBSET SUBSET Impu]
    /\ HssMayFail \in BOOLEAN

VARIABLES
    pending,   \* challenges that wait for their response: (Call-ID, IMPU)
    pc,        \* where the handler of a worker stands
    req,       \* the request it handles
    fresh,     \* the contact it is about to write
    targets,   \* the identities it is about to write
    reply      \* the status of its last answer

local == <<req, fresh, targets>>
vars == <<contacts, pending, pc, req, fresh, targets, reply>>

Challenge == [callId: CallId, impu: Impu]

Location == {"idle", "challenge", "verify", "reg_sar", "reg_commit",
             "rereg_sar", "rereg_commit", "dereg_sar", "dereg_commit"}

Status == {200, 400, 401, 403, 500, 501}

\* A contact in the store is complete: it has an expiry, a Call-ID and a CSeq
\* to compare, and never the wildcard as its URI; a handler only holds
\* identities, contacts and answers of the kinds the code produces.
TypeOK ==
    /\ StoreTypeOK
    /\ pending \in SUBSET Challenge
    /\ pc \in [Worker -> Location]
    /\ req \in [Worker -> Request \cup {None}]
    /\ fresh \in [Worker -> Contact \cup {None}]
    /\ targets \in [Worker -> SUBSET Impu]
    /\ reply \in [Worker -> Status \cup {None}]

Init ==
    /\ StoreInit
    /\ pending = {}
    /\ pc = [w \in Worker |-> "idle"]
    /\ req = [w \in Worker |-> None]
    /\ fresh = [w \in Worker |-> None]
    /\ targets = [w \in Worker |-> {}]
    /\ reply = [w \in Worker |-> None]

-----------------------------------------------------------------------------
(* What the registrar reads in a request. *)

IsDeregister(r) == r.expires = 0 \/ r.contact = Wildcard \/ r.contactExpires = 0

DetermineRegisterExpires(r) ==
    IF r.contactExpires # None THEN r.contactExpires
    ELSE IF r.expires # None THEN r.expires ELSE DefaultExpires

\* Instance and reg-id count only together.
MakeContactSelector(r) ==
    LET both == r.inst # None /\ r.reg # None IN
    [uri  |-> r.contact,
     inst |-> IF both THEN r.inst ELSE None,
     reg  |-> IF both THEN r.reg ELSE None]

NoPrevious == [inst |-> None, reg |-> None]

MakeContactBinding(r, previous) ==
    [uri    |-> r.contact,
     inst   |-> IF r.inst # None THEN r.inst ELSE previous.inst,
     reg    |-> IF r.reg # None THEN r.reg ELSE previous.reg,
     ttl    |-> DetermineRegisterExpires(r),
     callId |-> r.callId,
     cseq   |-> r.cseq]

HasSpecificContact(r) == r.contact \notin {None, Wildcard}

-----------------------------------------------------------------------------
(* The handler. *)

Goto(w, location) == pc' = [pc EXCEPT ![w] = location]

\* sendResponse, and the end of the handler.
Answer(w, status) ==
    /\ Goto(w, "idle")
    /\ reply' = [reply EXCEPT ![w] = status]
    /\ req' = [req EXCEPT ![w] = None]
    /\ fresh' = [fresh EXCEPT ![w] = None]
    /\ targets' = [targets EXCEPT ![w] = {}]

Accept(w, r, location, contact) ==
    /\ pc[w] = "idle"
    /\ Goto(w, location)
    /\ reply' = [reply EXCEPT ![w] = None]
    /\ req' = [req EXCEPT ![w] = r]
    /\ fresh' = [fresh EXCEPT ![w] = contact]
    /\ targets' = [targets EXCEPT ![w] = {r.impu}]
    /\ UNCHANGED pending

StartDeregister(w, r) ==
    /\ IsDeregister(r)
    /\ Accept(w, r, "dereg_sar", None)
    /\ UNCHANGED contacts

\* tryHandleReregister finds the contact in its copy of the binding.
StartReregister(w, r) ==
    /\ ~IsDeregister(r)
    /\ r.contact # None
    /\ \E previous \in Matching(Live(contacts[r.impu]), MakeContactSelector(r)) :
          Accept(w, r, "rereg_sar", MakeContactBinding(r, previous))
    /\ Lookup(r.impu)

\* ... or does not, and the request has to authenticate.
StartRegister(w, r) ==
    /\ ~IsDeregister(r)
    /\ r.contact # None => Matching(Live(contacts[r.impu]), MakeContactSelector(r)) = {}
    /\ Accept(w, r, IF r.auth THEN "verify" ELSE "challenge", None)
    /\ Lookup(r.impu)

\* sendChallenge: a challenge that already waits for the identity is used again.
SendChallenge(w) ==
    /\ pc[w] = "challenge"
    /\ pending' = pending \cup {[callId |-> req[w].callId, impu |-> req[w].impu]}
    /\ Answer(w, 401)
    /\ UNCHANGED contacts

ChallengeFails(w) ==
    /\ pc[w] = "challenge"
    /\ HssMayFail
    /\ [callId |-> req[w].callId, impu |-> req[w].impu] \notin pending
    /\ Answer(w, 501)
    /\ UNCHANGED <<contacts, pending>>

PendingFor(w) == {p \in pending : p.callId = req[w].callId}

\* The response answers the challenge, which is consumed; the registration is
\* for the identity that was challenged.
VerifyOk(w) ==
    /\ pc[w] = "verify"
    /\ \E p \in PendingFor(w) :
          /\ pending' = pending \ {p}
          /\ targets' = [targets EXCEPT ![w] = {p.impu}]
    /\ Goto(w, "reg_sar")
    /\ UNCHANGED <<contacts, req, fresh, reply>>

VerifyMismatch(w) ==
    /\ pc[w] = "verify"
    /\ PendingFor(w) # {}
    /\ Answer(w, 403)
    /\ UNCHANGED <<contacts, pending>>

\* "no pending auth state": also when another worker consumed or renewed the
\* challenge while this one compared the response.
NoPendingAuthState(w) ==
    /\ pc[w] = "verify"
    /\ Goto(w, "challenge")
    /\ UNCHANGED <<contacts, pending, local, reply>>

\* No provider takes an Authorization of a foreign algorithm.
NoProvider(w) ==
    /\ pc[w] = "verify"
    /\ PendingFor(w) = {}
    /\ Answer(w, 400)
    /\ UNCHANGED <<contacts, pending>>

-----------------------------------------------------------------------------
(* Server assignment and the writes that follow it. *)

\* Server-Assignment-Answers: the sets of identities a handler may go on with.
Assigned(w) == UNION {{A \cup {i} : A \in Profiles[i]} : i \in targets[w]}

RegisterSar(w) ==
    /\ pc[w] = "reg_sar"
    /\ \E T \in Assigned(w) : targets' = [targets EXCEPT ![w] = T]
    /\ fresh' = [fresh EXCEPT ![w] = MakeContactBinding(req[w], NoPrevious)]
    /\ Goto(w, "reg_commit")
    /\ UNCHANGED <<contacts, pending, req, reply>>

\* The challenge has been consumed; the UE has to start over.
RegisterSarFails(w) ==
    /\ pc[w] = "reg_sar"
    /\ HssMayFail
    /\ Answer(w, 500)
    /\ UNCHANGED <<contacts, pending>>

RegisterCommit(w) ==
    /\ pc[w] = "reg_commit"
    /\ UpsertContacts(targets[w], MakeContactSelector(req[w]), fresh[w], FALSE)
    /\ Answer(w, 200)
    /\ UNCHANGED pending

\* A failure is tolerated: the identity of the request alone is refreshed.
ReregisterSar(w) ==
    /\ pc[w] = "rereg_sar"
    /\ \E T \in Assigned(w) \cup (IF HssMayFail THEN {targets[w]} ELSE {}) :
          targets' = [targets EXCEPT ![w] = T]
    /\ Goto(w, "rereg_commit")
    /\ UNCHANGED <<contacts, pending, req, fresh, reply>>

\* upsertContacts answers 0 when an identity does not know the contact.
ReregisterCommit(w) ==
    LET s == MakeContactSelector(req[w]) IN
    /\ pc[w] = "rereg_commit"
    /\ UpsertContacts(targets[w], s, fresh[w], TRUE)
    /\ Answer(w, IF UpsertApplies(targets[w], s, TRUE) THEN 200 ELSE 500)
    /\ UNCHANGED pending

\* Faulty variant: the associated identities are forgotten.
DeregisterSarPrimary(w) ==
    /\ pc[w] = "dereg_sar"
    /\ Goto(w, "dereg_commit")
    /\ UNCHANGED <<contacts, pending, req, fresh, targets, reply>>

\* Best effort: after a failure the identity of the request alone is removed.
DeregisterSar(w) ==
    /\ pc[w] = "dereg_sar"
    /\ \E T \in Assigned(w) \cup (IF HssMayFail THEN {targets[w]} ELSE {}) :
          targets' = [targets EXCEPT ![w] = T]
    /\ Goto(w, "dereg_commit")
    /\ UNCHANGED <<contacts, pending, req, fresh, reply>>

DeregisterCommit(w) ==
    LET r == req[w] IN
    /\ pc[w] = "dereg_commit"
    /\ IF HasSpecificContact(r)
       THEN RemoveContacts(targets[w], MakeContactSelector(r), r.callId, r.cseq)
       ELSE RemoveBindings(targets[w])
    /\ Answer(w, 200)
    /\ UNCHANGED pending

-----------------------------------------------------------------------------
(* The rest of the server. *)

\* Call routing and SUBSCRIBE look an identity up, which prunes it.
LookupByRouter(i) ==
    /\ Lookup(i)
    /\ UNCHANGED <<pending, pc, local, reply>>

\* runRegistrationCleanup with a store that does its work.
Cleanup ==
    /\ PurgeExpired
    /\ UNCHANGED <<pending, pc, local, reply>>

\* A challenge outlives its 120 s and is purged by the provider.
ChallengeExpires(p) ==
    /\ pending' = pending \ {p}
    /\ UNCHANGED <<contacts, pc, local, reply>>

Tick ==
    /\ AgeContacts
    /\ fresh' = [w \in Worker |-> IF fresh[w] = None THEN None ELSE Aged(fresh[w])]
    /\ UNCHANGED <<pending, pc, req, targets, reply>>

Start(w) == \E r \in Request :
    StartDeregister(w, r) \/ StartReregister(w, r) \/ StartRegister(w, r)

Handle(w) ==
    \/ SendChallenge(w) \/ ChallengeFails(w)
    \/ VerifyOk(w) \/ VerifyMismatch(w) \/ NoPendingAuthState(w) \/ NoProvider(w)
    \/ RegisterSar(w) \/ RegisterSarFails(w) \/ RegisterCommit(w)
    \/ ReregisterSar(w) \/ ReregisterCommit(w)
    \/ DeregisterSar(w) \/ DeregisterCommit(w)

\* All that goes on beside the cleanup.
Operations ==
    \/ \E w \in Worker : Start(w) \/ Handle(w)
    \/ \E i \in Impu : LookupByRouter(i)
    \/ \E p \in pending : ChallengeExpires(p)
    \/ Tick

\* Here the cleanup may run at any time; ScscfService has the timer.
Next == Operations \/ Cleanup

Spec == Init /\ [][Next]_vars

-----------------------------------------------------------------------------
(* Properties. *)

Committing(w, location) == pc[w] = location /\ pc'[w] = "idle"

Writing(w) == pc[w] \in {"reg_commit", "rereg_commit", "dereg_commit"} /\ pc'[w] = "idle"

\* A contact only appears through an authenticated registration, or in place
\* of a live contact of the same identity that the refresh names: a refresh
\* that was looked up before a de-registration, an expiry or a sweep never
\* brings a removed contact back (require_existing_match of upsertContacts).
AddsOnlyKnownContacts ==
    \A i \in Impu : \A d \in contacts'[i] :
        \/ \E c \in contacts[i] : d \in {c, Aged(c)}
        \/ \E w \in Worker : Committing(w, "reg_commit") /\ i \in targets[w] /\ d = fresh[w]
        \/ \E w \in Worker :
              /\ Committing(w, "rereg_commit") /\ i \in targets[w] /\ d = fresh[w]
              /\ \E c \in Live(contacts[i]) : MatchesSelector(c, MakeContactSelector(req[w]))

NoRevival == [][AddsOnlyKnownContacts]_vars

\* A worker that was slow with an old REGISTER never replaces or removes a
\* live contact that a newer REGISTER of the same Call-ID has written
\* (reject_older_cseq of the store).  De-registrations without a specific
\* contact are left out: removeBindings has no CSeq to compare.
NewerContactsStay ==
    \A w \in Worker :
        Writing(w) /\ (pc[w] = "dereg_commit" => HasSpecificContact(req[w])) =>
            \A i \in Impu : \A c \in Live(contacts[i]) \ contacts'[i] :
                c.callId = req[w].callId => c.cseq <= req[w].cseq

StaleRegisterNeverWins == [][NewerContactsStay]_vars

\* A live contact only goes away because a request that names it, or a
\* de-registration of the whole identity, is committed: not by a sweep, by a
\* look-up, or by a request about another contact.
OtherContactsStay ==
    \A i \in Impu : \A c \in Live(contacts[i]) :
        \/ c \in contacts'[i] \/ Aged(c) \in contacts'[i]
        \/ \E w \in Worker :
              /\ Writing(w) /\ i \in targets[w]
              /\ \/ pc[w] = "dereg_commit" /\ ~HasSpecificContact(req[w])
                 \/ MatchesSelector(c, MakeContactSelector(req[w]))

NoCollateralLoss == [][OtherContactsStay]_vars

\* A refresh is all or nothing over the associated identities: answered 200,
\* each of them holds the refreshed contact or one a newer REGISTER of the
\* Call-ID has written; answered otherwise, no live contact has changed.
RefreshWritesAllOrNone ==
    \A w \in Worker : Committing(w, "rereg_commit") =>
        IF reply'[w] = 200
        THEN \A i \in targets[w] : \E c \in contacts'[i] :
                c = fresh[w] \/ OlderCseq(fresh[w].callId, fresh[w].cseq, c)
        ELSE \A i \in Impu : Live(contacts'[i]) = Live(contacts[i])

RefreshAllOrNothing == [][RefreshWritesAllOrNone]_vars

\* With an HSS that answers and a profile that stays, the identities of one
\* implicit registration set hold the same live contacts, whatever the
\* interleaving of registrations, refreshes, removals and look-ups.
ImplicitSetConsistent ==
    \A i, j \in Impu :
        (\E A \in Profiles[i] : j \in A) => Live(contacts[i]) = Live(contacts[j])
=============================================================================
