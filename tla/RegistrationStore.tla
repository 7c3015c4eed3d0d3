--------------------------- MODULE RegistrationStore ---------------------------
(***************************************************************************)
(* The registration store of the S-CSCF (MemoryRegistrationStore): for     *)
(* every public identity (IMPU) the contacts bound to it.  Every operation *)
(* of the class runs under one mutex, so every operation is one step.      *)
(*                                                                         *)
(* Abstractions.                                                           *)
(*  - bindings_ erases an entry together with its last contact and never   *)
(*    keeps an empty one, so an IMPU without entry is an IMPU whose set of *)
(*    contacts is empty.                                                   *)
(*  - The contacts of an IMPU are a set, not a vector: when a selector     *)
(*    matches several of them the code replaces the first one, the model   *)
(*    any one of them.                                                     *)
(*  - An expiry time is the number of ticks left; 0 means expires <= now.  *)
(*  - impi, scscf_uri, path, user_agent and q_value are carried along by   *)
(*    the code and decide nothing here; state is kRegistered in every call *)
(*    the program makes.                                                   *)
(***************************************************************************)
EXTENDS Integers, FiniteSets

CONSTANTS
    Impu,        \* public identities
    Uri,         \* contact URIs, normalised
    InstanceId,  \* values of +sip.instance
    RegId,       \* values of reg-id
    CallId,      \* Call-IDs of REGISTER requests
    None         \* an absent field (the empty string of the code)

ASSUME NoneAssumption ==
    /\ None \notin Uri \cup InstanceId \cup RegId \cup CallId \cup Impu
    /\ None \notin Nat

VARIABLE contacts    \* bindings_: the contacts of every IMPU

Contact == [uri: Uri \cup {None}, inst: InstanceId \cup {None},
            reg: RegId \cup {None}, ttl: Nat, callId: CallId, cseq: Nat]

Selector == [uri: Uri \cup {None}, inst: InstanceId \cup {None},
             reg: RegId \cup {None}]

StoreTypeOK == contacts \in [Impu -> SUBSET Contact]

StoreInit == contacts = [i \in Impu |-> {}]

-----------------------------------------------------------------------------
\* A selector that names an instance and a reg-id ignores the URI.
UsesInstanceAndRegId(s) == s.inst # None /\ s.reg # None

MatchesSelector(c, s) ==
    IF UsesInstanceAndRegId(s) THEN c.inst = s.inst /\ c.reg = s.reg
                               ELSE c.uri = s.uri

Expired(c) == c.ttl = 0

Live(C) == {c \in C : ~Expired(c)}

Matching(C, s) == {c \in C : MatchesSelector(c, s)}

\* A REGISTER of the same Call-ID with a lower CSeq than the stored one.
OlderCseq(callId, cseq, c) == c.callId = callId /\ cseq < c.cseq

\* Faulty variant: an expired contact takes the whole binding with it.
PrunedWithBinding(B) ==
    [i \in Impu |-> IF i \in B /\ Live(contacts[i]) # contacts[i] THEN {} ELSE contacts[i]]

\* pruneExpiredLocked for every IMPU of a batch.
Pruned(B) == [i \in Impu |-> IF i \in B THEN Live(contacts[i]) ELSE contacts[i]]

-----------------------------------------------------------------------------
Lookup(i) == contacts' = Pruned({i})

\* Faulty variant: a stale REGISTER overwrites the contact it matches.
UpsertContactLockedAnyCseq(C, s, c) ==
    IF Matching(C, s) = {} THEN {C \cup {c}}
    ELSE {(C \ {old}) \cup {c} : old \in Matching(C, s)}

\* The possible contents of one IMPU after an upsert into C: a contact the
\* selector does not know is added, a known one is replaced unless it comes
\* from a newer REGISTER of the same Call-ID.
UpsertContactLocked(C, s, c) ==
    IF Matching(C, s) = {} THEN {C \cup {c}}
    ELSE {IF OlderCseq(c.callId, c.cseq, old) THEN C ELSE (C \ {old}) \cup {c} :
             old \in Matching(C, s)}

\* Faulty variant: one matching identity is enough.
UpsertAppliesToSome(B, s, require) ==
    require => \E i \in B : Matching(Live(contacts[i]), s) # {}

\* The check that precedes the writes: with require_existing_match every
\* identity of the batch must know the contact.
UpsertApplies(B, s, require) ==
    require => \A i \in B : Matching(Live(contacts[i]), s) # {}

\* Faulty variant: the identities are written one by one, without the check.
UpsertContactsUnchecked(B, s, c, require) ==
    \E after \in [B -> UNION {UpsertContactLocked(Live(contacts[i]), s, c) \cup
                               {Live(contacts[i])} : i \in B}] :
        /\ \A i \in B :
              IF require /\ Matching(Live(contacts[i]), s) = {}
              THEN after[i] = Live(contacts[i])
              ELSE after[i] \in UpsertContactLocked(Live(contacts[i]), s, c)
        /\ contacts' = [i \in Impu |-> IF i \in B THEN after[i] ELSE contacts[i]]

UpsertContacts(B, s, c, require) ==
    IF UpsertApplies(B, s, require)
    THEN \E after \in [B -> UNION {UpsertContactLocked(Live(contacts[i]), s, c) : i \in B}] :
            /\ \A i \in B : after[i] \in UpsertContactLocked(Live(contacts[i]), s, c)
            /\ contacts' = [i \in Impu |-> IF i \in B THEN after[i] ELSE contacts[i]]
    ELSE contacts' = Pruned(B)

\* removeContactLocked: what stays in C.
Remaining(C, s, callId, cseq) ==
    {c \in C : MatchesSelector(c, s) => OlderCseq(callId, cseq, c)}

RemoveContacts(B, s, callId, cseq) ==
    contacts' = [i \in Impu |-> IF i \in B THEN Remaining(Live(contacts[i]), s, callId, cseq)
                                           ELSE contacts[i]]

RemoveBindings(B) ==
    contacts' = [i \in Impu |-> IF i \in B THEN {} ELSE contacts[i]]

PurgeExpired == contacts' = Pruned(Impu)

\* The clock advances by one tick.
Aged(c) == [c EXCEPT !.ttl = IF c.ttl > 0 THEN c.ttl - 1 ELSE 0]

AgeContacts == contacts' = [i \in Impu |-> {Aged(c) : c \in contacts[i]}]
=============================================================================
