------------------------------- MODULE DigestAuth -------------------------------
(***************************************************************************)
(* The SIP digest provider of the S-CSCF (DigestAuthProvider), called by   *)
(* the REGISTER handlers of several workers at once.  createChallenge      *)
(* looks for a pending entry, makes a nonce without the lock, and looks    *)
(* again before it stores it; verifyAuthorization copies the entry,        *)
(* compares without the lock, and takes the lock again to consume it.      *)
(*                                                                         *)
(* Abstractions.                                                           *)
(*  - makeNonce never returns the same 128 random bits twice: a nonce is   *)
(*    a number, MaxNonces bounds how many are made.                        *)
(*  - The credential store is read-only; an identity without credential    *)
(*    gets an error before any state is touched and is left out.           *)
(*  - A response is the nonce it was computed from, or None when wrong.    *)
(*  - An entry older than its TTL disappears when any call purges.         *)
(***************************************************************************)
EXTENDS Integers, AuthProvider

CONSTANTS
    Login,      \* a Call-ID and a private identity
    MaxNonces

ASSUME DigestAssumption == MaxNonces \in Nat /\ None \notin Worker \cup Login \cup Nat

Nonce == 1 .. MaxNonces

VARIABLES
    nonceOf,    \* pending_auth_, by Call-ID and private identity
    stage,      \* where a worker stands in the provider
    login,      \* the key it works on
    nonce,      \* the nonce it has made or copied
    given,      \* the response it verifies
    made,       \* number of nonces made
    sent,       \* the challenges sent to clients
    nonceUses   \* how often each nonce has authenticated a registration

digestCallVars == <<login, nonce, given>>
digestVars == <<nonceOf, stage, digestCallVars, made, sent, nonceUses>>

\* The nonces that wait, are carried or are answered have all been made.
DigestTypeOK ==
    /\ made \in 0 .. MaxNonces
    /\ nonceOf \in [Login -> 1 .. made \cup {None}]
    /\ stage \in [Worker -> {"idle", "store", "compare", "consume"}]
    /\ login \in [Worker -> Login \cup {None}]
    /\ nonce \in [Worker -> 1 .. made \cup {None}]
    /\ given \in [Worker -> 1 .. made \cup {None}]
    /\ sent \in SUBSET (Login \X (1 .. made))
    /\ nonceUses \in [Nonce -> Nat]

DigestInit ==
    /\ nonceOf = [k \in Login |-> None]
    /\ stage = [w \in Worker |-> "idle"]
    /\ login = [w \in Worker |-> None]
    /\ nonce = [w \in Worker |-> None]
    /\ given = [w \in Worker |-> None]
    /\ made = 0
    /\ sent = {}
    /\ nonceUses = [n \in Nonce |-> 0]

-----------------------------------------------------------------------------
DigestCall(w, location, k, n, a) ==
    /\ stage[w] = "idle"
    /\ stage' = [stage EXCEPT ![w] = location]
    /\ login' = [login EXCEPT ![w] = k]
    /\ nonce' = [nonce EXCEPT ![w] = n]
    /\ given' = [given EXCEPT ![w] = a]

DigestReturn(w) ==
    /\ stage' = [stage EXCEPT ![w] = "idle"]
    /\ login' = [login EXCEPT ![w] = None]
    /\ nonce' = [nonce EXCEPT ![w] = None]
    /\ given' = [given EXCEPT ![w] = None]

\* createChallenge, first locked section: an entry is there already.
CreateKnown(w, k) ==
    /\ stage[w] = "idle" /\ nonceOf[k] # None
    /\ sent' = sent \cup {<<k, nonceOf[k]>>}
    /\ UNCHANGED <<nonceOf, stage, digestCallVars, made, nonceUses>>

\* Faulty variant: the generator repeats itself.
CreateRepeated(w, k) ==
    /\ nonceOf[k] = None /\ made < MaxNonces
    /\ made' = made
    /\ DigestCall(w, "store", k, made + 1, None)
    /\ UNCHANGED <<nonceOf, sent, nonceUses>>

\* ... or is not, and makeNonce.
CreateNew(w, k) ==
    /\ nonceOf[k] = None /\ made < MaxNonces
    /\ made' = made + 1
    /\ DigestCall(w, "store", k, made + 1, None)
    /\ UNCHANGED <<nonceOf, sent, nonceUses>>

\* Faulty variant: no second look before the entry is stored.
StoreUnchecked(w) ==
    /\ stage[w] = "store"
    /\ nonceOf' = [nonceOf EXCEPT ![login[w]] = nonce[w]]
    /\ sent' = sent \cup {<<login[w], nonceOf'[login[w]]>>}
    /\ DigestReturn(w)
    /\ UNCHANGED <<made, nonceUses>>

\* Second locked section: whichever nonce came first is the one that is sent.
Store(w) ==
    /\ stage[w] = "store"
    /\ nonceOf' = IF nonceOf[login[w]] # None THEN nonceOf
                  ELSE [nonceOf EXCEPT ![login[w]] = nonce[w]]
    /\ sent' = sent \cup {<<login[w], nonceOf'[login[w]]>>}
    /\ DigestReturn(w)
    /\ UNCHANGED <<made, nonceUses>>

\* verifyAuthorization; without an entry it returns an error at once.
VerifyNonce(w, k, a) ==
    /\ nonceOf[k] # None
    /\ DigestCall(w, "compare", k, nonceOf[k], a)
    /\ UNCHANGED <<nonceOf, made, sent, nonceUses>>

\* A wrong response leaves the entry.
Compare(w) ==
    /\ stage[w] = "compare"
    /\ IF given[w] = nonce[w]
       THEN stage' = [stage EXCEPT ![w] = "consume"] /\ UNCHANGED digestCallVars
       ELSE DigestReturn(w)
    /\ UNCHANGED <<nonceOf, made, sent, nonceUses>>

ConsumeNonce(w) ==
    /\ stage[w] = "consume"
    /\ IF nonceOf[login[w]] = nonce[w]
       THEN /\ nonceOf' = [nonceOf EXCEPT ![login[w]] = None]
            /\ nonceUses' = [nonceUses EXCEPT ![nonce[w]] = @ + 1]
       ELSE UNCHANGED <<nonceOf, nonceUses>>
    /\ DigestReturn(w)
    /\ UNCHANGED <<made, sent>>

\* purgeExpiredLocked, which every call runs first.
PurgeNonce(k) ==
    /\ nonceOf' = [nonceOf EXCEPT ![k] = None]
    /\ UNCHANGED <<stage, digestCallVars, made, sent, nonceUses>>

NonceAnswers == {c[2] : c \in sent} \cup {None}

DigestNext ==
    \/ \E w \in Worker :
          \/ \E k \in Login : CreateKnown(w, k) \/ CreateNew(w, k)
          \/ \E k \in Login, a \in NonceAnswers : VerifyNonce(w, k, a)
          \/ Store(w) \/ Compare(w) \/ ConsumeNonce(w)
    \/ \E k \in Login : PurgeNonce(k)

DigestSpec == DigestInit /\ [][DigestNext]_digestVars

-----------------------------------------------------------------------------
(* Properties. *)

\* The nonces that are, or have been, stored: a nonce that lost the race of
\* two createChallenge calls never becomes a challenge.
DigestPromise == INSTANCE OneTimeChallenge WITH
    Client <- Login, Secret <- Nonce, Nothing <- None,
    open <- nonceOf, issued <- {c[2] : c \in sent}, accepted <- nonceUses

\* The digest provider keeps the promise of OneTimeChallenge: of two
\* concurrent createChallenge calls one nonce wins, both clients are sent that
\* one, and a nonce is accepted at most once.
DigestIsOneTimeChallenge == DigestPromise!Spec
=============================================================================
