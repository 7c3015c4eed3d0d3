-------------------------------- MODULE AkaAuth --------------------------------
(***************************************************************************)
(* The IMS-AKA authentication provider of the S-CSCF                       *)
(* (ImsAkaAuthProvider), called by the REGISTER handlers of several        *)
(* workers at once.                                                        *)
(*                                                                         *)
(* createChallenge releases auth_mutex_ around the Multimedia-Auth-Request *)
(* to the HSS; the first caller of a key owns the request, the callers     *)
(* that find the key in in_flight_auth_ wait on its shared_future.         *)
(* verifyAuthorization copies the pending entry, compares the response     *)
(* without the lock, and takes the lock again to consume the entry.        *)
(*                                                                         *)
(* Abstractions.                                                           *)
(*  - A vector is the number of the Multimedia-Auth-Answer it came in; the *)
(*    HSS never answers with the same RAND and AUTN twice.  MaxVectors     *)
(*    bounds the answers; past it the HSS only fails.                      *)
(*  - The shared_future of a key is named by the worker that owns it.      *)
(*  - A response is the vector it was computed from, or None when wrong.   *)
(*  - An entry older than 120 s disappears when any call purges; when that *)
(*    happens is a choice.                                                 *)
(***************************************************************************)
EXTENDS Integers, FiniteSets, AuthProvider

CONSTANTS CallId, Impi, Impu, MaxVectors

ASSUME AkaAssumption ==
    /\ MaxVectors \in Nat
    /\ None \notin Worker \cup Nat

Key == [callId: CallId, impi: Impi, impu: Impu]
Vector == 1 .. MaxVectors

ASSUME KeyAssumption == None \notin Key

VARIABLES
    pending,      \* pending_auth_: the vector that waits for its response
    inFlight,     \* in_flight_auth_: the owner of the request to the HSS
    pc,           \* where a worker stands in the provider
    key,          \* the key it works on
    held,         \* the vector it has fetched, received or copied
    answer,       \* the response it verifies
    waitsFor,     \* the owner whose future it waits on
    fetched,      \* number of vectors the HSS has handed out
    challenged,   \* the challenges sent to UEs
    accepted      \* how often each vector has authenticated a registration

callVars == <<key, held, answer, waitsFor>>
vars == <<pending, inFlight, pc, callVars, fetched, challenged, accepted>>

Location == {"idle", "mar", "publish", "promise", "waiting", "resume", "compare", "consume"}

\* What the provider keeps for a key is a vector the HSS has handed out, and
\* what a call carries over an unlocked section is of the kind the code keeps.
TypeOK ==
    /\ pending \in [Key -> Vector \cup {None}]
    /\ inFlight \in [Key -> Worker \cup {None}]
    /\ pc \in [Worker -> Location]
    /\ key \in [Worker -> Key \cup {None}]
    /\ held \in [Worker -> Vector \cup {None}]
    /\ answer \in [Worker -> Vector \cup {None}]
    /\ waitsFor \in [Worker -> Worker \cup {None}]
    /\ fetched \in 0 .. MaxVectors
    /\ challenged \in SUBSET (Key \X Vector)
    /\ accepted \in [Vector -> Nat]

Init ==
    /\ pending = [k \in Key |-> None]
    /\ inFlight = [k \in Key |-> None]
    /\ pc = [w \in Worker |-> "idle"]
    /\ key = [w \in Worker |-> None]
    /\ held = [w \in Worker |-> None]
    /\ answer = [w \in Worker |-> None]
    /\ waitsFor = [w \in Worker |-> None]
    /\ fetched = 0
    /\ challenged = {}
    /\ accepted = [v \in Vector |-> 0]

-----------------------------------------------------------------------------
Call(w, location, k, v, a, owner) ==
    /\ pc[w] = "idle"
    /\ pc' = [pc EXCEPT ![w] = location]
    /\ key' = [key EXCEPT ![w] = k]
    /\ held' = [held EXCEPT ![w] = v]
    /\ answer' = [answer EXCEPT ![w] = a]
    /\ waitsFor' = [waitsFor EXCEPT ![w] = owner]

Goto(w, location) == pc' = [pc EXCEPT ![w] = location]

Return(w) ==
    /\ Goto(w, "idle")
    /\ key' = [key EXCEPT ![w] = None]
    /\ held' = [held EXCEPT ![w] = None]
    /\ answer' = [answer EXCEPT ![w] = None]
    /\ waitsFor' = [waitsFor EXCEPT ![w] = None]

-----------------------------------------------------------------------------
(* createChallenge. *)

\* A challenge already waits: it is sent again.
CreateAgain(w, k) ==
    /\ pc[w] = "idle"
    /\ pending[k] # None
    /\ challenged' = challenged \cup {<<k, pending[k]>>}
    /\ UNCHANGED <<pending, inFlight, pc, callVars, fetched, accepted>>

\* Faulty variant: the key of in_flight_auth_ lacks the public identity.
CreateWaitsForDevice(w, k) ==
    \E l \in Key :
        /\ l.callId = k.callId /\ l.impi = k.impi
        /\ pending[k] = None /\ inFlight[l] # None
        /\ Call(w, "waiting", k, None, None, inFlight[l])
        /\ UNCHANGED <<pending, inFlight, fetched, challenged, accepted>>

\* Another caller is asking the HSS: wait for its result.
CreateWaits(w, k) ==
    /\ pending[k] = None /\ inFlight[k] # None
    /\ Call(w, "waiting", k, None, None, inFlight[k])
    /\ UNCHANGED <<pending, inFlight, fetched, challenged, accepted>>

\* Faulty variant: the calls in flight are not looked at.
CreateOwnsAlways(w, k) ==
    /\ pending[k] = None
    /\ Call(w, "mar", k, None, None, None)
    /\ inFlight' = [inFlight EXCEPT ![k] = w]
    /\ UNCHANGED <<pending, fetched, challenged, accepted>>

CreateOwns(w, k) ==
    /\ pending[k] = None /\ inFlight[k] = None
    /\ Call(w, "mar", k, None, None, None)
    /\ inFlight' = [inFlight EXCEPT ![k] = w]
    /\ UNCHANGED <<pending, fetched, challenged, accepted>>

\* Faulty variant: the vector is read before the answer is there.
MarAnsweredEarly(w) ==
    /\ pc[w] = "mar"
    /\ fetched < MaxVectors
    /\ fetched' = fetched + 1
    /\ held' = [held EXCEPT ![w] = fetched]
    /\ Goto(w, "publish")
    /\ UNCHANGED <<pending, inFlight, key, answer, waitsFor, challenged, accepted>>

\* multimediaAuth, without the lock.
MarAnswered(w) ==
    /\ pc[w] = "mar"
    /\ fetched < MaxVectors
    /\ fetched' = fetched + 1
    /\ held' = [held EXCEPT ![w] = fetched + 1]
    /\ Goto(w, "publish")
    /\ UNCHANGED <<pending, inFlight, key, answer, waitsFor, challenged, accepted>>

MarFails(w) ==
    /\ pc[w] = "mar"
    /\ Goto(w, "publish")
    /\ UNCHANGED <<pending, inFlight, callVars, fetched, challenged, accepted>>

\* Faulty variant: a failure leaves the entry in in_flight_auth_.
PublishSuccessOnly(w) ==
    /\ pc[w] = "publish"
    /\ pending' = IF held[w] = None THEN pending ELSE [pending EXCEPT ![key[w]] = held[w]]
    /\ inFlight' = IF held[w] = None THEN inFlight ELSE [inFlight EXCEPT ![key[w]] = None]
    /\ Goto(w, "promise")
    /\ UNCHANGED <<callVars, fetched, challenged, accepted>>

\* The second locked section.
Publish(w) ==
    /\ pc[w] = "publish"
    /\ pending' = IF held[w] = None THEN pending ELSE [pending EXCEPT ![key[w]] = held[w]]
    /\ inFlight' = [inFlight EXCEPT ![key[w]] = None]
    /\ Goto(w, "promise")
    /\ UNCHANGED <<callVars, fetched, challenged, accepted>>

WaitersOf(w) == {u \in Worker : pc[u] = "waiting" /\ waitsFor[u] = w}

Sent(w) == IF held[w] = None THEN {} ELSE {<<key[w], held[w]>>}

\* Faulty variant: only a success is handed to the waiters.
SetPromiseOfSuccess(w) ==
    LET W == IF held[w] = None THEN {} ELSE WaitersOf(w) IN
    /\ pc[w] = "promise"
    /\ pc' = [u \in Worker |-> IF u = w THEN "idle" ELSE IF u \in W THEN "resume" ELSE pc[u]]
    /\ held' = [u \in Worker |-> IF u = w THEN None ELSE IF u \in W THEN held[w] ELSE held[u]]
    /\ waitsFor' = [u \in Worker |-> IF u \in W THEN None ELSE waitsFor[u]]
    /\ key' = [key EXCEPT ![w] = None]
    /\ challenged' = challenged \cup Sent(w)
    /\ UNCHANGED <<pending, inFlight, answer, fetched, accepted>>

\* set_value: the future is ready for all that wait on it, and the owner
\* returns its challenge or the error.
SetPromise(w) ==
    LET W == WaitersOf(w) IN
    /\ pc[w] = "promise"
    /\ pc' = [u \in Worker |-> IF u = w THEN "idle" ELSE IF u \in W THEN "resume" ELSE pc[u]]
    /\ held' = [u \in Worker |-> IF u = w THEN None ELSE IF u \in W THEN held[w] ELSE held[u]]
    /\ waitsFor' = [u \in Worker |-> IF u \in W THEN None ELSE waitsFor[u]]
    /\ key' = [key EXCEPT ![w] = None]
    /\ challenged' = challenged \cup Sent(w)
    /\ UNCHANGED <<pending, inFlight, answer, fetched, accepted>>

Resume(w) ==
    /\ pc[w] = "resume"
    /\ challenged' = challenged \cup Sent(w)
    /\ Return(w)
    /\ UNCHANGED <<pending, inFlight, fetched, accepted>>

-----------------------------------------------------------------------------
(* verifyAuthorization. *)

\* findPendingForAuthorizationLocked knows the Call-ID and the user name,
\* not the public identity: any entry of the two will do.
PendingFor(callId, impi) ==
    {k \in Key : pending[k] # None /\ k.callId = callId /\ k.impi = impi}

\* Without an entry the call returns "no pending auth state" at once.
VerifyFinds(w, callId, impi, a) ==
    \E k \in PendingFor(callId, impi) :
        /\ Call(w, "compare", k, pending[k], a, None)
        /\ UNCHANGED <<pending, inFlight, fetched, challenged, accepted>>

CompareMatches(w) ==
    /\ pc[w] = "compare" /\ answer[w] = held[w]
    /\ Goto(w, "consume")
    /\ UNCHANGED <<pending, inFlight, callVars, fetched, challenged, accepted>>

\* "authorization verification failed"; the entry stays.
CompareDiffers(w) ==
    /\ pc[w] = "compare" /\ answer[w] # held[w]
    /\ Return(w)
    /\ UNCHANGED <<pending, inFlight, fetched, challenged, accepted>>

\* Faulty variant: the entry is taken without another look at its vector.
ConsumeUnchecked(w) ==
    /\ pc[w] = "consume"
    /\ pending' = [pending EXCEPT ![key[w]] = None]
    /\ accepted' = [accepted EXCEPT ![held[w]] = @ + 1]
    /\ Return(w)
    /\ UNCHANGED <<inFlight, fetched, challenged>>

Consume(w) ==
    /\ pc[w] = "consume" /\ pending[key[w]] = held[w]
    /\ pending' = [pending EXCEPT ![key[w]] = None]
    /\ accepted' = [accepted EXCEPT ![held[w]] = @ + 1]
    /\ Return(w)
    /\ UNCHANGED <<inFlight, fetched, challenged>>

\* Consumed, purged or renewed in the meantime: "no pending auth state".
ConsumeTooLate(w) ==
    /\ pc[w] = "consume" /\ pending[key[w]] # held[w]
    /\ Return(w)
    /\ UNCHANGED <<pending, inFlight, fetched, challenged, accepted>>

-----------------------------------------------------------------------------
\* purgeExpiredLocked, in whatever call comes after the 120 s.
Purge(k) ==
    /\ pending[k] # None
    /\ pending' = [pending EXCEPT ![k] = None]
    /\ UNCHANGED <<inFlight, pc, callVars, fetched, challenged, accepted>>

\* UEs answer challenges they have received, or send a wrong response.
Answers == {c[2] : c \in challenged} \cup {None}

Create(w) == \E k \in Key : CreateAgain(w, k) \/ CreateWaits(w, k) \/ CreateOwns(w, k)

Verify(w) ==
    \E callId \in CallId, impi \in Impi, a \in Answers : VerifyFinds(w, callId, impi, a)

Continue(w) ==
    \/ MarAnswered(w) \/ MarFails(w) \/ Publish(w) \/ SetPromise(w) \/ Resume(w)
    \/ CompareMatches(w) \/ CompareDiffers(w) \/ Consume(w) \/ ConsumeTooLate(w)

Next ==
    \/ \E w \in Worker : Create(w) \/ Verify(w) \/ Continue(w)
    \/ \E k \in Key : Purge(k)

Spec == Init /\ [][Next]_vars

\* A call that is not blocked runs on: its thread is its own until it returns,
\* and multimediaAuth returns with an answer or an error.
FairSpec == Spec /\ \A w \in Worker : WF_vars(Continue(w))

-----------------------------------------------------------------------------
(* Properties. *)

\* A vector authenticates at most one registration, however many workers
\* compare the same response at the same time (the second look of
\* verifyAuthorization at the entry).
NoReplay == \A v \in Vector : accepted[v] <= 1

Owning(w, k) == pc[w] \in {"mar", "publish"} /\ key[w] = k

\* An entry of in_flight_auth_ exists exactly as long as one worker is asking
\* the HSS for it: no key is left that every later REGISTER would wait on, and
\* no two requests for a key reach the HSS at once.
SingleFlight ==
    \A k \in Key : \A w \in Worker : inFlight[k] = w <=> Owning(w, k)

\* Whoever waits on a future waits on a worker that is about to set it, with
\* a challenge of the same key: also after the entry has left
\* in_flight_auth_, and after a failure of the HSS.
WaitersWillBeServed ==
    \A w \in Worker : pc[w] = "waiting" =>
        /\ waitsFor[w] \in Worker
        /\ pc[waitsFor[w]] \in {"mar", "publish", "promise"}
        /\ key[waitsFor[w]] = key[w]

\* A vector is only ever used for one public identity: what one waiter or
\* retransmission is challenged with is never the challenge of another.
VectorOfOneKey ==
    \A c, d \in challenged \cup {<<k, pending[k]>> : k \in {k \in Key : pending[k] # None}} :
        c[2] = d[2] => c[1] = d[1]

\* What the provider keeps has its types and fits together.
FlightsConsistent == TypeOK /\ SingleFlight /\ WaitersWillBeServed /\ VectorOfOneKey

\* Every call of the provider returns, also when the HSS fails.
CallsReturn == \A w \in Worker : pc[w] # "idle" ~> pc[w] = "idle"

\* The vectors that have left the HSS but not yet become a challenge.
Unpublished == {held[w] : w \in {u \in Worker : pc[u] = "publish"}}

Promise == INSTANCE OneTimeChallenge WITH
    Client <- Key, Secret <- Vector, Nothing <- None,
    open <- pending, issued <- (1 .. fetched) \ Unpublished, accepted <- accepted

\* The provider keeps the promise of OneTimeChallenge: the challenge that waits
\* for a client is never overwritten by a concurrent createChallenge, and
\* goes away only by being accepted once or by lapsing.
ImplementsOneTimeChallenge == Promise!Spec
=============================================================================
