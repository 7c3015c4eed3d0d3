------------------------------- MODULE AuthProofs -------------------------------
(***************************************************************************)
(* Theorems about the two authentication providers, AkaAuth and DigestAuth, *)
(* for every set of workers, identities and Call-IDs and every number of   *)
(* vectors and nonces: what they promise one by one, and that each         *)
(* implements OneTimeChallenge.                                            *)
(*                                                                         *)
(* In DigestAuth the second look of createChallenge decides which of two   *)
(* nonces becomes the challenge.  The invariant says what it decides       *)
(* between: the nonce a worker has made is nobody else's and was never     *)
(* sent, and what is stored was sent.                                      *)
(***************************************************************************)
EXTENDS AkaAuth, DigestAuth, TLAPS

-----------------------------------------------------------------------------
(* The inductive invariant. *)

\* While a request to the HSS is in flight no challenge waits for the key.
InFlightIsOpen == \A k \in Key : inFlight[k] # None => pending[k] = None

\* What the calls hold over their unlocked sections.
CallsHold ==
    \A w \in Worker :
        /\ pc[w] # "idle" => key[w] \in Key
        /\ pc[w] = "mar" => held[w] = None
        /\ pc[w] \in {"compare", "consume"} => held[w] \in Vector
        /\ held[w] # None => held[w] <= fetched

\* A vector that waits for its response, or is about to, has not been
\* accepted, and waits in one place only.
Publishing(w) == pc[w] = "publish" /\ held[w] # None

VectorsUnused ==
    /\ \A k \in Key : pending[k] # None =>
          pending[k] <= fetched /\ accepted[pending[k]] = 0
    /\ \A w \in Worker : Publishing(w) =>
          /\ accepted[held[w]] = 0
          /\ \A k \in Key : pending[k] # held[w]
          /\ \A u \in Worker : Publishing(u) /\ held[u] = held[w] => u = w
    /\ \A k, l \in Key : pending[k] # None /\ pending[k] = pending[l] => k = l
    /\ \A v \in Vector : v > fetched => accepted[v] = 0

IInv ==
    /\ TypeOK /\ SingleFlight /\ InFlightIsOpen
    /\ CallsHold /\ VectorsUnused /\ NoReplay

LEMMA InitIInv == Init => IInv
BY AkaAssumption, KeyAssumption
   DEF Init, IInv, TypeOK, SingleFlight, InFlightIsOpen, CallsHold, VectorsUnused, NoReplay,
       Location, Owning, Publishing, Vector

LEMMA CreateIInv ==
    ASSUME IInv, NEW w \in Worker, NEW k \in Key,
           CreateAgain(w, k) \/ CreateWaits(w, k) \/ CreateOwns(w, k)
    PROVE  IInv'
<1> USE AkaAssumption, KeyAssumption
<1>1. CASE CreateAgain(w, k)
  BY <1>1 DEF CreateAgain, callVars, IInv, TypeOK, SingleFlight, InFlightIsOpen, CallsHold,
              VectorsUnused, NoReplay, Owning, Publishing
<1>2. CASE CreateWaits(w, k)
  <2>1. TypeOK'
    BY <1>2 DEF CreateWaits, Call, IInv, TypeOK, Location
  <2>2. SingleFlight' /\ InFlightIsOpen'
    BY <1>2 DEF CreateWaits, Call, IInv, TypeOK, SingleFlight, InFlightIsOpen, Owning
  <2>3. CallsHold' /\ VectorsUnused' /\ NoReplay'
    BY <1>2 DEF CreateWaits, Call, IInv, TypeOK, CallsHold, VectorsUnused, NoReplay, Publishing
  <2> QED
    BY <2>1, <2>2, <2>3 DEF IInv
<1>3. CASE CreateOwns(w, k)
  <2>1. TypeOK'
    BY <1>3 DEF CreateOwns, Call, IInv, TypeOK, Location
  <2>2. SingleFlight' /\ InFlightIsOpen'
    BY <1>3 DEF CreateOwns, Call, IInv, TypeOK, SingleFlight, InFlightIsOpen, Owning
  <2>3. CallsHold' /\ VectorsUnused' /\ NoReplay'
    BY <1>3 DEF CreateOwns, Call, IInv, TypeOK, CallsHold, VectorsUnused, NoReplay, Publishing
  <2> QED
    BY <2>1, <2>2, <2>3 DEF IInv
<1> QED
  BY <1>1, <1>2, <1>3

LEMMA MarIInv ==
    ASSUME IInv, NEW w \in Worker, MarAnswered(w) \/ MarFails(w)
    PROVE  IInv'
<1> USE AkaAssumption, KeyAssumption
<1>1. CASE MarAnswered(w)
  <2>1. fetched \in Nat /\ fetched + 1 \in Vector
    BY <1>1 DEF MarAnswered, IInv, TypeOK, Vector
  <2>2. TypeOK'
    BY <1>1, <2>1 DEF MarAnswered, Goto, IInv, TypeOK, Location
  <2>3. SingleFlight' /\ InFlightIsOpen'
    BY <1>1 DEF MarAnswered, Goto, IInv, TypeOK, SingleFlight, InFlightIsOpen, Owning
  <2>4. CallsHold'
    BY <1>1, <2>1 DEF MarAnswered, Goto, IInv, TypeOK, CallsHold, Vector
  <2>5. VectorsUnused' /\ NoReplay'
    BY <1>1, <2>1 DEF MarAnswered, Goto, IInv, TypeOK, CallsHold, VectorsUnused, NoReplay,
                      Publishing, Vector
  <2> QED
    BY <2>2, <2>3, <2>4, <2>5 DEF IInv
<1>2. CASE MarFails(w)
  <2>1. TypeOK'
    BY <1>2 DEF MarFails, callVars, Goto, IInv, TypeOK, Location
  <2>2. SingleFlight' /\ InFlightIsOpen'
    BY <1>2 DEF MarFails, callVars, Goto, IInv, TypeOK, SingleFlight, InFlightIsOpen, Owning
  <2>3. CallsHold' /\ VectorsUnused' /\ NoReplay'
    BY <1>2 DEF MarFails, callVars, Goto, IInv, TypeOK, CallsHold, VectorsUnused, NoReplay,
                Publishing
  <2> QED
    BY <2>1, <2>2, <2>3 DEF IInv
<1> QED
  BY <1>1, <1>2

LEMMA PublishIInv ==
    ASSUME IInv, NEW w \in Worker, Publish(w)
    PROVE  IInv'
<1> USE AkaAssumption, KeyAssumption
<1>1. key[w] \in Key
  BY DEF Publish, IInv, CallsHold
<1>2. TypeOK'
  BY <1>1 DEF Publish, callVars, Goto, IInv, TypeOK, Location
<1>3. SingleFlight' /\ InFlightIsOpen'
  BY <1>1 DEF Publish, callVars, Goto, IInv, TypeOK, SingleFlight, InFlightIsOpen, Owning
<1>4. CallsHold' /\ NoReplay'
  BY DEF Publish, callVars, Goto, IInv, TypeOK, CallsHold, NoReplay
<1>5. VectorsUnused'
  BY <1>1 DEF Publish, callVars, Goto, IInv, TypeOK, CallsHold, VectorsUnused, Publishing
<1> QED
  BY <1>2, <1>3, <1>4, <1>5 DEF IInv

LEMMA SetPromiseIInv ==
    ASSUME IInv, NEW w \in Worker, SetPromise(w)
    PROVE  IInv'
<1> USE AkaAssumption, KeyAssumption
<1>1. TypeOK'
  BY DEF SetPromise, WaitersOf, Sent, IInv, TypeOK, CallsHold, Location
<1>2. SingleFlight' /\ InFlightIsOpen'
  BY DEF SetPromise, WaitersOf, IInv, TypeOK, SingleFlight, InFlightIsOpen, Owning
<1>3. CallsHold' /\ NoReplay'
  BY DEF SetPromise, WaitersOf, IInv, TypeOK, CallsHold, NoReplay
<1>4. VectorsUnused'
  BY DEF SetPromise, WaitersOf, IInv, TypeOK, VectorsUnused, Publishing
<1> QED
  BY <1>1, <1>2, <1>3, <1>4 DEF IInv

LEMMA ReturnIInv ==
    ASSUME IInv, NEW w \in Worker,
           Resume(w) \/ CompareDiffers(w) \/ ConsumeTooLate(w)
    PROVE  IInv'
<1> USE AkaAssumption, KeyAssumption
<1>1. /\ Return(w) /\ pc[w] \in {"resume", "compare", "consume"}
      /\ UNCHANGED <<pending, inFlight, fetched, accepted>>
      /\ challenged' \in SUBSET (Key \X Vector)
  BY DEF Resume, CompareDiffers, ConsumeTooLate, Sent, IInv, TypeOK, CallsHold
<1>2. TypeOK'
  BY <1>1 DEF Return, Goto, IInv, TypeOK, Location
<1>3. SingleFlight' /\ InFlightIsOpen'
  BY <1>1 DEF Return, Goto, IInv, TypeOK, SingleFlight, InFlightIsOpen, Owning
<1>4. CallsHold' /\ VectorsUnused' /\ NoReplay'
  BY <1>1 DEF Return, Goto, IInv, TypeOK, CallsHold, VectorsUnused, NoReplay, Publishing
<1> QED
  BY <1>2, <1>3, <1>4 DEF IInv

LEMMA VerifyIInv ==
    ASSUME IInv, NEW w \in Worker, Verify(w) \/ CompareMatches(w)
    PROVE  IInv'
<1> USE AkaAssumption, KeyAssumption
<1>1. CASE Verify(w)
  <2>1. PICK k \in Key, a \in Answers :
            /\ pending[k] # None
            /\ Call(w, "compare", k, pending[k], a, None)
            /\ UNCHANGED <<pending, inFlight, fetched, challenged, accepted>>
    BY <1>1 DEF Verify, VerifyFinds, PendingFor
  <2>2. a \in Vector \cup {None}
    BY DEF Answers, IInv, TypeOK
  <2>3. TypeOK'
    BY <2>1, <2>2 DEF Call, IInv, TypeOK, Location
  <2>4. SingleFlight' /\ InFlightIsOpen'
    BY <2>1 DEF Call, IInv, TypeOK, SingleFlight, InFlightIsOpen, Owning
  <2>5. CallsHold' /\ VectorsUnused' /\ NoReplay'
    BY <2>1 DEF Call, IInv, TypeOK, CallsHold, VectorsUnused, NoReplay, Publishing
  <2> QED
    BY <2>3, <2>4, <2>5 DEF IInv
<1>2. CASE CompareMatches(w)
  <2>1. TypeOK'
    BY <1>2 DEF CompareMatches, callVars, Goto, IInv, TypeOK, Location
  <2>2. SingleFlight' /\ InFlightIsOpen'
    BY <1>2 DEF CompareMatches, callVars, Goto, IInv, TypeOK, SingleFlight, InFlightIsOpen, Owning
  <2>3. CallsHold' /\ VectorsUnused' /\ NoReplay'
    BY <1>2 DEF CompareMatches, callVars, Goto, IInv, TypeOK, CallsHold, VectorsUnused, NoReplay,
                Publishing
  <2> QED
    BY <2>1, <2>2, <2>3 DEF IInv
<1> QED
  BY <1>1, <1>2

LEMMA ConsumeIInv ==
    ASSUME IInv, NEW w \in Worker, Consume(w)
    PROVE  IInv'
<1> USE AkaAssumption, KeyAssumption
<1>1. key[w] \in Key /\ held[w] \in Vector /\ pending[key[w]] = held[w]
  BY DEF Consume, IInv, CallsHold
<1>2. accepted[held[w]] = 0 /\ held[w] <= fetched
  BY <1>1 DEF IInv, VectorsUnused, Vector
<1>3. TypeOK'
  BY <1>1 DEF Consume, Return, Goto, IInv, TypeOK, Location
<1>4. SingleFlight' /\ InFlightIsOpen'
  BY <1>1 DEF Consume, Return, Goto, IInv, TypeOK, SingleFlight, InFlightIsOpen, Owning
<1>5. CallsHold' /\ NoReplay'
  BY <1>1, <1>2 DEF Consume, Return, Goto, IInv, TypeOK, CallsHold, NoReplay
<1>6. VectorsUnused'
  BY <1>1, <1>2 DEF Consume, Return, Goto, IInv, TypeOK, CallsHold, VectorsUnused, Publishing, Vector
<1> QED
  BY <1>3, <1>4, <1>5, <1>6 DEF IInv

LEMMA NextIInv == IInv /\ [Next]_vars => IInv'
<1> SUFFICES ASSUME IInv, [Next]_vars PROVE IInv'
  OBVIOUS
<1>1. ASSUME NEW w \in Worker, Create(w) \/ Verify(w) \/ Continue(w) PROVE IInv'
  BY <1>1, CreateIInv, MarIInv, PublishIInv, SetPromiseIInv, ReturnIInv, VerifyIInv, ConsumeIInv
  DEF Create, Continue
<1>2. ASSUME NEW k \in Key, Purge(k) PROVE IInv'
  BY <1>2, AkaAssumption, KeyAssumption
  DEF Purge, callVars, IInv, TypeOK, SingleFlight, InFlightIsOpen, CallsHold, VectorsUnused,
      NoReplay, Owning, Publishing
<1>3. CASE UNCHANGED vars
  BY <1>3 DEF vars, callVars, IInv, TypeOK, SingleFlight, InFlightIsOpen, CallsHold, VectorsUnused,
              NoReplay, Owning, Publishing
<1> QED
  BY <1>1, <1>2, <1>3 DEF Next

\* The inductive invariant: what createChallenge and verifyAuthorization may
\* rely on when they take the lock again.
THEOREM InductiveInvariant == Spec => []IInv
BY InitIInv, NextIInv, PTL DEF Spec

\* The provider keeps vectors the HSS has handed out, whatever interleaves.
THEOREM TypeCorrect == Spec => []TypeOK
<1>1. IInv => TypeOK
  BY DEF IInv
<1> QED
  BY <1>1, InductiveInvariant, PTL

\* No vector authenticates two registrations (verifyAuthorization), however
\* many workers verify the same response at once.
THEOREM VectorsAcceptedOnce == Spec => []NoReplay
<1>1. IInv => NoReplay
  BY DEF IInv
<1> QED
  BY <1>1, InductiveInvariant, PTL

\* Every entry of in_flight_auth_ has exactly one worker that will remove it.
THEOREM OneRequestPerKey == Spec => []SingleFlight
<1>1. IInv => SingleFlight
  BY DEF IInv
<1> QED
  BY <1>1, InductiveInvariant, PTL

-----------------------------------------------------------------------------
(* Waiters. *)

LEMMA WaitersStep ==
    ASSUME IInv, WaitersWillBeServed, [Next]_vars
    PROVE  WaitersWillBeServed'
<1> USE AkaAssumption, KeyAssumption
<1>1. ASSUME NEW w \in Worker, NEW k \in Key, CreateAgain(w, k) PROVE WaitersWillBeServed'
  BY <1>1 DEF CreateAgain, callVars, WaitersWillBeServed
<1>2. ASSUME NEW w \in Worker, NEW k \in Key, CreateWaits(w, k) PROVE WaitersWillBeServed'
  <2>1. /\ inFlight[k] \in Worker
        /\ pc[inFlight[k]] \in {"mar", "publish"} /\ key[inFlight[k]] = k
    BY <1>2 DEF CreateWaits, IInv, TypeOK, SingleFlight, Owning
  <2> QED
    BY <1>2, <2>1 DEF CreateWaits, Call, IInv, TypeOK, WaitersWillBeServed
<1>3. ASSUME NEW w \in Worker, NEW k \in Key, CreateOwns(w, k) PROVE WaitersWillBeServed'
  BY <1>3 DEF CreateOwns, Call, IInv, TypeOK, WaitersWillBeServed
<1>4. ASSUME NEW w \in Worker, Verify(w) PROVE WaitersWillBeServed'
  BY <1>4 DEF Verify, VerifyFinds, Call, IInv, TypeOK, WaitersWillBeServed
<1>5. ASSUME NEW w \in Worker, MarAnswered(w) \/ MarFails(w) \/ Publish(w) \/ CompareMatches(w)
      PROVE  WaitersWillBeServed'
  BY <1>5 DEF MarAnswered, MarFails, Publish, CompareMatches, callVars, Goto, IInv, TypeOK,
              WaitersWillBeServed
<1>6. ASSUME NEW w \in Worker, SetPromise(w) PROVE WaitersWillBeServed'
  BY <1>6 DEF SetPromise, WaitersOf, IInv, TypeOK, WaitersWillBeServed
<1>7. ASSUME NEW w \in Worker, Resume(w) \/ CompareDiffers(w) \/ Consume(w) \/ ConsumeTooLate(w)
      PROVE  WaitersWillBeServed'
  <2>1. Return(w) /\ pc[w] \in {"resume", "compare", "consume"}
    BY <1>7 DEF Resume, CompareDiffers, Consume, ConsumeTooLate
  <2> QED
    BY <2>1 DEF Return, Goto, IInv, TypeOK, WaitersWillBeServed
<1>8. ASSUME \/ \E k \in Key : Purge(k)
             \/ UNCHANGED vars
      PROVE  WaitersWillBeServed'
  BY <1>8 DEF Purge, vars, callVars, WaitersWillBeServed
<1> QED
  BY <1>1, <1>2, <1>3, <1>4, <1>5, <1>6, <1>7, <1>8 DEF Next, Create, Continue

\* No REGISTER handler waits on a future that nobody will set: the owner of the
\* request to the HSS is always on its way to set_value, for the same key.
THEOREM NoWaiterStranded == Spec => []WaitersWillBeServed
<1>1. Init => WaitersWillBeServed
  BY DEF Init, WaitersWillBeServed
<1> QED
  BY <1>1, WaitersStep, InductiveInvariant, PTL DEF Spec

-----------------------------------------------------------------------------
(* Which identity a vector is used for. *)

\* The uses of a vector: challenges sent, waiting, or carried by a call.
Carrying(w) == pc[w] \in {"publish", "promise", "resume"} /\ held[w] # None

Uses ==
    challenged \cup {<<k, pending[k]>> : k \in {k \in Key : pending[k] # None}}
               \cup {<<key[w], held[w]>> : w \in {w \in Worker : Carrying(w)}}

OneUse ==
    /\ \A c, d \in Uses : c[2] = d[2] => c[1] = d[1]
    /\ \A c \in Uses : c[2] <= fetched

UseInv == IInv /\ WaitersWillBeServed /\ OneUse

\* A step that only moves uses around, without a new vector.
LEMMA UsesShrink ==
    ASSUME OneUse, Uses' \subseteq Uses, fetched' = fetched
    PROVE  OneUse'
BY DEF OneUse

LEMMA PendingIsUsed ==
    ASSUME NEW k \in Key, pending[k] # None
    PROVE  <<k, pending[k]>> \in Uses
BY DEF Uses

LEMMA CarriedIsUsed ==
    ASSUME NEW w \in Worker, Carrying(w)
    PROVE  <<key[w], held[w]>> \in Uses
BY DEF Uses

\* Uses' is contained in Uses when each of its three parts is.
LEMMA UsesContained ==
    ASSUME challenged' \subseteq Uses,
           \A k \in Key : pending'[k] # None => <<k, pending'[k]>> \in Uses,
           \A w \in Worker : Carrying(w)' => <<key'[w], held'[w]>> \in Uses
    PROVE  Uses' \subseteq Uses
BY DEF Uses

LEMMA SentIsUsed ==
    ASSUME NEW w \in Worker, pc[w] \in {"promise", "resume"}
    PROVE  Sent(w) \subseteq Uses
BY CarriedIsUsed DEF Sent, Carrying

\* The steps other than a new vector and the delivery to the waiters.
LEMMA QuietUses ==
    ASSUME IInv, NEW w \in Worker,
           \/ \E k \in Key : CreateAgain(w, k) \/ CreateWaits(w, k) \/ CreateOwns(w, k)
           \/ MarFails(w) \/ Resume(w) \/ Verify(w) \/ CompareMatches(w)
           \/ CompareDiffers(w) \/ ConsumeTooLate(w)
    PROVE  Uses' \subseteq Uses /\ fetched' = fetched
<1>1. pending' = pending /\ fetched' = fetched
  BY DEF CreateAgain, CreateWaits, CreateOwns, MarFails, Resume, Verify, VerifyFinds,
         CompareMatches, CompareDiffers, ConsumeTooLate
<1>2. challenged' \subseteq Uses
  <2>1. CASE \E k \in Key : CreateAgain(w, k)
    BY <2>1, PendingIsUsed DEF CreateAgain, Uses
  <2>2. CASE Resume(w)
    BY <2>2, SentIsUsed DEF Resume, Uses
  <2>3. CASE challenged' = challenged
    BY <2>3 DEF Uses
  <2> QED
    BY <2>1, <2>2, <2>3 DEF CreateWaits, CreateOwns, MarFails, Verify, VerifyFinds,
       CompareMatches, CompareDiffers, ConsumeTooLate
<1>3. ASSUME NEW u \in Worker, Carrying(u)'
      PROVE  Carrying(u) /\ key'[u] = key[u] /\ held'[u] = held[u]
  <2>1. CASE \E k \in Key : CreateAgain(w, k)
    BY <1>3, <2>1 DEF CreateAgain, callVars, Carrying
  <2>2. CASE (\E k \in Key : CreateWaits(w, k) \/ CreateOwns(w, k)) \/ Verify(w)
    <3>1. \E location \in {"waiting", "mar", "compare"} :
             \E k, v, a, owner : Call(w, location, k, v, a, owner)
      BY <2>2 DEF CreateWaits, CreateOwns, Verify, VerifyFinds
    <3> QED
      BY <1>3, <3>1 DEF Call, Carrying, IInv, TypeOK
  <2>3. CASE MarFails(w)
    BY <1>3, <2>3 DEF MarFails, callVars, Goto, Carrying, IInv, TypeOK, CallsHold
  <2>4. CASE CompareMatches(w)
    BY <1>3, <2>4 DEF CompareMatches, callVars, Goto, Carrying, IInv, TypeOK
  <2>5. CASE Resume(w) \/ CompareDiffers(w) \/ ConsumeTooLate(w)
    <3>1. Return(w)
      BY <2>5 DEF Resume, CompareDiffers, ConsumeTooLate
    <3> QED
      BY <1>3, <3>1 DEF Return, Goto, Carrying, IInv, TypeOK
  <2> QED
    BY <2>1, <2>2, <2>3, <2>4, <2>5
<1>4. \A u \in Worker : Carrying(u)' => <<key'[u], held'[u]>> \in Uses
  BY <1>3, CarriedIsUsed
<1>5. \A k \in Key : pending'[k] # None => <<k, pending'[k]>> \in Uses
  BY <1>1, PendingIsUsed
<1> QED
  BY <1>1, <1>2, <1>4, <1>5, UsesContained

LEMMA RemovingUses ==
    ASSUME IInv, (\E w \in Worker : Consume(w)) \/ (\E k \in Key : Purge(k)) \/ UNCHANGED vars
    PROVE  Uses' \subseteq Uses /\ fetched' = fetched
<1>1. challenged' = challenged /\ fetched' = fetched
  BY DEF Consume, Purge, vars
<1>2. \A k \in Key : pending'[k] # None => pending'[k] = pending[k]
  BY DEF Consume, Purge, vars, IInv, TypeOK
<1>3. ASSUME NEW u \in Worker, Carrying(u)'
      PROVE  Carrying(u) /\ key'[u] = key[u] /\ held'[u] = held[u]
  BY <1>3 DEF Consume, Return, Goto, Purge, vars, callVars, Carrying, IInv, TypeOK
<1>4. \A u \in Worker : Carrying(u)' => <<key'[u], held'[u]>> \in Uses
  BY <1>3, CarriedIsUsed
<1>5. \A k \in Key : pending'[k] # None => <<k, pending'[k]>> \in Uses
  BY <1>2, PendingIsUsed
<1>6. challenged' \subseteq Uses
  BY <1>1 DEF Uses
<1> QED
  BY <1>1, <1>4, <1>5, <1>6, UsesContained

LEMMA PublishUses ==
    ASSUME IInv, NEW w \in Worker, Publish(w)
    PROVE  Uses' \subseteq Uses /\ fetched' = fetched
<1>1. challenged' \subseteq Uses /\ fetched' = fetched
  BY DEF Publish, Uses
<1>2. ASSUME NEW k \in Key, pending'[k] # None PROVE <<k, pending'[k]>> \in Uses
  <2>1. \/ pending'[k] = pending[k]
        \/ k = key[w] /\ pending'[k] = held[w] /\ held[w] # None
    BY DEF Publish, IInv, TypeOK
  <2> QED
    BY <1>2, <2>1, PendingIsUsed, CarriedIsUsed DEF Carrying, Publish
<1>3. ASSUME NEW u \in Worker, Carrying(u)'
      PROVE  Carrying(u) /\ key'[u] = key[u] /\ held'[u] = held[u]
  BY <1>3 DEF Publish, Goto, callVars, Carrying, IInv, TypeOK
<1>4. \A u \in Worker : Carrying(u)' => <<key'[u], held'[u]>> \in Uses
  BY <1>3, CarriedIsUsed
<1> QED
  BY <1>1, <1>2, <1>4, UsesContained

\* A waiter receives the owner's vector for the owner's key, which is its own.
LEMMA SetPromiseUses ==
    ASSUME IInv, WaitersWillBeServed, NEW w \in Worker, SetPromise(w)
    PROVE  Uses' \subseteq Uses /\ fetched' = fetched
<1>1. challenged' \subseteq Uses /\ fetched' = fetched
  BY SentIsUsed DEF SetPromise, Uses
<1>2. \A k \in Key : pending'[k] # None => <<k, pending'[k]>> \in Uses
  BY PendingIsUsed DEF SetPromise
<1>3. ASSUME NEW u \in Worker, Carrying(u)' PROVE <<key'[u], held'[u]>> \in Uses
  <2>1. CASE u \in WaitersOf(w)
    <3>1. key[u] = key[w] /\ u # w
      BY <2>1 DEF WaitersOf, WaitersWillBeServed, SetPromise
    <3>2. key'[u] = key[u] /\ held'[u] = held[w]
      BY <2>1, <3>1 DEF SetPromise, IInv, TypeOK
    <3>3. Carrying(w)
      BY <1>3, <3>2 DEF Carrying, SetPromise
    <3> QED
      BY <3>1, <3>2, <3>3, CarriedIsUsed
  <2>2. CASE u \notin WaitersOf(w)
    <3>1. u # w /\ Carrying(u) /\ key'[u] = key[u] /\ held'[u] = held[u]
      BY <1>3, <2>2 DEF SetPromise, Carrying, IInv, TypeOK
    <3> QED
      BY <3>1, CarriedIsUsed
  <2> QED
    BY <2>1, <2>2
<1> QED
  BY <1>1, <1>2, <1>3, UsesContained

\* A vector that has just been fetched is larger than every one in use.
LEMMA MarAnsweredUses ==
    ASSUME IInv, OneUse, NEW w \in Worker, MarAnswered(w)
    PROVE  OneUse'
<1>1. fetched \in Nat /\ fetched' = fetched + 1
  BY AkaAssumption DEF MarAnswered, IInv, TypeOK
<1> DEFINE new == <<key[w], fetched + 1>>
<1>2. Uses' \subseteq Uses \cup {new}
  <2>1. challenged' = challenged /\ pending' = pending
    BY DEF MarAnswered
  <2>2. ASSUME NEW u \in Worker, Carrying(u)' PROVE <<key'[u], held'[u]>> \in Uses \cup {new}
    <3>1. CASE u = w
      BY <3>1 DEF MarAnswered, IInv, TypeOK
    <3>2. CASE u # w
      <4>1. Carrying(u) /\ key'[u] = key[u] /\ held'[u] = held[u]
        BY <2>2, <3>2 DEF MarAnswered, Goto, Carrying, IInv, TypeOK
      <4> QED
        BY <4>1, CarriedIsUsed
    <3> QED
      BY <3>1, <3>2
  <2> HIDE DEF new
  <2> QED
    BY <2>1, <2>2 DEF Uses
<1>3. \A c \in Uses : c[2] \in Nat
  BY AkaAssumption DEF Uses, IInv, TypeOK, Vector, Carrying
<1>4. \A c \in Uses' : c \in Uses \/ (c = new)
  BY <1>2
<1>5. \A c \in Uses' : c[2] <= fetched'
  BY <1>1, <1>3, <1>4 DEF OneUse
<1>6. ASSUME NEW c \in Uses', NEW d \in Uses', c[2] = d[2] PROVE c[1] = d[1]
  BY <1>1, <1>3, <1>4, <1>6 DEF OneUse
<1> QED
  BY <1>5, <1>6 DEF OneUse

LEMMA OneUseStep ==
    ASSUME IInv, WaitersWillBeServed, OneUse, [Next]_vars
    PROVE  OneUse'
<1>1. \/ OneUse'
      \/ Uses' \subseteq Uses /\ fetched' = fetched
  BY QuietUses, RemovingUses, PublishUses, SetPromiseUses, MarAnsweredUses
  DEF Next, Create, Continue
<1> QED
  BY <1>1, UsesShrink

\* A challenge is never sent to another public identity than the one its
\* vector was fetched for, to the owner of the request and to its waiters alike.
THEOREM VectorsNotShared == Spec => []VectorOfOneKey
<1>1. Init => OneUse
  BY DEF Init, OneUse, Uses, Carrying
<1>2. OneUse => VectorOfOneKey
  BY DEF OneUse, Uses, VectorOfOneKey
<1> QED
  BY <1>1, <1>2, OneUseStep, InductiveInvariant, NoWaiterStranded, PTL DEF Spec

\* What the provider keeps fits together: the requests to the HSS, who waits for
\* them, and which identity their vectors are for.
THEOREM FlightsFit == Spec => []FlightsConsistent
<1>1. TypeOK /\ SingleFlight /\ WaitersWillBeServed /\ VectorOfOneKey => FlightsConsistent
  BY DEF FlightsConsistent
<1> QED
  BY <1>1, TypeCorrect, OneRequestPerKey, NoWaiterStranded, VectorsNotShared, PTL

-----------------------------------------------------------------------------
(* Refinement. *)

Issued == (1 .. fetched) \ Unpublished

\* Neither does a vector change hands, nor does it become or cease to be one
\* that has left the HSS unpublished.
LEMMA QuietRefines ==
    ASSUME IInv, NEW w \in Worker,
           \/ \E k \in Key : CreateAgain(w, k) \/ CreateWaits(w, k) \/ CreateOwns(w, k)
           \/ MarFails(w) \/ SetPromise(w) \/ Resume(w) \/ Verify(w)
           \/ CompareMatches(w) \/ CompareDiffers(w) \/ ConsumeTooLate(w)
    PROVE  UNCHANGED <<pending, accepted>> /\ Issued' = Issued
<1>1. UNCHANGED <<pending, accepted, fetched>>
  BY DEF CreateAgain, CreateWaits, CreateOwns, MarFails, SetPromise, Resume, Verify,
         VerifyFinds, CompareMatches, CompareDiffers, ConsumeTooLate
<1>2. ASSUME NEW u \in Worker
      PROVE  /\ pc'[u] = "publish" /\ held'[u] # None <=> pc[u] = "publish" /\ held[u] # None
             /\ pc[u] = "publish" /\ held[u] # None => held'[u] = held[u]
  <2>1. CASE \E k \in Key : CreateAgain(w, k)
    BY <2>1 DEF CreateAgain, callVars
  <2>2. CASE (\E k \in Key : CreateWaits(w, k) \/ CreateOwns(w, k)) \/ Verify(w)
    <3>1. \E location \in {"waiting", "mar", "compare"} :
             \E k, v, a, owner : Call(w, location, k, v, a, owner)
      BY <2>2 DEF CreateWaits, CreateOwns, Verify, VerifyFinds
    <3> QED
      BY <3>1 DEF Call, IInv, TypeOK
  <2>3. CASE MarFails(w)
    BY <2>3 DEF MarFails, callVars, Goto, IInv, TypeOK, CallsHold
  <2>4. CASE CompareMatches(w)
    BY <2>4 DEF CompareMatches, callVars, Goto, IInv, TypeOK
  <2>5. CASE Resume(w) \/ CompareDiffers(w) \/ ConsumeTooLate(w)
    <3>1. Return(w) /\ pc[w] \in {"resume", "compare", "consume"}
      BY <2>5 DEF Resume, CompareDiffers, ConsumeTooLate
    <3> QED
      BY <3>1 DEF Return, Goto, IInv, TypeOK
  <2>6. CASE SetPromise(w)
    BY <2>6 DEF SetPromise, WaitersOf, IInv, TypeOK
  <2> QED
    BY <2>1, <2>2, <2>3, <2>4, <2>5, <2>6
<1>3. \A v \in Nat : v # None
  BY AkaAssumption
<1>4. ASSUME NEW v \in Nat PROVE v \in Unpublished' <=> v \in Unpublished
  <2>1. ASSUME NEW u \in Worker
        PROVE  pc'[u] = "publish" /\ held'[u] = v <=> pc[u] = "publish" /\ held[u] = v
    BY <1>2, <1>3
  <2> QED
    BY <2>1 DEF Unpublished
<1>5. \A v \in 1 .. fetched : v \in Nat
  BY DEF IInv, TypeOK
<1> QED
  BY <1>1, <1>4, <1>5 DEF Issued

\* A vector that has just been fetched is not yet issued.
LEMMA MarAnsweredRefines ==
    ASSUME IInv, NEW w \in Worker, MarAnswered(w)
    PROVE  UNCHANGED <<pending, accepted>> /\ Issued' = Issued
<1>1. fetched \in Nat /\ fetched' = fetched + 1 /\ UNCHANGED <<pending, accepted>>
  BY DEF MarAnswered, IInv, TypeOK
<1>2. Unpublished' = Unpublished \cup {fetched + 1}
  BY DEF MarAnswered, Goto, Unpublished, IInv, TypeOK
<1> QED
  BY <1>1, <1>2 DEF Issued

LEMMA PublishRefines ==
    ASSUME IInv, NEW w \in Worker, Publish(w)
    PROVE  \/ Promise!Issue(key[w], held[w]) /\ key[w] \in Key /\ held[w] \in Vector
           \/ UNCHANGED <<pending, accepted>> /\ Issued' = Issued
<1> USE AkaAssumption
<1>1. /\ key[w] \in Key /\ pc[w] = "publish" /\ fetched \in Nat
      /\ pc' = [pc EXCEPT ![w] = "promise"]
      /\ UNCHANGED <<held, fetched, accepted>>
  BY DEF Publish, Goto, callVars, IInv, CallsHold, TypeOK
<1>2. \A v : v \in Unpublished' <=> \E u \in Worker \ {w} : pc[u] = "publish" /\ held[u] = v
  BY <1>1 DEF Unpublished, IInv, TypeOK
<1>3. \A v : v \in Unpublished <=> v = held[w] \/ v \in Unpublished'
  BY <1>1, <1>2 DEF Unpublished
<1>4. CASE held[w] = None
  <2>1. \A v \in Nat : v \in Unpublished <=> v \in Unpublished'
    BY <1>3, <1>4
  <2>2. pending' = pending
    BY <1>4 DEF Publish
  <2> QED
    BY <1>1, <2>1, <2>2 DEF Issued
<1>5. CASE held[w] # None
  <2>1. held[w] \in Vector /\ held[w] <= fetched
    BY <1>5 DEF IInv, TypeOK, CallsHold
  <2>2. held[w] \notin Unpublished'
    BY <1>1, <1>2, <1>5 DEF IInv, VectorsUnused, Publishing
  <2>3. Issued' = Issued \cup {held[w]} /\ held[w] \notin Issued
    <3>1. held[w] \in Unpublished
      BY <1>3
    <3>2. \A v : v \in Issued' <=> v \in 1 .. fetched /\ v \notin Unpublished'
      BY <1>1 DEF Issued
    <3>3. held[w] \in 1 .. fetched
      BY <1>1, <2>1 DEF Vector
    <3> QED
      BY <1>3, <2>2, <3>1, <3>2, <3>3 DEF Issued
  <2>4. pending[key[w]] = None
    BY <1>1 DEF IInv, SingleFlight, InFlightIsOpen, Owning, TypeOK
  <2>5. pending' = [pending EXCEPT ![key[w]] = held[w]]
    BY <1>5 DEF Publish
  <2> QED
    BY <1>1, <2>1, <2>3, <2>4, <2>5 DEF Promise!Issue, Issued
<1> QED
  BY <1>4, <1>5

LEMMA ConsumeRefines ==
    ASSUME IInv, NEW w \in Worker, Consume(w)
    PROVE  Promise!Accept(key[w]) /\ key[w] \in Key
<1>1. key[w] \in Key /\ held[w] \in Vector /\ pending[key[w]] = held[w] /\ pc[w] = "consume"
  BY DEF Consume, IInv, CallsHold
<1>2. Unpublished' = Unpublished /\ fetched' = fetched
  BY <1>1 DEF Consume, Return, Goto, Unpublished, IInv, TypeOK
<1>3. held[w] # None
  BY <1>1, AkaAssumption DEF Vector
<1> QED
  BY <1>1, <1>2, <1>3 DEF Consume, Promise!Accept

LEMMA PurgeRefines ==
    ASSUME NEW k \in Key, Purge(k)
    PROVE  Promise!Lapse(k)
BY DEF Purge, callVars, Promise!Lapse, Unpublished

LEMMA StepRefines ==
    ASSUME IInv, [Next]_vars
    PROVE  [Promise!Next]_Promise!vars
<1>1. ASSUME UNCHANGED <<pending, accepted>>, Issued' = Issued
      PROVE  UNCHANGED Promise!vars
  BY <1>1 DEF Promise!vars, Issued
<1>2. CASE UNCHANGED vars
  BY <1>2 DEF vars, callVars, Promise!vars, Unpublished
<1>3. CASE \E k \in Key : Purge(k)
  BY <1>3, PurgeRefines DEF Promise!Next
<1>4. ASSUME NEW w \in Worker, Create(w) \/ Verify(w) \/ Continue(w)
      PROVE  [Promise!Next]_Promise!vars
  <2>1. CASE Publish(w)
    BY <1>1, <2>1, PublishRefines DEF Promise!Next
  <2>2. CASE Consume(w)
    BY <2>2, ConsumeRefines DEF Promise!Next
  <2>3. CASE MarAnswered(w)
    BY <1>1, <2>3, MarAnsweredRefines
  <2>4. CASE ~(Publish(w) \/ Consume(w) \/ MarAnswered(w))
    BY <1>1, <1>4, <2>4, QuietRefines DEF Create, Continue
  <2> QED
    BY <2>1, <2>2, <2>3, <2>4
<1> QED
  BY <1>2, <1>3, <1>4 DEF Next

LEMMA InitRefines == Init => Promise!Init
BY DEF Init, Promise!Init, Unpublished

\* createChallenge and verifyAuthorization, with their unlocked sections, keep
\* the promise of a provider: one unchanging challenge per client until it is
\* accepted, once, or lapses.
THEOREM AkaKeepsPromise == Spec => ImplementsOneTimeChallenge
<1>1. Spec => Promise!Init /\ [][Promise!Next]_Promise!vars
  BY InitRefines, StepRefines, InductiveInvariant, PTL DEF Spec
<1> QED
  BY <1>1 DEF ImplementsOneTimeChallenge, Promise!Spec

-----------------------------------------------------------------------------
(* The digest provider. *)


\* Each worker has what its place in the provider needs.
NoncesCarried ==
    \A w \in Worker :
        /\ stage[w] # "idle" => login[w] \in Login /\ nonce[w] \in 1 .. made
        /\ stage[w] = "idle" => login[w] = None /\ nonce[w] = None /\ given[w] = None

\* A nonce on its way into the table is in one hand only.
NoncesApart ==
    \A w \in Worker : stage[w] = "store" =>
        /\ \A k \in Login : <<k, nonce[w]>> \notin sent
        /\ \A v \in Worker : stage[v] = "store" /\ v # w => nonce[v] # nonce[w]

StoredIsSent == \A k \in Login : nonceOf[k] # None => <<k, nonceOf[k]>> \in sent

DigestInv == DigestTypeOK /\ NoncesCarried /\ NoncesApart /\ StoredIsSent

LEMMA DigestInitInv == DigestInit => DigestInv
BY DigestAssumption DEF DigestInit, DigestInv, DigestTypeOK, NoncesCarried, NoncesApart, StoredIsSent,
                        Nonce

LEMMA DigestStepInv == DigestInv /\ [DigestNext]_digestVars => DigestInv'
<1> SUFFICES ASSUME DigestInv, [DigestNext]_digestVars PROVE DigestInv'
  OBVIOUS
<1> USE DigestAssumption DEF DigestInv, Nonce
<1>1. CASE UNCHANGED digestVars
  BY <1>1 DEF digestVars, digestCallVars, DigestTypeOK, NoncesCarried, NoncesApart, StoredIsSent
<1>2. ASSUME NEW w \in Worker, NEW k \in Login, CreateKnown(w, k) PROVE DigestInv'
  <2> USE <1>2 DEF CreateKnown, digestCallVars, StoredIsSent
  <2>1. sent' = sent
    OBVIOUS
  <2> QED
    BY <2>1 DEF DigestTypeOK, NoncesCarried, NoncesApart
<1>3. ASSUME NEW w \in Worker, NEW k \in Login, CreateNew(w, k) PROVE DigestInv'
  <2> USE <1>3 DEF CreateNew, DigestCall
  <2>1. made' = made + 1 /\ made \in Nat /\ made' \in 0 .. MaxNonces
    BY DEF DigestTypeOK
  <2>2. 1 .. made \subseteq 1 .. made' /\ made' \in 1 .. made'
    BY <2>1
  <2>3. DigestTypeOK'
    BY <2>1, <2>2 DEF DigestTypeOK
  <2>4. NoncesCarried'
    BY <2>2 DEF DigestTypeOK, NoncesCarried
  <2>5. NoncesApart'
    BY <2>1 DEF DigestTypeOK, NoncesCarried, NoncesApart
  <2>6. StoredIsSent'
    BY DEF StoredIsSent
  <2> QED
    BY <2>3, <2>4, <2>5, <2>6
<1>4. ASSUME NEW w \in Worker, NEW k \in Login, NEW a \in NonceAnswers, VerifyNonce(w, k, a)
      PROVE  DigestInv'
  <2> USE <1>4 DEF VerifyNonce, DigestCall
  <2>1. a \in 1 .. made \cup {None}
    BY DEF NonceAnswers, DigestTypeOK
  <2>2. DigestTypeOK'
    BY <2>1 DEF DigestTypeOK
  <2>3. NoncesCarried'
    BY DEF DigestTypeOK, NoncesCarried
  <2>4. NoncesApart'
    BY DEF DigestTypeOK, NoncesApart
  <2>5. StoredIsSent'
    BY DEF StoredIsSent
  <2> QED
    BY <2>2, <2>3, <2>4, <2>5
<1>5. ASSUME NEW w \in Worker, Store(w) PROVE DigestInv'
  <2> USE <1>5 DEF Store, DigestReturn
  <2>1. login[w] \in Login /\ nonce[w] \in 1 .. made
    BY DEF NoncesCarried
  <2>2. nonceOf' = [nonceOf EXCEPT ![login[w]] = nonceOf'[login[w]]]
        /\ nonceOf'[login[w]] = (IF nonceOf[login[w]] # None THEN nonceOf[login[w]] ELSE nonce[w])
        /\ nonceOf'[login[w]] \in 1 .. made
    BY <2>1 DEF DigestTypeOK
  <2>3. DigestTypeOK'
    BY <2>1, <2>2 DEF DigestTypeOK
  <2>4. NoncesCarried'
    BY DEF DigestTypeOK, NoncesCarried
  <2>5. NoncesApart'
    BY <2>1, <2>2 DEF DigestTypeOK, NoncesCarried, NoncesApart, StoredIsSent
  <2>6. StoredIsSent'
    BY <2>1, <2>2 DEF DigestTypeOK, StoredIsSent
  <2> QED
    BY <2>3, <2>4, <2>5, <2>6
<1>6. ASSUME NEW w \in Worker, Compare(w) PROVE DigestInv'
  <2>1. /\ \/ stage' = [stage EXCEPT ![w] = "consume"] /\ UNCHANGED digestCallVars
           \/ DigestReturn(w)
        /\ stage[w] = "compare" /\ UNCHANGED <<nonceOf, made, sent, nonceUses>>
    BY <1>6 DEF Compare
  <2>2. DigestTypeOK'
    BY <2>1 DEF DigestReturn, digestCallVars, DigestTypeOK
  <2>5. NoncesCarried'
    BY <2>1 DEF DigestReturn, digestCallVars, DigestTypeOK, NoncesCarried
  <2>3. \A v \in Worker : stage'[v] = "store" => stage[v] = "store" /\ nonce'[v] = nonce[v]
    BY <2>1 DEF DigestReturn, digestCallVars, DigestTypeOK
  <2>4. NoncesApart' /\ StoredIsSent'
    BY <2>1, <2>3 DEF NoncesApart, StoredIsSent
  <2> QED
    BY <2>2, <2>4, <2>5
<1>7. ASSUME NEW w \in Worker, ConsumeNonce(w) PROVE DigestInv'
  <2> USE <1>7 DEF ConsumeNonce, DigestReturn
  <2>1. login[w] \in Login /\ nonce[w] \in Nonce
    BY DEF NoncesCarried, DigestTypeOK
  <2>2. nonceUses' \in [Nonce -> Nat] /\ nonceOf' \in [Login -> 1 .. made \cup {None}]
    <3>1. CASE nonceOf[login[w]] = nonce[w]
      <4>1. nonceUses' = [nonceUses EXCEPT ![nonce[w]] = nonceUses[nonce[w]] + 1]
            /\ nonceOf' = [nonceOf EXCEPT ![login[w]] = None]
        BY <3>1
      <4>2. nonceUses[nonce[w]] + 1 \in Nat
        BY <2>1 DEF DigestTypeOK
      <4> QED
        BY <4>1, <4>2 DEF DigestTypeOK
    <3>2. CASE nonceOf[login[w]] # nonce[w]
      BY <3>2 DEF DigestTypeOK
    <3> QED
      BY <3>1, <3>2
  <2>5. DigestTypeOK'
    BY <2>2 DEF DigestTypeOK
  <2>3. NoncesCarried' /\ NoncesApart'
    BY DEF DigestTypeOK, NoncesCarried, NoncesApart
  <2>4. StoredIsSent'
    BY DEF DigestTypeOK, StoredIsSent
  <2> QED
    BY <2>5, <2>3, <2>4
<1>8. ASSUME NEW k \in Login, PurgeNonce(k) PROVE DigestInv'
  BY <1>8 DEF PurgeNonce, digestCallVars, DigestTypeOK, NoncesCarried, NoncesApart, StoredIsSent
<1> QED
  BY <1>1, <1>2, <1>3, <1>4, <1>5, <1>6, <1>7, <1>8 DEF DigestNext

\* What createChallenge and verifyAuthorization rely on when they take the lock
\* again holds throughout.
THEOREM DigestInductiveInvariant == DigestSpec => []DigestInv
BY DigestInitInv, DigestStepInv, PTL DEF DigestSpec

\* The nonces that wait, are carried or are answered have all been made.
THEOREM DigestTypeCorrect == DigestSpec => []DigestTypeOK
<1>1. DigestInv => DigestTypeOK
  BY DEF DigestInv
<1> QED
  BY <1>1, DigestInductiveInvariant, PTL

-----------------------------------------------------------------------------
(* Refinement. *)

NoncesIssued == {c[2] : c \in sent}

LEMMA DigestInitRefines == DigestInit => DigestPromise!Init
BY DEF DigestInit, DigestPromise!Init

\* Whoever finds the table empty issues its nonce; who comes second changes nothing.
LEMMA DigestStoreRefines ==
    ASSUME DigestInv, NEW w \in Worker, Store(w)
    PROVE  \/ DigestPromise!Issue(login[w], nonce[w]) /\ login[w] \in Login /\ nonce[w] \in Nonce
           \/ UNCHANGED <<nonceOf, sent, nonceUses>>
<1> USE DigestAssumption DEF DigestInv, Nonce
<1>1. login[w] \in Login /\ nonce[w] \in 1 .. made /\ nonce[w] \in Nonce /\ nonce[w] # None
  BY DEF Store, NoncesCarried, DigestTypeOK
<1>2. CASE nonceOf[login[w]] # None
  BY <1>1, <1>2 DEF Store, StoredIsSent
<1>3. CASE nonceOf[login[w]] = None
  <2>1. nonceOf' = [nonceOf EXCEPT ![login[w]] = nonce[w]] /\ nonceOf'[login[w]] = nonce[w]
    BY <1>1, <1>3 DEF Store, DigestTypeOK
  <2>2. sent' = sent \cup {<<login[w], nonce[w]>>} /\ nonceUses' = nonceUses
    BY <2>1 DEF Store
  <2>3. nonce[w] \notin NoncesIssued
    BY DEF Store, NoncesApart, DigestTypeOK, NoncesIssued
  <2>4. NoncesIssued' = NoncesIssued \cup {nonce[w]}
    <3>1. <<login[w], nonce[w]>>[2] = nonce[w]
      OBVIOUS
    <3>2. ASSUME NEW x PROVE x \in NoncesIssued' <=> x \in NoncesIssued \cup {nonce[w]}
      BY <2>2, <3>1 DEF NoncesIssued
    <3> QED
      BY <3>2
  <2>5. DigestPromise!Issue(login[w], nonce[w])
    BY <1>3, <2>1, <2>2, <2>3, <2>4 DEF DigestPromise!Issue, NoncesIssued
  <2> QED
    BY <1>1, <2>5
<1> QED
  BY <1>2, <1>3

\* Of the steps of the provider, one changes what OneTimeChallenge sees of it in
\* each of three ways; the others are none of its business.
LEMMA DigestStepRefines == DigestInv /\ [DigestNext]_digestVars => [DigestPromise!Next]_DigestPromise!vars
<1> SUFFICES ASSUME DigestInv, [DigestNext]_digestVars PROVE [DigestPromise!Next]_DigestPromise!vars
  OBVIOUS
<1> USE DigestAssumption DEF DigestInv, Nonce, DigestPromise!vars
<1>1. CASE UNCHANGED digestVars
  BY <1>1 DEF digestVars
<1>2. ASSUME NEW w \in Worker, NEW k \in Login, CreateKnown(w, k) PROVE UNCHANGED DigestPromise!vars
  <2>1. sent' = sent
    BY <1>2 DEF CreateKnown, StoredIsSent
  <2> QED
    BY <1>2, <2>1 DEF CreateKnown
<1>3. ASSUME NEW w \in Worker, NEW k \in Login, CreateNew(w, k) PROVE UNCHANGED DigestPromise!vars
  BY <1>3 DEF CreateNew
<1>4. ASSUME NEW w \in Worker, NEW k \in Login, NEW a \in NonceAnswers, VerifyNonce(w, k, a)
      PROVE  UNCHANGED DigestPromise!vars
  BY <1>4 DEF VerifyNonce
<1>5. ASSUME NEW w \in Worker, Store(w) PROVE [DigestPromise!Next]_DigestPromise!vars
  <2>1. CASE UNCHANGED <<nonceOf, sent, nonceUses>>
    BY <2>1
  <2>2. ASSUME DigestPromise!Issue(login[w], nonce[w]), login[w] \in Login, nonce[w] \in Nonce
        PROVE  DigestPromise!Next
    BY <2>2 DEF DigestPromise!Next, DigestPromise!Issue
  <2> QED
    BY <1>5, <2>1, <2>2, DigestStoreRefines
<1>6. ASSUME NEW w \in Worker, Compare(w) PROVE UNCHANGED DigestPromise!vars
  BY <1>6 DEF Compare
<1>7. ASSUME NEW w \in Worker, ConsumeNonce(w) PROVE [DigestPromise!Next]_DigestPromise!vars
  <2> DEFINE k == login[w]
  <2>1. k \in Login /\ nonce[w] # None
    BY <1>7 DEF ConsumeNonce, NoncesCarried, DigestTypeOK
  <2>2. CASE nonceOf[k] = nonce[w]
    <3>1. DigestPromise!Accept(k)
      BY <1>7, <2>1, <2>2 DEF ConsumeNonce, DigestPromise!Accept
    <3> QED
      BY <2>1, <3>1 DEF DigestPromise!Next
  <2>3. CASE nonceOf[k] # nonce[w]
    BY <1>7, <2>3 DEF ConsumeNonce
  <2> QED
    BY <2>2, <2>3
<1>8. ASSUME NEW k \in Login, PurgeNonce(k) PROVE [DigestPromise!Next]_DigestPromise!vars
  <2>1. CASE nonceOf[k] = None
    BY <1>8, <2>1 DEF PurgeNonce, DigestTypeOK
  <2>2. CASE nonceOf[k] # None
    <3>1. DigestPromise!Lapse(k)
      BY <1>8, <2>2 DEF PurgeNonce, DigestPromise!Lapse
    <3> QED
      BY <3>1 DEF DigestPromise!Next
  <2> QED
    BY <2>1, <2>2
<1> QED
  BY <1>1, <1>2, <1>3, <1>4, <1>5, <1>6, <1>7, <1>8 DEF DigestNext

\* Of the nonces concurrent createChallenge calls make, one becomes the challenge
\* of the client; it stays until it is accepted, once, or lapses.
THEOREM DigestKeepsPromise == DigestSpec => DigestIsOneTimeChallenge
<1>1. DigestSpec => DigestPromise!Init /\ [][DigestPromise!Next]_DigestPromise!vars
  BY DigestInitRefines, DigestStepRefines, DigestInductiveInvariant, PTL DEF DigestSpec
<1> QED
  BY <1>1 DEF DigestIsOneTimeChallenge, DigestPromise!Spec
=============================================================================
