------------------------------- MODULE HssAccess -------------------------------
(***************************************************************************)
(* MongoHssClient and MongoSubscriberRepository: the workers of the CSCFs   *)
(* ask for UAR, MAR, SAR and LIR, each of which is one or more round trips  *)
(* to the database with a client of the pool, while the operator's console  *)
(* edits the subscriber.                                                    *)
(*                                                                          *)
(* advanceSqn is the interesting part: it keeps one client of the pool and  *)
(* takes a second one for every read, compares and sets the number it has   *)
(* read, and gives up after MaxRetries conflicts.                           *)
(*                                                                          *)
(* Abstractions.                                                            *)
(*  - One subscriber, which has an IMSI and a telephone number.  A look-up  *)
(*    is the sequence of keys identity_candidates and private_identity_imsi *)
(*    derive; "stranger" is a key no subscriber has.                        *)
(*  - A round trip is one step, for the database serialises the operations  *)
(*    on a document.  It may fail before or after it has taken effect.      *)
(*  - Of the record, the sequence number and the serving S-CSCF are kept.   *)
(*  - MaxCalls, MaxEdits and MaxFailures bound how often workers, console    *)
(*    and a failing database act.                                           *)
(***************************************************************************)
EXTENDS Integers, Sequences, FiniteSets

CONSTANTS
    Worker, Modulus, Step, None,
    PoolSize,     \* clients in the pool of the driver
    MaxRetries,   \* kMaxRetries
    Requests,     \* commands, each with the keys it looks for
    MaxCalls, MaxEdits, MaxFailures

Sqn == 0 .. Modulus - 1

\* What is kept of the document of a subscriber.
Document == [sqn: Sqn, serving: {"default", "assigned"}]

\* "digest" is the look-up of the credential store.
Command == {"UAR", "MAR", "SAR", "LIR", "digest"}

Field == {"imsi", "tel", "stranger"}

\* advanceSqn holds a client and waits for another one: were there as many
\* workers as clients, all of them could hold one and wait for ever.
ASSUME PoolAssumption ==
    /\ IsFiniteSet(Worker) /\ PoolSize \in Nat /\ Cardinality(Worker) < PoolSize

ASSUME SqnAssumption ==
    /\ Modulus \in Nat \ {0} /\ Step \in Nat /\ None \notin Int \cup Document
    /\ MaxRetries \in Nat \ {0} /\ MaxCalls \in Nat /\ MaxEdits \in Nat /\ MaxFailures \in Nat
    /\ Requests \subseteq Command \X (Seq(Field) \ {<<>>})

VARIABLES
    record,    \* the document of the subscriber in the database, or None
    free,      \* clients in the pool
    run,       \* where each worker is, with the locals of the functions it is in
    answer,    \* what the last call of each worker returned
    calls, edits, failures,
    used,      \* history: the numbers taken since the console set the counter
    changes    \* history: how often the number has changed

db == <<record, used, changes>>
vars == <<db, free, run, answer, calls, edits, failures>>

Place == {"idle", "find", "finding", "advance", "read", "reading", "compare", "assign", "assigning"}

\* keys: those left to look for; seen: the number advanceSqn has read; since:
\* history, changes when it began.
Run == [at: Place, command: Command, keys: Seq(Field), seen: Sqn, tries: 0 .. MaxRetries - 1, since: Nat]

Idle == [at |-> "idle", command |-> "LIR", keys |-> <<>>, seen |-> 0, tries |-> 0, since |-> 0]

Nothing == [outcome |-> "none", sqn |-> None]

TypeOK ==
    /\ record \in Document \cup {None}
    /\ free \in Nat
    /\ run \in [Worker -> Run]
    /\ answer \in [Worker -> [outcome: {"none", "ok", "not_found", "db_error", "conflict"},
                              sqn: Sqn \cup {None}]]
    /\ calls \in 0 .. MaxCalls /\ edits \in 0 .. MaxEdits /\ failures \in 0 .. MaxFailures
    /\ used \in Seq(Sqn)
    /\ changes \in Nat

Init ==
    /\ record \in [sqn: {0}, serving: {"default"}] \cup {None}
    /\ free = PoolSize
    /\ run = [w \in Worker |-> Idle]
    /\ answer = [w \in Worker |-> Nothing]
    /\ calls = 0 /\ edits = 0 /\ failures = 0
    /\ used = <<>> /\ changes = 0

-----------------------------------------------------------------------------
\* Faulty variant: the mask is forgotten.
FollowingUnmasked(sqn) == sqn + Step

\* (old_sqn + step) & mask
Following(sqn) == (sqn + Step) % Modulus

Matches(key) == record # None /\ key # "stranger"

\* How many clients a worker holds: the guards of MongoClientGuard.
Holds(w) ==
    CASE run[w].at \in {"finding", "read", "compare", "assigning"} -> 1
      [] run[w].at = "reading" -> 2
      [] OTHER -> 0

\* MongoClientGuard waits for a client.
Pop(w, from, to) ==
    /\ run[w].at = from /\ free > 0
    /\ run' = [run EXCEPT ![w].at = to]
    /\ free' = free - 1
    /\ UNCHANGED <<db, answer, calls, edits, failures>>

GoesOn(w, there, back) ==
    /\ run' = [run EXCEPT ![w] = there]
    /\ free' = free + back
    /\ UNCHANGED answer

\* Faulty variant: an early return forgets the client it holds.
ReturnsForgetfully(w, outcome, sqn) ==
    /\ run' = [run EXCEPT ![w] = Idle]
    /\ free' = IF outcome = "not_found" THEN free ELSE free + Holds(w)
    /\ answer' = [answer EXCEPT ![w] = [outcome |-> outcome, sqn |-> sqn]]

\* The guards give back what they hold.
Returns(w, outcome, sqn) ==
    /\ run' = [run EXCEPT ![w] = Idle]
    /\ free' = free + Holds(w)
    /\ answer' = [answer EXCEPT ![w] = [outcome |-> outcome, sqn |-> sqn]]

\* The round trip fails.
Fails(w) ==
    /\ failures < MaxFailures
    /\ failures' = failures + 1
    /\ Returns(w, "db_error", None)

Call(w, request) ==
    /\ run[w].at = "idle" /\ calls < MaxCalls
    /\ calls' = calls + 1
    /\ run' = [run EXCEPT ![w] = [Idle EXCEPT !.at = "find", !.command = request[1], !.keys = request[2]]]
    /\ answer' = [answer EXCEPT ![w] = Nothing]
    /\ UNCHANGED <<db, free, edits, failures>>

PopToFind(w) == Pop(w, "find", "finding")

\* find_one_by_imsi_or_tel: the next key, until one is found.  UAR, LIR and
\* digest are done with the record, MAR and SAR go on.
Find(w) ==
    LET keys == run[w].keys IN
    /\ run[w].at = "finding"
    /\ \/ Fails(w)
       \/ /\ ~Matches(Head(keys)) /\ UNCHANGED failures
          /\ IF Tail(keys) = <<>> THEN Returns(w, "not_found", None)
             ELSE GoesOn(w, [run[w] EXCEPT !.at = "find", !.keys = Tail(@)], 1)
       \/ /\ Matches(Head(keys)) /\ UNCHANGED failures
          /\ CASE run[w].command = "MAR" -> GoesOn(w, [run[w] EXCEPT !.at = "advance"], 1)
               [] run[w].command = "SAR" -> GoesOn(w, [run[w] EXCEPT !.at = "assign"], 1)
               [] OTHER                  -> Returns(w, "ok", None)
    /\ UNCHANGED <<db, calls, edits>>

-----------------------------------------------------------------------------
(* MAR: advanceSqn. *)

\* The client that the updates use ...
PopToAdvance(w) ==
    /\ run[w].at = "advance" /\ free > 0
    /\ GoesOn(w, [run[w] EXCEPT !.at = "read", !.since = changes], -1)
    /\ UNCHANGED <<db, calls, edits, failures>>

\* ... and, while that one is held, the client of find_one_by_field.
PopToRead(w) == Pop(w, "read", "reading")

Read(w) ==
    /\ run[w].at = "reading"
    /\ \/ Fails(w)
       \/ record = None /\ Returns(w, "not_found", None) /\ UNCHANGED failures
       \/ /\ record # None /\ UNCHANGED failures
          /\ GoesOn(w, [run[w] EXCEPT !.at = "compare", !.seen = record.sqn], 1)
    /\ UNCHANGED <<db, calls, edits>>

\* Faulty variant: the update is filtered by the IMSI alone.
UnchangedSinceReadOfImsi(w) == record # None

UnchangedSinceRead(w) == record # None /\ record.sqn = run[w].seen

Advance(w) ==
    /\ UnchangedSinceRead(w)
    /\ record' = [record EXCEPT !.sqn = Following(run[w].seen)]
    /\ used' = Append(used, run[w].seen)
    /\ changes' = changes + 1

\* Faulty variant: the next attempt compares with what the first one has read.
ConflictWithoutRead(w) ==
    IF run[w].tries + 1 = MaxRetries THEN Returns(w, "conflict", None)
    ELSE GoesOn(w, [run[w] EXCEPT !.at = "compare", !.tries = @ + 1], 0)

\* Somebody else was faster: read again, or give up.
Conflict(w) ==
    IF run[w].tries + 1 = MaxRetries THEN Returns(w, "conflict", None)
    ELSE GoesOn(w, [run[w] EXCEPT !.at = "read", !.tries = @ + 1], 0)

\* update_one.  The number is lost with the reply, or if no vector can be built
\* from the record.
Compare(w) ==
    /\ run[w].at = "compare"
    /\ \/ Advance(w) /\ Returns(w, "ok", run[w].seen) /\ UNCHANGED failures
       \/ Advance(w) /\ Fails(w)
       \/ UNCHANGED db /\ Fails(w)
       \/ ~UnchangedSinceRead(w) /\ UNCHANGED db /\ Conflict(w) /\ UNCHANGED failures
    /\ UNCHANGED <<calls, edits>>

-----------------------------------------------------------------------------
(* SAR: setServingScscf. *)

PopToAssign(w) == Pop(w, "assign", "assigning")

Served == [record EXCEPT !.serving = "assigned"]

Assign(w) ==
    /\ run[w].at = "assigning"
    /\ \/ record # None /\ record' = Served /\ Returns(w, "ok", None) /\ UNCHANGED failures
       \/ record # None /\ record' = Served /\ Fails(w)
       \/ UNCHANGED record /\ Fails(w)
       \/ record = None /\ UNCHANGED record /\ Returns(w, "not_found", None) /\ UNCHANGED failures
    /\ UNCHANGED <<used, changes, calls, edits>>

-----------------------------------------------------------------------------
\* The console saves the subscriber with a number of its own, or under another
\* IMSI.
ConsoleSaves ==
    /\ edits < MaxEdits
    /\ edits' = edits + 1
    /\ record' \in [sqn: Sqn, serving: {"default"}] \cup {None}
    /\ used' = <<>>
    /\ changes' = changes + 1
    /\ UNCHANGED <<free, run, answer, calls, failures>>

WorkerStep(w) ==
    \/ PopToFind(w) \/ Find(w)
    \/ PopToAdvance(w) \/ PopToRead(w) \/ Read(w) \/ Compare(w)
    \/ PopToAssign(w) \/ Assign(w)

Next ==
    \/ \E w \in Worker, request \in Requests : Call(w, request)
    \/ \E w \in Worker : WorkerStep(w)
    \/ ConsoleSaves

Spec == Init /\ [][Next]_vars

\* A thread goes on, a client that is given back wakes one that waits, and the
\* driver returns an answer or an error.
FairSpec == Spec /\ \A w \in Worker : WF_vars(WorkerStep(w))

-----------------------------------------------------------------------------
\* The workers see one counter, however their reads and updates interleave, and
\* whatever assignments and lost replies come in between.
Sequence == INSTANCE SequenceNumbers
    WITH next <- IF record = None THEN None ELSE record.sqn,
         got <- [w \in Worker |-> answer[w].sqn]

OneCounter == Sequence!Spec

\* advanceSqn gives up only after MaxRetries others have changed the number
\* while it was at it: somebody always gets on.
ConflictMeansProgress ==
    [][\A w \in Worker :
          answer'[w].outcome = "conflict" /\ answer[w].outcome # "conflict" =>
              changes - run[w].since >= MaxRetries]_vars

CheckedOut == {p \in Worker \X {1, 2} : p[2] <= Holds(p[1])}

\* Every client is in the pool or with a worker, on every path of a call.
ClientsAccounted == free + Cardinality(CheckedOut) = PoolSize

\* The workers never wait for a client all at once: with an empty pool somebody
\* is at the database and gives one back.
NeverAllWaiting ==
    free = 0 => \E w \in Worker : run[w].at \in {"finding", "reading", "compare", "assigning"}

\* The variables have their types and fit together, the pool included.
PoolConsistent == TypeOK /\ ClientsAccounted /\ NeverAllWaiting

\* Every call returns, although advanceSqn waits for a client with one in hand.
CallsReturn == \A w \in Worker : run[w].at # "idle" ~> run[w].at = "idle"
=============================================================================
