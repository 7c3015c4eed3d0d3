---------------------------- MODULE HssAccessProofs ----------------------------
(***************************************************************************)
(* Theorems about HssAccess for every number of workers, clients, retries   *)
(* and calls, and every modulus and step of the counter.                    *)
(***************************************************************************)
EXTENDS HssAccess, FiniteSetTheorems, TLAPS

-----------------------------------------------------------------------------
(* Types, and what a worker that is under way has not got yet. *)

LEMMA FollowingType == \A sqn \in Sqn : Following(sqn) \in Sqn
BY SqnAssumption DEF Following, Sqn

\* What the steps of a worker are made of keeps the types of what it changes.
LEMMA ReturnsType ==
    ASSUME TypeOK, NEW w \in Worker,
           NEW outcome \in {"ok", "not_found", "db_error", "conflict"}, NEW sqn \in Sqn \cup {None},
           Returns(w, outcome, sqn)
    PROVE  /\ run' \in [Worker -> Run] /\ free' \in Nat
           /\ answer' \in [Worker -> [outcome: {"none", "ok", "not_found", "db_error", "conflict"},
                                      sqn: Sqn \cup {None}]]
<1>1. Idle \in Run
  BY SqnAssumption DEF Idle, Run, Place, Command, Sqn
<1>2. Holds(w) \in Nat
  BY DEF Holds
<1> QED
  BY <1>1, <1>2 DEF Returns, TypeOK

LEMMA FailsType ==
    ASSUME TypeOK, NEW w \in Worker, Fails(w)
    PROVE  /\ run' \in [Worker -> Run] /\ free' \in Nat /\ failures' \in 0 .. MaxFailures
           /\ answer' \in [Worker -> [outcome: {"none", "ok", "not_found", "db_error", "conflict"},
                                      sqn: Sqn \cup {None}]]
<1>1. failures' \in 0 .. MaxFailures
  BY SqnAssumption DEF Fails, TypeOK
<1> QED
  BY <1>1, ReturnsType DEF Fails

LEMMA PopType ==
    ASSUME TypeOK, NEW w \in Worker, NEW from, NEW to \in Place, Pop(w, from, to)
    PROVE  TypeOK'
<1>1. run' \in [Worker -> Run]
  BY DEF Pop, TypeOK, Run
<1>2. free' \in Nat
  BY DEF Pop, TypeOK
<1> QED
  BY <1>1, <1>2 DEF Pop, db, TypeOK

LEMMA GoesOnType ==
    ASSUME TypeOK, NEW w \in Worker, NEW there \in Run, NEW back \in Int, free + back >= 0,
           GoesOn(w, there, back)
    PROVE  run' \in [Worker -> Run] /\ free' \in Nat /\ answer' = answer
BY DEF GoesOn, TypeOK

LEMMA FindType == ASSUME TypeOK, NEW w \in Worker, Find(w) PROVE TypeOK'
<1> DEFINE keys == run[w].keys
<1>1. run[w] \in Run /\ keys \in Seq(Field)
  BY DEF TypeOK, Run
<1>2. CASE Fails(w)
  BY <1>2, FailsType DEF Find, TypeOK, db
<1>3. ASSUME NEW outcome \in {"ok", "not_found"}, Returns(w, outcome, None), UNCHANGED failures
      PROVE  TypeOK'
  BY <1>3, ReturnsType DEF Find, TypeOK, db
<1>4. ASSUME NEW there \in Run, GoesOn(w, there, 1), UNCHANGED failures
      PROVE  TypeOK'
  <2>1. free + 1 >= 0
    BY DEF TypeOK
  <2> QED
    BY <1>4, <2>1, GoesOnType DEF Find, TypeOK, db
<1>5. CASE ~Matches(Head(keys)) /\ UNCHANGED failures /\ ~Fails(w)
  <2>1. CASE Tail(keys) = <<>>
    BY <1>3, <1>5, <2>1 DEF Find
  <2>2. CASE Tail(keys) # <<>>
    <3>1. keys # <<>> => Tail(keys) \in Seq(Field)
      BY <1>1
    <3>2. GoesOn(w, [run[w] EXCEPT !.at = "find", !.keys = Tail(@)], 1)
      BY <1>5, <2>2 DEF Find
    <3>3. Tail(keys) \in Seq(Field)
      BY <1>1, <3>1, <2>2
    <3>4. [run[w] EXCEPT !.at = "find", !.keys = Tail(@)] \in Run
      BY <1>1, <3>3 DEF Run, Place
    <3> QED
      BY <1>4, <1>5, <3>2, <3>4
  <2> QED
    BY <2>1, <2>2
<1>6. CASE Matches(Head(keys)) /\ UNCHANGED failures /\ ~Fails(w)
  <2>1. \A place \in Place : [run[w] EXCEPT !.at = place] \in Run
    BY <1>1 DEF Run
  <2>2. CASE run[w].command = "MAR"
    <3>1. GoesOn(w, [run[w] EXCEPT !.at = "advance"], 1)
      BY <1>6, <2>2 DEF Find
    <3> QED
      BY <1>4, <1>6, <2>1, <3>1 DEF Place
  <2>3. CASE run[w].command = "SAR"
    <3>1. GoesOn(w, [run[w] EXCEPT !.at = "assign"], 1)
      BY <1>6, <2>3 DEF Find
    <3> QED
      BY <1>4, <1>6, <2>1, <3>1 DEF Place
  <2>4. CASE run[w].command \notin {"MAR", "SAR"}
    <3>1. Returns(w, "ok", None)
      BY <1>6, <2>4 DEF Find
    <3> QED
      BY <1>3, <1>6, <3>1
  <2> QED
    BY <2>2, <2>3, <2>4
<1> QED
  BY <1>2, <1>5, <1>6 DEF Find

LEMMA PopToAdvanceType == ASSUME TypeOK, NEW w \in Worker, PopToAdvance(w) PROVE TypeOK'
<1>1. [run[w] EXCEPT !.at = "read", !.since = changes] \in Run
  BY DEF TypeOK, Run, Place
<1>2. free + (-1) >= 0
  BY DEF PopToAdvance, TypeOK
<1> QED
  BY <1>1, <1>2, GoesOnType DEF PopToAdvance, TypeOK, db

LEMMA ReadType == ASSUME TypeOK, NEW w \in Worker, Read(w) PROVE TypeOK'
<1>1. CASE Fails(w)
  BY <1>1, FailsType DEF Read, TypeOK, db
<1>2. CASE Returns(w, "not_found", None) /\ UNCHANGED failures
  BY <1>2, ReturnsType DEF Read, TypeOK, db
<1>3. CASE /\ record # None /\ UNCHANGED failures
           /\ GoesOn(w, [run[w] EXCEPT !.at = "compare", !.seen = record.sqn], 1)
  <2>1. [run[w] EXCEPT !.at = "compare", !.seen = record.sqn] \in Run
    BY <1>3 DEF TypeOK, Run, Place, Document
  <2>2. free + 1 >= 0
    BY DEF TypeOK
  <2> QED
    BY <1>3, <2>1, <2>2, GoesOnType DEF Read, TypeOK, db
<1> QED
  BY <1>1, <1>2, <1>3 DEF Read

LEMMA CompareType == ASSUME TypeOK, NEW w \in Worker, Compare(w) PROVE TypeOK'
<1>1. ASSUME Advance(w)
      PROVE  /\ record' \in Document \cup {None}
             /\ used' \in Seq(Sqn) /\ changes' \in Nat
  <2>1. run[w].seen \in Sqn /\ Following(run[w].seen) \in Sqn
    BY FollowingType DEF TypeOK, Run
  <2> QED
    BY <1>1, <2>1 DEF Advance, UnchangedSinceRead, TypeOK, Document
<1>2. CASE Advance(w) /\ Returns(w, "ok", run[w].seen) /\ UNCHANGED failures
  <2>1. run[w].seen \in Sqn
    BY DEF TypeOK, Run
  <2> QED
    BY <1>1, <1>2, <2>1, ReturnsType DEF Compare, TypeOK
<1>3. CASE Advance(w) /\ Fails(w)
  BY <1>1, <1>3, FailsType DEF Compare, TypeOK
<1>4. CASE UNCHANGED db /\ Fails(w)
  BY <1>4, FailsType DEF Compare, TypeOK, db
<1>5. CASE UNCHANGED db /\ Conflict(w) /\ UNCHANGED failures
  <2>1. CASE run[w].tries + 1 = MaxRetries
    BY <1>5, <2>1, ReturnsType DEF Compare, Conflict, TypeOK, db
  <2>2. CASE run[w].tries + 1 # MaxRetries
    <3>1. run[w] \in Run /\ run[w].tries + 1 \in 0 .. MaxRetries - 1
      BY <2>2, SqnAssumption DEF TypeOK, Run
    <3>2. [run[w] EXCEPT !.at = "read", !.tries = @ + 1] \in Run
      BY <3>1 DEF Run, Place
    <3>3. free + 0 >= 0
      BY DEF TypeOK
    <3> QED
      BY <1>5, <2>2, <3>2, <3>3, GoesOnType DEF Compare, Conflict, TypeOK, db
  <2> QED
    BY <2>1, <2>2
<1> QED
  BY <1>2, <1>3, <1>4, <1>5 DEF Compare

LEMMA AssignType == ASSUME TypeOK, NEW w \in Worker, Assign(w) PROVE TypeOK'
<1>1. record' \in Document \cup {None}
  BY DEF Assign, Served, TypeOK, Document
<1> QED
  BY <1>1, ReturnsType, FailsType DEF Assign, TypeOK

LEMMA CallType ==
    ASSUME TypeOK, NEW w \in Worker, NEW request \in Requests, Call(w, request) PROVE TypeOK'
<1>1. request[1] \in Command /\ request[2] \in Seq(Field)
  BY SqnAssumption
<1>2. [Idle EXCEPT !.at = "find", !.command = request[1], !.keys = request[2]] \in Run
  <2>1. Idle \in Run
    BY SqnAssumption DEF Idle, Run, Place, Command, Sqn
  <2> QED
    BY <1>1, <2>1 DEF Run, Place
<1>3. calls' \in 0 .. MaxCalls
  BY SqnAssumption DEF Call, TypeOK
<1> QED
  BY <1>2, <1>3 DEF Call, Nothing, TypeOK, db

LEMMA ConsoleSavesType == ASSUME TypeOK, ConsoleSaves PROVE TypeOK'
<1>1. edits' \in 0 .. MaxEdits
  BY SqnAssumption DEF ConsoleSaves, TypeOK
<1>2. used' \in Seq(Sqn) /\ changes' \in Nat
  BY DEF ConsoleSaves, TypeOK
<1> QED
  BY <1>1, <1>2 DEF ConsoleSaves, TypeOK, Document

LEMMA WorkerStepType == ASSUME TypeOK, NEW w \in Worker, WorkerStep(w) PROVE TypeOK'
<1>1. CASE PopToFind(w) \/ PopToRead(w) \/ PopToAssign(w)
  BY <1>1, PopType DEF PopToFind, PopToRead, PopToAssign, Place
<1>2. CASE Find(w)
  BY <1>2, FindType
<1>3. CASE PopToAdvance(w)
  BY <1>3, PopToAdvanceType
<1>4. CASE Read(w)
  BY <1>4, ReadType
<1>5. CASE Compare(w)
  BY <1>5, CompareType
<1>6. CASE Assign(w)
  BY <1>6, AssignType
<1> QED
  BY <1>1, <1>2, <1>3, <1>4, <1>5, <1>6 DEF WorkerStep

LEMMA InitType == Init => TypeOK
<1>1. Idle \in Run
  BY SqnAssumption DEF Idle, Run, Place, Command, Sqn
<1> QED
  BY <1>1, PoolAssumption, SqnAssumption DEF Init, TypeOK, Nothing, Sqn, Document

LEMMA StepType == TypeOK /\ [Next]_vars => TypeOK'
<1> SUFFICES ASSUME TypeOK, [Next]_vars PROVE TypeOK'
  OBVIOUS
<1>1. CASE UNCHANGED vars
  BY <1>1 DEF vars, db, TypeOK
<1> QED
  BY <1>1, CallType, WorkerStepType, ConsoleSavesType DEF Next

\* Numbers stay within the mask, retries within their bound, and no worker takes
\* a client the pool has not got.
THEOREM TypeCorrect == Spec => []TypeOK
BY InitType, StepType, PTL DEF Spec

-----------------------------------------------------------------------------
(* Refinement of SequenceNumbers. *)

\* A worker that is in a call has no answer yet.
Unanswered == \A w \in Worker : run[w].at # "idle" => answer[w] = Nothing

LEMMA UnansweredStep == TypeOK /\ Unanswered /\ [Next]_vars => Unanswered'
<1> SUFFICES ASSUME TypeOK, Unanswered, [Next]_vars PROVE Unanswered'
  OBVIOUS
<1>1. CASE UNCHANGED vars
  BY <1>1 DEF vars, Unanswered
<1>2. CASE ConsoleSaves
  BY <1>2 DEF ConsoleSaves, Unanswered
<1>3. ASSUME NEW w \in Worker, NEW request \in Requests, Call(w, request)
      PROVE  Unanswered'
  BY <1>3 DEF Call, Unanswered, TypeOK
<1>4. ASSUME NEW w \in Worker, WorkerStep(w)
      PROVE  Unanswered'
  <2>1. ASSUME NEW outcome, NEW sqn, Returns(w, outcome, sqn)
        PROVE  Unanswered'
    BY <2>1 DEF Returns, Idle, Unanswered, TypeOK
  <2>2. CASE Fails(w)
    BY <2>1, <2>2 DEF Fails
  <2>3. ASSUME NEW there, NEW back, run[w].at # "idle", GoesOn(w, there, back)
        PROVE  Unanswered'
    BY <2>3 DEF GoesOn, Unanswered, TypeOK
  <2>4. ASSUME NEW from, NEW to, from # "idle", Pop(w, from, to)
        PROVE  Unanswered'
    BY <2>4 DEF Pop, Unanswered, TypeOK
  <2>5. CASE PopToFind(w) \/ PopToRead(w) \/ PopToAssign(w)
    BY <2>4, <2>5 DEF PopToFind, PopToRead, PopToAssign
  <2>6. CASE Find(w) \/ PopToAdvance(w)
    BY <2>1, <2>2, <2>3, <2>6 DEF Find, PopToAdvance
  <2>7. CASE Read(w) \/ Assign(w)
    BY <2>1, <2>2, <2>3, <2>7 DEF Read, Assign
  <2>8. CASE Compare(w)
    BY <2>1, <2>2, <2>3, <2>8 DEF Compare, Conflict
  <2> QED
    BY <1>4, <2>5, <2>6, <2>7, <2>8 DEF WorkerStep
<1> QED
  BY <1>1, <1>2, <1>3, <1>4 DEF Next

LEMMA CounterInvariant == Spec => [](TypeOK /\ Unanswered)
<1>1. Init => TypeOK /\ Unanswered
  BY InitType DEF Init, Idle, Unanswered
<1> QED
  BY <1>1, StepType, UnansweredStep, PTL DEF Spec

\* The counter that SequenceNumbers sees, and the numbers its users have.
Shown == IF record = None THEN None ELSE record.sqn

Given == [w \in Worker |-> answer[w].sqn]

\* A call that returns no number, or has not returned, shows its users nothing.
LEMMA QuietReturn ==
    ASSUME TypeOK, Unanswered, NEW w \in Worker, run[w].at # "idle", NEW outcome,
           Returns(w, outcome, None)
    PROVE  Given' = Given
<1>1. answer[w].sqn = None
  BY DEF Unanswered, Nothing
<1> QED
  BY <1>1 DEF Returns, Given, TypeOK

LEMMA QuietFailure ==
    ASSUME TypeOK, Unanswered, NEW w \in Worker, run[w].at # "idle", Fails(w)
    PROVE  Given' = Given
BY QuietReturn DEF Fails

LEMMA CompareRefines ==
    ASSUME TypeOK, Unanswered, NEW w \in Worker, Compare(w)
    PROVE  [Sequence!Next]_Sequence!vars
<1>1. run[w].at # "idle" /\ answer[w].sqn = None
  BY DEF Compare, Unanswered, Nothing
<1>2. ASSUME Advance(w)
      PROVE  Sequence!Take /\ Shown = run[w].seen
  <2>1. Shown \in Sqn /\ Shown # None /\ Shown = record.sqn
    BY <1>2, SqnAssumption DEF Advance, UnchangedSinceRead, Shown, TypeOK, Sqn, Document
  <2>2. record' # None /\ record'.sqn = Following(run[w].seen)
    <3>1. record \in Document /\ Following(run[w].seen) \in Sqn
      BY <1>2, FollowingType DEF Advance, UnchangedSinceRead, TypeOK, Run
    <3>2. record' \in Document /\ record'.sqn = Following(run[w].seen)
      BY <1>2, <3>1 DEF Advance, Document
    <3> QED
      BY <3>2, SqnAssumption
  <2> QED
    BY <1>2, <2>1, <2>2 DEF Advance, UnchangedSinceRead, Sequence!Take, Sequence!Following, Following, Shown
<1>3. CASE Advance(w) /\ Returns(w, "ok", run[w].seen)
  <2>1. Given' = [Given EXCEPT ![w] = run[w].seen] /\ Given[w] = None
    BY <1>1, <1>3 DEF Returns, Given, TypeOK
  <2>2. Sequence!HandOut(w)
    BY <1>2, <1>3, <2>1 DEF Sequence!HandOut, Given, Shown
  <2> QED
    BY <2>2 DEF Sequence!Next
<1>4. CASE Advance(w) /\ Fails(w)
  <2>1. Sequence!Lose
    BY <1>1, <1>2, <1>4, QuietFailure DEF Sequence!Lose, Given
  <2> QED
    BY <2>1 DEF Sequence!Next
<1>5. CASE UNCHANGED db /\ Fails(w)
  BY <1>1, <1>5, QuietFailure DEF db, Sequence!vars, Given
<1>6. CASE UNCHANGED db /\ Conflict(w)
  <2>1. Given' = Given
    BY <1>1, <1>6, QuietReturn DEF Conflict, GoesOn, Given
  <2> QED
    BY <1>6, <2>1 DEF db, Sequence!vars, Given
<1> QED
  BY <1>3, <1>4, <1>5, <1>6 DEF Compare

LEMMA AssignKeepsSqn ==
    ASSUME TypeOK, NEW w \in Worker, Assign(w)
    PROVE  Shown' = Shown
<1>1. CASE record # None /\ record' = Served
  <2>1. record \in Document
    BY <1>1 DEF TypeOK
  <2>2. record' \in Document /\ record'.sqn = record.sqn
    BY <1>1, <2>1 DEF Served, Document
  <2> QED
    BY <1>1, <2>2, SqnAssumption DEF Shown
<1>2. CASE UNCHANGED record
  BY <1>2 DEF Shown
<1> QED
  BY <1>1, <1>2 DEF Assign

LEMMA AssignRefines ==
    ASSUME TypeOK, Unanswered, NEW w \in Worker, Assign(w)
    PROVE  UNCHANGED Sequence!vars
<1>1. Given' = Given
  BY QuietReturn, QuietFailure DEF Assign
<1> QED
  BY <1>1, AssignKeepsSqn DEF Assign, Sequence!vars, Given, Shown

LEMMA ConsoleSavesRefines == ASSUME TypeOK, ConsoleSaves PROVE Sequence!Set
<1>1. Shown' \in Sqn \cup {None}
  BY DEF ConsoleSaves, Shown
<1>2. Sqn = Sequence!Sqn
  BY DEF Sqn, Sequence!Sqn
<1> QED
  BY <1>1, <1>2 DEF ConsoleSaves, Sequence!Set, Shown

LEMMA CallRefines ==
    ASSUME TypeOK, NEW w \in Worker, NEW request \in Requests, Call(w, request)
    PROVE  Sequence!Ask(w)
<1>1. Given' = [Given EXCEPT ![w] = None]
  BY DEF Call, Given, Nothing, TypeOK
<1> QED
  BY <1>1 DEF Call, db, Sequence!Ask, Given

\* Waiting for a client, looking up and reading change nothing the users see.
LEMMA QuietRefines ==
    ASSUME TypeOK, Unanswered, NEW w \in Worker, WorkerStep(w), ~Compare(w), ~Assign(w)
    PROVE  UNCHANGED Sequence!vars
<1>1. UNCHANGED db
  BY DEF WorkerStep, PopToFind, PopToRead, PopToAssign, Pop, Find, PopToAdvance, Read
<1>2. Given' = Given
  <2>1. CASE PopToFind(w) \/ PopToRead(w) \/ PopToAssign(w) \/ PopToAdvance(w)
    BY <2>1 DEF PopToFind, PopToRead, PopToAssign, Pop, PopToAdvance, GoesOn, Given
  <2>2. CASE Find(w)
    BY <2>2, QuietReturn, QuietFailure DEF Find, GoesOn, Given
  <2>3. CASE Read(w)
    BY <2>3, QuietReturn, QuietFailure DEF Read, GoesOn, Given
  <2> QED
    BY <2>1, <2>2, <2>3 DEF WorkerStep
<1> QED
  BY <1>1, <1>2 DEF db, Sequence!vars, Given

LEMMA StepRefines ==
    ASSUME TypeOK, Unanswered, [Next]_vars
    PROVE  [Sequence!Next]_Sequence!vars
<1>1. CASE UNCHANGED vars
  BY <1>1 DEF vars, db, Sequence!vars
<1>2. ASSUME NEW w \in Worker, WorkerStep(w)
      PROVE  [Sequence!Next]_Sequence!vars
  BY <1>2, CompareRefines, AssignRefines, QuietRefines
<1> QED
  BY <1>1, <1>2, CallRefines, ConsoleSavesRefines DEF Next, Sequence!Next

LEMMA InitRefines == Init => Sequence!Init
<1> SUFFICES ASSUME Init PROVE Sequence!Init
  OBVIOUS
<1>1. Shown \in Sequence!Sqn \cup {None}
  BY SqnAssumption DEF Init, Shown, Sequence!Sqn
<1>2. Given = [w \in Worker |-> None]
  BY DEF Init, Nothing, Given
<1> QED
  BY <1>1, <1>2 DEF Init, Sequence!Init, Shown, Given

\* Whatever the workers and the console do, and however their reads and updates
\* interleave, the numbers of the vectors come from one counter: MAR reads and
\* advances it in one instant, or returns none.
THEOREM SqnFromOneCounter == Spec => OneCounter
<1>1. Spec => Sequence!Init /\ [][Sequence!Next]_Sequence!vars
  BY InitRefines, StepRefines, CounterInvariant, PTL DEF Spec
<1> QED
  BY <1>1 DEF OneCounter, Sequence!Spec

LEMMA TakeInOrder ==
    ASSUME TypeOK, Sequence!InOrder, Sequence!Take
    PROVE  Sequence!InOrder'
<1> DEFINE n == Len(used)
<1>1. used \in Seq(Sqn) /\ n \in Nat /\ used' = Append(used, Shown) /\ Shown' = Sequence!Following(Shown)
  BY DEF TypeOK, Sequence!Take, Shown
<1>2. Len(used') = n + 1 /\ used'[n + 1] = Shown /\ \A i \in 1 .. n : used'[i] = used[i]
  BY <1>1
<1>3. used # <<>> => n \in 1 .. n /\ Shown = Sequence!Following(used[n])
  BY <1>1 DEF Sequence!InOrder, Shown
<1>4. ASSUME NEW i \in 1 .. n PROVE used'[i + 1] = Sequence!Following(used'[i])
  <2>1. CASE i = n
    BY <1>1, <1>2, <1>3, <1>4, <2>1
  <2>2. CASE i # n
    <3>1. i \in 1 .. n - 1 /\ i + 1 \in 1 .. n
      BY <1>1, <1>4, <2>2
    <3> QED
      BY <1>2, <1>4, <3>1 DEF Sequence!InOrder
  <2> QED
    BY <2>1, <2>2
<1>5. Sequence!Following(Shown)  = Sequence!Following(used'[n + 1]) /\ Len(used') - 1 = n
  BY <1>1, <1>2
<1> QED
  BY <1>1, <1>2, <1>4, <1>5 DEF Sequence!InOrder, Sequence!Following, Shown

LEMMA StepInOrder ==
    ASSUME TypeOK, Sequence!InOrder, [Sequence!Next]_Sequence!vars
    PROVE  Sequence!InOrder'
<1>1. CASE UNCHANGED <<Shown, used>>
  BY <1>1 DEF Sequence!InOrder, Sequence!Following, Shown
<1>2. CASE Sequence!Set
  BY <1>2 DEF Sequence!Set, Sequence!InOrder
<1>3. CASE UNCHANGED Sequence!vars \/ \E w \in Worker : Sequence!Ask(w)
  BY <1>1, <1>3 DEF Sequence!Ask, Sequence!vars, Shown
<1>4. CASE Sequence!Lose \/ \E w \in Worker : Sequence!HandOut(w)
  BY <1>4, TakeInOrder DEF Sequence!Lose, Sequence!HandOut
<1> QED
  BY <1>2, <1>3, <1>4 DEF Sequence!Next

\* The numbers taken since the console set the counter follow one another with
\* kSqnStep, and the record has the one that comes next.
THEOREM NumbersInOrder == Spec => []Sequence!InOrder
<1>1. Init => Sequence!InOrder
  BY DEF Init, Sequence!InOrder
<1>2. TypeOK /\ Unanswered /\ Sequence!InOrder /\ [Next]_vars => Sequence!InOrder'
  BY StepRefines, StepInOrder
<1> QED
  BY <1>1, <1>2, CounterInvariant, PTL DEF Spec

-----------------------------------------------------------------------------
(* Conflicts. *)

\* Every attempt of advanceSqn that failed was beaten by a change of its own, and
\* one that is going to fail has been beaten already.
Behind(r) ==
    /\ r.at \in {"find", "finding", "advance"} => r.tries = 0
    /\ r.at \in {"read", "reading", "compare"} => changes >= r.since + r.tries
    /\ r.at = "compare" => Shown = r.seen \/ changes >= r.since + r.tries + 1

Beaten == \A w \in Worker : Behind(run[w])

LEMMA UnchangedIsShown ==
    ASSUME TypeOK, NEW w \in Worker
    PROVE  UnchangedSinceRead(w) <=> Shown = run[w].seen
<1>1. run[w].seen \in Sqn /\ None \notin Sqn
  BY SqnAssumption DEF TypeOK, Run, Sqn
<1> QED
  BY <1>1 DEF UnchangedSinceRead, Shown

\* A change of the number beats whoever is between its read and its update.
LEMMA ChangeBeats ==
    ASSUME TypeOK, Beaten, changes' = changes + 1,
           \A v \in Worker : run'[v] = run[v] \/ run'[v] = Idle
    PROVE  Beaten'
<1> SUFFICES ASSUME NEW v \in Worker PROVE Behind(run[v])'
  BY DEF Beaten
<1>1. CASE run'[v] = Idle
  BY <1>1 DEF Behind, Idle
<1>2. CASE run'[v] = run[v]
  <2>1. run[v].since \in Nat /\ run[v].tries \in Nat /\ changes \in Nat
    BY DEF TypeOK, Run
  <2>2. /\ run[v].at \in {"read", "reading", "compare"} => changes >= run[v].since + run[v].tries
        /\ run[v].at \in {"find", "finding", "advance"} => run[v].tries = 0
    BY DEF Beaten, Behind
  <2> QED
    BY <1>2, <2>1, <2>2 DEF Behind
<1> QED
  BY <1>1, <1>2

\* A step of one worker that leaves the number alone concerns that worker only.
LEMMA QuietBeaten ==
    ASSUME TypeOK, Beaten, NEW w \in Worker, NEW there, Behind(there),
           run' = [run EXCEPT ![w] = there], changes' = changes, Shown' = Shown
    PROVE  Beaten'
<1> SUFFICES ASSUME NEW v \in Worker PROVE Behind(run[v])'
  BY DEF Beaten
<1>1. run'[v] = IF v = w THEN there ELSE run[v]
  BY DEF TypeOK
<1> QED
  BY <1>1 DEF Beaten, Behind

LEMMA PopBeaten ==
    ASSUME TypeOK, Beaten, NEW w \in Worker,
           NEW from, NEW to, Pop(w, from, to),
           \/ from = "find" /\ to = "finding"
           \/ from = "read" /\ to = "reading"
           \/ from = "assign" /\ to = "assigning"
    PROVE  Beaten'
<1>1. run' = [run EXCEPT ![w] = [run[w] EXCEPT !.at = to]] /\ changes' = changes /\ Shown' = Shown
  BY DEF Pop, db, Shown, TypeOK
<1>2. Behind([run[w] EXCEPT !.at = to])
  BY DEF Pop, Beaten, Behind, TypeOK, Run
<1> QED
  BY <1>1, <1>2, QuietBeaten

LEMMA ReturnBeaten ==
    ASSUME TypeOK, Beaten, NEW w \in Worker, NEW outcome, NEW sqn, Returns(w, outcome, sqn),
           changes' = changes, Shown' = Shown
    PROVE  Beaten'
<1>1. Behind(Idle)
  BY DEF Behind, Idle
<1> QED
  BY <1>1, QuietBeaten DEF Returns

LEMMA FailureBeaten ==
    ASSUME TypeOK, Beaten, NEW w \in Worker, Fails(w), changes' = changes, Shown' = Shown
    PROVE  Beaten'
BY ReturnBeaten DEF Fails

LEMMA FindBeaten == ASSUME TypeOK, Beaten, NEW w \in Worker, Find(w) PROVE Beaten'
<1>1. changes' = changes /\ Shown' = Shown
  BY DEF Find, db, Shown
<1>2. \A place \in {"advance", "assign"} : Behind([run[w] EXCEPT !.at = place])
  BY DEF Find, Beaten, Behind, TypeOK, Run
<1>3. Behind([run[w] EXCEPT !.at = "find", !.keys = Tail(@)])
  BY DEF Find, Beaten, Behind, TypeOK, Run
<1>4. ASSUME NEW there, Behind(there), NEW back, GoesOn(w, there, back) PROVE Beaten'
  BY <1>1, <1>4, QuietBeaten DEF GoesOn
<1> QED
  BY <1>1, <1>2, <1>3, <1>4, ReturnBeaten, FailureBeaten DEF Find

LEMMA PopToAdvanceBeaten ==
    ASSUME TypeOK, Beaten, NEW w \in Worker, PopToAdvance(w) PROVE Beaten'
<1> DEFINE there == [run[w] EXCEPT !.at = "read", !.since = changes]
<1>1. there.at = "read" /\ there.since = changes /\ there.tries = 0 /\ changes \in Nat
  BY DEF PopToAdvance, Beaten, Behind, TypeOK, Run
<1>2. Behind(there)
  BY <1>1 DEF Behind
<1>3. run' = [run EXCEPT ![w] = there] /\ changes' = changes /\ Shown' = Shown
  BY DEF PopToAdvance, GoesOn, db, Shown
<1> QED
  BY <1>2, <1>3, QuietBeaten

LEMMA ReadBeaten == ASSUME TypeOK, Beaten, NEW w \in Worker, Read(w) PROVE Beaten'
<1>1. changes' = changes /\ Shown' = Shown
  BY DEF Read, db, Shown
<1>2. CASE /\ record # None
           /\ GoesOn(w, [run[w] EXCEPT !.at = "compare", !.seen = record.sqn], 1)
  <2> DEFINE there == [run[w] EXCEPT !.at = "compare", !.seen = record.sqn]
  <2>1. there.at = "compare" /\ there.since = run[w].since /\ there.tries = run[w].tries /\ there.seen = Shown
    BY <1>2 DEF Shown, TypeOK, Run
  <2>2. changes >= run[w].since + run[w].tries
    BY DEF Read, Beaten, Behind
  <2>3. Behind(there)
    BY <2>1, <2>2 DEF Behind
  <2> QED
    BY <1>1, <1>2, <2>3, QuietBeaten DEF GoesOn
<1> QED
  BY <1>1, <1>2, ReturnBeaten, FailureBeaten DEF Read

\* A conflict is the work of somebody else.
LEMMA ConflictIsBeaten ==
    ASSUME TypeOK, Beaten, NEW w \in Worker, run[w].at = "compare", ~UnchangedSinceRead(w)
    PROVE  changes >= run[w].since + run[w].tries + 1
BY UnchangedIsShown DEF Beaten, Behind

LEMMA CompareBeaten == ASSUME TypeOK, Beaten, NEW w \in Worker, Compare(w) PROVE Beaten'
<1>1. CASE Advance(w)
  <2>1. run' = [run EXCEPT ![w] = Idle] /\ changes' = changes + 1
    BY <1>1 DEF Compare, Advance, db, Returns, Fails
  <2> QED
    BY <2>1, ChangeBeats DEF TypeOK
<1>2. CASE UNCHANGED db
  <2>1. changes' = changes /\ Shown' = Shown
    BY <1>2 DEF db, Shown
  <2>2. CASE ~UnchangedSinceRead(w) /\ GoesOn(w, [run[w] EXCEPT !.at = "read", !.tries = @ + 1], 0)
    <3> DEFINE there == [run[w] EXCEPT !.at = "read", !.tries = @ + 1]
    <3>1. there.at = "read" /\ there.since = run[w].since /\ there.tries = run[w].tries + 1
      BY DEF TypeOK, Run
    <3>2. changes >= run[w].since + run[w].tries + 1
      BY <2>2, ConflictIsBeaten DEF Compare
    <3>3. run[w].since \in Nat /\ run[w].tries \in Nat
      BY DEF TypeOK, Run
    <3>4. Behind(there)
      BY <3>1, <3>2, <3>3 DEF Behind
    <3> QED
      BY <2>1, <2>2, <3>4, QuietBeaten DEF GoesOn
  <2>3. CASE Returns(w, "ok", run[w].seen) \/ Fails(w) \/ Returns(w, "conflict", None)
    BY <2>1, <2>3, ReturnBeaten, FailureBeaten
  <2> QED
    BY <1>1, <2>2, <2>3 DEF Compare, Conflict
<1> QED
  BY <1>1, <1>2 DEF Compare

LEMMA AssignBeaten == ASSUME TypeOK, Beaten, NEW w \in Worker, Assign(w) PROVE Beaten'
BY AssignKeepsSqn, ReturnBeaten, FailureBeaten DEF Assign

LEMMA CallBeaten ==
    ASSUME TypeOK, Beaten, NEW w \in Worker, NEW request \in Requests, Call(w, request) PROVE Beaten'
<1>1. changes' = changes /\ Shown' = Shown
  BY DEF Call, db, Shown
<1>2. Behind([Idle EXCEPT !.at = "find", !.command = request[1], !.keys = request[2]])
  BY DEF Behind, Idle
<1> QED
  BY <1>1, <1>2, QuietBeaten DEF Call

LEMMA BeatenStep == TypeOK /\ Beaten /\ [Next]_vars => Beaten'
<1> SUFFICES ASSUME TypeOK, Beaten, [Next]_vars PROVE Beaten'
  OBVIOUS
<1>1. CASE UNCHANGED vars
  BY <1>1 DEF vars, db, Beaten, Behind, Shown
<1>2. CASE ConsoleSaves
  BY <1>2, ChangeBeats DEF ConsoleSaves
<1>3. ASSUME NEW w \in Worker, WorkerStep(w) PROVE Beaten'
  <2>1. CASE PopToFind(w) \/ PopToRead(w) \/ PopToAssign(w)
    <3>1. CASE Pop(w, "find", "finding")
      BY <3>1, PopBeaten
    <3>2. CASE Pop(w, "read", "reading")
      BY <3>2, PopBeaten
    <3>3. CASE Pop(w, "assign", "assigning")
      BY <3>3, PopBeaten
    <3> QED
      BY <2>1, <3>1, <3>2, <3>3 DEF PopToFind, PopToRead, PopToAssign
  <2>2. CASE Find(w) \/ PopToAdvance(w)
    BY <2>2, FindBeaten, PopToAdvanceBeaten
  <2>3. CASE Read(w) \/ Compare(w) \/ Assign(w)
    BY <2>3, ReadBeaten, CompareBeaten, AssignBeaten
  <2> QED
    BY <1>3, <2>1, <2>2, <2>3 DEF WorkerStep
<1> QED
  BY <1>1, <1>2, <1>3, CallBeaten DEF Next

\* A conflict is returned after MaxRetries attempts, each of them beaten.
LEMMA ConflictStep ==
    ASSUME TypeOK, Beaten, [Next]_vars, NEW w \in Worker,
           answer'[w].outcome = "conflict", answer[w].outcome # "conflict"
    PROVE  changes - run[w].since >= MaxRetries
<1>1. \A v \in Worker \ {w} : \A outcome, sqn : Returns(v, outcome, sqn) => answer'[w] = answer[w]
  BY DEF Returns, TypeOK
<1>2. \A outcome, sqn : Returns(w, outcome, sqn) => outcome = "conflict"
  BY DEF Returns, TypeOK
<1>3. ~(UNCHANGED answer)
  OBVIOUS
<1>4. ~ConsoleSaves /\ ~(UNCHANGED vars)
  BY <1>3 DEF ConsoleSaves, vars
<1>5. \A v \in Worker, request \in Requests : ~Call(v, request)
  <2> SUFFICES ASSUME NEW v \in Worker, NEW request \in Requests, Call(v, request) PROVE FALSE
    OBVIOUS
  <2>1. answer'[w] = Nothing \/ answer'[w] = answer[w]
    BY DEF Call, TypeOK
  <2> QED
    BY <2>1 DEF Nothing
<1>6. PICK v \in Worker : WorkerStep(v)
  BY <1>4, <1>5 DEF Next
<1>7. v = w
  BY <1>1, <1>3, <1>6 DEF WorkerStep, PopToFind, PopToRead, PopToAssign, Pop, Find, PopToAdvance, GoesOn,
        Read, Compare, Conflict, Assign, Fails
<1>8. Returns(w, "conflict", None) /\ run[w].tries + 1 = MaxRetries /\ Compare(w) /\ ~UnchangedSinceRead(w)
  BY <1>2, <1>3, <1>6, <1>7 DEF WorkerStep, PopToFind, PopToRead, PopToAssign, Pop, Find, PopToAdvance, GoesOn,
        Read, Compare, Conflict, Assign, Fails
<1>9. changes >= run[w].since + MaxRetries
  BY <1>8, ConflictIsBeaten DEF Compare, TypeOK, Run
<1> QED
  BY <1>9, SqnAssumption DEF TypeOK, Run

\* advanceSqn gives up only if the number has changed MaxRetries times since it
\* began: of those that compete for it somebody always gets on.
THEOREM ConflictsMeanProgress == Spec => ConflictMeansProgress
<1>1. Init => Beaten
  BY DEF Init, Beaten, Behind, Idle
<1>2. TypeOK /\ Beaten /\ [Next]_vars =>
        [\A w \in Worker :
            answer'[w].outcome = "conflict" /\ answer[w].outcome # "conflict" =>
                changes - run[w].since >= MaxRetries]_vars
  BY ConflictStep
<1> QED
  BY <1>1, <1>2, TypeCorrect, BeatenStep, PTL DEF Spec, ConflictMeansProgress
-----------------------------------------------------------------------------
(* The pool. *)

LEMMA HoldsType == \A w \in Worker : Holds(w) \in 0 .. 2
BY DEF Holds

LEMMA WorkersFinite == IsFiniteSet(Worker \X {1, 2}) /\ IsFiniteSet(CheckedOut)
<1>1. IsFiniteSet(Worker \X {1, 2})
  <2>1. IsFiniteSet({1} \cup {2}) /\ {1} \cup {2} = {1, 2}
    BY FS_Singleton, FS_AddElement
  <2> QED
    BY <2>1, PoolAssumption, FS_Product
<1> QED
  BY <1>1, FS_Subset DEF CheckedOut

\* A worker holds one client, two, or none: the sum of them is a cardinality.
LEMMA AddsUp ==
    ASSUME NEW Others, IsFiniteSet(Others), NEW w, <<w, 1>> \notin Others, <<w, 2>> \notin Others,
           NEW h \in 0 .. 2
    PROVE  LET Own == {p \in {w} \X {1, 2} : p[2] <= h} IN
           IsFiniteSet(Others \cup Own) /\ Cardinality(Others \cup Own) = Cardinality(Others) + h
<1> DEFINE Own == {p \in {w} \X {1, 2} : p[2] <= h}
<1>1. Cardinality(Others) \in Nat
  BY FS_CardinalityType
<1>2. CASE h = 0
  <2>1. Others \cup Own = Others
    BY <1>2
  <2> QED
    BY <1>1, <1>2, <2>1
<1>3. /\ IsFiniteSet(Others \cup {<<w, 1>>})
      /\ Cardinality(Others \cup {<<w, 1>>}) = Cardinality(Others) + 1
  BY FS_AddElement
<1>4. CASE h = 1
  <2>1. Others \cup Own = Others \cup {<<w, 1>>}
    BY <1>4
  <2> QED
    BY <1>3, <1>4, <2>1
<1>5. CASE h = 2
  <2>1. Others \cup Own = (Others \cup {<<w, 1>>}) \cup {<<w, 2>>}
    BY <1>5
  <2>2. <<w, 2>> \notin Others \cup {<<w, 1>>}
    OBVIOUS
  <2>3. /\ IsFiniteSet((Others \cup {<<w, 1>>}) \cup {<<w, 2>>})
        /\ Cardinality((Others \cup {<<w, 1>>}) \cup {<<w, 2>>}) = Cardinality(Others \cup {<<w, 1>>}) + 1
    BY <1>3, <2>2, FS_AddElement
  <2> QED
    BY <1>1, <1>3, <1>5, <2>1, <2>3
<1> QED
  BY <1>2, <1>4, <1>5

\* What a worker takes, the pool loses.
LEMMA Balance ==
    ASSUME ClientsAccounted, free \in Int, free' \in Int, NEW w \in Worker,
           \A v \in Worker \ {w} : Holds(v)' = Holds(v), Holds(w)' \in 0 .. 2,
           free' + Holds(w)' = free + Holds(w)
    PROVE  ClientsAccounted'
<1> DEFINE Others == {p \in CheckedOut : p[1] # w}
           Own == {p \in {w} \X {1, 2} : p[2] <= Holds(w)}
           OwnNext == {p \in {w} \X {1, 2} : p[2] <= Holds(w)'}
<1>1. IsFiniteSet(Others) /\ <<w, 1>> \notin Others /\ <<w, 2>> \notin Others
  BY WorkersFinite, FS_Subset
<1>2. Cardinality(Others) \in Nat
  BY <1>1, FS_CardinalityType
<1>3. CheckedOut = Others \cup Own
  BY DEF CheckedOut
<1>4. CheckedOut' = Others \cup OwnNext
  BY DEF CheckedOut
<1>5. Cardinality(Others \cup Own) = Cardinality(Others) + Holds(w)
  BY <1>1, HoldsType, AddsUp
<1>6. Cardinality(Others \cup OwnNext) = Cardinality(Others) + Holds(w)'
  BY <1>1, AddsUp
<1>7. PoolSize \in Nat /\ Holds(w) \in Int /\ Holds(w)' \in Int
  BY PoolAssumption, HoldsType
<1>8. free + (Cardinality(Others) + Holds(w)) = PoolSize
  BY <1>3, <1>5 DEF ClientsAccounted
<1> HIDE DEF Others, Own, OwnNext
<1>9. free' + (Cardinality(Others) + Holds(w)') = PoolSize
  BY <1>2, <1>7, <1>8
<1> QED
  BY <1>4, <1>6, <1>9 DEF ClientsAccounted

LEMMA ReturnBalance ==
    ASSUME TypeOK, ClientsAccounted, NEW w \in Worker, NEW outcome, NEW sqn, Returns(w, outcome, sqn)
    PROVE  ClientsAccounted'
<1>1. \A v \in Worker \ {w} : Holds(v)' = Holds(v)
  BY DEF Returns, Holds, TypeOK
<1>2. Holds(w)' = 0
  BY DEF Returns, Holds, Idle, TypeOK
<1>3. free \in Int /\ Holds(w) \in Int /\ free' = free + Holds(w)
  BY HoldsType DEF Returns, TypeOK
<1> QED
  BY <1>1, <1>2, <1>3, Balance

LEMMA MoveBalance ==
    ASSUME TypeOK, ClientsAccounted, NEW w \in Worker, NEW there, NEW back \in {-1, 0, 1},
           run' = [run EXCEPT ![w] = there], free' = free + back,
           Holds(w)' \in 0 .. 2, Holds(w) = Holds(w)' + back
    PROVE  ClientsAccounted'
<1>1. \A v \in Worker \ {w} : Holds(v)' = Holds(v)
  BY DEF Holds, TypeOK
<1>2. free \in Int
  BY DEF TypeOK
<1> QED
  BY <1>1, <1>2, Balance

LEMMA PopBalance ==
    ASSUME TypeOK, ClientsAccounted, NEW w \in Worker,
           NEW from, NEW to, Pop(w, from, to),
           \/ from = "find" /\ to = "finding"
           \/ from = "read" /\ to = "reading"
           \/ from = "assign" /\ to = "assigning"
    PROVE  ClientsAccounted'
<1>1. run' = [run EXCEPT ![w] = [run[w] EXCEPT !.at = to]] /\ free' = free + (-1)
  BY DEF Pop, TypeOK
<1>2. run[w].at = from /\ run'[w].at = to
  BY <1>1 DEF Pop, TypeOK, Run
<1>3. Holds(w)' \in 0 .. 2 /\ Holds(w) = Holds(w)' + (-1)
  BY <1>2 DEF Holds
<1> QED
  BY <1>1, <1>3, MoveBalance

LEMMA FindBalance == ASSUME TypeOK, ClientsAccounted, NEW w \in Worker, Find(w) PROVE ClientsAccounted'
<1>1. ASSUME NEW there, there.at \in {"find", "advance", "assign"}, GoesOn(w, there, 1)
      PROVE  ClientsAccounted'
  <2>1. Holds(w) = 1
    BY DEF Find, Holds
  <2>2. Holds(w)' = 0
    BY <1>1 DEF GoesOn, Holds, TypeOK
  <2>3. Holds(w)' \in 0 .. 2 /\ Holds(w) = Holds(w)' + 1
    BY <2>1, <2>2
  <2> QED
    BY <1>1, <2>3, MoveBalance DEF GoesOn
<1>2. ASSUME NEW outcome, NEW sqn, Returns(w, outcome, sqn) PROVE ClientsAccounted'
  BY <1>2, ReturnBalance
<1>3. CASE GoesOn(w, [run[w] EXCEPT !.at = "find", !.keys = Tail(@)], 1)
  <2> DEFINE there == [run[w] EXCEPT !.at = "find", !.keys = Tail(@)]
  <2>1. there.at = "find" /\ GoesOn(w, there, 1)
    BY <1>3 DEF TypeOK, Run
  <2> HIDE DEF there
  <2> QED
    BY <1>1, <2>1
<1>4. ASSUME NEW place \in {"advance", "assign"}, GoesOn(w, [run[w] EXCEPT !.at = place], 1)
      PROVE  ClientsAccounted'
  <2> DEFINE there == [run[w] EXCEPT !.at = place]
  <2>1. there.at = place /\ GoesOn(w, there, 1)
    BY <1>4 DEF TypeOK, Run
  <2> HIDE DEF there
  <2> QED
    BY <1>1, <2>1
<1> QED
  BY <1>2, <1>3, <1>4 DEF Find, Fails

LEMMA PopToAdvanceBalance ==
    ASSUME TypeOK, ClientsAccounted, NEW w \in Worker, PopToAdvance(w) PROVE ClientsAccounted'
<1> DEFINE there == [run[w] EXCEPT !.at = "read", !.since = changes]
<1>1. run' = [run EXCEPT ![w] = there] /\ free' = free + (-1)
  BY DEF PopToAdvance, GoesOn
<1>2. run[w].at = "advance" /\ run'[w].at = "read"
  BY <1>1 DEF PopToAdvance, TypeOK, Run
<1>3. Holds(w)' \in 0 .. 2 /\ Holds(w) = Holds(w)' + (-1)
  BY <1>2 DEF Holds
<1> QED
  BY <1>1, <1>3, MoveBalance

LEMMA ReadBalance == ASSUME TypeOK, ClientsAccounted, NEW w \in Worker, Read(w) PROVE ClientsAccounted'
<1>1. CASE GoesOn(w, [run[w] EXCEPT !.at = "compare", !.seen = record.sqn], 1)
  <2>1. run[w].at = "reading" /\ run'[w].at = "compare"
    BY <1>1 DEF Read, GoesOn, TypeOK, Run
  <2>2. Holds(w)' \in 0 .. 2 /\ Holds(w) = Holds(w)' + 1
    BY <2>1 DEF Holds
  <2> QED
    BY <1>1, <2>2, MoveBalance DEF GoesOn
<1> QED
  BY <1>1, ReturnBalance DEF Read, Fails

LEMMA CompareBalance ==
    ASSUME TypeOK, ClientsAccounted, NEW w \in Worker, Compare(w) PROVE ClientsAccounted'
<1>1. CASE GoesOn(w, [run[w] EXCEPT !.at = "read", !.tries = @ + 1], 0)
  <2>1. run[w].at = "compare" /\ run'[w].at = "read"
    BY <1>1 DEF Compare, GoesOn, TypeOK, Run
  <2>2. Holds(w)' \in 0 .. 2 /\ Holds(w) = Holds(w)' + 0
    BY <2>1 DEF Holds
  <2> QED
    BY <1>1, <2>2, MoveBalance DEF GoesOn
<1> QED
  BY <1>1, ReturnBalance DEF Compare, Conflict, Fails

LEMMA AssignBalance ==
    ASSUME TypeOK, ClientsAccounted, NEW w \in Worker, Assign(w) PROVE ClientsAccounted'
BY ReturnBalance DEF Assign, Fails

LEMMA CallBalance ==
    ASSUME TypeOK, ClientsAccounted, NEW w \in Worker, NEW request \in Requests, Call(w, request)
    PROVE  ClientsAccounted'
<1> DEFINE there == [Idle EXCEPT !.at = "find", !.command = request[1], !.keys = request[2]]
<1>1. run' = [run EXCEPT ![w] = there] /\ free' = free + 0
  BY DEF Call, TypeOK
<1>2. run[w].at = "idle" /\ run'[w].at = "find"
  BY <1>1 DEF Call, Idle, TypeOK
<1>3. Holds(w)' \in 0 .. 2 /\ Holds(w) = Holds(w)' + 0
  BY <1>2 DEF Holds
<1> QED
  BY <1>1, <1>3, MoveBalance

LEMMA BalanceStep == TypeOK /\ ClientsAccounted /\ [Next]_vars => ClientsAccounted'
<1> SUFFICES ASSUME TypeOK, ClientsAccounted, [Next]_vars PROVE ClientsAccounted'
  OBVIOUS
<1>1. CASE UNCHANGED <<run, free>>
  BY <1>1 DEF ClientsAccounted, CheckedOut, Holds
<1>2. ASSUME NEW w \in Worker, WorkerStep(w) PROVE ClientsAccounted'
  <2>1. CASE PopToFind(w) \/ PopToRead(w) \/ PopToAssign(w)
    <3>1. CASE Pop(w, "find", "finding")
      BY <3>1, PopBalance
    <3>2. CASE Pop(w, "read", "reading")
      BY <3>2, PopBalance
    <3>3. CASE Pop(w, "assign", "assigning")
      BY <3>3, PopBalance
    <3> QED
      BY <2>1, <3>1, <3>2, <3>3 DEF PopToFind, PopToRead, PopToAssign
  <2>2. CASE Find(w) \/ PopToAdvance(w)
    BY <2>2, FindBalance, PopToAdvanceBalance
  <2>3. CASE Read(w) \/ Compare(w) \/ Assign(w)
    BY <2>3, ReadBalance, CompareBalance, AssignBalance
  <2> QED
    BY <1>2, <2>1, <2>2, <2>3 DEF WorkerStep
<1> QED
  BY <1>1, <1>2, CallBalance DEF Next, ConsoleSaves, vars

LEMMA InitBalance == Init => ClientsAccounted
<1> SUFFICES ASSUME Init PROVE ClientsAccounted
  OBVIOUS
<1>1. \A w \in Worker : Holds(w) = 0
  BY DEF Init, Idle, Holds
<1>2. CheckedOut = {}
  BY <1>1 DEF CheckedOut
<1> QED
  BY <1>2, FS_EmptySet, PoolAssumption DEF Init, ClientsAccounted

\* Every path of a call gives back the clients it took, once.
THEOREM ClientsAreAccounted == Spec => []ClientsAccounted
BY InitBalance, BalanceStep, TypeCorrect, PTL DEF Spec

\* Fewer workers than clients, and one of them is always at the database: the
\* second client advanceSqn waits for cannot be missing for good.
THEOREM NeverAllWait == Spec => []NeverAllWaiting
<1>1. TypeOK /\ ClientsAccounted => NeverAllWaiting
  <2> SUFFICES ASSUME TypeOK, ClientsAccounted, free = 0,
                      \A w \in Worker : run[w].at \notin {"finding", "reading", "compare", "assigning"}
               PROVE  FALSE
    BY DEF NeverAllWaiting
  <2>1. \A w \in Worker : Holds(w) \in {0, 1}
    BY DEF Holds
  <2>2. CheckedOut \subseteq Worker \X {1}
    BY <2>1 DEF CheckedOut
  <2>3. IsFiniteSet({1}) /\ Cardinality({1}) = 1
    BY FS_Singleton
  <2>4. IsFiniteSet(Worker \X {1}) /\ Cardinality(Worker \X {1}) = Cardinality(Worker) * 1
    BY <2>3, FS_Product, PoolAssumption
  <2>5. Cardinality(CheckedOut) <= Cardinality(Worker \X {1})
    BY <2>2, <2>4, FS_Subset
  <2>6. Cardinality(Worker) \in Nat /\ Cardinality(CheckedOut) \in Nat
    BY PoolAssumption, WorkersFinite, FS_CardinalityType
  <2> QED
    BY <2>4, <2>5, <2>6, PoolAssumption DEF ClientsAccounted
<1> QED
  BY <1>1, TypeCorrect, ClientsAreAccounted, PTL

\* The record, the pool and the calls under way fit together, for any number of
\* workers that is smaller than the pool.
THEOREM PoolFits == Spec => []PoolConsistent
<1>1. TypeOK /\ ClientsAccounted /\ NeverAllWaiting => PoolConsistent
  BY DEF PoolConsistent
<1> QED
  BY <1>1, TypeCorrect, ClientsAreAccounted, NeverAllWait, PTL
=============================================================================
