---------------------------- MODULE SequenceNumbers ----------------------------
(***************************************************************************)
(* What the users of IHssClient rely on: the sequence numbers of the        *)
(* authentication vectors of one subscriber are taken from one counter, one *)
(* after the other, whoever asks.                                           *)
(*                                                                          *)
(* A number may be lost on its way to the worker that asked for it, but is  *)
(* never handed out again before the counter has come round.  The operator  *)
(* may set the counter anew; what is promised starts again from there.      *)
(***************************************************************************)
EXTENDS Integers, Sequences

CONSTANTS
    Worker,    \* threads that ask the HSS
    Modulus,   \* the counter wraps here: kSqnMask + 1
    Step,      \* kSqnStep
    None

VARIABLES
    next,      \* the number the subscriber gets next, None if it is unknown
    got,       \* the number each worker was given, None while it has none
    used       \* the numbers taken from the counter since it was set

vars == <<next, got, used>>

Sqn == 0 .. Modulus - 1

Following(sqn) == (sqn + Step) % Modulus

Init ==
    /\ next \in Sqn \cup {None}
    /\ got = [w \in Worker |-> None]
    /\ used = <<>>

\* A new call forgets the answer of the last one.
Ask(w) ==
    /\ got' = [got EXCEPT ![w] = None]
    /\ UNCHANGED <<next, used>>

Take ==
    /\ next # None
    /\ next' = Following(next)
    /\ used' = Append(used, next)

HandOut(w) ==
    /\ got[w] = None
    /\ Take
    /\ got' = [got EXCEPT ![w] = next]

Lose == Take /\ UNCHANGED got

Set ==
    /\ next' \in Sqn \cup {None}
    /\ used' = <<>>
    /\ UNCHANGED got

Next ==
    \/ \E w \in Worker : Ask(w) \/ HandOut(w)
    \/ Lose
    \/ Set

Spec == Init /\ [][Next]_vars

\* The numbers taken follow one another, and the next one follows the last.
InOrder ==
    /\ \A i \in 1 .. Len(used) - 1 : used[i + 1] = Following(used[i])
    /\ used # <<>> => next = Following(used[Len(used)])
=============================================================================
