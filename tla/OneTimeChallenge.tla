---------------------------- MODULE OneTimeChallenge ----------------------------
(***************************************************************************)
(* What an authentication provider of the S-CSCF promises, whatever its    *)
(* scheme (IAuthProvider): at most one challenge waits for the answer of a *)
(* client, it stays the same until it is accepted or lapses, and it is     *)
(* accepted at most once.                                                  *)
(***************************************************************************)
EXTENDS Naturals

CONSTANTS
    Client,     \* what a challenge is kept for
    Secret,     \* the vectors or nonces challenges are made of
    Nothing     \* no challenge

VARIABLES
    open,       \* the challenge that waits for each client
    issued,     \* the secrets that have been used in a challenge
    accepted    \* how often each secret has been accepted

vars == <<open, issued, accepted>>

Init ==
    /\ open = [c \in Client |-> Nothing]
    /\ issued = {}
    /\ accepted = [s \in Secret |-> 0]

Issue(c, s) ==
    /\ open[c] = Nothing /\ s \notin issued
    /\ open' = [open EXCEPT ![c] = s]
    /\ issued' = issued \cup {s}
    /\ UNCHANGED accepted

Lapse(c) ==
    /\ open[c] # Nothing
    /\ open' = [open EXCEPT ![c] = Nothing]
    /\ UNCHANGED <<issued, accepted>>

Accept(c) ==
    /\ open[c] # Nothing
    /\ open' = [open EXCEPT ![c] = Nothing]
    /\ accepted' = [accepted EXCEPT ![open[c]] = @ + 1]
    /\ UNCHANGED issued

Next == \E c \in Client : Lapse(c) \/ Accept(c) \/ \E s \in Secret : Issue(c, s)

Spec == Init /\ [][Next]_vars

=============================================================================
