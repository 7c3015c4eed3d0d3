\* Two workers and one remote, which connects as well; two connections, so that
\* one of the peer's and one of ours, or a broken one and its successor, meet.
SPECIFICATION FairSpec
CONSTANTS
    Worker = {w1, w2}
    Remote = {ue}
    None = None
    Stream <- MCStream
    MaxSends = 2
    MaxConns = 2
    MaxBreaks = 1
INVARIANTS ConnectionsConsistent NoneOfOursStays WholeInOrder
PROPERTIES HealthyStays CallsReturn
CHECK_DEADLOCK FALSE
