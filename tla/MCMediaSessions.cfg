\* A caller that tries twice, two callees; three chains.
SPECIFICATION FairSpec
CONSTANTS
    None = None
    Caller = {ue, c1, c2}
    Ue = ue
    Tag = {x, y}
    MaxInvites = 2
INVARIANTS MediaTableConsistent NothingEarlyRemains
PROPERTIES EstablishedKept MediaReleased
\* A call that is over leaves nothing to do.
CHECK_DEADLOCK FALSE
