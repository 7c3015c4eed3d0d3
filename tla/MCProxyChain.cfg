\* One domain with its default entry and with the I-CSCF as entry, with and
\* without a peer I-CSCF; INVITEs that run out of hops at each proxy.
SPECIFICATION FairSpec
CONSTANTS
    caller = caller  callee = callee  P = P  I = I  S = S
    None = None
    Entries = {I, S}
    Peers = {I, None}
    Hops = {1, 2, 9}
    Plenty = 9
INVARIANTS ViasConsistent ReleasedWhenQuiet
PROPERTIES CallAnswered HangUpArrives
\* A call that is over leaves nothing to do.
CHECK_DEADLOCK FALSE
