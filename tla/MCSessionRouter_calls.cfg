\* One call whose INVITE may be delivered twice, two callee tags, two contacts.
SPECIFICATION Spec
CONSTANTS
    Call = {call}
    Tag = {t1, t2}
    Endpoint = {home, mobile}
    MaxInvites = 2
    None = None
INVARIANTS InviteConsistent ByeForwardedUnlessCanceled NoGhostAfterFailure
PROPERTY EstablishedKept
SYMMETRY Symmetry
\* A call comes to its end.
CHECK_DEADLOCK FALSE
