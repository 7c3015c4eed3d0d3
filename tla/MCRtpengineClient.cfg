\* Two threads; one answer may come too late, the receiver may fail for good.
SPECIFICATION FairClientSpec
CONSTANTS
    None = None
    Caller = {c1, c2}
    MaxCookie = 5
    MaxLate = 1
INVARIANTS PendingConsistent OwnAnswerOnly
PROPERTY ImplementsBlockingCall
