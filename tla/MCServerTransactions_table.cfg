\* Two keys, two chains, two transaction objects, under fairness.
SPECIFICATION FairServerSpec
CONSTANTS
    None = None
    Txn = {t1, t2}
    Key = {invite, bye}
    InviteKey = {invite}
    Answered = {invite, bye}
    Chain = {c1, c2}
    MayShutDown = TRUE
INVARIANT ServerTableConsistent
PROPERTIES TerminationToldOnce AnsweredRequestEnds
\* The layer is shut down, or the transaction objects are used up.
CHECK_DEADLOCK FALSE
