\* An INVITE over UDP and a CANCEL over TCP, under fairness.
SPECIFICATION FairClientSpec
CONSTANTS
    None = None
    invite = invite  cancel = cancel
    inviteKey = inviteKey  cancelKey = cancelKey
    udp = udp  tcp = tcp
    Txn = {invite, cancel}
    Invites = {invite}
    OverUdp = {invite}
    Key = {inviteKey, cancelKey}
    KeyOf <- Keys
    Receiver = {udp, tcp}
    ChainOf <- Chains
    MayShutDown = TRUE
INVARIANT ClientTableConsistent
PROPERTY TableDrains
\* The layer may be shut down.
CHECK_DEADLOCK FALSE
