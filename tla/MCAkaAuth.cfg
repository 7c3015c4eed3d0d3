\* Three workers, two public identities of one device, two vectors, under fairness.
SPECIFICATION FairSpec
CONSTANTS
    Worker = {w1, w2, w3}
    CallId = {a}
    Impi = {alice}
    Impu = {sip, tel}
    MaxVectors = 2
    None = None
INVARIANTS FlightsConsistent NoReplay
PROPERTIES ImplementsOneTimeChallenge CallsReturn
