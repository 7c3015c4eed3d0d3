\* Three workers on one key, three nonces.
SPECIFICATION DigestSpec
CONSTANTS
    Worker = {w1, w2, w3}
    Login = {alice}
    MaxNonces = 3
    None = None
PROPERTY DigestIsOneTimeChallenge
