SPECIFICATION LiveSpec
CONSTANTS
    Issues = {i1, i2}
    Mutations = {m1, m2}
    Nonces = {n1, n2}
    Asns = {as1, as2}
    Maintainers = {x1}
    Ttl = 1
    Timeout = 1
    MaxPermits = 1
    MaxTries = 2
    Nothing = Nothing
    MaxTime = 2
INVARIANTS
    ChallengeTypeOK
    SpentOnce
    PermitsConserved
PROPERTIES
    BurnedUnderPermit
    AuthorizedInTime
    PermitsReturn
