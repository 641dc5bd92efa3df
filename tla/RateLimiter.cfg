SPECIFICATION FairSpec
CONSTANTS
    Requests = {r1, r2, r3}
    RateLimit = 2
    RateWindow = 3
    MaxConcurrency = 2
    BlockSeconds = 1
INVARIANTS TypeOK WindowRespected NobodySleepsInVain
PROPERTIES PermitGranted WindowMoves
