SPECIFICATION Spec
CONSTANTS
    Requests = {r1, r2}
    Tokens = {1, 2, 3, 4, 5, 6}
    LoginMaxRetries = 1
    MaxHttpRetries = 1
    MaxToolAttempts = 2
    MaxRevocations = 2
CHECK_DEADLOCK FALSE
INVARIANTS TypeOK RevocationSurvived ErrorIsTheLast CallsBounded
PROPERTIES RequestsEnd
