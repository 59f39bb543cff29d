CONSTANTS
    Fixture <- MCFixture
    Allowed <- MCAllowed
    Refused <- MCRefused
    Wanted <- MCWanted
    MaxPages = 1
    MaxScrolls = 1
    MaxAttempts = 2
SPECIFICATION Spec
INVARIANTS TypeOK ClickIsHonest
PROPERTIES CallsLeaveTruth CallEnds
