SPECIFICATION FairSpec
CONSTANTS
    Positions <- TwoPositions
    Retries = 2
    Room = 1
    Noise = {0, 13}
    MaxFaults = 1
INVARIANTS
    TypeOK
    FixGenuine
    AnswerGenuine
PROPERTIES
    FixesStored
