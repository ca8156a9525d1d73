SPECIFICATION FairSpec
CONSTANTS
    CounterMod = 4
    LoopMod = 16
    BlockTable <- Block1
    NumSlots = 4
    PartId1 = 65
    Cars = {65}
    AsciiBlocks = 2
    Values = {100}
    Undecodable = {}
    Noise = {3, 100, 155}
    MaxFaults = 1
PROPERTIES
    EveryGroupAnswered
