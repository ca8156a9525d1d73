SPECIFICATION Spec
CONSTANTS
    CounterMod = 4
    LoopMod = 2
    BlockTable <- SmallTable
    NumSlots = 2
    PartId1 = 65
    Cars = {65, 66}
    AsciiBlocks = 1
    Values = {100, 120}
    Undecodable = {}
    Noise = {3, 100, 135}
    MaxFaults = 2
INVARIANTS
    TypeOK
    ReadyBeforeRequest
    CountersAgree
PROPERTIES
    AnswerMatchesRequest
    CompletedBlockGenuine
    SessionSpec
