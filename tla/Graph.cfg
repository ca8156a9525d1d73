SPECIFICATION FairSpec
CONSTANTS
    Plugins <- BothPlugins
    Tables = {"created", "extended"}
    Ages <- SomeAges
    Timespan = 6
    Second = 2
    Short = 4
    Polls = 4
    Gap = 0
    Zones = {1}
    ServerZones <- EastAndWest
    Connections = 2
    MaxTime = 2
    MaxRows = 3
    MaxEvents = 1
INVARIANTS
    NothingSkipped
    TypeOK
    GapsShown
PROPERTIES
    PostgresShowsAll
    EveryRowFetched
    AxisFollowsLabel
