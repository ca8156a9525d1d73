SPECIFICATION Spec
CONSTANTS
    Plugins <- OnlySqlite
    Tables = {"created"}
    Ages <- OnlyFilled
    Timespan = 6
    Second = 2
    Short = 4
    Polls = 4
    Gap = 0
    Zones = {0}
    ServerZones = {0}
    Connections = 2
    MaxTime = 3
    MaxRows = 2
    MaxEvents = 1
PROPERTIES
    WholeTimespanShown
