SPECIFICATION FairSpec
CONSTANTS
    Plugins <- BothPlugins
    Tables = {"created", "former"}
    Filled = 1
    Rows <- SomeRows
    Pages = {TRUE, FALSE}
    Requests = 2
    MaxRows = 2
    MaxErrors = 1
INVARIANTS
    TypeOK
    UnitFits
    MarkerGenuine
PROPERTIES
    Converges
