SPECIFICATION FairSpec
CONSTANTS
    Writers = {"main", "gps", "arduino"}
    Out = "out"
    Free = "free"
    Torn = Torn
    Fields <- SmallFields
    Layouts <- SmallLayouts
    Repeating = {"arduino"}
    Skipping = {"main"}
    MaxSample = 1
INVARIANTS
    TypeOK
    CoherentDelivery
PROPERTIES
    AtomicSpec
    StoredDelivered
