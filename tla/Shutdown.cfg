SPECIFICATION FairSpec
CONSTANT PluginLock = FALSE
INVARIANTS
    TypeOK
    PluginsQuiet
    Reaped
PROPERTIES
    HttpdStopped
    IdleSignalExits
CHECK_DEADLOCK FALSE
