SPECIFICATION FairSpec
CONSTANT PluginLock = FALSE
PROPERTY SignalExits
CHECK_DEADLOCK FALSE
