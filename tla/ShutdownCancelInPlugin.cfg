SPECIFICATION FairSpec
CONSTANT PluginLock = TRUE
PROPERTY IdleSignalExits
CHECK_DEADLOCK FALSE
