SPECIFICATION EditorSpec
CONSTANTS
    NSessions = 2
    Variants = 1
    HandledLimit = 2
    Retries = 1
    ReloadLimit = 1
    MaxBoots = 2
    MaxDecided = 1
    MaxConfigs = 2
    MaxStream = 1
    MaxFaults = 2
    MaxStaged = 2
    MaxCalls = 2
    MaxFeed = 1
    MaxSlips = 1
    MaxPages = 2
CONSTRAINT FewRequests
CHECK_DEADLOCK FALSE
INVARIANTS HandledIsOver FrozenIsPursued EndedGenerationIsPursued
PROPERTIES RecoveryInterruptsNothing
