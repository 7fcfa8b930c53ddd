SPECIFICATION SetupSpec
CONSTANTS
    Width <- MCWidth
    MaxList <- MCMaxList
    Configs <- MCConfigs
    Docs <- MCDocs
    Registered <- MCRegistered
    Fields <- MCFields
INVARIANTS
    TypeOK NothingDropped DisabledQueueBuilds TlsHonoured LoadReportsAll
    ProcessorsHonoured
CHECK_DEADLOCK FALSE
