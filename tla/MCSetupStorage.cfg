SPECIFICATION SetupSpec
CONSTANTS
    Width <- MCWidth
    MaxList <- MCMaxList
    Configs <- MCConfigs
    Docs <- MCDocs
    Registered <- MCRegistered
    Fields <- MCFields
INVARIANT StorageRejected
CHECK_DEADLOCK FALSE
