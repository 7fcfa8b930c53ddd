SPECIFICATION Spec
CONSTANTS
    Configs <- MCConfigs
INVARIANT RefusalLeavesNothingOpen
CHECK_DEADLOCK FALSE
