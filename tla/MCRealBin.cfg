SPECIFICATION SetupSpec
CONSTANTS
    v1 = v1  stable = stable  NoExe = NoExe
    Versions = {v1}
    SettingsPaths <- OneSettings
    OptionSets <- Wrappers
    MaxOps = 1
    MaxTroubles = 0
INVARIANT RealBinIsNoWrapper
CHECK_DEADLOCK FALSE
