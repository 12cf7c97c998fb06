SPECIFICATION SetupSpec
CONSTANTS
    v1 = v1  stable = stable  NoExe = NoExe
    Versions = {v1}
    SettingsPaths <- OneSettings
    OptionSets <- Profiles
    MaxOps = 2
    MaxTroubles = 0
INVARIANT UninstallRestores
CHECK_DEADLOCK FALSE
