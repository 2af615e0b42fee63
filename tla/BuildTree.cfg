CONSTANTS
    Shells <- MCShells
    Exported <- MCExported
    Presets <- MCPresets
    DotEnv = "default"
    Sourced <- MCSourced
    Retrier = "dev"
    MaxCommit = 2
    MaxFaults = 1
    MaxSource = 2
    MaxRuns = 1
SPECIFICATION FairSpec
INVARIANTS
    OnlyWholeInstallersRun
    BuiltIsCurrent
    
PROPERTIES
    EventuallyInstalled
    EventuallyBuilt
    RootRecovers
