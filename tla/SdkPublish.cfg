CONSTANTS
    Workspaces <- MCWorkspaces
    Prepared <- MCPrepared
    MaxCommit = 2
    MaxFaults = 2
SPECIFICATION FairSpec
INVARIANT GapHasOwner
PROPERTIES
    ImplementsChannel
    PublishesOwnBuild
    BuildRecovers
    ReleaseReturns
