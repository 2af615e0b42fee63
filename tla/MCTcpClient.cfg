CONSTANTS
    MaxData = 3
    MaxQueued = 3
    MaxIncoming = 2
SPECIFICATION FairClientSpec
INVARIANT ChallengeAnsweredFirst
PROPERTIES ImplementsClientChannel QueuedFramesLeave
CHECK_DEADLOCK FALSE
