CONSTANTS
    Messages = {"m1"}
    MaxOperations = 2
    MaxAsks = 2
    MaxEvents = 2
    MaxRecords = 2
    MaxTroubles = 1
    MaxDeferrals = 1
    MaxTasks = 2
    MaxChanges = 2
    MaxLosses = 1
    MaxGuidance = 3
    MaxPrompts = 5
    MaxRepairs = 2
    Runs = {"r1", "r2"}
    Concurrent = 2
    WarmPoolSize = 2
    MaxInstances = 3
    MaxFailures = 1
    MaxFires = 2
    MaxSyncs = 3
    MaxCalls = 1
    MaxMishaps = 1
    MaxObservations = 4
    Capacity = 3
    BatchSize = 2
    MaxSpoils = 2
SPECIFICATION ServicesSpec
INVARIANTS
    ServicesTypeOK
    AckedTurnIsSaved
    RowMirrorsRecord
    AnsweredTurnWasTaken
    RestingRunIsIdle
    LogRebuildsThePlan
    QuietSnapshotIsThePlan
    SealedRunHeardEverything
    GuidanceIsHeardOnce
    InstanceIsSpentOnce
    ScheduleIsSound
    UsageArrives
PROPERTIES
    DoneStaysDone
CHECK_DEADLOCK FALSE
