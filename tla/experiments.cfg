CONSTANTS
    STEADY_DURATION = 1
    BASELINE_DURATION = 1
    SPIKE_DURATION = 1
    RECOVERY_DURATION = 2
    BASELINE_STEADY_WINDOW = 1
    RECOVERY_CONSECUTIVE_SAMPLES = 2
    FixedReplicas <- TwoCounts
    BurstReplicas = 2
    IsolationRounds <- TwoRounds
    DefaultLatency <- Normal
    LagValues = {0, 20}
    MaxDelay = 1
    Agenda <- TwoInvocations
    MaxFailures = 2
    MaxSignals = 2
SPECIFICATION FairSpec
INVARIANTS MeasuredAsLabelled SummariesAreWhole OneLoadPerInvocation DefaultsRestored RecoveryIsSustained PhasesAgree
PROPERTIES EveryRunEnds
CHECK_DEADLOCK FALSE
