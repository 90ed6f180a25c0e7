SPECIFICATION Spec
CONSTANTS
    MaxIterations = 14
    MaxOptimizerCalls = 2
    MaxScreenings = 3
    MaxHFSSCalls = 2
    MaxReoptimizations = 1
    MaxSafeRetries = 1
    MaxStagnation = 2
    RealExecution = TRUE
    MaxBatch = 2
    Designs = {"whole", "narrow", "edge", "twice", "short"}
    Solves <- MCSolves
    Rules <- MCRules
    MaxInvocations = 2
CHECK_DEADLOCK FALSE
INVARIANTS
    FailureHasCause
