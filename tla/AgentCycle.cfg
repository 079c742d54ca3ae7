CONSTANTS
    NTasks <- MCNTasks
    Capacity <- MCCapacity
    MaxCycles <- MCMaxCycles

SPECIFICATION FairSpec

INVARIANT TypeOK
INVARIANT BetweenCycles
INVARIANT AgentCycleInv

PROPERTY CycleCompletes
PROPERTY WriteBackSteps
