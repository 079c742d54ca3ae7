CONSTANTS
    NTasks <- MCViolationNTasks
    Capacity <- MCCapacity
    MaxCycles <- MCViolationMaxCycles

SPECIFICATION Spec

PROPERTY KillDateHonoured
