CONSTANTS
    NTasks <- MCNTasks
    Capacity <- MCCapacity
    MaxCycles <- MCMaxCycles
SPECIFICATION FairSpec
PROPERTY EventuallyDelivered
