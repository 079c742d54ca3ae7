CONSTANTS
    NTasks <- MCNTasks
    Capacity <- MCCapacity
    MaxCycles <- MCMaxCycles

SPECIFICATION Spec

PROPERTY RefinesDelivery
