CHECK_DEADLOCK FALSE
SPECIFICATION Spec
CONSTANTS
    MaxProcesses = 3
    MaxThreads = 5
    MaxSems = 2
    MaxOpenFiles = 3
INVARIANTS ProcessInv FamilyOK
PROPERTIES ForkReturns
