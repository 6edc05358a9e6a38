SPECIFICATION Spec
CONSTANTS
    MaxJobs = 3
    MaxFaults = 3
INVARIANTS
    OneInstaller
    

    
CHECK_DEADLOCK FALSE
