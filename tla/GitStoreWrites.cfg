SPECIFICATION Spec
CONSTANTS
    project = project
    task = task
    project_yaml = project_yaml
    task_yaml = task_yaml
    transitions_yaml = transitions_yaml
    Entity <- MCEntity
    File <- MCFile
    Log <- MCLog
    Owner <- MCOwner
    Under <- MCUnder
    Sweep = Sweep
    Faults = {"write"}
    MaxWrites = 2
    MaxFaults = 1
INVARIANTS
    StoreTypeOK
    HistoryParses
    CommitWithinDir
CHECK_DEADLOCK FALSE
