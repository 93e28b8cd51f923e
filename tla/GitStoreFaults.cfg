SPECIFICATION FairSpec
CONSTANTS
    project = project
    task = task
    project_yaml = project_yaml
    task_yaml = task_yaml
    transitions_yaml = transitions_yaml
    Entity <- MCTask
    File <- MCTaskFile
    Log <- MCLog
    Owner <- MCOwner
    Under <- MCUnder
    Sweep = Sweep
    Faults = {"write", "crash", "git"}
    MaxWrites = 2
    MaxFaults = 2
PROPERTIES
    HistoryKeepsEntries
    EventuallyPublished
CHECK_DEADLOCK FALSE
