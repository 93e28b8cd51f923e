SPECIFICATION FairSpec
CONSTANTS
    Session = {"stage", "other"}
    Key = "stage"
    Escalation <- MCEscalation
    Turn <- MCTurn
    MaxTurn = 2
    MaxUses = 2
    Executors <- MCExecutors
    MaxRounds = 2
    MaxTexts = 2
    MaxQueue = 1
    NoResult = NoResult
    Call <- MCCall
    Batch <- MCBatch
    Cut = "cut"
    Tool = {"Read", "Glob"}
    StopTool = {"propose"}
    ValidArgs = {"valid", "b"}
    MaxTurns = 2
    MaxToolCalls = 2
INVARIANTS
    TurnTypeOK
    ResultOnItsCall
    RecordInOrder
    ProposalsAccepted
    RoundsSeparated
    EveryCallAnswered
    StopToolsOnlyStop
    WithinBudget
    AllowedByItsHuman
    RegistryHoldsWaiters
PROPERTIES
    HookOfLiveTurn
    LoopEnds
CHECK_DEADLOCK FALSE
