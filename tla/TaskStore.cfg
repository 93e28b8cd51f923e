SPECIFICATION TaskSpec
CONSTANTS
    Output = {out}
    PullRequest = {pr1}
    NoPullRequest = NoPullRequest
    Concept = {concept}
    Faults = {"stop", "torn"}
    MaxExecution = 2
    MaxReview = 2
    MaxTransition = 6
    MaxActivity = 1
INVARIANTS
    TypeOK
    HistoryChains
    TransitionsBacked
    EvidenceUsedOnce
    DocsBeforeStage
PROPERTIES
    RecordsAppendOnly
    ImplementsLifecycle
