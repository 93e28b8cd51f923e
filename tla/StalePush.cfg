SPECIFICATION MCSpec
CONSTANTS
    Output <- MCOutput
    PullRequest <- MCPullRequest
    NoPullRequest = 0
    Attempt <- MCAttempt
    Concept = {}
    Faults = {}
    MaxExecution = 2
    MaxReview = 2
    MaxTransition = 7
    MaxActivity = 0
    MaxPR = 0
    Start = {s1}
    Executor = {"claude-code"}
    SessionLocked = {"claude-code"}
    Hazards = {}
VIEW MCView
PROPERTIES
    PushTakesReviewed
