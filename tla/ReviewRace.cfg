SPECIFICATION MCSpec
CONSTANTS
    Output <- MCOutput
    PullRequest <- MCPullRequest
    NoPullRequest = 0
    Attempt <- MCAttempt
    Concept = {}
    Faults = {}
    MaxExecution = 2
    MaxReview = 1
    MaxTransition = 5
    MaxActivity = 0
    MaxPR = 0
    Start = {s1, s2}
    Executor = {"claude-code"}
    SessionLocked = {"claude-code"}
    Hazards = {}
VIEW MCView
INVARIANTS
    ReviewNamesSuccess
