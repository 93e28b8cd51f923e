SPECIFICATION MCSpec
CONSTANTS
    Output <- MCOutput
    PullRequest <- MCPullRequest
    NoPullRequest = 0
    Attempt <- MCAttempt
    Concept = {}
    Faults = {}
    MaxExecution = 3
    MaxReview = 1
    MaxTransition = 7
    MaxActivity = 0
    MaxPR = 1
    Start = {s1}
    Executor = {"claude-code"}
    SessionLocked = {"claude-code"}
    Hazards = {"crash", "collect", "settle"}
VIEW MCView
INVARIANTS
    RetryBuildsOnReviewed
PROPERTIES
    NoCommitLost
