SPECIFICATION Spec
CONSTANTS
    Request = {r1, r2, r3}
    Executor = {"claude-code", "local"}
    NoSession = ""
    MaxOpen = 1
CHECK_DEADLOCK FALSE
SYMMETRY Symmetry
INVARIANTS
    SessionHoldsTranscript
