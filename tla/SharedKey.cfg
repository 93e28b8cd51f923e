SPECIFICATION Spec
CONSTANTS
    Request = {a, b}
    RequestA = {a}
    Executor = {"claude-code"}
    NoSession = NoSession
    MaxOpen = 1
    a = a
    b = b
INVARIANTS
    OwnConversationOnly
CHECK_DEADLOCK FALSE
