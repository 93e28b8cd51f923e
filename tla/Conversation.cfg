SPECIFICATION Spec
CONSTANTS
    Request = {r1, r2, r3}
    Executor = {"claude-code", "codex", "local"}
    NoSession = ""
    MaxOpen = 2
CHECK_DEADLOCK FALSE
VIEW MCView
SYMMETRY Symmetry
INVARIANTS
    ConversationTypeOK
    OneTurnPerSession
    DiscardedStaysDiscarded
    KnowsOwnExchanges
