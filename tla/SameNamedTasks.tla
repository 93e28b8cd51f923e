--------------------------- MODULE SameNamedTasks ---------------------------
(***************************************************************************)
(* The conversations of two tasks that have the same id, in two projects,  *)
(* at the same stage.  Each has its own files; the session key that the    *)
(* handlers of stage_conversation.go give the runners, taskId:stage, is    *)
(* the same, so that what the runners keep for the key is shared.          *)
(***************************************************************************)
EXTENDS AgentSessions, Naturals

CONSTANTS
    RequestA,   \* the requests on the one conversation
    MaxOpen

RequestB == Request \ RequestA

VARIABLES
    currentA, messagesA, sessionIDsA,
    currentB, messagesB, sessionIDsB,
    req, calm, delivered, discarded

A == INSTANCE StageConversation
        WITH current <- currentA, messages <- messagesA, sessionIDs <- sessionIDsA
B == INSTANCE StageConversation
        WITH current <- currentB, messages <- messagesB, sessionIDs <- sessionIDsB

filesA == <<currentA, messagesA, sessionIDsA>>
filesB == <<currentB, messagesB, sessionIDsB>>
allVars == <<A!vars, filesB>>

Init == A!Init /\ B!Init

Next ==
    \/ (\E r \in RequestA : A!RequestStep(r)) /\ UNCHANGED filesB
    \/ (\E r \in RequestB : B!RequestStep(r)) /\ UNCHANGED filesA

Spec == Init /\ [][Next]_allVars

-----------------------------------------------------------------------------
\* runner.go:49, "SessionKey identifies which conversation this turn belongs
\* to": what the model of a turn knows is of the turn's own conversation.
OwnConversationOnly ==
    \A r \in Request :
        A!InTurn(r) =>
            {m.request : m \in context[req[r].session]}
                \subseteq IF r \in RequestA THEN RequestA ELSE RequestB
=============================================================================
