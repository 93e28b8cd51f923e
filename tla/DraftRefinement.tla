--------------------------- MODULE DraftRefinement ---------------------------
(***************************************************************************)
(* What was proved of the stage conversation holds of its fork for the     *)
(* "New Task" conversation, whose turns and edits run the same steps.      *)
(***************************************************************************)
EXTENDS TaskDraftConversation, StageConversationProofs

LEMMA BeginDraftOpens ==
  ASSUME current = TRUE, NEW r \in Request, NEW kind \in Kind \ {"finalize"}, NEW e,
         BeginDraft(r, kind, e)
  PROVE  OpenRequest(r, kind, e)
<1> QED
  BY DEF BeginDraft, OpenRequest

LEMMA DraftStep ==
  ASSUME current = TRUE, DraftNext
  PROVE  Next /\ current' = TRUE
<1>1. ASSUME NEW r \in Request,
             \/ StartTaskDraft(r) \/ PostTaskDraftMessage(r)
             \/ DeleteTaskDraftMessage(r) \/ RegenerateTaskDraftMessage(r)
      PROVE  RequestStep(r)
  <2>1. CASE StartTaskDraft(r)
    <3>1. ASSUME NEW e \in Executor, BeginDraft(r, "start", e) PROVE RequestStep(r)
      BY <3>1, BeginDraftOpens DEF RequestStep, TurnKind, Kind
    <3> QED
      BY <2>1, <3>1 DEF StartTaskDraft, RequestStep
  <2>2. CASE PostTaskDraftMessage(r)
    <3>1. ASSUME NEW e \in Executor, BeginDraft(r, "post", e) PROVE RequestStep(r)
      BY <3>1, BeginDraftOpens DEF RequestStep, TurnKind, Kind
    <3> QED
      BY <2>2, <3>1 DEF PostTaskDraftMessage, RequestStep
  <2>3. CASE DeleteTaskDraftMessage(r)
    <3>1. ASSUME BeginDraft(r, "delete", "") PROVE RequestStep(r)
      BY <3>1, BeginDraftOpens DEF RequestStep, EditKind, Kind
    <3> QED
      BY <2>3, <3>1 DEF DeleteTaskDraftMessage, RequestStep
  <2>4. CASE RegenerateTaskDraftMessage(r)
    <3>1. ASSUME NEW e \in Executor, BeginDraft(r, "regenerate", e) PROVE RequestStep(r)
      BY <3>1, BeginDraftOpens DEF RequestStep, TurnKind, Kind
    <3> QED
      BY <2>4, <3>1 DEF RegenerateTaskDraftMessage, RequestStep
  <2> QED
    BY <1>1, <2>1, <2>2, <2>3, <2>4
<1>2. Next
  BY <1>1 DEF DraftNext, Next
<1>3. current' = current
  <2>1. \A r, kind, e : BeginDraft(r, kind, e) => current' = current
    BY DEF BeginDraft
  <2>2. \A r \in Request :
           ReadForStart(r) \/ ReadForPost(r) \/ ReadForDelete(r) \/ ReadForRegenerate(r) =>
              current' = current
    BY DEF ReadForStart, ReadForPost, ReadForDelete, ReadForRegenerate
  <2>3. \A r \in Request : EditStep(r) => current' = current
    BY DEF EditStep, ReplaceMessages, CloseSessions, ClearSessionIDs
  <2>4. \A r \in Request :
           LoadResumeSessionID(r) \/ WorkspaceFails(r) \/ RunRefused(r) \/ Run(r) =>
              current' = current
    BY DEF LoadResumeSessionID, WorkspaceFails, RunRefused, Run
  <2>5. \A r \in Request : ClientFor(r) \/ Connect(r) \/ ConnectFails(r) => current' = current
    BY DEF ClientFor, Connect, ConnectFails
  <2>6. \A r \in Request :
           Query(r) \/ QueryStale(r) \/ QueryFails(r) \/ Reply(r) \/ TurnFails(r)
             \/ TurnEndsSilently(r) => current' = current
    BY DEF Query, QueryStale, QueryFails, Reply, TurnFails, TurnEndsSilently
  <2>7. \A r \in Request : PersistSessionID(r) \/ SaveMessages(r) => current' = current
    BY DEF PersistSessionID, SaveMessages
  <2>8. Restart \/ OtherConversation => current' = current
    BY DEF Restart, OtherConversation
  <2> QED
    BY <2>1, <2>2, <2>3, <2>4, <2>5, <2>6, <2>7, <2>8
       DEF DraftNext, StartTaskDraft, PostTaskDraftMessage, DeleteTaskDraftMessage,
           RegenerateTaskDraftMessage, TurnStep
<1> QED
  BY <1>2, <1>3

-----------------------------------------------------------------------------
\* Every behaviour of the draft handlers is one of the conversation handlers:
\* their steps are the same but for the requests that open, and those open as a
\* stage's do while it is current.
LEMMA DraftRefinesConversation == DraftSpec => Spec
<1>1. Init => current = TRUE
  BY DEF Init
<1>2. current = TRUE /\ [DraftNext]_vars => [Next]_vars /\ (current = TRUE)'
  BY DraftStep DEF vars
<1> QED
  BY <1>1, <1>2, PTL DEF DraftSpec, Spec

\* So no two turns of a draft talk on one CLI session either, from "New Task"
\* to the confirmation.
THEOREM DraftOneTurnAtATime == DraftSpec => []OneTurnPerSession
<1> QED
  BY DraftRefinesConversation, OneTurnAtATime, PTL

\* What a human deleted or regenerated away in "New Task" is in the context of
\* no turn of the draft requested since.
THEOREM DraftDiscardedForGood == DraftSpec => []DiscardedStaysDiscarded
<1> QED
  BY DraftRefinesConversation, DiscardedForGood, PTL

\* A calm draft's turn goes on in a session that knows the transcript's
\* messages which its executor exchanged.
THEOREM DraftOwnExchangesKnown == DraftSpec => []KnowsOwnExchanges
<1> QED
  BY DraftRefinesConversation, OwnExchangesKnown, PTL
=============================================================================
