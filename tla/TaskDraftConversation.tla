----------------------- MODULE TaskDraftConversation -----------------------
(***************************************************************************)
(* The "New Task" conversation (internal/api/task_draft_conversation.go),  *)
(* "a small, deliberate fork" of the stage conversation's handlers over    *)
(* files of its own (internal/task/draft_conversation.go, session.go):     *)
(* there is no task yet, so no stage to be current and no finalization.    *)
(* Its turns and edits are those of the original; DraftRefinement carries  *)
(* what is proved of StageConversation over to it.                         *)
(***************************************************************************)
EXTENDS StageConversation

\* No stage is required to be current, and none ever stops to be.
BeginDraft(r, kind, e) ==
    /\ Begin(r, kind, e)
    /\ UNCHANGED current

Handles(r, kind) == req[r].kind = kind

\* handleStartTaskDraftConversation: the kickoff, 409 unless it is the first.
StartTaskDraft(r) ==
    \/ \E e \in Executor : BeginDraft(r, "start", e)
    \/ ReadForStart(r)
    \/ Handles(r, "start") /\ TurnStep(r)

\* handlePostTaskDraftMessage.
PostTaskDraftMessage(r) ==
    \/ \E e \in Executor : BeginDraft(r, "post", e)
    \/ ReadForPost(r)
    \/ Handles(r, "post") /\ TurnStep(r)

\* handleDeleteTaskDraftMessage: the messages are replaced, then the sessions
\* are closed and their ids cleared.
DeleteTaskDraftMessage(r) ==
    \/ BeginDraft(r, "delete", "")
    \/ ReadForDelete(r)
    \/ Handles(r, "delete") /\ EditStep(r)

\* handleRegenerateTaskDraftMessage: the sessions are closed and their ids
\* cleared, then the turn runs, and the messages are replaced last.
RegenerateTaskDraftMessage(r) ==
    \/ \E e \in Executor : BeginDraft(r, "regenerate", e)
    \/ ReadForRegenerate(r)
    \/ Handles(r, "regenerate") /\ (EditStep(r) \/ TurnStep(r))

DraftNext ==
    \/ \E r \in Request :
          \/ StartTaskDraft(r) \/ PostTaskDraftMessage(r)
          \/ DeleteTaskDraftMessage(r) \/ RegenerateTaskDraftMessage(r)
    \/ Restart \/ OtherConversation

DraftSpec == Init /\ [][DraftNext]_vars
=============================================================================
