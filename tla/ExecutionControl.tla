--------------------------- MODULE ExecutionControl ---------------------------
(***************************************************************************)
(* The HTTP handlers that drive a task from implementation to completed    *)
(* (internal/api/execution.go, pr.go): several execute requests, one push  *)
(* request and one cleanup pass, each a sequence of steps between which    *)
(* every other request, a human's action, GitHub and a crash may happen.   *)
(* The handlers share the task's files (TaskStore) and its git state       *)
(* (Workspaces); only single operations on the files are atomic.           *)
(***************************************************************************)
EXTENDS TaskStore, Workspaces

CONSTANTS
    Start,           \* the execute requests that can be in flight
    Executor,        \* the executors a request can name
    SessionLocked,   \* those that refuse a second run on one session key
    Hazards          \* "crash": the server dies; "by_hand": a human deletes a
                     \* worktree's directory; "force": a forced cleanup;
                     \* "collect": an attempt's commits cannot be listed;
                     \* "settle": a pull request is closed or merged on GitHub

\* What an execution record keeps of an attempt: its branch ("" is 0), whether
\* it made commits, and the branch it forked from.
AttemptOutput == [branch : 0..MaxExecution, commits : BOOLEAN, fork : 0..MaxExecution]

ASSUME ExecutionControlAssumption ==
    /\ Output = AttemptOutput
    /\ SessionLocked \subseteq Executor
    /\ Hazards \subseteq {"crash", "by_hand", "force", "collect", "settle"}
    /\ Attempt = ExecutionId
    /\ PullRequest = 1..MaxPR /\ NoPullRequest = 0

VARIABLES
    start,   \* the execute requests
    busy,    \* the executors with a run on this task's ":execute" key
    push,    \* the "Push & Open PR" request
    cleaner  \* the cleanup pass

vars == <<taskVars, gitVars, start, busy, push, cleaner>>

NoWorkspaceOutput == [branch |-> 0, commits |-> FALSE, fork |-> 0]

IdleStart == [pc |-> "idle", executor |-> "", hadPR |-> FALSE, fork |-> 0,
              feedback |-> 0, id |-> 0, status |-> "none", output |-> NoWorkspaceOutput]
IdlePush == [pc |-> "idle", new |-> 0, pr |-> 0]
IdleCleaner == [pc |-> "idle", stage |-> "", force |-> FALSE, pushed |-> 0,
                tips |-> {}, todo |-> {}, clean |-> TRUE]

-----------------------------------------------------------------------------
(* handleStartExecution.                                                   *)

\* The latest verdict, when it asks for changes.
NeedsChanges ==
    IF reviews # << >> /\ reviews[Len(reviews)].decision = "needs_changes"
    THEN Len(reviews) ELSE 0

Goto(s, pc) == start' = [start EXCEPT ![s].pc = pc]
Finish(s) == start' = [start EXCEPT ![s] = IdleStart]
Fork(s, fork) == start' = [start EXCEPT ![s].pc = "resolved", ![s].fork = fork]
End(s, status, output) ==
    start' = [start EXCEPT ![s].pc = "ended", ![s].status = status, ![s].output = output]

\* Mutant: the stage is not checked when the request arrives.
StartGetAnyStage(s, executor) ==
    /\ start[s].pc = "idle"
    /\ "plan" \in docs
    /\ start' = [start EXCEPT ![s].pc = "got", ![s].executor = executor,
                              ![s].hadPR = (task.pullRequest # NoPullRequest)]
    /\ UNCHANGED <<taskVars, gitVars, busy, push, cleaner>>

StartGet(s, executor) ==
    /\ start[s].pc = "idle"
    /\ task.stage = "implementation"
    /\ "plan" \in docs
    /\ start' = [start EXCEPT ![s].pc = "got", ![s].executor = executor,
                              ![s].hadPR = (task.pullRequest # NoPullRequest)]
    /\ UNCHANGED <<taskVars, gitVars, busy, push, cleaner>>

\* resolveReviewContinuation lists the reviews first.
StartListReviews(s) ==
    /\ start[s].pc = "got"
    /\ start' = [start EXCEPT ![s].pc = "reviewed", ![s].feedback = NeedsChanges]
    /\ UNCHANGED <<taskVars, gitVars, busy, push, cleaner>>

\* Mutant: the branch of the latest attempt, whatever the verdict is about.
LatestFork(feedback) ==
    IF feedback = 0 THEN 0
    ELSE LET n == CHOOSE n \in 0..MaxExecution : IsLastExecution(n)
         IN  IF n = 0 THEN 0 ELSE executions[n].output.branch

\* The branch of the attempt that verdict is about.
ReviewFork(feedback) ==
    LET reviewed == reviews[feedback].execution
    IN  IF feedback # 0 /\ reviewed # 0 THEN executions[reviewed].output.branch ELSE 0

\* The failed attempt a human may continue from: the latest, if it has commits.
Continuable(n, feedback) ==
    /\ ReviewFork(feedback) = 0
    /\ n # 0 /\ IsLastExecution(n)
    /\ executions[n].status # "success"
    /\ executions[n].output.commits

\* Its second half, resolveFailureContinuation and the human's choice, which a
\* newer record may have made unavailable (409).  Each lists the executions; the
\* first looks up one record, which no later one changes.
StartResolveContinuation(s) ==
    /\ start[s].pc = "reviewed"
    /\ LET feedback == start[s].feedback
       IN  \/ Fork(s, ReviewFork(feedback))
           \/ \E n \in ExecutionId :
                 Continuable(n, feedback) /\ Fork(s, executions[n].output.branch)
           \/ Finish(s)
    /\ UNCHANGED <<taskVars, gitVars, busy, push, cleaner>>

StartNextExecutionID(s) ==
    /\ start[s].pc = "resolved"
    /\ \E n \in ExecutionId :
          /\ IsNextExecutionID(n)
          /\ start' = [start EXCEPT ![s].pc = "chosen", ![s].id = n]
    /\ UNCHANGED <<taskVars, gitVars, busy, push, cleaner>>

StartCreateLog(s) ==
    /\ start[s].pc = "chosen"
    /\ \/ CreateExecutionLog(start[s].id) /\ Goto(s, "logged")
       \/ start[s].id \in logs /\ Finish(s) /\ UNCHANGED taskVars
    /\ UNCHANGED <<gitVars, busy, push, cleaner>>

StartResolveWorkspace(s) ==
    /\ start[s].pc = "logged"
    /\ \/ /\ ResolveExecutionWorkspace(start[s].id, start[s].fork)
          /\ Goto(s, "workspace")
       \/ /\ FailToResolveWorkspace(start[s].id, start[s].fork)
          /\ End(s, "failure", NoWorkspaceOutput)
    /\ UNCHANGED <<taskVars, busy, push, cleaner>>

OutputOf(s, found) ==
    [branch |-> start[s].id, commits |-> found, fork |-> start[s].fork]

\* Mutant: a session key in use is not refused.
StartRunAnyway(s) ==
    /\ start[s].pc = "workspace"
    /\ busy' = busy \union {start[s].executor}
    /\ Goto(s, "running")
    /\ UNCHANGED <<taskVars, gitVars, push, cleaner>>

\* The run takes its session; or it never starts, because the pull request's
\* comments cannot be fetched or the session is in use (ErrRunInProgress), and
\* ends as a failure like any other.
StartRun(s) ==
    /\ start[s].pc = "workspace"
    /\ \/ /\ ~ (start[s].executor \in SessionLocked /\ start[s].executor \in busy)
          /\ busy' = busy \union {start[s].executor}
          /\ Goto(s, "running")
       \/ /\ \/ start[s].feedback # 0 /\ start[s].hadPR
             \/ start[s].executor \in SessionLocked /\ start[s].executor \in busy
          /\ End(s, "failure", OutputOf(s, FALSE))
          /\ UNCHANGED busy
    /\ UNCHANGED <<taskVars, gitVars, push, cleaner>>

\* What CollectExecutionOutput finds of its commits: nothing when it fails.
Collected(committed) ==
    IF "collect" \in Hazards THEN {committed, FALSE} ELSE {committed}

\* Mutant: the session is not unlocked at the end.
EndRunLocked(s) ==
    /\ start[s].pc = "running"
    /\ \E status \in Status, committed \in BOOLEAN, dirty \in BOOLEAN :
          /\ AgentWork({start[s].id}, IF committed THEN {start[s].id} ELSE {},
                       IF dirty THEN {start[s].id} ELSE {})
          /\ \E found \in Collected(committed) : End(s, status, OutputOf(s, found))
    /\ UNCHANGED <<taskVars, busy, push, cleaner>>

\* The run ends, with its safety commit or cleanup turn.
EndRun(s) ==
    /\ start[s].pc = "running"
    /\ \E status \in Status, committed \in BOOLEAN, dirty \in BOOLEAN :
          /\ AgentWork({start[s].id}, IF committed THEN {start[s].id} ELSE {},
                       IF dirty THEN {start[s].id} ELSE {})
          /\ \E found \in Collected(committed) : End(s, status, OutputOf(s, found))
    /\ busy' = IF \E other \in Start \ {s} :
                     start[other].pc = "running" /\ start[other].executor = start[s].executor
               THEN busy ELSE busy \ {start[s].executor}
    /\ UNCHANGED <<taskVars, push, cleaner>>

\* RecordExecution, or its refusal: a success whose task has left
\* implementation is dropped, and so is an id that already has a record.
StartRecord(s) ==
    /\ start[s].pc = "ended"
    /\ \/ /\ start[s].status = "success"
          /\ \E done \in Landed(3) : RecordSuccess(start[s].id, start[s].output, done)
       \/ start[s].status = "failure" /\ RecordFailure(start[s].id, start[s].output)
       \/ /\ \/ start[s].status = "success" /\ task.stage # "implementation"
             \/ Recorded(start[s].id)
          /\ UNCHANGED taskVars
    /\ Finish(s)
    /\ UNCHANGED <<gitVars, busy, push, cleaner>>

StartStep(s) ==
    \/ \E executor \in Executor : StartGet(s, executor)
    \/ StartListReviews(s) \/ StartResolveContinuation(s)
    \/ StartNextExecutionID(s) \/ StartCreateLog(s)
    \/ StartResolveWorkspace(s) \/ StartRun(s) \/ EndRun(s) \/ StartRecord(s)

-----------------------------------------------------------------------------
(* handlePushPR.                                                           *)

\* The task is read once; its stage is checked in what was read.
PushGet ==
    /\ push.pc = "idle"
    /\ task.stage = "pr_review"
    /\ push' = [IdlePush EXCEPT !.pc = "got", !.pr = task.pullRequest]
    /\ UNCHANGED <<taskVars, gitVars, start, busy, cleaner>>

\* The branch of the last attempt on record by now; 404 when there is none.
PushListExecutions ==
    /\ push.pc = "got"
    /\ \E n \in 0..MaxExecution :
          /\ IsLastExecution(n)
          /\ push' = IF n = 0 THEN IdlePush
                     ELSE [push EXCEPT !.pc = "read", !.new = executions[n].output.branch]
    /\ UNCHANGED <<taskVars, gitVars, start, busy, cleaner>>

\* PushAndOpenPR: onto the recorded pull request unless it is closed, else a
\* new one for the branch pushed under its own name.  Any call can fail.
PushAndOpenPR ==
    /\ push.pc = "read"
    /\ \/ /\ IF push.new = 0 THEN PushNothingOntoPR(push.pr) ELSE PushOntoPR(push.new, push.pr)
          /\ push' = [push EXCEPT !.pc = "pushed"]
       \/ /\ ~ Continues(push.pr)
          /\ PushBranch(push.new)
          /\ CreatePR(push.new)
          /\ push' = [push EXCEPT !.pc = "pushed", !.pr = Len(prs) + 1]
          /\ UNCHANGED <<worktree, branch, withdrawn>>
       \/ /\ UNCHANGED remote \/ (~ Continues(push.pr) /\ PushBranch(push.new))
          /\ push' = IdlePush
          /\ UNCHANGED <<worktree, branch, prs, withdrawn>>
    /\ UNCHANGED <<taskVars, start, busy, cleaner>>

PushRecord ==
    /\ push.pc = "pushed"
    /\ \/ RecordPullRequest(push.pr)
       \/ task.stage # "pr_review" /\ UNCHANGED taskVars
    /\ push' = IdlePush
    /\ UNCHANGED <<gitVars, start, busy, cleaner>>

PushStep == PushGet \/ PushListExecutions \/ PushAndOpenPR \/ PushRecord

-----------------------------------------------------------------------------
(* handleMarkPRMerged, handleTaskCleanup and the sweep command: runCleanupPass. *)

BeginPass(stage, force) ==
    cleaner' = [IdleCleaner EXCEPT !.pc = "begin", !.stage = stage, !.force = force,
                  !.pushed = IF task.pullRequest = NoPullRequest THEN 0
                             ELSE prs[task.pullRequest].head]

\* The ways a human can ask for a pass.
Forced == IF "force" \in Hazards THEN BOOLEAN ELSE {FALSE}

\* The assertion is recorded first; the pass follows if the write succeeded.
HandleMarkPRMerged ==
    /\ cleaner.pc = "idle"
    /\ \E done \in Landed(2) :
          /\ MarkPRMerged(done)
          /\ IF done = 2 THEN BeginPass("cleanup", FALSE) ELSE UNCHANGED cleaner
    /\ UNCHANGED <<gitVars, start, busy, push>>

HandleTaskCleanup ==
    /\ cleaner.pc = "idle"
    /\ task.stage = "cleanup"
    /\ \E force \in Forced : BeginPass("cleanup", force)
    /\ UNCHANGED <<taskVars, gitVars, start, busy, push>>

\* cmd/sweep-merged-worktrees, applied to a task at cleanup or completed.
SweepTask ==
    /\ cleaner.pc = "idle"
    /\ task.stage \in {"cleanup", "completed"}
    /\ task.pullRequest # NoPullRequest
    /\ \E n \in ExecutionId : Recorded(n)
    /\ \E force \in Forced : BeginPass(task.stage, force)
    /\ UNCHANGED <<taskVars, gitVars, start, busy, push>>

\* Mutant: the pass covers every attempt that has a log.
CleanupListLogs ==
    /\ cleaner.pc = "begin"
    /\ cleaner' = [cleaner EXCEPT !.pc = "removing", !.todo = logs,
                      !.tips = IF cleaner.force THEN {} ELSE RemoteBranchTip(cleaner.pushed)]
    /\ UNCHANGED <<taskVars, gitVars, start, busy, push>>

\* The pass covers the executions on record, and compares them all with the
\* pushed tip it resolves before the first.
CleanupList ==
    /\ cleaner.pc = "begin"
    /\ cleaner' = [cleaner EXCEPT !.pc = "removing", !.todo = {n \in ExecutionId : Recorded(n)},
                      !.tips = IF cleaner.force THEN {} ELSE RemoteBranchTip(cleaner.pushed)]
    /\ UNCHANGED <<taskVars, gitVars, start, busy, push>>

\* cleanupOneWorktree, in the order of the ids.
CleanupOne ==
    /\ cleaner.pc = "removing"
    /\ \E n \in cleaner.todo :
          /\ \A m \in cleaner.todo : n <= m
          /\ \/ /\ AlreadyGone(n) \/ cleaner.force \/ SafeToRemove(n, cleaner.tips)
                /\ RemoveWorktree(n)
                /\ cleaner' = [cleaner EXCEPT !.todo = @ \ {n}]
             \/ /\ ~ AlreadyGone(n)
                /\ cleaner' = [cleaner EXCEPT !.todo = @ \ {n}, !.clean = FALSE]
                /\ UNCHANGED gitVars
    /\ UNCHANGED <<taskVars, start, busy, push>>

\* Mutant: the task is completed though a worktree was parked.
CleanupReportAnyway ==
    /\ cleaner.pc = "removing" /\ cleaner.todo = {}
    /\ SetCleanupStatus(IF cleaner.clean THEN "clean" ELSE "parked")
    /\ cleaner' = IF cleaner.stage = "cleanup"
                  THEN [cleaner EXCEPT !.pc = "reported"] ELSE IdleCleaner
    /\ UNCHANGED <<gitVars, start, busy, push>>

CleanupReportStatus ==
    /\ cleaner.pc = "removing" /\ cleaner.todo = {}
    /\ SetCleanupStatus(IF cleaner.clean THEN "clean" ELSE "parked")
    /\ cleaner' = IF cleaner.clean /\ cleaner.stage = "cleanup"
                  THEN [cleaner EXCEPT !.pc = "reported"] ELSE IdleCleaner
    /\ UNCHANGED <<gitVars, start, busy, push>>

CleanupComplete ==
    /\ cleaner.pc = "reported"
    /\ \/ \E done \in Landed(2) : CompleteCleanup(done)
       \/ task.stage # "cleanup" /\ UNCHANGED taskVars
    /\ cleaner' = IdleCleaner
    /\ UNCHANGED <<gitVars, start, busy, push>>

CleanupStep == CleanupList \/ CleanupOne \/ CleanupReportStatus \/ CleanupComplete

-----------------------------------------------------------------------------
(* Everybody else.                                                         *)

HumanStep ==
    /\ HumanNext
    /\ UNCHANGED <<gitVars, start, busy, push, cleaner>>

GitHubStep ==
    /\ "settle" \in Hazards
    /\ \E pr \in 1..Len(prs), state \in {"closed", "merged"} : SettlePR(pr, state)
    /\ UNCHANGED <<taskVars, start, busy, push, cleaner>>

DeleteByHand ==
    /\ "by_hand" \in Hazards
    /\ \E n \in ExecutionId :
          /\ \A s \in Start : start[s].pc = "running" => start[s].id # n
          /\ RemoveByHand(n)
    /\ UNCHANGED <<taskVars, start, busy, push, cleaner>>

\* The server dies and restarts: every request is gone, sessions with them; a
\* run that was going on leaves whatever it had written and committed.
Crash ==
    LET running == {start[s].id : s \in {x \in Start : start[x].pc = "running"}}
    IN  /\ "crash" \in Hazards
        /\ \E committed \in SUBSET running, dirty \in SUBSET running :
              AgentWork(running, committed, dirty)
        /\ start' = [s \in Start |-> IdleStart]
        /\ busy' = {}
        /\ push' = IdlePush
        /\ cleaner' = IdleCleaner
        /\ UNCHANGED taskVars

Init ==
    /\ TaskInit /\ GitInit
    /\ start = [s \in Start |-> IdleStart]
    /\ busy = {}
    /\ push = IdlePush
    /\ cleaner = IdleCleaner

Next ==
    \/ \E s \in Start : StartStep(s)
    \/ PushStep
    \/ HandleMarkPRMerged \/ HandleTaskCleanup \/ SweepTask \/ CleanupStep
    \/ HumanStep \/ GitHubStep \/ DeleteByHand \/ Crash

Spec == Init /\ [][Next]_vars

-----------------------------------------------------------------------------
\* A request has created its log and its outcome is not settled yet.
Owns(s) == start[s].pc \in {"logged", "workspace", "running", "ended"}

ControlTypeOK ==
    /\ TypeOK /\ GitTypeOK
    /\ start \in [Start -> [pc : {"idle", "got", "reviewed", "resolved", "chosen",
                                  "logged", "workspace", "running", "ended"},
                            executor : Executor \union {""}, hadPR : BOOLEAN,
                            fork : 0..MaxExecution, feedback : 0..MaxReview,
                            id : 0..MaxExecution, status : Status \union {"none"},
                            output : AttemptOutput]]
    /\ busy \subseteq Executor
    /\ push \in [pc : {"idle", "got", "read", "pushed"}, new : 0..MaxExecution, pr : 0..MaxPR]
    /\ cleaner \in [pc : {"idle", "begin", "removing", "reported"},
                    stage : {"", "cleanup", "completed"}, force : BOOLEAN,
                    pushed : 0..MaxExecution,
                    tips : SUBSET SUBSET ExecutionId, todo : SUBSET ExecutionId, clean : BOOLEAN]

\* However requests that chose the same next id interleave, the one whose log
\* creation succeeds owns the id: no record is made under it and no other
\* request holds it until the owner records its outcome.
ExclusiveExecution ==
    \A s \in Start : Owns(s) =>
       /\ start[s].id \in logs
       /\ ~ Recorded(start[s].id)
       /\ \A other \in Start \ {s} : Owns(other) => start[other].id # start[s].id

\* A run keeps the worktree and the branch it works in, though a cleanup pass
\* may be under way for the task (it lists recorded attempts only).
RunKeepsWorkspace ==
    \A s \in Start : start[s].pc \in {"workspace", "running"} =>
       worktree[start[s].id] # "none" /\ start[s].id \in DOMAIN branch

\* tryLock: an executor that locks its session never has two runs on one key.
OneRunPerSession ==
    \A s, other \in Start :
       /\ start[s].pc = "running" /\ start[other].pc = "running"
       /\ start[s].executor = start[other].executor
       /\ start[s].executor \in SessionLocked
       => s = other

\* Without force and with no worktree deleted by hand, no step loses an
\* attempt's commits, however requests, pushes, passes and crashes interleave:
\* they stay on some local branch or were pushed before the last one is dropped,
\* unless a push of the empty branch name took them off origin again.
NoCommitLost ==
    [][\A n \in DOMAIN branch : \A c \in branch[n] :
          \/ \E m \in DOMAIN branch' : c \in branch'[m]
          \/ \E m \in DOMAIN remote : c \in remote[m]
          \/ c \in withdrawn]_vars

\* A retry after needs_changes holds the commits of the attempt that verdict
\* is about, whatever other attempts failed in between.
RetryBuildsOnReviewed ==
    \A s \in Start :
       start[s].pc \in {"workspace", "running", "ended"} /\ start[s].feedback # 0 =>
          LET reviewed == reviews[start[s].feedback].execution
              built == executions[reviewed].output.branch
          IN  /\ reviewed # 0 /\ Recorded(reviewed)
              /\ built \in DOMAIN branch /\ start[s].id \in DOMAIN branch
                    => branch[built] \subseteq branch[start[s].id]

\* With one execute request, a verdict is on record against a successful attempt.
ReviewNamesSuccess ==
    \A r \in 1..Len(reviews) :
       reviews[r].execution # 0 /\ executions[reviews[r].execution].status = "success"

\* With one execute request: the branch a push request takes is the one of the
\* attempt the latest verdict approved, if the task is still (or again) at
\* pr_review when the attempts are listed.
PushTakesApproved ==
    [][push.pc = "got" /\ push'.pc = "read" /\ task.stage = "pr_review" =>
          /\ reviews # << >>
          /\ reviews[Len(reviews)].decision = "approved"
          /\ reviews[Len(reviews)].execution # 0
          /\ push'.new = executions[reviews[Len(reviews)].execution].output.branch]_vars

\* What a comment of handlePushPR says of the attempt it takes: "the last entry is
\* the most recent attempt -- the one Review actually approved".
PushTakesReviewed ==
    [][push.pc = "got" /\ push'.pc = "read" =>
          \E r \in 1..Len(reviews) :
             /\ reviews[r].decision = "approved" /\ reviews[r].execution # 0
             /\ push'.new = executions[reviews[r].execution].output.branch]_vars

\* A completed task has left no worktree of a recorded attempt behind, though
\* passes are skipped, parked, repeated and cut short (with one execute request:
\* a second one may record its failure after a pass has listed the worktrees).
CompletedIsSwept ==
    task.stage = "completed" =>
       \A n \in ExecutionId : Recorded(n) => worktree[n] = "none"

\* What every step of a request needs is there for it: a handler waits only for
\* the store mutex and for its agent, and agents end (fairness per request).
StartContinues(s) ==
    \/ StartListReviews(s) \/ StartResolveContinuation(s)
    \/ StartNextExecutionID(s) \/ StartCreateLog(s)
    \/ StartResolveWorkspace(s) \/ StartRun(s) \/ EndRun(s) \/ StartRecord(s)

\* Every request that began an attempt comes to its end: a failure has a record,
\* wherever the task has been moved meanwhile, and a success has one or finds
\* its task no longer at implementation (or the transition log at its bound).
AttemptSettled ==
    \A n \in ExecutionId :
       (\E s \in Start : Owns(s) /\ start[s].id = n) ~>
          \/ Recorded(n)
          \/ /\ \E s \in Start :
                   start[s].pc = "ended" /\ start[s].id = n /\ start[s].status = "success"
             /\ task.stage # "implementation" \/ Len(transitions) = MaxTransition

\* A session key in use is free again some time.
SessionFreed ==
    \A executor \in Executor : executor \in busy ~> executor \notin busy
=============================================================================
