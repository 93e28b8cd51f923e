------------------------ MODULE ExecutionControlProofs ------------------------
(***************************************************************************)
(* The handlers of a task, for any number of execute requests, attempts    *)
(* and executors and any faults of the store.                              *)
(*                                                                         *)
(* Each result rests on an invariant of its own, on top of ControlInv (the *)
(* types, the shape of the requests' records, ownership of attempts):      *)
(*   - an id, its worktree and a locked session have one request at a time;*)
(*   - the handlers use the store as TaskStore allows (ControlUsesStore);  *)
(*   - RetryInv, NamedInv: a retry holds the commits of the attempt        *)
(*     reviewed, which is on record;                                       *)
(*   - CommitInv: no step loses a commit, but for what a push withdrew;    *)
(* and, when a task has one execute request at a time,                     *)
(*   - SubjectInv: a verdict is on a successful attempt, and a push that   *)
(*     lists the attempts at pr_review takes the approved one (Approved);  *)
(*   - SweepInv: a completed task has no worktree left.                    *)
(*                                                                         *)
(* What a request does to its own record and to the attempt's files is     *)
(* stated once (RequestEffect); every other step leaves both alone         *)
(* (OthersEffect).                                                         *)
(***************************************************************************)
EXTENDS ExecutionControl, TaskStoreProofs, SequenceTheorems

Early == {"idle", "got", "reviewed", "resolved", "chosen"}
Owning == {"logged", "workspace", "running", "ended"}

\* What the proofs need to know of the requests' records.
StartShape ==
    /\ DOMAIN start = Start /\ DOMAIN executions = ExecutionId
    /\ \A s \in Start :
          /\ {"pc", "executor", "hadPR", "fork", "feedback", "id", "status", "output"}
                \subseteq DOMAIN start[s]
          /\ start[s].pc \in Early \union Owning
          /\ start[s].pc \in {"chosen"} \union Owning => start[s].id \in ExecutionId
          /\ start[s].pc = "running" => start[s].executor \in busy

\* A record is only ever made under an id that has a log.
RecordedLogged == \A n \in ExecutionId : Recorded(n) => n \in logs

-----------------------------------------------------------------------------
\* What a step of request s can do to an attempt: nothing yet (it holds no id
\* that counts), take the id whose log it creates, keep it, or settle it.
Takes(s) ==
    /\ start[s].pc = "chosen" /\ start'[s].pc = "logged"
    /\ start'[s].id = start[s].id
    /\ start[s].id \notin logs
    /\ logs' = logs \union {start[s].id}
    /\ executions' = executions

Waits(s) ==
    /\ start[s].pc \in Early /\ start'[s].pc \in Early
    /\ logs' = logs /\ executions' = executions

Keeps(s) ==
    /\ start[s].pc \in Owning /\ start'[s].pc \in Owning
    /\ start'[s].id = start[s].id
    /\ logs' = logs /\ executions' = executions

Settles(s) ==
    /\ start[s].pc = "ended" /\ start'[s].pc = "idle"
    /\ logs' = logs
    /\ \A n \in ExecutionId : n # start[s].id => executions'[n] = executions[n]
    /\ DOMAIN executions' = ExecutionId
    /\ start[s].id \in logs \/ executions' = executions

\* A request's record after its step: the shape again, and the others' as before.
Own(s) ==
    /\ start' = [start EXCEPT ![s] = start'[s]]
    /\ {"pc", "executor", "hadPR", "fork", "feedback", "id", "status", "output"}
          \subseteq DOMAIN start'[s]
    /\ start'[s].pc \in {"chosen"} \union Owning => start'[s].id \in ExecutionId

LEMMA RequestEffect ==
  ASSUME StartShape, NEW s \in Start, StartStep(s)
  PROVE  Own(s) /\ (Waits(s) \/ Takes(s) \/ Keeps(s) \/ Settles(s))
<1> USE DEF StartShape, Early, Owning
<1> DEFINE Goal == Own(s) /\ (Waits(s) \/ Takes(s) \/ Keeps(s) \/ Settles(s))
<1>a. /\ DOMAIN IdleStart = {"pc", "executor", "hadPR", "fork", "feedback", "id", "status", "output"}
      /\ IdleStart.pc = "idle"
  BY DEF IdleStart
<1>1. ASSUME NEW executor \in Executor, StartGet(s, executor) PROVE Goal
  BY <1>1 DEF StartGet, taskVars, Own, Waits
<1>l. ASSUME StartListReviews(s) PROVE Goal
  BY <1>l DEF StartListReviews, taskVars, Own, Waits
<1>2. ASSUME StartResolveContinuation(s) PROVE Goal
  <2>1. ASSUME NEW fork, Fork(s, fork), UNCHANGED taskVars, start[s].pc = "reviewed" PROVE Goal
    BY <2>1 DEF Fork, taskVars, Own, Waits
  <2>2. ASSUME Finish(s), UNCHANGED taskVars, start[s].pc = "reviewed" PROVE Goal
    BY <2>2, <1>a DEF Finish, taskVars, Own, Waits
  <2> QED BY <1>2, <2>1, <2>2 DEF StartResolveContinuation
<1>3. ASSUME StartNextExecutionID(s) PROVE Goal
  BY <1>3 DEF StartNextExecutionID, taskVars, Own, Waits
<1>4. ASSUME StartCreateLog(s) PROVE Goal
  <2>1. ASSUME CreateExecutionLog(start[s].id), Goto(s, "logged"), start[s].pc = "chosen" PROVE Goal
    BY <2>1 DEF CreateExecutionLog, Goto, Own, Takes
  <2>2. ASSUME Finish(s), UNCHANGED taskVars, start[s].pc = "chosen" PROVE Goal
    BY <2>2, <1>a DEF Finish, taskVars, Own, Waits
  <2> QED BY <1>4, <2>1, <2>2 DEF StartCreateLog
<1>b. ASSUME start[s].pc \in Owning, UNCHANGED taskVars,
             \/ \E status, output : End(s, status, output)
             \/ \E pc \in Owning : Goto(s, pc)
      PROVE  Goal
  <2>1. ASSUME NEW status, NEW output, End(s, status, output) PROVE Goal
    BY <1>b, <2>1 DEF End, taskVars, Own, Keeps
  <2>2. ASSUME NEW pc \in Owning, Goto(s, pc) PROVE Goal
    BY <1>b, <2>2 DEF Goto, taskVars, Own, Keeps
  <2> QED BY <1>b, <2>1, <2>2
<1>5. ASSUME StartResolveWorkspace(s) PROVE Goal
  BY <1>5, <1>b DEF StartResolveWorkspace
<1>6. ASSUME StartRun(s) PROVE Goal
  BY <1>6, <1>b DEF StartRun
<1>7. ASSUME EndRun(s) PROVE Goal
  BY <1>7, <1>b DEF EndRun
<1>8. ASSUME StartRecord(s) PROVE Goal
  <2>1. start[s].pc = "ended" /\ Finish(s)
    BY <1>8 DEF StartRecord
  <2>2. Own(s) /\ start'[s].pc = "idle"
    BY <2>1, <1>a DEF Finish, Own
  <2>3. logs' = logs
    BY <1>8 DEF StartRecord, RecordSuccess, RecordFailure, taskVars
  <2>4. \A n \in ExecutionId : n # start[s].id => executions'[n] = executions[n]
    BY <1>8, SMTT(30) DEF StartRecord, RecordSuccess, RecordFailure, taskVars
  <2>5. start[s].id \in logs \/ executions' = executions
    BY <1>8 DEF StartRecord, RecordSuccess, RecordFailure, taskVars
  <2>6. DOMAIN executions' = ExecutionId
    BY <1>8 DEF StartRecord, RecordSuccess, RecordFailure, taskVars
  <2>7. Settles(s)
    BY <2>1, <2>2, <2>3, <2>4, <2>5, <2>6 DEF Settles
  <2> QED BY <2>2, <2>7
<1> QED BY <1>1, <1>l, <1>2, <1>3, <1>4, <1>5, <1>6, <1>7, <1>8 DEF StartStep

\* Everybody else leaves the logs and the records of executions alone, and the
\* requests too unless the server dies.
LEMMA OthersEffect ==
  ASSUME \/ PushStep \/ HandleMarkPRMerged \/ HandleTaskCleanup \/ SweepTask \/ CleanupStep
         \/ HumanStep \/ GitHubStep \/ DeleteByHand \/ Crash \/ UNCHANGED vars
  PROVE  /\ logs' = logs /\ executions' = executions
         /\ \/ start' = start /\ busy' = busy
            \/ start' = [s \in Start |-> IdleStart]
<1>1. HumanNext => logs' = logs /\ executions' = executions
  BY DEF HumanNext, Create, Update, FinalizeRequirements, FinalizePlan, FinalizeReview,
         AppendKnowledgeActivity, ReviseToRequirements, ReviseToPlanning
<1>2. CASE PushStep
  BY <1>2 DEF PushStep, PushGet, PushListExecutions, PushAndOpenPR, PushRecord,
     RecordPullRequest, taskVars
<1>3. CASE HandleMarkPRMerged \/ HandleTaskCleanup \/ SweepTask
  BY <1>3 DEF HandleMarkPRMerged, HandleTaskCleanup, SweepTask, MarkPRMerged, taskVars
<1>4. CASE CleanupStep
  BY <1>4 DEF CleanupStep, CleanupList, CleanupOne, CleanupReportStatus, CleanupComplete,
              SetCleanupStatus, CompleteCleanup, taskVars
<1>5. CASE HumanStep \/ GitHubStep \/ DeleteByHand \/ Crash \/ UNCHANGED vars
  BY <1>5, <1>1 DEF HumanStep, GitHubStep, DeleteByHand, Crash, vars, taskVars
<1> QED BY <1>2, <1>3, <1>4, <1>5

\* Every step is a request's or one of the others.
LEMMA StepCases ==
  ASSUME [Next]_vars
  PROVE  \/ \E s \in Start : StartStep(s)
         \/ PushStep \/ HandleMarkPRMerged \/ HandleTaskCleanup \/ SweepTask \/ CleanupStep
         \/ HumanStep \/ GitHubStep \/ DeleteByHand \/ Crash \/ UNCHANGED vars
BY DEF Next

-----------------------------------------------------------------------------
OwnersInv == RecordedLogged /\ ExclusiveExecution

\* The requests' records keep their shape, and a request that runs is known to
\* its executor: one ends its session only when it is the last to run in it.
LEMMA ShapeKept == StartShape /\ [Next]_vars => StartShape'
<1> SUFFICES ASSUME StartShape, [Next]_vars PROVE StartShape'
  OBVIOUS
<1> USE DEF Early, Owning
<1>1. ASSUME NEW s \in Start, StartStep(s) PROVE StartShape'
  <2>1. Own(s) /\ (Waits(s) \/ Takes(s) \/ Keeps(s) \/ Settles(s))
    BY <1>1, RequestEffect
  <2>2. DOMAIN start' = Start /\ DOMAIN executions' = ExecutionId
    BY <2>1 DEF StartShape, Own, Waits, Takes, Keeps, Settles
  <2>3. \A other \in Start : other # s => start'[other] = start[other]
    BY <2>1 DEF StartShape, Own
  <2>4. start'[s].pc \in Early \union Owning
    BY <2>1 DEF Waits, Takes, Keeps, Settles
  <2>5. \A other \in Start : start'[other].pc = "running" => start'[other].executor \in busy'
    <3>1. ASSUME StartRun(s) PROVE start'[s].pc = "running" => start'[s].executor \in busy'
      <4>1. CASE busy' = busy \union {start[s].executor} /\ Goto(s, "running")
        BY <4>1 DEF Goto, StartShape
      <4>2. CASE \E output : End(s, "failure", output)
        BY <4>2 DEF End, StartShape
      <4> QED BY <3>1, <4>1, <4>2 DEF StartRun
    <3>2. ASSUME StartRun(s) PROVE busy \subseteq busy'
      BY <3>2 DEF StartRun
    <3>3. ASSUME EndRun(s)
          PROVE  /\ start'[s].pc = "ended"
                 /\ \A other \in Start \ {s} : start[other].pc = "running" =>
                       start[other].executor \in busy'
      BY <3>3 DEF EndRun, End, StartShape
    <3>4. ASSUME ~ StartRun(s), ~ EndRun(s) PROVE busy' = busy /\ start'[s].pc # "running"
      <4>a. IdleStart.pc = "idle"
        BY DEF IdleStart
      <4>1. CASE StartCreateLog(s) \/ StartResolveWorkspace(s) \/ StartNextExecutionID(s)
        BY <4>1, <4>a DEF StartCreateLog, StartResolveWorkspace, StartNextExecutionID, Goto,
              Finish, End, StartShape
      <4>2. CASE StartResolveContinuation(s) \/ StartRecord(s)
        BY <4>2, <4>a DEF StartResolveContinuation, StartRecord, Fork, Finish, StartShape
      <4>3. CASE StartListReviews(s) \/ \E executor \in Executor : StartGet(s, executor)
        BY <4>3 DEF StartGet, StartListReviews, StartShape
      <4> QED BY <1>1, <3>4, <4>1, <4>2, <4>3 DEF StartStep
    <3> QED BY <2>3, <3>1, <3>2, <3>3, <3>4 DEF StartShape
  <2> QED BY <2>1, <2>2, <2>3, <2>4, <2>5 DEF StartShape, Own
<1>2. ASSUME start' = [s \in Start |-> IdleStart], executions' = executions PROVE StartShape'
  BY <1>2 DEF StartShape, IdleStart
<1>3. ASSUME start' = start, busy' = busy, executions' = executions PROVE StartShape'
  BY <1>3 DEF StartShape
<1> QED BY <1>1, <1>2, <1>3, StepCases, OthersEffect

-----------------------------------------------------------------------------
\* A step of a request keeps what every owner has: an id is taken only when it
\* has no log, hence no record and no owner, and settled only by its owner.
LEMMA OwnersKept == StartShape /\ OwnersInv /\ [Next]_vars => OwnersInv'
<1> SUFFICES ASSUME StartShape, OwnersInv, [Next]_vars PROVE OwnersInv'
  OBVIOUS
<1> USE DEF Early, Owning
<1>1. ASSUME NEW s \in Start, StartStep(s) PROVE OwnersInv'
  <2>1. Own(s) /\ (Waits(s) \/ Takes(s) \/ Keeps(s) \/ Settles(s))
    BY <1>1, RequestEffect
  <2>2. \A other \in Start : other # s => start'[other] = start[other]
    BY <2>1 DEF StartShape, Own
  <2>a. \A other \in Start : Owns(other) => start[other].id \in ExecutionId
    BY DEF StartShape, Owns
  <2>3. CASE Waits(s)
    BY <2>2, <2>3 DEF Waits, OwnersInv, RecordedLogged, ExclusiveExecution, Recorded, Owns
  <2>4. CASE Takes(s)
    <3>1. start[s].id \in ExecutionId /\ ~ Recorded(start[s].id)
      BY <2>4 DEF Takes, StartShape, OwnersInv, RecordedLogged
    <3>2. \A other \in Start : Owns(other) => start[other].id # start[s].id
      BY <2>4 DEF Takes, OwnersInv, ExclusiveExecution
    <3>3. \A n : Recorded(n)' <=> Recorded(n)
      BY <2>4 DEF Takes, Recorded
    <3>4. \A other \in Start : other # s => (Owns(other)' <=> Owns(other))
      BY <2>2 DEF Owns
    <3>5. RecordedLogged'
      BY <2>4, <3>3 DEF Takes, OwnersInv, RecordedLogged
    <3>6. ExclusiveExecution'
      BY <2>2, <2>4, <3>1, <3>2, <3>3, <3>4 DEF Takes, OwnersInv, ExclusiveExecution
    <3> QED BY <3>5, <3>6 DEF OwnersInv
  <2>5. CASE Keeps(s)
    <3>1. \A other \in Start : /\ Owns(other)' <=> Owns(other)
                               /\ Owns(other) => start'[other].id = start[other].id
      BY <2>2, <2>5 DEF Keeps, Owns
    <3> QED BY <2>5, <3>1 DEF Keeps, OwnersInv, RecordedLogged, ExclusiveExecution, Recorded
  <2>6. CASE Settles(s)
    <3>1. ~ Owns(s)' /\ Owns(s)
      BY <2>6 DEF Settles, Owns
    <3>2. \A other \in Start : other # s => (Owns(other)' <=> Owns(other))
      BY <2>2 DEF Owns
    <3>3. \A n \in ExecutionId : n # start[s].id => (Recorded(n)' <=> Recorded(n))
      BY <2>6 DEF Settles, Recorded
    <3>4. start[s].id \in logs
      BY <3>1 DEF OwnersInv, ExclusiveExecution
    <3>5. RecordedLogged'
      BY <2>6, <3>3, <3>4 DEF Settles, OwnersInv, RecordedLogged
    <3>6. ExclusiveExecution'
      BY <2>2, <2>6, <2>a, <3>1, <3>2, <3>3 DEF Settles, OwnersInv, ExclusiveExecution
    <3> QED BY <3>5, <3>6 DEF OwnersInv
  <2> QED BY <2>1, <2>3, <2>4, <2>5, <2>6
<1>2. ASSUME start' = [s \in Start |-> IdleStart], logs' = logs, executions' = executions
      PROVE  OwnersInv'
  <2>1. \A s \in Start : ~ Owns(s)'
    BY <1>2 DEF Owns, IdleStart
  <2> QED BY <1>2, <2>1 DEF OwnersInv, RecordedLogged, ExclusiveExecution, Recorded
<1>3. ASSUME start' = start, logs' = logs, executions' = executions PROVE OwnersInv'
  BY <1>3 DEF OwnersInv, RecordedLogged, ExclusiveExecution, Recorded, Owns
<1> QED BY <1>1, <1>2, <1>3, StepCases, OthersEffect

LEMMA InitShape == Init => StartShape /\ OwnersInv
<1> SUFFICES ASSUME Init PROVE StartShape /\ OwnersInv
  OBVIOUS
<1>1. StartShape
  BY DEF Init, TaskInit, StartShape, IdleStart, Early, Owning
<1>2. RecordedLogged
  BY DEF Init, TaskInit, RecordedLogged, Recorded
<1>3. ExclusiveExecution
  BY DEF Init, ExclusiveExecution, Owns, IdleStart
<1> QED BY <1>1, <1>2, <1>3 DEF OwnersInv

\* Requests that read the same next id settle it on the log's creation, and the
\* winner keeps it to itself until its outcome is on record (execution.go).
THEOREM OwnersExclusive == Spec => []ExclusiveExecution
<1>1. OwnersInv => ExclusiveExecution
  BY DEF OwnersInv
<1> QED BY <1>1, InitShape, ShapeKept, OwnersKept, PTL DEF Spec

-----------------------------------------------------------------------------
\* A locked session is taken only when its executor is not busy, and every
\* request that runs keeps its executor busy: ErrRunInProgress is never late.
THEOREM SessionsExclusive == Spec => []OneRunPerSession
<1>1. Init => OneRunPerSession
  <2>1. IdleStart.pc = "idle"
    BY DEF IdleStart
  <2> QED BY <2>1 DEF Init, OneRunPerSession
<1>2. StartShape /\ OneRunPerSession /\ [Next]_vars => OneRunPerSession'
  <2> SUFFICES ASSUME StartShape, OneRunPerSession, [Next]_vars PROVE OneRunPerSession'
    OBVIOUS
  <2>1. ASSUME NEW s \in Start, StartStep(s) PROVE OneRunPerSession'
    <3>1. Own(s)
      BY <2>1, RequestEffect
    <3>2. \A other \in Start : other # s => start'[other] = start[other]
      BY <3>1 DEF StartShape, Own
    <3>3. CASE start'[s].pc # "running"
      BY <3>2, <3>3 DEF OneRunPerSession
    <3>4. CASE start'[s].pc = "running"
      <4>1. StartRun(s)
        <5>a. IdleStart.pc = "idle"
          BY DEF IdleStart
        <5>1. ASSUME StartCreateLog(s) \/ StartResolveWorkspace(s) \/ StartNextExecutionID(s)
              PROVE  FALSE
          BY <3>4, <5>1, <5>a DEF StartCreateLog, StartResolveWorkspace, StartNextExecutionID,
                Goto, Finish, End, StartShape
        <5>2. ASSUME StartResolveContinuation(s) \/ StartRecord(s) PROVE FALSE
          BY <3>4, <5>2, <5>a DEF StartResolveContinuation, StartRecord, Fork, Finish, StartShape
        <5>4. ASSUME EndRun(s) PROVE FALSE
          BY <3>4, <5>4 DEF EndRun, End, StartShape
        <5>3. ASSUME NEW executor \in Executor, StartGet(s, executor) PROVE FALSE
          BY <3>4, <5>3 DEF StartGet, StartShape
        <5>5. ASSUME StartListReviews(s) PROVE FALSE
          BY <3>4, <5>5 DEF StartListReviews, StartShape
        <5> QED BY <2>1, <5>1, <5>2, <5>3, <5>4, <5>5 DEF StartStep
      <4>2. /\ start'[s].executor = start[s].executor
            /\ start[s].executor \in SessionLocked => start[s].executor \notin busy
        BY <3>4, <4>1 DEF StartRun, Goto, End, StartShape
      <4> QED BY <3>2, <4>2 DEF OneRunPerSession, StartShape
    <3> QED BY <3>3, <3>4
  <2>2. ASSUME start' = [s \in Start |-> IdleStart] PROVE OneRunPerSession'
    BY <2>2 DEF OneRunPerSession, IdleStart
  <2>3. ASSUME start' = start PROVE OneRunPerSession'
    BY <2>3 DEF OneRunPerSession
  <2> QED BY <2>1, <2>2, <2>3, StepCases, OthersEffect
<1> QED BY <1>1, <1>2, InitShape, ShapeKept, PTL DEF Spec

-----------------------------------------------------------------------------
\* Nobody deletes a worktree behind the server's back; `by_hand` is when.
Untouched == "by_hand" \notin Hazards

\* A pass has listed attempts on record only, and the git state has the shape
\* its operations rely on.
PassInv ==
    /\ DOMAIN worktree = ExecutionId
    /\ {"pc", "stage", "force", "pushed", "tips", "todo", "clean"} \subseteq DOMAIN cleaner
    /\ \A n \in cleaner.todo : n \in ExecutionId /\ Recorded(n)

\* The attempts whose requests work in their worktrees.
Working(n) == \E s \in Start : start[s].pc \in {"workspace", "running"} /\ start[s].id = n

\* A record is never taken back.
LEMMA RecordsStay ==
  ASSUME StartShape, OwnersInv, [Next]_vars, NEW n \in ExecutionId, Recorded(n)
  PROVE  Recorded(n)'
<1>1. ASSUME NEW s \in Start, StartStep(s) PROVE Recorded(n)'
  <2>1. Waits(s) \/ Takes(s) \/ Keeps(s) \/ Settles(s)
    BY <1>1, RequestEffect
  <2>2. ASSUME Settles(s) PROVE n # start[s].id
    BY <2>2 DEF Settles, OwnersInv, ExclusiveExecution, Owns
  <2> QED BY <2>1, <2>2 DEF Waits, Takes, Keeps, Settles, Recorded
<1> QED BY <1>1, StepCases, OthersEffect DEF Recorded

\* What keeps the worktrees and branches of working attempts: an agent's work
\* and a pass over others.
Spares ==
    /\ DOMAIN worktree' = ExecutionId
    /\ \A n \in ExecutionId :
          Working(n) => /\ worktree[n] # "none" => worktree'[n] # "none"
                        /\ n \in DOMAIN branch => n \in DOMAIN branch'

LEMMA AgentWorkSpares ==
  ASSUME PassInv, NEW touched, NEW committed, NEW dirty, AgentWork(touched, committed, dirty)
  PROVE  Spares
BY ExecutionControlAssumption DEF PassInv, AgentWork, Spares

LEMMA CleanupSpares ==
  ASSUME StartShape, OwnersInv, PassInv, CleanupOne
  PROVE  Spares
<1>1. CASE UNCHANGED gitVars
  BY <1>1 DEF gitVars, Spares, PassInv
<1>2. ASSUME NEW n \in cleaner.todo, RemoveWorktree(n) PROVE Spares
  <2>1. n \in ExecutionId /\ ~ Working(n)
    BY DEF PassInv, Working, OwnersInv, ExclusiveExecution, Owns
  <2>2. DOMAIN worktree' = ExecutionId /\ \A m \in ExecutionId : m # n => worktree'[m] = worktree[m]
    BY <1>2 DEF RemoveWorktree, PassInv
  <2>3. \A m \in DOMAIN branch : m # n => m \in DOMAIN branch'
    BY <1>2 DEF RemoveWorktree, Restrict
  <2> QED BY <2>1, <2>2, <2>3 DEF Spares
<1> QED BY <1>1, <1>2 DEF CleanupOne

\* A pass lists what is on record, and only shortens its list.
LEMMA PassKept ==
  ASSUME StartShape, OwnersInv, PassInv, [Next]_vars, DOMAIN worktree' = ExecutionId
  PROVE  PassInv'
<1>1. \A n \in ExecutionId : Recorded(n) => Recorded(n)'
  BY RecordsStay
<1>2. SUFFICES /\ {"pc", "stage", "force", "pushed", "tips", "todo", "clean"} \subseteq DOMAIN cleaner'
               /\ \A n \in cleaner'.todo : n \in ExecutionId /\ Recorded(n)
  BY <1>1 DEF PassInv
<1>3. CASE cleaner' = cleaner
  BY <1>3 DEF PassInv
<1>i. /\ {"pc", "stage", "force", "pushed", "tips", "todo", "clean"} \subseteq DOMAIN IdleCleaner
      /\ IdleCleaner.todo = {}
  BY DEF IdleCleaner
<1>4. CASE cleaner' = IdleCleaner
  BY <1>4, <1>i
<1>5. ASSUME NEW stage, NEW force, BeginPass(stage, force) PROVE <1>2!1
  <2>1. PICK pushed : cleaner' = [IdleCleaner EXCEPT !.pc = "begin", !.stage = stage,
                                    !.force = force, !.pushed = pushed]
    BY <1>5 DEF BeginPass
  <2> QED BY <2>1, <1>i
<1>6. CASE CleanupStep
  <2>1. CASE CleanupList
    BY <2>1 DEF CleanupList, PassInv
  <2>2. CASE CleanupOne
    BY <2>2 DEF CleanupOne, PassInv
  <2>3. CASE CleanupReportStatus \/ CleanupComplete
    BY <2>3, <1>4 DEF CleanupReportStatus, CleanupComplete, PassInv
  <2> QED BY <1>6, <2>1, <2>2, <2>3 DEF CleanupStep
<1>7. CASE HandleMarkPRMerged \/ HandleTaskCleanup \/ SweepTask
  BY <1>3, <1>5, <1>7 DEF HandleMarkPRMerged, HandleTaskCleanup, SweepTask
<1>8. CASE \/ \E s \in Start : StartStep(s)
           \/ PushStep \/ HumanStep \/ GitHubStep \/ DeleteByHand \/ UNCHANGED vars
  <2>1. ASSUME NEW s \in Start, StartStep(s) PROVE cleaner' = cleaner
    BY <2>1 DEF StartStep, StartGet, StartListReviews, StartResolveContinuation,
       StartNextExecutionID,
          StartCreateLog, StartResolveWorkspace, StartRun, EndRun, StartRecord
  <2> QED BY <1>3, <1>8, <2>1 DEF PushStep, PushGet, PushListExecutions, PushAndOpenPR, PushRecord, HumanStep,
             GitHubStep, DeleteByHand, vars
<1>9. CASE Crash
  BY <1>4, <1>9 DEF Crash
<1> QED BY <1>6, <1>7, <1>8, <1>9, StepCases

\* The branch a workspace forks is added to the branches there are.
LEMMA ForkedBranch ==
  ASSUME NEW n, NEW f, branch' = PointRef(branch, n, f)
  PROVE  n \in DOMAIN branch' /\ \A m \in DOMAIN branch : m \in DOMAIN branch'
BY DEF PointRef

\* A request's step: its own workspace is made before it counts as working, and
\* nobody else's is touched.
LEMMA RequestKeepsWorkspaces ==
  ASSUME StartShape, PassInv, RunKeepsWorkspace, NEW s \in Start, StartStep(s)
  PROVE  DOMAIN worktree' = ExecutionId /\ RunKeepsWorkspace'
<1> DEFINE Goal == DOMAIN worktree' = ExecutionId /\ RunKeepsWorkspace'
<1>1. Own(s) /\ (Waits(s) \/ Takes(s) \/ Keeps(s) \/ Settles(s))
  BY RequestEffect
<1>2. \A other \in Start : other # s => start'[other] = start[other]
  BY <1>1 DEF StartShape, Own
<1>a. \A other \in Start :
         start[other].pc \in {"workspace", "running"} => start[other].id \in ExecutionId
  BY DEF StartShape, Owning
<1>3. ASSUME Spares,
             start'[s].pc \in {"workspace", "running"} =>
                start[s].pc \in {"workspace", "running"} /\ start'[s].id = start[s].id
      PROVE  Goal
  BY <1>2, <1>3, <1>a DEF Spares, Working, RunKeepsWorkspace
<1>4. UNCHANGED gitVars => Spares
  BY DEF gitVars, Spares, PassInv
<1>i. IdleStart.pc = "idle"
  BY DEF IdleStart
<1>5. CASE \/ StartCreateLog(s) \/ StartNextExecutionID(s) \/ StartListReviews(s)
           \/ \E e \in Executor : StartGet(s, e)
  <2>1. UNCHANGED gitVars
    BY <1>5 DEF StartCreateLog, StartNextExecutionID, StartGet, StartListReviews
  <2>2. start[s].pc \in Early
    BY <1>5 DEF StartCreateLog, StartNextExecutionID, StartGet, StartListReviews, Early
  <2>3. start'[s].pc \notin {"workspace", "running"}
    BY <1>1, <2>2 DEF Waits, Takes, Keeps, Settles, Early, Owning
  <2> QED BY <1>3, <1>4, <2>1, <2>3
<1>6. CASE StartResolveContinuation(s) \/ StartRecord(s)
  <2>1. UNCHANGED gitVars
    BY <1>6 DEF StartResolveContinuation, StartRecord
  <2>2. start'[s].pc \notin {"workspace", "running"}
    <3>1. ASSUME NEW fork, Fork(s, fork) PROVE start'[s].pc = "resolved"
      BY <3>1 DEF Fork, StartShape
    <3>2. ASSUME Finish(s) PROVE start'[s].pc = "idle"
      BY <3>2, <1>i DEF Finish, StartShape
    <3> QED BY <1>6, <3>1, <3>2 DEF StartResolveContinuation, StartRecord
  <2> QED BY <1>3, <1>4, <2>1, <2>2
<1>7. CASE StartResolveWorkspace(s)
  <2>1. start[s].id \in ExecutionId
    BY <1>7 DEF StartResolveWorkspace, StartShape, Owning
  <2>2. ASSUME ResolveExecutionWorkspace(start[s].id, start[s].fork), Goto(s, "workspace")
        PROVE  Goal
    <3>1. start'[s].id = start[s].id
      BY <2>2 DEF Goto, StartShape
    <3>2. /\ DOMAIN worktree' = ExecutionId /\ worktree'[start[s].id] = "clean"
          /\ \A n \in ExecutionId : n # start[s].id => worktree'[n] = worktree[n]
      BY <2>1, <2>2 DEF ResolveExecutionWorkspace, PassInv
    <3>3. /\ start[s].id \in DOMAIN branch'
          /\ \A m \in DOMAIN branch : m \in DOMAIN branch'
      BY <2>2, ForkedBranch DEF ResolveExecutionWorkspace
    <3> QED BY <1>2, <1>a, <3>1, <3>2, <3>3 DEF RunKeepsWorkspace
  <2>3. ASSUME FailToResolveWorkspace(start[s].id, start[s].fork),
               End(s, "failure", NoWorkspaceOutput)
        PROVE  Goal
    <3>1. worktree' = worktree
      BY <2>3 DEF FailToResolveWorkspace
    <3>2. \A m \in DOMAIN branch : m \in DOMAIN branch'
      BY <2>3, ForkedBranch DEF FailToResolveWorkspace
    <3>3. Spares
      BY <3>1, <3>2 DEF Spares, PassInv
    <3>4. start'[s].pc = "ended"
      BY <2>3 DEF End, StartShape
    <3> QED BY <1>3, <3>3, <3>4
  <2> QED BY <1>7, <2>2, <2>3 DEF StartResolveWorkspace
<1>8. CASE StartRun(s)
  <2>1. UNCHANGED gitVars /\ start[s].pc = "workspace"
    BY <1>8 DEF StartRun
  <2>2. start'[s].id = start[s].id
    BY <1>1, <2>1 DEF Waits, Takes, Keeps, Settles, Early
  <2> QED BY <1>3, <1>4, <2>1, <2>2
<1>9. CASE EndRun(s)
  <2>1. Spares
    BY <1>9, AgentWorkSpares DEF EndRun
  <2>2. start'[s].pc = "ended"
    BY <1>9 DEF EndRun, End, StartShape
  <2> QED BY <1>3, <2>1, <2>2
<1> QED BY <1>5, <1>6, <1>7, <1>8, <1>9 DEF StartStep

\* The other steps: a pass spares who works, a crash ends everybody.
LEMMA OthersKeepWorkspaces ==
  ASSUME Untouched, StartShape, OwnersInv, PassInv, RunKeepsWorkspace,
         \/ PushStep \/ HandleMarkPRMerged \/ HandleTaskCleanup \/ SweepTask \/ CleanupStep
         \/ HumanStep \/ GitHubStep \/ DeleteByHand \/ Crash \/ UNCHANGED vars
  PROVE  DOMAIN worktree' = ExecutionId /\ RunKeepsWorkspace'
<1> DEFINE Goal == DOMAIN worktree' = ExecutionId /\ RunKeepsWorkspace'
<1>a. \A s \in Start : start[s].pc \in {"workspace", "running"} => start[s].id \in ExecutionId
  BY DEF StartShape, Owning
<1>1. ASSUME Spares, start' = start PROVE Goal
  BY <1>1, <1>a DEF Spares, Working, RunKeepsWorkspace
<1>2. worktree' = worktree /\ branch' = branch => Spares
  BY DEF Spares, PassInv
<1>3. CASE PushStep
  <2>1. worktree' = worktree /\ branch' = branch /\ start' = start
    BY <1>3 DEF PushStep, PushGet, PushListExecutions, PushAndOpenPR, PushRecord, PushOntoPR,
       PushNothingOntoPR, gitVars
  <2> QED BY <1>1, <1>2, <2>1
<1>4. CASE HandleMarkPRMerged \/ HandleTaskCleanup \/ SweepTask \/ HumanStep \/ GitHubStep
           \/ UNCHANGED vars
  <2>1. worktree' = worktree /\ branch' = branch /\ start' = start
    BY <1>4 DEF HandleMarkPRMerged, HandleTaskCleanup, SweepTask, HumanStep, GitHubStep,
                SettlePR, vars, gitVars
  <2> QED BY <1>1, <1>2, <2>1
<1>5. CASE CleanupStep
  <2>1. start' = start
    BY <1>5 DEF CleanupStep, CleanupList, CleanupOne, CleanupReportStatus, CleanupComplete
  <2>2. CleanupOne \/ UNCHANGED gitVars
    BY <1>5 DEF CleanupStep, CleanupList, CleanupReportStatus, CleanupComplete
  <2> QED BY <1>1, <1>2, <2>1, <2>2, CleanupSpares DEF gitVars
<1>6. CASE DeleteByHand
  BY <1>6 DEF DeleteByHand, Untouched
<1>7. CASE Crash
  <2>1. start' = [s \in Start |-> IdleStart] /\ IdleStart.pc = "idle"
    BY <1>7 DEF Crash, IdleStart
  <2>2. Spares
    BY <1>7, AgentWorkSpares DEF Crash
  <2> QED BY <2>1, <2>2 DEF RunKeepsWorkspace, Spares
<1> QED BY <1>3, <1>4, <1>5, <1>6, <1>7

\* No pass, push, crash or other request takes the worktree or the branch from
\* under a run (runCleanupPass lists recorded attempts, and a run's is not yet).
THEOREM WorkspacesKept ==
  ASSUME Untouched
  PROVE  Spec => []RunKeepsWorkspace
<1> DEFINE WorkInv == PassInv /\ RunKeepsWorkspace
<1>1. Init => WorkInv
  <2> SUFFICES ASSUME Init PROVE WorkInv
    OBVIOUS
  <2>1. IdleStart.pc = "idle"
    BY DEF IdleStart
  <2>2. PassInv
    BY ExecutionControlAssumption DEF Init, GitInit, PassInv, IdleCleaner
  <2> QED BY <2>1, <2>2 DEF Init, RunKeepsWorkspace
<1>2. StartShape /\ OwnersInv /\ WorkInv /\ [Next]_vars => WorkInv'
  <2> SUFFICES ASSUME StartShape, OwnersInv, WorkInv, [Next]_vars PROVE WorkInv'
    OBVIOUS
  <2>1. DOMAIN worktree' = ExecutionId /\ RunKeepsWorkspace'
    <3>1. ASSUME NEW s \in Start, StartStep(s)
          PROVE  DOMAIN worktree' = ExecutionId /\ RunKeepsWorkspace'
      BY <3>1, RequestKeepsWorkspaces
    <3> QED BY <3>1, StepCases, OthersKeepWorkspaces, Untouched
  <2> QED BY <2>1, PassKept
<1>3. WorkInv => RunKeepsWorkspace
  OBVIOUS
<1> QED BY <1>1, <1>2, <1>3, InitShape, ShapeKept, OwnersKept, PTL DEF Spec

-----------------------------------------------------------------------------
(* The requests' records, field by field.                                  *)

Phases == Early \union Owning

RequestRecord ==
    [pc : Phases, executor : Executor \union {""}, hadPR : BOOLEAN,
     fork : 0..MaxExecution, feedback : 0..MaxReview, id : 0..MaxExecution,
     status : Status \union {"none"}, output : AttemptOutput]

StartsTyped == start \in [Start -> RequestRecord]

LEMMA IdleIsRequest == IdleStart \in RequestRecord /\ NoWorkspaceOutput \in AttemptOutput
<1>1. NoWorkspaceOutput \in AttemptOutput
  BY TaskStoreAssumption DEF NoWorkspaceOutput, AttemptOutput
<1> QED
  BY <1>1, TaskStoreAssumption DEF IdleStart, RequestRecord, Phases, Early

LEMMA FeedbackNumber ==
  /\ IdleStart.feedback = 0
  /\ StartsTyped => \A s \in Start : start[s].feedback \in 0..MaxReview
  /\ StartsTyped => \A s \in Start : start[s].feedback \in Nat
<1>1. IdleStart.feedback = 0
  BY DEF IdleStart
<1>2. ASSUME StartsTyped, NEW s \in Start PROVE start[s].feedback \in 0..MaxReview
  <2>1. start[s] \in RequestRecord
    BY <1>2 DEF StartsTyped
  <2> QED
    BY <2>1 DEF RequestRecord
<1>3. \A k \in 0..MaxReview : k \in Nat
  BY TaskStoreAssumption
<1> QED
  BY <1>1, <1>2, <1>3

LEMMA GotoEffect ==
  ASSUME StartsTyped, NEW s \in Start, NEW pc \in Phases, Goto(s, pc)
  PROVE  /\ StartsTyped'
         /\ start'[s].pc = pc /\ start'[s].executor = start[s].executor
         /\ start'[s].fork = start[s].fork /\ start'[s].feedback = start[s].feedback
         /\ start'[s].id = start[s].id /\ start'[s].status = start[s].status
         /\ start'[s].output = start[s].output
         /\ \A other \in Start : other # s => start'[other] = start[other]
<1> DEFINE q == [start[s] EXCEPT !.pc = pc]
<1>1. start[s] \in RequestRecord
  BY DEF StartsTyped
<1>2. /\ q \in RequestRecord
      /\ q.pc = pc /\ q.executor = start[s].executor
      /\ q.fork = start[s].fork /\ q.feedback = start[s].feedback
      /\ q.id = start[s].id /\ q.status = start[s].status /\ q.output = start[s].output
  BY <1>1 DEF RequestRecord
<1>3. start' = [start EXCEPT ![s] = q]
  BY DEF Goto
<1> HIDE DEF q
<1> QED
  BY <1>2, <1>3 DEF StartsTyped

LEMMA FinishEffect ==
  ASSUME StartsTyped, NEW s \in Start, Finish(s)
  PROVE  /\ StartsTyped' /\ start'[s] = IdleStart
         /\ \A other \in Start : other # s => start'[other] = start[other]
BY IdleIsRequest DEF Finish, StartsTyped

LEMMA ListEffect ==
  ASSUME StartsTyped, NEW s \in Start, StartListReviews(s), NeedsChanges \in 0..MaxReview
  PROVE  /\ StartsTyped'
         /\ start'[s].pc = "reviewed" /\ start'[s].feedback = NeedsChanges
         /\ start'[s].executor = start[s].executor
         /\ \A other \in Start : other # s => start'[other] = start[other]
<1> DEFINE q == [start[s] EXCEPT !.pc = "reviewed", !.feedback = NeedsChanges]
<1>1. start[s] \in RequestRecord
  BY DEF StartsTyped
<1>2. /\ q \in RequestRecord
      /\ q.pc = "reviewed" /\ q.feedback = NeedsChanges /\ q.executor = start[s].executor
  BY <1>1 DEF RequestRecord, Phases, Early
<1>3. start' = [start EXCEPT ![s] = q]
  BY DEF StartListReviews
<1> HIDE DEF q
<1> QED
  BY <1>2, <1>3 DEF StartsTyped

LEMMA ForkEffect ==
  ASSUME StartsTyped, NEW s \in Start, NEW fork \in 0..MaxExecution, Fork(s, fork)
  PROVE  /\ StartsTyped'
         /\ start'[s].pc = "resolved" /\ start'[s].fork = fork
         /\ start'[s].feedback = start[s].feedback /\ start'[s].executor = start[s].executor
         /\ \A other \in Start : other # s => start'[other] = start[other]
<1> DEFINE q == [start[s] EXCEPT !.pc = "resolved", !.fork = fork]
<1>1. start[s] \in RequestRecord
  BY DEF StartsTyped
<1>2. /\ q \in RequestRecord
      /\ q.pc = "resolved" /\ q.fork = fork /\ q.feedback = start[s].feedback
      /\ q.executor = start[s].executor
  BY <1>1 DEF RequestRecord, Phases, Early
<1>3. start' = [start EXCEPT ![s] = q]
  BY DEF Fork
<1> HIDE DEF q
<1> QED
  BY <1>2, <1>3 DEF StartsTyped

LEMMA EndEffect ==
  ASSUME StartsTyped, NEW s \in Start, NEW status \in Status, NEW output \in AttemptOutput,
         End(s, status, output)
  PROVE  /\ StartsTyped'
         /\ start'[s].pc = "ended" /\ start'[s].status = status /\ start'[s].output = output
         /\ start'[s].id = start[s].id /\ start'[s].executor = start[s].executor
         /\ start'[s].fork = start[s].fork /\ start'[s].feedback = start[s].feedback
         /\ \A other \in Start : other # s => start'[other] = start[other]
<1> DEFINE q == [start[s] EXCEPT !.pc = "ended", !.status = status, !.output = output]
<1>1. start[s] \in RequestRecord
  BY DEF StartsTyped
<1>2. /\ q \in RequestRecord
      /\ q.pc = "ended" /\ q.status = status /\ q.output = output /\ q.id = start[s].id
      /\ q.executor = start[s].executor
      /\ q.fork = start[s].fork /\ q.feedback = start[s].feedback
  BY <1>1 DEF RequestRecord, Phases, Owning
<1>3. start' = [start EXCEPT ![s] = q]
  BY DEF End
<1> HIDE DEF q
<1> QED
  BY <1>2, <1>3 DEF StartsTyped

LEMMA GetEffect ==
  ASSUME StartsTyped, NEW s \in Start, NEW executor \in Executor, StartGet(s, executor)
  PROVE  /\ StartsTyped' /\ start'[s].pc = "got" /\ start'[s].executor = executor
         /\ start'[s].feedback = start[s].feedback
         /\ \A other \in Start : other # s => start'[other] = start[other]
<1> DEFINE hadPR == task.pullRequest # NoPullRequest
           q == [start[s] EXCEPT !.pc = "got", !.executor = executor, !.hadPR = hadPR]
<1>1. start[s] \in RequestRecord
  BY DEF StartsTyped
<1>a. hadPR \in BOOLEAN
  OBVIOUS
<1>3. start' = [start EXCEPT ![s] = q]
  BY DEF StartGet
<1> HIDE DEF hadPR
<1>2. /\ q \in RequestRecord /\ q.pc = "got" /\ q.executor = executor
      /\ q.feedback = start[s].feedback
  BY <1>1, <1>a DEF RequestRecord, Phases, Early
<1> HIDE DEF q
<1> QED
  BY <1>2, <1>3 DEF StartsTyped

LEMMA ChooseEffect ==
  ASSUME StartsTyped, NEW s \in Start, NEW n \in ExecutionId,
         start' = [start EXCEPT ![s].pc = "chosen", ![s].id = n]
  PROVE  /\ StartsTyped'
         /\ start'[s].pc = "chosen" /\ start'[s].id = n
         /\ start'[s].executor = start[s].executor
         /\ start'[s].fork = start[s].fork /\ start'[s].feedback = start[s].feedback
         /\ \A other \in Start : other # s => start'[other] = start[other]
<1> DEFINE q == [start[s] EXCEPT !.pc = "chosen", !.id = n]
<1>1. start[s] \in RequestRecord
  BY DEF StartsTyped
<1>2. /\ q \in RequestRecord
      /\ q.pc = "chosen" /\ q.id = n /\ q.executor = start[s].executor
      /\ q.fork = start[s].fork /\ q.feedback = start[s].feedback
  <2>1. n \in 0..MaxExecution
    BY TaskStoreAssumption DEF ExecutionId
  <2> QED
    BY <1>1, <2>1 DEF RequestRecord, Phases, Early
<1>3. start' = [start EXCEPT ![s] = q]
  OBVIOUS
<1> HIDE DEF q
<1> QED
  BY <1>2, <1>3 DEF StartsTyped

LEMMA OutputTyped ==
  ASSUME StartsTyped, NEW s \in Start, NEW committed \in BOOLEAN
  PROVE  /\ OutputOf(s, committed) \in AttemptOutput
         /\ OutputOf(s, committed).branch = start[s].id
BY DEF StartsTyped, RequestRecord, OutputOf, AttemptOutput

-----------------------------------------------------------------------------
(* The handlers as clients of the store.                                   *)

\* Ids are handed out without gaps: the one a request chose is the next, or is
\* taken by now.
Numbered ==
    /\ \A n \in logs : \A m \in 1..n : m \in logs
    /\ \A s \in Start : start[s].pc \in {"chosen"} \union Owning =>
          start[s].id = 1 \/ start[s].id - 1 \in logs

\* A request that began has read plan.yaml, and names its executor.
Planned ==
    \A s \in Start : start[s].pc # "idle" => "plan" \in docs /\ start[s].executor \in Executor

\* A review is of an execution on record, or of none.
ReviewsFit ==
    /\ Len(reviews) <= MaxReview
    /\ \A r \in 1..Len(reviews) : reviews[r].execution # 0 => Recorded(reviews[r].execution)

\* The verdict a request was told to answer is on record.
FeedbackFits == \A s \in Start : start[s].feedback <= Len(reviews)

\* The pull requests the task and the push request name are GitHub's.
PRsFit ==
    /\ Len(prs) <= MaxPR
    /\ task.pullRequest <= Len(prs)
    /\ push.pr <= Len(prs)
    /\ push.pc = "pushed" => push.pr # 0

PushTyped == push \in [pc : {"idle", "got", "read", "pushed"}, new : 0..MaxExecution, pr : 0..MaxPR]

CleanerTyped ==
    cleaner \in [pc : {"idle", "begin", "removing", "reported"},
                 stage : {"", "cleanup", "completed"}, force : BOOLEAN,
                 pushed : 0..MaxExecution,
                 tips : SUBSET SUBSET ExecutionId, todo : SUBSET ExecutionId, clean : BOOLEAN]

HandlersTyped == GitTypeOK /\ StartsTyped /\ busy \subseteq Executor /\ PushTyped /\ CleanerTyped

ControlInv ==
    /\ TypeOK /\ HandlersTyped
    /\ StartShape /\ OwnersInv
    /\ Numbered /\ Planned /\ ReviewsFit /\ FeedbackFits /\ PRsFit

LEMMA TypesSplit == ControlTypeOK <=> TypeOK /\ HandlersTyped
BY DEF ControlTypeOK, HandlersTyped, StartsTyped, RequestRecord, Phases, Early, Owning,
       PushTyped, CleanerTyped

\* The id a request chose, if no log has taken it, is still the next.
LEMMA ChosenIsNext ==
  ASSUME TypeOK, OwnersInv, Numbered, NEW s \in Start, start[s].pc = "chosen",
         start[s].id \in ExecutionId, start[s].id \notin logs
  PROVE  IsNextExecutionID(start[s].id)
<1> DEFINE n == start[s].id
           taken == logs \union {m \in ExecutionId : Recorded(m)}
<1>1. taken = logs
  BY DEF OwnersInv, RecordedLogged, TypeOK
<1>2. n = 1 \/ n - 1 \in logs
  BY DEF Numbered
<1>3. \A m \in logs : m < n
  <2> TAKE m \in logs
  <2>1. m \in ExecutionId /\ n \in ExecutionId
    BY DEF TypeOK
  <2>2. ~ n \in 1..m
    BY DEF Numbered
  <2> QED
    BY <2>1, <2>2 DEF ExecutionId
<1> QED
  BY <1>1, <1>2, <1>3 DEF IsNextExecutionID

LEMMA RequestUsesStore ==
  ASSUME ControlInv, NEW s \in Start, StartStep(s)
  PROVE  [TaskNext]_taskVars
<1> USE DEF ControlInv, HandlersTyped
<1>1. ASSUME StartCreateLog(s) PROVE [TaskNext]_taskVars
  <2>1. CASE UNCHANGED taskVars
    BY <2>1
  <2>2. CASE CreateExecutionLog(start[s].id)
    <3>1. start[s].pc = "chosen" /\ start[s].id \in ExecutionId
      BY <1>1 DEF StartCreateLog, StartShape
    <3>2. "plan" \in docs
      BY <3>1 DEF Planned
    <3>3. start[s].id \notin logs
      BY <2>2 DEF CreateExecutionLog
    <3>4. IsNextExecutionID(start[s].id)
      BY <3>1, <3>3, ChosenIsNext
    <3> QED
      BY <2>2, <3>1, <3>2, <3>4 DEF TaskNext, HandlerNext
  <2> QED
    BY <1>1, <2>1, <2>2 DEF StartCreateLog
<1>2. ASSUME StartRecord(s) PROVE [TaskNext]_taskVars
  <2>1. start[s].id \in ExecutionId /\ start[s].output \in Output
    BY <1>2, ExecutionControlAssumption
       DEF StartRecord, StartShape, Owning, StartsTyped, RequestRecord
  <2>2. ASSUME NEW done \in Landed(3), RecordSuccess(start[s].id, start[s].output, done)
        PROVE  TaskNext
    BY <2>1, <2>2 DEF TaskNext, HandlerNext
  <2>3. ASSUME RecordFailure(start[s].id, start[s].output) PROVE TaskNext
    BY <2>1, <2>3 DEF TaskNext, HandlerNext
  <2> QED
    BY <1>2, <2>2, <2>3 DEF StartRecord
<1>3. ASSUME ~ StartCreateLog(s), ~ StartRecord(s) PROVE UNCHANGED taskVars
  BY <1>3 DEF StartStep, StartGet, StartListReviews, StartResolveContinuation, StartNextExecutionID,
     StartResolveWorkspace, StartRun, EndRun
<1> QED
  BY <1>1, <1>2, <1>3

LEMMA OthersUseStore ==
  ASSUME ControlInv,
         \/ PushStep \/ HandleMarkPRMerged \/ HandleTaskCleanup \/ SweepTask \/ CleanupStep
         \/ HumanStep \/ GitHubStep \/ DeleteByHand \/ Crash \/ UNCHANGED vars
  PROVE  [TaskNext]_taskVars
<1> USE DEF ControlInv, HandlersTyped
<1>1. CASE PushStep
  <2>1. ASSUME PushRecord, RecordPullRequest(push.pr) PROVE TaskNext
    <3>1. push.pr \in PullRequest
      BY <2>1, ExecutionControlAssumption, WorkspacesAssumption DEF PushRecord, PushTyped, PRsFit
    <3> QED
      BY <2>1, <3>1 DEF TaskNext, HandlerNext
  <2>2. CASE PushGet \/ PushListExecutions \/ PushAndOpenPR
    BY <2>2 DEF PushGet, PushListExecutions, PushAndOpenPR
  <2> QED
    BY <1>1, <2>1, <2>2 DEF PushStep, PushRecord
<1>2. CASE HandleMarkPRMerged
  BY <1>2 DEF HandleMarkPRMerged, TaskNext, HandlerNext
<1>3. CASE HandleTaskCleanup \/ SweepTask
  BY <1>3 DEF HandleTaskCleanup, SweepTask
<1>4. CASE CleanupStep
  <2>1. CASE CleanupReportStatus
    <3>1. PICK status \in {"clean", "parked"} : SetCleanupStatus(status)
      BY <2>1 DEF CleanupReportStatus
    <3>2. status \in CleanupReport \ {"none"}
      BY DEF CleanupReport
    <3> QED
      BY <3>1, <3>2 DEF TaskNext, HandlerNext
  <2>2. CASE CleanupComplete
    BY <2>2 DEF CleanupComplete, TaskNext, HandlerNext
  <2>3. CASE CleanupList \/ CleanupOne
    BY <2>3 DEF CleanupList, CleanupOne
  <2> QED
    BY <1>4, <2>1, <2>2, <2>3 DEF CleanupStep
<1>5. CASE HumanStep
  BY <1>5 DEF HumanStep, TaskNext
<1>6. CASE GitHubStep \/ DeleteByHand \/ Crash \/ UNCHANGED vars
  BY <1>6 DEF GitHubStep, DeleteByHand, Crash, vars
<1> QED
  BY <1>1, <1>2, <1>3, <1>4, <1>5, <1>6

LEMMA HandlersUseStore == ControlInv /\ [Next]_vars => [TaskNext]_taskVars
BY RequestUsesStore, OthersUseStore, StepCases

-----------------------------------------------------------------------------
(* What the steps do to the store's records.                               *)

LEMMA StoreTyped == TypeOK /\ [TaskNext]_taskVars => TypeOK'
<1>1. ASSUME TypeOK, UNCHANGED taskVars PROVE TypeOK'
  BY <1>1 DEF TypeOK, taskVars
<1> QED
  BY <1>1, HumanNextType, HandlerNextType DEF TaskNext

\* A verdict is on the last execution there is, in a stage that has one.
Verdict ==
    \E execution \in 0..MaxExecution, decision \in Decisions :
       /\ task.stage \in {"review", "pr_review"}
       /\ IsLastExecution(execution)
       /\ Len(reviews) < MaxReview
       /\ reviews' = Append(reviews, [execution |-> execution, decision |-> decision])
       /\ executions' = executions /\ logs' = logs

LEMMA ReviewsMove == [TaskNext]_taskVars => reviews' = reviews \/ Verdict
<1> SUFFICES ASSUME [TaskNext]_taskVars PROVE reviews' = reviews \/ Verdict
  OBVIOUS
<1>1. ASSUME NEW decision \in Decisions, NEW done, FinalizeReview(decision, done)
      PROVE  reviews' = reviews \/ Verdict
  BY <1>1 DEF FinalizeReview, RecordReview, Verdict
<1>2. CASE HumanNext
  BY <1>1, <1>2 DEF HumanNext, Create, Update, FinalizeRequirements, FinalizePlan,
     AppendKnowledgeActivity, ReviseToRequirements, ReviseToPlanning
<1>3. CASE HandlerNext
  BY <1>3 DEF HandlerNext, CreateExecutionLog, RecordFailure, RecordSuccess, RecordPullRequest,
     MarkPRMerged, SetCleanupStatus, CompleteCleanup
<1> QED
  BY <1>2, <1>3 DEF TaskNext, taskVars

LEMMA ReviewsFitKept ==
  ASSUME ControlInv, [TaskNext]_taskVars, RecordsKept
  PROVE  ReviewsFit'
<1> USE DEF ControlInv
<1>1. reviews \in Seq(Review) /\ MaxReview \in Nat
  BY TaskStoreAssumption DEF TypeOK
<1>2. \A n \in ExecutionId : Recorded(n) => Recorded(n)'
  BY DEF RecordsKept, Recorded
<1>3. \A r \in 1..Len(reviews) : reviews[r].execution \in 0..MaxExecution
  <2>1. \A r \in 1..Len(reviews) : reviews[r] \in Review
    BY <1>1
  <2> QED
    BY <2>1 DEF Review
<1>4. CASE reviews' = reviews
  BY <1>2, <1>3, <1>4 DEF ReviewsFit, ExecutionId
<1>5. CASE Verdict
  <2>1. PICK execution \in 0..MaxExecution, decision \in Decisions :
           /\ IsLastExecution(execution)
           /\ Len(reviews) < MaxReview
           /\ reviews' = Append(reviews, [execution |-> execution, decision |-> decision])
    BY <1>5 DEF Verdict
  <2>2. [execution |-> execution, decision |-> decision] \in Review
    BY DEF Review
  <2>3. /\ Len(reviews') = Len(reviews) + 1
        /\ reviews'[Len(reviews')].execution = execution
        /\ \A r \in 1..Len(reviews) : reviews'[r] = reviews[r]
    BY <1>1, <2>1, <2>2
  <2>4. execution # 0 => executions'[execution] # NoExecution /\ execution \in ExecutionId
    BY <1>2, <2>1 DEF IsLastExecution, ExecutionId, Recorded
  <2>5. ASSUME NEW r \in 1..Len(reviews'), reviews'[r].execution # 0
        PROVE  executions'[reviews'[r].execution] # NoExecution
    <3>1. CASE r = Len(reviews')
      BY <2>3, <2>4, <2>5, <3>1
    <3>2. CASE r # Len(reviews')
      <4>1. r \in 1..Len(reviews) /\ reviews'[r] = reviews[r]
        BY <1>1, <2>3, <3>2
      <4>2. reviews[r].execution \in ExecutionId /\ Recorded(reviews[r].execution)
        BY <1>3, <2>5, <4>1 DEF ReviewsFit, ExecutionId
      <4> QED
        BY <1>2, <4>1, <4>2 DEF Recorded
    <3> QED
      BY <3>1, <3>2
  <2>6. Len(reviews') <= MaxReview
    BY <1>1, <2>1, <2>3
  <2> QED
    BY <2>5, <2>6 DEF ReviewsFit, Recorded
<1> QED
  BY <1>4, <1>5, ReviewsMove

LEMMA NumberedKept ==
  ASSUME ControlInv, [Next]_vars
  PROVE  Numbered'
<1> USE DEF ControlInv, Early, Owning
<1>1. ASSUME NEW s \in Start, StartStep(s) PROVE Numbered'
  <2>1. Own(s) /\ (Waits(s) \/ Takes(s) \/ Keeps(s) \/ Settles(s))
    BY <1>1, RequestEffect
  <2>2. \A other \in Start : other # s => start'[other] = start[other]
    BY <2>1 DEF StartShape, Own
  <2>3. logs \subseteq logs'
    BY <2>1 DEF Waits, Takes, Keeps, Settles
  <2>4. start'[s].pc \in {"chosen"} \union Owning =>
           start'[s].id = 1 \/ start'[s].id - 1 \in logs
    <3>1. CASE StartNextExecutionID(s)
      <4>1. PICK n \in ExecutionId : IsNextExecutionID(n) /\
               start' = [start EXCEPT ![s].pc = "chosen", ![s].id = n]
        BY <3>1 DEF StartNextExecutionID
      <4>2. start'[s].id = n
        BY <4>1, ChooseEffect DEF HandlersTyped
      <4>3. logs \union {m \in ExecutionId : Recorded(m)} = logs
        BY DEF OwnersInv, RecordedLogged, TypeOK
      <4> QED
        BY <4>1, <4>2, <4>3 DEF IsNextExecutionID
    <3>2. CASE Takes(s) \/ Keeps(s) \/ Settles(s)
      BY <3>2 DEF Takes, Keeps, Settles, Numbered
    <3>3. CASE Waits(s) /\ ~ StartNextExecutionID(s)
      <4>1. start'[s].pc # "chosen"
        <5>1. CASE StartCreateLog(s)
          <6>1. ASSUME Goto(s, "logged") PROVE start'[s].pc = "logged"
            BY <6>1 DEF Goto, StartShape
          <6>2. ASSUME Finish(s) PROVE start'[s].pc = "idle"
            BY <6>2 DEF Finish, StartShape, IdleStart
          <6> QED
            BY <5>1, <6>1, <6>2 DEF StartCreateLog
        <5>2. CASE StartResolveContinuation(s)
          <6>1. ASSUME NEW fork, Fork(s, fork) PROVE start'[s].pc = "resolved"
            BY <6>1 DEF Fork, StartShape
          <6>2. ASSUME Finish(s) PROVE start'[s].pc = "idle"
            BY <6>2 DEF Finish, StartShape, IdleStart
          <6> QED
            BY <5>2, <6>1, <6>2 DEF StartResolveContinuation
        <5>3. ASSUME NEW executor \in Executor, StartGet(s, executor)
              PROVE  start'[s].pc # "chosen"
          BY <5>3, GetEffect DEF HandlersTyped
        <5>4. start[s].pc \in Early
          BY <3>3 DEF Waits
        <5>5. ASSUME StartListReviews(s) PROVE start'[s].pc # "chosen"
          BY <5>5 DEF StartListReviews, StartShape
        <5> QED
          BY <1>1, <3>3, <5>1, <5>2, <5>3, <5>4, <5>5
             DEF StartStep, StartResolveWorkspace, StartRun, EndRun, StartRecord
      <4> QED
        BY <3>3, <4>1 DEF Waits
    <3> QED
      BY <2>1, <3>1, <3>2, <3>3
  <2>5. \A n \in logs' : \A m \in 1..n : m \in logs'
    <3>1. CASE Takes(s)
      <4>1. /\ logs' = logs \union {start[s].id} /\ start[s].id \in ExecutionId
            /\ start[s].id = 1 \/ start[s].id - 1 \in logs
        BY <3>1 DEF Takes, StartShape, Numbered
      <4>2. \A m \in 1..start[s].id : m = start[s].id \/ m \in 1..(start[s].id - 1)
        BY <4>1 DEF ExecutionId
      <4> QED
        BY <4>1, <4>2 DEF Numbered, ExecutionId
    <3>2. CASE logs' = logs
      BY <3>2 DEF Numbered
    <3> QED
      BY <2>1, <3>1, <3>2 DEF Waits, Keeps, Settles
  <2> QED
    BY <2>2, <2>3, <2>4, <2>5 DEF Numbered
<1>2. ASSUME start' = [s \in Start |-> IdleStart], logs' = logs PROVE Numbered'
  BY <1>2 DEF Numbered, IdleStart
<1>3. ASSUME start' = start, logs' = logs PROVE Numbered'
  BY <1>3 DEF Numbered
<1> QED
  BY <1>1, <1>2, <1>3, StepCases, OthersEffect

LEMMA RequestExecutor ==
  ASSUME ControlInv, NEW s \in Start, StartStep(s), start'[s].pc # "idle"
  PROVE  start'[s].executor \in Executor
<1> USE DEF ControlInv, HandlersTyped
<1>1. ASSUME NEW executor \in Executor, StartGet(s, executor)
      PROVE  start'[s].executor \in Executor
  BY <1>1, GetEffect
<1>2. ASSUME start[s].pc # "idle", start'[s].executor = start[s].executor
      PROVE  start'[s].executor \in Executor
  BY <1>2 DEF Planned
<1>3. ~ Finish(s)
  <2>1. IdleStart.pc = "idle"
    BY DEF IdleStart
  <2> QED
    BY <2>1, FinishEffect
<1>4. CASE StartResolveContinuation(s)
  <2>1. PICK fork : Fork(s, fork)
    BY <1>3, <1>4 DEF StartResolveContinuation
  <2>2. start'[s].executor = start[s].executor
    BY <2>1 DEF Fork, StartShape
  <2> QED
    BY <1>2, <1>4, <2>2 DEF StartResolveContinuation
<1>5. CASE StartNextExecutionID(s)
  BY <1>2, <1>5, ChooseEffect DEF StartNextExecutionID
<1>8. CASE StartListReviews(s)
  <2>1. start'[s].executor = start[s].executor
    BY <1>8 DEF StartListReviews, StartShape
  <2> QED
    BY <1>2, <1>8, <2>1 DEF StartListReviews
<1>6. CASE StartCreateLog(s) \/ StartResolveWorkspace(s) \/ StartRun(s) \/ EndRun(s)
  <2>1. (\E pc : Goto(s, pc)) \/ \E status, output : End(s, status, output)
    BY <1>3, <1>6 DEF StartCreateLog, StartResolveWorkspace, StartRun, EndRun
  <2>2. start'[s].executor = start[s].executor
    BY <2>1 DEF Goto, End, StartShape
  <2> QED
    BY <1>2, <1>6, <2>2 DEF StartCreateLog, StartResolveWorkspace, StartRun, EndRun
<1>7. ~ StartRecord(s)
  BY <1>3 DEF StartRecord
<1> QED
  BY <1>1, <1>4, <1>5, <1>6, <1>7, <1>8 DEF StartStep

LEMMA PlannedKept ==
  ASSUME ControlInv, [Next]_vars, RecordsKept
  PROVE  Planned'
<1> USE DEF ControlInv, Early, Owning
<1>0. docs \subseteq docs'
  BY DEF RecordsKept
<1>1. ASSUME NEW s \in Start, StartStep(s) PROVE Planned'
  <2>1. \A other \in Start : other # s => start'[other] = start[other]
    BY <1>1, RequestEffect DEF StartShape, Own
  <2>2. "plan" \in docs
    <3>1. start[s].pc = "idle" => \E executor \in Executor : StartGet(s, executor)
      BY <1>1 DEF StartStep, StartListReviews, StartResolveContinuation, StartNextExecutionID,
         StartCreateLog, StartResolveWorkspace, StartRun, EndRun, StartRecord
    <3> QED
      BY <3>1 DEF StartGet, Planned
  <2>3. start'[s].pc # "idle" => start'[s].executor \in Executor
    BY <1>1, RequestExecutor
  <2> QED
    BY <1>0, <2>1, <2>2, <2>3 DEF Planned
<1>2. ASSUME start' = [s \in Start |-> IdleStart] PROVE Planned'
  BY <1>2 DEF Planned, IdleStart
<1>3. ASSUME start' = start PROVE Planned'
  BY <1>0, <1>3 DEF Planned
<1> QED
  BY <1>1, <1>2, <1>3, StepCases, OthersEffect

-----------------------------------------------------------------------------
(* Pull requests: the task, the push request and GitHub.                   *)

LEMMA WritePullRequest ==
  ASSUME NEW landed, NEW t, WriteTask(landed, t)
  PROVE  task'.pullRequest \in {t.pullRequest, task.pullRequest, NoPullRequest}
<1>1. \A stage : BareTask(stage).pullRequest = NoPullRequest
  BY DEF BareTask
<1> QED
  BY <1>1 DEF WriteTask, TornTask

LEMMA AdvancePullRequest ==
  ASSUME TypeOK, NEW done, NEW at, NEW to, NEW trigger, NEW review, NEW execution,
         AdvanceStage(done, at, to, trigger, review, execution)
  PROVE  task'.pullRequest \in {task.pullRequest, NoPullRequest}
<1> DEFINE t == [task EXCEPT !.stage = to]
<1>1. t.pullRequest = task.pullRequest
  BY DEF TypeOK, Task
<1>2. WriteTask(done > at, t)
  BY DEF AdvanceStage
<1> HIDE DEF t
<1> QED
  BY <1>1, <1>2, WritePullRequest

\* Nobody but the push request puts another pull request on record.
KeepsPullRequest == task'.pullRequest \in {task.pullRequest, NoPullRequest}

LEMMA HumanKeepsPullRequest == TypeOK /\ HumanNext => KeepsPullRequest
<1> SUFFICES ASSUME TypeOK, HumanNext PROVE KeepsPullRequest
  OBVIOUS
<1> USE DEF KeepsPullRequest
<1>1. ASSUME NEW draftSession \in BOOLEAN, Create(draftSession) PROVE KeepsPullRequest
  <2> DEFINE t == [BareTask("requirements") EXCEPT !.draftSession = draftSession]
  <2>1. t.pullRequest = NoPullRequest
    BY DEF BareTask
  <2>2. WriteTask(TRUE, t)
    BY <1>1 DEF Create
  <2> HIDE DEF t
  <2> QED
    BY <2>1, <2>2, WritePullRequest
<1>2. ASSUME Update(SaveDefaultsBody) PROVE KeepsPullRequest
  <2> DEFINE t == [SaveDefaultsBody EXCEPT !.stage = task.stage]
  <2>1. t.pullRequest = NoPullRequest
    BY DEF SaveDefaultsBody, BareTask
  <2>2. WriteTask(TRUE, t)
    BY <1>2 DEF Update
  <2> HIDE DEF t
  <2> QED
    BY <2>1, <2>2, WritePullRequest
<1>3. ASSUME NEW concept \in Concept, AppendKnowledgeActivity(concept) PROVE KeepsPullRequest
  <2> DEFINE t == [task EXCEPT !.activity = Append(@, concept)]
  <2>1. t.pullRequest = task.pullRequest
    BY DEF TypeOK, Task
  <2>2. WriteTask(TRUE, t)
    BY <1>3 DEF AppendKnowledgeActivity
  <2> HIDE DEF t
  <2> QED
    BY <2>1, <2>2, WritePullRequest
<1>4. ASSUME NEW done \in Landed(3),
             \/ FinalizeRequirements(done) \/ FinalizePlan(done)
             \/ \E decision \in Decisions : FinalizeReview(decision, done)
      PROVE  KeepsPullRequest
  BY <1>4, AdvancePullRequest DEF FinalizeRequirements, FinalizePlan, FinalizeReview
<1>5. ASSUME NEW done \in Landed(2), ReviseToRequirements(done) \/ ReviseToPlanning(done)
      PROVE  KeepsPullRequest
  BY <1>5, AdvancePullRequest DEF ReviseToRequirements, ReviseToPlanning
<1> QED
  BY <1>1, <1>2, <1>3, <1>4, <1>5 DEF HumanNext

LEMMA StatusKeepsPullRequest ==
  ASSUME TypeOK, NEW status, SetCleanupStatus(status)
  PROVE  KeepsPullRequest
<1> DEFINE t == [task EXCEPT !.cleanupStatus = status]
<1>1. t.pullRequest = task.pullRequest
  BY DEF TypeOK, Task
<1>2. WriteTask(TRUE, t)
  BY DEF SetCleanupStatus
<1> HIDE DEF t
<1> QED
  BY <1>1, <1>2, WritePullRequest DEF KeepsPullRequest

LEMMA OthersKeepPullRequest ==
  ASSUME TypeOK, [Next]_vars, ~ PushRecord
  PROVE  KeepsPullRequest
<1>0. UNCHANGED taskVars => KeepsPullRequest
  BY DEF taskVars, KeepsPullRequest
<1>1. ASSUME NEW s \in Start, StartStep(s) PROVE KeepsPullRequest
  <2>1. CASE StartRecord(s)
    <3>1. ASSUME NEW done, RecordSuccess(start[s].id, start[s].output, done)
          PROVE  KeepsPullRequest
      BY <3>1, AdvancePullRequest DEF RecordSuccess, KeepsPullRequest
    <3>2. ASSUME RecordFailure(start[s].id, start[s].output) PROVE KeepsPullRequest
      BY <3>2 DEF RecordFailure, KeepsPullRequest
    <3> QED
      BY <1>0, <2>1, <3>1, <3>2 DEF StartRecord
  <2>2. CASE StartCreateLog(s)
    BY <1>0, <2>2 DEF StartCreateLog, CreateExecutionLog, KeepsPullRequest
  <2>3. ASSUME ~ StartRecord(s), ~ StartCreateLog(s) PROVE UNCHANGED taskVars
    BY <1>1, <2>3 DEF StartStep, StartGet, StartListReviews, StartResolveContinuation,
       StartNextExecutionID,
       StartResolveWorkspace, StartRun, EndRun
  <2> QED
    BY <1>0, <2>1, <2>2, <2>3
<1>2. CASE PushStep
  BY <1>0, <1>2 DEF PushStep, PushGet, PushListExecutions, PushAndOpenPR
<1>3. CASE HandleMarkPRMerged
  BY <1>3, AdvancePullRequest DEF HandleMarkPRMerged, MarkPRMerged, KeepsPullRequest
<1>4. CASE HandleTaskCleanup \/ SweepTask
  BY <1>0, <1>4 DEF HandleTaskCleanup, SweepTask
<1>5. CASE CleanupStep
  <2>1. CASE CleanupReportStatus
    BY <2>1, StatusKeepsPullRequest DEF CleanupReportStatus
  <2>2. CASE CleanupComplete
    <3>1. ASSUME NEW done, CompleteCleanup(done) PROVE KeepsPullRequest
      BY <3>1, AdvancePullRequest DEF CompleteCleanup, KeepsPullRequest
    <3> QED
      BY <1>0, <2>2, <3>1 DEF CleanupComplete
  <2>3. CASE CleanupList \/ CleanupOne
    BY <1>0, <2>3 DEF CleanupList, CleanupOne
  <2> QED
    BY <1>5, <2>1, <2>2, <2>3 DEF CleanupStep
<1>6. CASE HumanStep
  BY <1>6, HumanKeepsPullRequest DEF HumanStep
<1>7. CASE GitHubStep \/ DeleteByHand \/ Crash \/ UNCHANGED vars
  BY <1>0, <1>7 DEF GitHubStep, DeleteByHand, Crash, vars
<1> QED
  BY <1>1, <1>2, <1>3, <1>4, <1>5, <1>6, <1>7, StepCases

-----------------------------------------------------------------------------
(* The git state.                                                          *)

\* The branches of a repository and what they hold.
RefsTyped(refs) == DOMAIN refs \subseteq Attempt /\ \A n \in DOMAIN refs : refs[n] \subseteq Attempt

PullRequestRecord == [head : Attempt, state : {"open", "closed", "merged"}]

LEMMA PointRefTyped ==
  ASSUME NEW refs, RefsTyped(refs), NEW n \in Attempt, NEW tip \in SUBSET Attempt
  PROVE  RefsTyped(PointRef(refs, n, tip))
BY DEF RefsTyped, PointRef

LEMMA RestrictTyped ==
  ASSUME NEW refs, RefsTyped(refs), NEW S
  PROVE  RefsTyped(Restrict(refs, DOMAIN refs \ S))
BY DEF RefsTyped, Restrict

LEMMA GitTyped ==
  GitTypeOK <=> /\ worktree \in [Attempt -> {"none", "clean", "dirty"}]
                /\ RefsTyped(branch) /\ RefsTyped(remote) /\ withdrawn \subseteq Attempt
                /\ prs \in Seq(PullRequestRecord)
BY DEF GitTypeOK, RefsTyped, PullRequestRecord

LEMMA GitTypedNext ==
  (/\ worktree \in [Attempt -> {"none", "clean", "dirty"}]
   /\ RefsTyped(branch) /\ RefsTyped(remote) /\ withdrawn \subseteq Attempt
   /\ prs \in Seq(PullRequestRecord))' => GitTypeOK'
BY DEF GitTypeOK, RefsTyped, PullRequestRecord

LEMMA WorkspaceTyped ==
  ASSUME GitTypeOK, NEW n \in Attempt, NEW fork,
         ResolveExecutionWorkspace(n, fork) \/ FailToResolveWorkspace(n, fork)
  PROVE  GitTypeOK' /\ prs' = prs
<1>1. ForkExists(fork) => ForkRef(fork) \in SUBSET Attempt
  BY GitTyped DEF ForkExists, ForkRef, Main, RefsTyped
<1>2. ForkExists(fork) => RefsTyped(PointRef(branch, n, ForkRef(fork)))
  BY <1>1, PointRefTyped, GitTyped
<1>3. RefsTyped(branch') /\ RefsTyped(branch)
  BY <1>2, GitTyped DEF ResolveExecutionWorkspace, FailToResolveWorkspace
<1>4. worktree' \in [Attempt -> {"none", "clean", "dirty"}]
  BY GitTyped DEF ResolveExecutionWorkspace, FailToResolveWorkspace
<1>5. UNCHANGED <<remote, prs, withdrawn>>
  BY DEF ResolveExecutionWorkspace, FailToResolveWorkspace
<1>6. RefsTyped(remote') /\ withdrawn' \subseteq Attempt /\ prs' \in Seq(PullRequestRecord)
  BY <1>5, GitTyped
<1> QED
  BY <1>3, <1>4, <1>5, <1>6, GitTypedNext

LEMMA AgentWorkTyped ==
  ASSUME GitTypeOK, NEW touched, NEW committed \in SUBSET Attempt, NEW dirty,
         AgentWork(touched, committed, dirty)
  PROVE  GitTypeOK' /\ prs' = prs
<1>1. RefsTyped(branch')
  BY GitTyped DEF AgentWork, RefsTyped
<1>2. worktree' \in [Attempt -> {"none", "clean", "dirty"}]
  BY GitTyped DEF AgentWork
<1>3. UNCHANGED <<remote, prs, withdrawn>>
  BY DEF AgentWork
<1>4. RefsTyped(remote') /\ withdrawn' \subseteq Attempt /\ prs' \in Seq(PullRequestRecord)
  BY <1>3, GitTyped
<1> QED
  BY <1>1, <1>2, <1>3, <1>4, GitTypedNext

LEMMA RemovalTyped ==
  ASSUME GitTypeOK, NEW n \in Attempt, RemoveWorktree(n) \/ RemoveByHand(n)
  PROVE  GitTypeOK' /\ prs' = prs
<1>1. RefsTyped(branch')
  <2>1. RefsTyped(branch) /\ RefsTyped(Restrict(branch, DOMAIN branch \ {n}))
    BY GitTyped, RestrictTyped
  <2>2. branch' = branch \/ branch' = Restrict(branch, DOMAIN branch \ {n})
    BY DEF RemoveWorktree, RemoveByHand
  <2> QED
    BY <2>1, <2>2
<1>2. worktree' \in [Attempt -> {"none", "clean", "dirty"}]
  BY GitTyped DEF RemoveWorktree, RemoveByHand
<1>3. UNCHANGED <<remote, prs, withdrawn>>
  BY DEF RemoveWorktree, RemoveByHand
<1>4. RefsTyped(remote') /\ withdrawn' \subseteq Attempt /\ prs' \in Seq(PullRequestRecord)
  BY <1>3, GitTyped
<1> QED
  BY <1>1, <1>2, <1>3, <1>4, GitTypedNext

\* What GitHub and a push do to the pull requests: none is forgotten.
PRsGrow == Len(prs') >= Len(prs) /\ Len(prs') <= MaxPR

LEMMA SettleTyped ==
  ASSUME GitTypeOK, Len(prs) <= MaxPR, NEW pr \in 1..Len(prs), NEW state \in {"closed", "merged"},
         SettlePR(pr, state)
  PROVE  GitTypeOK' /\ PRsGrow
<1>1. prs \in Seq(PullRequestRecord) /\ MaxPR \in Nat
  BY GitTyped, WorkspacesAssumption
<1> DEFINE q == [prs[pr] EXCEPT !.state = state]
<1>2. q \in PullRequestRecord
  <2>1. prs[pr] \in PullRequestRecord
    BY <1>1
  <2> QED
    BY <2>1 DEF PullRequestRecord
<1>3. prs' = [prs EXCEPT ![pr] = q]
  BY DEF SettlePR
<1> HIDE DEF q
<1>4. prs' \in Seq(PullRequestRecord) /\ Len(prs') = Len(prs)
  BY <1>1, <1>2, <1>3
<1>5. UNCHANGED <<worktree, branch, remote, withdrawn>>
  BY DEF SettlePR
<1>6. GitTypeOK'
  BY <1>4, <1>5, GitTyped, GitTypedNext DEF RefsTyped
<1> QED
  BY <1>1, <1>4, <1>6 DEF PRsGrow

LEMMA HeadTyped ==
  ASSUME GitTypeOK, NEW pr \in 1..Len(prs)
  PROVE  prs[pr].head \in Attempt
<1>1. prs[pr] \in PullRequestRecord
  BY GitTyped
<1> QED
  BY <1>1 DEF PullRequestRecord

LEMMA BranchPushed ==
  ASSUME GitTypeOK, NEW new, NEW target \in Attempt, FastForward(new, target)
  PROVE  /\ new \in Attempt /\ branch[new] \in SUBSET Attempt
         /\ RefsTyped(PointRef(remote, target, branch[new]))
<1>1. new \in Attempt /\ branch[new] \in SUBSET Attempt
  BY GitTyped DEF FastForward, RefsTyped
<1>2. RefsTyped(remote)
  BY GitTyped
<1> QED
  BY <1>1, <1>2, PointRefTyped

LEMMA PushTypes ==
  ASSUME GitTypeOK, PushTyped, PRsFit, PushAndOpenPR
  PROVE  GitTypeOK' /\ PRsGrow /\ PushTyped'
         /\ push'.pr <= Len(prs') /\ (push'.pc = "pushed" => push'.pr # 0)
<1>1. prs \in Seq(PullRequestRecord) /\ MaxPR \in Nat /\ MaxExecution \in Nat
  BY GitTyped, WorkspacesAssumption, TaskStoreAssumption
<1>2. /\ push.new \in 0..MaxExecution /\ push.pr \in 0..MaxPR /\ push.pr <= Len(prs)
      /\ Len(prs) \in Nat /\ Len(prs) <= MaxPR
  BY <1>1 DEF PushTyped, PRsFit
<1>3. Continues(push.pr) => push.pr \in 1..Len(prs) /\ push.pr # 0
  BY <1>2 DEF Continues
<1>4. ASSUME push' = [push EXCEPT !.pc = "pushed"]
      PROVE  PushTyped' /\ push'.pr = push.pr
  BY <1>4 DEF PushTyped
<1>5. ASSUME push' = IdlePush PROVE PushTyped' /\ push'.pr = 0 /\ push'.pc = "idle"
  BY <1>1, <1>5 DEF PushTyped, IdlePush
<1>6. worktree' = worktree /\ branch' = branch
  BY DEF PushAndOpenPR, PushNothingOntoPR, PushOntoPR
<1>8. RefsTyped(remote)
  BY GitTyped
<1>9. withdrawn' \subseteq Attempt
  <2>1. withdrawn \subseteq Attempt
    BY GitTyped
  <2>2. PushNothingOntoPR(push.pr) => withdrawn' \subseteq Attempt
    BY <1>8, <2>1 DEF PushNothingOntoPR, RefsTyped
  <2> QED
    BY <2>1, <2>2 DEF PushAndOpenPR, PushOntoPR
<1>7. ASSUME RefsTyped(remote'), prs' \in Seq(PullRequestRecord) PROVE GitTypeOK'
  BY <1>6, <1>7, <1>9, GitTyped, GitTypedNext DEF RefsTyped
<1>10. ASSUME PushNothingOntoPR(push.pr), push' = [push EXCEPT !.pc = "pushed"]
       PROVE  GitTypeOK' /\ PRsGrow /\ PushTyped'
              /\ push'.pr <= Len(prs') /\ (push'.pc = "pushed" => push'.pr # 0)
  <2>1. push.pr \in 1..Len(prs) /\ push.pr # 0
    BY <1>3, <1>10 DEF PushNothingOntoPR
  <2> DEFINE state == IF prs[push.pr].state = "open" THEN "closed" ELSE prs[push.pr].state
             q == [prs[push.pr] EXCEPT !.state = state]
  <2>2. q \in PullRequestRecord
    <3>1. prs[push.pr] \in PullRequestRecord
      BY <1>1, <2>1
    <3> QED
      BY <3>1 DEF PullRequestRecord
  <2>3. prs' = [prs EXCEPT ![push.pr] = q]
    BY <1>10 DEF PushNothingOntoPR
  <2> HIDE DEF q
  <2>4. prs' \in Seq(PullRequestRecord) /\ Len(prs') = Len(prs)
    BY <1>1, <2>1, <2>2, <2>3
  <2>5. RefsTyped(remote')
    BY <1>8, <1>10, RestrictTyped DEF PushNothingOntoPR
  <2> QED
    BY <1>2, <1>4, <1>7, <1>10, <2>1, <2>4, <2>5 DEF PRsGrow
<1>11. ASSUME PushOntoPR(push.new, push.pr), push' = [push EXCEPT !.pc = "pushed"]
       PROVE  GitTypeOK' /\ PRsGrow /\ PushTyped'
              /\ push'.pr <= Len(prs') /\ (push'.pc = "pushed" => push'.pr # 0)
  <2>1. push.pr \in 1..Len(prs) /\ push.pr # 0
    BY <1>3, <1>11 DEF PushOntoPR
  <2>2. prs[push.pr].head \in Attempt
    BY <2>1, HeadTyped
  <2>3. RefsTyped(remote') /\ prs' = prs
    BY <1>11, <2>2, BranchPushed DEF PushOntoPR
  <2> QED
    BY <1>1, <1>2, <1>4, <1>7, <1>11, <2>1, <2>3 DEF PRsGrow
<1>12. ASSUME PushBranch(push.new), CreatePR(push.new),
              push' = [push EXCEPT !.pc = "pushed", !.pr = Len(prs) + 1]
       PROVE  GitTypeOK' /\ PRsGrow /\ PushTyped'
              /\ push'.pr <= Len(prs') /\ (push'.pc = "pushed" => push'.pr # 0)
  <2>1. push.new \in Attempt /\ RefsTyped(remote')
    <3>1. push.new \in Attempt
      BY <1>12, GitTyped DEF PushBranch, FastForward, RefsTyped
    <3> QED
      BY <1>12, <3>1, BranchPushed DEF PushBranch
  <2>2. [head |-> push.new, state |-> "open"] \in PullRequestRecord
    BY <2>1 DEF PullRequestRecord
  <2>3. prs' = Append(prs, [head |-> push.new, state |-> "open"]) /\ Len(prs) < MaxPR
    BY <1>12 DEF CreatePR
  <2>4. prs' \in Seq(PullRequestRecord) /\ Len(prs') = Len(prs) + 1
    BY <1>1, <2>2, <2>3
  <2>5. PushTyped' /\ push'.pr = Len(prs) + 1
    <3> DEFINE pr == Len(prs) + 1
    <3>1. pr \in 0..MaxPR
      BY <1>1, <1>2, <2>3
    <3>2. push' = [push EXCEPT !.pc = "pushed", !.pr = pr]
      BY <1>12
    <3>3. push \in [pc : {"idle", "got", "read", "pushed"}, new : 0..MaxExecution, pr : 0..MaxPR]
      BY DEF PushTyped
    <3> HIDE DEF pr
    <3>4. PushTyped' /\ push'.pr = pr
      BY <3>1, <3>2, <3>3 DEF PushTyped
    <3> QED
      BY <3>4 DEF pr
  <2> QED
    BY <1>1, <1>2, <1>7, <2>1, <2>3, <2>4, <2>5 DEF PRsGrow
<1>13. ASSUME UNCHANGED remote \/ (~ Continues(push.pr) /\ PushBranch(push.new)),
              push' = IdlePush, prs' = prs
       PROVE  GitTypeOK' /\ PRsGrow /\ PushTyped'
              /\ push'.pr <= Len(prs') /\ (push'.pc = "pushed" => push'.pr # 0)
  <2>1. RefsTyped(remote')
    <3>1. CASE UNCHANGED remote
      BY <1>8, <3>1
    <3>2. CASE PushBranch(push.new)
      <4>1. push.new \in Attempt
        BY <3>2, GitTyped DEF PushBranch, FastForward, RefsTyped
      <4> QED
        BY <3>2, <4>1, BranchPushed DEF PushBranch
    <3> QED
      BY <1>13, <3>1, <3>2
  <2> QED
    BY <1>1, <1>2, <1>5, <1>7, <1>13, <2>1 DEF PRsGrow
<1> QED
  BY <1>10, <1>11, <1>12, <1>13 DEF PushAndOpenPR

-----------------------------------------------------------------------------
(* The types of the handlers' state.                                       *)

\* The branch a retry may fork from is that of an attempt on record, or main.
LEMMA ForkRange ==
  ASSUME TypeOK, ReviewsFit
  PROVE  /\ NeedsChanges \in 0..MaxReview
         /\ NeedsChanges # 0 => NeedsChanges \in 1..Len(reviews)
         /\ \A f \in 0..Len(reviews) : ReviewFork(f) \in 0..MaxExecution
         /\ \A n \in ExecutionId : Recorded(n) =>
               /\ executions[n].output \in AttemptOutput
               /\ executions[n].output.branch \in 0..MaxExecution
<1>1. /\ reviews \in Seq(Review) /\ MaxReview \in Nat /\ MaxExecution \in Nat
      /\ executions \in [ExecutionId -> Execution \union {NoExecution}]
  BY TaskStoreAssumption DEF TypeOK
<1>2. /\ NeedsChanges \in 0..MaxReview
      /\ NeedsChanges # 0 => NeedsChanges \in 1..Len(reviews)
  BY <1>1 DEF NeedsChanges, ReviewsFit
<1>3. ASSUME NEW n \in ExecutionId, Recorded(n)
      PROVE  /\ executions[n].output \in AttemptOutput
             /\ executions[n].output.branch \in 0..MaxExecution
  <2>1. executions[n] \in Execution
    BY <1>1, <1>3 DEF Recorded
  <2>2. executions[n].output \in AttemptOutput
    BY <2>1, ExecutionControlAssumption DEF Execution
  <2> QED
    BY <2>2 DEF AttemptOutput
<1>4. ASSUME NEW f \in 0..Len(reviews) PROVE ReviewFork(f) \in 0..MaxExecution
  <2>1. CASE f = 0 \/ reviews[f].execution = 0
    BY <1>1, <2>1 DEF ReviewFork
  <2>2. CASE f # 0 /\ reviews[f].execution # 0
    <3>0. f \in 1..Len(reviews)
      BY <1>1, <2>2
    <3>1. reviews[f] \in Review
      BY <1>1, <3>0
    <3>2. reviews[f].execution \in ExecutionId
      BY <2>2, <3>1 DEF Review, ExecutionId
    <3>3. Recorded(reviews[f].execution)
      BY <2>2, <3>0 DEF ReviewsFit
    <3> QED
      BY <1>3, <2>2, <3>2, <3>3 DEF ReviewFork
  <2> QED
    BY <2>1, <2>2
<1> QED
  BY <1>2, <1>3, <1>4

\* A step of a request that leaves git and its executor alone.
LEMMA RequestTypes ==
  ASSUME ControlInv, NEW s \in Start, StartStep(s)
  PROVE  StartsTyped' /\ GitTypeOK' /\ busy' \subseteq Executor /\ prs' = prs
         /\ push' = push /\ cleaner' = cleaner
<1> DEFINE Goal == StartsTyped' /\ GitTypeOK' /\ busy' \subseteq Executor /\ prs' = prs
                   /\ push' = push /\ cleaner' = cleaner
<1> USE DEF ControlInv, HandlersTyped
<1>0. UNCHANGED gitVars => GitTypeOK' /\ prs' = prs
  BY DEF gitVars, GitTypeOK
<1>a. Attempt = ExecutionId /\ Output = AttemptOutput
  BY ExecutionControlAssumption
<1>b. start[s] \in RequestRecord
  BY DEF StartsTyped
<1>1. ASSUME NEW executor \in Executor, StartGet(s, executor) PROVE Goal
  BY <1>0, <1>1, GetEffect DEF StartGet
<1>l. ASSUME StartListReviews(s) PROVE Goal
  BY <1>0, <1>l, ListEffect, ForkRange DEF StartListReviews
<1>2. ASSUME StartResolveContinuation(s) PROVE Goal
  <2>0. start[s].feedback \in 0..Len(reviews)
    <3>1. Len(reviews) \in Nat
      BY DEF TypeOK
    <3>2. start[s].feedback \in Nat
      BY FeedbackNumber
    <3> QED
      BY <3>1, <3>2 DEF FeedbackFits
  <2>1. ASSUME NEW fork \in 0..MaxExecution, Fork(s, fork) PROVE StartsTyped'
    BY <2>1, ForkEffect
  <2>2. ASSUME NEW n \in ExecutionId, Continuable(n, start[s].feedback),
               Fork(s, executions[n].output.branch)
        PROVE  StartsTyped'
    <3>1. Recorded(n) /\ n \in ExecutionId
      BY <2>2 DEF Continuable, IsLastExecution
    <3> QED
      BY <2>1, <2>2, <3>1, ForkRange
  <2>3. ASSUME Fork(s, ReviewFork(start[s].feedback)) PROVE StartsTyped'
    BY <2>0, <2>1, <2>3, ForkRange
  <2>4. ASSUME Finish(s) PROVE StartsTyped'
    BY <2>4, FinishEffect
  <2>5. StartsTyped'
    BY <1>2, <2>2, <2>3, <2>4 DEF StartResolveContinuation
  <2> QED
    BY <1>0, <1>2, <2>5 DEF StartResolveContinuation
<1>3. ASSUME StartNextExecutionID(s) PROVE Goal
  BY <1>0, <1>3, ChooseEffect DEF StartNextExecutionID
<1>4. ASSUME StartCreateLog(s) PROVE Goal
  <2>1. Goto(s, "logged") \/ Finish(s)
    BY <1>4 DEF StartCreateLog
  <2>2. "logged" \in Phases
    BY DEF Phases, Owning
  <2>3. StartsTyped'
    BY <2>1, <2>2, GotoEffect, FinishEffect
  <2> QED
    BY <1>0, <1>4, <2>3 DEF StartCreateLog
<1>5. ASSUME StartResolveWorkspace(s) PROVE Goal
  <2>1. start[s].id \in Attempt
    BY <1>5, <1>a DEF StartResolveWorkspace, StartShape, Owning
  <2>2. \/ /\ ResolveExecutionWorkspace(start[s].id, start[s].fork)
           /\ Goto(s, "workspace")
        \/ /\ FailToResolveWorkspace(start[s].id, start[s].fork)
           /\ End(s, "failure", NoWorkspaceOutput)
    BY <1>5 DEF StartResolveWorkspace
  <2>3. GitTypeOK' /\ prs' = prs
    BY <2>1, <2>2, WorkspaceTyped
  <2>4. "workspace" \in Phases /\ "failure" \in Status /\ NoWorkspaceOutput \in AttemptOutput
    BY IdleIsRequest DEF Phases, Owning, Status
  <2>5. StartsTyped'
    BY <2>2, <2>4, GotoEffect, EndEffect
  <2> QED
    BY <1>5, <2>3, <2>5 DEF StartResolveWorkspace
<1>6. ASSUME StartRun(s) PROVE Goal
  <2>1. "running" \in Phases /\ "failure" \in Status /\ OutputOf(s, FALSE) \in AttemptOutput
    BY OutputTyped DEF Phases, Owning, Status
  <2>2. StartsTyped'
    BY <1>6, <2>1, GotoEffect, EndEffect DEF StartRun
  <2>3. busy' \subseteq Executor
    <3>1. Goto(s, "running") => start[s].executor \in Executor
      BY <1>6 DEF StartRun, Planned
    <3> QED
      BY <1>6, <3>1 DEF StartRun
  <2> QED
    BY <1>0, <1>6, <2>2, <2>3 DEF StartRun
<1>7. ASSUME EndRun(s) PROVE Goal
  <2>1. start[s].id \in Attempt
    BY <1>7, <1>a DEF EndRun, StartShape, Owning
  <2>2. PICK status \in Status, committed \in BOOLEAN, dirty \in BOOLEAN :
           /\ AgentWork({start[s].id}, IF committed THEN {start[s].id} ELSE {},
                        IF dirty THEN {start[s].id} ELSE {})
           /\ \E found \in Collected(committed) : End(s, status, OutputOf(s, found))
    BY <1>7 DEF EndRun
  <2>7. Collected(committed) \subseteq BOOLEAN
    BY DEF Collected
  <2>3. (IF committed THEN {start[s].id} ELSE {}) \in SUBSET Attempt
    BY <2>1
  <2>4. GitTypeOK' /\ prs' = prs
    BY <2>2, <2>3, AgentWorkTyped
  <2>5. StartsTyped'
    BY <2>2, <2>7, OutputTyped, EndEffect
  <2>6. busy' \subseteq Executor /\ push' = push /\ cleaner' = cleaner
    BY <1>7 DEF EndRun
  <2> QED
    BY <2>4, <2>5, <2>6
<1>8. ASSUME StartRecord(s) PROVE Goal
  BY <1>0, <1>8, FinishEffect DEF StartRecord
<1> QED
  BY <1>1, <1>l, <1>2, <1>3, <1>4, <1>5, <1>6, <1>7, <1>8 DEF StartStep

\* The head branch of the pull request on record.
LEMMA HeadOnRecord ==
  ASSUME TypeOK, GitTypeOK, PRsFit
  PROVE  (IF task.pullRequest = NoPullRequest THEN 0 ELSE prs[task.pullRequest].head)
            \in 0..MaxExecution
<1>1. CASE task.pullRequest # NoPullRequest
  <2>1. task.pullRequest \in 1..MaxPR
    BY <1>1, ExecutionControlAssumption DEF TypeOK, Task
  <2>2. Len(prs) \in Nat /\ MaxPR \in Nat
    BY GitTyped, WorkspacesAssumption
  <2>3. task.pullRequest \in 1..Len(prs)
    BY <2>1, <2>2 DEF PRsFit
  <2>4. prs[task.pullRequest].head \in ExecutionId
    BY <2>3, HeadTyped, ExecutionControlAssumption
  <2> QED
    BY <1>1, <2>4, TaskStoreAssumption DEF ExecutionId
<1> QED
  BY <1>1, TaskStoreAssumption

\* A pass starts from what the task has on record.
LEMMA BeginPassTyped ==
  ASSUME ControlInv, NEW stage \in {"", "cleanup", "completed"}, NEW force \in BOOLEAN,
         BeginPass(stage, force)
  PROVE  CleanerTyped'
<1> DEFINE pushed == IF task.pullRequest = NoPullRequest THEN 0 ELSE prs[task.pullRequest].head
<1> USE DEF ControlInv, HandlersTyped
<1>1. pushed \in 0..MaxExecution
  BY HeadOnRecord
<1>2. cleaner' = [IdleCleaner EXCEPT !.pc = "begin", !.stage = stage, !.force = force,
                    !.pushed = pushed]
  BY DEF BeginPass
<1> HIDE DEF pushed
<1> QED
  BY <1>1, <1>2 DEF CleanerTyped, IdleCleaner

CleanerRecord ==
    [pc : {"idle", "begin", "removing", "reported"},
     stage : {"", "cleanup", "completed"}, force : BOOLEAN, pushed : 0..MaxExecution,
     tips : SUBSET SUBSET ExecutionId, todo : SUBSET ExecutionId, clean : BOOLEAN]

LEMMA IdleHandlersTyped ==
  /\ IdleCleaner \in CleanerRecord
  /\ start' = [s \in Start |-> IdleStart] => StartsTyped'
  /\ push' = IdlePush => PushTyped' /\ push'.pr = 0 /\ push'.pc = "idle"
  /\ cleaner' = IdleCleaner => CleanerTyped'
<1>1. start' = [s \in Start |-> IdleStart] => StartsTyped'
  BY IdleIsRequest DEF StartsTyped
<1>2. push' = IdlePush => PushTyped' /\ push'.pr = 0 /\ push'.pc = "idle"
  BY TaskStoreAssumption, WorkspacesAssumption DEF PushTyped, IdlePush
<1>3. IdleCleaner \in CleanerRecord
  BY TaskStoreAssumption DEF IdleCleaner, CleanerRecord
<1>4. cleaner' = IdleCleaner => CleanerTyped'
  BY <1>3 DEF CleanerTyped, CleanerRecord
<1> QED
  BY <1>1, <1>2, <1>3, <1>4

LEMMA CleanupTypes ==
  ASSUME ControlInv, CleanupStep
  PROVE  CleanerTyped' /\ GitTypeOK' /\ PRsGrow
<1> USE DEF ControlInv, HandlersTyped
<1>0. UNCHANGED gitVars => GitTypeOK' /\ prs' = prs
  BY DEF gitVars, GitTypeOK
<1>a. prs' = prs => PRsGrow
  BY GitTyped, WorkspacesAssumption DEF PRsGrow, PRsFit
<1>i. cleaner' = IdleCleaner => CleanerTyped'
  BY IdleHandlersTyped
<1>1. CASE CleanupList
  <2> DEFINE tips == IF cleaner.force THEN {} ELSE RemoteBranchTip(cleaner.pushed)
             todo == {n \in ExecutionId : Recorded(n)}
  <2>1. tips \in SUBSET SUBSET ExecutionId
    <3>1. RemoteBranchTip(cleaner.pushed) \in SUBSET SUBSET ExecutionId
      BY GitTyped, ExecutionControlAssumption DEF RemoteBranchTip, RefsTyped
    <3> QED
      BY <3>1
  <2>2. cleaner' = [cleaner EXCEPT !.pc = "removing", !.todo = todo, !.tips = tips]
    BY <1>1 DEF CleanupList
  <2>3. todo \in SUBSET ExecutionId
    OBVIOUS
  <2>4. UNCHANGED gitVars
    BY <1>1 DEF CleanupList
  <2> HIDE DEF tips, todo
  <2>5. CleanerTyped'
    BY <2>1, <2>2, <2>3 DEF CleanerTyped
  <2> QED
    BY <1>0, <1>a, <2>4, <2>5
<1>2. CASE CleanupOne
  <2>1. PICK n \in cleaner.todo :
           \/ RemoveWorktree(n) /\ cleaner' = [cleaner EXCEPT !.todo = @ \ {n}]
           \/ cleaner' = [cleaner EXCEPT !.todo = @ \ {n}, !.clean = FALSE] /\ UNCHANGED gitVars
    BY <1>2 DEF CleanupOne
  <2>2. n \in Attempt
    BY ExecutionControlAssumption DEF CleanerTyped
  <2>3. GitTypeOK' /\ prs' = prs
    BY <1>0, <2>1, <2>2, RemovalTyped
  <2>4. CleanerTyped'
    <3> DEFINE todo == cleaner.todo \ {n}
    <3>1. todo \in SUBSET ExecutionId
      BY DEF CleanerTyped
    <3>2. \/ cleaner' = [cleaner EXCEPT !.todo = todo]
          \/ cleaner' = [cleaner EXCEPT !.todo = todo, !.clean = FALSE]
      BY <2>1
    <3> HIDE DEF todo
    <3> QED
      BY <3>1, <3>2 DEF CleanerTyped
  <2> QED
    BY <1>a, <2>3, <2>4
<1>3. CASE CleanupReportStatus \/ CleanupComplete
  <2>1. UNCHANGED gitVars
    BY <1>3 DEF CleanupReportStatus, CleanupComplete
  <2>2. cleaner' = [cleaner EXCEPT !.pc = "reported"] \/ cleaner' = IdleCleaner
    BY <1>3 DEF CleanupReportStatus, CleanupComplete
  <2>3. CleanerTyped'
    BY <1>i, <2>2 DEF CleanerTyped
  <2> QED
    BY <1>0, <1>a, <2>1, <2>3
<1> QED
  BY <1>1, <1>2, <1>3 DEF CleanupStep

\* The types of the handlers, and their pull requests, after any step.
HandlersFit ==
    /\ HandlersTyped' /\ PRsGrow
    /\ push'.pr <= Len(prs') /\ (push'.pc = "pushed" => push'.pr # 0)

LEMMA HandlersKept ==
  ASSUME ControlInv, [Next]_vars
  PROVE  HandlersFit
<1> USE DEF ControlInv, HandlersTyped
<1>0. UNCHANGED gitVars => GitTypeOK' /\ prs' = prs
  BY DEF gitVars, GitTypeOK
<1>a. prs' = prs => PRsGrow
  BY GitTyped, WorkspacesAssumption DEF PRsGrow, PRsFit
<1>b. start' = start => StartsTyped'
  BY DEF StartsTyped
<1>c. cleaner' = cleaner => CleanerTyped'
  BY DEF CleanerTyped
<1>d. push' = push => PushTyped'
  BY DEF PushTyped
<1>e. push' = push /\ PRsGrow => push'.pr <= Len(prs') /\ (push'.pc = "pushed" => push'.pr # 0)
  <2>1. push.pr \in Int /\ Len(prs) \in Nat
    BY GitTyped, WorkspacesAssumption DEF PushTyped
  <2>2. GitTypeOK' => Len(prs') \in Nat
    BY DEF GitTypeOK
  <2> QED
    BY <2>1, <2>2 DEF PRsFit, PRsGrow
<1>f. IdleCleaner.pc = "idle"
  BY DEF IdleCleaner
<1>1. ASSUME NEW s \in Start, StartStep(s) PROVE HandlersFit
  BY <1>1, <1>a, <1>c, <1>d, <1>e, RequestTypes DEF HandlersFit
<1>2. CASE PushStep
  <2>1. CASE PushGet
    <3>1. task.pullRequest \in 0..MaxPR
      BY ExecutionControlAssumption, WorkspacesAssumption DEF TypeOK, Task
    <3>2. push' = [IdlePush EXCEPT !.pc = "got", !.pr = task.pullRequest]
      BY <2>1 DEF PushGet
    <3>a. push' = [pc |-> "got", new |-> 0, pr |-> task.pullRequest]
      BY <3>2 DEF IdlePush
    <3>b. 0 \in 0..MaxExecution
      BY TaskStoreAssumption
    <3>3. PushTyped' /\ push'.pr = task.pullRequest /\ push'.pc = "got"
      BY <3>1, <3>a, <3>b DEF PushTyped
    <3>4. UNCHANGED <<gitVars, start, busy, cleaner>>
      BY <2>1 DEF PushGet
    <3> QED
      BY <1>0, <1>a, <1>b, <1>c, <3>3, <3>4 DEF HandlersFit, PRsFit
  <2>4. CASE PushListExecutions
    <3>1. PICK n \in 0..MaxExecution :
             /\ IsLastExecution(n)
             /\ push' = IF n = 0 THEN IdlePush
                        ELSE [push EXCEPT !.pc = "read", !.new = executions[n].output.branch]
      BY <2>4 DEF PushListExecutions
    <3>2. UNCHANGED <<gitVars, start, busy, cleaner>>
      BY <2>4 DEF PushListExecutions
    <3>3. CASE n # 0
      <4>1. n \in ExecutionId /\ Recorded(n)
        BY <3>1, <3>3, TaskStoreAssumption DEF IsLastExecution, ExecutionId
      <4> DEFINE new == executions[n].output.branch
      <4>2. new \in 0..MaxExecution
        BY <4>1, ForkRange
      <4>3. push' = [push EXCEPT !.pc = "read", !.new = new]
        BY <3>1, <3>3
      <4> HIDE DEF new
      <4>4. PushTyped' /\ push'.pr = push.pr /\ push'.pc = "read"
        BY <4>2, <4>3 DEF PushTyped
      <4> QED
        BY <1>0, <1>a, <1>b, <1>c, <3>2, <4>4 DEF HandlersFit, PRsFit
    <3>4. CASE n = 0
      <4>1. push' = IdlePush
        BY <3>1, <3>4
      <4>2. Len(prs') \in Nat
        BY <1>0, <3>2 DEF GitTypeOK
      <4> QED
        BY <1>0, <1>a, <1>b, <1>c, <3>2, <4>1, <4>2, IdleHandlersTyped DEF HandlersFit
    <3> QED
      BY <3>3, <3>4
  <2>2. CASE PushAndOpenPR
    <3>1. UNCHANGED <<start, busy, cleaner>>
      BY <2>2 DEF PushAndOpenPR
    <3> QED
      BY <1>b, <1>c, <2>2, <3>1, PushTypes DEF HandlersFit
  <2>3. CASE PushRecord
    <3>1. UNCHANGED <<gitVars, start, busy, cleaner>> /\ push' = IdlePush
      BY <2>3 DEF PushRecord
    <3>2. Len(prs') \in Nat
      BY <1>0, <3>1 DEF GitTypeOK
    <3> QED
      BY <1>0, <1>a, <1>b, <1>c, <3>1, <3>2, IdleHandlersTyped DEF HandlersFit
  <2> QED
    BY <1>2, <2>1, <2>2, <2>3, <2>4 DEF PushStep
<1>3. CASE HandleMarkPRMerged \/ HandleTaskCleanup \/ SweepTask
  <2>1. UNCHANGED <<gitVars, start, busy, push>>
    BY <1>3 DEF HandleMarkPRMerged, HandleTaskCleanup, SweepTask
  <2>2. \/ cleaner' = cleaner
        \/ \E stage \in {"", "cleanup", "completed"}, force \in BOOLEAN : BeginPass(stage, force)
    <3>1. CASE HandleMarkPRMerged
      BY <3>1 DEF HandleMarkPRMerged
    <3>0. Forced \subseteq BOOLEAN
      BY DEF Forced
    <3>2. CASE HandleTaskCleanup
      BY <3>0, <3>2 DEF HandleTaskCleanup
    <3>3. CASE SweepTask
      BY <3>0, <3>3 DEF SweepTask
    <3> QED
      BY <1>3, <3>1, <3>2, <3>3
  <2>3. CleanerTyped'
    BY <1>c, <2>2, BeginPassTyped
  <2> QED
    BY <1>0, <1>a, <1>b, <1>d, <1>e, <2>1, <2>3 DEF HandlersFit
<1>4. CASE CleanupStep
  <2>1. UNCHANGED <<start, busy, push>>
    BY <1>4 DEF CleanupStep, CleanupList, CleanupOne, CleanupReportStatus, CleanupComplete
  <2> QED
    BY <1>4, <1>b, <1>d, <1>e, <2>1, CleanupTypes DEF HandlersFit
<1>5. CASE HumanStep \/ UNCHANGED vars
  <2>1. UNCHANGED <<gitVars, start, busy, push, cleaner>>
    BY <1>5 DEF HumanStep, vars
  <2> QED
    BY <1>0, <1>a, <1>b, <1>c, <1>d, <1>e, <2>1 DEF HandlersFit
<1>6. CASE GitHubStep
  <2>1. UNCHANGED <<start, busy, push, cleaner>>
    BY <1>6 DEF GitHubStep
  <2>2. GitTypeOK' /\ PRsGrow
    BY <1>6, SettleTyped DEF GitHubStep, PRsFit
  <2> QED
    BY <1>b, <1>c, <1>d, <1>e, <2>1, <2>2 DEF HandlersFit
<1>7. CASE DeleteByHand
  <2>1. UNCHANGED <<start, busy, push, cleaner>>
    BY <1>7 DEF DeleteByHand
  <2>2. GitTypeOK' /\ prs' = prs
    BY <1>7, RemovalTyped, ExecutionControlAssumption DEF DeleteByHand
  <2> QED
    BY <1>a, <1>b, <1>c, <1>d, <1>e, <2>1, <2>2 DEF HandlersFit
<1>8. CASE Crash
  <2> DEFINE running == {start[s].id : s \in {x \in Start : start[x].pc = "running"}}
  <2>1. PICK committed \in SUBSET running, dirty \in SUBSET running :
           AgentWork(running, committed, dirty)
    BY <1>8 DEF Crash
  <2>2. running \subseteq Attempt
    BY ExecutionControlAssumption DEF StartShape, Owning
  <2>3. committed \in SUBSET Attempt
    BY <2>2
  <2> HIDE DEF running
  <2>4. GitTypeOK' /\ prs' = prs
    BY <2>1, <2>3, AgentWorkTyped
  <2>5. /\ start' = [s \in Start |-> IdleStart] /\ busy' = {} /\ push' = IdlePush
        /\ cleaner' = IdleCleaner
    BY <1>8 DEF Crash
  <2>6. Len(prs') \in Nat
    BY <2>4 DEF GitTypeOK
  <2> QED
    BY <1>a, <2>4, <2>5, <2>6, IdleHandlersTyped DEF HandlersFit
<1> QED
  BY <1>1, <1>2, <1>3, <1>4, <1>5, <1>6, <1>7, <1>8, StepCases

-----------------------------------------------------------------------------
(* The handlers' invariant.                                                *)

LEMMA PRsFitKept ==
  ASSUME ControlInv, [Next]_vars, HandlersFit
  PROVE  PRsFit'
<1> USE DEF ControlInv
<1>1. task'.pullRequest <= Len(prs')
  <2>1. Len(prs') \in Nat /\ Len(prs) \in Nat
    BY GitTyped DEF HandlersFit, HandlersTyped, GitTypeOK
  <2>2. task.pullRequest \in Int /\ NoPullRequest = 0
    BY ExecutionControlAssumption DEF TypeOK, Task
  <2>3. CASE KeepsPullRequest
    BY <2>1, <2>2, <2>3 DEF KeepsPullRequest, PRsFit, HandlersFit, PRsGrow
  <2>4. CASE PushRecord /\ ~ KeepsPullRequest
    <3>1. RecordPullRequest(push.pr) /\ prs' = prs
      BY <2>4 DEF PushRecord, gitVars, taskVars, KeepsPullRequest
    <3> DEFINE t == [task EXCEPT !.pullRequest = push.pr]
    <3>2. t.pullRequest = push.pr
      BY DEF TypeOK, Task
    <3>3. WriteTask(TRUE, t)
      BY <3>1 DEF RecordPullRequest
    <3> HIDE DEF t
    <3>4. task'.pullRequest = push.pr
      BY <2>4, <3>2, <3>3, WritePullRequest DEF KeepsPullRequest
    <3> QED
      BY <3>1, <3>4 DEF PRsFit
  <2> QED
    BY <2>3, <2>4, OthersKeepPullRequest
<1> QED
  BY <1>1 DEF PRsFit, HandlersFit, PRsGrow

\* A request keeps the verdict it was told of, forgets it or learns the latest.
LEMMA RequestFeedback ==
  ASSUME ControlInv, NEW s \in Start, StartStep(s)
  PROVE  start'[s].feedback \in {start[s].feedback, 0, NeedsChanges}
<1> DEFINE Goal == start'[s].feedback \in {start[s].feedback, 0, NeedsChanges}
<1> USE DEF ControlInv, HandlersTyped
<1>1. ASSUME Finish(s) PROVE Goal
  BY <1>1, FinishEffect, FeedbackNumber
<1>2. ASSUME NEW pc, Goto(s, pc) PROVE Goal
  BY <1>2 DEF Goto, StartShape
<1>3. ASSUME NEW status, NEW output, End(s, status, output) PROVE Goal
  BY <1>3 DEF End, StartShape
<1>4. ASSUME NEW fork, Fork(s, fork) PROVE Goal
  BY <1>4 DEF Fork, StartShape
<1>5. CASE \E executor \in Executor : StartGet(s, executor)
  BY <1>5, GetEffect
<1>6. CASE StartListReviews(s)
  BY <1>6, ListEffect, ForkRange
<1>7. CASE StartResolveContinuation(s)
  BY <1>1, <1>4, <1>7 DEF StartResolveContinuation
<1>8. CASE StartNextExecutionID(s)
  BY <1>8, ChooseEffect DEF StartNextExecutionID
<1>9. CASE StartCreateLog(s) \/ StartResolveWorkspace(s) \/ StartRecord(s)
  BY <1>1, <1>2, <1>3, <1>9 DEF StartCreateLog, StartResolveWorkspace, StartRecord
<1>10. CASE StartRun(s) \/ EndRun(s)
  BY <1>2, <1>3, <1>10 DEF StartRun, EndRun
<1> QED
  BY <1>5, <1>6, <1>7, <1>8, <1>9, <1>10 DEF StartStep

LEMMA FeedbackKept ==
  ASSUME ControlInv, [Next]_vars, RecordsKept, TypeOK'
  PROVE  FeedbackFits'
<1> USE DEF ControlInv, HandlersTyped
<1>0. Len(reviews) \in Nat /\ Len(reviews') \in Nat /\ Len(reviews) <= Len(reviews')
  BY DEF TypeOK, RecordsKept
<1>a. \A s \in Start : start[s].feedback \in Nat
  BY FeedbackNumber
<1>1. ASSUME NEW s \in Start, StartStep(s) PROVE FeedbackFits'
  <2>1. \A other \in Start : other # s => start'[other] = start[other]
    BY <1>1, RequestEffect DEF StartShape, Own
  <2>2. NeedsChanges \in 0..Len(reviews)
    BY <1>0, ForkRange
  <2>3. start'[s].feedback \in {start[s].feedback, 0, NeedsChanges}
    BY <1>1, RequestFeedback
  <2> QED
    BY <1>0, <1>a, <2>1, <2>2, <2>3 DEF FeedbackFits
<1>2. ASSUME start' = [s \in Start |-> IdleStart] PROVE FeedbackFits'
  <2>1. \A s \in Start : start'[s].feedback = 0
    BY <1>2, FeedbackNumber
  <2> QED
    BY <1>0, <2>1 DEF FeedbackFits
<1>3. ASSUME start' = start PROVE FeedbackFits'
  BY <1>0, <1>a, <1>3 DEF FeedbackFits
<1> QED
  BY <1>1, <1>2, <1>3, StepCases, OthersEffect

LEMMA ControlInit == Init => ControlInv
<1> SUFFICES ASSUME Init PROVE ControlInv
  OBVIOUS
<1>1. TypeOK
  <2>1. BareTask("absent") \in Task
    BY BareTaskType DEF Stages
  <2>2. << >> \in Seq(Transition) /\ << >> \in Seq(Review)
    OBVIOUS
  <2> QED
    BY <2>1, <2>2 DEF Init, TaskInit, TypeOK
<1>2. GitTypeOK
  <2>1. << >> \in Seq(PullRequestRecord) /\ DOMAIN << >> = {}
    OBVIOUS
  <2> QED
    BY <2>1, GitTyped DEF Init, GitInit, RefsTyped
<1>3. StartsTyped
  BY IdleIsRequest DEF Init, StartsTyped
<1>4. PushTyped
  BY TaskStoreAssumption, WorkspacesAssumption DEF Init, PushTyped, IdlePush
<1>5. CleanerTyped
  BY IdleHandlersTyped DEF Init, CleanerTyped, CleanerRecord
<1>6. Numbered /\ Planned
  <2>1. IdleStart.pc = "idle"
    BY DEF IdleStart
  <2> QED
    BY <2>1 DEF Init, TaskInit, Numbered, Planned, Owning
<1>7. ReviewsFit /\ FeedbackFits
  <2>1. Len(reviews) = 0
    BY DEF Init, TaskInit
  <2>2. \A s \in Start : start[s].feedback = 0
    BY FeedbackNumber DEF Init
  <2> QED
    BY <2>1, <2>2, TaskStoreAssumption DEF ReviewsFit, FeedbackFits
<1>8. PRsFit
  <2>1. task.pullRequest = 0 /\ push.pr = 0 /\ push.pc = "idle" /\ Len(prs) = 0
    BY ExecutionControlAssumption DEF Init, TaskInit, GitInit, BareTask, IdlePush
  <2> QED
    BY <2>1, WorkspacesAssumption DEF PRsFit
<1>9. busy \subseteq Executor
  BY DEF Init
<1> QED
  BY <1>1, <1>2, <1>3, <1>4, <1>5, <1>6, <1>7, <1>8, <1>9, InitShape DEF ControlInv, HandlersTyped

LEMMA ControlKept == ControlInv /\ [Next]_vars => ControlInv'
<1> SUFFICES ASSUME ControlInv, [Next]_vars PROVE ControlInv'
  OBVIOUS
<1>1. [TaskNext]_taskVars
  BY HandlersUseStore
<1>2. TypeOK' /\ RecordsKept
  BY <1>1, StoreTyped, StepShape DEF ControlInv
<1>3. StartShape' /\ OwnersInv'
  BY ShapeKept, OwnersKept DEF ControlInv
<1>4. HandlersFit
  BY HandlersKept
<1>5. Numbered' /\ Planned' /\ ReviewsFit' /\ FeedbackFits' /\ PRsFit'
  BY <1>1, <1>2, <1>4, NumberedKept, PlannedKept, ReviewsFitKept, FeedbackKept, PRsFitKept
<1> QED
  BY <1>2, <1>3, <1>4, <1>5 DEF ControlInv, HandlersFit

LEMMA ControlInvariant == Spec => []ControlInv
BY ControlInit, ControlKept, PTL DEF Spec

\* Files, git state, requests and passes always hold what they can hold.
THEOREM ControlTypeCorrect == Spec => []ControlTypeOK
<1>1. ControlInv => ControlTypeOK
  BY TypesSplit DEF ControlInv
<1> QED
  BY <1>1, ControlInvariant, PTL

\* However the handlers' steps interleave, the task's files see operations the
\* store allows, with arguments it expects: a log is created under the next id
\* only, though the id was chosen earlier.
THEOREM ControlUsesStore == Spec => TaskSpec
<1>1. Init => TaskInit
  BY DEF Init
<1> QED
  BY <1>1, HandlersUseStore, ControlInvariant, PTL DEF Spec, TaskSpec

\* So what is proved of the store's operations in any order holds of the
\* handlers: the files implement the stage machine, and their history is sound.
THEOREM ControlKeepsHistory ==
  Spec => /\ [](HistoryChains /\ TransitionsBacked /\ EvidenceUsedOnce /\ DocsBeforeStage)
          /\ ImplementsLifecycle
BY ControlUsesStore, HistoryCorrect, BackedCorrect, UsedOnceCorrect, DocsCorrect,
   StoreImplementsLifecycle, PTL

-----------------------------------------------------------------------------
(* What a retry builds on.                                                 *)

\* The attempt a verdict is about, and the branch it left on record (0: none).
Subject(f) == reviews[f].execution
SubjectBranch(f) == executions[Subject(f)].output.branch

\* An attempt's branch has its own number.
OutputsFit ==
    /\ \A n \in ExecutionId : Recorded(n) => executions[n].output.branch \in {0, n}
    /\ \A s \in Start : start[s].pc = "ended" => start[s].output.branch \in {0, start[s].id}

\* A new log's number has no branch.
Fresh ==
    /\ DOMAIN branch \subseteq logs
    /\ \A s \in Start : start[s].pc = "logged" => start[s].id \notin DOMAIN branch

\* A request with a verdict to answer forks from its subject, if that has a branch.
ForksFit ==
    \A s \in Start :
       start[s].pc \in {"resolved", "chosen"} \union Owning /\ start[s].feedback # 0 =>
          \/ Subject(start[s].feedback) = 0
          \/ SubjectBranch(start[s].feedback) \in {0, start[s].fork}

Builds(s) ==
    /\ start[s].pc \in {"workspace", "running", "ended"} /\ start[s].feedback # 0
    /\ Subject(start[s].feedback) # 0
    /\ SubjectBranch(start[s].feedback) \in DOMAIN branch
    /\ start[s].id \in DOMAIN branch
    => branch[SubjectBranch(start[s].feedback)] \subseteq branch[start[s].id]

RetryInv == OutputsFit /\ Fresh /\ ForksFit /\ \A s \in Start : Builds(s)

\* A verdict and the record it is about stay as they are.
LEMMA SubjectStays ==
  ASSUME ControlInv, RecordsKept, NEW f \in 1..Len(reviews)
  PROVE  /\ Len(reviews) <= Len(reviews') /\ reviews'[f] = reviews[f]
         /\ Subject(f) \in 0..MaxExecution
         /\ Subject(f) # 0 =>
               /\ Subject(f) \in ExecutionId /\ Recorded(Subject(f))
               /\ executions'[Subject(f)] = executions[Subject(f)]
<1>1. reviews[f] \in Review
  BY DEF ControlInv, TypeOK
<1>2. Subject(f) \in 0..MaxExecution
  BY <1>1 DEF Review, Subject
<1>3. Subject(f) # 0 => Subject(f) \in ExecutionId /\ Recorded(Subject(f))
  BY <1>2 DEF ControlInv, ReviewsFit, Subject, ExecutionId
<1> QED
  BY <1>2, <1>3 DEF RecordsKept

\* The branches, but those of the attempts in S, are as they were or gone.
SameBranches(S) ==
    \A n \in DOMAIN branch' : n \notin S => n \in DOMAIN branch /\ branch'[n] = branch[n]

LEMMA PointedBranches ==
  ASSUME NEW n, NEW tip, branch' = PointRef(branch, n, tip)
  PROVE  /\ SameBranches({n}) /\ DOMAIN branch' = DOMAIN branch \union {n}
         /\ branch'[n] = tip
BY DEF PointRef, SameBranches

LEMMA WorkedBranches ==
  ASSUME NEW touched, NEW committed, NEW dirty, AgentWork(touched, committed, dirty)
  PROVE  /\ SameBranches(committed) /\ DOMAIN branch' = DOMAIN branch
         /\ \A n \in DOMAIN branch : branch[n] \subseteq branch'[n]
BY DEF AgentWork, SameBranches

LEMMA RemovedBranches ==
  ASSUME NEW n, RemoveWorktree(n) \/ RemoveByHand(n)
  PROVE  /\ SameBranches({}) /\ DOMAIN branch' \subseteq DOMAIN branch
         /\ \A m \in DOMAIN branch : m # n => m \in DOMAIN branch'
BY DEF RemoveWorktree, RemoveByHand, Restrict, SameBranches

\* A request touches the branch of the attempt it owns only.
LEMMA RequestBranches ==
  ASSUME ControlInv, NEW s \in Start, StartStep(s)
  PROVE  \/ branch' = branch
         \/ /\ start[s].pc \in {"logged", "running"} /\ start[s].id \in ExecutionId
            /\ SameBranches({start[s].id})
            /\ DOMAIN branch' \subseteq DOMAIN branch \union {start[s].id}
<1>1. CASE StartResolveWorkspace(s)
  <2>1. start[s].pc = "logged" /\ start[s].id \in ExecutionId
    BY <1>1 DEF StartResolveWorkspace, ControlInv, StartShape, Owning
  <2>2. branch' = branch \/ \E tip : branch' = PointRef(branch, start[s].id, tip)
    BY <1>1 DEF StartResolveWorkspace, ResolveExecutionWorkspace, FailToResolveWorkspace
  <2> QED
    BY <2>1, <2>2, PointedBranches
<1>2. CASE EndRun(s)
  <2>1. start[s].pc = "running" /\ start[s].id \in ExecutionId
    BY <1>2 DEF EndRun, ControlInv, StartShape, Owning
  <2>2. PICK committed \in BOOLEAN, dirty \in BOOLEAN :
           AgentWork({start[s].id}, IF committed THEN {start[s].id} ELSE {},
                     IF dirty THEN {start[s].id} ELSE {})
    BY <1>2 DEF EndRun
  <2>3. /\ SameBranches(IF committed THEN {start[s].id} ELSE {})
        /\ DOMAIN branch' = DOMAIN branch
    BY <2>2, WorkedBranches
  <2>4. SameBranches({start[s].id})
    BY <2>3 DEF SameBranches
  <2> QED
    BY <2>1, <2>3, <2>4
<1>3. ASSUME ~ StartResolveWorkspace(s), ~ EndRun(s) PROVE branch' = branch
  BY <1>3 DEF StartStep, StartGet, StartListReviews, StartResolveContinuation, StartNextExecutionID,
     StartCreateLog, StartRun, StartRecord, gitVars
<1> QED
  BY <1>1, <1>2, <1>3

LEMMA OthersBranches ==
  ASSUME \/ PushStep \/ HandleMarkPRMerged \/ HandleTaskCleanup \/ SweepTask \/ CleanupStep
         \/ HumanStep \/ GitHubStep \/ DeleteByHand \/ Crash \/ UNCHANGED vars
  PROVE  /\ DOMAIN branch' \subseteq DOMAIN branch
         /\ \/ start' = start /\ SameBranches({})
            \/ start' = [s \in Start |-> IdleStart]
<1>0. branch' = branch => SameBranches({}) /\ DOMAIN branch' \subseteq DOMAIN branch
  BY DEF SameBranches
<1>1. CASE PushStep
  BY <1>0, <1>1 DEF PushStep, PushGet, PushListExecutions, PushAndOpenPR, PushRecord, PushOntoPR,
     PushNothingOntoPR, gitVars
<1>2. CASE HandleMarkPRMerged \/ HandleTaskCleanup \/ SweepTask \/ HumanStep \/ UNCHANGED vars
  BY <1>0, <1>2 DEF HandleMarkPRMerged, HandleTaskCleanup, SweepTask, HumanStep, vars, gitVars
<1>3. CASE CleanupStep
  <2>1. start' = start
    BY <1>3 DEF CleanupStep, CleanupList, CleanupOne, CleanupReportStatus, CleanupComplete
  <2>2. UNCHANGED gitVars \/ \E n : RemoveWorktree(n)
    BY <1>3 DEF CleanupStep, CleanupList, CleanupOne, CleanupReportStatus, CleanupComplete
  <2> QED
    BY <1>0, <2>1, <2>2, RemovedBranches DEF gitVars
<1>4. CASE GitHubStep
  BY <1>0, <1>4 DEF GitHubStep, SettlePR
<1>5. CASE DeleteByHand
  BY <1>5, RemovedBranches DEF DeleteByHand
<1>6. CASE Crash
  <2>1. PICK touched, committed, dirty : AgentWork(touched, committed, dirty)
    BY <1>6 DEF Crash
  <2> QED
    BY <1>6, <2>1, WorkedBranches DEF Crash
<1> QED
  BY <1>1, <1>2, <1>3, <1>4, <1>5, <1>6

LEMMA OutputsKept ==
  ASSUME ControlInv, OutputsFit, [Next]_vars
  PROVE  OutputsFit'
<1> USE DEF ControlInv, HandlersTyped
<1>1. ASSUME NEW s \in Start, StartStep(s) PROVE OutputsFit'
  <2>1. \A other \in Start : other # s => start'[other] = start[other]
    BY <1>1, RequestEffect DEF StartShape, Own
  <2>2. start'[s].pc = "ended" => start'[s].output.branch \in {0, start'[s].id}
    <3>1. ASSUME NEW output \in AttemptOutput, NEW status \in Status, End(s, status, output),
                 output.branch \in {0, start[s].id}
          PROVE  start'[s].output.branch \in {0, start'[s].id}
      BY <3>1, EndEffect
    <3>2. CASE StartResolveWorkspace(s)
      <4>1. NoWorkspaceOutput.branch = 0
        BY DEF NoWorkspaceOutput
      <4>2. "workspace" \in Phases /\ "failure" \in Status
        BY DEF Phases, Owning, Status
      <4>3. Goto(s, "workspace") => start'[s].pc = "workspace"
        BY <4>2, GotoEffect
      <4> QED
        BY <3>1, <3>2, <4>1, <4>2, <4>3, IdleIsRequest DEF StartResolveWorkspace
    <3>3. CASE StartRun(s)
      <4>1. "running" \in Phases /\ "failure" \in Status
        BY DEF Phases, Owning, Status
      <4>2. Goto(s, "running") => start'[s].pc = "running"
        BY <4>1, GotoEffect
      <4>3. OutputOf(s, FALSE) \in AttemptOutput /\ OutputOf(s, FALSE).branch = start[s].id
        BY OutputTyped
      <4> QED
        BY <3>1, <3>3, <4>1, <4>2, <4>3 DEF StartRun
    <3>4. CASE EndRun(s)
      <4>1. PICK status \in Status, found \in BOOLEAN : End(s, status, OutputOf(s, found))
        BY <3>4 DEF EndRun, Collected
      <4>2. /\ OutputOf(s, found) \in AttemptOutput
            /\ OutputOf(s, found).branch = start[s].id
        BY OutputTyped
      <4> QED
        BY <3>1, <4>1, <4>2
    <3>5. CASE StartResolveContinuation(s) \/ StartRecord(s)
      <4>a. IdleStart.pc = "idle"
        BY DEF IdleStart
      <4>1. ASSUME NEW fork, Fork(s, fork) PROVE start'[s].pc = "resolved"
        BY <4>1 DEF Fork, StartShape
      <4>2. Finish(s) => start'[s].pc = "idle"
        BY <4>a, FinishEffect
      <4> QED
        BY <3>5, <4>1, <4>2 DEF StartResolveContinuation, StartRecord
    <3>6. CASE \/ StartNextExecutionID(s) \/ StartCreateLog(s) \/ StartListReviews(s)
               \/ \E e \in Executor : StartGet(s, e)
      <4>1. start[s].pc \in Early
        BY <3>6 DEF StartNextExecutionID, StartCreateLog, StartListReviews, StartGet, Early
      <4>2. start'[s].pc # "ended"
        BY <1>1, <4>1, RequestEffect DEF Waits, Takes, Keeps, Settles, Early, Owning
      <4> QED
        BY <4>2
    <3> QED
      BY <1>1, <3>2, <3>3, <3>4, <3>5, <3>6 DEF StartStep
  <2>3. \A n \in ExecutionId : Recorded(n)' => executions'[n].output.branch \in {0, n}
    <3>1. CASE executions' = executions
      BY <3>1 DEF OutputsFit, Recorded
    <3>2. CASE StartRecord(s)
      <4>1. start[s].pc = "ended" /\ start[s].id \in ExecutionId
        BY <3>2 DEF StartRecord, StartShape, Owning
      <4>2. start[s].output.branch \in {0, start[s].id}
        BY <4>1 DEF OutputsFit
      <4>3. \A status : [status |-> status, output |-> start[s].output].output = start[s].output
        OBVIOUS
      <4>4. \/ executions' = executions
            \/ \E status : executions' = [executions EXCEPT ![start[s].id] =
                                 [status |-> status, output |-> start[s].output]]
        BY <3>2 DEF StartRecord, RecordSuccess, RecordFailure, taskVars
      <4>5. CASE \E status : executions' = [executions EXCEPT ![start[s].id] =
                                 [status |-> status, output |-> start[s].output]]
        <5>1. executions'[start[s].id].output = start[s].output
          BY <4>1, <4>5 DEF StartShape
        <5>2. \A n \in ExecutionId : n # start[s].id => executions'[n] = executions[n]
          BY <4>1, <4>5 DEF StartShape
        <5> QED
          BY <4>2, <5>1, <5>2 DEF OutputsFit, Recorded
      <4> QED
        BY <3>1, <4>4, <4>5
    <3>3. ~ StartRecord(s) => executions' = executions
      BY <1>1 DEF StartStep, StartGet, StartListReviews, StartResolveContinuation,
         StartNextExecutionID,
         StartCreateLog, CreateExecutionLog, StartResolveWorkspace, StartRun, EndRun, taskVars
    <3> QED
      BY <3>1, <3>2, <3>3
  <2> QED
    BY <2>1, <2>2, <2>3 DEF OutputsFit
<1>2. ASSUME start' = [s \in Start |-> IdleStart], executions' = executions PROVE OutputsFit'
  BY <1>2 DEF OutputsFit, IdleStart, Recorded
<1>3. ASSUME start' = start, executions' = executions PROVE OutputsFit'
  BY <1>3 DEF OutputsFit, Recorded
<1> QED
  BY <1>1, <1>2, <1>3, StepCases, OthersEffect

LEMMA FreshKept ==
  ASSUME ControlInv, Fresh, [Next]_vars
  PROVE  Fresh'
<1> USE DEF ControlInv, HandlersTyped, Early, Owning
<1>1. ASSUME NEW s \in Start, StartStep(s) PROVE Fresh'
  <2>1. Own(s) /\ (Waits(s) \/ Takes(s) \/ Keeps(s) \/ Settles(s))
    BY <1>1, RequestEffect
  <2>2. \A other \in Start : other # s => start'[other] = start[other]
    BY <2>1 DEF StartShape, Own
  <2>3. logs \subseteq logs'
    BY <2>1 DEF Waits, Takes, Keeps, Settles
  <2>4. Owns(s) => start[s].id \in logs
    BY DEF OwnersInv, ExclusiveExecution
  <2>5. DOMAIN branch' \subseteq logs'
    BY <1>1, <2>3, <2>4, RequestBranches DEF Fresh, Owns
  <2>6. ASSUME NEW other \in Start, start'[other].pc = "logged"
        PROVE  start'[other].id \notin DOMAIN branch'
    <3>1. CASE other # s
      <4>1. Owns(other) /\ start'[other] = start[other] /\ start[other].id \notin DOMAIN branch
        BY <2>2, <2>6, <3>1 DEF Owns, Fresh
      <4>2. Owns(s) => start[s].id # start[other].id
        BY <3>1, <4>1 DEF OwnersInv, ExclusiveExecution
      <4> QED
        BY <1>1, <4>1, <4>2, RequestBranches DEF Owns
    <3>2. CASE other = s
      <4>1. CASE Takes(s)
        <5>1. branch' = branch
          BY <1>1, <4>1, RequestBranches DEF Takes
        <5> QED
          BY <3>2, <4>1, <5>1 DEF Takes, Fresh
      <4>2. CASE ~ Takes(s)
        <5>1. start[s].pc \in Owning /\ ~ StartCreateLog(s)
          BY <2>1, <2>6, <3>2, <4>2 DEF Waits, Keeps, Settles, StartCreateLog
        <5>2. start'[s].pc # "logged"
          <6>1. CASE StartResolveWorkspace(s) \/ StartRun(s) \/ EndRun(s)
            <7>1. \/ Goto(s, "workspace") \/ Goto(s, "running")
                  \/ \E status, output : End(s, status, output)
              BY <6>1 DEF StartResolveWorkspace, StartRun, EndRun
            <7> QED
              BY <7>1 DEF Goto, End, StartShape
          <6>2. CASE StartRecord(s)
            <7>1. IdleStart.pc = "idle"
              BY DEF IdleStart
            <7> QED
              BY <6>2, <7>1, FinishEffect DEF StartRecord
          <6> QED
            BY <1>1, <5>1, <6>1, <6>2 DEF StartStep, StartGet, StartListReviews,
               StartResolveContinuation,
               StartNextExecutionID
        <5> QED
          BY <2>6, <3>2, <5>2
      <4> QED
        BY <4>1, <4>2
    <3> QED
      BY <3>1, <3>2
  <2> QED
    BY <2>5, <2>6 DEF Fresh
<1>2. ASSUME logs' = logs, DOMAIN branch' \subseteq DOMAIN branch,
             start' = start \/ start' = [s \in Start |-> IdleStart]
      PROVE  Fresh'
  <2>1. IdleStart.pc = "idle"
    BY DEF IdleStart
  <2> QED
    BY <1>2, <2>1 DEF Fresh
<1> QED
  BY <1>1, <1>2, StepCases, OthersEffect, OthersBranches

LEMMA HandlersStoreTyped == ControlInv /\ [Next]_vars => TypeOK'
BY HandlersUseStore, StoreTyped DEF ControlInv

\* What a retry that waits for its workspace will fork from.
ForkFits(p) ==
    /\ p.feedback <= Len(reviews)
    /\ p.pc \in {"resolved", "chosen"} \union Owning /\ p.feedback # 0 =>
          Subject(p.feedback) = 0 \/ SubjectBranch(p.feedback) \in {0, p.fork}

LEMMA ForkFitsStays ==
  ASSUME ControlInv, [Next]_vars, RecordsKept, NEW p \in RequestRecord, ForkFits(p)
  PROVE  ForkFits(p)'
<1>1. p.feedback \in Nat /\ Len(reviews) \in Nat /\ Len(reviews') \in Nat
  <2>1. reviews \in Seq(Review) /\ reviews' \in Seq(Review)
    BY HandlersStoreTyped DEF ControlInv, TypeOK
  <2>2. p.feedback \in 0..MaxReview /\ MaxReview \in Nat
    BY TaskStoreAssumption DEF RequestRecord
  <2> QED
    BY <2>1, <2>2
<1>2. Len(reviews) <= Len(reviews')
  BY DEF RecordsKept
<1>3. p.feedback <= Len(reviews')
  BY <1>1, <1>2 DEF ForkFits
<1>4. CASE p.feedback = 0
  BY <1>3, <1>4 DEF ForkFits
<1>5. CASE p.feedback # 0
  <2>1. p.feedback \in 1..Len(reviews)
    BY <1>1, <1>5 DEF ForkFits
  <2>2. /\ reviews'[p.feedback] = reviews[p.feedback]
        /\ Subject(p.feedback) # 0 =>
              executions'[Subject(p.feedback)] = executions[Subject(p.feedback)]
    BY <2>1, SubjectStays
  <2> QED
    BY <1>3, <2>2 DEF ForkFits, Subject, SubjectBranch
<1> QED
  BY <1>4, <1>5

LEMMA ForksKept ==
  ASSUME ControlInv, ForksFit, [Next]_vars, RecordsKept
  PROVE  ForksFit'
<1> USE DEF ControlInv, HandlersTyped
<1>a. \A p : ForkFits(p) <=>
         /\ p.feedback <= Len(reviews)
         /\ p.pc \in {"resolved", "chosen"} \union Owning /\ p.feedback # 0 =>
               Subject(p.feedback) = 0 \/ SubjectBranch(p.feedback) \in {0, p.fork}
  BY DEF ForkFits
<1>b. \A s \in Start : ForkFits(start[s]) /\ start[s] \in RequestRecord
  BY <1>a DEF ForksFit, FeedbackFits, StartsTyped
<1>c. (\A s \in Start : ForkFits(start[s])') => ForksFit'
  BY DEF ForksFit, ForkFits
<1>i. ForkFits(IdleStart)
  <2>1. IdleStart.pc = "idle" /\ IdleStart.feedback = 0
    BY DEF IdleStart
  <2>2. Len(reviews) \in Nat
    BY DEF TypeOK
  <2> QED
    BY <2>1, <2>2 DEF ForkFits, Owning
<1>1. ASSUME NEW s \in Start, StartStep(s) PROVE ForksFit'
  <2>1. \A other \in Start : other # s => start'[other] = start[other]
    BY <1>1, RequestEffect DEF StartShape, Own
  <2>2. \A other \in Start : other # s => ForkFits(start[other])'
    BY <1>b, <2>1, ForkFitsStays
  <2>3. start'[s] \in RequestRecord
    BY <1>1, RequestTypes DEF StartsTyped
  <2>4. ASSUME ForkFits(start'[s]) PROVE ForksFit'
    BY <1>c, <2>2, <2>3, <2>4, ForkFitsStays
  <2>5. start[s].pc \in {"resolved", "chosen"} \union Owning /\ start'[s].fork = start[s].fork
           /\ start'[s].feedback = start[s].feedback => ForkFits(start'[s])
    BY <1>a, <1>b
  <2>6. Finish(s) => ForkFits(start'[s])
    BY <1>i, FinishEffect
  <2>7. ASSUME NEW e \in Executor, StartGet(s, e) PROVE ForkFits(start'[s])
    <3>1. start'[s].pc = "got" /\ start'[s].feedback = start[s].feedback
      BY <2>7 DEF StartGet, StartShape
    <3> QED
      BY <1>b, <3>1 DEF ForkFits, Owning
  <2>11. CASE StartListReviews(s)
    <3>1. NeedsChanges \in 0..MaxReview /\ (NeedsChanges # 0 => NeedsChanges \in 1..Len(reviews))
      BY ForkRange
    <3>2. start'[s].pc = "reviewed" /\ start'[s].feedback = NeedsChanges
      BY <2>11, <3>1, ListEffect
    <3>3. NeedsChanges <= Len(reviews)
      BY <3>1 DEF TypeOK
    <3> QED
      BY <2>4, <3>2, <3>3 DEF ForkFits, Owning
  <2>8. CASE StartResolveContinuation(s)
    <3> DEFINE f == start[s].feedback
    <3>1. f <= Len(reviews)
      BY <1>b DEF ForkFits
    <3>2. ASSUME NEW fork, Fork(s, fork),
                 f # 0 => Subject(f) = 0 \/ SubjectBranch(f) \in {0, fork}
          PROVE  ForkFits(start'[s])
      <4>1. start'[s].feedback = f /\ start'[s].fork = fork
        BY <3>2 DEF Fork, StartShape
      <4> QED
        BY <3>1, <3>2, <4>1 DEF ForkFits
    <3>3. f # 0 /\ Subject(f) # 0 => ReviewFork(f) = SubjectBranch(f)
      BY DEF ReviewFork, Subject, SubjectBranch
    <3> HIDE DEF f
    <3>4. Fork(s, ReviewFork(f)) => ForkFits(start'[s])
      BY <3>2, <3>3
    <3>5. \A n : Continuable(n, f) /\ Fork(s, executions[n].output.branch) => ForkFits(start'[s])
      BY <3>2, <3>3 DEF Continuable
    <3> QED
      BY <2>4, <2>6, <2>8, <3>4, <3>5 DEF StartResolveContinuation, f
  <2>9. CASE StartNextExecutionID(s)
    BY <2>4, <2>5, <2>9, ChooseEffect DEF StartNextExecutionID
  <2>10. CASE \/ StartCreateLog(s) \/ StartResolveWorkspace(s) \/ StartRun(s) \/ EndRun(s)
              \/ StartRecord(s)
    <3>1. start[s].pc \in {"chosen"} \union Owning
      BY <2>10 DEF StartCreateLog, StartResolveWorkspace, StartRun, EndRun, StartRecord, Owning
    <3>2. \/ Finish(s) \/ \E pc : Goto(s, pc)
          \/ \E status, output : End(s, status, output)
      BY <2>10 DEF StartCreateLog, StartResolveWorkspace, StartRun, EndRun, StartRecord
    <3>3. ~ Finish(s) =>
             start'[s].fork = start[s].fork /\ start'[s].feedback = start[s].feedback
      BY <3>2 DEF Goto, End, StartShape
    <3> QED
      BY <2>4, <2>5, <2>6, <3>1, <3>3
  <2> QED
    BY <1>1, <2>4, <2>7, <2>8, <2>9, <2>10, <2>11 DEF StartStep
<1>2. ASSUME start' = [s \in Start |-> IdleStart] PROVE ForksFit'
  BY <1>2, <1>c, <1>i, IdleIsRequest, ForkFitsStays
<1>3. ASSUME start' = start PROVE ForksFit'
  BY <1>3, <1>b, <1>c, ForkFitsStays
<1> QED
  BY <1>1, <1>2, <1>3, StepCases, OthersEffect

\* The attempt under review is on record, so nobody owns it and its branch
\* stays as it is, or goes.
LEMMA BuildsStays ==
  ASSUME ControlInv, RetryInv, RecordsKept, NEW s \in Start, start'[s] = start[s],
         NEW S \in SUBSET ExecutionId, SameBranches(S), \A n \in S : n # start[s].id /\ ~ Recorded(n)
  PROVE  Builds(s)'
<1> USE DEF ControlInv, HandlersTyped
<1> DEFINE f == start[s].feedback
           b == SubjectBranch(f)
<1>1. SUFFICES ASSUME start[s].pc \in {"workspace", "running", "ended"}, f # 0,
                      Subject(f)' # 0, SubjectBranch(f)' \in DOMAIN branch',
                      start[s].id \in DOMAIN branch'
               PROVE  branch'[SubjectBranch(f)'] \subseteq branch'[start[s].id]
  BY DEF Builds
<1>2. f \in 1..Len(reviews)
  <2>1. f \in 0..MaxReview
    BY DEF StartsTyped, RequestRecord
  <2>2. f <= Len(reviews)
    BY DEF FeedbackFits
  <2>3. Len(reviews) \in Nat /\ MaxReview \in Nat
    BY TaskStoreAssumption DEF TypeOK
  <2> QED
    BY <1>1, <2>1, <2>2, <2>3
<1>3. /\ Subject(f) # 0 /\ Subject(f) \in ExecutionId /\ Recorded(Subject(f))
      /\ SubjectBranch(f)' = b /\ Subject(f)' = Subject(f)
  <2>1. reviews'[f] = reviews[f]
    BY <1>2, SubjectStays
  <2>2. Subject(f) # 0
    BY <1>1, <2>1 DEF Subject
  <2>3. executions'[Subject(f)] = executions[Subject(f)]
    BY <1>2, <2>2, SubjectStays
  <2> QED
    BY <1>2, <2>1, <2>2, <2>3, SubjectStays DEF Subject, SubjectBranch
<1>4. b \in {0, Subject(f)}
  BY <1>3 DEF RetryInv, OutputsFit, SubjectBranch
<1>5. b \notin S /\ start[s].id \notin S
  <2>1. 0 \notin S /\ Subject(f) \notin S
    BY <1>3 DEF ExecutionId
  <2> HIDE DEF b
  <2> QED
    BY <1>4, <2>1
<1>6. /\ b \in DOMAIN branch /\ branch'[b] = branch[b]
      /\ start[s].id \in DOMAIN branch /\ branch'[start[s].id] = branch[start[s].id]
  BY <1>1, <1>3, <1>5 DEF SameBranches
<1>7. branch[b] \subseteq branch[start[s].id]
  BY <1>1, <1>3, <1>6 DEF RetryInv, Builds
<1> QED
  BY <1>3, <1>6, <1>7

\* The request's own step: it makes its branch from the subject's, and adds to it.
LEMMA BuildsOwn ==
  ASSUME ControlInv, RetryInv, [Next]_vars, RecordsKept, NEW s \in Start, StartStep(s)
  PROVE  Builds(s)'
<1> USE DEF ControlInv, HandlersTyped
<1> DEFINE f == start[s].feedback
           b == SubjectBranch(f)
           id == start[s].id
<1>i. IdleStart.pc = "idle"
  BY DEF IdleStart
<1>1. CASE start'[s].pc \notin {"workspace", "running", "ended"}
  BY <1>1 DEF Builds
<1>2. CASE start'[s].pc \in {"workspace", "running", "ended"}
  <2>1. start[s].pc \in {"logged", "workspace", "running"}
    <3>1. Waits(s) \/ Takes(s) \/ Keeps(s) \/ Settles(s)
      BY RequestEffect
    <3>2. Keeps(s)
      BY <1>2, <3>1 DEF Waits, Takes, Settles, Early
    <3>3. start[s].pc # "ended"
      <4>1. start[s].pc = "ended" => StartRecord(s)
        BY DEF StartStep, StartGet, StartListReviews, StartResolveContinuation,
           StartNextExecutionID,
           StartCreateLog, StartResolveWorkspace, StartRun, EndRun
      <4>2. StartRecord(s) => start'[s].pc = "idle"
        BY <1>i, FinishEffect DEF StartRecord
      <4> QED
        BY <1>2, <4>1, <4>2
    <3> QED
      BY <3>2, <3>3 DEF Keeps, Owning
  <2>2. /\ start'[s].id = id /\ start'[s].feedback = f /\ id \in ExecutionId
        /\ StartResolveWorkspace(s) \/ StartRun(s) \/ EndRun(s)
    <3>1. StartResolveWorkspace(s) \/ StartRun(s) \/ EndRun(s)
      BY <2>1 DEF StartStep, StartGet, StartListReviews, StartResolveContinuation,
         StartNextExecutionID,
         StartCreateLog, StartRecord
    <3>2. (\E pc : Goto(s, pc)) \/ \E status, output : End(s, status, output)
      BY <3>1 DEF StartResolveWorkspace, StartRun, EndRun
    <3>3. start'[s].id = id /\ start'[s].feedback = f
      BY <3>2 DEF Goto, End, StartShape
    <3> QED
      BY <2>1, <3>1, <3>3 DEF StartShape, Owning
  <2>3. SUFFICES ASSUME f # 0, Subject(f)' # 0, SubjectBranch(f)' \in DOMAIN branch',
                        id \in DOMAIN branch'
                 PROVE  branch'[SubjectBranch(f)'] \subseteq branch'[id]
    BY <2>2 DEF Builds
  <2>4. f \in 1..Len(reviews)
    <3>1. f \in 0..MaxReview
      BY DEF StartsTyped, RequestRecord
    <3>2. f <= Len(reviews)
      BY DEF FeedbackFits
    <3>3. Len(reviews) \in Nat /\ MaxReview \in Nat
      BY TaskStoreAssumption DEF TypeOK
    <3> QED
      BY <2>3, <3>1, <3>2, <3>3
  <2>5. /\ Subject(f) # 0 /\ Subject(f) \in ExecutionId /\ Recorded(Subject(f))
        /\ SubjectBranch(f)' = b
    <3>1. reviews'[f] = reviews[f]
      BY <2>4, SubjectStays
    <3>2. Subject(f) # 0
      BY <2>2, <2>3, <3>1 DEF Subject
    <3>3. executions'[Subject(f)] = executions[Subject(f)]
      BY <2>4, <3>2, SubjectStays
    <3>4. SubjectBranch(f)' = b
      BY <2>2, <3>1, <3>3 DEF Subject, SubjectBranch
    <3> QED
      BY <2>4, <3>2, <3>4, SubjectStays
  <2>6. b \in {0, Subject(f)}
    BY <2>5 DEF RetryInv, OutputsFit, SubjectBranch
  <2>7. b # id
    <3>1. ~ Recorded(id)
      BY <2>1 DEF OwnersInv, ExclusiveExecution, Owns
    <3> QED
      BY <2>2, <2>5, <2>6, <3>1 DEF ExecutionId
  <2>8. b \in DOMAIN branch /\ branch'[b] = branch[b]
    <3>1. branch' = branch \/ SameBranches({id})
      BY RequestBranches
    <3> QED
      BY <2>3, <2>5, <2>7, <3>1 DEF SameBranches
  <2>9. CASE StartResolveWorkspace(s)
    <3>1. start[s].pc = "logged" /\ id \notin DOMAIN branch
      BY <2>9 DEF StartResolveWorkspace, RetryInv, Fresh
    <3>2. branch' = PointRef(branch, id, ForkRef(start[s].fork))
      BY <2>3, <2>9, <3>1 DEF StartResolveWorkspace, ResolveExecutionWorkspace,
         FailToResolveWorkspace
    <3>3. b # 0
      BY <2>8, ExecutionControlAssumption, GitTyped DEF RefsTyped, ExecutionId
    <3>4. start[s].fork = b
      BY <2>3, <2>5, <3>1, <3>3 DEF RetryInv, ForksFit, Owning
    <3>5. branch'[id] = branch[b]
      BY <3>2, <3>3, <3>4, PointedBranches DEF ForkRef
    <3> QED
      BY <2>5, <2>8, <3>5
  <2>10. CASE StartRun(s)
    <3>1. branch' = branch /\ start[s].pc = "workspace"
      BY <2>10 DEF StartRun, gitVars
    <3>2. branch[b] \subseteq branch[id]
      BY <2>3, <2>5, <2>8, <3>1 DEF RetryInv, Builds
    <3> QED
      BY <2>5, <3>1, <3>2
  <2>11. CASE EndRun(s)
    <3>1. PICK committed \in BOOLEAN, dirty \in BOOLEAN :
             AgentWork({id}, IF committed THEN {id} ELSE {}, IF dirty THEN {id} ELSE {})
      BY <2>11 DEF EndRun
    <3>2. DOMAIN branch' = DOMAIN branch /\ \A n \in DOMAIN branch : branch[n] \subseteq branch'[n]
      BY <3>1, WorkedBranches
    <3>3. start[s].pc = "running"
      BY <2>11 DEF EndRun
    <3>4. branch[b] \subseteq branch[id]
      BY <2>3, <2>5, <2>8, <3>2, <3>3 DEF RetryInv, Builds
    <3> QED
      BY <2>3, <2>5, <2>8, <3>2, <3>4
  <2> QED
    BY <2>2, <2>9, <2>10, <2>11
<1> QED
  BY <1>1, <1>2

LEMMA RetryKept ==
  ASSUME ControlInv, RetryInv, [Next]_vars
  PROVE  RetryInv'
<1> USE DEF ControlInv, HandlersTyped
<1>0. RecordsKept
  BY HandlersUseStore, StepShape
<1>1. OutputsFit' /\ Fresh' /\ ForksFit'
  BY <1>0, OutputsKept, FreshKept, ForksKept DEF RetryInv
<1>2. ASSUME NEW s \in Start PROVE Builds(s)'
  <2>1. ASSUME NEW other \in Start, StartStep(other), other # s PROVE Builds(s)'
    <3>1. start'[s] = start[s]
      BY <2>1, RequestEffect DEF StartShape, Own
    <3>2. CASE start[s].pc \notin {"workspace", "running", "ended"}
      BY <3>1, <3>2 DEF Builds
    <3>3. CASE start[s].pc \in {"workspace", "running", "ended"}
      <4>1. CASE branch' = branch
        <5>1. SameBranches({})
          BY <4>1 DEF SameBranches
        <5> QED
          BY <1>0, <3>1, <5>1, BuildsStays
      <4>2. CASE /\ start[other].pc \in {"logged", "running"} /\ start[other].id \in ExecutionId
                 /\ SameBranches({start[other].id})
        <5>1. Owns(s) /\ Owns(other)
          BY <3>3, <4>2 DEF Owns
        <5>2. start[other].id # start[s].id /\ ~ Recorded(start[other].id)
          BY <2>1, <5>1 DEF OwnersInv, ExclusiveExecution
        <5>3. {start[other].id} \in SUBSET ExecutionId
          BY <4>2
        <5> QED
          BY <1>0, <3>1, <4>2, <5>2, <5>3, BuildsStays
      <4> QED
        BY <2>1, <4>1, <4>2, RequestBranches
    <3> QED
      BY <3>2, <3>3
  <2>2. ASSUME start' = start, SameBranches({}) PROVE Builds(s)'
    BY <1>0, <2>2, BuildsStays
  <2>3. ASSUME start' = [x \in Start |-> IdleStart] PROVE Builds(s)'
    BY <2>3 DEF Builds, IdleStart
  <2>4. StartStep(s) => Builds(s)'
    BY <1>0, BuildsOwn
  <2> QED
    BY <2>1, <2>2, <2>3, <2>4, StepCases, OthersBranches
<1> QED
  BY <1>1, <1>2 DEF RetryInv

LEMMA RetryInit == Init => RetryInv
<1> SUFFICES ASSUME Init PROVE RetryInv
  OBVIOUS
<1>1. IdleStart.pc = "idle" /\ IdleStart.feedback = 0
  BY DEF IdleStart
<1>2. reviews = << >> /\ branch = << >> /\ \A n \in ExecutionId : ~ Recorded(n)
  BY DEF Init, TaskInit, GitInit, Recorded
<1>3. \A s \in Start : start[s] = IdleStart
  BY DEF Init
<1>4. OutputsFit /\ Fresh
  BY <1>1, <1>2, <1>3 DEF OutputsFit, Fresh
<1>5. ForksFit
  BY <1>1, <1>2, <1>3 DEF ForksFit, Owning
<1> QED
  BY <1>1, <1>3, <1>4, <1>5 DEF RetryInv, Builds

UnderReview == {"review", "pr_review"}
Leaving == {"cleanup", "completed", ""}
Settled == {"review", "pr_review", "cleanup", "completed"}

\* Unless an attempt is put on record, no step brings the task under review, and
\* nothing ever brings it back from cleanup.
LEMMA StageMoves ==
  ASSUME TypeOK, [TaskNext]_taskVars, executions' = executions
  PROVE  /\ task'.stage \in Settled => task.stage \in Settled
         /\ task'.stage \in UnderReview => task.stage \in UnderReview
         /\ task.stage \in Leaving => task'.stage \in Leaving
<1>1. LifecycleStep
  BY StepRefines
<1>2. Successes' = Successes
  BY DEF Successes
<1>3. ASSUME NEW n, L!Succeed(n) PROVE FALSE
  BY <1>2, <1>3 DEF L!Succeed, Successes
<1>4. CASE L!Create \/ L!Damage
  BY <1>4 DEF L!Create, L!Damage, L!Reached, UnderReview, Leaving, Settled
<1>5. CASE L!Move
  <2>1. PICK edge \in L!HumanEdges : task.stage = edge[1] /\ task'.stage \in {edge[2], task.stage, ""}
    BY <1>5 DEF L!Move, L!Reached
  <2>2. edge[1] \in {"requirements", "planning", "implementation", "review", "pr_review", "cleanup"}
    BY DEF L!HumanEdges
  <2>3. edge[1] = "cleanup" => edge[2] = "completed"
    BY DEF L!HumanEdges
  <2>4. edge[2] \in Settled => edge[1] \in {"cleanup", "pr_review"}
    BY DEF L!HumanEdges, Settled
  <2>5. edge[2] \notin UnderReview
    BY DEF L!HumanEdges, UnderReview
  <2> QED
    BY <2>1, <2>2, <2>3, <2>4, <2>5 DEF UnderReview, Leaving, Settled
<1>7. ASSUME NEW r, NEW decision \in L!Decisions, L!Judge(r, decision)
      PROVE  task.stage \in UnderReview
  BY <1>7 DEF L!Judge, UnderReview
<1>6. CASE task'.stage = task.stage
  BY <1>6
<1> QED
  BY <1>1, <1>3, <1>4, <1>5, <1>6, <1>7 DEF LifecycleStep, L!Next, UnderReview, Leaving, Settled

\* A task under review has an attempt on record, so a verdict always names one.
NamedInv ==
    /\ task.stage \in UnderReview => \E n \in ExecutionId : Recorded(n)
    /\ \A r \in 1..Len(reviews) : reviews[r].execution # 0

\* A request that changes the records adds one.
LEMMA RecordAdded ==
  ASSUME ControlInv, [Next]_vars, executions' # executions
  PROVE  \E n \in ExecutionId : Recorded(n)'
<1>1. PICK s \in Start : StartStep(s)
  BY StepCases, OthersEffect
<1>2. start[s].pc = "ended" /\ start[s].id \in ExecutionId
  BY <1>1, RequestEffect DEF ControlInv, StartShape, Waits, Takes, Keeps, Settles, Owning
<1>3. StartRecord(s)
  BY <1>1, <1>2 DEF StartStep, StartGet, StartListReviews, StartResolveContinuation,
     StartNextExecutionID, StartCreateLog, StartResolveWorkspace, StartRun, EndRun
<1>4. PICK status \in {"success", "failure"} :
        executions' = [executions EXCEPT ![start[s].id] =
                         [status |-> status, output |-> start[s].output]]
  BY <1>3 DEF StartRecord, RecordSuccess, RecordFailure, taskVars
<1>5. executions'[start[s].id] # NoExecution
  <2>1. executions'[start[s].id].status = status
    BY <1>2, <1>4 DEF ControlInv, TypeOK
  <2> QED
    BY <2>1 DEF NoExecution
<1> QED
  BY <1>2, <1>5 DEF Recorded

LEMMA NamedKept ==
  ASSUME ControlInv, NamedInv, [Next]_vars
  PROVE  NamedInv'
<1> USE DEF ControlInv
<1>0. [TaskNext]_taskVars
  BY HandlersUseStore
<1>1. task'.stage \in UnderReview => \E n \in ExecutionId : Recorded(n)'
  <2>1. CASE executions' = executions
    <3>1. task'.stage \in UnderReview => task.stage \in UnderReview
      BY <1>0, <2>1, StageMoves
    <3> QED
      BY <2>1, <3>1 DEF NamedInv, Recorded
  <2> QED
    BY <2>1, RecordAdded
<1>2. \A r \in 1..Len(reviews') : reviews'[r].execution # 0
  <2>1. CASE Verdict
    <3>1. PICK execution \in 0..MaxExecution, decision \in Decisions :
             /\ task.stage \in UnderReview /\ IsLastExecution(execution)
             /\ reviews' = Append(reviews, [execution |-> execution, decision |-> decision])
      BY <2>1 DEF Verdict, UnderReview
    <3>2. execution # 0
      BY <3>1 DEF NamedInv, IsLastExecution, ExecutionId
    <3>3. /\ reviews \in Seq(Review)
          /\ [execution |-> execution, decision |-> decision].execution = execution
      BY DEF TypeOK
    <3> DEFINE record == [execution |-> execution, decision |-> decision]
    <3>4. record.execution # 0 /\ reviews' = Append(reviews, record)
      BY <3>1, <3>2
    <3> HIDE DEF record
    <3>5. /\ Len(reviews') = Len(reviews) + 1 /\ reviews'[Len(reviews) + 1] = record
          /\ \A r \in 1..Len(reviews) : reviews'[r] = reviews[r]
      BY <3>3, <3>4
    <3>6. \A r \in 1..Len(reviews') : r \in 1..Len(reviews) \/ r = Len(reviews) + 1
      BY <3>3, <3>5
    <3> QED
      BY <3>4, <3>5, <3>6 DEF NamedInv
  <2> QED
    BY <1>0, <2>1, ReviewsMove DEF NamedInv
<1> QED
  BY <1>1, <1>2 DEF NamedInv

LEMMA NamedInit == Init => NamedInv
BY DEF Init, TaskInit, BareTask, NamedInv, UnderReview

LEMMA BuildsIsRetry ==
  ASSUME ControlInv, RetryInv, NamedInv
  PROVE  RetryBuildsOnReviewed
<1> USE DEF ControlInv, HandlersTyped
<1> SUFFICES ASSUME NEW s \in Start, start[s].feedback # 0,
                    start[s].pc \in {"workspace", "running", "ended"}
             PROVE  /\ Subject(start[s].feedback) # 0 /\ Recorded(Subject(start[s].feedback))
                    /\ /\ SubjectBranch(start[s].feedback) \in DOMAIN branch
                       /\ start[s].id \in DOMAIN branch
                       => branch[SubjectBranch(start[s].feedback)] \subseteq branch[start[s].id]
  BY DEF RetryBuildsOnReviewed, Subject, SubjectBranch
<1>1. start[s].feedback \in 1..Len(reviews)
  <2>1. start[s].feedback \in Nat /\ Len(reviews) \in Nat
    BY FeedbackNumber DEF TypeOK
  <2> QED
    BY <2>1 DEF FeedbackFits
<1>2. Subject(start[s].feedback) # 0 /\ Recorded(Subject(start[s].feedback))
  BY <1>1 DEF NamedInv, ReviewsFit, Subject
<1> QED
  BY <1>2 DEF RetryInv, Builds

\* Whatever attempts fail, succeed or are reviewed between a verdict and the
\* retry that answers it, the verdict is about an attempt on record, and the
\* retry holds the commits under review for as long as both branches exist.
THEOREM RetriesBuildOnReviewed == Spec => []RetryBuildsOnReviewed
<1>1. ControlInv /\ RetryInv /\ NamedInv => RetryBuildsOnReviewed
  BY BuildsIsRetry
<1>2. Spec => [](RetryInv /\ NamedInv)
  BY RetryInit, RetryKept, NamedInit, NamedKept, ControlInvariant, PTL DEF Spec
<1> QED
  BY <1>1, <1>2, ControlInvariant, PTL

-----------------------------------------------------------------------------
(* One request at a time: the latest attempt is the one under review.      *)

\* The client waits for a task's execute request before it sends the next.  The
\* server does not insist, and with two in flight what follows does not hold.
OneRequest == \A s, other \in Start : s = other

\* No request is in flight once the task is under review or past it.
InFlight == \A s \in Start : start[s].pc # "idle" => task.stage \notin Settled

\* The latest attempt of a task under review succeeded.
Succeeded(n) == IsLastExecution(n) /\ executions[n].status = "success"
LatestSucceeds == task.stage \in UnderReview => \E n \in ExecutionId : Succeeded(n)

\* The id a request owns is the latest there is.
OwnerLatest == \A s \in Start : Owns(s) => \A n \in logs : n <= start[s].id

SubjectInv == InFlight /\ LatestSucceeds /\ OwnerLatest /\ ReviewNamesSuccess

LEMMA InFlightKept ==
  ASSUME OneRequest, ControlInv, InFlight, [Next]_vars
  PROVE  InFlight'
<1> USE DEF ControlInv
<1>0. executions' = executions => (task'.stage \in Settled => task.stage \in Settled)
  BY HandlersUseStore, StageMoves
<1>1. ASSUME NEW s \in Start, StartStep(s) PROVE InFlight'
  <2>1. SUFFICES ASSUME start'[s].pc # "idle" PROVE task'.stage \notin Settled
    BY DEF OneRequest, InFlight
  <2>2. executions' = executions
    BY <1>1, <2>1, RequestEffect DEF Waits, Takes, Keeps, Settles
  <2>3. task.stage \notin Settled
    <3>1. CASE start[s].pc = "idle"
      <4>1. \E executor \in Executor : StartGet(s, executor)
        BY <1>1, <3>1 DEF StartStep, StartListReviews, StartResolveContinuation,
           StartNextExecutionID,
           StartCreateLog, StartResolveWorkspace, StartRun, EndRun, StartRecord
      <4> QED
        BY <4>1 DEF StartGet, Settled, UnderReview, Leaving
    <3> QED
      BY <3>1 DEF InFlight
  <2> QED
    BY <1>0, <2>2, <2>3
<1>2. ASSUME start' = [s \in Start |-> IdleStart] PROVE InFlight'
  BY <1>2 DEF InFlight, IdleStart
<1>3. ASSUME start' = start, executions' = executions PROVE InFlight'
  BY <1>0, <1>3 DEF InFlight
<1> QED
  BY <1>1, <1>2, <1>3, StepCases, OthersEffect

LEMMA OwnerLatestKept ==
  ASSUME OneRequest, ControlInv, OwnerLatest, [Next]_vars
  PROVE  OwnerLatest'
<1> USE DEF ControlInv, Early, Owning
<1>1. ASSUME NEW s \in Start, StartStep(s) PROVE OwnerLatest'
  <2>1. SUFFICES ASSUME Owns(s)' PROVE \A n \in logs' : n <= start'[s].id
    BY DEF OneRequest, OwnerLatest
  <2>2. Takes(s) \/ Keeps(s)
    BY <1>1, <2>1, RequestEffect DEF Waits, Settles, Owns
  <2>3. CASE Takes(s)
    <3>1. start[s].id \in ExecutionId /\ start[s].pc = "chosen" /\ start[s].id \notin logs
      BY <2>3 DEF Takes, StartShape
    <3>2. \A n \in logs : n < start[s].id
      BY <3>1, ChosenIsNext DEF IsNextExecutionID
    <3>3. logs \subseteq ExecutionId
      BY DEF TypeOK
    <3>4. \A n \in logs : n <= start[s].id
      BY <3>1, <3>2, <3>3 DEF ExecutionId
    <3>5. logs' = logs \union {start[s].id} /\ start'[s].id = start[s].id
      BY <2>3 DEF Takes
    <3> QED
      BY <3>1, <3>4, <3>5 DEF ExecutionId
  <2>4. CASE Keeps(s)
    <3>1. Owns(s)
      BY <2>4 DEF Keeps, Owns
    <3> QED
      BY <2>4, <3>1 DEF Keeps, OwnerLatest
  <2> QED
    BY <2>2, <2>3, <2>4
<1>2. ASSUME start' = [s \in Start |-> IdleStart] PROVE OwnerLatest'
  BY <1>2 DEF OwnerLatest, Owns, IdleStart
<1>3. ASSUME start' = start, logs' = logs PROVE OwnerLatest'
  BY <1>3 DEF OwnerLatest, Owns
<1> QED
  BY <1>1, <1>2, <1>3, StepCases, OthersEffect

\* The record the latest attempt makes is the last one.
LEMMA RecordedIsLast ==
  ASSUME ControlInv, NEW n \in ExecutionId, \A m \in logs : m <= n, NEW output,
         executions' = [executions EXCEPT ![n] = [status |-> "success", output |-> output]]
  PROVE  Succeeded(n)'
<1> USE DEF ControlInv
<1>1. executions'[n] = [status |-> "success", output |-> output]
  BY DEF StartShape
<1>2. executions'[n].status = "success" /\ executions'[n] # NoExecution
  BY <1>1 DEF NoExecution
<1>3. \A m \in ExecutionId : executions'[m] # NoExecution => m <= n
  <2> TAKE m \in ExecutionId
  <2>1. CASE m = n
    BY <2>1 DEF ExecutionId
  <2>2. CASE m # n
    <3>1. executions'[m] = executions[m]
      BY <2>2 DEF StartShape
    <3> QED
      BY <3>1 DEF OwnersInv, RecordedLogged, Recorded
  <2> QED
    BY <2>1, <2>2
<1> QED
  BY <1>2, <1>3 DEF Succeeded, IsLastExecution, Recorded

LEMMA LatestKept ==
  ASSUME OneRequest, ControlInv, SubjectInv, [Next]_vars
  PROVE  LatestSucceeds'
<1> USE DEF ControlInv
<1>1. CASE executions' = executions
  <2>1. task'.stage \in UnderReview => task.stage \in UnderReview
    BY <1>1, HandlersUseStore, StageMoves
  <2>2. ASSUME NEW n \in ExecutionId, Succeeded(n) PROVE Succeeded(n)'
    BY <1>1, <2>2 DEF Succeeded, IsLastExecution, Recorded
  <2> QED
    BY <2>1, <2>2 DEF SubjectInv, LatestSucceeds
<1>2. CASE executions' # executions
  <2>1. PICK s \in Start : StartStep(s) /\ Settles(s)
    BY <1>2, StepCases, OthersEffect, RequestEffect DEF Waits, Takes, Keeps
  <2>2. start[s].pc = "ended"
    BY <2>1 DEF Settles
  <2>3. StartRecord(s)
    BY <2>1, <2>2 DEF StartStep, StartGet, StartListReviews, StartResolveContinuation,
       StartNextExecutionID,
       StartCreateLog, StartResolveWorkspace, StartRun, EndRun
  <2>4. task.stage \notin UnderReview
    BY <2>2 DEF SubjectInv, InFlight, Settled, UnderReview
  <2>5. CASE task' = task
    BY <2>4, <2>5 DEF LatestSucceeds
  <2>6. CASE \E done \in Landed(3) : RecordSuccess(start[s].id, start[s].output, done)
    <3>1. PICK n \in ExecutionId : n = start[s].id
      BY <2>2 DEF StartShape, Owning
    <3>2. executions' = [executions EXCEPT ![n] = [status |-> "success", output |-> start[s].output]]
      BY <1>2, <2>6, <3>1 DEF RecordSuccess
    <3>3. \A m \in logs : m <= n
      BY <2>2, <3>1 DEF SubjectInv, OwnerLatest, Owns
    <3>4. Succeeded(n)'
      BY <3>2, <3>3, RecordedIsLast
    <3> QED
      BY <3>4 DEF LatestSucceeds
  <2> QED
    BY <1>2, <2>3, <2>5, <2>6 DEF StartRecord, RecordFailure, taskVars
<1> QED
  BY <1>1, <1>2

\* There is one last execution.
LEMMA LastIsUnique ==
  ASSUME NEW n \in ExecutionId, NEW m \in 0..MaxExecution, Recorded(n),
         IsLastExecution(n), IsLastExecution(m)
  PROVE  m = n
<1>1. n <= m
  BY DEF IsLastExecution
<1>2. n \in Nat \ {0} /\ m \in Nat
  BY DEF ExecutionId
<1>3. m \in {x \in ExecutionId : Recorded(x)}
  BY <1>1, <1>2 DEF IsLastExecution
<1>4. m <= n
  BY <1>3 DEF IsLastExecution
<1> QED
  BY <1>1, <1>2, <1>4

LEMMA LatestIsLast ==
  ASSUME NEW n \in ExecutionId, NEW m \in 0..MaxExecution, Succeeded(n), IsLastExecution(m)
  PROVE  m = n
<1>1. Recorded(n)
  BY DEF Recorded, Succeeded, NoExecution
<1> QED
  BY <1>1, LastIsUnique DEF Succeeded

LEMMA NamesSuccessKept ==
  ASSUME ControlInv, SubjectInv, [Next]_vars
  PROVE  ReviewNamesSuccess'
<1> USE DEF ControlInv
<1>1. [TaskNext]_taskVars /\ RecordsKept
  BY HandlersUseStore, StepShape
<1>2. ASSUME NEW n \in 0..MaxExecution, n # 0, executions[n].status = "success"
      PROVE  executions'[n].status = "success"
  <2>1. n \in ExecutionId /\ Recorded(n)
    BY <1>2 DEF ExecutionId, Recorded, NoExecution
  <2> QED
    BY <1>1, <1>2, <2>1 DEF RecordsKept
<1>3. reviews \in Seq(Review) /\ Len(reviews) \in Nat
  BY DEF TypeOK
<1>4. \A r \in 1..Len(reviews) : reviews[r].execution \in 0..MaxExecution
  <2>1. \A r \in 1..Len(reviews) : reviews[r] \in Review
    BY <1>3
  <2> QED
    BY <2>1 DEF Review
<1>5. \A r \in 1..Len(reviews) :
         reviews[r].execution # 0 /\ executions'[reviews[r].execution].status = "success"
  BY <1>2, <1>4 DEF SubjectInv, ReviewNamesSuccess
<1>6. CASE reviews' = reviews
  BY <1>5, <1>6 DEF ReviewNamesSuccess
<1>7. CASE Verdict
  <2>1. PICK execution \in 0..MaxExecution, decision \in Decisions :
           /\ task.stage \in UnderReview
           /\ IsLastExecution(execution)
           /\ reviews' = Append(reviews, [execution |-> execution, decision |-> decision])
    BY <1>7 DEF Verdict, UnderReview
  <2>2. PICK n \in ExecutionId : Succeeded(n)
    BY <2>1 DEF SubjectInv, LatestSucceeds
  <2>3. execution = n
    BY <2>1, <2>2, LatestIsLast
  <2>4. execution # 0 /\ executions'[execution].status = "success"
    <3>1. n # 0
      BY DEF ExecutionId
    <3> QED
      BY <1>2, <2>2, <2>3, <3>1 DEF Succeeded
  <2>5. \A r \in 1..Len(reviews') :
           reviews'[r] = IF r = Len(reviews) + 1 THEN [execution |-> execution, decision |-> decision]
                         ELSE reviews[r]
    BY <1>3, <2>1
  <2>6. \A r \in 1..Len(reviews') : r # Len(reviews) + 1 => r \in 1..Len(reviews)
    BY <1>3, <2>1
  <2>7. \A r \in 1..Len(reviews') :
           reviews'[r].execution # 0 /\ executions'[reviews'[r].execution].status = "success"
    BY <1>5, <2>4, <2>5, <2>6
  <2> QED
    BY <2>7 DEF ReviewNamesSuccess
<1> QED
  BY <1>1, <1>6, <1>7, ReviewsMove

LEMMA SubjectInit == Init => SubjectInv
<1> SUFFICES ASSUME Init PROVE SubjectInv
  OBVIOUS
<1>1. task.stage = "absent" /\ IdleStart.pc = "idle" /\ reviews = << >>
  BY DEF Init, TaskInit, BareTask, IdleStart
<1> QED
  BY <1>1 DEF Init, SubjectInv, InFlight, LatestSucceeds, OwnerLatest, Owns, ReviewNamesSuccess,
     UnderReview

LEMMA SubjectInvariant == OneRequest => (Spec => []SubjectInv)
<1> SUFFICES ASSUME OneRequest PROVE Spec => []SubjectInv
  OBVIOUS
<1>1. ControlInv /\ SubjectInv /\ [Next]_vars => SubjectInv'
  BY InFlightKept, OwnerLatestKept, LatestKept, NamesSuccessKept DEF SubjectInv
<1> QED
  BY <1>1, SubjectInit, ControlInvariant, PTL DEF Spec

\* With one execute request at a time, every verdict is on record against a
\* successful attempt: no failure can follow the success that brought the task
\* under review, since the next attempt starts from implementation only.
THEOREM VerdictsNameSuccess ==
  ASSUME OneRequest
  PROVE  Spec => []ReviewNamesSuccess
<1>1. SubjectInv => ReviewNamesSuccess
  BY DEF SubjectInv
<1> QED
  BY <1>1, SubjectInvariant, PTL

\* A task.yaml that is written has the stage it was written for, or is torn.
LEMMA WrittenStage ==
  ASSUME TypeOK, NEW landed, NEW t, t \in Task, WriteTask(landed, t), landed
  PROVE  task'.stage \in {t.stage, ""}
<1>1. \A stage : BareTask(stage).stage = stage
  BY DEF BareTask
<1> QED
  BY <1>1 DEF WriteTask, TornTask

LEMMA MovedTask ==
  ASSUME TypeOK, NEW to \in Stages
  PROVE  [task EXCEPT !.stage = to] \in Task /\ [task EXCEPT !.stage = to].stage = to
BY DEF TypeOK, Task

\* Unless a verdict's writes are cut short, it takes the task where it points.
LEMMA VerdictMoves ==
  ASSUME TypeOK, "stop" \notin Faults, [TaskNext]_taskVars, reviews' # reviews
  PROVE  \E execution \in 0..MaxExecution, decision \in Decisions :
            /\ IsLastExecution(execution)
            /\ reviews' = Append(reviews, [execution |-> execution, decision |-> decision])
            /\ executions' = executions
            /\ task'.stage \in {VerdictStage[decision], ""}
<1>1. PICK decision \in Decisions, done \in Landed(3) : FinalizeReview(decision, done)
  <2>1. CASE HandlerNext
    BY <2>1 DEF HandlerNext, CreateExecutionLog, RecordFailure, RecordSuccess, RecordPullRequest,
       MarkPRMerged, SetCleanupStatus, CompleteCleanup
  <2>2. CASE HumanNext
    BY <2>2 DEF HumanNext, Create, Update, FinalizeRequirements, FinalizePlan,
       AppendKnowledgeActivity, ReviseToRequirements, ReviseToPlanning
  <2> QED
    BY <2>1, <2>2 DEF TaskNext, taskVars
<1>2. done = 3
  BY DEF Landed
<1>3. task'.stage \in {VerdictStage[decision], ""}
  <2> DEFINE t == [task EXCEPT !.stage = VerdictStage[decision]]
  <2>1. AdvanceStage(3, 2, VerdictStage[decision], "finalize_review", Len(reviews) + 1, 0)
    BY <1>1, <1>2 DEF FinalizeReview
  <2>2. WriteTask(3 > 2, t)
    BY <2>1 DEF AdvanceStage
  <2>3. t \in Task /\ t.stage = VerdictStage[decision]
    BY MovedTask, AdvanceStageArguments
  <2>4. 3 > 2
    OBVIOUS
  <2> HIDE DEF t
  <2> QED
    BY <2>2, <2>3, <2>4, WrittenStage
<1>4. \E execution \in 0..MaxExecution :
         /\ IsLastExecution(execution)
         /\ reviews' = Append(reviews, [execution |-> execution, decision |-> decision])
         /\ executions' = executions
  BY <1>1, <1>2 DEF FinalizeReview, RecordReview
<1> QED
  BY <1>3, <1>4

\* Only a verdict opens the pull request's review.
LEMMA OnlyVerdictOpens ==
  ASSUME TypeOK, [TaskNext]_taskVars, reviews' = reviews, task'.stage = "pr_review"
  PROVE  task.stage = "pr_review"
<1>1. LifecycleStep
  BY StepRefines
<1>2. Verdicts' = Verdicts
  BY DEF Verdicts
<1>3. ASSUME NEW r, NEW decision, L!Judge(r, decision) PROVE FALSE
  <2>1. <<r, decision>> \in Verdicts /\ \A v \in Verdicts : v[1] # r
    BY <1>2, <1>3 DEF L!Judge, Verdicts
  <2>2. <<r, decision>>[1] = r
    OBVIOUS
  <2> QED
    BY <2>1, <2>2
<1>4. CASE L!Create \/ L!Damage
  BY <1>4 DEF L!Create, L!Damage, L!Reached
<1>5. CASE L!Move
  <2>1. PICK edge \in L!HumanEdges : task.stage = edge[1] /\ task'.stage \in {edge[2], task.stage, ""}
    BY <1>5 DEF L!Move, L!Reached
  <2>2. edge[2] # "pr_review"
    BY DEF L!HumanEdges
  <2> QED
    BY <2>1, <2>2
<1>6. ASSUME NEW n, L!Succeed(n) PROVE task.stage = "pr_review"
  BY <1>6 DEF L!Succeed, L!Reached
<1> QED
  BY <1>1, <1>3, <1>4, <1>5, <1>6 DEF LifecycleStep, L!Next

\* A pull request is reviewed for the attempt the latest verdict approved.
Approved ==
    task.stage = "pr_review" =>
       /\ reviews # << >>
       /\ reviews[Len(reviews)].decision = "approved"
       /\ IsLastExecution(reviews[Len(reviews)].execution)

LEMMA ApprovedKept ==
  ASSUME ControlInv, SubjectInv, Approved, "stop" \notin Faults, [Next]_vars
  PROVE  Approved'
<1> USE DEF ControlInv
<1>0. SUFFICES ASSUME task'.stage = "pr_review" PROVE Approved'
  BY DEF Approved
<1>1. [TaskNext]_taskVars
  BY HandlersUseStore
<1>2. reviews \in Seq(Review)
  BY DEF TypeOK
<1>3. CASE reviews' = reviews
  <2>1. task.stage = "pr_review"
    BY <1>0, <1>1, <1>3, OnlyVerdictOpens
  <2>2. executions' = executions
    <3>1. ASSUME NEW s \in Start, Settles(s) PROVE FALSE
      BY <2>1, <3>1 DEF Settles, SubjectInv, InFlight, Settled
    <3> QED
      BY <3>1, StepCases, OthersEffect, RequestEffect DEF Waits, Takes, Keeps
  <2> QED
    BY <1>3, <2>1, <2>2 DEF Approved, IsLastExecution, Recorded
<1>4. CASE reviews' # reviews
  <2>1. PICK execution \in 0..MaxExecution, decision \in Decisions :
            /\ IsLastExecution(execution)
            /\ reviews' = Append(reviews, [execution |-> execution, decision |-> decision])
            /\ executions' = executions
            /\ task'.stage \in {VerdictStage[decision], ""}
    BY <1>1, <1>4, VerdictMoves
  <2>2. decision = "approved"
    BY <1>0, <2>1 DEF Decisions, VerdictStage
  <2>3. reviews' # << >> /\ reviews'[Len(reviews')] = [execution |-> execution, decision |-> decision]
    <3> DEFINE record == [execution |-> execution, decision |-> decision]
    <3>1. record \in Review
      BY DEF Review
    <3>2. reviews' = Append(reviews, record)
      BY <2>1
    <3> HIDE DEF record
    <3>3. Len(reviews') = Len(reviews) + 1 /\ reviews'[Len(reviews')] = record
      BY <1>2, <3>1, <3>2
    <3>4. Len(reviews) \in Nat /\ Len(<< >>) = 0
      BY <1>2
    <3> QED
      BY <3>3, <3>4 DEF record
  <2>4. IsLastExecution(execution)'
    BY <2>1 DEF IsLastExecution, Recorded
  <2> QED
    BY <2>2, <2>3, <2>4 DEF Approved
<1> QED
  BY <1>3, <1>4

\* With one execute request at a time and verdicts whose writes are not cut
\* short, a push that lists the attempts while the task is at pr_review takes the
\* branch of the approved one, though the handler looks for the latest attempt
\* and never at the verdict.  (Its stage check came earlier: nothing holds of a
\* push that lists them after the task has left pr_review.)
THEOREM PushesTakeApproved ==
  ASSUME OneRequest, "stop" \notin Faults
  PROVE  Spec => PushTakesApproved
<1>1. Init => Approved
  BY DEF Init, TaskInit, BareTask, Approved
<1>2. ControlInv /\ SubjectInv /\ Approved /\ [Next]_vars => Approved'
  BY ApprovedKept
<1> DEFINE Approves(p) == /\ reviews # << >>
                          /\ reviews[Len(reviews)].decision = "approved"
                          /\ reviews[Len(reviews)].execution # 0
                          /\ p.new = executions[reviews[Len(reviews)].execution].output.branch
<1>3. ControlInv /\ SubjectInv /\ Approved /\ PushListExecutions
         /\ push'.pc = "read" /\ task.stage = "pr_review" => Approves(push')
  <2> SUFFICES ASSUME ControlInv, SubjectInv, Approved, PushListExecutions,
                      push'.pc = "read", task.stage = "pr_review"
               PROVE  Approves(push')
    OBVIOUS
  <2> USE DEF ControlInv
  <2>0. IdlePush.pc = "idle"
    BY DEF IdlePush
  <2>1. PICK n \in 0..MaxExecution :
           /\ n # 0 /\ IsLastExecution(n)
           /\ push' = [push EXCEPT !.pc = "read", !.new = executions[n].output.branch]
    BY <2>0 DEF PushListExecutions
  <2>7. push'.new = executions[n].output.branch
    BY <2>1 DEF HandlersTyped, PushTyped
  <2>2. /\ reviews # << >> /\ reviews[Len(reviews)].decision = "approved"
        /\ IsLastExecution(reviews[Len(reviews)].execution)
    BY DEF Approved
  <2>3. reviews \in Seq(Review) /\ Len(reviews) \in 1..Len(reviews)
    BY <2>2 DEF TypeOK
  <2>4. reviews[Len(reviews)].execution \in 0..MaxExecution /\ reviews[Len(reviews)].execution # 0
    <3>1. reviews[Len(reviews)] \in Review
      BY <2>3
    <3> QED
      BY <2>3, <3>1 DEF Review, SubjectInv, ReviewNamesSuccess
  <2>5. n \in ExecutionId /\ Recorded(n)
    BY <2>1, TaskStoreAssumption DEF IsLastExecution, ExecutionId
  <2>6. reviews[Len(reviews)].execution = n
    BY <2>1, <2>2, <2>4, <2>5, LastIsUnique
  <2> QED
    BY <2>2, <2>4, <2>6, <2>7
<1>4. ControlInv /\ SubjectInv /\ Approved /\ [Next]_vars
         => [push.pc = "got" /\ push'.pc = "read" /\ task.stage = "pr_review"
               => Approves(push')]_vars
  <2> SUFFICES ASSUME ControlInv, SubjectInv, Approved, [Next]_vars,
                      push.pc = "got", push'.pc = "read", task.stage = "pr_review"
               PROVE  Approves(push')
    OBVIOUS
  <2>1. IdlePush.pc = "idle"
    BY DEF IdlePush
  <2>2. \A s \in Start : StartStep(s) => push' = push
    BY DEF StartStep, StartGet, StartListReviews, StartResolveContinuation, StartNextExecutionID,
       StartCreateLog, StartResolveWorkspace, StartRun, EndRun, StartRecord
  <2>3. CleanupStep \/ HumanStep \/ GitHubStep \/ DeleteByHand \/ UNCHANGED vars => push' = push
    BY DEF CleanupStep, CleanupList, CleanupOne, CleanupReportStatus, CleanupComplete,
       HumanStep, GitHubStep, DeleteByHand, vars
  <2>4. HandleMarkPRMerged \/ HandleTaskCleanup \/ SweepTask => push' = push
    BY DEF HandleMarkPRMerged, HandleTaskCleanup, SweepTask
  <2>5. PushListExecutions
    BY <2>1, <2>2, <2>3, <2>4, StepCases DEF PushStep, PushGet, PushAndOpenPR, PushRecord, Crash
  <2> QED
    BY <1>3, <2>5
<1> QED
  BY <1>1, <1>2, <1>4, SubjectInvariant, ControlInvariant, PTL DEF Spec, PushTakesApproved

-----------------------------------------------------------------------------
(* What a cleanup pass leaves behind.                                      *)

\* No request moves while the task is on its way out and none is in flight.
LEMMA NoRequestSteps ==
  ASSUME task.stage \in Leaving \union Settled, NEW s \in Start, start[s].pc = "idle"
  PROVE  ~ StartStep(s)
BY DEF Leaving, Settled, StartStep, StartGet, StartListReviews, StartResolveContinuation,
   StartNextExecutionID,
   StartCreateLog, StartResolveWorkspace, StartRun, EndRun, StartRecord

\* The others make no worktree, if the server does not die during a run.
LEMMA GoneStaysGone ==
  ASSUME ControlInv, \A s \in Start : start[s].pc = "idle",
         \/ PushStep \/ HandleMarkPRMerged \/ HandleTaskCleanup \/ SweepTask \/ CleanupStep
         \/ HumanStep \/ GitHubStep \/ DeleteByHand \/ Crash \/ UNCHANGED vars
  PROVE  \A n \in ExecutionId : worktree[n] = "none" => worktree'[n] = "none"
<1>0. worktree \in [ExecutionId -> {"none", "clean", "dirty"}]
  BY ExecutionControlAssumption DEF ControlInv, HandlersTyped, GitTypeOK
<1> DEFINE Goal == \A n \in ExecutionId : worktree[n] = "none" => worktree'[n] = "none"
<1>1. ASSUME worktree' = worktree PROVE Goal
  BY <1>1
<1>2. ASSUME NEW n, worktree' = [worktree EXCEPT ![n] = "none"] PROVE Goal
  BY <1>0, <1>2
<1>3. CASE Crash
  <2>1. {start[s].id : s \in {x \in Start : start[x].pc = "running"}} = {}
    OBVIOUS
  <2>2. PICK committed, dirty : AgentWork({}, committed, dirty)
    BY <1>3, <2>1 DEF Crash
  <2>3. worktree' = [n \in ExecutionId |-> worktree[n]]
    BY <2>2, ExecutionControlAssumption DEF AgentWork
  <2> QED
    BY <2>3
<1>4. CASE PushStep
  BY <1>1, <1>4 DEF PushStep, PushGet, PushListExecutions, PushAndOpenPR, PushRecord,
     PushOntoPR, PushNothingOntoPR,
     gitVars
<1>5. CASE HandleMarkPRMerged \/ HandleTaskCleanup \/ SweepTask
  BY <1>1, <1>5 DEF HandleMarkPRMerged, HandleTaskCleanup, SweepTask, gitVars
<1>6. CASE CleanupStep
  <2>1. CASE CleanupOne
    BY <1>1, <1>2, <2>1 DEF CleanupOne, RemoveWorktree, gitVars
  <2>2. CASE CleanupList \/ CleanupReportStatus \/ CleanupComplete
    BY <1>1, <2>2 DEF CleanupList, CleanupReportStatus, CleanupComplete, gitVars
  <2> QED
    BY <1>6, <2>1, <2>2 DEF CleanupStep
<1>7. CASE HumanStep \/ GitHubStep \/ UNCHANGED vars
  BY <1>1, <1>7 DEF HumanStep, GitHubStep, SettlePR, gitVars, vars
<1>8. CASE DeleteByHand
  BY <1>2, <1>8 DEF DeleteByHand, RemoveByHand
<1> QED
  BY <1>3, <1>4, <1>5, <1>6, <1>7, <1>8

\* Only the end of a pass that swept completes the task.
LEMMA OnlyPassCompletes ==
  ASSUME ControlInv, [Next]_vars, task'.stage = "completed", task.stage # "completed"
  PROVE  CleanupComplete
<1> USE DEF ControlInv
<1>1. task.stage = "cleanup"
  <2>1. LifecycleStep
    BY HandlersUseStore, StepRefines
  <2>2. CASE L!Move
    <3>1. PICK edge \in L!HumanEdges : task.stage = edge[1] /\ task'.stage \in {edge[2], task.stage, ""}
      BY <2>2 DEF L!Move, L!Reached
    <3>2. edge[2] = "completed" => edge[1] = "cleanup"
      BY DEF L!HumanEdges
    <3> QED
      BY <3>1, <3>2
  <2>3. CASE L!Create \/ L!Damage
    BY <2>3 DEF L!Create, L!Damage, L!Reached
  <2>4. ASSUME NEW n, L!Succeed(n) PROVE FALSE
    BY <2>4 DEF L!Succeed, L!Reached
  <2>5. ASSUME NEW r, NEW decision \in L!Decisions, L!Judge(r, decision) PROVE FALSE
    BY <2>5 DEF L!Judge, L!Decisions, L!VerdictStage, L!Reached
  <2> QED
    BY <2>1, <2>2, <2>3, <2>4, <2>5 DEF LifecycleStep, L!Next
<1>2. ASSUME NEW t, WriteTask(TRUE, t), t.stage = "cleanup" PROVE FALSE
  <2>1. \A stage : BareTask(stage).stage = stage
    BY DEF BareTask
  <2>2. task'.stage \in {t.stage, ""}
    BY <1>2, <2>1 DEF WriteTask, TornTask
  <2> QED
    BY <1>2, <2>2
<1>3. task \in Task
  BY DEF TypeOK
<1>4. ASSUME NEW status, SetCleanupStatus(status) PROVE FALSE
  BY <1>1, <1>2, <1>3, <1>4 DEF SetCleanupStatus, Task
<1>5. ASSUME HumanNext PROVE FALSE
  <2>1. CASE Update(SaveDefaultsBody)
    <3> DEFINE t == [SaveDefaultsBody EXCEPT !.stage = task.stage]
    <3>1. WriteTask(TRUE, t)
      BY <2>1 DEF Update
    <3>2. t.stage = "cleanup"
      BY <1>1 DEF SaveDefaultsBody, BareTask
    <3> HIDE DEF t
    <3> QED
      BY <1>2, <3>1, <3>2
  <2>2. ASSUME NEW concept \in Concept, AppendKnowledgeActivity(concept) PROVE FALSE
    <3> DEFINE t == [task EXCEPT !.activity = Append(@, concept)]
    <3>1. WriteTask(TRUE, t)
      BY <2>2 DEF AppendKnowledgeActivity
    <3>2. t.stage = "cleanup"
      BY <1>1, <1>3 DEF Task
    <3> HIDE DEF t
    <3> QED
      BY <1>2, <3>1, <3>2
  <2> QED
    BY <1>1, <1>5, <2>1, <2>2 DEF HumanNext, Create, FinalizeRequirements, FinalizePlan,
       FinalizeReview, ReviseToRequirements, ReviseToPlanning
<1>6. ASSUME task' = task PROVE FALSE
  BY <1>6
<1>7. ASSUME NEW s \in Start, StartStep(s) PROVE FALSE
  BY <1>1, <1>6, <1>7 DEF StartStep, StartGet, StartListReviews, StartResolveContinuation,
     StartNextExecutionID,
     StartCreateLog, StartResolveWorkspace, StartRun, EndRun, StartRecord, CreateExecutionLog,
     RecordSuccess, RecordFailure, taskVars
<1>8. ~ PushStep
  BY <1>1, <1>6 DEF PushStep, PushGet, PushListExecutions, PushAndOpenPR, PushRecord,
     RecordPullRequest, taskVars
<1>9. ~ (HandleMarkPRMerged \/ HandleTaskCleanup \/ SweepTask)
  BY <1>1, <1>6 DEF HandleMarkPRMerged, HandleTaskCleanup, SweepTask, MarkPRMerged, taskVars
<1>10. ~ (HumanStep \/ GitHubStep \/ DeleteByHand \/ Crash \/ UNCHANGED vars)
  BY <1>5, <1>6 DEF HumanStep, GitHubStep, DeleteByHand, Crash, vars, taskVars
<1>11. ~ (CleanupList \/ CleanupOne \/ CleanupReportStatus)
  BY <1>4, <1>6 DEF CleanupList, CleanupOne, CleanupReportStatus, taskVars
<1> QED
  BY <1>7, <1>8, <1>9, <1>10, <1>11, StepCases DEF CleanupStep

Swept(n) == Recorded(n) => worktree[n] = "none"

\* A pass goes on alone: it begins when no request is in flight, and the task
\* does not come back to implementation.
PassAlone ==
    cleaner.pc # "idle" => task.stage \in Leaving /\ \A s \in Start : start[s].pc = "idle"

\* A pass that parked nothing has removed what it no longer lists.
PassSweeps ==
    /\ cleaner.pc = "removing" /\ cleaner.clean =>
          \A n \in ExecutionId : n \notin cleaner.todo => Swept(n)
    /\ cleaner.pc = "reported" => \A n \in ExecutionId : Swept(n)

SweepInv == PassAlone /\ PassSweeps /\ (task.stage = "completed" => \A n \in ExecutionId : Swept(n))

\* Steps that are no request's keep an attempt swept.
LEMMA SweptStays ==
  ASSUME ControlInv, \A s \in Start : start[s].pc = "idle",
         \/ PushStep \/ HandleMarkPRMerged \/ HandleTaskCleanup \/ SweepTask \/ CleanupStep
         \/ HumanStep \/ GitHubStep \/ DeleteByHand \/ Crash \/ UNCHANGED vars
  PROVE  /\ \A n \in ExecutionId : Swept(n) => Swept(n)'
         /\ executions' = executions
         /\ \A s \in Start : start'[s].pc = "idle"
<1>1. executions' = executions /\ (start' = start \/ start' = [s \in Start |-> IdleStart])
  BY OthersEffect
<1>2. \A n \in ExecutionId : worktree[n] = "none" => worktree'[n] = "none"
  BY GoneStaysGone
<1>3. IdleStart.pc = "idle"
  BY DEF IdleStart
<1> QED
  BY <1>1, <1>2, <1>3 DEF Swept, Recorded

LEMMA PassStarts ==
  ASSUME ControlInv, HandleMarkPRMerged \/ HandleTaskCleanup \/ SweepTask
  PROVE  /\ cleaner.pc = "idle"
         /\ task.stage \in Settled
         /\ cleaner' = cleaner \/ (cleaner'.pc = "begin" /\ task'.stage \in Leaving)
<1> USE DEF ControlInv
<1>1. ASSUME NEW stage, NEW force, BeginPass(stage, force) PROVE cleaner'.pc = "begin"
  BY <1>1 DEF BeginPass, IdleCleaner
<1>2. CASE HandleTaskCleanup
  BY <1>1, <1>2 DEF HandleTaskCleanup, taskVars, Leaving, Settled
<1>3. CASE SweepTask
  BY <1>1, <1>3 DEF SweepTask, taskVars, Leaving, Settled
<1>4. CASE HandleMarkPRMerged
  <2>1. task.stage = "pr_review" /\ cleaner.pc = "idle"
    BY <1>4 DEF HandleMarkPRMerged, MarkPRMerged
  <2>2. ASSUME MarkPRMerged(2) PROVE task'.stage \in Leaving
    <3> DEFINE t == [task EXCEPT !.stage = "cleanup"]
    <3>1. WriteTask(2 > 1, t)
      BY <2>2 DEF MarkPRMerged, AdvanceStage
    <3>2. t \in Task /\ t.stage = "cleanup"
      BY MovedTask, AdvanceStageArguments
    <3>3. 2 > 1
      OBVIOUS
    <3> HIDE DEF t
    <3>4. task'.stage \in {"cleanup", ""}
      BY <3>1, <3>2, <3>3, WrittenStage
    <3> QED
      BY <3>4 DEF Leaving
  <2> QED
    BY <1>1, <1>4, <2>1, <2>2 DEF HandleMarkPRMerged, Settled
<1> QED
  BY <1>2, <1>3, <1>4

LEMMA PassAloneKept ==
  ASSUME ControlInv, SubjectInv, SweepInv, [Next]_vars
  PROVE  PassAlone'
<1> USE DEF ControlInv
<1>0. SUFFICES ASSUME cleaner'.pc # "idle"
               PROVE  task'.stage \in Leaving /\ \A s \in Start : start'[s].pc = "idle"
  BY DEF PassAlone
<1>1. ASSUME NEW s \in Start, StartStep(s) PROVE FALSE
  <2>1. cleaner' = cleaner
    BY <1>1 DEF StartStep, StartGet, StartListReviews, StartResolveContinuation,
       StartNextExecutionID,
       StartCreateLog, StartResolveWorkspace, StartRun, EndRun, StartRecord
  <2>2. task.stage \in Leaving /\ start[s].pc = "idle"
    BY <1>0, <2>1 DEF SweepInv, PassAlone
  <2> QED
    BY <1>1, <2>2, NoRequestSteps
<1>2. CASE cleaner.pc # "idle"
  <2>1. task.stage \in Leaving /\ \A s \in Start : start[s].pc = "idle"
    BY <1>2 DEF SweepInv, PassAlone
  <2>2. executions' = executions /\ \A s \in Start : start'[s].pc = "idle"
    BY <1>1, <2>1, StepCases, SweptStays
  <2> QED
    BY <2>1, <2>2, HandlersUseStore, StageMoves
<1>3. CASE cleaner.pc = "idle"
  <2>1. HandleMarkPRMerged \/ HandleTaskCleanup \/ SweepTask
    <3>1. IdleCleaner.pc = "idle"
      BY DEF IdleCleaner
    <3>2. PushStep \/ HumanStep \/ GitHubStep \/ DeleteByHand \/ UNCHANGED vars => cleaner' = cleaner
      BY DEF PushStep, PushGet, PushListExecutions, PushAndOpenPR, PushRecord, HumanStep,
         GitHubStep, DeleteByHand, vars
    <3>3. ~ CleanupStep
      BY <1>3 DEF CleanupStep, CleanupList, CleanupOne, CleanupReportStatus, CleanupComplete
    <3>4. ~ Crash
      BY <1>0, <3>1 DEF Crash
    <3> QED
      BY <1>0, <1>1, <1>3, <3>2, <3>3, <3>4, StepCases
  <2>2. task.stage \in Settled /\ task'.stage \in Leaving
    BY <1>0, <1>3, <2>1, PassStarts
  <2>3. \A s \in Start : start[s].pc = "idle"
    BY <2>2 DEF SubjectInv, InFlight
  <2> QED
    BY <2>1, <2>2, <2>3, SweptStays
<1> QED
  BY <1>2, <1>3

LEMMA PassSweepsKept ==
  ASSUME ControlInv, SubjectInv, SweepInv, [Next]_vars
  PROVE  PassSweeps'
<1> USE DEF ControlInv
<1>1. CASE cleaner'.pc \notin {"removing", "reported"}
  BY <1>1 DEF PassSweeps
<1>2. CASE cleaner'.pc \in {"removing", "reported"}
  <2>1. cleaner.pc # "idle"
    <3>1. IdleCleaner.pc = "idle"
      BY DEF IdleCleaner
    <3>2. cleaner' = cleaner => cleaner.pc # "idle"
      BY <1>2
    <3>3. \A s \in Start : StartStep(s) => cleaner' = cleaner
      BY DEF StartStep, StartGet, StartListReviews, StartResolveContinuation, StartNextExecutionID,
         StartCreateLog, StartResolveWorkspace, StartRun, EndRun, StartRecord
    <3>4. PushStep \/ HumanStep \/ GitHubStep \/ DeleteByHand \/ UNCHANGED vars => cleaner' = cleaner
      BY DEF PushStep, PushGet, PushListExecutions, PushAndOpenPR, PushRecord, HumanStep,
         GitHubStep, DeleteByHand, vars
    <3>5. CleanupStep => cleaner.pc # "idle"
      BY DEF CleanupStep, CleanupList, CleanupOne, CleanupReportStatus, CleanupComplete
    <3>6. HandleMarkPRMerged \/ HandleTaskCleanup \/ SweepTask => cleaner' = cleaner
      BY <1>2, PassStarts
    <3>7. ~ Crash
      BY <1>2, <3>1 DEF Crash
    <3> QED
      BY <3>2, <3>3, <3>4, <3>5, <3>6, <3>7, StepCases
  <2>2. task.stage \in Leaving /\ \A s \in Start : start[s].pc = "idle"
    BY <2>1 DEF SweepInv, PassAlone
  <2>3. \A s \in Start : ~ StartStep(s)
    BY <2>2, NoRequestSteps
  <2>4. (\A n \in ExecutionId : Swept(n) => Swept(n)') /\ executions' = executions
    BY <2>2, <2>3, StepCases, SweptStays
  <2>5. CASE cleaner' = cleaner
    BY <2>4, <2>5 DEF SweepInv, PassSweeps
  <2>6. CASE CleanupList
    <3>1. cleaner'.pc = "removing" /\ cleaner'.todo = {n \in ExecutionId : Recorded(n)}
      BY <2>6 DEF CleanupList, HandlersTyped, CleanerTyped
    <3>2. \A n \in ExecutionId : n \notin cleaner'.todo => executions'[n] = NoExecution
      BY <2>4, <3>1 DEF Recorded
    <3> QED
      BY <3>1, <3>2 DEF PassSweeps, Swept, Recorded
  <2>7. CASE CleanupOne
    <3>0. cleaner.pc = "removing"
      BY <2>7 DEF CleanupOne
    <3>1. PICK n \in cleaner.todo :
             \/ /\ RemoveWorktree(n)
                /\ cleaner' = [cleaner EXCEPT !.todo = @ \ {n}]
             \/ cleaner' = [cleaner EXCEPT !.todo = @ \ {n}, !.clean = FALSE]
      BY <2>7 DEF CleanupOne
    <3>2. CASE cleaner' = [cleaner EXCEPT !.todo = @ \ {n}, !.clean = FALSE]
      <4>1. cleaner'.pc = "removing" /\ cleaner'.clean = FALSE
        BY <3>0, <3>2 DEF HandlersTyped, CleanerTyped
      <4> QED
        BY <4>1 DEF PassSweeps
    <3>3. CASE RemoveWorktree(n) /\ cleaner' = [cleaner EXCEPT !.todo = @ \ {n}]
      <4>1. /\ cleaner'.pc = "removing" /\ cleaner'.clean = cleaner.clean
            /\ cleaner'.todo = cleaner.todo \ {n} /\ n \in ExecutionId
        BY <3>0, <3>3 DEF HandlersTyped, CleanerTyped
      <4>2. worktree'[n] = "none"
        BY <3>3, <4>1, ExecutionControlAssumption DEF RemoveWorktree, HandlersTyped, GitTypeOK
      <4>3. ASSUME cleaner.clean, NEW m \in ExecutionId, m \notin cleaner'.todo PROVE Swept(m)'
        <5>1. CASE m = n
          BY <4>2, <5>1 DEF Swept
        <5>2. CASE m # n
          BY <2>4, <3>0, <4>1, <4>3, <5>2 DEF SweepInv, PassSweeps
        <5> QED
          BY <5>1, <5>2
      <4> QED
        BY <4>1, <4>3 DEF PassSweeps
    <3> QED
      BY <3>1, <3>2, <3>3
  <2>8. CASE CleanupReportStatus
    <3>1. cleaner.pc = "removing" /\ cleaner.todo = {}
      BY <2>8 DEF CleanupReportStatus
    <3>2. IdleCleaner.pc = "idle"
      BY DEF IdleCleaner
    <3>3. cleaner.clean /\ cleaner'.pc = "reported"
      BY <1>2, <2>8, <3>2 DEF CleanupReportStatus, HandlersTyped, CleanerTyped
    <3> QED
      BY <2>4, <3>1, <3>3 DEF SweepInv, PassSweeps
  <2>9. ~ CleanupComplete /\ ~ Crash /\ ~ (HandleMarkPRMerged \/ HandleTaskCleanup \/ SweepTask)
    <3>1. IdleCleaner.pc = "idle"
      BY DEF IdleCleaner
    <3> QED
      BY <1>2, <2>1, <3>1, PassStarts DEF CleanupComplete, Crash
  <2>10. PushStep \/ HumanStep \/ GitHubStep \/ DeleteByHand \/ UNCHANGED vars => cleaner' = cleaner
    BY DEF PushStep, PushGet, PushListExecutions, PushAndOpenPR, PushRecord, HumanStep,
       GitHubStep, DeleteByHand, vars
  <2> QED
    BY <2>3, <2>5, <2>6, <2>7, <2>8, <2>9, <2>10, StepCases DEF CleanupStep
<1> QED
  BY <1>1, <1>2

LEMMA SweepKept == ControlInv /\ SubjectInv /\ SweepInv /\ [Next]_vars => SweepInv'
<1> SUFFICES ASSUME ControlInv, SubjectInv, SweepInv, [Next]_vars PROVE SweepInv'
  OBVIOUS
<1>1. PassAlone' /\ PassSweeps'
  BY PassAloneKept, PassSweepsKept
<1>2. ASSUME task'.stage = "completed", NEW n \in ExecutionId PROVE Swept(n)'
  <2>1. /\ \A s \in Start : start[s].pc = "idle"
        /\ \A m \in ExecutionId : Swept(m)
        /\ task.stage \in Leaving \union Settled
    <3>1. CASE task.stage = "completed"
      BY <3>1 DEF SweepInv, SubjectInv, InFlight, Settled
    <3>2. CASE task.stage # "completed"
      <4>1. cleaner.pc = "reported"
        BY <1>2, <3>2, OnlyPassCompletes DEF CleanupComplete
      <4> QED
        BY <4>1 DEF SweepInv, PassAlone, PassSweeps
    <3> QED
      BY <3>1, <3>2
  <2>2. \A s \in Start : ~ StartStep(s)
    BY <2>1, NoRequestSteps
  <2> QED
    BY <2>1, <2>2, StepCases, SweptStays
<1> QED
  BY <1>1, <1>2 DEF SweepInv

\* With one execute request at a time, a completed task has no worktree left of
\* an attempt on record: passes that were skipped, parked, repeated or cut
\* short do not complete it, and nothing makes a worktree after they did.
THEOREM CompletedSwept ==
  ASSUME OneRequest
  PROVE  Spec => []CompletedIsSwept
<1>1. Init => SweepInv
  <2>1. IdleCleaner.pc = "idle" /\ BareTask("absent").stage = "absent"
    BY DEF IdleCleaner, BareTask
  <2> QED
    BY <2>1 DEF Init, TaskInit, SweepInv, PassAlone, PassSweeps
<1>2. SweepInv => CompletedIsSwept
  BY DEF SweepInv, Swept, CompletedIsSwept
<1> QED
  BY <1>1, <1>2, SweepKept, SubjectInvariant, ControlInvariant, PTL DEF Spec

-----------------------------------------------------------------------------
(* Where an attempt's commits are.                                         *)

\* On origin, or taken off it again by a push of the empty branch name.
Published(c) == (\E m \in DOMAIN remote : c \in remote[m]) \/ c \in withdrawn

\* Pushed, or on a branch some worktree keeps.
Held(c) == Published(c) \/ \E m \in DOMAIN branch : worktree[m] # "none" /\ c \in branch[m]

\* A branch without a worktree holds nothing that is not held elsewhere.
LeftSafe == \A n \in DOMAIN branch : worktree[n] = "none" => \A c \in branch[n] : Held(c)

\* What a pass compares with is on origin, unless it was withdrawn from it.
TipsPushed == cleaner.pc = "removing" => \A tip \in cleaner.tips : \A c \in tip : Published(c)

Unforced == "force" \notin Hazards => cleaner.force = FALSE

CommitInv == LeftSafe /\ TipsPushed /\ Unforced

\* A push is a fast-forward, or deletes a branch and withdraws what it held.
LEMMA RemoteGrows ==
  ASSUME [Next]_vars
  PROVE  \A c : Published(c) => Published(c)'
<1> DEFINE Goal == \A c : Published(c) => Published(c)'
           Same == remote' = remote /\ withdrawn' = withdrawn
<1>1. Same => Goal
  BY DEF Published
<1>2. CASE PushAndOpenPR
  <2>1. ASSUME NEW new, NEW target, FastForward(new, target),
               remote' = PointRef(remote, target, branch[new]), withdrawn' = withdrawn
        PROVE  Goal
    BY <2>1 DEF Published, PointRef, FastForward
  <2>2. ASSUME PushNothingOntoPR(push.pr) PROVE Goal
    <3> DEFINE head == prs[push.pr].head
    <3>1. /\ remote' = Restrict(remote, DOMAIN remote \ {head})
          /\ withdrawn' = withdrawn \union remote[head]
      BY <2>2 DEF PushNothingOntoPR
    <3> HIDE DEF head
    <3>2. \A m \in DOMAIN remote : m # head => m \in DOMAIN remote' /\ remote'[m] = remote[m]
      BY <3>1 DEF Restrict
    <3> QED
      BY <3>1, <3>2 DEF Published
  <2> QED
    BY <1>1, <1>2, <2>1, <2>2 DEF PushAndOpenPR, PushOntoPR, PushBranch
<1>3. PushGet \/ PushListExecutions \/ PushRecord => Same
  BY DEF PushGet, PushListExecutions, PushRecord, gitVars
<1>4. \A s \in Start : StartStep(s) => Same
  BY DEF StartStep, StartGet, StartListReviews, StartResolveContinuation, StartNextExecutionID,
     StartCreateLog,
     StartResolveWorkspace, StartRun, EndRun, StartRecord, ResolveExecutionWorkspace,
     FailToResolveWorkspace, AgentWork, gitVars
<1>5. HandleMarkPRMerged \/ HandleTaskCleanup \/ SweepTask \/ HumanStep => Same
  BY DEF HandleMarkPRMerged, HandleTaskCleanup, SweepTask, HumanStep, gitVars
<1>6. CleanupStep => Same
  BY DEF CleanupStep, CleanupList, CleanupOne, CleanupReportStatus, CleanupComplete,
     RemoveWorktree, gitVars
<1>7. GitHubStep \/ DeleteByHand \/ Crash \/ UNCHANGED vars => Same
  BY DEF GitHubStep, SettlePR, DeleteByHand, RemoveByHand, Crash, AgentWork, vars, gitVars
<1> QED
  BY <1>1, <1>2, <1>3, <1>4, <1>5, <1>6, <1>7, StepCases DEF PushStep

LEMMA TipsKept ==
  ASSUME ControlInv, TipsPushed, [Next]_vars
  PROVE  TipsPushed'
<1> USE DEF ControlInv, HandlersTyped, CleanerTyped
<1>0. \A c : Published(c) => Published(c)'
  BY RemoteGrows
<1>1. CASE cleaner'.pc # "removing"
  BY <1>1 DEF TipsPushed
<1>2. CASE cleaner'.pc = cleaner.pc /\ cleaner'.tips = cleaner.tips
  BY <1>0, <1>2 DEF TipsPushed
<1>3. CASE CleanupList
  <2>1. cleaner'.tips \subseteq RemoteBranchTip(cleaner.pushed)
    BY <1>3 DEF CleanupList
  <2>2. \A tip \in cleaner'.tips : \A c \in tip : Published(c)
    BY <2>1 DEF RemoteBranchTip, Published
  <2> QED
    BY <1>0, <2>2 DEF TipsPushed
<1>4. CleanupOne => cleaner'.pc = cleaner.pc /\ cleaner'.tips = cleaner.tips
  BY DEF CleanupOne
<1>5. CleanupReportStatus \/ CleanupComplete \/ Crash => cleaner'.pc # "removing"
  <2>1. IdleCleaner.pc = "idle"
    BY DEF IdleCleaner
  <2> QED
    BY <2>1 DEF CleanupReportStatus, CleanupComplete, Crash
<1>6. HandleMarkPRMerged \/ HandleTaskCleanup \/ SweepTask =>
         cleaner' = cleaner \/ cleaner'.pc # "removing"
  BY PassStarts
<1>7. \A s \in Start : StartStep(s) => cleaner' = cleaner
  BY DEF StartStep, StartGet, StartListReviews, StartResolveContinuation, StartNextExecutionID,
     StartCreateLog,
     StartResolveWorkspace, StartRun, EndRun, StartRecord
<1>8. PushStep \/ HumanStep \/ GitHubStep \/ DeleteByHand \/ UNCHANGED vars => cleaner' = cleaner
  BY DEF PushStep, PushGet, PushListExecutions, PushAndOpenPR, PushRecord, HumanStep,
     GitHubStep, DeleteByHand, vars
<1> QED
  BY <1>1, <1>2, <1>3, <1>4, <1>5, <1>6, <1>7, <1>8, StepCases DEF CleanupStep

LEMMA UnforcedKept ==
  ASSUME ControlInv, Unforced, [Next]_vars
  PROVE  Unforced'
<1> USE DEF ControlInv, HandlersTyped, CleanerTyped
<1>0. SUFFICES ASSUME "force" \notin Hazards PROVE cleaner'.force = FALSE
  BY DEF Unforced
<1>1. ASSUME NEW stage, BeginPass(stage, FALSE) PROVE cleaner'.force = FALSE
  BY <1>1 DEF BeginPass, IdleCleaner
<1>2. IdleCleaner.force = FALSE
  BY DEF IdleCleaner
<1>3. cleaner.force = FALSE
  BY <1>0 DEF Unforced
<1>4. HandleMarkPRMerged \/ HandleTaskCleanup \/ SweepTask => cleaner'.force = FALSE
  BY <1>0, <1>1, <1>3 DEF HandleMarkPRMerged, HandleTaskCleanup, SweepTask, Forced
<1>5. CleanupStep => cleaner'.force = FALSE
  BY <1>2, <1>3 DEF CleanupStep, CleanupList, CleanupOne, CleanupReportStatus, CleanupComplete
<1>6. \A s \in Start : StartStep(s) => cleaner' = cleaner
  BY DEF StartStep, StartGet, StartListReviews, StartResolveContinuation, StartNextExecutionID,
     StartCreateLog,
     StartResolveWorkspace, StartRun, EndRun, StartRecord
<1>7. PushStep \/ HumanStep \/ GitHubStep \/ DeleteByHand \/ UNCHANGED vars => cleaner' = cleaner
  BY DEF PushStep, PushGet, PushListExecutions, PushAndOpenPR, PushRecord, HumanStep,
     GitHubStep, DeleteByHand, vars
<1> QED
  BY <1>2, <1>3, <1>4, <1>5, <1>6, <1>7, StepCases DEF Crash

\* Branches and worktrees are made, and commits added; a branch that has no
\* worktree after it has only what some branch had before.
Grows ==
    /\ \A n \in DOMAIN branch :
          /\ n \in DOMAIN branch' /\ branch[n] \subseteq branch'[n]
          /\ worktree[n] # "none" => worktree'[n] # "none"
    /\ \A n \in DOMAIN branch' :
          worktree'[n] = "none" => \A c \in branch'[n] : \E m \in DOMAIN branch : c \in branch[m]

LEMMA AgentsGrow ==
  ASSUME ControlInv, NEW touched, NEW committed \in SUBSET touched, NEW dirty,
         AgentWork(touched, committed, dirty)
  PROVE  Grows
<1>1. DOMAIN branch \subseteq Attempt
  BY DEF ControlInv, HandlersTyped, GitTypeOK
<1>2. /\ DOMAIN branch' = DOMAIN branch
      /\ \A n \in DOMAIN branch : branch[n] \subseteq branch'[n]
      /\ \A n \in DOMAIN branch : n \notin committed => branch'[n] = branch[n]
  BY DEF AgentWork
<1>3. \A n \in Attempt :
         worktree'[n] = IF n \in touched THEN IF n \in dirty THEN "dirty" ELSE "clean" ELSE worktree[n]
  BY DEF AgentWork
<1>4. \A n \in DOMAIN branch : worktree'[n] = "none" => n \notin touched /\ worktree[n] = "none"
  BY <1>1, <1>3
<1> QED
  BY <1>2, <1>4 DEF Grows

LEMMA ResolutionGrows ==
  ASSUME ControlInv, Fresh, NEW s \in Start, StartResolveWorkspace(s)
  PROVE  Grows
<1> USE DEF ControlInv, HandlersTyped
<1> DEFINE id == start[s].id
           tip == ForkRef(start[s].fork)
<1>1. id \in ExecutionId /\ id \notin DOMAIN branch /\ DOMAIN branch \subseteq ExecutionId
  BY ExecutionControlAssumption
     DEF StartResolveWorkspace, StartShape, Owning, Fresh, GitTypeOK
<1>2. worktree \in [ExecutionId -> {"none", "clean", "dirty"}]
  BY ExecutionControlAssumption DEF GitTypeOK
<1>3. CASE branch' = branch /\ worktree' = worktree
  BY <1>3 DEF Grows
<1>4. ASSUME branch' = PointRef(branch, id, tip)
      PROVE  /\ DOMAIN branch' = DOMAIN branch \union {id} /\ branch'[id] = tip
             /\ \A n \in DOMAIN branch : branch'[n] = branch[n]
  <2> HIDE DEF id, tip
  <2> QED
    BY <1>1, <1>4 DEF PointRef
<1>5. CASE ResolveExecutionWorkspace(id, start[s].fork)
  <2>1. worktree'[id] = "clean" /\ \A n \in DOMAIN branch : worktree'[n] = worktree[n]
    BY <1>1, <1>2, <1>5 DEF ResolveExecutionWorkspace
  <2>2. branch' = PointRef(branch, id, tip)
    BY <1>5 DEF ResolveExecutionWorkspace
  <2> HIDE DEF id, tip
  <2> QED
    BY <1>4, <2>1, <2>2 DEF Grows
<1>6. CASE ForkExists(start[s].fork) /\ branch' = PointRef(branch, id, tip) /\ worktree' = worktree
  <2>1. \A c \in tip : \E m \in DOMAIN branch : c \in branch[m]
    BY <1>6 DEF ForkExists, ForkRef, Main
  <2> HIDE DEF id, tip
  <2> QED
    BY <1>4, <1>6, <2>1 DEF Grows
<1> QED
  BY <1>3, <1>5, <1>6 DEF StartResolveWorkspace, FailToResolveWorkspace

\* Only a cleanup pass takes anything away.
LEMMA OthersGrow ==
  ASSUME ControlInv, Fresh, Untouched, [Next]_vars, ~ CleanupOne
  PROVE  Grows
<1>1. branch' = branch /\ worktree' = worktree => Grows
  BY DEF Grows
<1>2. ASSUME NEW s \in Start, StartStep(s) PROVE Grows
  <2>1. CASE EndRun(s)
    <3>1. PICK committed \in BOOLEAN, dirty \in BOOLEAN :
             AgentWork({start[s].id}, IF committed THEN {start[s].id} ELSE {},
                       IF dirty THEN {start[s].id} ELSE {})
      BY <2>1 DEF EndRun
    <3>2. (IF committed THEN {start[s].id} ELSE {}) \in SUBSET {start[s].id}
      OBVIOUS
    <3> QED
      BY <3>1, <3>2, AgentsGrow
  <2>2. ~ StartResolveWorkspace(s) /\ ~ EndRun(s) => branch' = branch /\ worktree' = worktree
    BY <1>2 DEF StartStep, StartGet, StartListReviews, StartResolveContinuation,
       StartNextExecutionID,
       StartCreateLog, StartRun, StartRecord, gitVars
  <2> QED
    BY <1>1, <2>1, <2>2, ResolutionGrows
<1>3. CASE Crash
  <2> DEFINE running == {start[s].id : s \in {x \in Start : start[x].pc = "running"}}
  <2>1. \E committed, dirty \in SUBSET running : AgentWork(running, committed, dirty)
    BY <1>3 DEF Crash
  <2> HIDE DEF running
  <2> QED
    BY <2>1, AgentsGrow
<1>4. PushStep => branch' = branch /\ worktree' = worktree
  BY DEF PushStep, PushGet, PushListExecutions, PushAndOpenPR, PushRecord, PushOntoPR,
     PushNothingOntoPR, gitVars
<1>5. HandleMarkPRMerged \/ HandleTaskCleanup \/ SweepTask \/ HumanStep \/ UNCHANGED vars =>
         branch' = branch /\ worktree' = worktree
  BY DEF HandleMarkPRMerged, HandleTaskCleanup, SweepTask, HumanStep, vars, gitVars
<1>6. CleanupStep => branch' = branch /\ worktree' = worktree
  BY DEF CleanupStep, CleanupList, CleanupReportStatus, CleanupComplete, gitVars
<1>7. GitHubStep => branch' = branch /\ worktree' = worktree
  BY DEF GitHubStep, SettlePR
<1>8. ~ DeleteByHand
  BY DEF DeleteByHand, Untouched
<1> QED
  BY <1>1, <1>2, <1>3, <1>4, <1>5, <1>6, <1>7, <1>8, StepCases

\* No step loses a commit: NoCommitLost of one step.
NothingLost ==
    \A n \in DOMAIN branch : \A c \in branch[n] :
       \/ \E m \in DOMAIN branch' : c \in branch'[m]
       \/ \E m \in DOMAIN remote : c \in remote[m]
       \/ c \in withdrawn

LEMMA GrowthLosesNothing ==
  ASSUME LeftSafe, Grows, \A c : Published(c) => Published(c)'
  PROVE  LeftSafe' /\ NothingLost
<1>1. ASSUME NEW c, Held(c) PROVE Held(c)'
  BY <1>1 DEF Held, Grows
<1>2. ASSUME NEW m \in DOMAIN branch, NEW c \in branch[m] PROVE Held(c)'
  <2>1. CASE worktree[m] = "none"
    BY <1>1, <2>1 DEF LeftSafe
  <2>2. CASE worktree[m] # "none"
    BY <1>1, <2>2 DEF Held
  <2> QED
    BY <2>1, <2>2
<1>3. ASSUME NEW n \in DOMAIN branch', worktree'[n] = "none", NEW c \in branch'[n] PROVE Held(c)'
  <2>1. PICK m \in DOMAIN branch : c \in branch[m]
    BY <1>3 DEF Grows
  <2> QED
    BY <1>2, <2>1
<1>4. NothingLost
  BY DEF NothingLost, Grows
<1> QED
  BY <1>3, <1>4 DEF LeftSafe

\* A worktree and its branch go only when each of its commits is on origin, or
\* on a branch that keeps its worktree.
LEMMA RemovalLosesNothing ==
  ASSUME ControlInv, CommitInv, "force" \notin Hazards, CleanupOne
  PROVE  LeftSafe' /\ NothingLost
<1> USE DEF ControlInv, HandlersTyped, CleanerTyped
<1>1. CASE UNCHANGED gitVars
  <2>1. \A c : Held(c) => Held(c)'
    BY <1>1 DEF Held, Published, gitVars
  <2> QED
    BY <1>1, <2>1 DEF NothingLost, LeftSafe, gitVars, CommitInv
<1>2. CASE ~ UNCHANGED gitVars
  <2>1. PICK n \in cleaner.todo : /\ AlreadyGone(n) \/ SafeToRemove(n, cleaner.tips)
                                  /\ RemoveWorktree(n) /\ cleaner.pc = "removing"
    BY <1>2 DEF CleanupOne, CommitInv, Unforced
  <2>2. /\ remote' = remote /\ withdrawn' = withdrawn /\ n \in ExecutionId
        /\ \A m \in ExecutionId : m # n => worktree'[m] = worktree[m]
    BY <2>1, ExecutionControlAssumption DEF RemoveWorktree, GitTypeOK
  <2>3. /\ DOMAIN branch' \subseteq DOMAIN branch
        /\ \A m \in DOMAIN branch' : branch'[m] = branch[m]
        /\ \A m \in DOMAIN branch : m # n => m \in DOMAIN branch'
    BY <2>1 DEF RemoveWorktree, Restrict
  <2>4. DOMAIN branch \subseteq ExecutionId
    BY ExecutionControlAssumption DEF GitTypeOK
  <2>5. \A c : Published(c) => Published(c)'
    BY <2>2 DEF Published
  <2>6. ASSUME NEW c, NEW m \in DOMAIN branch, m # n, worktree[m] # "none", c \in branch[m]
        PROVE  Held(c)' /\ \E k \in DOMAIN branch' : c \in branch'[k]
    <3>1. m \in DOMAIN branch' /\ branch'[m] = branch[m] /\ worktree'[m] = worktree[m]
      BY <2>2, <2>3, <2>4, <2>6
    <3> QED
      BY <2>6, <3>1 DEF Held
  <2>7. ASSUME n \in DOMAIN branch, NEW c \in branch[n]
        PROVE  Published(c) \/ \E m \in DOMAIN branch : m # n /\ worktree[m] # "none" /\ c \in branch[m]
    <3>1. CASE AlreadyGone(n)
      BY <2>7, <3>1 DEF AlreadyGone, CommitInv, LeftSafe, Held
    <3>2. CASE SafeToRemove(n, cleaner.tips)
      BY <2>1, <2>7, <3>2 DEF SafeToRemove, CommitInv, TipsPushed
    <3> QED
      BY <2>1, <3>1, <3>2
  <2>8. ASSUME n \in DOMAIN branch, NEW c \in branch[n]
        PROVE  Held(c)' /\ (Published(c) \/ \E k \in DOMAIN branch' : c \in branch'[k])
    BY <2>5, <2>6, <2>7, <2>8 DEF Held
  <2>9. ASSUME NEW k \in DOMAIN branch', worktree'[k] = "none", NEW c \in branch'[k] PROVE Held(c)'
    <3>1. k \in DOMAIN branch /\ branch'[k] = branch[k]
      BY <2>3
    <3>2. CASE k = n
      BY <2>8, <2>9, <3>1, <3>2
    <3>3. CASE k # n
      <4>1. worktree[k] = "none"
        BY <2>2, <2>4, <2>9, <3>1, <3>3
      <4>2. Held(c)
        BY <2>9, <3>1, <4>1 DEF CommitInv, LeftSafe
      <4>3. CASE Published(c)
        BY <2>5, <4>3 DEF Held
      <4>4. ASSUME NEW m \in DOMAIN branch, worktree[m] # "none", c \in branch[m] PROVE Held(c)'
        BY <2>6, <2>8, <4>4
      <4> QED
        BY <4>2, <4>3, <4>4 DEF Held
    <3> QED
      BY <3>2, <3>3
  <2>10. ASSUME NEW k \in DOMAIN branch, NEW c \in branch[k]
         PROVE  Published(c) \/ \E m \in DOMAIN branch' : c \in branch'[m]
    BY <2>3, <2>8, <2>10
  <2> QED
    BY <2>9, <2>10 DEF LeftSafe, NothingLost, Published
<1> QED
  BY <1>1, <1>2

LEMMA CommitsKept ==
  ASSUME ControlInv, RetryInv, CommitInv, Untouched, "force" \notin Hazards, [Next]_vars
  PROVE  CommitInv' /\ NothingLost
<1>1. \A c : Published(c) => Published(c)'
  BY RemoteGrows
<1>2. LeftSafe' /\ NothingLost
  BY <1>1, OthersGrow, GrowthLosesNothing, RemovalLosesNothing DEF CommitInv, RetryInv
<1> QED
  BY <1>2, TipsKept, UnforcedKept DEF CommitInv

LEMMA CommitInit == Init => CommitInv
<1> SUFFICES ASSUME Init PROVE CommitInv
  OBVIOUS
<1>1. IdleCleaner.pc = "idle" /\ IdleCleaner.force = FALSE
  BY DEF IdleCleaner
<1>2. DOMAIN << >> = {}
  OBVIOUS
<1>3. DOMAIN branch = {} /\ cleaner.pc = "idle" /\ cleaner.force = FALSE
  BY <1>1, <1>2 DEF Init, GitInit
<1> QED
  BY <1>3 DEF CommitInv, LeftSafe, TipsPushed, Unforced

\* For any number of execute requests, and unless a cleanup is forced or a human
\* deletes a worktree: no step loses an attempt's commits, forks, pushes that
\* fail, removals that keep a branch and crashes included, but for those that a
\* push of the empty branch name took off origin.
THEOREM CommitsSurvive ==
  ASSUME Untouched, "force" \notin Hazards
  PROVE  Spec => NoCommitLost
<1>1. ControlInv /\ RetryInv /\ CommitInv /\ [Next]_vars => CommitInv' /\ NothingLost
  BY CommitsKept
<1>2. RetryInv /\ ControlInv /\ [Next]_vars => RetryInv'
  BY RetryKept
<1>3. NothingLost => [\A n \in DOMAIN branch : \A c \in branch[n] :
                         \/ \E m \in DOMAIN branch' : c \in branch'[m]
                         \/ \E m \in DOMAIN remote : c \in remote[m]
                         \/ c \in withdrawn]_vars
  BY DEF NothingLost
<1>4. UNCHANGED vars => [\A n \in DOMAIN branch : \A c \in branch[n] :
                            \/ \E m \in DOMAIN branch' : c \in branch'[m]
                            \/ \E m \in DOMAIN remote : c \in remote[m]
                            \/ c \in withdrawn]_vars
  OBVIOUS
<1> QED
  BY <1>1, <1>2, <1>3, <1>4, CommitInit, RetryInit, ControlInvariant, PTL
     DEF Spec, NoCommitLost
=============================================================================
