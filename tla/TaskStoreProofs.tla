--------------------------- MODULE TaskStoreProofs ---------------------------
(***************************************************************************)
(* The invariants of TaskStore for any number of executions, reviews and   *)
(* transitions and any combination of faults, and the refinement of        *)
(* Lifecycle.  Every operation that moves the task ends in AdvanceStage,   *)
(* so what that does, and what it can leave undone, is stated once.        *)
(***************************************************************************)
EXTENDS TaskStore, TLAPS

Entry(to, trigger, review, execution) ==
    [from |-> task.stage, to |-> to, trigger |-> trigger,
     review |-> review, execution |-> execution]

-----------------------------------------------------------------------------
\* A task.yaml with nothing past its stage is a task.
LEMMA BareTaskType == \A stage \in Stages : BareTask(stage) \in Task
<1>1. << >> \in Seq(Concept)
  OBVIOUS
<1>2. "none" \in CleanupReport
  BY DEF CleanupReport
<1> QED
  BY <1>1, <1>2 DEF BareTask, Task

\* A write of task.yaml leaves a task: the new one, or a torn one, whose stage
\* is the new one or unreadable.
LEMMA WriteTaskEffect ==
  ASSUME NEW landed \in BOOLEAN, NEW t \in Task, task \in Task, WriteTask(landed, t)
  PROVE  /\ task' \in Task
         /\ landed => task'.stage \in {t.stage, ""}
         /\ ~ landed => task' = task
<1>1. t.stage \in Stages /\ "" \in Stages
  BY DEF Task, Stages
<1>2. BareTask("") \in Task /\ BareTask(t.stage) \in Task
  BY <1>1, BareTaskType
<1>3. BareTask("").stage = "" /\ BareTask(t.stage).stage = t.stage
  BY DEF BareTask
<1> QED
  BY <1>1, <1>2, <1>3 DEF WriteTask, TornTask

\* AdvanceStage is nothing at all, or the new entry followed, perhaps, by the
\* new stage.
LEMMA AdvanceStageEffect ==
  ASSUME TypeOK,
         NEW done \in 0..3, NEW at \in 1..2, NEW to \in Stages, NEW trigger \in Triggers,
         NEW review \in Nat, NEW execution \in 0..MaxExecution,
         AdvanceStage(done, at, to, trigger, review, execution)
  PROVE  /\ task' \in Task
         /\ transitions' \in Seq(Transition)
         /\ \/ done < at /\ task' = task /\ transitions' = transitions
            \/ /\ done >= at
               /\ transitions' = Append(transitions, Entry(to, trigger, review, execution))
               /\ task'.stage \in {to, task.stage, ""}
         /\ task'.stage \in {to, task.stage, ""}
<1> DEFINE moved == [task EXCEPT !.stage = to]
<1>1. task \in Task /\ transitions \in Seq(Transition)
  BY DEF TypeOK
<1>2. moved \in Task /\ moved.stage = to
  BY <1>1 DEF Task
<1>3. (done > at) \in BOOLEAN /\ WriteTask(done > at, moved)
  BY DEF AdvanceStage
<1>4. /\ task' \in Task
      /\ (done > at) => task'.stage \in {to, ""}
      /\ ~ (done > at) => task' = task
  <2> HIDE DEF moved
  <2> QED BY <1>1, <1>2, <1>3, WriteTaskEffect
<1>5. Entry(to, trigger, review, execution) \in Transition
  BY <1>1 DEF Entry, Transition, Task
<1>6. IF done >= at THEN transitions' = Append(transitions, Entry(to, trigger, review, execution))
                    ELSE transitions' = transitions
  BY DEF AdvanceStage, AppendStageTransition, Entry
<1>7. transitions' \in Seq(Transition)
  BY <1>1, <1>5, <1>6
<1>8. task'.stage \in {to, task.stage, ""}
  BY <1>4
<1>9. CASE done >= at
  BY <1>4, <1>6, <1>7, <1>8, <1>9
<1>10. CASE done < at
  <2>1. ~ (done > at) /\ ~ (done >= at)
    BY <1>10
  <2> QED
    BY <2>1, <1>4, <1>6, <1>7, <1>8, <1>10
<1>11. done >= at \/ done < at
  OBVIOUS
<1> QED
  BY <1>9, <1>10, <1>11

-----------------------------------------------------------------------------
\* How far a stopped operation got is a number of writes.
LEMMA LandedBounds == Landed(3) \subseteq 0..3 /\ Landed(2) \subseteq 0..3
  BY DEF Landed

\* What the browser sends when it saves the defaults is a task.
LEMMA SaveDefaultsBodyType == SaveDefaultsBody \in Task /\ SaveDefaultsBody.stage = ""
<1>1. "" \in Stages
  BY DEF Stages
<1>2. SaveDefaultsBody = BareTask("")
  BY DEF SaveDefaultsBody
<1>3. BareTask("").stage = ""
  BY DEF BareTask
<1> QED
  BY <1>1, <1>2, <1>3, BareTaskType

\* The operations that only rewrite task.yaml keep it a task, and its stage or
\* nothing of it.
LEMMA RewriteTaskEffect ==
  ASSUME NEW t \in Task, task \in Task, WriteTask(TRUE, t)
  PROVE  task' \in Task /\ task'.stage \in {t.stage, ""}
BY WriteTaskEffect

\* The arguments the operations pass to AdvanceStage are what it is stated for.
LEMMA AdvanceStageArguments ==
  /\ {"requirements", "planning", "implementation", "review", "pr_review", "cleanup",
      "completed"} \subseteq Stages
  /\ \A decision \in Decisions :
        VerdictStage[decision] \in {"requirements", "implementation", "pr_review"}
  /\ 1 \in 1..2 /\ 2 \in 1..2 /\ 0 \in Nat /\ 0 \in 0..MaxExecution
  /\ \A n \in ExecutionId : n \in 0..MaxExecution
BY TaskStoreAssumption DEF Stages, Decisions, VerdictStage, ExecutionId

\* AdvanceStage as the lifecycle actions other than a verdict and a recorded
\* success call it.
LEMMA PlainMoveEffect ==
  ASSUME TypeOK, NEW done \in 0..3, NEW at \in 1..2, NEW to \in Stages,
         NEW trigger \in Triggers, AdvanceStage(done, at, to, trigger, 0, 0)
  PROVE  /\ task' \in Task
         /\ transitions' \in Seq(Transition)
         /\ \/ done < at /\ task' = task /\ transitions' = transitions
            \/ /\ done >= at
               /\ transitions' = Append(transitions, Entry(to, trigger, 0, 0))
               /\ task'.stage \in {to, task.stage, ""}
         /\ task'.stage \in {to, task.stage, ""}
<1>1. 0 \in Nat /\ 0 \in 0..MaxExecution
  BY AdvanceStageArguments
<1> QED
  BY <1>1, AdvanceStageEffect

\* What the humans do keeps the types: one step per operation.
LEMMA HumanNextType == TypeOK /\ HumanNext => TypeOK'
<1> SUFFICES ASSUME TypeOK, HumanNext PROVE TypeOK'
  OBVIOUS
<1>1. ASSUME NEW draftSession \in BOOLEAN, Create(draftSession) PROVE TypeOK'
  <2>1. [BareTask("requirements") EXCEPT !.draftSession = draftSession] \in Task
    BY BareTaskType, AdvanceStageArguments DEF Task
  <2> QED
    BY <1>1, <2>1, RewriteTaskEffect DEF TypeOK, Create
<1>2. CASE Update(SaveDefaultsBody)
  <2>1. [SaveDefaultsBody EXCEPT !.stage = task.stage] \in Task
    BY SaveDefaultsBodyType DEF TypeOK, Task
  <2> QED
    BY <1>2, <2>1, RewriteTaskEffect DEF TypeOK, Update
<1>3. ASSUME NEW done \in 0..3, FinalizeRequirements(done) PROVE TypeOK'
  <2>1. AdvanceStage(done, 2, "planning", "finalize_requirements", 0, 0)
    BY <1>3 DEF FinalizeRequirements
  <2>2. task' \in Task /\ transitions' \in Seq(Transition)
    BY <2>1, PlainMoveEffect, AdvanceStageArguments DEF Triggers
  <2> QED
    BY <1>3, <2>2 DEF TypeOK, FinalizeRequirements
<1>4. ASSUME NEW done \in 0..3, FinalizePlan(done) PROVE TypeOK'
  <2>1. AdvanceStage(done, 2, "implementation", "finalize_plan", 0, 0)
    BY <1>4 DEF FinalizePlan
  <2>2. task' \in Task /\ transitions' \in Seq(Transition)
    BY <2>1, PlainMoveEffect, AdvanceStageArguments DEF Triggers
  <2> QED
    BY <1>4, <2>2 DEF TypeOK, FinalizePlan
<1>5. ASSUME NEW decision \in Decisions, NEW done \in 0..3, FinalizeReview(decision, done)
      PROVE  TypeOK'
  <2>1. AdvanceStage(done, 2, VerdictStage[decision], "finalize_review", Len(reviews) + 1, 0)
    BY <1>5 DEF FinalizeReview
  <2>2. VerdictStage[decision] \in Stages /\ Len(reviews) + 1 \in Nat
    BY AdvanceStageArguments DEF TypeOK
  <2>3. task' \in Task /\ transitions' \in Seq(Transition)
    BY <2>1, <2>2, AdvanceStageEffect, AdvanceStageArguments DEF Triggers
  <2>4. reviews' \in Seq(Review)
    <3>1. PICK execution \in 0..MaxExecution : RecordReview(done >= 1, execution, decision)
      BY <1>5 DEF FinalizeReview
    <3>2. [execution |-> execution, decision |-> decision] \in Review
      BY DEF Review
    <3> QED
      BY <3>1, <3>2 DEF TypeOK, RecordReview
  <2> QED
    BY <1>5, <2>3, <2>4 DEF TypeOK, FinalizeReview
<1>6. ASSUME NEW concept \in Concept, AppendKnowledgeActivity(concept) PROVE TypeOK'
  <2>1. [task EXCEPT !.activity = Append(@, concept)] \in Task
    <3>1. Append(task.activity, concept) \in Seq(Concept)
      BY DEF TypeOK, Task
    <3> QED
      BY <3>1 DEF TypeOK, Task
  <2> QED
    BY <1>6, <2>1, RewriteTaskEffect DEF TypeOK, AppendKnowledgeActivity
<1>7. ASSUME NEW done \in 0..3, ReviseToRequirements(done) PROVE TypeOK'
  <2>1. AdvanceStage(done, 1, "requirements", "revise_requirements", 0, 0)
    BY <1>7 DEF ReviseToRequirements
  <2>2. task' \in Task /\ transitions' \in Seq(Transition)
    BY <2>1, PlainMoveEffect, AdvanceStageArguments DEF Triggers
  <2> QED
    BY <1>7, <2>2 DEF TypeOK, ReviseToRequirements
<1>8. ASSUME NEW done \in 0..3, ReviseToPlanning(done) PROVE TypeOK'
  <2>1. AdvanceStage(done, 1, "planning", "revise_planning", 0, 0)
    BY <1>8 DEF ReviseToPlanning
  <2>2. task' \in Task /\ transitions' \in Seq(Transition)
    BY <2>1, PlainMoveEffect, AdvanceStageArguments DEF Triggers
  <2> QED
    BY <1>8, <2>2 DEF TypeOK, ReviseToPlanning
<1> QED
  BY <1>1, <1>2, <1>3, <1>4, <1>5, <1>6, <1>7, <1>8, LandedBounds DEF HumanNext

\* What the handlers call keeps the types, likewise.
LEMMA HandlerNextType == TypeOK /\ HandlerNext => TypeOK'
<1> SUFFICES ASSUME TypeOK, HandlerNext PROVE TypeOK'
  OBVIOUS
<1>1. ASSUME NEW n \in ExecutionId, CreateExecutionLog(n) PROVE TypeOK'
  BY <1>1 DEF TypeOK, CreateExecutionLog
<1>2. ASSUME NEW n \in ExecutionId, NEW output \in Output, RecordFailure(n, output)
      PROVE  TypeOK'
  <2>1. [status |-> "failure", output |-> output] \in Execution
    BY DEF Execution, Status
  <2> QED
    BY <1>2, <2>1 DEF TypeOK, RecordFailure
<1>3. ASSUME NEW n \in ExecutionId, NEW output \in Output, NEW done \in 0..3,
             RecordSuccess(n, output, done)
      PROVE  TypeOK'
  <2>1. [status |-> "success", output |-> output] \in Execution
    BY DEF Execution, Status
  <2>2. executions' \in [ExecutionId -> Execution \union {NoExecution}]
    BY <1>3, <2>1 DEF TypeOK, RecordSuccess
  <2>3. AdvanceStage(done, 2, "review", "execution_success", 0, n) /\ n \in Nat
    BY <1>3 DEF RecordSuccess, ExecutionId
  <2>4. task' \in Task /\ transitions' \in Seq(Transition)
    BY <2>3, AdvanceStageEffect, AdvanceStageArguments DEF Triggers
  <2> QED
    BY <1>3, <2>2, <2>4 DEF TypeOK, RecordSuccess
<1>4. ASSUME NEW pr \in PullRequest, RecordPullRequest(pr) PROVE TypeOK'
  <2>1. [task EXCEPT !.pullRequest = pr] \in Task
    BY DEF TypeOK, Task
  <2> QED
    BY <1>4, <2>1, RewriteTaskEffect DEF TypeOK, RecordPullRequest
<1>5. ASSUME NEW done \in 0..3, MarkPRMerged(done) PROVE TypeOK'
  <2>1. AdvanceStage(done, 1, "cleanup", "mark_pr_merged", 0, 0)
    BY <1>5 DEF MarkPRMerged
  <2>2. task' \in Task /\ transitions' \in Seq(Transition)
    BY <2>1, PlainMoveEffect, AdvanceStageArguments DEF Triggers
  <2> QED
    BY <1>5, <2>2 DEF TypeOK, MarkPRMerged
<1>6. ASSUME NEW status \in CleanupReport, SetCleanupStatus(status) PROVE TypeOK'
  <2>1. [task EXCEPT !.cleanupStatus = status] \in Task
    BY DEF TypeOK, Task
  <2> QED
    BY <1>6, <2>1, RewriteTaskEffect DEF TypeOK, SetCleanupStatus
<1>7. ASSUME NEW done \in 0..3, CompleteCleanup(done) PROVE TypeOK'
  <2>1. AdvanceStage(done, 1, "completed", "cleanup_complete", 0, 0)
    BY <1>7 DEF CompleteCleanup
  <2>2. task' \in Task /\ transitions' \in Seq(Transition)
    BY <2>1, PlainMoveEffect, AdvanceStageArguments DEF Triggers
  <2> QED
    BY <1>7, <2>2 DEF TypeOK, CompleteCleanup
<1> QED
  BY <1>1, <1>2, <1>3, <1>4, <1>5, <1>6, <1>7, LandedBounds DEF HandlerNext

\* The files always hold what they can hold: in particular no stage outside
\* the workflow and no record with a number out of range.
THEOREM TypeCorrect == TaskSpec => []TypeOK
<1>1. TaskInit => TypeOK
  <2>1. BareTask("absent") \in Task
    BY BareTaskType DEF Stages
  <2>2. << >> \in Seq(Transition) /\ << >> \in Seq(Review)
    OBVIOUS
  <2> QED
    BY <2>1, <2>2 DEF TaskInit, TypeOK
<1>2. TypeOK /\ [TaskNext]_taskVars => TypeOK'
  <2>1. TypeOK /\ UNCHANGED taskVars => TypeOK'
    BY DEF TypeOK, taskVars
  <2> QED
    BY <2>1, HumanNextType, HandlerNextType DEF TypeOK, TaskNext
<1> QED
  BY <1>1, <1>2, PTL DEF TaskSpec

-----------------------------------------------------------------------------
(* Every step either appends nothing or appends one entry that leads from   *)
(* the stage on disk and that the other files already back.                 *)

NamedStages == Stages \ {"absent", ""}

RecordsKept ==
    /\ docs \subseteq docs'
    /\ \A n \in ExecutionId : Recorded(n) => executions'[n] = executions[n]
    /\ Len(reviews') >= Len(reviews)
    /\ \A r \in 1..Len(reviews) : reviews'[r] = reviews[r]

Quiet ==
    /\ transitions' = transitions
    /\ \/ task'.stage \in {task.stage, ""}
       \/ task.stage = "absent" /\ task'.stage = "requirements"

\* The documents the new stage works from are there, as far as the old stage
\* did not need them already.
DocsReady(to) ==
    /\ task.stage = "requirements" /\ to # "requirements" => "context" \in docs'
    /\ task.stage \in {"requirements", "planning"} /\ to \notin {"requirements", "planning"}
         => "plan" \in docs'

\* The evidence an entry needs is new, and on disk after the step.
BackedByStep(to, trigger, review, execution) ==
    /\ trigger = "execution_success" =>
         /\ execution \in ExecutionId
         /\ ~ Recorded(execution)
         /\ executions'[execution].status = "success"
    /\ trigger = "finalize_review" =>
         /\ review \in 1..Len(reviews')
         /\ VerdictStage[reviews'[review].decision] = to

Moved ==
    \E to \in NamedStages, trigger \in Triggers, review \in Nat, execution \in 0..MaxExecution :
       /\ task.stage \in NamedStages
       /\ transitions' = Append(transitions, Entry(to, trigger, review, execution))
       /\ task'.stage \in {to, task.stage, ""}
       /\ DocsReady(to)
       /\ BackedByStep(to, trigger, review, execution)

\* The stages and triggers of the moves that need no evidence.
LEMMA PlainMoveArguments ==
  /\ NamedStages = {"requirements", "planning", "implementation", "review", "pr_review",
                    "cleanup", "completed"}
  /\ {"finalize_requirements", "finalize_plan", "mark_pr_merged", "revise_requirements",
      "revise_planning", "cleanup_complete"}
       \subseteq Triggers \ {"execution_success", "finalize_review"}
  /\ 1 \in 1..2 /\ 2 \in 1..2
<1>1. 1 \in 1..2 /\ 2 \in 1..2
  OBVIOUS
<1> QED
  BY <1>1 DEF NamedStages, Stages, Triggers

\* A step that leaves the three record files alone keeps their records.
LEMMA RecordsUnchanged ==
  ASSUME TypeOK, UNCHANGED <<executions, reviews>>, docs \subseteq docs' PROVE RecordsKept
BY DEF RecordsKept, Recorded, TypeOK

\* A finalized document, a revision, a merge or a completed cleanup.
LEMMA PlainMoveShape ==
  ASSUME TypeOK, NEW done \in 0..3, NEW at \in 1..2, NEW to \in NamedStages,
         NEW trigger \in Triggers \ {"execution_success", "finalize_review"},
         AdvanceStage(done, at, to, trigger, 0, 0), task.stage \in NamedStages,
         UNCHANGED <<executions, reviews>>, docs \subseteq docs',
         done >= at => DocsReady(to)
  PROVE  RecordsKept /\ (Quiet \/ Moved)
<1>1. RecordsKept
  BY RecordsUnchanged
<1>2. to \in Stages /\ trigger \in Triggers /\ 0 \in Nat /\ 0 \in 0..MaxExecution
  BY AdvanceStageArguments DEF NamedStages
<1>3. BackedByStep(to, trigger, 0, 0)
  BY DEF BackedByStep
<1>4. \/ task' = task /\ transitions' = transitions
      \/ /\ done >= at
         /\ transitions' = Append(transitions, Entry(to, trigger, 0, 0))
         /\ task'.stage \in {to, task.stage, ""}
  BY <1>2, PlainMoveEffect
<1>5. CASE task' = task /\ transitions' = transitions
  BY <1>1, <1>5 DEF Quiet
<1>6. CASE /\ done >= at
           /\ transitions' = Append(transitions, Entry(to, trigger, 0, 0))
           /\ task'.stage \in {to, task.stage, ""}
  BY <1>1, <1>2, <1>3, <1>6 DEF Moved
<1> QED
  BY <1>4, <1>5, <1>6

\* Every step keeps the records, and either moves the task along (Moved) or
\* appends no transition (Quiet).
LEMMA StepShape == TypeOK /\ [TaskNext]_taskVars => RecordsKept /\ (Quiet \/ Moved)
<1> SUFFICES ASSUME TypeOK, [TaskNext]_taskVars PROVE RecordsKept /\ (Quiet \/ Moved)
  OBVIOUS
<1> DEFINE Goal == RecordsKept /\ (Quiet \/ Moved)
<1>a. ASSUME UNCHANGED <<docs, transitions, executions, reviews>>,
             task'.stage \in {task.stage, ""}
      PROVE  Goal
  BY <1>a, RecordsUnchanged DEF Quiet
<1>1. ASSUME NEW draftSession \in BOOLEAN, Create(draftSession) PROVE Goal
  <2>1. [BareTask("requirements") EXCEPT !.draftSession = draftSession] \in Task
    BY BareTaskType, AdvanceStageArguments DEF Task
  <2>2. [BareTask("requirements") EXCEPT !.draftSession = draftSession].stage = "requirements"
    BY DEF BareTask
  <2>3. task'.stage \in {"requirements", ""}
    BY <1>1, <2>1, <2>2, RewriteTaskEffect DEF Create, TypeOK
  <2> QED
    BY <1>1, <2>3, RecordsUnchanged DEF Create, Quiet
<1>2. ASSUME Update(SaveDefaultsBody) PROVE Goal
  <2>1. [SaveDefaultsBody EXCEPT !.stage = task.stage] \in Task
    BY SaveDefaultsBodyType DEF TypeOK, Task
  <2>2. [SaveDefaultsBody EXCEPT !.stage = task.stage].stage = task.stage
    BY SaveDefaultsBodyType DEF Task
  <2>3. task'.stage \in {task.stage, ""}
    BY <1>2, <2>1, <2>2, RewriteTaskEffect DEF Update, TypeOK
  <2> QED
    BY <1>2, <2>3, <1>a DEF Update
<1>3. ASSUME NEW done \in 0..3, FinalizeRequirements(done) PROVE Goal
  <2>1. /\ AdvanceStage(done, 2, "planning", "finalize_requirements", 0, 0)
        /\ task.stage \in NamedStages
        /\ UNCHANGED <<executions, reviews>>
        /\ docs \subseteq docs'
    BY <1>3, PlainMoveArguments DEF FinalizeRequirements
  <2>2. done >= 2 => DocsReady("planning")
    BY <1>3 DEF FinalizeRequirements, DocsReady
  <2> QED
    BY <2>1, <2>2, PlainMoveArguments, PlainMoveShape
<1>4. ASSUME NEW done \in 0..3, FinalizePlan(done) PROVE Goal
  <2>1. /\ AdvanceStage(done, 2, "implementation", "finalize_plan", 0, 0)
        /\ task.stage \in NamedStages
        /\ UNCHANGED <<executions, reviews>>
        /\ docs \subseteq docs'
    BY <1>4, PlainMoveArguments DEF FinalizePlan
  <2>2. done >= 2 => DocsReady("implementation")
    BY <1>4 DEF FinalizePlan, DocsReady
  <2> QED
    BY <2>1, <2>2, PlainMoveArguments, PlainMoveShape
<1>5. ASSUME NEW decision \in Decisions, NEW done \in 0..3, FinalizeReview(decision, done)
      PROVE  Goal
  <2> DEFINE r == Len(reviews) + 1
  <2>1. AdvanceStage(done, 2, VerdictStage[decision], "finalize_review", r, 0)
    BY <1>5 DEF FinalizeReview
  <2>2. PICK execution \in 0..MaxExecution : RecordReview(done >= 1, execution, decision)
    BY <1>5 DEF FinalizeReview
  <2>3. /\ VerdictStage[decision] \in NamedStages
        /\ VerdictStage[decision] \in Stages
        /\ r \in Nat /\ 0 \in 0..MaxExecution /\ "finalize_review" \in Triggers
    <3>1. r \in Nat
      BY DEF TypeOK
    <3>2. "finalize_review" \in Triggers
      BY DEF Triggers
    <3>3. VerdictStage[decision] \in NamedStages /\ VerdictStage[decision] \in Stages
      BY AdvanceStageArguments, PlainMoveArguments
    <3> HIDE DEF r
    <3> QED
      BY <3>1, <3>2, <3>3, AdvanceStageArguments
  <2>4. RecordsKept
    <3>1. [execution |-> execution, decision |-> decision] \in Review
      BY DEF Review
    <3>2. executions' = executions /\ docs' = docs
      BY <1>5 DEF FinalizeReview
    <3> QED
      BY <2>2, <3>1, <3>2 DEF RecordReview, RecordsKept, Recorded, TypeOK
  <2>5. \/ task' = task /\ transitions' = transitions
        \/ /\ done >= 2
           /\ transitions' = Append(transitions, Entry(VerdictStage[decision], "finalize_review", r, 0))
           /\ task'.stage \in {VerdictStage[decision], task.stage, ""}
    <3> HIDE DEF r
    <3> QED
      BY <2>1, <2>3, AdvanceStageEffect, PlainMoveArguments
  <2>6. CASE task' = task /\ transitions' = transitions
    BY <2>4, <2>6 DEF Quiet
  <2>7. CASE /\ done >= 2
             /\ transitions' = Append(transitions, Entry(VerdictStage[decision], "finalize_review", r, 0))
             /\ task'.stage \in {VerdictStage[decision], task.stage, ""}
    <3>1. reviews' = Append(reviews, [execution |-> execution, decision |-> decision])
      <4>1. done >= 2
        BY <2>7
      <4>2. done >= 1
        BY <4>1
      <4> QED
        BY <4>2, <2>2 DEF RecordReview
    <3>2. r \in 1..Len(reviews') /\ reviews'[r].decision = decision
      BY <3>1 DEF TypeOK
    <3>3. BackedByStep(VerdictStage[decision], "finalize_review", r, 0)
      <4> HIDE DEF r
      <4> QED
        BY <3>2 DEF BackedByStep
    <3>4. task.stage \in NamedStages /\ DocsReady(VerdictStage[decision])
      BY <1>5 DEF FinalizeReview, NamedStages, Stages, DocsReady
    <3> HIDE DEF r
    <3> QED
      BY <2>3, <2>4, <2>7, <3>3, <3>4 DEF Moved
  <2> QED
    BY <2>5, <2>6, <2>7
<1>6. ASSUME NEW concept \in Concept, AppendKnowledgeActivity(concept) PROVE Goal
  <2>1. Append(task.activity, concept) \in Seq(Concept)
    BY DEF TypeOK, Task
  <2>2. /\ [task EXCEPT !.activity = Append(@, concept)] \in Task
        /\ [task EXCEPT !.activity = Append(@, concept)].stage = task.stage
    BY <2>1 DEF TypeOK, Task
  <2>3. task'.stage \in {task.stage, ""}
    BY <1>6, <2>2, RewriteTaskEffect DEF AppendKnowledgeActivity, TypeOK
  <2> QED
    BY <1>6, <2>3, <1>a DEF AppendKnowledgeActivity
<1>7. ASSUME NEW done \in 0..3, ReviseToRequirements(done) PROVE Goal
  <2>1. /\ AdvanceStage(done, 1, "requirements", "revise_requirements", 0, 0)
        /\ task.stage \in NamedStages
        /\ UNCHANGED <<executions, reviews>>
        /\ docs \subseteq docs'
    BY <1>7, PlainMoveArguments DEF ReviseToRequirements
  <2>2. done >= 1 => DocsReady("requirements")
    BY <1>7 DEF ReviseToRequirements, DocsReady
  <2> QED
    BY <2>1, <2>2, PlainMoveArguments, PlainMoveShape
<1>8. ASSUME NEW done \in 0..3, ReviseToPlanning(done) PROVE Goal
  <2>1. /\ AdvanceStage(done, 1, "planning", "revise_planning", 0, 0)
        /\ task.stage \in NamedStages
        /\ UNCHANGED <<executions, reviews>>
        /\ docs \subseteq docs'
    BY <1>8, PlainMoveArguments DEF ReviseToPlanning
  <2>2. done >= 1 => DocsReady("planning")
    BY <1>8 DEF ReviseToPlanning, DocsReady
  <2> QED
    BY <2>1, <2>2, PlainMoveArguments, PlainMoveShape
<1>9. ASSUME NEW n \in ExecutionId, CreateExecutionLog(n) PROVE Goal
  BY <1>9, <1>a DEF CreateExecutionLog
<1>10. ASSUME NEW n \in ExecutionId, NEW output \in Output, RecordFailure(n, output)
       PROVE  Goal
  BY <1>10 DEF RecordFailure, RecordsKept, Quiet, Recorded, TypeOK
<1>11. ASSUME NEW n \in ExecutionId, NEW output \in Output, NEW done \in 0..3,
              RecordSuccess(n, output, done)
       PROVE  Goal
  <2> DEFINE record == [status |-> "success", output |-> output]
  <2>1. AdvanceStage(done, 2, "review", "execution_success", 0, n)
    BY <1>11 DEF RecordSuccess
  <2>2. /\ "review" \in NamedStages /\ "review" \in Stages /\ 0 \in Nat
        /\ n \in 0..MaxExecution /\ "execution_success" \in Triggers
    BY AdvanceStageArguments DEF NamedStages, Triggers
  <2>3. RecordsKept
    BY <1>11 DEF RecordSuccess, RecordsKept, Recorded, TypeOK
  <2>4. \/ task' = task /\ transitions' = transitions
        \/ /\ done >= 2
           /\ transitions' = Append(transitions, Entry("review", "execution_success", 0, n))
           /\ task'.stage \in {"review", task.stage, ""}
    BY <2>1, <2>2, AdvanceStageEffect, PlainMoveArguments
  <2>5. CASE task' = task /\ transitions' = transitions
    BY <2>3, <2>5 DEF Quiet
  <2>6. CASE /\ done >= 2
             /\ transitions' = Append(transitions, Entry("review", "execution_success", 0, n))
             /\ task'.stage \in {"review", task.stage, ""}
    <3>1. executions' = [executions EXCEPT ![n] = record]
      <4>1. done >= 2
        BY <2>6
      <4>2. done >= 1
        BY <4>1
      <4> QED
        BY <4>2, <1>11 DEF RecordSuccess
    <3>2. executions'[n] = record /\ record.status = "success"
      BY <3>1 DEF TypeOK
    <3>3. BackedByStep("review", "execution_success", 0, n)
      BY <1>11, <3>2 DEF BackedByStep, RecordSuccess
    <3>4. task.stage \in NamedStages /\ DocsReady("review")
      BY <1>11 DEF RecordSuccess, NamedStages, Stages, DocsReady
    <3> QED
      BY <2>2, <2>3, <2>6, <3>3, <3>4 DEF Moved
  <2> QED
    BY <2>4, <2>5, <2>6
<1>12. ASSUME NEW pr \in PullRequest, RecordPullRequest(pr) PROVE Goal
  <2>1. /\ [task EXCEPT !.pullRequest = pr] \in Task
        /\ [task EXCEPT !.pullRequest = pr].stage = task.stage
    BY DEF TypeOK, Task
  <2>2. task'.stage \in {task.stage, ""}
    BY <1>12, <2>1, RewriteTaskEffect DEF RecordPullRequest, TypeOK
  <2> QED
    BY <1>12, <2>2, <1>a DEF RecordPullRequest
<1>13. ASSUME NEW done \in 0..3, MarkPRMerged(done) PROVE Goal
  <2>1. /\ AdvanceStage(done, 1, "cleanup", "mark_pr_merged", 0, 0)
        /\ task.stage \in NamedStages
        /\ UNCHANGED <<executions, reviews>>
        /\ docs \subseteq docs'
    BY <1>13, PlainMoveArguments DEF MarkPRMerged
  <2>2. done >= 1 => DocsReady("cleanup")
    BY <1>13 DEF MarkPRMerged, DocsReady
  <2> QED
    BY <2>1, <2>2, PlainMoveArguments, PlainMoveShape
<1>14. ASSUME NEW status \in CleanupReport, SetCleanupStatus(status) PROVE Goal
  <2>1. /\ [task EXCEPT !.cleanupStatus = status] \in Task
        /\ [task EXCEPT !.cleanupStatus = status].stage = task.stage
    BY DEF TypeOK, Task
  <2>2. task'.stage \in {task.stage, ""}
    BY <1>14, <2>1, RewriteTaskEffect DEF SetCleanupStatus, TypeOK
  <2> QED
    BY <1>14, <2>2, <1>a DEF SetCleanupStatus
<1>15. ASSUME NEW done \in 0..3, CompleteCleanup(done) PROVE Goal
  <2>1. /\ AdvanceStage(done, 1, "completed", "cleanup_complete", 0, 0)
        /\ task.stage \in NamedStages
        /\ UNCHANGED <<executions, reviews>>
        /\ docs \subseteq docs'
    BY <1>15, PlainMoveArguments DEF CompleteCleanup
  <2>2. done >= 1 => DocsReady("completed")
    BY <1>15 DEF CompleteCleanup, DocsReady
  <2> QED
    BY <2>1, <2>2, PlainMoveArguments, PlainMoveShape
<1>16. CASE UNCHANGED taskVars
  BY <1>16, <1>a DEF taskVars
<1> HIDE DEF Goal
<1>17. ASSUME HumanNext PROVE Goal
  BY <1>1, <1>2, <1>3, <1>4, <1>5, <1>6, <1>7, <1>8, <1>17, LandedBounds DEF HumanNext
<1>18. ASSUME HandlerNext PROVE Goal
  BY <1>9, <1>10, <1>11, <1>12, <1>13, <1>14, <1>15, <1>18, LandedBounds DEF HandlerNext
<1> USE DEF Goal
<1> QED
  BY <1>16, <1>17, <1>18 DEF TaskNext

-----------------------------------------------------------------------------
\* No entry starts or ends at an absent or unreadable task: what HistoryChains
\* needs to be inductive, since a created task starts the log anew.
EntriesNamed ==
    \A i \in 1..Len(transitions) :
       transitions[i].from \in NamedStages /\ transitions[i].to \in NamedStages

HistoryInv == EntriesNamed /\ HistoryChains

\* The log after an entry was appended to it.
LEMMA AppendedLog ==
  ASSUME TypeOK, NEW to \in Stages, NEW trigger \in Triggers, NEW review \in Nat,
         NEW execution \in 0..MaxExecution,
         transitions' = Append(transitions, Entry(to, trigger, review, execution))
  PROVE  /\ Len(transitions) \in Nat
         /\ Len(transitions') = Len(transitions) + 1
         /\ \A i \in 1..Len(transitions) : transitions'[i] = transitions[i]
         /\ transitions'[Len(transitions) + 1] = Entry(to, trigger, review, execution)
         /\ transitions' # << >>
<1>1. transitions \in Seq(Transition)
  BY DEF TypeOK
<1>2. Entry(to, trigger, review, execution) \in Transition
  BY DEF Entry, Transition, TypeOK, Task
<1> HIDE DEF Entry
<1> QED
  BY <1>1, <1>2

\* An entry appended where the task stands keeps the chain.
LEMMA MovedChains == TypeOK /\ HistoryInv /\ Moved => HistoryInv'
<1> SUFFICES ASSUME TypeOK, HistoryInv, Moved PROVE HistoryInv'
  OBVIOUS
<1>1. PICK to \in NamedStages, trigger \in Triggers, review \in Nat, execution \in 0..MaxExecution :
        /\ task.stage \in NamedStages
        /\ transitions' = Append(transitions, Entry(to, trigger, review, execution))
        /\ task'.stage \in {to, task.stage, ""}
  BY DEF Moved
<1> DEFINE n == Len(transitions)
           e == Entry(to, trigger, review, execution)
<1>2. /\ n \in Nat /\ Len(transitions') = n + 1
      /\ \A i \in 1..n : transitions'[i] = transitions[i]
      /\ transitions'[n + 1] = e
      /\ transitions' # << >>
  BY <1>1, AppendedLog DEF NamedStages
<1>3. e.from = task.stage /\ e.to = to
  BY DEF Entry
<1>4. transitions = << >> <=> n = 0
  BY DEF TypeOK
<1>5. task.stage \in IF n = 0 THEN {"requirements"}
                    ELSE {transitions[n].to, transitions[n].from}
  BY <1>1, <1>4 DEF HistoryInv, HistoryChains, NamedStages
<1> HIDE DEF n, e
<1>6. EntriesNamed'
  <2> SUFFICES ASSUME NEW i \in 1..(n + 1)
               PROVE  transitions'[i].from \in NamedStages /\ transitions'[i].to \in NamedStages
    BY <1>2 DEF EntriesNamed
  <2>1. CASE i = n + 1
    BY <2>1, <1>1, <1>2, <1>3
  <2>2. CASE i \in 1..n
    BY <2>2, <1>2 DEF HistoryInv, EntriesNamed, n
  <2> QED
    BY <2>1, <2>2, <1>2
<1>7. \A i \in 1..(n + 1) : transitions'[i].from \in
         IF i = 1 THEN {"requirements"} ELSE {transitions'[i-1].to, transitions'[i-1].from}
  <2> SUFFICES ASSUME NEW i \in 1..(n + 1)
               PROVE  transitions'[i].from \in
                        IF i = 1 THEN {"requirements"}
                        ELSE {transitions'[i-1].to, transitions'[i-1].from}
    OBVIOUS
  <2>1. CASE i = n + 1
    <3>1. CASE n = 0
      BY <3>1, <2>1, <1>2, <1>3, <1>5
    <3>2. CASE n # 0
      <4>1. i # 1 /\ i - 1 = n /\ n \in 1..n
        BY <3>2, <2>1, <1>2
      <4>2. transitions'[n] = transitions[n]
        BY <4>1, <1>2
      <4> QED
        BY <3>2, <4>1, <4>2, <2>1, <1>2, <1>3, <1>5
    <3> QED
      BY <3>1, <3>2
  <2>2. CASE i \in 1..n
    <3>1. i # 1 => i - 1 \in 1..n
      BY <2>2, <1>2
    <3>2. transitions[i].from \in
            IF i = 1 THEN {"requirements"} ELSE {transitions[i-1].to, transitions[i-1].from}
      BY <2>2 DEF HistoryInv, HistoryChains, n
    <3> QED
      BY <2>2, <3>1, <3>2, <1>2
  <2> QED
    BY <2>1, <2>2, <1>2
<1>8. task'.stage \in {""} \union {transitions'[n + 1].to, transitions'[n + 1].from}
  BY <1>1, <1>2, <1>3
<1> QED
  BY <1>2, <1>6, <1>7, <1>8 DEF HistoryInv, HistoryChains

\* Without an entry the stage is kept, lost, or that of a created task.
LEMMA QuietChains == TypeOK /\ HistoryInv /\ Quiet => HistoryInv'
<1> SUFFICES ASSUME TypeOK, HistoryInv, Quiet PROVE HistoryInv'
  OBVIOUS
<1>1. transitions' = transitions
  BY DEF Quiet
<1>2. task.stage = "absent" => transitions = << >>
  <2> SUFFICES ASSUME task.stage = "absent", transitions # << >> PROVE FALSE
    OBVIOUS
  <2>1. Len(transitions) \in 1..Len(transitions)
    BY DEF TypeOK
  <2>2. transitions[Len(transitions)].to \in NamedStages
        /\ transitions[Len(transitions)].from \in NamedStages
    BY <2>1 DEF HistoryInv, EntriesNamed
  <2> QED
    BY <2>2 DEF HistoryInv, HistoryChains, NamedStages
<1> QED
  BY <1>1, <1>2 DEF HistoryInv, HistoryChains, EntriesNamed, Quiet

\* transitions.yaml is a chain that ends where the task stands, give or take
\* one move that was stopped (task/lifecycle.go: the entry first, then the
\* task).
THEOREM HistoryCorrect == TaskSpec => []HistoryChains
<1>1. TaskInit => HistoryInv
  BY DEF TaskInit, BareTask, HistoryInv, HistoryChains, EntriesNamed
<1>2. TypeOK /\ HistoryInv /\ [TaskNext]_taskVars => HistoryInv'
  BY StepShape, MovedChains, QuietChains
<1>3. HistoryInv => HistoryChains
  BY DEF HistoryInv
<1> QED
  BY <1>1, <1>2, <1>3, TypeCorrect, PTL DEF TaskSpec

-----------------------------------------------------------------------------
\* An execution that succeeded is one on record.
LEMMA SuccessRecorded ==
  \A n \in ExecutionId : executions[n].status = "success" => Recorded(n)
BY DEF Recorded, NoExecution

\* Evidence once on record stays what it was.
LEMMA EvidenceKept ==
  ASSUME TypeOK, RecordsKept, TransitionsBacked, NEW i \in 1..Len(transitions),
         NEW t, t = transitions[i]
  PROVE  /\ t.trigger = "execution_success" =>
              t.execution \in ExecutionId /\ executions'[t.execution].status = "success"
         /\ t.trigger = "finalize_review" =>
              /\ t.review \in 1..Len(reviews')
              /\ VerdictStage[reviews'[t.review].decision] = t.to
<1>1. ASSUME t.trigger = "execution_success"
      PROVE  t.execution \in ExecutionId /\ executions'[t.execution].status = "success"
  <2>1. t.execution \in ExecutionId /\ executions[t.execution].status = "success"
    BY <1>1 DEF TransitionsBacked
  <2> QED
    BY <2>1, SuccessRecorded DEF RecordsKept
<1>2. ASSUME t.trigger = "finalize_review"
      PROVE  /\ t.review \in 1..Len(reviews')
             /\ VerdictStage[reviews'[t.review].decision] = t.to
  <2>1. t.review \in 1..Len(reviews) /\ VerdictStage[reviews[t.review].decision] = t.to
    BY <1>2 DEF TransitionsBacked
  <2>2. Len(reviews) \in Nat /\ Len(reviews') >= Len(reviews)
        /\ reviews'[t.review] = reviews[t.review]
    BY <2>1 DEF RecordsKept, TypeOK
  <2>3. t.review \in 1..Len(reviews')
    BY <2>1, <2>2
  <2> QED
    BY <2>1, <2>2, <2>3
<1> QED
  BY <1>1, <1>2

\* A step keeps every transition backed: the evidence stays, and a new entry
\* cites evidence its operation has written before it.
LEMMA BackedStep ==
  TypeOK /\ TransitionsBacked /\ RecordsKept /\ (Quiet \/ Moved) => TransitionsBacked'
<1> SUFFICES ASSUME TypeOK, TransitionsBacked, RecordsKept, Quiet \/ Moved,
                    NEW i \in 1..Len(transitions')
             PROVE  LET t == transitions'[i] IN
                      /\ t.trigger = "execution_success" =>
                           /\ t.execution \in ExecutionId
                           /\ executions'[t.execution].status = "success"
                      /\ t.trigger = "finalize_review" =>
                           /\ t.review \in 1..Len(reviews')
                           /\ VerdictStage[reviews'[t.review].decision] = t.to
  BY DEF TransitionsBacked
<1>1. CASE Quiet
  BY <1>1, EvidenceKept DEF Quiet
<1>2. CASE Moved
  <2>1. PICK to \in NamedStages, trigger \in Triggers, review \in Nat, execution \in 0..MaxExecution :
          /\ transitions' = Append(transitions, Entry(to, trigger, review, execution))
          /\ BackedByStep(to, trigger, review, execution)
    BY <1>2 DEF Moved
  <2>2. /\ Len(transitions) \in Nat /\ Len(transitions') = Len(transitions) + 1
        /\ \A j \in 1..Len(transitions) : transitions'[j] = transitions[j]
        /\ transitions'[Len(transitions) + 1] = Entry(to, trigger, review, execution)
    BY <2>1, AppendedLog DEF NamedStages
  <2>3. CASE i = Len(transitions) + 1
    BY <2>1, <2>2, <2>3 DEF BackedByStep, Entry
  <2>4. CASE i \in 1..Len(transitions)
    BY <2>2, <2>4, EvidenceKept
  <2> QED
    BY <2>2, <2>3, <2>4
<1> QED
  BY <1>1, <1>2

\* No transition cites evidence that is not on disk: a record is written before
\* the entry that names it, and records are never rewritten.
THEOREM BackedCorrect == TaskSpec => []TransitionsBacked
<1>1. TaskInit => TransitionsBacked
  BY DEF TaskInit, TransitionsBacked
<1>2. TypeOK /\ TransitionsBacked /\ [TaskNext]_taskVars => TransitionsBacked'
  BY StepShape, BackedStep
<1> QED
  BY <1>1, <1>2, TypeCorrect, PTL DEF TaskSpec

\* The execution a new entry names is recorded by that very step, so no older
\* entry can name it.
LEMMA OnceStep ==
  TypeOK /\ TransitionsBacked /\ EvidenceUsedOnce /\ (Quiet \/ Moved) => EvidenceUsedOnce'
<1> SUFFICES ASSUME TypeOK, TransitionsBacked, EvidenceUsedOnce, Quiet \/ Moved
             PROVE  EvidenceUsedOnce'
  OBVIOUS
<1>1. CASE Quiet
  BY <1>1 DEF Quiet, EvidenceUsedOnce
<1>2. CASE Moved
  <2> DEFINE Cites(t, n) == t.trigger = "execution_success" /\ t.execution = n
  <2>1. PICK to \in NamedStages, trigger \in Triggers, review \in Nat, execution \in 0..MaxExecution :
          /\ transitions' = Append(transitions, Entry(to, trigger, review, execution))
          /\ BackedByStep(to, trigger, review, execution)
    BY <1>2 DEF Moved
  <2> DEFINE n == Len(transitions)
             e == Entry(to, trigger, review, execution)
  <2>2. /\ n \in Nat /\ Len(transitions') = n + 1
        /\ \A j \in 1..n : transitions'[j] = transitions[j]
        /\ transitions'[n + 1] = e
    BY <2>1, AppendedLog DEF NamedStages
  <2>3. e.trigger = "execution_success" => ~ Recorded(e.execution)
    BY <2>1 DEF BackedByStep, Entry
  <2>4. \A i \in 1..n : transitions[i].trigger = "execution_success" =>
                         Recorded(transitions[i].execution)
    BY SuccessRecorded DEF TransitionsBacked
  <2>5. \A i \in 1..n : ~ (/\ transitions[i].trigger = "execution_success"
                           /\ e.trigger = "execution_success"
                           /\ transitions[i].execution = e.execution)
    BY <2>3, <2>4
  <2> HIDE DEF n, e
  <2>6. \A i \in 1..(n + 1) : i \in 1..n \/ i = n + 1
    BY <2>2
  <2> SUFFICES ASSUME NEW i \in 1..(n + 1), NEW j \in 1..(n + 1),
                      transitions'[i].trigger = "execution_success",
                      transitions'[j].trigger = "execution_success",
                      transitions'[i].execution = transitions'[j].execution
               PROVE  i = j
    BY <2>2 DEF EvidenceUsedOnce
  <2>7. CASE i \in 1..n /\ j \in 1..n
    BY <2>7, <2>2 DEF EvidenceUsedOnce, n
  <2>8. CASE i \in 1..n /\ j = n + 1
    BY <2>8, <2>2, <2>5
  <2>9. CASE i = n + 1 /\ j \in 1..n
    BY <2>9, <2>2, <2>5
  <2> QED
    BY <2>6, <2>7, <2>8, <2>9
<1> QED
  BY <1>1, <1>2

\* An execution moves its task to review at most once, though the writes of
\* its success may have been stopped and its request retried.
THEOREM UsedOnceCorrect == TaskSpec => []EvidenceUsedOnce
<1>1. TaskInit => EvidenceUsedOnce
  BY DEF TaskInit, EvidenceUsedOnce
<1>2. TypeOK /\ TransitionsBacked /\ EvidenceUsedOnce /\ [TaskNext]_taskVars => EvidenceUsedOnce'
  BY StepShape, OnceStep
<1> QED
  BY <1>1, <1>2, TypeCorrect, BackedCorrect, PTL DEF TaskSpec

\* The three record stores only grow.
THEOREM AppendOnlyCorrect == TaskSpec => RecordsAppendOnly
<1> DEFINE Grows ==
        /\ \A n \in ExecutionId : Recorded(n) => executions'[n] = executions[n]
        /\ Len(reviews') >= Len(reviews)
        /\ \A r \in 1..Len(reviews) : reviews'[r] = reviews[r]
        /\ Len(transitions') >= Len(transitions)
        /\ \A i \in 1..Len(transitions) : transitions'[i] = transitions[i]
<1>1. TypeOK /\ [TaskNext]_taskVars => [Grows]_taskVars
  <2> SUFFICES ASSUME TypeOK, [TaskNext]_taskVars PROVE Grows
    OBVIOUS
  <2>1. RecordsKept /\ (Quiet \/ Moved)
    BY StepShape
  <2>2. Len(transitions) \in Nat
    BY DEF TypeOK
  <2>3. CASE Quiet
    <3>1. transitions' = transitions /\ Len(transitions') >= Len(transitions)
      <4>1. transitions' = transitions
        BY <2>3 DEF Quiet
      <4> QED
        BY <4>1, <2>2
    <3> QED
      BY <2>1, <3>1 DEF RecordsKept
  <2>4. CASE Moved
    <3>1. PICK to \in NamedStages, trigger \in Triggers, review \in Nat, execution \in 0..MaxExecution :
            transitions' = Append(transitions, Entry(to, trigger, review, execution))
      BY <2>4 DEF Moved
    <3>2. /\ Len(transitions') = Len(transitions) + 1
          /\ \A j \in 1..Len(transitions) : transitions'[j] = transitions[j]
      BY <3>1, AppendedLog DEF NamedStages
    <3> QED
      BY <2>1, <2>2, <3>2 DEF RecordsKept
  <2> QED
    BY <2>1, <2>3, <2>4
<1> QED
  BY <1>1, TypeCorrect, PTL DEF TaskSpec, RecordsAppendOnly

\* A task never stands at a stage whose documents are missing, however often it
\* was sent back and whichever write was stopped.
THEOREM DocsCorrect == TaskSpec => []DocsBeforeStage
<1>1. TaskInit => DocsBeforeStage
  BY DEF TaskInit, BareTask, DocsBeforeStage
<1>2. TypeOK /\ DocsBeforeStage /\ [TaskNext]_taskVars => DocsBeforeStage'
  <2> SUFFICES ASSUME TypeOK, DocsBeforeStage, [TaskNext]_taskVars PROVE DocsBeforeStage'
    OBVIOUS
  <2>1. RecordsKept /\ (Quiet \/ Moved)
    BY StepShape
  <2>2. docs \subseteq docs'
    BY <2>1 DEF RecordsKept
  <2>3. CASE Quiet
    BY <2>2, <2>3 DEF Quiet, DocsBeforeStage
  <2>4. CASE Moved
    <3>1. PICK to \in NamedStages :
            /\ task.stage \in NamedStages
            /\ task'.stage \in {to, task.stage, ""}
            /\ DocsReady(to)
      BY <2>4 DEF Moved
    <3> QED
      BY <2>2, <3>1 DEF DocsBeforeStage, DocsReady, NamedStages
  <2> QED
    BY <2>1, <2>3, <2>4
<1> QED
  BY <1>1, <1>2, TypeCorrect, PTL DEF TaskSpec

-----------------------------------------------------------------------------
(* The refinement of Lifecycle.                                             *)

Successes == {n \in ExecutionId : executions[n].status = "success"}
Verdicts == {<<r, reviews[r].decision>> : r \in 1..Len(reviews)}

LifecycleStep == L!Next \/ UNCHANGED <<task.stage, Successes, Verdicts>>

\* The step a lifecycle action maps to when it brings no evidence.
LEMMA MoveRefines ==
  ASSUME NEW from, NEW to, <<from, to>> \in L!HumanEdges, task.stage = from,
         task'.stage \in {to, task.stage, ""}, UNCHANGED <<executions, reviews>>
  PROVE  LifecycleStep
<1>1. UNCHANGED <<Successes, Verdicts>>
  BY DEF Successes, Verdicts
<1>2. L!Move
  <2> DEFINE edge == <<from, to>>
  <2>1. edge \in L!HumanEdges /\ edge[1] = from /\ edge[2] = to
    OBVIOUS
  <2>2. L!Reached(edge[2])
    BY <2>1 DEF L!Reached
  <2> HIDE DEF edge
  <2>3. \E x \in L!HumanEdges : task.stage = x[1] /\ L!Reached(x[2])
    BY <2>1, <2>2
  <2> QED
    BY <2>3, <1>1 DEF L!Move, Successes, Verdicts
<1> QED
  BY <1>2 DEF LifecycleStep, L!Next

\* Rewriting task.yaml can only damage the stage.
LEMMA RewriteRefines ==
  ASSUME task'.stage \in {task.stage, ""}, task.stage # "absent",
         UNCHANGED <<executions, reviews>>
  PROVE  LifecycleStep
<1>1. UNCHANGED <<Successes, Verdicts>>
  BY DEF Successes, Verdicts
<1>2. CASE task'.stage = ""
  BY <1>1, <1>2 DEF L!Damage, L!Next, LifecycleStep, Successes, Verdicts
<1>3. CASE task'.stage = task.stage
  BY <1>1, <1>3 DEF LifecycleStep
<1> QED
  BY <1>2, <1>3

\* A recorded success is new evidence, used or not by the move.
LEMMA SuccessRefines ==
  ASSUME TypeOK, NEW n \in ExecutionId, NEW output \in Output, NEW done \in 0..3,
         RecordSuccess(n, output, done)
  PROVE  LifecycleStep
<1>1. AdvanceStage(done, 2, "review", "execution_success", 0, n)
  BY DEF RecordSuccess
<1>2. task'.stage \in {"review", task.stage, ""} /\ (done < 2 => task' = task)
  <2>1. /\ "review" \in Stages /\ 0 \in Nat /\ 2 \in 1..2 /\ n \in 0..MaxExecution
        /\ "execution_success" \in Triggers
    BY AdvanceStageArguments DEF Triggers
  <2>2. task'.stage \in {"review", task.stage, ""}
    BY <1>1, <2>1, AdvanceStageEffect
  <2>3. done < 2 => ~ (done > 2)
    OBVIOUS
  <2>4. done < 2 => task' = task
    BY <1>1, <2>3 DEF AdvanceStage, WriteTask
  <2> QED
    BY <2>2, <2>4
<1>3. Verdicts' = Verdicts
  BY DEF RecordSuccess, Verdicts
<1>4. CASE done = 0
  <2>1. ~ (done >= 1) /\ done < 2
    BY <1>4
  <2>2. executions' = executions /\ task' = task
    BY <2>1, <1>2 DEF RecordSuccess
  <2> QED
    BY <2>2, <1>3 DEF LifecycleStep, Successes
<1>5. CASE done # 0
  <2>1. done >= 1
    BY <1>5
  <2>2. executions' = [executions EXCEPT ![n] = [status |-> "success", output |-> output]]
    BY <2>1 DEF RecordSuccess
  <2>3. n \notin Successes
    BY SuccessRecorded DEF RecordSuccess, Successes
  <2>4. Successes' = Successes \union {n}
    BY <2>2 DEF Successes, TypeOK
  <2>5. L!Succeed(n)
    BY <1>2, <1>3, <2>3, <2>4 DEF L!Succeed, L!Reached, RecordSuccess, Successes, Verdicts
  <2> QED
    BY <2>5 DEF LifecycleStep, L!Next
<1> QED
  BY <1>4, <1>5

\* A recorded verdict is new evidence, used or not by the move.
LEMMA VerdictRefines ==
  ASSUME TypeOK, NEW decision \in Decisions, NEW done \in 0..3, FinalizeReview(decision, done)
  PROVE  LifecycleStep
<1> DEFINE r == Len(reviews) + 1
<1>1. AdvanceStage(done, 2, VerdictStage[decision], "finalize_review", r, 0)
  BY DEF FinalizeReview
<1>2. Len(reviews) \in Nat /\ r \in Nat
  BY DEF TypeOK
<1>3. task'.stage \in {VerdictStage[decision], task.stage, ""} /\ (done < 2 => task' = task)
  <2>1. /\ VerdictStage[decision] \in Stages /\ 2 \in 1..2 /\ 0 \in 0..MaxExecution
        /\ "finalize_review" \in Triggers
    BY AdvanceStageArguments DEF Triggers
  <2> HIDE DEF r
  <2>2. task'.stage \in {VerdictStage[decision], task.stage, ""}
    BY <1>1, <1>2, <2>1, AdvanceStageEffect
  <2>3. done < 2 => ~ (done > 2)
    OBVIOUS
  <2>4. done < 2 => task' = task
    BY <1>1, <2>3 DEF AdvanceStage, WriteTask
  <2> QED
    BY <2>2, <2>4
<1>4. Successes' = Successes
  BY DEF FinalizeReview, Successes
<1>5. PICK execution \in 0..MaxExecution : RecordReview(done >= 1, execution, decision)
  BY DEF FinalizeReview
<1>6. CASE done = 0
  <2>1. ~ (done >= 1) /\ done < 2
    BY <1>6
  <2>2. reviews' = reviews /\ task' = task
    BY <2>1, <1>3, <1>5 DEF RecordReview
  <2> QED
    BY <2>2, <1>4 DEF LifecycleStep, Verdicts
<1>7. CASE done # 0
  <2> DEFINE review == [execution |-> execution, decision |-> decision]
  <2>1. done >= 1
    BY <1>7
  <2>2. reviews' = Append(reviews, review)
    BY <2>1, <1>5 DEF RecordReview
  <2>3. /\ Len(reviews') = r
        /\ \A k \in 1..Len(reviews) : reviews'[k] = reviews[k]
        /\ reviews'[r] = review
    BY <2>2 DEF TypeOK
  <2>4. Verdicts' = Verdicts \union {<<r, decision>>}
    <3>1. 1..r = 1..Len(reviews) \union {r}
      BY <1>2
    <3>2. reviews'[r].decision = decision
      BY <2>3
    <3>3. \A k \in 1..Len(reviews) : reviews'[k].decision = reviews[k].decision
      BY <2>3
    <3>4. Len(reviews') = r
      BY <2>3
    <3> HIDE DEF r
    <3> QED
      BY <3>1, <3>2, <3>3, <3>4 DEF Verdicts
  <2>5. \A v \in Verdicts : v[1] # r
    BY <1>2 DEF Verdicts
  <2>6. r \in 1..MaxReview
    BY <1>2, <1>5, TaskStoreAssumption DEF RecordReview
  <2>7. decision \in L!Decisions /\ L!VerdictStage[decision] = VerdictStage[decision]
    BY DEF L!Decisions, Decisions, L!VerdictStage, VerdictStage
  <2> HIDE DEF r
  <2>8. L!Judge(r, decision)
    BY <1>3, <1>4, <2>4, <2>5, <2>7
       DEF L!Judge, L!Reached, FinalizeReview, Successes, Verdicts
  <2> QED
    BY <2>6, <2>7, <2>8 DEF LifecycleStep, L!Next
<1> QED
  BY <1>6, <1>7

\* Every step of the store is a step or a stutter of Lifecycle.
LEMMA StepRefines == TypeOK /\ [TaskNext]_taskVars => LifecycleStep
<1> SUFFICES ASSUME TypeOK, [TaskNext]_taskVars PROVE LifecycleStep
  OBVIOUS
<1>1. ASSUME NEW draftSession \in BOOLEAN, Create(draftSession) PROVE LifecycleStep
  <2>1. [BareTask("requirements") EXCEPT !.draftSession = draftSession] \in Task
    BY BareTaskType, AdvanceStageArguments DEF Task
  <2>2. [BareTask("requirements") EXCEPT !.draftSession = draftSession].stage = "requirements"
    BY DEF BareTask
  <2>3. task'.stage \in {"requirements", ""}
    BY <1>1, <2>1, <2>2, RewriteTaskEffect DEF Create, TypeOK
  <2> QED
    BY <1>1, <2>3 DEF Create, L!Create, L!Reached, L!Next, LifecycleStep
<1>2. ASSUME Update(SaveDefaultsBody) PROVE LifecycleStep
  <2>1. [SaveDefaultsBody EXCEPT !.stage = task.stage] \in Task
    BY SaveDefaultsBodyType DEF TypeOK, Task
  <2>2. [SaveDefaultsBody EXCEPT !.stage = task.stage].stage = task.stage
    BY SaveDefaultsBodyType DEF Task
  <2>3. task'.stage \in {task.stage, ""}
    BY <1>2, <2>1, <2>2, RewriteTaskEffect DEF Update, TypeOK
  <2> QED
    BY <1>2, <2>3, RewriteRefines DEF Update
<1>3. ASSUME NEW done \in 0..3, FinalizeRequirements(done) PROVE LifecycleStep
  <2>1. /\ AdvanceStage(done, 2, "planning", "finalize_requirements", 0, 0)
        /\ task.stage \in {"requirements"}
        /\ UNCHANGED <<executions, reviews>>
    BY <1>3 DEF FinalizeRequirements
  <2>2. task'.stage \in {"planning", task.stage, ""}
    BY <2>1, PlainMoveArguments, PlainMoveEffect, AdvanceStageArguments
  <2>3. <<"requirements", "planning">> \in L!HumanEdges
    BY DEF L!HumanEdges
  <2> QED
    BY <2>1, <2>2, <2>3, MoveRefines
<1>4. ASSUME NEW done \in 0..3, FinalizePlan(done) PROVE LifecycleStep
  <2>1. /\ AdvanceStage(done, 2, "implementation", "finalize_plan", 0, 0)
        /\ task.stage \in {"planning"}
        /\ UNCHANGED <<executions, reviews>>
    BY <1>4 DEF FinalizePlan
  <2>2. task'.stage \in {"implementation", task.stage, ""}
    BY <2>1, PlainMoveArguments, PlainMoveEffect, AdvanceStageArguments
  <2>3. <<"planning", "implementation">> \in L!HumanEdges
    BY DEF L!HumanEdges
  <2> QED
    BY <2>1, <2>2, <2>3, MoveRefines
<1>5. ASSUME NEW decision \in Decisions, NEW done \in 0..3, FinalizeReview(decision, done)
      PROVE  LifecycleStep
  BY <1>5, VerdictRefines
<1>6. ASSUME NEW concept \in Concept, AppendKnowledgeActivity(concept) PROVE LifecycleStep
  <2>1. Append(task.activity, concept) \in Seq(Concept)
    BY DEF TypeOK, Task
  <2>2. /\ [task EXCEPT !.activity = Append(@, concept)] \in Task
        /\ [task EXCEPT !.activity = Append(@, concept)].stage = task.stage
    BY <2>1 DEF TypeOK, Task
  <2>3. task'.stage \in {task.stage, ""}
    BY <1>6, <2>2, RewriteTaskEffect DEF AppendKnowledgeActivity, TypeOK
  <2> QED
    BY <1>6, <2>3, RewriteRefines DEF AppendKnowledgeActivity
<1>7. ASSUME NEW done \in 0..3, ReviseToRequirements(done) PROVE LifecycleStep
  <2>1. /\ AdvanceStage(done, 1, "requirements", "revise_requirements", 0, 0)
        /\ task.stage \in {"planning"}
        /\ UNCHANGED <<executions, reviews>>
    BY <1>7 DEF ReviseToRequirements
  <2>2. task'.stage \in {"requirements", task.stage, ""}
    BY <2>1, PlainMoveArguments, PlainMoveEffect, AdvanceStageArguments
  <2>3. <<"planning", "requirements">> \in L!HumanEdges
    BY DEF L!HumanEdges
  <2> QED
    BY <2>1, <2>2, <2>3, MoveRefines
<1>8. ASSUME NEW done \in 0..3, ReviseToPlanning(done) PROVE LifecycleStep
  <2>1. /\ AdvanceStage(done, 1, "planning", "revise_planning", 0, 0)
        /\ task.stage \in {"implementation", "review"}
        /\ UNCHANGED <<executions, reviews>>
    BY <1>8 DEF ReviseToPlanning
  <2>2. task'.stage \in {"planning", task.stage, ""}
    BY <2>1, PlainMoveArguments, PlainMoveEffect, AdvanceStageArguments
  <2>3. <<"implementation", "planning">> \in L!HumanEdges /\ <<"review", "planning">> \in L!HumanEdges
    BY DEF L!HumanEdges
  <2> QED
    BY <2>1, <2>2, <2>3, MoveRefines
<1>9. ASSUME NEW n \in ExecutionId, CreateExecutionLog(n) PROVE LifecycleStep
  BY <1>9 DEF CreateExecutionLog, LifecycleStep, Successes, Verdicts
<1>10. ASSUME NEW n \in ExecutionId, NEW output \in Output, RecordFailure(n, output)
       PROVE  LifecycleStep
  <2>1. Successes' = Successes
    BY <1>10 DEF RecordFailure, Recorded, NoExecution, Successes, TypeOK
  <2> QED
    BY <1>10, <2>1 DEF RecordFailure, LifecycleStep, Verdicts
<1>11. ASSUME NEW n \in ExecutionId, NEW output \in Output, NEW done \in 0..3,
              RecordSuccess(n, output, done)
       PROVE  LifecycleStep
  BY <1>11, SuccessRefines
<1>12. ASSUME NEW pr \in PullRequest, RecordPullRequest(pr) PROVE LifecycleStep
  <2>1. /\ [task EXCEPT !.pullRequest = pr] \in Task
        /\ [task EXCEPT !.pullRequest = pr].stage = task.stage
    BY DEF TypeOK, Task
  <2>2. task'.stage \in {task.stage, ""}
    BY <1>12, <2>1, RewriteTaskEffect DEF RecordPullRequest, TypeOK
  <2> QED
    BY <1>12, <2>2, RewriteRefines DEF RecordPullRequest
<1>13. ASSUME NEW done \in 0..3, MarkPRMerged(done) PROVE LifecycleStep
  <2>1. /\ AdvanceStage(done, 1, "cleanup", "mark_pr_merged", 0, 0)
        /\ task.stage \in {"pr_review"}
        /\ UNCHANGED <<executions, reviews>>
    BY <1>13 DEF MarkPRMerged
  <2>2. task'.stage \in {"cleanup", task.stage, ""}
    BY <2>1, PlainMoveArguments, PlainMoveEffect, AdvanceStageArguments
  <2>3. <<"pr_review", "cleanup">> \in L!HumanEdges
    BY DEF L!HumanEdges
  <2> QED
    BY <2>1, <2>2, <2>3, MoveRefines
<1>14. ASSUME NEW status \in CleanupReport, SetCleanupStatus(status) PROVE LifecycleStep
  <2>1. /\ [task EXCEPT !.cleanupStatus = status] \in Task
        /\ [task EXCEPT !.cleanupStatus = status].stage = task.stage
    BY DEF TypeOK, Task
  <2>2. task'.stage \in {task.stage, ""}
    BY <1>14, <2>1, RewriteTaskEffect DEF SetCleanupStatus, TypeOK
  <2> QED
    BY <1>14, <2>2, RewriteRefines DEF SetCleanupStatus
<1>15. ASSUME NEW done \in 0..3, CompleteCleanup(done) PROVE LifecycleStep
  <2>1. /\ AdvanceStage(done, 1, "completed", "cleanup_complete", 0, 0)
        /\ task.stage \in {"cleanup"}
        /\ UNCHANGED <<executions, reviews>>
    BY <1>15 DEF CompleteCleanup
  <2>2. task'.stage \in {"completed", task.stage, ""}
    BY <2>1, PlainMoveArguments, PlainMoveEffect, AdvanceStageArguments
  <2>3. <<"cleanup", "completed">> \in L!HumanEdges
    BY DEF L!HumanEdges
  <2> QED
    BY <2>1, <2>2, <2>3, MoveRefines
<1>16. ASSUME UNCHANGED taskVars PROVE LifecycleStep
  BY <1>16 DEF taskVars, LifecycleStep, Successes, Verdicts
<1>17. ASSUME HumanNext PROVE LifecycleStep
  BY <1>1, <1>2, <1>3, <1>4, <1>5, <1>6, <1>7, <1>8, <1>17, LandedBounds DEF HumanNext
<1>18. ASSUME HandlerNext PROVE LifecycleStep
  BY <1>9, <1>10, <1>11, <1>12, <1>13, <1>14, <1>15, <1>18, LandedBounds DEF HandlerNext
<1> QED
  BY <1>16, <1>17, <1>18 DEF TaskNext

\* The task files implement the stage machine: whatever is stopped or torn, the
\* stage moves along the workflow's edges only, and through review only with a
\* new success or verdict on record.
THEOREM StoreImplementsLifecycle == TaskSpec => ImplementsLifecycle
<1>1. TaskInit => L!Init
  <2>1. ASSUME TaskInit PROVE task.stage = "absent" /\ Successes = {} /\ Verdicts = {}
    BY <2>1 DEF TaskInit, BareTask, NoExecution, Successes, Verdicts
  <2> QED
    BY <2>1 DEF L!Init, Successes, Verdicts
<1>2. TypeOK /\ [TaskNext]_taskVars => [L!Next]_(L!vars)
  BY StepRefines DEF LifecycleStep, L!vars, Successes, Verdicts
<1> QED
  BY <1>1, <1>2, TypeCorrect, PTL DEF TaskSpec, ImplementsLifecycle, L!Spec
=============================================================================
