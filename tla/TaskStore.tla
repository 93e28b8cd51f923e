------------------------------ MODULE TaskStore ------------------------------
(***************************************************************************)
(* The files of one task (internal/task) as gitstore's TaskStore writes    *)
(* them.  Every mutation runs under the one store mutex, so an operation   *)
(* is a step; it is a sequence of file writes, and an error or a crash may *)
(* stop it after any prefix of them (`done` counts the writes that         *)
(* landed).  The order of the writes is the order in the code.             *)
(***************************************************************************)
EXTENDS Integers, Sequences

CONSTANTS
    Output,         \* what an execution record says the attempt produced
    PullRequest,    \* the pull requests a task can record
    NoPullRequest,  \* task.yaml has no pull_request
    Concept,        \* the knowledge concepts an activity entry can name
    Faults,         \* "stop": a write fails; "torn": task.yaml is cut short
    MaxExecution,   \* bound on execution ids
    MaxReview,      \* bound on review numbers
    MaxTransition,  \* bound on the transition log
    MaxActivity     \* bound on the knowledge activity log

ASSUME TaskStoreAssumption ==
    /\ NoPullRequest \notin PullRequest
    /\ Faults \subseteq {"stop", "torn"}
    /\ MaxExecution \in Nat /\ MaxReview \in Nat
    /\ MaxTransition \in Nat /\ MaxActivity \in Nat

VARIABLES
    task,        \* task.yaml
    docs,        \* which of context.yaml and plan.yaml exist
    transitions, \* transitions.yaml
    executions,  \* executions/exec-NNN.yaml, by number
    logs,        \* the numbers with an executions/exec-NNN.log.yaml
    reviews      \* reviews/review-NNN.yaml; NextReviewID leaves no gap

taskVars == <<task, docs, transitions, executions, logs, reviews>>

-----------------------------------------------------------------------------
\* "absent": no task.yaml.  "": a blank or truncated task.yaml.
Stages == {"absent", "", "requirements", "planning", "implementation",
           "review", "pr_review", "cleanup", "completed"}

Status == {"success", "failure"}
Decisions == {"approved", "needs_changes", "rejected"}
Triggers == {"finalize_requirements", "finalize_plan", "finalize_review",
             "execution_success", "mark_pr_merged", "revise_requirements",
             "revise_planning", "cleanup_complete"}
CleanupReport == {"none", "clean", "parked"}

ExecutionId == 1..MaxExecution
Execution == [status : Status, output : Output]
NoExecution == [status |-> "none"]
Review == [execution : 0..MaxExecution, decision : Decisions]

Task == [stage : Stages,
         pullRequest : PullRequest \union {NoPullRequest},
         activity : Seq(Concept),
         draftSession : BOOLEAN,
         cleanupStatus : CleanupReport]

Transition == [from : Stages, to : Stages, trigger : Triggers,
               review : Nat, execution : 0..MaxExecution]

\* A task.yaml with nothing in the fields past its stage.
BareTask(stage) ==
    [stage |-> stage, pullRequest |-> NoPullRequest, activity |-> << >>,
     draftSession |-> FALSE, cleanupStatus |-> "none"]

Recorded(n) == executions[n] # NoExecution

\* NextExecutionID: one more than the largest number with a record or a log.
IsNextExecutionID(n) ==
    LET taken == logs \union {m \in ExecutionId : Recorded(m)}
    IN  /\ n = 1 \/ n - 1 \in taken
        /\ \A m \in taken : m < n

\* The last entry of ListExecutions, 0 when it is empty.
IsLastExecution(n) ==
    LET recorded == {m \in ExecutionId : Recorded(m)}
    IN  /\ n \in recorded \/ n = 0
        /\ \A m \in recorded : m <= n

-----------------------------------------------------------------------------
\* How many of an operation's n writes may have landed when it ends.
Landed(n) == IF "stop" \in Faults THEN 0..n ELSE {n}

\* os.WriteFile truncates before it writes: cut short, task.yaml is blank or
\* holds its first fields only (stage comes before pull_request).
TornTask(t) ==
    IF "torn" \in Faults THEN {BareTask(""), BareTask(t.stage)} ELSE {}

WriteTask(landed, t) ==
    IF landed THEN task' \in {t} \union TornTask(t) ELSE UNCHANGED task

AppendStageTransition(landed, to, trigger, review, execution) ==
    /\ Len(transitions) < MaxTransition
    /\ transitions' =
         IF landed
         THEN Append(transitions,
                     [from |-> task.stage, to |-> to, trigger |-> trigger,
                      review |-> review, execution |-> execution])
         ELSE transitions

\* Mutant: task.yaml first, the transition after it.
AdvanceStageTaskFirst(done, at, to, trigger, review, execution) ==
    /\ WriteTask(done >= at, [task EXCEPT !.stage = to])
    /\ AppendStageTransition(done > at, to, trigger, review, execution)

\* The tail of every lifecycle action: write number `at` appends the
\* transition, the next one writes task.yaml with the new stage.
AdvanceStage(done, at, to, trigger, review, execution) ==
    /\ AppendStageTransition(done >= at, to, trigger, review, execution)
    /\ WriteTask(done > at, [task EXCEPT !.stage = to])

-----------------------------------------------------------------------------
Create(draftSession) ==
    /\ task.stage = "absent"
    /\ WriteTask(TRUE, [BareTask("requirements") EXCEPT !.draftSession = draftSession])
    /\ UNCHANGED <<docs, transitions, executions, logs, reviews>>

\* PUT of a whole task: stage is the only field here that Update keeps.
Update(body) ==
    /\ task.stage # "absent"
    /\ body.stage \in {"", task.stage}
    /\ WriteTask(TRUE, [body EXCEPT !.stage = task.stage])
    /\ UNCHANGED <<docs, transitions, executions, logs, reviews>>

\* The body AgentDefaultsEditor.tsx sends: no field of Task above is in it.
SaveDefaultsBody == BareTask("")

FinalizeRequirements(done) ==
    /\ task.stage = "requirements"
    /\ docs' = IF done >= 1 THEN docs \union {"context"} ELSE docs
    /\ AdvanceStage(done, 2, "planning", "finalize_requirements", 0, 0)
    /\ UNCHANGED <<executions, logs, reviews>>

\* Mutant: plan.yaml is written last.
FinalizePlanDocLast(done) ==
    /\ task.stage = "planning"
    /\ AdvanceStage(done, 1, "implementation", "finalize_plan", 0, 0)
    /\ docs' = IF done = 3 THEN docs \union {"plan"} ELSE docs
    /\ UNCHANGED <<executions, logs, reviews>>

FinalizePlan(done) ==
    /\ task.stage = "planning"
    /\ docs' = IF done >= 1 THEN docs \union {"plan"} ELSE docs
    /\ AdvanceStage(done, 2, "implementation", "finalize_plan", 0, 0)
    /\ UNCHANGED <<executions, logs, reviews>>

RecordReview(landed, execution, decision) ==
    /\ Len(reviews) < MaxReview
    /\ reviews' = IF landed
                  THEN Append(reviews, [execution |-> execution, decision |-> decision])
                  ELSE reviews

\* Mutant: an approval still lands on the stage it landed on before pr_review
\* existed, which is no stage any more.
VerdictStageMerged ==
    [approved |-> "merged", needs_changes |-> "implementation", rejected |-> "requirements"]

VerdictStage ==
    [approved |-> "pr_review", needs_changes |-> "implementation", rejected |-> "requirements"]

\* Mutant: approved is accepted from pr_review too.
FinalizeReviewAnyApproval(decision, done) ==
    /\ task.stage \in {"review", "pr_review"}
    /\ \E execution \in 0..MaxExecution :
          /\ IsLastExecution(execution)
          /\ RecordReview(done >= 1, execution, decision)
    /\ AdvanceStage(done, 2, VerdictStage[decision], "finalize_review", Len(reviews) + 1, 0)
    /\ UNCHANGED <<docs, executions, logs>>

FinalizeReview(decision, done) ==
    /\ task.stage \in {"review", "pr_review"}
    /\ decision = "approved" => task.stage = "review"
    /\ \E execution \in 0..MaxExecution :
          /\ IsLastExecution(execution)
          /\ RecordReview(done >= 1, execution, decision)
    /\ AdvanceStage(done, 2, VerdictStage[decision], "finalize_review", Len(reviews) + 1, 0)
    /\ UNCHANGED <<docs, executions, logs>>

MarkPRMerged(done) ==
    /\ task.stage = "pr_review"
    /\ task.pullRequest # NoPullRequest
    /\ AdvanceStage(done, 1, "cleanup", "mark_pr_merged", 0, 0)
    /\ UNCHANGED <<docs, executions, logs, reviews>>

CompleteCleanup(done) ==
    /\ task.stage = "cleanup"
    /\ AdvanceStage(done, 1, "completed", "cleanup_complete", 0, 0)
    /\ UNCHANGED <<docs, executions, logs, reviews>>

\* No stage guard: the sweep command calls it on completed tasks.  A blank
\* task.yaml has no id to be written back under.
SetCleanupStatus(status) ==
    /\ task.stage \notin {"absent", ""}
    /\ WriteTask(TRUE, [task EXCEPT !.cleanupStatus = status])
    /\ UNCHANGED <<docs, transitions, executions, logs, reviews>>

RecordPullRequest(pr) ==
    /\ task.stage = "pr_review"
    /\ WriteTask(TRUE, [task EXCEPT !.pullRequest = pr])
    /\ UNCHANGED <<docs, transitions, executions, logs, reviews>>

AppendKnowledgeActivity(concept) ==
    /\ task.stage \notin {"absent", ""}
    /\ Len(task.activity) < MaxActivity
    /\ WriteTask(TRUE, [task EXCEPT !.activity = Append(@, concept)])
    /\ UNCHANGED <<docs, transitions, executions, logs, reviews>>

ReviseToRequirements(done) ==
    /\ task.stage = "planning"
    /\ AdvanceStage(done, 1, "requirements", "revise_requirements", 0, 0)
    /\ UNCHANGED <<docs, executions, logs, reviews>>

ReviseToPlanning(done) ==
    /\ task.stage \in {"implementation", "review"}
    /\ AdvanceStage(done, 1, "planning", "revise_planning", 0, 0)
    /\ UNCHANGED <<docs, executions, logs, reviews>>

\* Mutant: an existing log is not looked for.
CreateExecutionLogAgain(n) ==
    /\ logs' = logs \union {n}
    /\ UNCHANGED <<task, docs, transitions, executions, reviews>>

CreateExecutionLog(n) ==
    /\ n \notin logs
    /\ logs' = logs \union {n}
    /\ UNCHANGED <<task, docs, transitions, executions, reviews>>

\* Mutant: the transition is written before the execution record.
RecordSuccessTransitionFirst(n, output, done) ==
    /\ task.stage = "implementation" /\ n \in logs /\ ~ Recorded(n)
    /\ AdvanceStage(done, 1, "review", "execution_success", 0, n)
    /\ executions' = IF done = 3
                     THEN [executions EXCEPT ![n] = [status |-> "success", output |-> output]]
                     ELSE executions
    /\ UNCHANGED <<docs, logs, reviews>>

\* Mutant: a record may be written again.
RecordSuccessAgain(n, output, done) ==
    /\ task.stage = "implementation" /\ n \in logs
    /\ executions' = IF done >= 1
                     THEN [executions EXCEPT ![n] = [status |-> "success", output |-> output]]
                     ELSE executions
    /\ AdvanceStage(done, 2, "review", "execution_success", 0, n)
    /\ UNCHANGED <<docs, logs, reviews>>

RecordSuccess(n, output, done) ==
    /\ task.stage = "implementation"
    /\ n \in logs
    /\ ~ Recorded(n)
    /\ executions' = IF done >= 1
                     THEN [executions EXCEPT ![n] = [status |-> "success", output |-> output]]
                     ELSE executions
    /\ AdvanceStage(done, 2, "review", "execution_success", 0, n)
    /\ UNCHANGED <<docs, logs, reviews>>

\* Mutant: a failure is recorded from implementation only, like a success.
RecordFailureAtImplementation(n, output) ==
    /\ task.stage = "implementation" /\ n \in logs /\ ~ Recorded(n)
    /\ executions' = [executions EXCEPT ![n] = [status |-> "failure", output |-> output]]
    /\ UNCHANGED <<task, docs, transitions, logs, reviews>>

\* Mutant: a failure overwrites whatever the id already recorded.
RecordFailureAgain(n, output) ==
    /\ n \in logs
    /\ executions' = [executions EXCEPT ![n] = [status |-> "failure", output |-> output]]
    /\ UNCHANGED <<task, docs, transitions, logs, reviews>>

RecordFailure(n, output) ==
    /\ n \in logs
    /\ ~ Recorded(n)
    /\ executions' = [executions EXCEPT ![n] = [status |-> "failure", output |-> output]]
    /\ UNCHANGED <<task, docs, transitions, logs, reviews>>

-----------------------------------------------------------------------------
TaskInit ==
    /\ task = BareTask("absent")
    /\ docs = {}
    /\ transitions = << >>
    /\ executions = [n \in ExecutionId |-> NoExecution]
    /\ logs = {}
    /\ reviews = << >>

\* What the humans at the workbench do.
HumanNext ==
    \/ \E draftSession \in BOOLEAN : Create(draftSession)
    \/ Update(SaveDefaultsBody)
    \/ \E done \in Landed(3) : FinalizeRequirements(done)
    \/ \E done \in Landed(3) : FinalizePlan(done)
    \/ \E decision \in Decisions, done \in Landed(3) : FinalizeReview(decision, done)
    \/ \E concept \in Concept : AppendKnowledgeActivity(concept)
    \/ \E done \in Landed(2) : ReviseToRequirements(done)
    \/ \E done \in Landed(2) : ReviseToPlanning(done)

\* What the execution, pull request and cleanup handlers call, in any order
\* and with any arguments they could pass.  A log is only ever created after
\* plan.yaml was read.
HandlerNext ==
    \/ \E n \in ExecutionId :
          \/ "plan" \in docs /\ IsNextExecutionID(n) /\ CreateExecutionLog(n)
          \/ \E output \in Output : RecordFailure(n, output)
          \/ \E output \in Output, done \in Landed(3) : RecordSuccess(n, output, done)
    \/ \E pr \in PullRequest : RecordPullRequest(pr)
    \/ \E done \in Landed(2) : MarkPRMerged(done)
    \/ \E status \in CleanupReport \ {"none"} : SetCleanupStatus(status)
    \/ \E done \in Landed(2) : CompleteCleanup(done)

TaskNext == HumanNext \/ HandlerNext

TaskSpec == TaskInit /\ [][TaskNext]_taskVars

-----------------------------------------------------------------------------
TypeOK ==
    /\ task \in Task
    /\ docs \subseteq {"context", "plan"}
    /\ transitions \in Seq(Transition)
    /\ executions \in [ExecutionId -> Execution \union {NoExecution}]
    /\ logs \subseteq ExecutionId
    /\ reviews \in Seq(Review)

\* transitions.yaml follows the task: it starts at requirements, an entry
\* starts where the entry before it ended, or, when that one's task.yaml write
\* never landed, where it started; and the stage on disk is an end of the last
\* entry.  (AdvanceStage's write order; a stopped write costs at most one
\* repeated move, never a missing one.)
HistoryChains ==
    /\ \A i \in 1..Len(transitions) :
          transitions[i].from \in
            IF i = 1 THEN {"requirements"} ELSE {transitions[i-1].to, transitions[i-1].from}
    /\ task.stage \in {""} \union
          IF transitions = << >> THEN {"absent", "requirements"}
          ELSE {transitions[Len(transitions)].to, transitions[Len(transitions)].from}

\* The evidence a transition cites was on disk before it: a successful
\* execution record, or a verdict that leads where the transition leads
\* (RecordExecution and FinalizeReview write the record first).
TransitionsBacked ==
    \A i \in 1..Len(transitions) :
       LET t == transitions[i] IN
         /\ t.trigger = "execution_success" =>
              /\ t.execution \in ExecutionId
              /\ executions[t.execution].status = "success"
         /\ t.trigger = "finalize_review" =>
              /\ t.review \in 1..Len(reviews)
              /\ VerdictStage[reviews[t.review].decision] = t.to

\* No execution moves a task to review twice, whatever was stopped and
\* retried (RecordExecution refuses an id already recorded).
EvidenceUsedOnce ==
    \A i, j \in 1..Len(transitions) :
       /\ transitions[i].trigger = "execution_success"
       /\ transitions[j].trigger = "execution_success"
       /\ transitions[i].execution = transitions[j].execution
       => i = j

\* A stage is never entered ahead of the document it works from: every later
\* stage finds context.yaml and plan.yaml (Finalize* writes the document first).
DocsBeforeStage ==
    /\ task.stage \notin {"absent", "", "requirements"} => "context" \in docs
    /\ task.stage \notin {"absent", "", "requirements", "planning"} => "plan" \in docs

\* "append-only, never overwritten": no step changes or drops a record of the
\* transition, execution or review stores.
RecordsAppendOnly ==
    [][/\ \A n \in ExecutionId : Recorded(n) => executions'[n] = executions[n]
       /\ Len(reviews') >= Len(reviews)
       /\ \A r \in 1..Len(reviews) : reviews'[r] = reviews[r]
       /\ Len(transitions') >= Len(transitions)
       /\ \A i \in 1..Len(transitions) : transitions'[i] = transitions[i]]_taskVars

\* The task's files implement the abstract stage machine.
L == INSTANCE Lifecycle WITH
        stage <- task.stage,
        successes <- {n \in ExecutionId : executions[n].status = "success"},
        verdicts <- {<<r, reviews[r].decision>> : r \in 1..Len(reviews)},
        Executions <- ExecutionId,
        Reviews <- 1..MaxReview

ImplementsLifecycle == L!Spec
=============================================================================
