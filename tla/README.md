# llm-workbench: a verification project in TLA+

llm-workbench is a single-user workbench in which a human takes a *task* through
a fixed workflow (requirements, planning, implementation, review, pull request,
cleanup) with an LLM agent doing the work of each stage. A Go server keeps
every project and task as YAML files in a git checkout (the *workspace*), runs
agents in git worktrees of the project's code repository, and opens pull
requests on GitHub. Nothing is kept in a database: the files, the git refs and
GitHub are the state, and several HTTP handlers, a background git worker, agents
that run for an hour, humans and crashes all act on them.

This directory models that: TLA+ modules translated from the Go source, TLC
configurations, TLAPS proofs, and `PROJECT.json`, which maps each definition to
the lines it stands for.

## 1. Inventory

Paths are below `src/internal` unless they begin with `src/`.

| component | state it keeps | operations | modelled in |
|---|---|---|---|
| Task store (`task/`) | per task: `task.yaml` (stage, pull request, knowledge activity, cleanup status), `context.yaml`, `plan.yaml`, `transitions.yaml`, `executions/exec-NNN.yaml`, `exec-NNN.log.yaml`, `reviews/review-NNN.yaml` | Create, Update, FinalizeRequirements / Plan / Review, Revise*, CreateExecutionLog, RecordExecution, RecordPullRequest, MarkPRMerged, SetCleanupStatus, CompleteCleanup, AppendKnowledgeActivity | `TaskStore`, promise in `Lifecycle` |
| Git-backed store (`gitstore/`) | the data checkout (working tree, index, HEAD), the in-memory queue of pending commits, the data repository | every store call (write + enqueue), the push worker's tick: drain, repair, add, reset, commit, sweep, push | `GitStore` |
| Execution workspaces (`agentrunner/worktree*.go`, `gitutil/`) | worktrees, local branches, remote-tracking branches | resolve (fork), collect, clean up one worktree | `Workspaces` |
| Execution handler (`api/execution.go`) | the request's local variables between its store calls, the runner's per-session lock | the steps of `handleStartExecution` | `ExecutionControl` |
| Pull request and cleanup handlers (`api/pr.go`, `agentrunner/pr.go`) | the request's locals; pull requests on GitHub | `handlePushPR`, `handleMarkPRMerged`, `handleTaskCleanup`, `runCleanupPass` | `ExecutionControl`, `Workspaces` |
| Sweep command (`src/cmd/sweep-merged-worktrees`) | none | a cleanup pass over tasks at cleanup or completed | `ExecutionControl` (as a pass) |
| Stage conversations (`api/stage_conversation.go`, `api/finalize.go`, `task/conversation.go`, `task/session.go`) | `conversation-<stage>.yaml`, `conversation-<stage>.session.yaml` (one session id per executor), the request's locals | post, start, delete message, regenerate, finalize | `StageConversation` |
| The turn itself (`runStageTurn` in `api/stage_conversation.go`) | the segments of the message to come, the text in flight, the finished flag of each tool call | onDelta, onToolCall, onToolResult, onPermissionRequest, the record | `TurnRecord`, `StageTurn` |
| Task drafts (`api/task_draft_conversation.go`) | the same two files and sessions under a draft's key | post, start, delete, regenerate | `TaskDraftConversation` |
| Permission escalation (`api/stage_permission.go`) | `stagePermissionRegistry`: open escalations by id, one channel each | register, wait, resolve, unregister, the PreToolUse hook and `CanUseTool` callback that ask | `Escalations` |
| Agent runners (`agentrunner/*_runner.go`) | `inFlight`, client cache, `clientLastUsed`, held messages, pending drafts and breaks of a turn; the CLIs keep transcripts | Run, Execute, CloseSession, reapIdleClients, processMessage, processItem | `AgentSessions` (the sessions of Run), `StageTurn` (its messages), the lock and outcome of Execute in `ExecutionControl` |
| Tool loop (`toolloop/engine.go`) | message list, turn and call counters | one completion, de-duplication and cap, tool calls, stop calls | `ToolLoop` |
| Chat clients (`chat/client.go`) | the tool calls a stream is assembling | text and call fragments, flush, end of stream | `CompletionStream` |
| Draft and knowledge tools (`draftmcp/`, `drafttool/`, `knowledgetool/`) | none | the verdict on a proposal | its outcome, in `StageTurn` and `ToolLoop` |
| Tool implementations, schema / YAML / env helpers, assembly, tray, probe, migration | none, or pure I/O | | not modelled (§7) |
| Frontend | none of the server's | the body `Save defaults` sends | one operator of `TaskStore` |

How they interact. A handler reads and writes the task store through
`gitstore.TaskStore`, which serialises *single calls* with one mutex and queues
the entity for a commit; the handler itself holds nothing between two calls, so
two requests on a task interleave call by call. An execution handler creates a
log (refused if there is one of that id: `os.Stat`, then `os.WriteFile`, under the store
mutex, which makes it the owner of the attempt's id), makes a
worktree on a branch forked from the default branch or from an earlier attempt,
runs an agent for as long as it takes, and records the outcome. The push handler
takes the last recorded attempt's branch to GitHub. The cleanup pass removes the
worktrees of recorded attempts, then completes the task. Meanwhile the git worker
commits and pushes the data checkout every tick.

A stage conversation is kept three times: as messages on disk, as session ids on
disk, and in the sessions of the agents. `claude-code` keeps a connected client per
key and its CLI a transcript that a session id resumes; `codex` keeps only the
transcript; `local` keeps the messages in memory. The transcript on disk is handed to
a session when the session starts and never again. The session's key is
`taskId:stage`, which leaves out the project (§6, `shared_key`).

Inside a turn of `claude-code` three parties act at once: the CLI's message stream, which
`processMessage` reads; the callbacks the CLI makes for tools that need permission,
each on its own goroutine, which put the request on the turn's event stream and wait on
a channel; and the human's decision, an HTTP request of its own. A client is cached, so
a callback built into it in one turn may be called in another.

What is hard here. (a) Operations are several file writes with nothing that
makes them atomic; `os.WriteFile` truncates in place. (b) Handlers use values read
several store calls ago: the latest review, the last execution, the next id.
(c) A cleanup pass deletes branches with `git branch -D` while requests may run.
(d) The commit queue is in memory and emptied before it is processed; the git index
is shared by all entities. (e) A crash may come anywhere, and nothing is replayed.
(f) What an agent has in context is the outcome of every earlier restart, reconnection,
edit and switch of executors, and no test looks at it. (g) Tool calls run side by side,
their results come in any order, and a decision may come after its turn is over.
`PROJECT.json` lists each hazard at its line, with the properties on it.

What makes each component correct:

* **Task store**: records are append-only; the transition log is the path the
  stage took; a transition's evidence was on disk before it and is used once; a
  stage never gets ahead of its documents; the stage moves only along the workflow.
* **Execution handler**: one owner per attempt id; a run keeps its worktree; a
  retry is built on the attempt the verdict is about; every attempt is settled.
* **Pull request and cleanup**: what is pushed while the task is at pr_review is what was
  approved; no commit is dropped before it was pushed; completed means swept.
* **Git-backed store**: every change reaches the data repository in the end; nothing
  that does not parse is committed; committed log entries are never taken out;
  commits stay within their directory.
* **Stage conversation**: a CLI session has one turn at a time; what a human deleted or
  replaced never returns to a model's context; an executor knows its own exchanges.
* **Task drafts**: what is promised of a stage conversation, under the fork's own handlers.
* **A turn**: each result on the entry of its call, the entries in the order in which
  they were said, only accepted proposals, rounds of text kept apart.
* **Escalation**: a tool runs on the decision of a human at its own session, on that very
  request; the registry holds who waits and nobody else; a callback finds the hook of the
  running turn, whichever turn its client was connected in.
* **Tool loop**: every request to the model answers each call it lists; a stop tool is
  never executed; the budgets hold; the loop ends.

## 2. Modules

`Lifecycle` is the abstract stage machine: a stage, the successes and the verdicts
on record, and which moves need new evidence.

`TaskStore` is the files. Every operation is one step, because every mutation
runs under the store mutex; but it is a step with an argument `done`, the number of
its file writes that landed, so that an error or a crash after any prefix is an
outcome of the same operation in the code's write order. `AdvanceStage` is
the tail all lifecycle actions share (transition, then `task.yaml`). With
`"torn"` in `Faults`, a `task.yaml` write may leave the file blank or cut after its
stage. Execution outputs, pull requests and knowledge concepts are parameters.

`Workspaces` is git: a branch is the set of attempts whose commits it
contains, so "is an ancestor of" is `\subseteq`. A push is a fast-forward or fails.

`ExecutionControl` EXTENDS both and adds the handlers, each a program counter
and the locals that live across store calls: any number of execute requests (`Start`),
one push request, one cleanup pass, and the human, GitHub, a worktree deleted by
hand, and a crash, which drops every request and leaves files and git as they are. A store
call is a step: `PushGet` checks the stage and `PushListExecutions` picks the attempt;
`StartListReviews` reads the verdict and `StartResolveContinuation` the executions. (The two
calls of the latter list records that are only ever appended, and the push's `ListReviews`
only fills the text of the pull request.) `Hazards` names what may happen to a run of TLC:
`crash`, `by_hand`, `force` (a human forces a cleanup), `collect` (`CollectExecutionOutput`
fails and finds no commits), `settle` (GitHub closes or merges). The auxiliary variable
`withdrawn` collects what a push of the empty branch name takes off origin.

`GitStore` is the data checkout. A file's content is a sequence of writes, each
acknowledged, unacknowledged, cut (it parses), torn (a repair can fix it)
or broken (it cannot). A log keeps all its writes, any other file the last one. The
worker is a program counter: `idle`, `drain` (take the queue), per entry
`unstage` (only if something could not be repaired) and `commit`, the sweep, `push`.
All of a tick but the push holds the mutex (`LockFree`), so writes interleave
with pushes, and between ticks.

`AgentSessions` is what the three runners keep of one session key, with an operator
for each thing a turn does to it (lock, resume, start, hold, close). A session is named
by the turn that started it; its `context` is the set of messages its model has seen.

`StageConversation` EXTENDS it with the requests, each a program counter from the stage
check to the saved messages. Post, start and regenerate run the turn (`LoadResumeSessionID`
to `SaveMessages`); delete and regenerate edit (`CloseSessions`, `ClearSessionIDs`);
finalize closes the sessions and moves the stage, `Revise` brings it back. A message is
its request and its role. A restart, a client reaped, a subprocess that ended, a failed
connection and a turn that fails, times out or ends without a result may come at every
point where the code meets them. `closeSessions` is one step although it visits the
runners in turn, as each runner's turns see only their own part. Ghosts: `delivered`,
`discarded` (by an edit that ran alone and finished), `calm` (no two requests overlapped
and no edit was cut short).

`TaskDraftConversation` EXTENDS `StageConversation` with the handlers of the "New Task"
conversation, which open requests without a stage check; there is no finalization, as the
human confirms into the Create Task call. `SameNamedTasks` is the stage conversation with the requests of
two tasks of one id in two projects (`RequestA`, the rest): they share what the session key
names and nothing else.

`TurnRecord` is what `runStageTurn` keeps of a turn: the segments in order, an index from
call ids to segments, the text collected since the last segment. `Escalations` is the
registry and those around it: per request the session it asks in, the turn whose hook
it found (`FindHook`, under the runner's lock) and calls (`Register`, later), its place in the
wait (`pc`) and its channel. `ToolLoop` is `Engine.Run`:
the message list, what a completion returned, and the decisions made on a batch of calls
before any of them runs. `CompletionStream` assembles the calls of one streamed
completion from fragments, which may stop before the finish reason.

`StageTurn` EXTENDS these four to the turns of a session, one after the other. For
`claude-code` a bounded queue carries the messages of the CLI (texts, calls, results,
proposals with verdicts), the CLI's calls run side by side and may escalate, the turn may
end without a result and its client may be disconnected at any point, and what it left in
the queue is read by the next one; for `codex` items
arrive complete; for `local` the loop runs over streams. `StartTurn` and `Return` are the
same for all three.

`MCExecutionControl`, `MCGitStore`, `MCStageConversation` and `MCStageTurn` fix the
instances. The theorems are in `TaskStoreProofs`, `ExecutionControlProofs`,
`GitStoreProofs`, `StageConversationProofs`, `DraftRefinement`, `EscalationsProofs`,
`ToolLoopProofs` and `StageTurnProofs`. Operators preceded by a "Mutant:" comment are broken
versions of the operator after them: each property is known to fail when the code is broken that
way, and no specification uses them.

## 3. Runs

| run | question | bounds, and why they do |
|---|---|---|
| `task_files` | do the files stay consistent with each other under stopped and torn writes, and implement `Lifecycle`? | 2 executions, 2 reviews, 6 transitions, one pull request, one knowledge entry. A repeated or skipped transition, a verdict that reuses evidence and a second attempt all fit. |
| `one_request` | with one execute request beside pushes, passes, humans, crashes, forced cleanup and hand deletion: is the reviewed, the approved, the pushed and the swept the same attempt? | 2 attempts, 2 reviews, 2 pull requests, 7 transitions: an attempt, a verdict, a retry, an approval, the merge and the cleanup; all hazards. 3.1 million states. |
| `attempts` | do retries build on the reviewed attempt, and are commits kept? | 3 attempts, so that a failed one can come between the reviewed one and the retry; 1 review, 7 transitions, 1 pull request. No force and no deletion by hand, which drop commits by design. 3.4 million states. |
| `requests` | with two execute requests in flight: are ids, worktrees and sessions exclusive, are commits kept, is every attempt settled and every session freed? | 2 requests on one executor, so that they meet at its lock; 2 attempts, 1 review, 1 pull request, 5 transitions: both attempts, the approval and the merge with its cleanup pass; fair, no hazards. 240 thousand states. |
| `git_writes` | writes of a project and of a task below it, between and during ticks, one failing half-way | 2 writes per file, 1 fault. Two entities suffice, one directory inside the other, to share an index. |
| `git_faults` | are committed entries kept, and is everything published, whatever fails? | one task with a document and a log, 2 faults of any kind (failed write, crash, failing git command), fair. Two faults cover a fault during the recovery from another. |
| `conversation` | with any two requests at a time on one conversation, through three executors, is a session used by one turn, does discarded content stay out, does an executor know what it said? | 3 symmetric requests, 2 open at a time. A first exchange, an edit or a turn through another executor, and the turn that shows the damage; overlaps of two, and a third after them. 1.2 million states. |
| `turn` | what is recorded of a turn, fed back to the model and put to the human: does it belong together, whatever runs side by side, comes late or breaks off, and does the loop end? | 2 turns (a late decision or callback needs a turn after its own), the last through `claude-code` as nothing of another runner outlives its turn; 2 uses, 2 rounds, 2 texts, one message on its way; 2 sessions; a tool loop of 2 turns and 2 calls over batches with a duplicate, one call too many, an unknown tool, a stop call beside others, an invalid one and two of one name. 1.8 million states. |
| `review_race`, `stale_push`, `switched_executor`, `shared_key` | each the counterexample to one sentence of the repository (§6) | the smallest bounds that reach it |

`conversation`: `MCView` leaves out locals a request will not read again and contexts of
sessions that nothing names any more. In its runs deadlock checking is off, as the
requests are finitely many and all may end; so it is in `turn`, where the turns are.
Calls side by side are two because every pairwise order (results swapped, a decision
between them, one left over) shows with two. The theorems of §5 do not depend on the bounds.

In `MCExecutionControl`, `MCView` leaves the entries of `transitions.yaml` out of the fingerprint and keeps
the length: no guard or property of those runs reads an entry. (`requests` has liveness
properties and no view.) A crash or a failed collection with two requests in flight is not
in a run: the safety theorems of §5 hold with every hazard, unless they say otherwise. A push
of the empty name that takes commits off origin while a pass compares with them needs three
reviews and is beyond these bounds; `CommitsSurvive` has it for all of them. `MCInit` is the state
`FinalizePlan` leaves, as what comes before is checked by `task_files`, and the human
actions of `TaskStore` are all still enabled afterwards (a task may go back to
requirements and forward again). Counters (`Max*`) are bounds in guards; deadlock
checking is also off in `GitStore`, where nothing is left to do when the write
and fault bounds are reached and a tick is a stutter.

## 4. Fairness

* `MCFairSpec` (`requests`): weak fairness on the steps of each execute
  request after it was accepted. A handler waits only for the store mutex, which is
  held for one call at a time, for git commands, and for its agent; the runner's
  context ends a run at its deadline. There is no fairness on humans, GitHub or new requests.
* `GitStore!FairSpec` (`git_faults`): weak fairness on the worker (the ticker is never
  stopped and git commands end) and on time (a dirty path's age passes the stale
  threshold). Faults are bounded and never fair.
* `StageTurn!FairSpec` (`turn`): weak fairness on `LocalStep`, the steps of a turn of
  `local` that need nobody outside: a completion ends (the chat client's idle timeout cuts a silent
  stream), tools return (a turn has no deadline of its own, but `bash` has one, two minutes,
  `toolloop/tools_bash.go:21`, and the other tools read and write files), and the loop goes on
  by itself, for as many turns and calls as a stage turn's caps allow (30 and 1000,
  `api/stage_conversation.go:1149`, 1155). There is none on the CLIs, the humans or new turns, and none
  that makes the model stop calling tools: `LoopEnds` rests on the budget.

## 5. Proofs

Every theorem holds for every value of the constants, from the named assumptions of the
modules alone: any number of requests, attempts, sessions, messages, files and bounds, and
any faults unless an `ASSUME` says otherwise.

**`TaskStoreProofs`.** `TypeCorrect`; `HistoryCorrect`, `BackedCorrect`, `UsedOnceCorrect`,
`DocsCorrect` (the invariants of `task_files`); `AppendOnlyCorrect` (the action property
`RecordsAppendOnly`); `StoreImplementsLifecycle`: `TaskSpec => L!Spec`.
Every step has one of two shapes (`StepShape`): *quiet* (no transition appended; the stage
is kept or lost) or *moved* (`AdvanceStage` after the records it cites), and keeps
every record. The invariant, `HistoryInv`, adds to the four properties that
every transition names its evidence (`EntriesNamed`); without that, `EvidenceUsedOnce` is
not inductive, as nothing would say that the execution of an old transition is one that
`RecordSuccess` now refuses. The refinement needs, step by step, that a quiet step is a
stutter, `Damage`, or an abstract move whose second write did not land, and that a moved
step is the abstract action of its trigger.

**`ExecutionControlProofs`.** For any number of requests at a time:
* `OwnersExclusive`, `SessionsExclusive` and, if nobody deletes worktrees by hand (`Untouched`),
  `WorkspacesKept`. A request's step does one of four things to an attempt (`RequestEffect`): it
  waits, takes an id, keeps it or settles it; nobody else touches logs and records
  (`OthersEffect`). `ExclusiveExecution` becomes inductive with "recorded implies logged"
  (`RecordedLogged`). `OneRunPerSession` needs that who runs keeps its executor busy
  (`StartShape`); `RunKeepsWorkspace` needs that a pass holds recorded attempts only
  (`PassInv`), which are nobody's, as an owner's is not recorded.
* `ControlTypeCorrect` and `ControlUsesStore` (`Spec => TaskSpec`), from `ControlInv`: ids are
  handed out without gaps (`Numbered`), a request that began has read the plan (`Planned`),
  reviews name executions on record, a request answers a verdict on record (`FeedbackFits`),
  and the pull requests named are GitHub's. A handler chooses its
  arguments several store calls before it uses them; these say that they are still ones
  `TaskStore` allows. So all that is proved of the store holds under its handlers
  (`ControlKeepsHistory`), the refinement of `Lifecycle` included.
* `RetriesBuildOnReviewed`, from `RetryInv`: an attempt's branch has its own number
  (`OutputsFit`), a new log's number has no branch (`Fresh`), and a request forks from its
  subject's branch if that has one (`ForksFit`). The reviewed attempt is on record, hence
  nobody's, so its branch grows no more and the fork stays above it. That a verdict names an
  attempt at all, with an outcome on record, is `NamedInv`: a task under review has one.
* `CommitsSurvive`, if nobody deletes by hand and no cleanup is forced, from `CommitInv`: a
  branch without a worktree holds nothing that is not on origin, on a branch with one, or
  withdrawn (`LeftSafe`, `Published`), and what a pass compares with was on origin when it
  began and has been withdrawn if it is no longer (`TipsPushed`). A push of an empty branch
  name is the one step that takes commits off origin.

and for one execute request at a time (`OneRequest`), which is how the client uses the server,
not something the server insists on. Without it these are false: TLC finds the counterexamples
(§6), which is how the assumption got there.
* `VerdictsNameSuccess`, from `SubjectInv`: no request is in flight once the task is under review
  or past it (`InFlight`), so the latest attempt is the success that brought it there
  (`LatestSucceeds`), and an owner's id is the latest (`OwnerLatest`).
* `PushesTakeApproved`, if no operation is cut between its writes (`"stop" \notin Faults`: else
  a verdict may be on record whose move of the stage never landed, §6). The
  handler takes the latest attempt and never looks at the verdict; `Approved` is why they
  agree while the task is at pr_review. Of a push that lists the executions after the task has
  left that stage nothing holds (`stale_push`).
* `CompletedSwept`, from `SweepInv`: a pass is alone (`PassAlone`), one that has parked nothing
  has removed all it no longer lists (`PassSweeps`), and only such a pass completes the task.

**`GitStoreProofs`.** `StoreTypeCorrect` and `EntriesKept` for all faults. The invariant of the
latter, `LogsGrow`: of a log, HEAD begins the index and the index begins the file, the index
has no torn entry, and a log is never beyond repair; so no commit can take an entry out.
`OnlyParsedCommitted` and `CommitsWithinDir` where writes may fail but the server neither
dies nor loses a git command (`Uncut`): then the index differs from HEAD only within the
directory of the entry the worker is at, and what does not parse in it is about to be reset
(`TickInv`). Without the assumption both are false (§6), and the runs
check them without those faults too.

**`StageConversationProofs`, `DraftRefinement`.** On `ConversationInv`: a session id on record,
cached or in a request was started by the executor it is for (`SessionsOwned`), a turn in
flight holds its executor's lock alone (`LocksHeld`), and only requests of the right kind get
to a step (`RequestsFit`). It gives `ConversationTypeCorrect` and `OneTurnAtATime`.
`DiscardedForGood`, from `DiscardInv`: messages on disk, what `local` holds, and every session
that a record, the cached client or a request names are free of what was discarded; and while
an edit is alone, nothing keeps what it has already cut (`EditAlone`). `OwnExchangesKnown`, from
`RecallInv`: what stands of an executor's exchanges (`Standing`, `Exchanged`) is in every session it
could go on with, and a turn's own exchange (`Heard`) in every session that will be kept.
`DraftOneTurnAtATime`, `DraftDiscardedForGood` and `DraftOwnExchangesKnown` carry the three over to
the task drafts, whose turns and edits are the same steps and whose requests open as a stage's do
while it is current.

**`EscalationsProofs`, `ToolLoopProofs`.** `DecidedByItsHuman` and `RegistryExact`: an entry names
the session of its waiter, and a decision in a channel came from that session.
`CallsAnswered`, `StopToolsCorrect`, `BudgetKept`: a batch is filtered before it is appended, so
the calls on the assistant message are those that will be run; the invariant follows the loop
through a batch, one result at a time, and counts the turns.

**`StageTurnProofs`.** The composition. Every step of a turn is a step of the registry or
leaves it alone (`TurnsUseRegistry`), so the registry's theorems carry over as they are; every
step of it is a step of the loop, leaves it alone, or starts it afresh, so the loop's
invariants carry over by their inductive steps (`TurnsAsSpecified`). `HooksRoutedLive` is of the
composition only: the hook a callback finds is the running turn's. What the callback does with it
afterwards, without a lock, may come after that turn (§6).
The record: `ResultsOnTheirCalls`, `RecordedInOrder`, `OnlyAcceptedProposed`, `MessagesApart`,
`TurnTypeCorrect`. `RecordInv` says that an entry has its own call's result or is where the index of
pending calls says (`Slotted`), and that the segments read in turn are what happened; lemmas
on flattening say what one more text, call or result does to that. `FlowInv` follows a call
through the turn: on its way in the queue, a draft that waits for its verdict, accepted, or
in the record, and in one of these at a time (`MessageFits`, `DraftsFit`, `EntriesFit`,
`LoopEntries`); a break is due if the model speaks another message than it spoke last
(`BreaksDue`).

What the theorems assume of constants beyond their types only names values: `NoResult` is no
call's id, and an attempt's outcome as `ExecutionControl` sees it is the one `TaskStore`
records (`Output = AttemptOutput`).

Only model-checked is what needs fairness: `AttemptSettled`, `SessionFreed`,
`EventuallyPublished` and `LoopEnds` are out of the prover's reach. Every safety property the
passing runs check, invariant or action property, is stated by a theorem, under the
assumptions above. Nothing here needs induction over recursive functions; the folds and flattenings are
functions given by their equations.

## 6. What the model says about statements in the repository

* `review_race`: `task/lifecycle.go:156` holds that the last execution is the
  unambiguous subject of the review. With two execute requests past the stage
  check, one succeeds and the other then records its failure (a failure is recorded
  at any stage), and the review is attached to the failed one. With one request at
  a time the statement holds (`one_request`, `ReviewNamesSuccess`).
* `stale_push`: `api/pr.go:57` says of the last entry of `ListExecutions` that it is "the one
  Review actually approved", as the task "is confirmed at pr_review above". The confirmation is of
  the task read by an earlier store call: a verdict at pr_review that asks for changes, a retry and
  its record fit in between, and the push takes an attempt nobody reviewed, or the empty name of
  one without a workspace. `PushTakesApproved` is what does hold.
* `switched_executor`: `agentrunner/runner.go:97` says the history is consulted only when
  the runner has no live session, because an established session already holds it, and
  `api/router.go:63` that switching executors falls back to replaying it. After an
  exchange through A, one through B and a turn through A again, A's session is live (or
  its recorded id resumes it), never heard the exchange with B, and is not told.
  `KnowsOwnExchanges` is what does hold: A never forgets its own.
* `shared_key`: `docs/task schema v0.md:27` says a task's id is unique only within its
  project, and `agentrunner/runner.go:49` that the session key identifies the conversation.
  The key is `taskId + ":" + stage` wherever it is made (`api/stage_conversation.go:400`, 501,
  669; `api/execution.go:287`; `api/stage_permission.go:130`): a turn on the task of the same
  id in another project runs on the first one's client, and its escalations and locks are
  shared. `taskDraftSessionKey` does name the project.

Known limits the model reaches, on which no run is spent; the properties are stated
around them:

* a failed `task.yaml` write leaves the transition before it on record
  (`HistoryChains` allows one repeated move); a `needs_changes` that fails there leaves a
  task at pr_review whose latest review is no approval;
* "Save defaults" sends a body without the knowledge activity, and `Update`
  (`task/store.go:196`) writes the body: what the client does not send is lost, though
  `task/task.go:113` calls the activity append-only;
* an attempt whose workspace could not be resolved is recorded with an empty branch name, and
  the push that follows (`agentrunner/pr.go:134`) is `git push origin :head`, which deletes
  the head branch of the pull request. A push that checked the stage before a rejection gets
  there with one execute request; if a pass is comparing local branches with that head at the
  time, it goes on removing them: the commits are lost, and `NoCommitLost` excepts exactly them;
* a torn `task.yaml` has no stage, and no lifecycle action accepts the task;
* a crash between opening a pull request and recording it lets a later attempt open
  a second one;
* a success recorded after the task was revised is refused, and no record names its
  branch; the worktree of an attempt with no record is never listed by a pass
  (`CompletedIsSwept` speaks of recorded attempts);
* after a rejection the new attempt starts from the default branch and cannot be
  pushed onto the old pull request without force;
* a worktree whose directory a human deleted is "already gone", and its branch is
  deleted without the ancestry check (`attempts` leaves hand deletion out);
* a failure recorded after an approval changes what the push takes, if two requests
  were in flight (`PushTakesApproved` is checked and proved with one); a failure recorded while
  a pass is removing is not on the pass's list, and the task is completed with that worktree left
  (`CompletedIsSwept`);
* a crash between `git add` and `git reset` leaves the unparsable file staged for
  the next commit (`git_writes` has no crash); a document cut where it still
  parses, or trimmed by the repair, is committed; an entry appended after a torn one is
  dropped by the repair though its call succeeded (`HistoryKeepsEntries` is about
  entries already in HEAD); a failing store call leaves files dirty that only the sweep finds.
* committing a project update runs `git add` on the project's directory, and its tasks'
  directories lie below it: their pending changes go into the commit named after the
  project, although `gitstore/gitstore.go:110` says no other entity touches an entity's
  directory (`CommitWithinDir` is about directories, so it holds);
* two conversation requests at a time: an edit loses messages appended between its read
  and its replace; a turn that overlaps an edit records its session id after the edit
  cleared it, and an edit cut by a crash has not cleared it yet, so discarded content
  returns (`DiscardedStaysDiscarded` is about edits that ran alone and finished); a refused
  turn clears the recorded id of the turn in flight;
* `findCall` (`toolloop/engine.go:321`) takes the first call of each stop tool: a second
  proposal of the same name in one completion is dropped, answered by nobody and shown to
  nobody, as the loop is over;
* a stream that ends without a finish reason drops the calls it was assembling
  (`chat/client.go:231`), and the loop takes the text for the answer;
* the permission callback looks its turn's hook up (`claude_runner.go:195`) and calls it later
  (:204), with no lock in between: one found before its turn ended registers its request and
  writes it to that turn's stream after the end, and waits there until its context ends
  (`HookOfLiveTurn` is about the lookup);
* a `claude-code` turn that timed out leaves its client cached (`claude_runner.go:625`), and
  nothing empties its channel: the messages the CLI still sends are read as the next turn's, and
  the abandoned turn's result message ends that one early. `StageTurn` keeps the queue from turn to
  turn; `ProposalsAccepted` therefore says that a proposal shown was accepted and not that it
  was made in this turn;
* the note that the tool budget is exhausted (`chat_client_runner.go:133`) is appended to the
  runner's answer, while the record takes the turn's text from its segments, so it reaches
  the record only when there are none.

## 7. Not modelled, and why

* Left out of the modelled components: two cleanup passes at once and the sweep's own
  process and mutex; GitHub deleting a merged branch; the session key of
  the cleanup turn; reads during a write; pushes to the data repository by anybody
  else; a left-over `index.lock`; a crash inside the rewrite of a repaired file. A store
  call on a task whose `task.yaml` does not parse is refused by the code and
  allowed in `GitStore` (more behaviours, not fewer). What `git status` prints for an
  untracked directory is abstracted to "the age of the path may or may not be reset".
* In the conversation: faults of its two files (each call is atomic; `GitStore` has torn
  logs), the byte limit of a replayed transcript, what a CLI session still sends after
  its turn was abandoned (`StageTurn` has it), free conversations (the same runners on other keys).
* In a turn: the events to the browser but those that reach the record or ask the human; the
  JSON of arguments (valid, invalid or cut); the wording of denials and notes; the messages
  of `Execute` (`processExecuteMessage`), which only fill the log and the outcome. Subagents:
  the tool that starts them is in no list of tools a turn offers, so their tracker never
  has an entry.
* Tool implementations, the HTTP side of the chat clients, the knowledge store, the
  helpers, the schema and YAML code: one process's I/O or pure functions on text.
* Assembly, tray, model probe, migration, frontend: no protocol.

## 8. Plan

1. (done) `Lifecycle`, `TaskStore`, `Workspaces`, `ExecutionControl`, `GitStore`,
   `AgentSessions`, `StageConversation`; the turn: `TurnRecord`, `Escalations`, `ToolLoop`,
   `CompletionStream`, `StageTurn`; `TaskDraftConversation`, `SameNamedTasks`; the proofs of §5.
2. (done) The safety proofs: every invariant and action property of the runs.
3. What holds of several execute requests if the stage check and the log creation were one
   step, or if the server refused a second request: `InFlight` would follow from the code, and
   the theorems under `OneRequest` would lose that assumption.
4. The conversation and the turn composed: `StageConversation` takes a turn's outcome as given,
   `StageTurn` the session it talks to; no theorem says yet that the two fit.
5. The messages of `Execute`, if its outcome comes to depend on more than the last of them.
