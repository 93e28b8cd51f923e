------------------------------- MODULE GitStore -------------------------------
(***************************************************************************)
(* The git-backed workspace (internal/gitstore): every store write lands   *)
(* on disk and queues its entity's directory under one mutex; the push     *)
(* worker's tick commits the queue, sweeps what it missed, and pushes.     *)
(* The queue is in memory, so a restart empties it; the index is not, so   *)
(* what a failed or interrupted tick staged stays staged.                  *)
(***************************************************************************)
EXTENDS Integers, Sequences, FiniteSets

CONSTANTS
    Entity,    \* the projects and tasks
    File,      \* their .yaml files
    Log,       \* the files that are only appended to
    Owner,     \* the entity each file belongs to
    Under,     \* the files below an entity's directory
    Sweep,     \* the message of a sweep commit
    Faults,    \* "write": a store write fails; "crash": the server dies;
               \* "git": a git command fails
    MaxWrites, \* bound on the writes of one file
    MaxFaults  \* bound on the faults

ASSUME GitStoreAssumption ==
    /\ Log \subseteq File
    /\ Owner \in [File -> Entity]
    /\ Under \in [Entity -> SUBSET File]
    /\ \A f \in File : f \in Under[Owner[f]]
    /\ Sweep \notin Entity
    /\ Faults \subseteq {"write", "crash", "git"}
    /\ MaxWrites \in Nat /\ MaxFaults \in Nat

VARIABLES
    disk,     \* the content of every file in the working tree
    index,    \* what git has staged of it (the entry of HEAD if nothing)
    head,     \* its content in HEAD
    writes,   \* how often it was written
    stale,    \* the files whose path in `git status` is past staleThreshold
    pending,  \* core.pending: the entities queued for a commit
    worker,   \* the push worker
    commits,  \* the history, each commit with its message and changed files
    origin,   \* how many of the commits the data repository has
    upstream, \* how many of them @{u} says it has
    faults    \* how many faults there were

vars == <<disk, index, head, writes, stale, pending, worker, commits, origin, upstream, faults>>
treeVars == <<disk, index, head, writes, stale>>
historyVars == <<commits, origin, upstream>>

-----------------------------------------------------------------------------
(* A file is a sequence of writes: a Log keeps them all, any other file the *)
(* last.  An interrupted write leaves a piece that still parses ("cut"),    *)
(* or not: then trimming at a list entry may help ("torn") or not           *)
(* ("broken").                                                              *)

Piece == {"acked", "unacked", "cut", "torn", "broken"}
Content == Seq([n : Nat, piece : Piece])

\* A file with one more write on it.
Wrote(f, piece) ==
    LET new == [n |-> writes[f] + 1, piece |-> piece]
    IN  IF f \in Log THEN Append(disk[f], new) ELSE <<new>>

Interrupted(f) == IF f \in Log THEN {"cut", "torn"} ELSE {"cut", "torn", "broken"}

Has(content, pieces) == \E i \in 1..Len(content) : content[i].piece \in pieces
Parses(content) == ~ Has(content, {"torn", "broken"})

\* Mutant: the cut is made one entry further up.
RepairOneMore(f) ==
    IF ~ Has(disk[f], {"torn"}) THEN disk[f]
    ELSE IF f \in Log
    THEN LET first == CHOOSE i \in 1..Len(disk[f]) :
                         /\ disk[f][i].piece = "torn"
                         /\ \A j \in 1..(i - 1) : disk[f][j].piece # "torn"
         IN  SubSeq(disk[f], 1, first - 2)
    ELSE <<[disk[f][1] EXCEPT !.piece = "cut"]>>

\* repairTornYAML: cut at the last list entry above which everything parses.
\* In a Log that drops the torn entry and every entry after it; a document
\* with a list in it (task.yaml has several) loses its end.
Repair(f) ==
    IF ~ Has(disk[f], {"torn"}) THEN disk[f]
    ELSE IF f \in Log
    THEN LET first == CHOOSE i \in 1..Len(disk[f]) :
                         /\ disk[f][i].piece = "torn"
                         /\ \A j \in 1..(i - 1) : disk[f][j].piece # "torn"
         IN  SubSeq(disk[f], 1, first - 1)
    ELSE <<[disk[f][1] EXCEPT !.piece = "cut"]>>

Dirty(f) == disk[f] # head[f] \/ index[f] # head[f]

-----------------------------------------------------------------------------
(* Store writes, under core.mu; so is all of a tick but the push.          *)

LockFree == worker.pc \in {"idle", "push"}

\* The files in `landed` get a piece each.  git status lists an untracked
\* file by a directory above it, whose age a rewrite does not change.
Write(landed, piece) ==
    /\ \A f \in landed : writes[f] < MaxWrites
    /\ disk' = [f \in File |-> IF f \in landed THEN Wrote(f, piece[f]) ELSE disk[f]]
    /\ writes' = [f \in File |-> IF f \in landed THEN writes[f] + 1 ELSE writes[f]]
    /\ stale' \in {stale \ landed, stale \ {f \in landed : index[f] # << >>}}
    /\ UNCHANGED <<index, head>>

\* withPending: the write succeeds and its entity is queued.
WithPending(e) ==
    /\ LockFree
    /\ \E landed \in SUBSET {f \in File : Owner[f] = e} \ {{}} :
          Write(landed, [f \in landed |-> "acked"])
    /\ pending' = Append(pending, e)
    /\ UNCHANGED <<worker, historyVars, faults>>

\* What a write that stops half-way leaves: some files written, one of the
\* others interrupted.
Stopped(e) ==
    \E landed \in SUBSET {f \in File : Owner[f] = e} :
       \E last \in landed : \E piece \in Interrupted(last) \union {"unacked"} :
          Write(landed, [f \in landed |-> IF f = last THEN piece ELSE "unacked"])

Fault(kind) ==
    /\ kind \in Faults
    /\ faults < MaxFaults
    /\ faults' = faults + 1

\* withPending with an fn that fails: nothing is queued.
FailedWrite(e) ==
    /\ LockFree
    /\ Fault("write")
    /\ Stopped(e)
    /\ UNCHANGED <<pending, worker, historyVars>>

-----------------------------------------------------------------------------
(* RunPushWorker.                                                          *)

Idle == [pc |-> "idle", queue |-> << >>, message |-> Sweep, unrepaired |-> {}]

\* The ticker fires and commitPending takes the lock and the whole queue.
Tick ==
    /\ worker.pc = "idle"
    /\ worker' = [Idle EXCEPT !.pc = "drain", !.queue = pending]
    /\ pending' = << >>
    /\ UNCHANGED <<treeVars, historyVars, faults>>

\* Mutant: `git add -A`.
StageAll(paths, message, queue) ==
    LET unrepaired == {f \in paths : Has(disk[f], {"broken"})}
    IN  /\ disk' = [f \in File |-> IF f \in paths THEN Repair(f) ELSE disk[f]]
        /\ index' = disk'
        /\ stale' = stale \ {f \in paths : Repair(f) # disk[f]}
        /\ worker' = [pc |-> IF unrepaired = {} THEN "commit" ELSE "unstage",
                      queue |-> queue, message |-> message, unrepaired |-> unrepaired]

\* The first half of addAndCommit: repair what does not parse, then `git add`.
Stage(paths, message, queue) ==
    LET unrepaired == {f \in paths : Has(disk[f], {"broken"})}
    IN  /\ disk' = [f \in File |-> IF f \in paths THEN Repair(f) ELSE disk[f]]
        /\ index' = [f \in File |-> IF f \in paths THEN disk'[f] ELSE index[f]]
        /\ stale' = stale \ {f \in paths : Repair(f) # disk[f]}
        /\ worker' = [pc |-> IF unrepaired = {} THEN "commit" ELSE "unstage",
                      queue |-> queue, message |-> message, unrepaired |-> unrepaired]

CommitNextPending ==
    /\ worker.pc = "drain" /\ worker.queue # << >>
    /\ Stage(Under[Head(worker.queue)], Head(worker.queue), Tail(worker.queue))
    /\ UNCHANGED <<head, writes, pending, historyVars, faults>>

\* Mutant: a file that cannot be repaired is swept no more.
SweepParsing ==
    /\ worker.pc = "drain" /\ worker.queue = << >>
    /\ LET old == {f \in stale : Dirty(f)} IN
         IF \A f \in old : Parses(disk[f]) /\ old # {}
         THEN Stage(old, Sweep, << >>)
         ELSE worker' = [worker EXCEPT !.pc = "push"] /\ UNCHANGED <<disk, index, stale>>
    /\ UNCHANGED <<head, writes, pending, historyVars, faults>>

SweepOrphans ==
    /\ worker.pc = "drain" /\ worker.queue = << >>
    /\ LET old == {f \in stale : Dirty(f)} IN
         IF old # {}
         THEN Stage(old, Sweep, << >>)
         ELSE worker' = [worker EXCEPT !.pc = "push"] /\ UNCHANGED <<disk, index, stale>>
    /\ UNCHANGED <<head, writes, pending, historyVars, faults>>

\* Mutant: what could not be repaired stays staged.
UnstageNothing ==
    /\ worker.pc = "unstage"
    /\ worker' = [worker EXCEPT !.pc = "commit", !.unrepaired = {}]
    /\ UNCHANGED <<treeVars, pending, historyVars, faults>>

\* `git reset` of what could not be repaired.
Unstage ==
    /\ worker.pc = "unstage"
    /\ index' = [f \in File |-> IF f \in worker.unrepaired THEN head[f] ELSE index[f]]
    /\ worker' = [worker EXCEPT !.pc = "commit", !.unrepaired = {}]
    /\ UNCHANGED <<disk, head, writes, stale, pending, historyVars, faults>>

\* `git commit` of the whole index, unless nothing is staged.
Commit ==
    /\ worker.pc = "commit"
    /\ LET changed == {f \in File : index[f] # head[f]} IN
         commits' = IF changed = {} THEN commits
                    ELSE Append(commits, [message |-> worker.message, changed |-> changed])
    /\ head' = index
    /\ worker' = [worker EXCEPT !.pc = IF worker.message = Sweep THEN "push" ELSE "drain"]
    /\ UNCHANGED <<disk, index, writes, stale, pending, origin, upstream, faults>>

AheadOfUpstream == commits # << >> /\ upstream # Len(commits)

\* Mutant: the tracking ref moves before the push has succeeded.
PushTracked ==
    /\ worker.pc = "push"
    /\ upstream' = Len(commits)
    /\ origin' \in {origin, Len(commits)}
    /\ worker' = Idle
    /\ UNCHANGED <<treeVars, pending, commits, faults>>

\* `git push -u origin HEAD`, without the lock.
Push ==
    /\ worker.pc = "push"
    /\ IF AheadOfUpstream
       THEN origin' = Len(commits) /\ upstream' = Len(commits)
       ELSE UNCHANGED <<origin, upstream>>
    /\ worker' = Idle
    /\ UNCHANGED <<treeVars, pending, commits, faults>>

\* A git command fails and ends the tick; what is left of the queue is
\* dropped, what is staged stays.  A push that fails may have arrived.
GitFails ==
    /\ worker.pc # "idle"
    /\ Fault("git")
    /\ worker' = Idle
    /\ \/ UNCHANGED origin
       \/ worker.pc = "push" /\ AheadOfUpstream /\ origin' = Len(commits)
    /\ UNCHANGED <<treeVars, pending, commits, upstream>>

WorkerStep ==
    \/ Tick \/ CommitNextPending \/ SweepOrphans \/ Unstage \/ Commit \/ Push

-----------------------------------------------------------------------------
\* Time passes.
Elapse(f) ==
    /\ Dirty(f) /\ f \notin stale
    /\ stale' = stale \union {f}
    /\ UNCHANGED <<disk, index, head, writes, pending, worker, historyVars, faults>>

\* The server dies, maybe half-way through a write, and comes back with an
\* empty queue (Open resumes the checkout as it is).
Crash ==
    /\ Fault("crash")
    /\ \/ UNCHANGED treeVars
       \/ LockFree /\ \E e \in Entity : Stopped(e)
    /\ worker' = Idle
    /\ pending' = << >>
    /\ UNCHANGED historyVars

Init ==
    /\ disk = [f \in File |-> << >>] /\ index = disk /\ head = disk
    /\ writes = [f \in File |-> 0]
    /\ stale = {}
    /\ pending = << >>
    /\ worker = Idle
    /\ commits = << >> /\ origin = 0 /\ upstream = 0
    /\ faults = 0

Next ==
    \/ \E e \in Entity : WithPending(e) \/ FailedWrite(e)
    \/ WorkerStep
    \/ GitFails
    \/ \E f \in File : Elapse(f)
    \/ Crash

Spec == Init /\ [][Next]_vars

\* The ticker never stops, git commands end, and time passes.
FairSpec == Spec /\ WF_vars(WorkerStep) /\ \A f \in File : WF_vars(Elapse(f))

-----------------------------------------------------------------------------
\* Types, and what @{u} and origin say of each other and of HEAD: the data
\* repository has a prefix of the commits, the tracking ref never more than it.
StoreTypeOK ==
    /\ disk \in [File -> Content] /\ index \in [File -> Content] /\ head \in [File -> Content]
    /\ writes \in [File -> 0..MaxWrites]
    /\ stale \subseteq File
    /\ pending \in Seq(Entity)
    /\ worker \in [pc : {"idle", "drain", "unstage", "commit", "push"},
                   queue : Seq(Entity), message : Entity \union {Sweep},
                   unrepaired : SUBSET File]
    /\ commits \in Seq([message : Entity \union {Sweep}, changed : SUBSET File])
    /\ origin \in 0..Len(commits)
    /\ upstream \in 0..origin
    /\ faults \in 0..MaxFaults

\* No commit holds a file that does not parse (repair, or reset, before it).
HistoryParses == \A f \in File : Parses(head[f])

\* What a commit changes lies below the directory it is named for, though the
\* index is shared by all of them.
CommitWithinDir ==
    \A i \in 1..Len(commits) :
       commits[i].message # Sweep => commits[i].changed \subseteq Under[commits[i].message]

\* A log's committed entries stay: no repair, sweep or interrupted tick takes
\* out an entry HEAD already has and its store call confirmed.
HistoryKeepsEntries ==
    [][\A f \in Log : \A i \in 1..Len(head[f]) :
          head[f][i].piece = "acked" =>
             i <= Len(head'[f]) /\ head'[f][i] = head[f][i]]_vars

\* Whatever the restart lost of the queue, and whatever a failed tick left
\* staged, every file that parses or can be repaired reaches the data repository.
Published(f) == ~ Dirty(f) /\ origin = Len(commits)
EventuallyPublished ==
    \A f \in File : Dirty(f) ~> (Published(f) \/ Has(disk[f], {"broken"}))
=============================================================================
