--------------------------- MODULE GitStoreProofs ---------------------------
(***************************************************************************)
(* For any files, directories, bounds and faults: the types of the         *)
(* git-backed store and the place of its tracking ref, and that committed  *)
(* log entries stay.  Without crashes and failing git commands, whose      *)
(* counterexamples TLC has, also that only files that parse are committed, *)
(* each below the directory the commit is named for.                       *)
(***************************************************************************)
EXTENDS GitStore, SequenceTheorems, WellFoundedInduction, TLAPS

Entry == [n : Nat, piece : Piece]

-----------------------------------------------------------------------------
(* The contents of a file.                                                 *)

LEMMA LeastPosition ==
  ASSUME NEW S \in SUBSET Nat, S # {}
  PROVE  \E m \in S : \A j \in S : m <= j
<1>1. PICK m \in S : \A j \in S : ~ (<<j, m>> \in OpToRel(<, Nat))
  BY NatLessThanWellFounded, WFMin
<1>2. \A j \in S : ~ (j < m)
  BY <1>1 DEF OpToRel
<1> QED
  BY <1>2

\* What follows on t is what s has, and maybe more.
Begins(s, t) == Len(s) <= Len(t) /\ \A i \in 1..Len(s) : t[i] = s[i]

\* A write adds one entry to a log, and replaces any other file by one.
LEMMA WroteContent ==
  ASSUME StoreTypeOK, NEW f \in File, NEW piece \in Piece
  PROVE  /\ Wrote(f, piece) \in Content
         /\ \A pieces : Has(Wrote(f, piece), pieces) => Has(disk[f], pieces) \/ piece \in pieces
         /\ f \in Log => Begins(disk[f], Wrote(f, piece))
<1> DEFINE new == [n |-> writes[f] + 1, piece |-> piece]
<1>1. writes[f] \in Nat /\ disk[f] \in Seq(Entry)
  <2>1. writes[f] \in 0..MaxWrites /\ MaxWrites \in Nat
    BY GitStoreAssumption DEF StoreTypeOK
  <2>2. disk[f] \in Content
    BY DEF StoreTypeOK
  <2> QED
    BY <2>1, <2>2 DEF Content, Entry
<1>2. new \in Entry /\ new.piece = piece
  BY <1>1 DEF Entry
<1> HIDE DEF new
<1>3. CASE f \in Log
  <2>1. Wrote(f, piece) = Append(disk[f], new)
    BY <1>3 DEF Wrote, new
  <2>2. /\ Append(disk[f], new) \in Seq(Entry)
        /\ Len(Append(disk[f], new)) = Len(disk[f]) + 1
        /\ \A i \in 1..Len(disk[f]) : Append(disk[f], new)[i] = disk[f][i]
        /\ Append(disk[f], new)[Len(disk[f]) + 1] = new
    BY <1>1, <1>2, AppendProperties
  <2>3. Len(disk[f]) \in Nat
    BY <1>1, LenProperties
  <2>4. Begins(disk[f], Wrote(f, piece))
    BY <2>1, <2>2, <2>3 DEF Begins
  <2>5. ASSUME NEW pieces, Has(Wrote(f, piece), pieces)
        PROVE  Has(disk[f], pieces) \/ piece \in pieces
    <3>1. PICK i \in 1..(Len(disk[f]) + 1) : Wrote(f, piece)[i].piece \in pieces
      BY <2>1, <2>2, <2>5 DEF Has
    <3>2. CASE i = Len(disk[f]) + 1
      BY <1>2, <2>1, <2>2, <3>1, <3>2
    <3>3. CASE i \in 1..Len(disk[f])
      BY <2>1, <2>2, <3>1, <3>3 DEF Has
    <3> QED
      BY <2>3, <3>1, <3>2, <3>3
  <2> QED
    BY <2>1, <2>2, <2>4, <2>5 DEF Content, Entry
<1>4. CASE f \notin Log
  <2>1. Wrote(f, piece) = <<new>>
    BY <1>4 DEF Wrote, new
  <2>2. <<new>> \in Seq(Entry) /\ Len(<<new>>) = 1 /\ <<new>>[1] = new
    BY <1>2
  <2>3. \A pieces : Has(Wrote(f, piece), pieces) => piece \in pieces
    BY <1>2, <2>1, <2>2 DEF Has
  <2> QED
    BY <1>4, <2>1, <2>2, <2>3 DEF Content, Entry
<1> QED
  BY <1>3, <1>4

\* The cut is made below the first entry that is torn.
LEMMA FirstTorn ==
  ASSUME NEW content \in Seq(Entry), Has(content, {"torn"})
  PROVE  LET first == CHOOSE i \in 1..Len(content) :
                         /\ content[i].piece = "torn"
                         /\ \A j \in 1..(i - 1) : content[j].piece # "torn"
         IN  /\ first \in 1..Len(content)
             /\ content[first].piece = "torn"
             /\ \A j \in 1..(first - 1) : content[j].piece # "torn"
<1> DEFINE T == {i \in 1..Len(content) : content[i].piece = "torn"}
<1>1. Len(content) \in Nat
  BY LenProperties
<1>2. T \in SUBSET Nat /\ T # {}
  BY <1>1 DEF Has
<1>3. PICK m \in T : \A j \in T : m <= j
  <2> HIDE DEF T
  <2> QED
    BY <1>2, LeastPosition
<1>4. \A j \in 1..(m - 1) : content[j].piece # "torn"
  BY <1>1, <1>3
<1>5. \E i \in 1..Len(content) :
         /\ content[i].piece = "torn"
         /\ \A j \in 1..(i - 1) : content[j].piece # "torn"
  BY <1>3, <1>4
<1> QED
  BY <1>5

\* A repair leaves nothing torn and breaks nothing; it takes a log apart only
\* at an entry that is torn.
LEMMA RepairContent ==
  ASSUME StoreTypeOK, NEW f \in File
  PROVE  /\ Repair(f) \in Content
         /\ ~ Has(Repair(f), {"torn"})
         /\ Has(Repair(f), {"broken"}) => Has(disk[f], {"broken"})
         /\ f \in Log => \A s \in Content :
               Begins(s, disk[f]) /\ ~ Has(s, {"torn"}) => Begins(s, Repair(f))
<1>1. disk[f] \in Seq(Entry) /\ Len(disk[f]) \in Nat
  BY LenProperties DEF StoreTypeOK, Content, Entry
<1>2. CASE ~ Has(disk[f], {"torn"})
  BY <1>1, <1>2 DEF Repair, Content, Entry
<1>3. CASE Has(disk[f], {"torn"}) /\ f \in Log
  <2> DEFINE first == CHOOSE i \in 1..Len(disk[f]) :
                         /\ disk[f][i].piece = "torn"
                         /\ \A j \in 1..(i - 1) : disk[f][j].piece # "torn"
             rest == SubSeq(disk[f], 1, first - 1)
  <2>1. /\ first \in 1..Len(disk[f])
        /\ disk[f][first].piece = "torn"
        /\ \A j \in 1..(first - 1) : disk[f][j].piece # "torn"
    BY <1>1, <1>3, FirstTorn
  <2>2. Repair(f) = rest
    BY <1>3 DEF Repair
  <2> HIDE DEF first
  <2>3. \A i \in 1..(first - 1) : disk[f][i] \in Entry
    BY <1>1, <2>1, ElementOfSeq
  <2>4. /\ rest \in Seq(Entry) /\ Len(rest) = first - 1
        /\ \A i \in 1..(first - 1) : rest[i] = disk[f][i]
    <3>1. /\ rest \in Seq(Entry)
          /\ Len(rest) = IF 1 <= first - 1 THEN (first - 1) - 1 + 1 ELSE 0
          /\ \A i \in 1..((first - 1) - 1 + 1) : rest[i] = disk[f][1 + i - 1]
      BY <1>1, <2>1, <2>3, SubSeqProperties
    <3> QED
      BY <1>1, <2>1, <3>1
  <2>5. ~ Has(rest, {"torn"})
    BY <2>1, <2>4 DEF Has
  <2>6. Has(rest, {"broken"}) => Has(disk[f], {"broken"})
    BY <1>1, <2>1, <2>4 DEF Has
  <2>7. ASSUME NEW s \in Content, Begins(s, disk[f]), ~ Has(s, {"torn"})
        PROVE  Begins(s, rest)
    <3>1. Len(s) \in Nat
      BY LenProperties DEF Content
    <3>2. first \notin 1..Len(s)
      BY <2>1, <2>7 DEF Begins, Has
    <3> QED
      BY <1>1, <2>1, <2>4, <2>7, <3>1, <3>2 DEF Begins
  <2> HIDE DEF rest
  <2> QED
    BY <2>2, <2>4, <2>5, <2>6, <2>7 DEF Content, Entry
<1>4. CASE Has(disk[f], {"torn"}) /\ f \notin Log
  <2> DEFINE cut == [disk[f][1] EXCEPT !.piece = "cut"]
  <2>1. Repair(f) = <<cut>>
    BY <1>4 DEF Repair
  <2>2. disk[f][1] \in Entry
    BY <1>1, <1>4, ElementOfSeq DEF Has
  <2>3. cut \in Entry /\ cut.piece = "cut"
    BY <2>2 DEF Entry, Piece
  <2> HIDE DEF cut
  <2>4. <<cut>> \in Seq(Entry) /\ Len(<<cut>>) = 1 /\ <<cut>>[1] = cut
    BY <2>3
  <2>5. ~ Has(<<cut>>, {"torn"}) /\ ~ Has(<<cut>>, {"broken"})
    BY <2>3, <2>4 DEF Has
  <2> QED
    BY <1>4, <2>1, <2>4, <2>5 DEF Content, Entry
<1> QED
  BY <1>2, <1>3, <1>4

-----------------------------------------------------------------------------
(* The tree: a write, a half-way write, and what `git add` makes of it.    *)

LEMMA WriteEffect ==
  ASSUME StoreTypeOK, NEW landed \in SUBSET File, NEW piece \in [landed -> Piece],
         Write(landed, piece)
  PROVE  /\ disk' \in [File -> Content] /\ writes' \in [File -> 0..MaxWrites]
         /\ stale' \subseteq File /\ index' = index /\ head' = head
         /\ \A f \in File : disk'[f] = IF f \in landed THEN Wrote(f, piece[f]) ELSE disk[f]
<1>1. \A f \in landed : Wrote(f, piece[f]) \in Content
  BY WroteContent
<1>2. disk' \in [File -> Content]
  BY <1>1 DEF Write, StoreTypeOK
<1>3. ASSUME NEW f \in landed PROVE writes[f] + 1 \in 0..MaxWrites
  <2>1. writes[f] \in 0..MaxWrites /\ MaxWrites \in Nat /\ writes[f] < MaxWrites
    BY GitStoreAssumption DEF Write, StoreTypeOK
  <2> QED
    BY <2>1
<1>4. writes' \in [File -> 0..MaxWrites]
  BY <1>3 DEF Write, StoreTypeOK
<1> QED
  BY <1>2, <1>4 DEF Write, StoreTypeOK

LEMMA StoppedEffect ==
  ASSUME StoreTypeOK, NEW e \in Entity, Stopped(e)
  PROVE  /\ disk' \in [File -> Content] /\ writes' \in [File -> 0..MaxWrites]
         /\ stale' \subseteq File /\ index' = index /\ head' = head
         /\ \A f \in Log : /\ Begins(disk[f], disk'[f])
                           /\ Has(disk'[f], {"broken"}) => Has(disk[f], {"broken"})
<1>1. PICK landed \in SUBSET {f \in File : Owner[f] = e} :
         \E last \in landed : \E piece \in Interrupted(last) \union {"unacked"} :
            Write(landed, [f \in landed |-> IF f = last THEN piece ELSE "unacked"])
  BY DEF Stopped
<1>2. PICK last \in landed : \E piece \in Interrupted(last) \union {"unacked"} :
         Write(landed, [f \in landed |-> IF f = last THEN piece ELSE "unacked"])
  BY <1>1
<1>3. PICK piece \in Interrupted(last) \union {"unacked"} :
         Write(landed, [f \in landed |-> IF f = last THEN piece ELSE "unacked"])
  BY <1>2
<1> DEFINE pieces == [f \in landed |-> IF f = last THEN piece ELSE "unacked"]
<1>4. landed \in SUBSET File
  BY <1>1
<1>5. pieces \in [landed -> Piece]
  BY <1>3 DEF Interrupted, Piece
<1>6. \A f \in landed : f \in Log => pieces[f] # "broken"
  BY <1>3 DEF Interrupted
<1> HIDE DEF pieces
<1>7. Write(landed, pieces)
  BY <1>3 DEF pieces
<1>8. /\ disk' \in [File -> Content] /\ writes' \in [File -> 0..MaxWrites]
      /\ stale' \subseteq File /\ index' = index /\ head' = head
      /\ \A f \in File : disk'[f] = IF f \in landed THEN Wrote(f, pieces[f]) ELSE disk[f]
  BY <1>4, <1>5, <1>7, WriteEffect
<1>9. ASSUME NEW f \in Log
      PROVE  /\ Begins(disk[f], disk'[f])
             /\ Has(disk'[f], {"broken"}) => Has(disk[f], {"broken"})
  <2>1. f \in File
    BY GitStoreAssumption
  <2>2. CASE f \in landed
    BY <1>5, <1>6, <1>8, <2>1, <2>2, WroteContent
  <2>3. CASE f \notin landed
    <3>1. disk'[f] = disk[f] /\ Len(disk[f]) \in Nat
      BY <1>8, <2>1, <2>3, LenProperties DEF StoreTypeOK, Content
    <3> QED
      BY <3>1 DEF Begins
  <2> QED
    BY <2>2, <2>3
<1> QED
  BY <1>8, <1>9

LEMMA StageEffect ==
  ASSUME StoreTypeOK, NEW paths \in SUBSET File, NEW message \in Entity \union {Sweep},
         NEW queue \in Seq(Entity), Stage(paths, message, queue)
  PROVE  /\ disk' \in [File -> Content] /\ index' \in [File -> Content] /\ stale' \subseteq File
         /\ \A f \in paths : disk'[f] = Repair(f) /\ index'[f] = Repair(f)
         /\ \A f \in File \ paths : disk'[f] = disk[f] /\ index'[f] = index[f]
         /\ worker'.pc \in {"unstage", "commit"} /\ worker'.message = message
         /\ worker'.unrepaired = {f \in paths : Has(disk[f], {"broken"})}
         /\ worker'.pc = "commit" => worker'.unrepaired = {}
         /\ worker'.queue = queue
         /\ worker' \in [pc : {"idle", "drain", "unstage", "commit", "push"},
                        queue : Seq(Entity), message : Entity \union {Sweep},
                        unrepaired : SUBSET File]
<1> DEFINE left == {f \in paths : Has(disk[f], {"broken"})}
<1>1. \A f \in File : Repair(f) \in Content
  BY RepairContent
<1>2. disk' = [f \in File |-> IF f \in paths THEN Repair(f) ELSE disk[f]]
  BY DEF Stage
<1>3. disk' \in [File -> Content]
  BY <1>1, <1>2 DEF StoreTypeOK
<1>4. index' = [f \in File |-> IF f \in paths THEN disk'[f] ELSE index[f]]
  BY DEF Stage
<1>5. index' \in [File -> Content]
  BY <1>3, <1>4 DEF StoreTypeOK
<1>6. stale' \subseteq File
  BY DEF Stage, StoreTypeOK
<1>7. /\ worker' = [pc |-> IF left = {} THEN "commit" ELSE "unstage",
                    queue |-> queue, message |-> message, unrepaired |-> left]
      /\ left \in SUBSET File
  BY DEF Stage
<1> HIDE DEF left
<1>8. /\ worker'.pc = IF left = {} THEN "commit" ELSE "unstage"
      /\ worker'.message = message /\ worker'.unrepaired = left /\ worker'.queue = queue
  BY <1>7
<1>9. worker' \in [pc : {"idle", "drain", "unstage", "commit", "push"},
                  queue : Seq(Entity), message : Entity \union {Sweep},
                  unrepaired : SUBSET File]
  BY <1>7
<1> QED
  BY <1>2, <1>3, <1>4, <1>5, <1>6, <1>8, <1>9 DEF left

-----------------------------------------------------------------------------
(* Types.                                                                  *)

WorkerRecord ==
  [pc : {"idle", "drain", "unstage", "commit", "push"}, queue : Seq(Entity),
   message : Entity \union {Sweep}, unrepaired : SUBSET File]

LEMMA IdleType == Idle \in WorkerRecord
  BY DEF Idle, WorkerRecord

LEMMA WritesTyped ==
  ASSUME StoreTypeOK, NEW e \in Entity, WithPending(e) \/ FailedWrite(e)
  PROVE  StoreTypeOK'
<1>1. CASE WithPending(e)
  <2>1. PICK landed \in SUBSET {f \in File : Owner[f] = e} \ {{}} :
           Write(landed, [f \in landed |-> "acked"])
    BY <1>1 DEF WithPending
  <2>2. /\ disk' \in [File -> Content] /\ writes' \in [File -> 0..MaxWrites]
        /\ stale' \subseteq File /\ index' = index /\ head' = head
    BY <2>1, WriteEffect DEF Piece
  <2>3. pending' \in Seq(Entity)
    BY <1>1, AppendProperties DEF WithPending, StoreTypeOK
  <2> QED
    BY <1>1, <2>2, <2>3 DEF WithPending, StoreTypeOK, historyVars
<1>2. CASE FailedWrite(e)
  <2>1. /\ disk' \in [File -> Content] /\ writes' \in [File -> 0..MaxWrites]
        /\ stale' \subseteq File /\ index' = index /\ head' = head
    BY <1>2, StoppedEffect DEF FailedWrite
  <2>2. faults' \in 0..MaxFaults
    BY <1>2, GitStoreAssumption DEF FailedWrite, Fault, StoreTypeOK
  <2> QED
    BY <1>2, <2>1, <2>2 DEF FailedWrite, StoreTypeOK, historyVars
<1> QED
  BY <1>1, <1>2

\* The files of one queue entry, or those of the sweep.
LEMMA Staged ==
  ASSUME StoreTypeOK, CommitNextPending \/ SweepOrphans
  PROVE  \/ /\ worker' = [worker EXCEPT !.pc = "push"] /\ UNCHANGED <<disk, index, stale>>
            /\ worker.pc = "drain"
         \/ \E paths \in SUBSET File, message \in Entity \union {Sweep}, queue \in Seq(Entity) :
               /\ Stage(paths, message, queue)
               /\ worker.pc = "drain"
               /\ message # Sweep => paths \subseteq Under[message]
<1>1. CASE CommitNextPending
  <2>1. worker.queue \in Seq(Entity) /\ worker.queue # << >>
    BY <1>1 DEF CommitNextPending, StoreTypeOK
  <2>2. Head(worker.queue) \in Entity /\ Tail(worker.queue) \in Seq(Entity)
    BY <2>1, HeadTailProperties
  <2>3. Under[Head(worker.queue)] \in SUBSET File
    BY <2>2, GitStoreAssumption
  <2> QED
    BY <1>1, <2>2, <2>3 DEF CommitNextPending
<1>2. CASE SweepOrphans
  <2>1. {f \in stale : Dirty(f)} \in SUBSET File /\ << >> \in Seq(Entity)
    BY DEF StoreTypeOK
  <2> QED
    BY <1>2, <2>1 DEF SweepOrphans
<1> QED
  BY <1>1, <1>2

LEMMA StagingTyped ==
  ASSUME StoreTypeOK, CommitNextPending \/ SweepOrphans
  PROVE  StoreTypeOK'
<1>1. UNCHANGED <<head, writes, pending, historyVars, faults>>
  BY DEF CommitNextPending, SweepOrphans
<1>2. CASE worker' = [worker EXCEPT !.pc = "push"] /\ UNCHANGED <<disk, index, stale>>
  <2>1. worker' \in WorkerRecord
    BY <1>2 DEF StoreTypeOK, WorkerRecord
  <2> QED
    BY <1>1, <1>2, <2>1 DEF StoreTypeOK, historyVars, WorkerRecord
<1>3. ASSUME NEW paths \in SUBSET File, NEW message \in Entity \union {Sweep},
             NEW queue \in Seq(Entity), Stage(paths, message, queue)
      PROVE  StoreTypeOK'
  <2>1. /\ disk' \in [File -> Content] /\ index' \in [File -> Content] /\ stale' \subseteq File
        /\ worker' \in WorkerRecord
    BY <1>3, StageEffect DEF WorkerRecord
  <2> QED
    BY <1>1, <2>1 DEF StoreTypeOK, historyVars, WorkerRecord
<1> QED
  BY <1>2, <1>3, Staged

LEMMA TickTyped ==
  ASSUME StoreTypeOK, Tick \/ Unstage \/ Commit \/ Push \/ GitFails
  PROVE  StoreTypeOK'
<1>1. Idle \in WorkerRecord /\ worker \in WorkerRecord /\ Len(commits) \in Nat
  BY IdleType, LenProperties DEF StoreTypeOK, WorkerRecord
<1>2. CASE Tick
  <2>0. worker' = [pc |-> "drain", queue |-> pending, message |-> Sweep, unrepaired |-> {}]
    BY Zenon, <1>2 DEF Tick, Idle
  <2>1. worker' \in WorkerRecord /\ pending' \in Seq(Entity)
    BY <1>2, <2>0 DEF Tick, StoreTypeOK, WorkerRecord
  <2> QED
    BY <1>2, <2>1 DEF Tick, StoreTypeOK, treeVars, historyVars, WorkerRecord
<1>3. CASE Unstage
  <2>1. worker' \in WorkerRecord /\ index' \in [File -> Content]
    BY <1>1, <1>3 DEF Unstage, StoreTypeOK, WorkerRecord
  <2> QED
    BY <1>3, <2>1 DEF Unstage, StoreTypeOK, historyVars, WorkerRecord
<1>4. CASE Commit
  <2> DEFINE new == [message |-> worker.message, changed |-> {f \in File : index[f] # head[f]}]
  <2>1. worker' \in WorkerRecord
    BY <1>1, <1>4 DEF Commit, WorkerRecord
  <2>2. new \in [message : Entity \union {Sweep}, changed : SUBSET File]
    BY <1>1 DEF WorkerRecord
  <2>3. commits' = commits \/ commits' = Append(commits, new)
    BY <1>4 DEF Commit
  <2> DEFINE Made == [message : Entity \union {Sweep}, changed : SUBSET File]
  <2>4. /\ commits' \in Seq(Made)
        /\ Len(commits') \in {Len(commits), Len(commits) + 1}
    <3>1. commits \in Seq(Made) /\ new \in Made
      BY <2>2 DEF StoreTypeOK
    <3> HIDE DEF new, Made
    <3> QED
      BY <2>3, <3>1, AppendProperties
  <2>5. origin' \in 0..Len(commits') /\ upstream' \in 0..origin'
    BY <1>1, <1>4, <2>4 DEF Commit, StoreTypeOK
  <2> QED
    BY <1>4, <2>1, <2>4, <2>5 DEF Commit, StoreTypeOK, WorkerRecord
<1>5. CASE Push
  <2>1. origin' \in 0..Len(commits') /\ upstream' \in 0..origin'
    BY <1>1, <1>5 DEF Push, StoreTypeOK
  <2> QED
    BY <1>1, <1>5, <2>1 DEF Push, StoreTypeOK, treeVars, WorkerRecord
<1>6. CASE GitFails
  <2>1. origin' \in 0..Len(commits') /\ upstream' \in 0..origin'
    BY <1>1, <1>6 DEF GitFails, StoreTypeOK
  <2>2. faults' \in 0..MaxFaults
    BY <1>6, GitStoreAssumption DEF GitFails, Fault, StoreTypeOK
  <2> QED
    BY <1>1, <1>6, <2>1, <2>2 DEF GitFails, StoreTypeOK, treeVars, WorkerRecord
<1> QED
  BY <1>2, <1>3, <1>4, <1>5, <1>6

LEMMA CrashTyped ==
  ASSUME StoreTypeOK, Crash
  PROVE  StoreTypeOK'
<1>1. faults' \in 0..MaxFaults
  BY GitStoreAssumption DEF Crash, Fault, StoreTypeOK
<1>2. worker' \in WorkerRecord /\ pending' \in Seq(Entity)
  BY IdleType DEF Crash
<1>3. CASE UNCHANGED treeVars
  BY <1>1, <1>2, <1>3 DEF Crash, StoreTypeOK, treeVars, historyVars, WorkerRecord
<1>4. ASSUME NEW e \in Entity, Stopped(e) PROVE StoreTypeOK'
  <2>1. /\ disk' \in [File -> Content] /\ writes' \in [File -> 0..MaxWrites]
        /\ stale' \subseteq File /\ index' = index /\ head' = head
    BY <1>4, StoppedEffect
  <2> QED
    BY <1>1, <1>2, <2>1 DEF Crash, StoreTypeOK, historyVars, WorkerRecord
<1> QED
  BY <1>3, <1>4 DEF Crash

LEMMA StoreStep ==
  ASSUME StoreTypeOK, [Next]_vars
  PROVE  StoreTypeOK'
<1>1. ASSUME NEW f \in File, Elapse(f) PROVE StoreTypeOK'
  BY <1>1 DEF Elapse, StoreTypeOK, historyVars
<1>2. CASE UNCHANGED vars
  BY <1>2 DEF vars, StoreTypeOK
<1> QED
  BY <1>1, <1>2, WritesTyped, StagingTyped, TickTyped, CrashTyped DEF Next, WorkerStep

\* Whatever fails and whenever the server dies, the data repository has a
\* prefix of the commits and the tracking ref never claims more than it has.
THEOREM StoreTypeCorrect == Spec => []StoreTypeOK
<1>1. Init => StoreTypeOK
  <2>1. SUFFICES ASSUME Init PROVE StoreTypeOK
    OBVIOUS
  <2>2. << >> \in Content /\ Idle \in WorkerRecord
    BY IdleType DEF Content
  <2>3. /\ disk \in [File -> Content] /\ index \in [File -> Content] /\ head \in [File -> Content]
        /\ writes \in [File -> 0..MaxWrites] /\ faults \in 0..MaxFaults
    BY <2>1, <2>2, GitStoreAssumption DEF Init
  <2>4. /\ commits \in Seq([message : Entity \union {Sweep}, changed : SUBSET File])
        /\ Len(commits) = 0
    BY <2>1 DEF Init
  <2> QED
    BY <2>1, <2>2, <2>3, <2>4 DEF Init, StoreTypeOK, WorkerRecord
<1> QED
  BY <1>1, StoreStep, PTL DEF Spec

-----------------------------------------------------------------------------
(* Committed log entries stay: of a log, HEAD has a beginning of what the  *)
(* index has, the index a beginning of what is on disk, and it never has a *)
(* torn entry, so that no repair reaches what has been staged.             *)

LogsGrow ==
  /\ \A f \in Log : /\ Begins(head[f], index[f]) /\ Begins(index[f], disk[f])
                    /\ ~ Has(index[f], {"torn"}) /\ ~ Has(disk[f], {"broken"})
  /\ worker.unrepaired \cap Log = {}

LEMMA BeginsTrans ==
  ASSUME NEW s \in Content, NEW t \in Content, NEW u \in Content, Begins(s, t), Begins(t, u)
  PROVE  Begins(s, u)
<1>1. Len(s) \in Nat /\ Len(t) \in Nat /\ Len(u) \in Nat
  BY LenProperties DEF Content
<1> QED
  BY <1>1 DEF Begins

LEMMA LogContents ==
  ASSUME StoreTypeOK, NEW f \in Log
  PROVE  /\ f \in File /\ disk[f] \in Content /\ index[f] \in Content /\ head[f] \in Content
         /\ Begins(disk[f], disk[f]) /\ Begins(index[f], index[f]) /\ Begins(head[f], head[f])
<1>1. f \in File /\ disk[f] \in Content /\ index[f] \in Content /\ head[f] \in Content
  BY GitStoreAssumption DEF StoreTypeOK
<1>2. Len(disk[f]) \in Nat /\ Len(index[f]) \in Nat /\ Len(head[f]) \in Nat
  BY <1>1, LenProperties DEF Content
<1> QED
  BY <1>1, <1>2 DEF Begins

\* Writes, complete or not, only add to the end of a log.
LEMMA WritesGrow ==
  ASSUME StoreTypeOK, LogsGrow, UNCHANGED <<index, head>>, disk' \in [File -> Content],
         worker'.unrepaired \cap Log = {},
         \A f \in Log : /\ Begins(disk[f], disk'[f])
                        /\ Has(disk'[f], {"broken"}) => Has(disk[f], {"broken"})
  PROVE  LogsGrow'
<1>1. ASSUME NEW f \in Log
      PROVE  /\ Begins(head[f], index[f]) /\ Begins(index[f], disk'[f])
             /\ ~ Has(index[f], {"torn"}) /\ ~ Has(disk'[f], {"broken"})
  <2>1. disk'[f] \in Content /\ disk[f] \in Content /\ index[f] \in Content
    BY <1>1, LogContents
  <2>2. /\ Begins(head[f], index[f]) /\ Begins(index[f], disk[f])
        /\ ~ Has(index[f], {"torn"}) /\ ~ Has(disk[f], {"broken"})
    BY Zenon, <1>1 DEF LogsGrow
  <2>3. Begins(disk[f], disk'[f]) /\ (Has(disk'[f], {"broken"}) => Has(disk[f], {"broken"}))
    BY Zenon, <1>1
  <2>4. Begins(index[f], disk'[f])
    BY <2>1, <2>2, <2>3, BeginsTrans
  <2> QED
    BY <2>2, <2>3, <2>4
<1> QED
  BY <1>1 DEF LogsGrow, Has, Begins

LEMMA PendingGrows ==
  ASSUME StoreTypeOK, LogsGrow, NEW e \in Entity, WithPending(e)
  PROVE  LogsGrow'
<1>1. PICK landed \in SUBSET {f \in File : Owner[f] = e} \ {{}} :
         Write(landed, [f \in landed |-> "acked"])
  BY DEF WithPending
<1>2. /\ disk' \in [File -> Content] /\ index' = index /\ head' = head
      /\ \A f \in File : disk'[f] = IF f \in landed THEN Wrote(f, "acked") ELSE disk[f]
  BY <1>1, WriteEffect DEF Piece
<1>3. \A f \in Log : /\ Begins(disk[f], disk'[f])
                     /\ Has(disk'[f], {"broken"}) => Has(disk[f], {"broken"})
  BY <1>2, LogContents, WroteContent DEF Piece
<1>4. worker'.unrepaired \cap Log = {}
  BY DEF WithPending, LogsGrow
<1> QED
  BY <1>2, <1>3, <1>4, WritesGrow

LEMMA StoppedGrows ==
  ASSUME StoreTypeOK, LogsGrow, NEW e \in Entity, Stopped(e), worker'.unrepaired \cap Log = {}
  PROVE  LogsGrow'
BY StoppedEffect, WritesGrow

LEMMA StagingGrows ==
  ASSUME StoreTypeOK, LogsGrow, UNCHANGED head, NEW paths \in SUBSET File,
         NEW message \in Entity \union {Sweep}, NEW queue \in Seq(Entity),
         Stage(paths, message, queue)
  PROVE  LogsGrow'
<1>1. /\ \A f \in paths : disk'[f] = Repair(f) /\ index'[f] = Repair(f)
      /\ \A f \in File \ paths : disk'[f] = disk[f] /\ index'[f] = index[f]
      /\ worker'.unrepaired = {f \in paths : Has(disk[f], {"broken"})}
  BY StageEffect
<1>2. ASSUME NEW f \in Log
      PROVE  /\ Begins(head[f], index'[f]) /\ Begins(index'[f], disk'[f])
             /\ ~ Has(index'[f], {"torn"}) /\ ~ Has(disk'[f], {"broken"})
  <2>1. CASE f \notin paths
    BY <1>1, <2>1, LogContents DEF LogsGrow
  <2>2. CASE f \in paths
    <3>1. /\ Repair(f) \in Content /\ ~ Has(Repair(f), {"torn"}) /\ ~ Has(Repair(f), {"broken"})
          /\ Begins(index[f], Repair(f))
      BY LogContents, RepairContent DEF LogsGrow
    <3>2. Begins(head[f], Repair(f))
      BY <3>1, LogContents, BeginsTrans DEF LogsGrow
    <3>3. Begins(Repair(f), Repair(f))
      BY <3>1, LenProperties DEF Begins, Content
    <3> QED
      BY <1>1, <2>2, <3>1, <3>2, <3>3
  <2> QED
    BY <2>1, <2>2
<1>3. worker'.unrepaired \cap Log = {}
  BY <1>1 DEF LogsGrow
<1> QED
  BY <1>2, <1>3 DEF LogsGrow, Has, Begins

LEMMA GrowStep ==
  ASSUME StoreTypeOK, LogsGrow, [Next]_vars
  PROVE  LogsGrow'
<1>1. \A e \in Entity : WithPending(e) => LogsGrow'
  BY PendingGrows
<1>2. ASSUME NEW e \in Entity, FailedWrite(e) PROVE LogsGrow'
  BY <1>2, StoppedGrows DEF FailedWrite, LogsGrow
<1>3. CASE CommitNextPending \/ SweepOrphans
  <2>1. UNCHANGED head
    BY <1>3 DEF CommitNextPending, SweepOrphans
  <2>2. CASE worker' = [worker EXCEPT !.pc = "push"] /\ UNCHANGED <<disk, index, stale>>
    <3>1. worker'.unrepaired = worker.unrepaired
      BY <2>2 DEF StoreTypeOK
    <3> QED
      BY <2>1, <2>2, <3>1 DEF LogsGrow, Has, Begins
  <2> QED
    BY <1>3, <2>1, <2>2, Staged, StagingGrows
<1>4. CASE Unstage
  <2>1. \A f \in Log : index'[f] = index[f]
    BY <1>4, LogContents DEF Unstage, LogsGrow
  <2>2. worker'.unrepaired = {}
    BY <1>4 DEF Unstage, StoreTypeOK
  <2> QED
    BY <1>4, <2>1, <2>2 DEF Unstage, LogsGrow, Has, Begins
<1>5. CASE Commit
  <2>1. worker'.unrepaired = worker.unrepaired
    BY <1>5 DEF Commit, StoreTypeOK
  <2>2. \A f \in Log : Begins(head'[f], index'[f])
    BY <1>5, LogContents DEF Commit, Begins
  <2> QED
    BY <1>5, <2>1, <2>2 DEF Commit, LogsGrow, Has, Begins
<1>6. CASE Tick \/ Push \/ GitFails
  <2>1. worker'.unrepaired = {}
    <3>1. Idle.unrepaired = {} /\ [Idle EXCEPT !.pc = "drain", !.queue = pending].unrepaired = {}
      BY Zenon DEF Idle
    <3> QED
      BY Zenon, <1>6, <3>1 DEF Tick, Push, GitFails
  <2> QED
    BY <1>6, <2>1 DEF Tick, Push, GitFails, treeVars, LogsGrow, Has, Begins
<1>7. CASE Crash
  <2>1. worker'.unrepaired = {}
    BY <1>7 DEF Crash, Idle
  <2>2. CASE UNCHANGED treeVars
    BY <2>1, <2>2 DEF treeVars, LogsGrow, Has, Begins
  <2> QED
    BY <1>7, <2>1, <2>2, StoppedGrows DEF Crash
<1>8. ASSUME NEW f \in File, Elapse(f) PROVE LogsGrow'
  BY <1>8 DEF Elapse, LogsGrow, Has, Begins
<1>9. CASE UNCHANGED vars
  BY <1>9 DEF vars, LogsGrow, Has, Begins
<1> QED
  BY <1>1, <1>2, <1>3, <1>4, <1>5, <1>6, <1>7, <1>8, <1>9 DEF Next, WorkerStep

\* Only a commit moves HEAD, to the index, which begins with what HEAD has.
LEMMA HeadGrows ==
  ASSUME StoreTypeOK, LogsGrow, [Next]_vars, NEW f \in Log
  PROVE  Begins(head[f], head'[f])
<1>1. CASE UNCHANGED head
  BY <1>1, LogContents
<1>2. CASE Commit
  BY <1>2 DEF Commit, LogsGrow
<1>3. UNCHANGED head \/ Commit
  <2>1. ASSUME NEW e \in Entity, WithPending(e) \/ FailedWrite(e) PROVE UNCHANGED head
    BY <2>1 DEF WithPending, FailedWrite, Stopped, Write
  <2>2. Tick \/ CommitNextPending \/ SweepOrphans \/ Unstage \/ Push \/ GitFails => UNCHANGED head
    BY DEF Tick, CommitNextPending, SweepOrphans, Unstage, Push, GitFails, treeVars
  <2>3. Crash => UNCHANGED head
    BY DEF Crash, Stopped, Write, treeVars
  <2>4. \A g \in File : Elapse(g) => UNCHANGED head
    BY DEF Elapse
  <2>5. UNCHANGED vars => UNCHANGED head
    BY DEF vars
  <2> QED
    BY <2>1, <2>2, <2>3, <2>4, <2>5 DEF Next, WorkerStep
<1> QED
  BY <1>1, <1>2, <1>3

\* Whatever is written, repaired, swept or interrupted, and wherever the server
\* dies or git fails: an entry of a log that is in HEAD stays where it is.
THEOREM EntriesKept == Spec => HistoryKeepsEntries
<1>1. Init => LogsGrow
  <2>1. SUFFICES ASSUME Init PROVE LogsGrow
    OBVIOUS
  <2>2. \A f \in Log : disk[f] = << >> /\ index[f] = << >> /\ head[f] = << >>
    BY <2>1, GitStoreAssumption DEF Init
  <2>3. worker.unrepaired = {}
    BY <2>1 DEF Init, Idle
  <2> QED
    BY <2>2, <2>3 DEF LogsGrow, Has, Begins
<1>2. StoreTypeOK /\ LogsGrow /\ [Next]_vars =>
        [\A f \in Log : \A i \in 1..Len(head[f]) :
            head[f][i].piece = "acked" =>
               i <= Len(head'[f]) /\ head'[f][i] = head[f][i]]_vars
  <2>1. SUFFICES ASSUME StoreTypeOK, LogsGrow, [Next]_vars, NEW f \in Log,
                        NEW i \in 1..Len(head[f])
                 PROVE  i <= Len(head'[f]) /\ head'[f][i] = head[f][i]
    OBVIOUS
  <2>2. Begins(head[f], head'[f]) /\ head[f] \in Content /\ head'[f] \in Content
    <3>1. StoreTypeOK'
      BY <2>1, StoreStep
    <3> QED
      BY <2>1, <3>1, HeadGrows, LogContents, GitStoreAssumption DEF StoreTypeOK
  <2>3. Len(head[f]) \in Nat /\ Len(head'[f]) \in Nat
    BY <2>2, LenProperties DEF Content
  <2> QED
    BY <2>2, <2>3 DEF Begins
<1> QED
  BY <1>1, <1>2, GrowStep, StoreTypeCorrect, PTL DEF Spec, HistoryKeepsEntries

-----------------------------------------------------------------------------
(* What is committed, when ticks are never cut short: nothing is staged    *)
(* but by the entry that is being committed, and what was staged and does  *)
(* not parse is what is to be reset.                                       *)

Uncut == Faults \subseteq {"write"}

StagedWithinDir ==
  worker.pc \in {"unstage", "commit"} /\ worker.message # Sweep =>
     \A f \in File : index[f] # head[f] => f \in Under[worker.message]

TickInv ==
  /\ worker.pc \in {"idle", "drain", "push"} => index = head
  /\ StagedWithinDir
  /\ CommitWithinDir
  /\ HistoryParses
  /\ \A f \in File : Parses(index[f]) \/ (worker.pc = "unstage" /\ f \in worker.unrepaired)

LEMMA SameStaging ==
  ASSUME StoreTypeOK, TickInv, UNCHANGED <<index, head, commits>>,
         worker'.pc \in {"idle", "drain", "push"}, worker.pc \in {"idle", "drain", "push"}
  PROVE  TickInv'
BY DEF TickInv, StagedWithinDir, CommitWithinDir, HistoryParses, Parses, Has

LEMMA SameWorker ==
  ASSUME StoreTypeOK, TickInv, UNCHANGED <<index, head, commits, worker>>
  PROVE  TickInv'
BY DEF TickInv, StagedWithinDir, CommitWithinDir, HistoryParses, Parses, Has

LEMMA StagingWithinDir ==
  ASSUME StoreTypeOK, TickInv, worker.pc = "drain", UNCHANGED <<head, commits>>,
         NEW paths \in SUBSET File, NEW message \in Entity \union {Sweep}, NEW queue \in Seq(Entity),
         Stage(paths, message, queue), message # Sweep => paths \subseteq Under[message]
  PROVE  TickInv'
<1>1. /\ \A f \in paths : index'[f] = Repair(f)
      /\ \A f \in File \ paths : index'[f] = index[f]
      /\ worker'.pc \in {"unstage", "commit"} /\ worker'.message = message
      /\ worker'.unrepaired = {f \in paths : Has(disk[f], {"broken"})}
      /\ worker'.pc = "commit" => worker'.unrepaired = {}
  BY StageEffect
<1>2. index = head
  BY DEF TickInv
<1>3. StagedWithinDir'
  BY <1>1, <1>2 DEF StagedWithinDir
<1>4. ASSUME NEW f \in File
      PROVE  Parses(index'[f]) \/ (worker'.pc = "unstage" /\ f \in worker'.unrepaired)
  <2>1. CASE f \notin paths
    BY <1>1, <1>2, <2>1 DEF TickInv, HistoryParses
  <2>2. CASE f \in paths
    <3>1. ~ Has(Repair(f), {"torn"}) /\ (Has(Repair(f), {"broken"}) => Has(disk[f], {"broken"}))
      BY RepairContent
    <3>2. Parses(Repair(f)) \/ Has(Repair(f), {"broken"})
      BY <3>1 DEF Parses, Has
    <3>3. Has(Repair(f), {"broken"}) => worker'.pc = "unstage" /\ f \in worker'.unrepaired
      BY <1>1, <2>2, <3>1
    <3> QED
      BY <1>1, <2>2, <3>2, <3>3
  <2> QED
    BY <2>1, <2>2
<1>5. CommitWithinDir' /\ HistoryParses'
  BY DEF TickInv, CommitWithinDir, HistoryParses, Parses, Has
<1> QED
  BY <1>1, <1>3, <1>4, <1>5 DEF TickInv, Parses, Has

LEMMA CommitKeepsDirs ==
  ASSUME StoreTypeOK, TickInv, Commit
  PROVE  TickInv'
<1> DEFINE new == [message |-> worker.message, changed |-> {f \in File : index[f] # head[f]}]
           Made == [message : Entity \union {Sweep}, changed : SUBSET File]
<1>1. /\ worker.pc = "commit" /\ head' = index /\ index' = index
      /\ commits' = commits \/ commits' = Append(commits, new)
  BY DEF Commit
<1>2. worker'.pc \in {"push", "drain"}
  BY DEF Commit, StoreTypeOK
<1>3. HistoryParses'
  BY <1>1 DEF TickInv, HistoryParses, Parses, Has
<1>4. new.message # Sweep => new.changed \subseteq Under[new.message]
  BY <1>1 DEF TickInv, StagedWithinDir
<1>5. commits \in Seq(Made) /\ new \in Made
  BY DEF StoreTypeOK
<1>6. CommitWithinDir'
  <2>1. CASE commits' = commits
    BY <2>1 DEF TickInv, CommitWithinDir
  <2>2. CASE commits' = Append(commits, new)
    <3> HIDE DEF new, Made
    <3>1. /\ Len(commits) \in Nat
          /\ Len(commits') = Len(commits) + 1
          /\ \A i \in 1..Len(commits) : commits'[i] = commits[i]
          /\ commits'[Len(commits) + 1] = new
      BY <1>5, <2>2, AppendProperties, LenProperties
    <3>2. \A i \in 1..Len(commits') : i = Len(commits) + 1 \/ i \in 1..Len(commits)
      BY <3>1
    <3> QED
      BY <1>4, <3>1, <3>2 DEF TickInv, CommitWithinDir
  <2> QED
    BY <1>1, <2>1, <2>2
<1> QED
  BY <1>1, <1>2, <1>3, <1>6 DEF TickInv, StagedWithinDir, HistoryParses, Parses, Has

LEMMA UncutStep ==
  ASSUME Uncut, StoreTypeOK, TickInv, [Next]_vars
  PROVE  TickInv'
<1>1. ASSUME NEW e \in Entity, WithPending(e) \/ FailedWrite(e) PROVE TickInv'
  <2>1. UNCHANGED <<index, head, commits, worker>>
    BY <1>1 DEF WithPending, FailedWrite, Stopped, Write, historyVars
  <2> QED
    BY <2>1, SameWorker
<1>2. CASE CommitNextPending \/ SweepOrphans
  <2>1. UNCHANGED <<head, commits>>
    BY <1>2 DEF CommitNextPending, SweepOrphans, historyVars
  <2>2. CASE worker.pc = "drain" /\ worker' = [worker EXCEPT !.pc = "push"] /\ UNCHANGED index
    <3>1. worker'.pc = "push"
      BY <2>2 DEF StoreTypeOK
    <3> QED
      BY <2>1, <2>2, <3>1, SameStaging
  <2> QED
    BY <1>2, <2>1, <2>2, Staged, StagingWithinDir
<1>3. CASE Unstage
  <2>1. /\ \A f \in File : index'[f] = IF f \in worker.unrepaired THEN head[f] ELSE index[f]
        /\ worker.pc = "unstage" /\ worker'.pc = "commit" /\ worker'.message = worker.message
        /\ UNCHANGED <<head, commits>>
    BY <1>3 DEF Unstage, StoreTypeOK, historyVars
  <2>2. StagedWithinDir'
    BY <2>1 DEF TickInv, StagedWithinDir
  <2>3. \A f \in File : Parses(index'[f])
    BY <2>1 DEF TickInv, HistoryParses
  <2>4. CommitWithinDir' /\ HistoryParses'
    BY <2>1 DEF TickInv, CommitWithinDir, HistoryParses, Parses, Has
  <2> QED
    BY <2>1, <2>2, <2>3, <2>4 DEF TickInv, Parses, Has
<1>4. CASE Tick \/ Push
  <2>1. UNCHANGED <<index, head, commits>> /\ worker.pc \in {"idle", "push"}
    BY <1>4 DEF Tick, Push, treeVars, historyVars
  <2>2. worker'.pc \in {"idle", "drain"}
    <3>1. Idle.pc = "idle" /\ [Idle EXCEPT !.pc = "drain", !.queue = pending].pc = "drain"
      BY Zenon DEF Idle
    <3> QED
      BY Zenon, <1>4, <3>1 DEF Tick, Push
  <2> QED
    BY <2>1, <2>2, SameStaging
<1>5. ~ GitFails /\ ~ Crash
  BY DEF GitFails, Crash, Fault, Uncut
<1>6. ASSUME NEW f \in File, Elapse(f) PROVE TickInv'
  BY <1>6, SameWorker DEF Elapse, historyVars
<1>7. CASE UNCHANGED vars
  BY <1>7, SameWorker DEF vars
<1> QED
  BY <1>1, <1>2, <1>3, <1>4, <1>5, <1>6, <1>7, CommitKeepsDirs DEF Next, WorkerStep

LEMMA TickInvariant ==
  ASSUME Uncut
  PROVE  Spec => []TickInv
<1>1. Init => TickInv
  <2>1. SUFFICES ASSUME Init PROVE TickInv
    OBVIOUS
  <2>2. Idle.pc = "idle"
    BY DEF Idle
  <2> QED
    BY <2>1, <2>2 DEF Init, TickInv, StagedWithinDir, CommitWithinDir, HistoryParses, Parses, Has
<1>2. StoreTypeOK /\ TickInv /\ [Next]_vars => TickInv'
  BY UncutStep
<1> QED
  BY <1>1, <1>2, StoreTypeCorrect, PTL DEF Spec

\* While ticks run to their end, whatever writes fail half-way: a file that does
\* not parse is repaired or reset before it is committed.
THEOREM OnlyParsedCommitted ==
  ASSUME Uncut
  PROVE  Spec => []HistoryParses
<1>1. TickInv => HistoryParses
  BY DEF TickInv
<1> QED
  BY <1>1, TickInvariant, PTL

\* ... and a commit stays within the directory it is named for.
THEOREM CommitsWithinDir ==
  ASSUME Uncut
  PROVE  Spec => []CommitWithinDir
<1>1. TickInv => CommitWithinDir
  BY DEF TickInv
<1> QED
  BY <1>1, TickInvariant, PTL
=============================================================================
