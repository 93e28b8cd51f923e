------------------------------ MODULE Workspaces ------------------------------
(***************************************************************************)
(* The git side of a task's execution attempts (internal/agentrunner):     *)
(* attempt n has the worktree .worktrees/<repo>/<task>/exec-n on the       *)
(* branch task-exec/<task>/exec-n of the shared checkout; a pull request   *)
(* tracks one of those branches on origin.                                 *)
(*                                                                         *)
(* A branch is the set of attempts whose commits it holds beyond the       *)
(* default branch, so a branch is an ancestor of another when it is a      *)
(* subset of it.                                                           *)
(***************************************************************************)
EXTENDS Integers, Sequences, FiniteSets, Functions

CONSTANTS
    Attempt,  \* the numbers execution attempts can have
    MaxPR     \* bound on the pull requests opened for the task

ASSUME WorkspacesAssumption == Attempt \subseteq Nat \ {0} /\ MaxPR \in Nat

VARIABLES
    worktree, \* attempt -> "none", "clean" or "dirty" (uncommitted changes)
    branch,   \* the local branches, a function on the attempts that have one
    remote,   \* the branches on origin (as origin/<branch> shows them), likewise
    prs,      \* the pull requests GitHub holds, by number
    withdrawn \* auxiliary: the attempts whose commits a push of the empty branch
              \* name took off origin

gitVars == <<worktree, branch, remote, prs, withdrawn>>

\* The refs with ref n, new or old, at `tip`.
PointRef(refs, n, tip) ==
    [m \in DOMAIN refs \union {n} |-> IF m = n THEN tip ELSE refs[m]]

Main == {}  \* the default branch, the base of every first attempt

\* The ref an attempt forks from: another attempt's branch, or 0 for main.
ForkRef(fork) == IF fork = 0 THEN Main ELSE branch[fork]
ForkExists(fork) == fork = 0 \/ fork \in DOMAIN branch

\* `git worktree add -b`, after the stale branch of that name is deleted.
ResolveExecutionWorkspace(n, fork) ==
    /\ ForkExists(fork)
    /\ worktree[n] = "none"
    /\ branch' = PointRef(branch, n, ForkRef(fork))
    /\ worktree' = [worktree EXCEPT ![n] = "clean"]
    /\ UNCHANGED <<remote, prs, withdrawn>>

\* Any git step before it may fail (wrong default branch, missing fork, a
\* path in the way); `worktree add -b` may already have made the branch.
FailToResolveWorkspace(n, fork) ==
    /\ \/ UNCHANGED branch
       \/ worktree[n] = "none" /\ ForkExists(fork) /\ branch' = PointRef(branch, n, ForkRef(fork))
    /\ UNCHANGED <<worktree, remote, prs, withdrawn>>

\* What agents leave behind: the attempts in `committed` gain commits, those
\* in `touched` end with a clean or a dirty worktree.
AgentWork(touched, committed, dirty) ==
    /\ branch' = [n \in DOMAIN branch |->
                    IF n \in committed THEN branch[n] \union {n} ELSE branch[n]]
    /\ worktree' = [n \in Attempt |->
                     IF n \in touched THEN IF n \in dirty THEN "dirty" ELSE "clean"
                     ELSE worktree[n]]
    /\ UNCHANGED <<remote, prs, withdrawn>>

-----------------------------------------------------------------------------
IsOpen(pr) == prs[pr].state = "open"

\* The pull request continues: client.State did not say CLOSED.
Continues(pr) == pr # 0 /\ prs[pr].state # "closed"

\* Mutant: the push is forced.
FastForwardForced(new, target) == new \in DOMAIN branch

\* git takes a push without --force only as a fast-forward.
FastForward(new, target) ==
    /\ new \in DOMAIN branch
    /\ target \in DOMAIN remote => remote[target] \subseteq branch[new]

\* `git push origin new:head` onto the pull request's branch.
PushOntoPR(new, pr) ==
    /\ Continues(pr)
    /\ FastForward(new, prs[pr].head)
    /\ remote' = PointRef(remote, prs[pr].head, branch[new])
    /\ UNCHANGED <<worktree, branch, prs, withdrawn>>

\* An attempt that never had a branch has the name "": `git push origin :head`
\* deletes head on origin, which closes its open pull request.
PushNothingOntoPR(pr) ==
    /\ Continues(pr)
    /\ prs[pr].head \in DOMAIN remote
    /\ remote' = Restrict(remote, DOMAIN remote \ {prs[pr].head})
    /\ prs' = [prs EXCEPT ![pr].state = IF @ = "open" THEN "closed" ELSE @]
    /\ withdrawn' = withdrawn \union remote[prs[pr].head]
    /\ UNCHANGED <<worktree, branch>>

\* The first half of opening a pull request: push the branch under its name.
PushBranch(new) ==
    /\ FastForward(new, new)
    /\ remote' = PointRef(remote, new, branch[new])

\* GitHub refuses a second open pull request for the same head branch.
CreatePR(new) ==
    /\ \A pr \in 1..Len(prs) : ~ (prs[pr].head = new /\ IsOpen(pr))
    /\ Len(prs) < MaxPR
    /\ prs' = Append(prs, [head |-> new, state |-> "open"])

\* Somebody merges or closes a pull request on GitHub.
SettlePR(pr, state) ==
    /\ IsOpen(pr)
    /\ prs' = [prs EXCEPT ![pr].state = state]
    /\ UNCHANGED <<worktree, branch, remote, withdrawn>>

-----------------------------------------------------------------------------
\* cleanupOneWorktree: the worktree is gone, or the checks allow its removal.
AlreadyGone(n) == worktree[n] = "none"

\* RemoteBranchTip, as the set of at most one tip: none when the branch is not
\* on origin (0 is the head branch of no pull request).
RemoteBranchTip(pushed) == IF pushed \in DOMAIN remote THEN {remote[pushed]} ELSE {}

\* Mutant: whatever was pushed counts, its ancestry is not checked.
SafeToRemoveIfPushed(n, tips) == worktree[n] = "clean" /\ tips # {}

\* Nothing uncommitted, and the pass has a pushed tip that holds the branch.
SafeToRemove(n, tips) ==
    /\ worktree[n] = "clean"
    /\ \E tip \in tips : branch[n] \subseteq tip

\* The worktree goes and `git branch -D` deletes its branch; that it cannot
\* is only noted.
RemoveWorktree(n) ==
    /\ worktree' = [worktree EXCEPT ![n] = "none"]
    /\ UNCHANGED branch \/ branch' = Restrict(branch, DOMAIN branch \ {n})
    /\ UNCHANGED <<remote, prs, withdrawn>>

\* A human deletes a worktree's directory; its branch stays.
RemoveByHand(n) ==
    /\ worktree[n] # "none"
    /\ worktree' = [worktree EXCEPT ![n] = "none"]
    /\ UNCHANGED <<branch, remote, prs, withdrawn>>

GitInit ==
    /\ worktree = [n \in Attempt |-> "none"]
    /\ branch = << >>
    /\ remote = << >>
    /\ prs = << >>
    /\ withdrawn = {}

GitTypeOK ==
    /\ worktree \in [Attempt -> {"none", "clean", "dirty"}]
    /\ DOMAIN branch \subseteq Attempt
    /\ \A n \in DOMAIN branch : branch[n] \subseteq Attempt
    /\ DOMAIN remote \subseteq Attempt
    /\ \A n \in DOMAIN remote : remote[n] \subseteq Attempt
    /\ withdrawn \subseteq Attempt
    /\ prs \in Seq([head : Attempt, state : {"open", "closed", "merged"}])
=============================================================================
