----------------------------- MODULE Lifecycle -----------------------------
(***************************************************************************)
(* What a task's stage promises, independently of the files it is kept in. *)
(*                                                                         *)
(* A stage moves only along the edges of the workflow, and it enters       *)
(* review, or leaves it by a verdict, only together with new evidence: a   *)
(* successful execution, or a verdict, that was not on record before.      *)
(* Evidence is never withdrawn.  TaskStore.tla is the implementation.      *)
(***************************************************************************)
CONSTANTS
    Executions, \* the ids an execution record may carry
    Reviews     \* the numbers a review record may carry

VARIABLES
    stage,      \* where the task stands
    successes,  \* the executions on record as successful
    verdicts    \* the review verdicts on record, <<number, decision>>

vars == <<stage, successes, verdicts>>

\* "absent": no task.yaml.  "": a task.yaml whose stage cannot be read.
Stages == {"absent", "", "requirements", "planning", "implementation",
           "review", "pr_review", "cleanup", "completed"}

Decisions == {"approved", "needs_changes", "rejected"}

\* The stage a verdict sends the task to.
VerdictStage ==
    [approved |-> "pr_review", needs_changes |-> "implementation", rejected |-> "requirements"]

\* The moves that need no evidence: a human finalizes, revises, or asserts.
HumanEdges ==
    {<<"requirements", "planning">>, <<"planning", "implementation">>,
     <<"planning", "requirements">>, <<"implementation", "planning">>,
     <<"review", "planning">>, <<"pr_review", "cleanup">>,
     <<"cleanup", "completed">>}

Init == stage = "absent" /\ successes = {} /\ verdicts = {}

\* A stop while task.yaml is written may leave it unreadable.
Reached(to) == stage' \in {to, stage, ""}

Create == stage = "absent" /\ Reached("requirements") /\ UNCHANGED <<successes, verdicts>>

Move ==
    /\ \E edge \in HumanEdges : stage = edge[1] /\ Reached(edge[2])
    /\ UNCHANGED <<successes, verdicts>>

Damage == stage # "absent" /\ stage' = "" /\ UNCHANGED <<successes, verdicts>>

Succeed(n) ==
    /\ stage = "implementation"
    /\ n \notin successes
    /\ successes' = successes \union {n}
    /\ Reached("review")
    /\ UNCHANGED verdicts

Judge(r, decision) ==
    /\ stage \in {"review", "pr_review"}
    /\ decision = "approved" => stage = "review"
    /\ \A v \in verdicts : v[1] # r
    /\ verdicts' = verdicts \union {<<r, decision>>}
    /\ Reached(VerdictStage[decision])
    /\ UNCHANGED successes

Next ==
    \/ Create
    \/ Move
    \/ Damage
    \/ \E n \in Executions : Succeed(n)
    \/ \E r \in Reviews, decision \in Decisions : Judge(r, decision)

Spec == Init /\ [][Next]_vars
=============================================================================
