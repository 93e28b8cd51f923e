-------------------------- MODULE MCExecutionControl --------------------------
(* ExecutionControl on small instances, from the state FinalizePlan leaves. *)
EXTENDS ExecutionControl

MCAttempt == ExecutionId
MCPullRequest == 1..MaxPR
MCOutput == AttemptOutput

Finalized(from, to, trigger) ==
    [from |-> from, to |-> to, trigger |-> trigger, review |-> 0, execution |-> 0]

\* Requirements and plan are final; no attempt has been made.
MCInit ==
    /\ task = BareTask("implementation")
    /\ docs = {"context", "plan"}
    /\ transitions = <<Finalized("requirements", "planning", "finalize_requirements"),
                       Finalized("planning", "implementation", "finalize_plan")>>
    /\ executions = [n \in ExecutionId |-> NoExecution]
    /\ logs = {} /\ reviews = << >>
    /\ GitInit
    /\ start = [s \in Start |-> IdleStart]
    /\ busy = {} /\ push = IdlePush /\ cleaner = IdleCleaner

\* Nothing reads an entry of the transition log, only its length is bounded.
MCView == <<task, docs, Len(transitions), executions, logs, reviews, gitVars,
            start, busy, push, cleaner>>

MCSpec == MCInit /\ [][Next]_vars

MCFairSpec == MCSpec /\ \A s \in Start : WF_vars(StartContinues(s))
=============================================================================
