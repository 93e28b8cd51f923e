------------------------------ MODULE ToolLoop ------------------------------
(***************************************************************************)
(* Engine.Run (internal/toolloop/engine.go): completions and tool calls in *)
(* turns, until the model answers, calls a stop tool or runs out of turns. *)
(* Of the messages the model keeps, per turn that streamed tool calls,     *)
(* these calls, the positions of those in the assistant message (none when *)
(* the turn ended the loop) and of those with a tool message.              *)
(***************************************************************************)
EXTENDS Naturals, FiniteSets, Sequences

CONSTANTS
    Call,           \* tool calls: [name, args], the ids are the positions
    Tool,           \* Config.Tools, the names
    StopTool,       \* Config.StopTools, the names
    ValidArgs,      \* the arguments that the stop tools' schemas accept
    MaxTurns,       \* Config.MaxTurns, 0 for no limit
    MaxToolCalls    \* Config.MaxToolCallsPerTurn

ASSUME ToolLoopAssumption ==
    /\ MaxTurns \in Nat
    /\ MaxToolCalls \in Nat \ {0}

VARIABLES
    loop,       \* where the loop is, or how it ended
    round,      \* the turn it is in
    batches,    \* what the messages hold of each turn
    running,    \* the position of the call being executed
    stopCalls   \* Result.StopCalls, their positions in the last turn's calls

loopVars == <<loop, round, batches, running, stopCalls>>

Ended == {"answered", "stopped", "exhausted", "failed"}

BatchRecord ==
    [calls : Seq(Call), kept : SUBSET Nat, answered : SUBSET Nat]

LoopTypeOK ==
    /\ loop \in {"complete", "call", "execute"} \cup Ended
    /\ round \in Nat \ {0}
    /\ batches \in Seq(BatchRecord)
    /\ running \in Nat
    /\ stopCalls \subseteq Nat

LoopInit ==
    /\ loop = "complete" /\ round = 1
    /\ batches = << >>
    /\ running = 0 /\ stopCalls = {}

-----------------------------------------------------------------------------
(* The calls of one completion, by their positions.                        *)

\* findCall: the first call of the name.
FindCall(calls, name) ==
    {i \in DOMAIN calls :
        calls[i].name = name /\ \A j \in 1..(i - 1) : calls[j].name # name}

FoundStopCalls(calls) == {i \in DOMAIN calls : \E name \in StopTool : i \in FindCall(calls, name)}

\* Mutant: whatever the model proposes is taken for valid.
InvalidNever(calls) == {}

InvalidStopCalls(calls) == {i \in FoundStopCalls(calls) : calls[i].args \notin ValidArgs}

DedupeCalls(calls) == {i \in DOMAIN calls : \A j \in 1..(i - 1) : calls[j] # calls[i]}

\* Mutant: one call too many.
CapCallsLate(positions) ==
    {i \in positions : Cardinality({j \in positions : j < i}) <= MaxToolCalls}

CapCalls(positions) ==
    {i \in positions : Cardinality({j \in positions : j < i}) < MaxToolCalls}

-----------------------------------------------------------------------------
(* The loop.                                                               *)

NextTurn ==
    \/ /\ MaxTurns > 0 /\ round >= MaxTurns
       /\ loop' = "exhausted" /\ UNCHANGED round
    \/ /\ MaxTurns = 0 \/ round < MaxTurns
       /\ loop' = "complete" /\ round' = round + 1

\* Mutant: a rejected proposal is fed back without its tool message.
RejectUnanswered(calls, i) ==
    /\ batches' = Append(batches, [calls |-> calls, kept |-> {i}, answered |-> {}])
    /\ NextTurn
    /\ UNCHANGED <<running, stopCalls>>

\* An invalid proposal (the last found, when there are several) is answered
\* with its error; the turn's other calls are forgotten.
Reject(calls, i) ==
    /\ batches' = Append(batches, [calls |-> calls, kept |-> {i}, answered |-> {i}])
    /\ NextTurn
    /\ UNCHANGED <<running, stopCalls>>

\* Mutant: a completion without calls is asked for again.
AnswerAgain == loop' = "complete"

Answer == loop' = "answered"

\* The completion ended well, with these calls.
Complete(calls) ==
    /\ loop = "complete"
    /\ \/ /\ calls = << >>
          /\ Answer
          /\ UNCHANGED <<round, batches, running, stopCalls>>
       \/ \E i \in InvalidStopCalls(calls) : Reject(calls, i)
       \/ /\ InvalidStopCalls(calls) = {} /\ FoundStopCalls(calls) # {}
          /\ loop' = "stopped"
          /\ stopCalls' = FoundStopCalls(calls)
          /\ batches' = Append(batches, [calls |-> calls, kept |-> {}, answered |-> {}])
          /\ UNCHANGED <<round, running>>
       \/ /\ calls # << >> /\ FoundStopCalls(calls) = {}
          /\ loop' = "call"
          /\ batches' = Append(batches, [calls |-> calls, kept |-> CapCalls(DedupeCalls(calls)),
                                         answered |-> {}])
          /\ UNCHANGED <<round, running, stopCalls>>

\* The completion failed, or a callback did.
LoopFails ==
    /\ loop \in {"complete", "call", "execute"}
    /\ loop' = "failed"
    /\ UNCHANGED <<round, batches, running, stopCalls>>

Latest == batches[Len(batches)]
Unanswered == Latest.kept \ Latest.answered

\* OnToolCall, for the next call.
CallTool ==
    /\ loop = "call"
    /\ loop' = "execute"
    /\ running' \in Unanswered
    /\ \A j \in Unanswered : running' <= j
    /\ UNCHANGED <<round, batches, stopCalls>>

\* executeCall (an unknown tool and one that fails are results like others),
\* OnToolResult and the tool message.
ToolReturns ==
    /\ loop = "execute"
    /\ batches' = [batches EXCEPT ![Len(batches)].answered = @ \cup {running}]
    /\ \/ /\ Unanswered # {running}
          /\ loop' = "call" /\ UNCHANGED round
       \/ /\ Unanswered = {running}
          /\ NextTurn
    /\ running' = 0
    /\ UNCHANGED stopCalls

LoopNext ==
    \/ \E calls \in Seq(Call) : Complete(calls)
    \/ LoopFails
    \/ CallTool
    \/ ToolReturns

LoopSpec == LoopInit /\ [][LoopNext]_loopVars

-----------------------------------------------------------------------------
(* What must hold.                                                         *)

\* engine.go:210, "every tool_call has a matching tool result": of every
\* message list a completion is requested with.
EveryCallAnswered ==
    loop = "complete" => \A k \in DOMAIN batches : batches[k].kept = batches[k].answered

\* StopTools are "offered to the model but never executed", whatever they are
\* streamed together with; and only a valid proposal ends the loop.
StopToolsOnlyStop ==
    /\ loop = "execute" => Latest.calls[running].name \notin StopTool
    /\ loop = "stopped" =>
          \A i \in stopCalls : Latest.calls[i].name \in StopTool /\ Latest.calls[i].args \in ValidArgs

\* However the model repeats itself, a turn runs a call at most once, and the
\* loop as many calls as its two budgets allow.
WithinBudget ==
    /\ MaxTurns > 0 => Len(batches) <= MaxTurns
    /\ \A k \in DOMAIN batches :
          /\ Cardinality(batches[k].kept) <= MaxToolCalls
          /\ \A i, j \in batches[k].kept : batches[k].calls[i] = batches[k].calls[j] => i = j
=============================================================================
