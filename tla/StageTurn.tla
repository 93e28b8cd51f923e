------------------------------ MODULE StageTurn ------------------------------
(***************************************************************************)
(* The turns of one session, one after the other: runStageTurn over the    *)
(* three runners.  "claude-code" reads the messages its CLI sends          *)
(* (processMessage in internal/agentrunner/claude_runner.go), whose tool   *)
(* calls may run side by side and escalate to the human; "codex" reads     *)
(* completed items (codex_runner.go); "local" drives the tool loop over    *)
(* streamed completions (chat_client_runner.go).                           *)
(***************************************************************************)
EXTENDS TurnRecord, Escalations, ToolLoop, CompletionStream

CONSTANTS
    Executors,  \* per turn, the runners the human may choose for it
    Key,        \* the session's key
    MaxRounds,  \* messages of the model per turn
    MaxTexts,   \* pieces of text per turn
    MaxQueue    \* messages of the CLI on their way

Runner == {"claude-code", "codex", "local"}

ASSUME StageTurnAssumption ==
    /\ Executors \in [Turn -> SUBSET Runner]
    /\ Key \in Session
    /\ {MaxRounds, MaxTexts, MaxQueue} \subseteq Nat \ {0}
    /\ Escalation \subseteq Nat \X Nat /\ NoResult \notin Nat \X Nat
    /\ Batch \subseteq Seq(Call) /\ \A call \in Call : [call EXCEPT !.args = Cut] \in Call

VARIABLES
    turn,       \* the latest turn
    phase,      \* "idle", "running", "recorded"
    runner,     \* the latest turn's
    connected,  \* claude-code's cached client is
    text,       \* assistantText of the turn
    queue,      \* messages of the connected CLI, not yet read
    use,        \* the CLIs' tool calls
    drafts,     \* pendingDraft: proposals without their verdict
    out         \* RunOutput.ToolCalls

turnVars == <<turn, phase, runner, text, out>>
cliVars == <<connected, queue, use, drafts>>
vars == <<recordVars, escalationVars, loopVars, streamVars, turnVars, cliVars>>

\* due: pendingBreak; any: something has been written; round: the message of
\* the model that is speaking.
NoText == [due |-> FALSE, any |-> FALSE, round |-> 0]

\* tool: one of the read-only tools; escalated: visible but not approved;
\* outside: a write out of the workspace; draft: an offered proposal.
UseKind == {"tool", "escalated", "outside", "draft"}
UnusedCall == [used |-> FALSE, kind |-> "tool", done |-> FALSE, ok |-> FALSE]
Used(kind) == [UnusedCall EXCEPT !.used = TRUE, !.kind = kind]
NextCall(id) ==
    ~ use[id].used /\ \A other \in Escalation : ~ use[other].used => id[2] <= other[2]

Idle == phase # "running"
RunsOn(e) == phase = "running" /\ runner = e

-----------------------------------------------------------------------------
(* A turn from its start to its record.                                    *)

\* claude-code connects a client unless one is cached; a cached one goes on with
\* the messages that an abandoned turn left unread.
StartTurn(t, e) ==
    /\ Idle
    /\ t = turn + 1 /\ e \in Executors[t]
    /\ turn' = t /\ phase' = "running" /\ runner' = e
    /\ text' = NoText /\ out' = << >>
    /\ ResetRecord
    /\ queue' = IF e = "claude-code" /\ ~ connected THEN << >> ELSE queue
    /\ drafts' = {}
    /\ connected' = IF e = "claude-code" THEN TRUE ELSE connected
    /\ IF e = "claude-code" THEN SetPermissionRequester(Key, t) ELSE UNCHANGED escalationVars
    /\ loop' = "complete" /\ round' = 1 /\ batches' = << >> /\ running' = 0 /\ stopCalls' = {}
    /\ NoStream
    /\ UNCHANGED use

\* Run returns; runStageTurn surfaces the proposals, whether or not the turn
\* failed: all are of offered tools, the runners have told them from others.
Return(calls) ==
    /\ phase' = "recorded"
    /\ RecordProposals(calls)
    /\ UNCHANGED <<turn, runner, text, out>>

\* Mutant: a message's first words join on to the one before.
BreakNever(tx) == FALSE

\* consumeBreak.
BreakDue(tx) == tx.due /\ tx.any

StartNewRound ==
    /\ text' = [text EXCEPT !.due = TRUE, !.round = @ + 1]

\* appendDelta, for the first words of a message.
AppendDelta ==
    /\ RecordText([round |-> text.round, broken |-> BreakDue(text)])
    /\ text' = [text EXCEPT !.due = FALSE, !.any = TRUE]

-----------------------------------------------------------------------------
(* claude-code: what the CLI does and sends, in its own time.              *)

\* The CLI lives, and a turn reads what it says.  It may be saying what an
\* abandoned turn asked of it: sent before this turn began or only now, it is
\* read first.
CliTalks == RunsOn("claude-code") /\ connected /\ Len(queue) < MaxQueue

Send(message) == queue' = Append(queue, message)

Sent(type) == Len(SelectSeq(queue, LAMBDA m : m.type = type))

\* message_start, and the words of the message.
CliSpeaks ==
    /\ CliTalks
    /\ \/ /\ text.round + Sent("start") < MaxRounds
          /\ Send([type |-> "start"])
       \/ /\ text.round + Sent("start") > 0
          /\ Len(Texts) + Sent("text") < MaxTexts
          /\ Send([type |-> "text"])
    /\ UNCHANGED <<recordVars, escalationVars, loopVars, streamVars, turnVars,
                   connected, use, drafts>>

CliCalls(id, kind) ==
    /\ CliTalks
    /\ text.round + Sent("start") > 0
    /\ NextCall(id)
    /\ use' = [use EXCEPT ![id] = Used(kind)]
    /\ Send([type |-> "call", id |-> id])
    /\ UNCHANGED <<recordVars, escalationVars, loopVars, streamVars, turnVars,
                   connected, drafts>>

\* Before it runs a tool that is not approved, the CLI calls back.
CliAsks(id) ==
    /\ connected
    /\ use[id].used /\ ~ use[id].done
    /\ use[id].kind \in {"escalated", "outside"}
    /\ StartAsk(id, Key)
    /\ UNCHANGED <<recordVars, loopVars, streamVars, turnVars, cliVars>>

\* A result is sent: a tool's, well or not, a refusal's, or the verdict of the
\* proposal's handler (draftToolHandlerFor).
CliResults(id, ok) ==
    /\ CliTalks
    /\ use[id].used /\ ~ use[id].done
    /\ use[id].kind \in {"escalated", "outside"} =>
          ask[id].pc \in {"allowed", "denied", "failed"} /\ (ok => ask[id].pc = "allowed")
    /\ use' = [use EXCEPT ![id].done = TRUE, ![id].ok = ok]
    /\ Send([type |-> "result", id |-> id, ok |-> ok])
    /\ UNCHANGED <<recordVars, escalationVars, loopVars, streamVars, turnVars,
                   connected, drafts>>

\* The result message; with an error it may come any time.
CliEnds(ok) ==
    /\ CliTalks
    /\ ok => \A id \in Escalation : use[id].used => use[id].done
    /\ Send([type |-> "end", ok |-> ok])
    /\ UNCHANGED <<recordVars, escalationVars, loopVars, streamVars, turnVars,
                   connected, use, drafts>>

-----------------------------------------------------------------------------
(* claude-code: what Run makes of the messages (processMessage).           *)

Reads(type) == RunsOn("claude-code") /\ queue # << >> /\ Head(queue).type = type

ReadStart ==
    /\ Reads("start")
    /\ StartNewRound
    /\ queue' = Tail(queue)
    /\ UNCHANGED <<recordVars, escalationVars, loopVars, streamVars, turn, phase, runner, out,
                   connected, use, drafts>>

ReadText ==
    /\ Reads("text")
    /\ AppendDelta
    /\ queue' = Tail(queue)
    /\ UNCHANGED <<escalationVars, loopVars, streamVars, turn, phase, runner, out,
                   connected, use, drafts>>

\* A proposal waits for its verdict, any other call is tool activity.
ReadCall ==
    /\ Reads("call")
    /\ LET id == Head(queue).id
       IN  \/ /\ use[id].kind = "draft"
              /\ drafts' = drafts \cup {id}
              /\ UNCHANGED recordVars
           \/ /\ use[id].kind # "draft"
              /\ RecordCall(id)
              /\ UNCHANGED drafts
    /\ queue' = Tail(queue)
    /\ UNCHANGED <<escalationVars, loopVars, streamVars, turnVars, connected, use>>

\* Mutant: a proposal is taken whatever its handler said.
AcceptedAlways(ok) == TRUE

Accepted(ok) == ok

ReadResult ==
    /\ Reads("result")
    /\ LET id == Head(queue).id
       IN  \/ /\ id \in drafts
              /\ drafts' = drafts \ {id}
              /\ out' = IF Accepted(Head(queue).ok) THEN Append(out, id) ELSE out
              /\ UNCHANGED recordVars
           \/ /\ id \notin drafts
              /\ RecordResult(id)
              /\ UNCHANGED <<drafts, out>>
    /\ queue' = Tail(queue)
    /\ UNCHANGED <<escalationVars, loopVars, streamVars, turn, phase, runner, text,
                   connected, use>>

\* The turn's end: at the result message, at a message that cannot be passed on,
\* or, with messages unread, at its timeout or when the human closes the page.
\* The client stays connected.
ClaudeReturns ==
    /\ RunsOn("claude-code")
    /\ Return(out)
    /\ ClearPermissionRequester(Key)
    /\ UNCHANGED queue \/ (queue # << >> /\ queue' = Tail(queue))
    /\ UNCHANGED <<loopVars, streamVars, connected, use, drafts>>

\* The stream ended with no result: what Run gathered is not returned.
ClaudeEndsSilently ==
    /\ RunsOn("claude-code")
    /\ ~ connected /\ queue = << >>
    /\ Return(<< >>)
    /\ ClearPermissionRequester(Key)
    /\ UNCHANGED <<loopVars, streamVars, cliVars>>

\* CloseSession, by an edit of the conversation, a finalization, the reaper or
\* the shutdown; or the CLI's process ends.  Its tools end with it.
Disconnect ==
    /\ connected
    /\ connected' = FALSE
    /\ use' = [id \in Escalation |-> [use[id] EXCEPT !.done = use[id].used]]
    /\ UNCHANGED <<recordVars, escalationVars, loopVars, streamVars, turnVars, queue, drafts>>

-----------------------------------------------------------------------------
(* The callbacks and the humans.                                           *)

CallbackStep ==
    /\ \E id \in Escalation :
          \/ AnswerUnasked(id, use[id].kind = "outside")
          \/ FindHook(id, use[id].kind = "outside")
          \/ Register(id) \/ TakeDecision(id)
    /\ UNCHANGED <<recordVars, loopVars, streamVars, turnVars, cliVars>>

\* The callback's context is the connection's; whether a turn's end is one for
\* it is up to the SDK.
CallbackCancelled ==
    /\ ~ connected \/ Idle
    /\ \E id \in Escalation : CancelAsk(id)
    /\ UNCHANGED <<recordVars, loopVars, streamVars, turnVars, cliVars>>

HumanDecides ==
    /\ \E id \in Escalation, s \in Session, allow \in BOOLEAN : Resolve(id, s, allow)
    /\ UNCHANGED <<recordVars, loopVars, streamVars, turnVars, cliVars>>

-----------------------------------------------------------------------------
(* codex: notifications of the app server (processCodexSDKRunEvent).       *)

CodexSpeaks ==
    /\ RunsOn("codex")
    /\ \/ text.round < MaxRounds /\ StartNewRound /\ UNCHANGED recordVars
       \/ text.round > 0 /\ Len(Texts) < MaxTexts /\ AppendDelta
    /\ UNCHANGED <<escalationVars, loopVars, streamVars, turn, phase, runner, out, cliVars>>

\* A completed item is call and result in one; a failed proposal is dropped.
CodexItem(id, kind, ok) ==
    /\ RunsOn("codex")
    /\ NextCall(id)
    /\ use' = [use EXCEPT ![id] = [Used(kind) EXCEPT !.done = TRUE, !.ok = ok]]
    /\ \/ /\ kind = "draft"
          /\ out' = IF Accepted(ok) THEN Append(out, id) ELSE out
          /\ UNCHANGED recordVars
       \/ /\ kind # "draft"
          /\ RecordCallAndResult(id)
          /\ UNCHANGED out
    /\ UNCHANGED <<escalationVars, loopVars, streamVars, turn, phase, runner, text,
                   connected, queue, drafts>>

\* turn/completed, turn/failed, an error, the timeout.
CodexReturns ==
    /\ RunsOn("codex")
    /\ Return(out)
    /\ UNCHANGED <<escalationVars, loopVars, streamVars, cliVars>>

-----------------------------------------------------------------------------
(* local: the tool loop, its calls named by turn of the loop and position. *)

LoopId(i) == <<round, i>>

LocalOpens ==
    /\ RunsOn("local") /\ loop = "complete"
    /\ OpenStream
    /\ UNCHANGED <<recordVars, escalationVars, loopVars, turnVars, cliVars>>

\* The words of a completion, before its calls; no break is set before them.
LocalSpeaks ==
    /\ RunsOn("local") /\ open /\ acc = << >>
    /\ text.round < round
    /\ RecordText([round |-> round, broken |-> FALSE])
    /\ text' = [text EXCEPT !.round = round]
    /\ UNCHANGED <<escalationVars, loopVars, streamVars, turn, phase, runner, out, cliVars>>

LocalFragment ==
    /\ RunsOn("local")
    /\ Fragment
    /\ UNCHANGED <<recordVars, escalationVars, loopVars, turnVars, cliVars>>

\* The stream ends: after its finish reason, or, at no error, without one.
LocalCompletes ==
    /\ RunsOn("local")
    /\ CloseStream
    /\ \/ FinishReason /\ Complete(Flush)
       \/ Complete(<< >>)
    /\ UNCHANGED <<recordVars, escalationVars, turnVars, cliVars>>

LocalFails ==
    /\ RunsOn("local")
    /\ LoopFails
    /\ NoStream
    /\ UNCHANGED <<recordVars, escalationVars, turnVars, cliVars>>

LocalTool ==
    /\ RunsOn("local")
    /\ \/ CallTool /\ RecordCall(LoopId(running'))
       \/ ToolReturns /\ RecordResult(LoopId(running))
    /\ UNCHANGED <<escalationVars, streamVars, turnVars, cliVars>>

\* Result.StopCalls.
StopIds == [k \in 1..Cardinality(stopCalls) |->
               LoopId(CHOOSE i \in stopCalls : Cardinality({j \in stopCalls : j <= i}) = k)]

LocalReturns ==
    /\ RunsOn("local") /\ loop \in Ended
    /\ Return(StopIds)
    /\ UNCHANGED <<escalationVars, loopVars, streamVars, cliVars>>

LocalStep ==
    \/ LocalOpens \/ LocalSpeaks \/ LocalFragment
    \/ LocalCompletes \/ LocalFails \/ LocalTool \/ LocalReturns

-----------------------------------------------------------------------------
Init ==
    /\ RecordEmpty /\ EscalationsInit /\ LoopInit /\ StreamInit
    /\ turn = NoTurn /\ phase = "idle" /\ runner = "" /\ connected = FALSE
    /\ text = NoText /\ queue = << >> /\ drafts = {} /\ out = << >>
    /\ use = [id \in Escalation |-> UnusedCall]

Next ==
    \/ \E t \in Turn, e \in Runner : StartTurn(t, e)
    \/ CliSpeaks
    \/ \E id \in Escalation :
          \/ \E kind \in UseKind : CliCalls(id, kind)
          \/ CliAsks(id)
          \/ \E ok \in BOOLEAN : CliResults(id, ok)
          \/ \E kind \in {"tool", "draft"}, ok \in BOOLEAN : CodexItem(id, kind, ok)
    \/ \E ok \in BOOLEAN : CliEnds(ok)
    \/ ReadStart \/ ReadText \/ ReadCall \/ ReadResult
    \/ ClaudeReturns \/ ClaudeEndsSilently \/ Disconnect
    \/ CallbackStep \/ CallbackCancelled \/ HumanDecides
    \/ CodexSpeaks \/ CodexReturns
    \/ LocalStep

Spec == Init /\ [][Next]_vars

\* A completion ends (the client's idle timeout), tools return (reads of files;
\* bash at its own timeout) and the loop goes on by itself.
FairSpec == Spec /\ WF_vars(LocalStep)

-----------------------------------------------------------------------------
(* What must hold.                                                         *)

TurnTypeOK ==
    /\ EscalationsTypeOK /\ StreamTypeOK
    /\ loop \in {"complete", "call", "execute"} \cup Ended
    /\ turn \in Turn \cup {NoTurn} /\ phase \in {"idle", "running", "recorded"}
    /\ runner \in Runner \cup {""} /\ connected \in BOOLEAN
    /\ text \in [due : BOOLEAN, any : BOOLEAN, round : Nat]
    /\ use \in [Escalation -> [used : BOOLEAN, kind : UseKind, done : BOOLEAN, ok : BOOLEAN]]
    /\ drafts \subseteq Escalation /\ out \in Seq(Escalation)

\* What the human is shown as a proposal was accepted by its handler, once, and
\* is not tool activity of the turn as well; a rejected one is never shown, though
\* its retry be, and whatever an abandoned turn left to read.
ProposalsAccepted ==
    /\ \A id \in ToSet(proposed) :
          /\ id \notin Recorded
          /\ runner # "local" => use[id].kind = "draft" /\ use[id].ok
    /\ Cardinality(ToSet(proposed)) = Len(proposed)

\* assistantText: in the transcript the words of two messages of the model are
\* a paragraph break apart, those of one are not, and none comes first.
RoundsSeparated ==
    runner \in {"claude-code", "codex"} =>
       \A k \in DOMAIN Texts :
          Texts[k].broken <=> k > 1 /\ Texts[k - 1].round # Texts[k].round

\* permissionRequesters "must route to the live turn": the hook that a callback
\* of the cached client finds, whichever turn the client was connected in and
\* whenever it calls, is that of the turn that is running.
HookOfLiveTurn ==
    [][\A id \in Escalation :
          ask[id].pc = "started" /\ ask'[id].pc = "found" =>
             phase = "running" /\ runner = "claude-code" /\ ask'[id].hook = turn]_vars

\* The loop ends, whatever the model goes on to call.
LoopEnds == RunsOn("local") ~> phase = "recorded"
=============================================================================
