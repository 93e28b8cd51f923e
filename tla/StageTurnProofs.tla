--------------------------- MODULE StageTurnProofs ---------------------------
(***************************************************************************)
(* The turns of a session compose what Escalations and ToolLoop specify:   *)
(* for any runners, messages of the CLI and bounds, what is proved of the  *)
(* registry and of the loop by themselves holds in every turn, a callback  *)
(* finds the hook of the turn that runs and of no other, and what a turn   *)
(* records is what happened in it, with every result at its call.          *)
(***************************************************************************)
EXTENDS StageTurn, EscalationsProofs, ToolLoopProofs, SequenceTheorems

-----------------------------------------------------------------------------
(* The registry: every step of a turn is one of it or none.                *)

LEMMA EscalationsMove ==
  ASSUME [Next]_vars
  PROVE  [EscalationsNext]_escalationVars
<1> USE StageTurnAssumption
<1>1. ASSUME NEW t \in Turn, NEW e \in Runner, StartTurn(t, e)
      PROVE  [EscalationsNext]_escalationVars
  BY <1>1 DEF StartTurn, EscalationsNext
<1>2. CASE CliSpeaks
  BY <1>2 DEF CliSpeaks
<1>3. ASSUME NEW id \in Escalation, NEW kind \in UseKind, CliCalls(id, kind)
      PROVE  UNCHANGED escalationVars
  BY <1>3 DEF CliCalls
<1>4. ASSUME NEW id \in Escalation, CliAsks(id)
      PROVE  EscalationsNext
  BY <1>4 DEF CliAsks, EscalationsNext
<1>5. ASSUME NEW id \in Escalation, NEW ok \in BOOLEAN, CliResults(id, ok)
      PROVE  UNCHANGED escalationVars
  BY <1>5 DEF CliResults
<1>6. ASSUME NEW id \in Escalation, NEW kind, NEW ok \in BOOLEAN, CodexItem(id, kind, ok)
      PROVE  UNCHANGED escalationVars
  BY <1>6 DEF CodexItem
<1>7. ASSUME NEW ok \in BOOLEAN, CliEnds(ok)
      PROVE  UNCHANGED escalationVars
  BY <1>7 DEF CliEnds
<1>8. CASE ReadStart \/ ReadText \/ ReadCall \/ ReadResult
  BY <1>8 DEF ReadStart, ReadText, ReadCall, ReadResult
<1>9. CASE ClaudeReturns \/ ClaudeEndsSilently
  BY <1>9 DEF ClaudeReturns, ClaudeEndsSilently, EscalationsNext
<1>10. CASE Disconnect
  BY <1>10 DEF Disconnect
<1>11. CASE CallbackStep
  <2>1. PICK id \in Escalation :
           \/ AnswerUnasked(id, use[id].kind = "outside")
           \/ FindHook(id, use[id].kind = "outside")
           \/ Register(id) \/ TakeDecision(id)
    BY <1>11 DEF CallbackStep
  <2>2. (use[id].kind = "outside") \in BOOLEAN
    OBVIOUS
  <2> DEFINE outside == use[id].kind = "outside"
  <2>3. \/ AnswerUnasked(id, outside) \/ FindHook(id, outside)
        \/ Register(id) \/ TakeDecision(id)
    BY <2>1
  <2> HIDE DEF outside
  <2> QED
    BY <2>2, <2>3 DEF EscalationsNext, outside
<1>12. CASE CallbackCancelled \/ HumanDecides
  BY <1>12 DEF CallbackCancelled, HumanDecides, EscalationsNext
<1>13. CASE CodexSpeaks \/ CodexReturns
  BY <1>13 DEF CodexSpeaks, CodexReturns
<1>14. CASE LocalStep
  BY <1>14 DEF LocalStep, LocalOpens, LocalSpeaks, LocalFragment, LocalCompletes, LocalFails,
               LocalTool, LocalReturns
<1>15. CASE UNCHANGED vars
  BY <1>15 DEF vars
<1> QED
  BY <1>1, <1>2, <1>3, <1>4, <1>5, <1>6, <1>7, <1>8, <1>9, <1>10, <1>11, <1>12, <1>13,
     <1>14, <1>15 DEF Next

\* Whatever a turn is, its part in the registry is what Escalations specifies.
THEOREM TurnsUseRegistry == Spec => EscalationsSpec
<1>1. Init => EscalationsInit
  BY DEF Init
<1> QED
  BY <1>1, EscalationsMove, PTL DEF Spec, EscalationsSpec

-----------------------------------------------------------------------------
(* The loop: its calls are those of the stream, and a turn starts it anew. *)

\* Between completions the accumulator is empty.
StreamInv == StreamTypeOK /\ (~ open => acc = << >>)

LEMMA NoCalls ==
  ASSUME NEW S
  PROVE  << >> \in Seq(S)
OBVIOUS

\* A call of the accumulator, as one that came.
LEMMA Accumulated ==
  ASSUME StreamInv, NEW k \in DOMAIN acc
  PROVE  acc[k] \in [index : DOMAIN streamed, whole : BOOLEAN]
<1> DEFINE R == [index : DOMAIN streamed, whole : BOOLEAN]
<1>1. acc \in Seq(R)
  BY DEF StreamInv, StreamTypeOK
<1> HIDE DEF R
<1>2. acc[k] \in R
  BY <1>1
<1> QED
  BY <1>2 DEF R

LEMMA StreamStart ==
  ASSUME NoStream
  PROVE  StreamInv'
<1>1. << >> \in Seq([index : DOMAIN streamed', whole : BOOLEAN])
  BY NoCalls
<1> QED
  BY <1>1 DEF NoStream, StreamInv, StreamTypeOK

LEMMA FlushCalls ==
  ASSUME StreamInv
  PROVE  Flush \in Seq(Call)
<1>1. streamed \in Seq(Call)
  BY StageTurnAssumption DEF StreamInv, StreamTypeOK
<1>2. /\ acc \in Seq([index : DOMAIN streamed, whole : BOOLEAN])
      /\ Len(acc) \in Nat /\ DOMAIN acc = 1..Len(acc)
  BY DEF StreamInv, StreamTypeOK
<1>3. ASSUME NEW k \in 1..Len(acc)
      PROVE  streamed[acc[k].index] \in Call
  <2>1. acc[k].index \in DOMAIN streamed
    BY <1>2, Accumulated
  <2> QED
    BY <1>1, <2>1
<1>4. Flush \in [1..Len(acc) -> Call]
  <2>1. ASSUME NEW k \in 1..Len(acc)
        PROVE  [streamed[acc[k].index] EXCEPT !.args = Cut] \in Call
    BY <1>3, StageTurnAssumption
  <2> QED
    BY <1>2, <1>3, <2>1 DEF Flush
<1> QED
  BY <1>2, <1>4

LEMMA FragmentKeeps ==
  ASSUME StreamInv, Fragment
  PROVE  StreamInv'
<1>1. PICK i \in DOMAIN streamed : Add(i)
  BY DEF Fragment
<1>2. open /\ UNCHANGED <<open, streamed>>
  BY DEF Fragment
<1>3. acc \in Seq([index : DOMAIN streamed, whole : BOOLEAN])
  BY DEF StreamInv, StreamTypeOK
<1>4. acc' \in Seq([index : DOMAIN streamed, whole : BOOLEAN])
  <2>1. CASE acc' = Append(acc, [index |-> i, whole |-> FALSE])
    BY <1>3, <2>1
  <2>2. ASSUME NEW k \in DOMAIN acc, acc' = [acc EXCEPT ![k].whole = TRUE]
        PROVE  acc' \in Seq([index : DOMAIN streamed, whole : BOOLEAN])
    <3> DEFINE q == [acc[k] EXCEPT !.whole = TRUE]
    <3>1. q \in [index : DOMAIN streamed, whole : BOOLEAN]
      BY <2>2, Accumulated
    <3>2. acc' = [acc EXCEPT ![k] = q]
      BY <2>2
    <3> HIDE DEF q
    <3> QED
      BY <1>3, <3>1, <3>2
  <2> QED
    BY <1>1, <2>1, <2>2 DEF Add
<1> QED
  BY <1>2, <1>4 DEF StreamInv, StreamTypeOK

\* Every step of a turn is one of the loop, none, or starts it.
LEMMA LoopMove ==
  ASSUME StreamInv, [Next]_vars
  PROVE  /\ [LoopNext]_loopVars \/ LoopInit'
         /\ StreamInv'
<1>1. ASSUME UNCHANGED loopVars, UNCHANGED streamVars
      PROVE  [LoopNext]_loopVars /\ StreamInv'
  BY <1>1 DEF streamVars, StreamInv, StreamTypeOK
<1>2. ASSUME NEW t \in Turn, NEW e \in Runner, StartTurn(t, e)
      PROVE  LoopInit' /\ StreamInv'
  BY <1>2, StreamStart DEF StartTurn, LoopInit
<1>3. ASSUME LocalStep PROVE [LoopNext]_loopVars /\ StreamInv'
  <2>1. CASE LocalOpens
    <3>1. UNCHANGED loopVars /\ OpenStream
      BY <2>1 DEF LocalOpens
    <3>2. acc = << >> /\ acc' = << >> /\ open' = TRUE /\ streamed' \in Batch
      BY <3>1 DEF OpenStream, StreamInv
    <3> QED
      BY <3>1, <3>2 DEF StreamInv, StreamTypeOK
  <2>2. CASE LocalSpeaks \/ LocalReturns
    BY <1>1, <2>2 DEF LocalSpeaks, LocalReturns
  <2>3. CASE LocalFragment
    BY <2>3, FragmentKeeps DEF LocalFragment
  <2>4. CASE LocalCompletes
    <3>1. StreamInv'
      BY <2>4, StreamStart DEF LocalCompletes, CloseStream
    <3>2. << >> \in Seq(Call) /\ Flush \in Seq(Call)
      BY FlushCalls
    <3>3. LoopNext
      BY <2>4, <3>2 DEF LocalCompletes, LoopNext
    <3> QED
      BY <3>1, <3>3
  <2>5. CASE LocalFails
    BY <2>5, StreamStart DEF LocalFails, LoopNext
  <2>6. CASE LocalTool
    BY <2>6 DEF LocalTool, LoopNext, streamVars, StreamInv, StreamTypeOK
  <2> QED
    BY <1>3, <2>1, <2>2, <2>3, <2>4, <2>5, <2>6 DEF LocalStep
<1>4. CASE CliSpeaks \/ Disconnect
  BY <1>1, <1>4 DEF CliSpeaks, Disconnect
<1>5. ASSUME NEW id \in Escalation, NEW kind \in UseKind, CliCalls(id, kind)
      PROVE  UNCHANGED <<loopVars, streamVars>>
  BY <1>5 DEF CliCalls
<1>6. ASSUME NEW id \in Escalation, CliAsks(id)
      PROVE  UNCHANGED <<loopVars, streamVars>>
  BY <1>6 DEF CliAsks
<1>7. ASSUME NEW id \in Escalation, NEW ok \in BOOLEAN, CliResults(id, ok)
      PROVE  UNCHANGED <<loopVars, streamVars>>
  BY <1>7 DEF CliResults
<1>8. ASSUME NEW id \in Escalation, NEW kind, NEW ok \in BOOLEAN, CodexItem(id, kind, ok)
      PROVE  UNCHANGED <<loopVars, streamVars>>
  BY <1>8 DEF CodexItem
<1>9. ASSUME NEW ok \in BOOLEAN, CliEnds(ok)
      PROVE  UNCHANGED <<loopVars, streamVars>>
  BY <1>9 DEF CliEnds
<1>10. CASE ReadStart \/ ReadText \/ ReadCall \/ ReadResult
  BY <1>1, <1>10 DEF ReadStart, ReadText, ReadCall, ReadResult
<1>11. CASE ClaudeReturns \/ ClaudeEndsSilently
  BY <1>1, <1>11 DEF ClaudeReturns, ClaudeEndsSilently
<1>12. CASE CallbackStep \/ CallbackCancelled \/ HumanDecides
  BY <1>1, <1>12 DEF CallbackStep, CallbackCancelled, HumanDecides
<1>13. CASE CodexSpeaks \/ CodexReturns
  BY <1>1, <1>13 DEF CodexSpeaks, CodexReturns
<1>14. CASE UNCHANGED vars
  BY <1>1, <1>14 DEF vars
<1> QED
  BY <1>1, <1>2, <1>3, <1>4, <1>5, <1>6, <1>7, <1>8, <1>9, <1>10, <1>11, <1>12, <1>13,
     <1>14 DEF Next

\* A turn starts the loop anew.
LEMMA LoopStartsAnew ==
  ASSUME LoopInit'
  PROVE  LoopInv'
<1>1. /\ loop' = "complete" /\ round' = 1 /\ batches' = << >> /\ running' = 0
      /\ stopCalls' = {}
  BY DEF LoopInit
<1>2. LoopTypeOK'
  BY <1>1, NoCalls DEF LoopTypeOK, Ended
<1>3. BatchesSettled' /\ CallsCapped' /\ LatestFits' /\ RoundsCounted'
  BY <1>1, ToolLoopAssumption DEF BatchesSettled, CallsCapped, LatestFits, RoundsCounted
<1> QED
  BY <1>2, <1>3 DEF LoopInv

LEMMA TurnsKeepLoopInv == Spec => []LoopInv
<1>1. Init => LoopInv /\ StreamInv
  <2>1. ASSUME Init PROVE StreamInv
    <3>1. << >> \in Seq([index : DOMAIN streamed, whole : BOOLEAN])
      BY NoCalls
    <3> QED
      BY <2>1, <3>1 DEF Init, StreamInit, StreamInv, StreamTypeOK
  <2> QED
    BY <2>1, LoopStart DEF Init
<1>2. LoopInv /\ StreamInv /\ [Next]_vars => LoopInv' /\ StreamInv'
  <2> SUFFICES ASSUME LoopInv, StreamInv, [Next]_vars PROVE LoopInv' /\ StreamInv'
    OBVIOUS
  <2> QED
    BY LoopMove, LoopStep, LoopStartsAnew
<1> QED
  BY <1>1, <1>2, PTL DEF Spec

-----------------------------------------------------------------------------
(* The hook: set for as long as a turn of claude-code runs.                *)

HookOfTurn ==
    /\ \A s \in Session : requester[s] = IF s = Key /\ RunsOn("claude-code") THEN turn ELSE NoTurn
    /\ \A id \in Escalation : ask[id].pc # "idle" => ask[id].session = Key

HookInv == EscalationsTypeOK /\ turn \in Turn \cup {NoTurn} /\ HookOfTurn

\* The turn neither starts, ends nor changes, and the registry's step, if any,
\* is another's than the hook's.
LEMMA HookKept ==
  ASSUME HookInv, EscalationsTypeOK', UNCHANGED <<turn, phase, runner, requester>>,
         \A id \in Escalation :
            ask'[id].pc # "idle" => ask[id].pc # "idle" /\ ask'[id].session = ask[id].session
  PROVE  HookInv'
BY DEF HookInv, HookOfTurn, RunsOn

LEMMA HookStep ==
  ASSUME HookInv, EscalationsTypeOK', [Next]_vars
  PROVE  HookInv'
<1> USE StageTurnAssumption, EscalationsAssumption
<1>1. ASSUME UNCHANGED escalationVars, UNCHANGED <<turn, phase, runner>>
      PROVE  HookInv'
  BY <1>1, HookKept DEF escalationVars
<1>2. ASSUME NEW t \in Turn, NEW e \in Runner, StartTurn(t, e)
      PROVE  HookInv'
  <2>1. /\ \A s \in Session : requester[s] = NoTurn
        /\ turn' = t /\ runner' = e /\ phase' = "running" /\ UNCHANGED ask
    BY <1>2 DEF StartTurn, HookInv, HookOfTurn, Idle, RunsOn, SetPermissionRequester,
                escalationVars
  <2>2. CASE e = "claude-code"
    <3>1. requester' = [requester EXCEPT ![Key] = t]
      BY <1>2, <2>2 DEF StartTurn, SetPermissionRequester
    <3> QED
      BY <2>1, <2>2, <3>1 DEF HookInv, HookOfTurn, RunsOn, EscalationsTypeOK
  <2>3. CASE e # "claude-code"
    <3>1. requester' = requester
      BY <1>2, <2>3 DEF StartTurn, escalationVars
    <3> QED
      BY <2>1, <2>3, <3>1 DEF HookInv, HookOfTurn, RunsOn
  <2> QED
    BY <2>2, <2>3
<1>3. CASE CliSpeaks \/ Disconnect
  BY <1>1, <1>3 DEF CliSpeaks, Disconnect, turnVars
<1>4. ASSUME NEW id \in Escalation, NEW kind \in UseKind, CliCalls(id, kind)
      PROVE  HookInv'
  BY <1>1, <1>4 DEF CliCalls, turnVars
<1>5. ASSUME NEW id \in Escalation, CliAsks(id)
      PROVE  HookInv'
  BY <1>5 DEF CliAsks, StartAsk, HookInv, HookOfTurn, RunsOn, turnVars, EscalationsTypeOK,
              AskRecord
<1>6. ASSUME NEW id \in Escalation, NEW ok \in BOOLEAN, CliResults(id, ok)
      PROVE  HookInv'
  BY <1>1, <1>6 DEF CliResults, turnVars
<1>7. ASSUME NEW id \in Escalation, NEW kind, NEW ok \in BOOLEAN, CodexItem(id, kind, ok)
      PROVE  HookInv'
  BY <1>1, <1>7 DEF CodexItem
<1>8. ASSUME NEW ok \in BOOLEAN, CliEnds(ok)
      PROVE  HookInv'
  BY <1>1, <1>8 DEF CliEnds, turnVars
<1>9. CASE ReadStart \/ ReadText \/ ReadCall \/ ReadResult
  BY <1>1, <1>9 DEF ReadStart, ReadText, ReadCall, ReadResult, turnVars
<1>10. CASE ClaudeReturns \/ ClaudeEndsSilently
  <2>1. /\ requester' = [requester EXCEPT ![Key] = NoTurn] /\ ~ RunsOn("claude-code")'
        /\ UNCHANGED <<ask, turn>>
    BY <1>10 DEF ClaudeReturns, ClaudeEndsSilently, Return, ClearPermissionRequester, RunsOn
  <2>2. \A s \in Session : requester'[s] = NoTurn
    BY <2>1 DEF HookInv, HookOfTurn, EscalationsTypeOK
  <2> QED
    BY <2>1, <2>2 DEF HookInv, HookOfTurn
<1>11. CASE CallbackStep
  <2>1. PICK id \in Escalation :
           \/ AnswerUnasked(id, use[id].kind = "outside")
           \/ FindHook(id, use[id].kind = "outside")
           \/ Register(id) \/ TakeDecision(id)
    BY <1>11 DEF CallbackStep
  <2>2. UNCHANGED <<turn, phase, runner>>
    BY <1>11 DEF CallbackStep, turnVars
  <2>3. ask[id].pc # "idle" /\ UNCHANGED requester
    BY <2>1 DEF AnswerUnasked, FindHook, Register, TakeDecision
  <2>4. \A x \in Escalation : ask'[x].session = ask[x].session /\ (x # id => ask'[x] = ask[x])
    BY <2>1 DEF AnswerUnasked, FindHook, Register, TakeDecision, HookInv, EscalationsTypeOK, AskRecord
  <2> QED
    BY <2>2, <2>3, <2>4, HookKept
<1>12. ASSUME NEW id \in Escalation, CancelAsk(id), UNCHANGED turnVars
       PROVE  HookInv'
  <2>1. ask[id].pc # "idle" /\ UNCHANGED <<requester, turn, phase, runner>>
    BY <1>12 DEF CancelAsk, turnVars
  <2>2. \A x \in Escalation : ask'[x].session = ask[x].session /\ (x # id => ask'[x] = ask[x])
    BY <1>12 DEF CancelAsk, HookInv, EscalationsTypeOK, AskRecord
  <2> QED
    BY <2>1, <2>2, HookKept
<1>13. ASSUME NEW id \in Escalation, NEW s \in Session, NEW allow \in BOOLEAN,
              Resolve(id, s, allow), UNCHANGED turnVars
       PROVE  HookInv'
  <2>1. UNCHANGED <<requester, turn, phase, runner>>
    BY <1>13 DEF Resolve, turnVars
  <2>2. \A x \in Escalation : ask'[x].session = ask[x].session /\ ask'[x].pc = ask[x].pc
    BY <1>13 DEF Resolve, HookInv, EscalationsTypeOK, AskRecord
  <2> QED
    BY <2>1, <2>2, HookKept
<1>14. CASE CodexSpeaks
  BY <1>1, <1>14 DEF CodexSpeaks
<1>15. CASE CodexReturns
  <2>1. /\ ~ RunsOn("claude-code") /\ ~ RunsOn("claude-code")'
        /\ UNCHANGED <<requester, ask, turn>>
    BY <1>15 DEF CodexReturns, Return, RunsOn, escalationVars
  <2> QED
    BY <2>1 DEF HookInv, HookOfTurn
<1>16. CASE LocalStep
  <2>1. CASE LocalReturns
    <3>1. /\ ~ RunsOn("claude-code") /\ ~ RunsOn("claude-code")'
          /\ UNCHANGED <<requester, ask, turn>>
      BY <2>1 DEF LocalReturns, Return, RunsOn, escalationVars
    <3> QED
      BY <3>1 DEF HookInv, HookOfTurn
  <2> QED
    BY <1>1, <1>16, <2>1 DEF LocalStep, LocalOpens, LocalSpeaks, LocalFragment, LocalCompletes,
                             LocalFails, LocalTool, turnVars
<1>17. CASE UNCHANGED vars
  BY <1>1, <1>17 DEF vars, turnVars
<1>18. CASE CallbackCancelled \/ HumanDecides
  BY <1>12, <1>13, <1>18 DEF CallbackCancelled, HumanDecides
<1> QED
  BY <1>2, <1>3, <1>4, <1>5, <1>6, <1>7, <1>8, <1>9, <1>10, <1>11, <1>14, <1>15, <1>16,
     <1>17, <1>18 DEF Next

\* The hook that a callback finds is the one that is set when the callback runs.
LEMMA FoundHook ==
  ASSUME HookInv, [Next]_vars, NEW id \in Escalation,
         ask[id].pc = "started", ask'[id].pc = "found"
  PROVE  phase = "running" /\ runner = "claude-code" /\ ask'[id].hook = turn
<1>1. EscalationsNext
  BY EscalationsMove DEF escalationVars
<1>2. ask \in [Escalation -> AskRecord] /\ EscalationsNext
  BY <1>1 DEF HookInv, EscalationsTypeOK
<1>3. ASSUME NEW x \in Escalation, NEW q,
             ask' = [ask EXCEPT ![x] = q], q.pc # "found"
      PROVE  FALSE
  BY <1>2, <1>3
<1>4. ask' # ask
  OBVIOUS
<1>5. ASSUME NEW x \in Escalation, NEW s \in Session, StartAsk(x, s) PROVE FALSE
  <2> DEFINE q == [ask[x] EXCEPT !.pc = "started", !.session = s]
  <2>1. ask' = [ask EXCEPT ![x] = q] /\ q.pc # "found"
    BY <1>2, <1>5 DEF StartAsk, AskRecord
  <2> HIDE DEF q
  <2> QED
    BY <1>3, <2>1
<1>6. ASSUME NEW x \in Escalation, NEW outside \in BOOLEAN, AnswerUnasked(x, outside)
      PROVE  FALSE
  BY <1>2, <1>6 DEF AnswerUnasked, AskRecord
<1>7. ASSUME NEW x \in Escalation, NEW s \in Session, NEW allow \in BOOLEAN,
             Resolve(x, s, allow)
      PROVE  FALSE
  BY <1>2, <1>7 DEF Resolve, AskRecord
<1>8. ASSUME NEW x \in Escalation, Register(x) \/ TakeDecision(x) \/ CancelAsk(x) PROVE FALSE
  <2>1. PICK pc \in {"waiting", "allowed", "denied", "failed"} :
           ask' = [ask EXCEPT ![x] = [ask[x] EXCEPT !.pc = pc]]
    BY <1>8 DEF Register, TakeDecision, CancelAsk
  <2> QED
    BY <1>2, <2>1 DEF AskRecord
<1>9. PICK x \in Escalation, outside \in BOOLEAN : FindHook(x, outside)
  BY <1>2, <1>4, <1>5, <1>6, <1>7, <1>8
     DEF EscalationsNext, SetPermissionRequester, ClearPermissionRequester
<1>10. x = id
  BY <1>2, <1>9 DEF FindHook, AskRecord
<1>11. /\ requester[ask[id].session] # NoTurn /\ ask[id].session = Key
       /\ ask'[id].hook = requester[ask[id].session]
  BY <1>2, <1>9, <1>10 DEF FindHook, HookInv, HookOfTurn, AskRecord
<1> QED
  BY <1>11, StageTurnAssumption DEF HookInv, HookOfTurn, RunsOn

-----------------------------------------------------------------------------
\* In every turn of a session a tool that needs the human runs only if this
\* session's human allowed it, and the registry is exact; every message list
\* the local loop sends is answered, its stop tools stay unexecuted and its
\* budgets hold.
THEOREM TurnsAsSpecified ==
  Spec => /\ []AllowedByItsHuman
          /\ []RegistryHoldsWaiters
          /\ []EveryCallAnswered
          /\ []StopToolsOnlyStop
          /\ []WithinBudget
<1> QED
  BY TurnsUseRegistry, DecidedByItsHuman, RegistryExact, TurnsKeepLoopInv, LoopInvAnswered,
     LoopInvStops, LoopInvBudget, PTL

\* A cached client outlives the turn that created it, its callbacks go to the turn
\* that runs: the hook one of them finds is never that of another turn.  (The
\* request is registered a step later, when the turn may just have ended.)
THEOREM HooksRoutedLive == Spec => HookOfLiveTurn
<1>1. Init => HookInv
  <2> SUFFICES ASSUME Init PROVE HookInv
    OBVIOUS
  <2>1. EscalationsTypeOK
    BY EscalationsStart DEF Init, EscalationsInv
  <2> QED
    BY <2>1 DEF Init, HookInv, HookOfTurn, EscalationsInit, NewAsk, RunsOn
<1>2. Init => EscalationsInv
  BY EscalationsStart DEF Init
<1>3. EscalationsInv /\ [Next]_vars => EscalationsInv'
  BY EscalationsMove, EscalationsStep
<1>4. EscalationsInv' => EscalationsTypeOK'
  BY DEF EscalationsInv
<1>5. HookInv /\ EscalationsTypeOK' /\ [Next]_vars => HookInv'
  BY HookStep
<1>6. HookInv /\ [Next]_vars =>
         [\A id \in Escalation :
            ask[id].pc = "started" /\ ask'[id].pc = "found" =>
               phase = "running" /\ runner = "claude-code" /\ ask'[id].hook = turn]_vars
  BY FoundHook
<1> QED
  BY <1>1, <1>2, <1>3, <1>4, <1>5, <1>6, PTL DEF Spec, HookOfLiveTurn

-----------------------------------------------------------------------------
(* Sequences of sequences, flattened: f[i] is what the first i make.       *)

Flattens(f, ss, n) ==
    \A i \in 1..n : f[i] = IF i = 1 THEN ss[i] ELSE f[i - 1] \o ss[i]

Agree(f, g, n) == \A i \in 1..n : f[i] = g[i]

LEMMA FlattenExists ==
  ASSUME NEW T, NEW ss \in Seq(Seq(T))
  PROVE  \E f \in [1..Len(ss) -> Seq(T)] : Flattens(f, ss, Len(ss))
<1> DEFINE Bad == {m \in 0..Len(ss) : ~ \E f \in [1..m -> Seq(T)] : Flattens(f, ss, m)}
<1>1. SUFFICES ASSUME Bad # {} PROVE FALSE
  BY Len(ss) \in Nat
<1>2. PICK m \in Bad : \A j \in Bad : m <= j
  <2>1. Bad \in SUBSET Nat
    OBVIOUS
  <2> HIDE DEF Bad
  <2> QED
    BY <1>1, <2>1, LeastPosition
<1>3. m # 0
  <2>1. Flattens(<< >>, ss, 0) /\ << >> \in [1..0 -> Seq(T)]
    BY DEF Flattens
  <2>2. 0 \notin Bad
    BY <2>1
  <2> QED
    BY <1>2, <2>2
<1>4. m \in 1..Len(ss) /\ m - 1 \in 0..Len(ss) /\ m - 1 \notin Bad
  <2>1. Bad \in SUBSET (0..Len(ss)) /\ Len(ss) \in Nat
    OBVIOUS
  <2> HIDE DEF Bad
  <2> QED
    BY <1>2, <1>3, <2>1
<1>5. PICK f \in [1..(m - 1) -> Seq(T)] : Flattens(f, ss, m - 1)
  BY <1>4
<1> DEFINE last == IF m = 1 THEN ss[m] ELSE f[m - 1] \o ss[m]
           g == [i \in 1..m |-> IF i < m THEN f[i] ELSE last]
<1>6. last \in Seq(T)
  <2>1. ss[m] \in Seq(T)
    BY <1>4
  <2>2. CASE m # 1
    <3>1. f[m - 1] \in Seq(T)
      BY <1>4, <1>5, <2>2
    <3> QED
      BY <2>1, <2>2, <3>1, ConcatProperties
  <2> QED
    BY <2>1, <2>2
<1> HIDE DEF last
<1>7. g \in [1..m -> Seq(T)]
  BY <1>4, <1>5, <1>6
<1>8. Flattens(g, ss, m)
  <2> SUFFICES ASSUME NEW i \in 1..m
               PROVE  g[i] = IF i = 1 THEN ss[i] ELSE g[i - 1] \o ss[i]
    BY DEF Flattens
  <2>1. CASE i < m
    <3>1. i \in 1..(m - 1) /\ (i # 1 => i - 1 \in 1..m /\ i - 1 < m)
      BY <1>4, <2>1
    <3> QED
      BY <1>5, <2>1, <3>1 DEF Flattens
  <2>2. CASE i = m
    <3>1. m # 1 => m - 1 \in 1..m /\ m - 1 < m
      BY <1>4
    <3> QED
      BY <2>2, <3>1 DEF last
  <2> QED
    BY <1>4, <2>1, <2>2
<1> QED
  BY <1>2, <1>7, <1>8

LEMMA FlattenUnique ==
  ASSUME NEW ss, NEW tt, NEW n \in Nat, NEW f, NEW g, Flattens(f, ss, n), Flattens(g, tt, n),
         Agree(ss, tt, n)
  PROVE  Agree(f, g, n)
<1> DEFINE Bad == {i \in 1..n : f[i] # g[i]}
<1>1. SUFFICES ASSUME Bad # {} PROVE FALSE
  BY DEF Agree
<1>2. PICK m \in Bad : \A j \in Bad : m <= j
  <2>1. Bad \in SUBSET Nat
    OBVIOUS
  <2> HIDE DEF Bad
  <2> QED
    BY <1>1, <2>1, LeastPosition
<1>3. m # 1 => m - 1 \in 1..n /\ m - 1 \notin Bad
  BY <1>2
<1> QED
  BY <1>2, <1>3 DEF Flattens, Agree

\* What FlattenSeq is, as its recursion defines it.
LEMMA FlattenSeqIs ==
  ASSUME NEW T, NEW ss \in Seq(Seq(T)), NEW f, DOMAIN f = 1..Len(ss), f = [i \in DOMAIN f |-> f[i]],
         Flattens(f, ss, Len(ss)), ss # << >>
  PROVE  FlattenSeq(ss) = f[Len(ss)]
<1> DEFINE Def(g) == [i \in 1..Len(ss) |-> IF i = 1 THEN ss[i] ELSE g[i - 1] \o ss[i]]
           h == CHOOSE g : g = Def(g)
<1>1. FlattenSeq(ss) = h[Len(ss)]
  <2>1. Len(ss) # 0
    OBVIOUS
  <2> QED
    BY <2>1 DEF FlattenSeq
<1>2. f = Def(f)
  <2>1. \A i \in 1..Len(ss) : f[i] = Def(f)[i]
    BY DEF Flattens
  <2> HIDE DEF Def
  <2>2. DOMAIN Def(f) = 1..Len(ss) /\ Def(f) = [i \in 1..Len(ss) |-> Def(f)[i]]
    BY DEF Def
  <2> QED
    BY <2>1, <2>2
<1>3. h = Def(h)
  <2> HIDE DEF Def
  <2> QED
    BY <1>2
<1>4. Flattens(h, ss, Len(ss))
  <2>1. \A i \in 1..Len(ss) : h[i] = Def(h)[i]
    <3> HIDE DEF h, Def
    <3> QED
      BY <1>3
  <2> HIDE DEF h
  <2> QED
    BY <2>1 DEF Flattens
<1>5. Len(ss) \in 1..Len(ss) /\ Len(ss) \in Nat
  BY Len(ss) \in Nat
<1> HIDE DEF h
<1>6. Agree(ss, ss, Len(ss))
  BY DEF Agree
<1>7. Agree(f, h, Len(ss))
  BY <1>4, <1>5, <1>6, FlattenUnique
<1> QED
  BY <1>1, <1>5, <1>7 DEF Agree

\* tt is ss and one more.
OneMore(ss, tt) == Len(tt) = Len(ss) + 1 /\ Agree(tt, ss, Len(ss))

\* One more sequence at the end.
LEMMA FlattenMore ==
  ASSUME NEW T, NEW ss \in Seq(Seq(T)), NEW tt \in Seq(Seq(T)), OneMore(ss, tt)
  PROVE  FlattenSeq(ss) \in Seq(T) /\ FlattenSeq(tt) = FlattenSeq(ss) \o tt[Len(tt)]
<1> USE DEF OneMore
<1> DEFINE n == Len(ss)
<1>1. n \in Nat /\ tt # << >> /\ Len(tt) = n + 1 /\ tt[n + 1] \in Seq(T)
  OBVIOUS
<1>2. PICK f \in [1..n -> Seq(T)] : Flattens(f, ss, n)
  BY FlattenExists
<1>3. PICK g \in [1..(n + 1) -> Seq(T)] : Flattens(g, tt, n + 1)
  BY <1>1, FlattenExists
<1>4. FlattenSeq(tt) = g[n + 1]
  BY <1>1, <1>3, FlattenSeqIs
<1>5. CASE n = 0
  <2>1. FlattenSeq(ss) = << >>
    BY <1>5 DEF FlattenSeq
  <2>2. g[n + 1] = tt[n + 1]
    BY <1>3, <1>5 DEF Flattens
  <2>3. << >> \o tt[n + 1] = tt[n + 1]
    BY <1>1, ConcatEmptySeq
  <2> QED
    BY <1>1, <1>4, <2>1, <2>2, <2>3
<1>6. CASE n # 0
  <2>1. FlattenSeq(ss) = f[n]
    BY <1>1, <1>2, <1>6, FlattenSeqIs
  <2>2. Flattens(g, tt, n)
    <3>1. \A i \in 1..n : i \in 1..(n + 1)
      BY <1>1
    <3> QED
      BY <1>3, <3>1 DEF Flattens
  <2>3. Agree(f, g, n)
    <3>1. Agree(ss, tt, n)
      BY DEF OneMore, Agree
    <3> HIDE DEF n
    <3> QED
      BY <1>1, <1>2, <2>2, <3>1, FlattenUnique
  <2>4. n \in 1..n /\ n + 1 # 1 /\ n + 1 \in 1..(n + 1) /\ (n + 1) - 1 = n
    BY <1>1, <1>6
  <2>5. g[n + 1] = g[n] \o tt[n + 1]
    BY <1>3, <2>4 DEF Flattens
  <2> QED
    BY <1>1, <1>2, <1>4, <2>1, <2>3, <2>4, <2>5 DEF Agree
<1> QED
  BY <1>5, <1>6

LEMMA ConcatThree ==
  \A S : \A s, t, u \in Seq(S) : (s \o t) \o u = s \o (t \o u)
BY ConcatAssociative

LEMMA FlattenEmpty == FlattenSeq(<< >>) = << >>
BY DEF FlattenSeq

LEMMA FrontOf ==
  ASSUME NEW S, NEW s \in Seq(S), s # << >>
  PROVE  \E front \in Seq(S) : OneMore(front, s)
<1>1. PICK front \in Seq(S), x \in S : s = Append(front, x)
  BY SequenceEmptyOrAppend
<1> QED
  BY <1>1 DEF OneMore, Agree

\* The last of the sequences grows.
LEMMA FlattenLast ==
  ASSUME NEW T, NEW ss \in Seq(Seq(T)), NEW tt \in Seq(Seq(T)), NEW x \in Seq(T),
         ss # << >>, Len(tt) = Len(ss), \A i \in 1..(Len(ss) - 1) : tt[i] = ss[i],
         tt[Len(ss)] = ss[Len(ss)] \o x
  PROVE  FlattenSeq(ss) \in Seq(T) /\ FlattenSeq(tt) = FlattenSeq(ss) \o x
<1> DEFINE L == Seq(T)
<1>1. PICK front \in Seq(L) : OneMore(front, ss)
  <2>1. ss \in Seq(L)
    OBVIOUS
  <2> HIDE DEF L
  <2> QED
    BY <2>1, FrontOf
<1>2. /\ FlattenSeq(front) \in Seq(T)
      /\ FlattenSeq(ss) = FlattenSeq(front) \o ss[Len(ss)]
  BY <1>1, FlattenMore
<1>3. OneMore(front, tt)
  <2>1. Len(front) \in Nat /\ Len(front) = Len(ss) - 1
    BY <1>1 DEF OneMore
  <2> QED
    BY <1>1, <2>1 DEF OneMore, Agree
<1>4. FlattenSeq(tt) = FlattenSeq(front) \o tt[Len(tt)]
  BY <1>1, <1>3, FlattenMore
<1>5. ss[Len(ss)] \in Seq(T)
  <2>1. Len(ss) \in DOMAIN ss
    OBVIOUS
  <2> QED
    BY <2>1
<1>6. FlattenSeq(ss) \in Seq(T)
  BY <1>2, <1>5, ConcatProperties
<1>7. FlattenSeq(tt) = FlattenSeq(front) \o (ss[Len(ss)] \o x)
  BY <1>4
<1> DEFINE a == FlattenSeq(front)
           b == ss[Len(ss)]
<1>8. a \in Seq(T) /\ b \in Seq(T) /\ FlattenSeq(ss) = a \o b /\ FlattenSeq(tt) = a \o (b \o x)
  BY <1>2, <1>5, <1>7
<1> HIDE DEF a, b
<1>9. (a \o b) \o x = a \o (b \o x)
  <2>1. a \in Seq(T) /\ b \in Seq(T) /\ x \in Seq(T)
    BY <1>8
  <2> QED
    BY ONLY <2>1, ConcatThree
<1> QED
  BY <1>6, <1>8, <1>9

\* What is in it: what is in one of the sequences.
LEMMA FlattenRange ==
  ASSUME NEW T, NEW ss \in Seq(Seq(T))
  PROVE  /\ FlattenSeq(ss) \in Seq(T)
         /\ Range(FlattenSeq(ss)) = UNION {Range(ss[i]) : i \in DOMAIN ss}
<1> DEFINE L == Seq(T)
           All(s) == UNION {Range(s[i]) : i \in DOMAIN s}
           Good(s) == FlattenSeq(s) \in L /\ Range(FlattenSeq(s)) = All(s)
           Bad == {n \in Nat : \E s \in Seq(L) : Len(s) = n /\ ~ Good(s)}
<1>1. SUFFICES ASSUME Bad # {} PROVE FALSE
  <2>1. ss \in Seq(L) /\ Len(ss) \in Nat
    OBVIOUS
  <2>2. Good(ss)
    <3> HIDE DEF Good, L
    <3> QED
      BY <2>1, Bad = {}
  <2> QED
    BY <2>2
<1>2. PICK n \in Bad : \A m \in Bad : n <= m
  <2>1. Bad \in SUBSET Nat
    OBVIOUS
  <2> HIDE DEF Bad
  <2> QED
    BY <1>1, <2>1, LeastPosition
<1>3. PICK s \in Seq(L) : Len(s) = n /\ ~ Good(s)
  <2> HIDE DEF Good, L
  <2> QED
    BY <1>2
<1>4. s # << >>
  <2>1. << >> \in L /\ Range(<< >>) = {} /\ All(<< >>) = {}
    BY DEF Range
  <2>2. Good(<< >>)
    BY <2>1, FlattenEmpty
  <2> HIDE DEF Good
  <2> QED
    BY <1>3, <2>2
<1>5. PICK front \in Seq(L) : OneMore(front, s)
  <2> HIDE DEF L
  <2> QED
    BY <1>4, FrontOf
<1>6. Good(front)
  <2>1. Len(front) \in Nat /\ Len(front) < n
    BY <1>3, <1>5 DEF OneMore
  <2>2. Len(front) \notin Bad
    <3>1. n \in Nat
      OBVIOUS
    <3> HIDE DEF Bad
    <3> QED
      BY <1>2, <2>1, <3>1
  <2> HIDE DEF Good, L
  <2> QED
    BY <2>1, <2>2
<1>7. /\ FlattenSeq(s) = FlattenSeq(front) \o s[Len(s)]
      /\ FlattenSeq(front) \in L /\ s[Len(s)] \in L
  <2>1. s[Len(s)] \in L
    <3> HIDE DEF L
    <3> QED
      BY <1>4, Len(s) \in DOMAIN s
  <2>2. s \in Seq(Seq(T)) /\ front \in Seq(Seq(T))
    OBVIOUS
  <2> HIDE DEF L
  <2>3. FlattenSeq(front) \in Seq(T) /\ FlattenSeq(s) = FlattenSeq(front) \o s[Len(s)]
    BY <1>5, <2>2, FlattenMore
  <2> QED
    BY <2>1, <2>3 DEF L
<1>8. FlattenSeq(s) \in L /\ Range(FlattenSeq(s)) = Range(FlattenSeq(front)) \cup Range(s[Len(s)])
  BY <1>7, ConcatProperties, RangeConcatenation
<1>9. All(s) = All(front) \cup Range(s[Len(s)])
  <2>1. /\ Len(s) = Len(front) + 1 /\ Len(front) \in Nat
        /\ DOMAIN s = 1..Len(s) /\ DOMAIN front = 1..Len(front)
    BY <1>5 DEF OneMore
  <2>2. DOMAIN s = DOMAIN front \cup {Len(s)} /\ \A i \in DOMAIN front : s[i] = front[i]
    <3> HIDE DEF L
    <3> QED
      BY <1>5, <2>1 DEF OneMore, Agree
  <2> QED
    BY <2>2
<1> QED
  BY <1>3, <1>6, <1>8, <1>9
-----------------------------------------------------------------------------
(* The record.                                                             *)

Id == Nat \X Nat
Word == [round : Nat, broken : BOOLEAN]
Act == [id : Id, result : Id \cup {NoResult}]
Segment == [kind : {"text", "tools"}, texts : Seq(Word), acts : Seq(Act)]

\* The calls that have an entry.
Entries(s) == {x \in Id : \E k \in DOMAIN s : \E j \in DOMAIN s[k].acts : s[k].acts[j].id = x}

\* A segment holds texts or calls.
OneKind(s) ==
    \A k \in DOMAIN s :
       /\ s[k].kind = "text" => s[k].acts = << >>
       /\ s[k].kind = "tools" => s[k].texts = << >> /\ s[k].acts # << >>

\* Every entry has its own call's result or is where pending says.
Slotted(s, p) ==
    /\ \A id \in DOMAIN p :
          /\ id \in Id
          /\ p[id].seg \in DOMAIN s /\ p[id].act \in DOMAIN s[p[id].seg].acts
          /\ s[p[id].seg].acts[p[id].act].id = id
          /\ s[p[id].seg].acts[p[id].act].result = NoResult
    /\ \A k \in DOMAIN s : \A j \in DOMAIN s[k].acts :
          \/ s[k].acts[j].result = s[k].acts[j].id
          \/ /\ s[k].acts[j].result = NoResult
             /\ s[k].acts[j].id \in DOMAIN p
             /\ p[s[k].acts[j].id].seg = k /\ p[s[k].acts[j].id].act = j

RecordInv ==
    /\ segments \in Seq(Segment)
    /\ OneKind(segments)
    /\ Slotted(segments, pending)
    /\ RecordInOrder

\* tt is ss with x at its end, in a sequence of its own or in the last.
Grows(ss, tt, x) ==
    \/ OneMore(ss, tt) /\ tt[Len(tt)] = x
    \/ /\ ss # << >> /\ Len(tt) = Len(ss)
       /\ Agree(tt, ss, Len(ss) - 1)
       /\ tt[Len(ss)] = ss[Len(ss)] \o x

LEMMA FlattenGrows ==
  ASSUME NEW T, NEW ss \in Seq(Seq(T)), NEW tt \in Seq(Seq(T)), NEW x \in Seq(T),
         Grows(ss, tt, x)
  PROVE  FlattenSeq(ss) \in Seq(T) /\ FlattenSeq(tt) = FlattenSeq(ss) \o x
<1>1. CASE OneMore(ss, tt) /\ tt[Len(tt)] = x
  BY <1>1, FlattenMore
<1>2. CASE /\ ss # << >> /\ Len(tt) = Len(ss)
           /\ Agree(tt, ss, Len(ss) - 1)
           /\ tt[Len(ss)] = ss[Len(ss)] \o x
  <2>1. \A i \in 1..(Len(ss) - 1) : tt[i] = ss[i]
    BY <1>2 DEF Agree
  <2> QED
    BY <1>2, <2>1, FlattenLast
<1> QED
  BY <1>1, <1>2 DEF Grows

-----------------------------------------------------------------------------
(* Segments that grow.                                                     *)

ActsOf(s) == [k \in DOMAIN s |-> s[k].acts]
TextsOf(s) == [k \in DOMAIN s |-> s[k].texts]
WordsOf(texts) == [j \in DOMAIN texts |-> Words(texts[j])]
CallsOf(acts) == [j \in DOMAIN acts |-> CallOf(acts[j].id)]
EventsOf(s) == [k \in DOMAIN s |-> WordsOf(s[k].texts) \o CallsOf(s[k].acts)]

Event == [kind : {"text"}, text : Word] \cup [kind : {"tools"}, id : Id]

LEMMA NoneYet ==
  /\ << >> \in Seq(Word) /\ << >> \in Seq(Act) /\ << >> \in Seq(Event)
  /\ WordsOf(<< >>) = << >> /\ CallsOf(<< >>) = << >>
BY DEF WordsOf, CallsOf

\* What is named of each of as many.
LEMMA MapSeq ==
  ASSUME NEW T, NEW n \in Nat, NEW u, DOMAIN u = 1..n, u = [j \in DOMAIN u |-> u[j]],
         \A j \in 1..n : u[j] \in T
  PROVE  u \in Seq(T) /\ Len(u) = n
OBVIOUS

LEMMA MapAppend ==
  ASSUME NEW T, NEW n \in Nat, NEW u, NEW v, NEW y \in T,
         DOMAIN u = 1..(n + 1), u = [j \in DOMAIN u |-> u[j]], v \in Seq(T), Len(v) = n,
         Agree(u, v, n), u[n + 1] = y
  PROVE  u = v \o <<y>>
<1> DEFINE w == v \o <<y>>
<1>1. <<y>> \in Seq(T) /\ Len(<<y>>) = 1 /\ <<y>>[1] = y
  OBVIOUS
<1>2. /\ w \in Seq(T) /\ Len(w) = n + 1
      /\ \A j \in 1..(n + 1) : w[j] = IF j <= n THEN v[j] ELSE <<y>>[j - n]
  BY <1>1, ConcatProperties
<1>3. DOMAIN w = 1..(n + 1) /\ w = [j \in DOMAIN w |-> w[j]]
  BY <1>2
<1> HIDE DEF w
<1>4. \A j \in 1..(n + 1) : u[j] = w[j]
  <2>1. ASSUME NEW j \in 1..(n + 1), j <= n PROVE u[j] = w[j]
    BY <1>2, <2>1 DEF Agree
  <2>2. ASSUME NEW j \in 1..(n + 1), ~ (j <= n) PROVE u[j] = w[j]
    <3>1. j = n + 1 /\ j - n = 1
      BY <2>2
    <3> QED
      BY <1>1, <1>2, <2>2, <3>1
  <2> QED
    BY <2>1, <2>2
<1>5. u = w
  BY <1>3, <1>4
<1> QED
  BY <1>5 DEF w

LEMMA WordsEvents ==
  ASSUME NEW ws \in Seq(Word)
  PROVE  WordsOf(ws) \in Seq(Event) /\ Len(WordsOf(ws)) = Len(ws)
<1> DEFINE u == WordsOf(ws)
<1>1. \A j \in DOMAIN ws : Words(ws[j]) \in Event
  BY DEF Words, Event
<1>2. /\ DOMAIN u = 1..Len(ws) /\ Len(ws) \in Nat /\ u = [j \in DOMAIN u |-> u[j]]
      /\ \A j \in 1..Len(ws) : u[j] \in Event
  BY <1>1 DEF WordsOf
<1> HIDE DEF u
<1>3. u \in Seq(Event) /\ Len(u) = Len(ws)
  BY <1>2, MapSeq
<1> QED
  BY <1>3 DEF u

LEMMA CallsEvents ==
  ASSUME NEW acts \in Seq(Act)
  PROVE  CallsOf(acts) \in Seq(Event) /\ Len(CallsOf(acts)) = Len(acts)
<1> DEFINE u == CallsOf(acts)
<1>1. \A j \in DOMAIN acts : acts[j] \in Act
  OBVIOUS
<1>2. \A j \in DOMAIN acts : CallOf(acts[j].id) \in Event
  BY <1>1 DEF CallOf, Event, Act
<1>3. /\ DOMAIN u = 1..Len(acts) /\ Len(acts) \in Nat /\ u = [j \in DOMAIN u |-> u[j]]
      /\ \A j \in 1..Len(acts) : u[j] \in Event
  <2>1. Len(acts) \in Nat /\ DOMAIN acts = 1..Len(acts)
    OBVIOUS
  <2>2. DOMAIN u = DOMAIN acts /\ u = [j \in DOMAIN u |-> u[j]]
    BY DEF CallsOf
  <2>3. \A j \in DOMAIN acts : u[j] = CallOf(acts[j].id)
    BY DEF CallsOf
  <2> HIDE DEF u
  <2> QED
    BY <1>2, <2>1, <2>2, <2>3
<1> HIDE DEF u
<1>4. u \in Seq(Event) /\ Len(u) = Len(acts)
  BY <1>3, MapSeq
<1> QED
  BY <1>4 DEF u

LEMMA WordsAppend ==
  ASSUME NEW ws \in Seq(Word), NEW x \in Word
  PROVE  WordsOf(ws \o <<x>>) = WordsOf(ws) \o <<Words(x)>>
<1> DEFINE u == WordsOf(ws \o <<x>>)
           v == WordsOf(ws)
           y == Words(x)
           n == Len(ws)
           z == ws \o <<x>>
<1>1. n \in Nat /\ DOMAIN ws = 1..n /\ y \in Event
  BY DEF Words, Event
<1>2. DOMAIN z = 1..(n + 1) /\ (\A j \in 1..n : z[j] = ws[j]) /\ z[n + 1] = x
  OBVIOUS
<1>3. v \in Seq(Event) /\ Len(v) = n
  BY WordsEvents
<1>4. /\ DOMAIN u = DOMAIN z /\ u = [j \in DOMAIN u |-> u[j]]
      /\ \A j \in DOMAIN z : u[j] = Words(z[j])
      /\ \A j \in DOMAIN ws : v[j] = Words(ws[j])
  BY DEF WordsOf
<1> HIDE DEF u, v, n, z
<1>5. Agree(u, v, n) /\ u[n + 1] = y
  <2>1. n + 1 \in 1..(n + 1) /\ \A j \in 1..n : j \in 1..(n + 1)
    BY <1>1
  <2> QED
    BY <1>1, <1>2, <1>4, <2>1 DEF Agree
<1> HIDE DEF y
<1>6. u = v \o <<y>>
  BY <1>1, <1>2, <1>3, <1>4, <1>5, MapAppend
<1> QED
  BY <1>6 DEF u, v, y

LEMMA CallsAppend ==
  ASSUME NEW acts \in Seq(Act), NEW x \in Act
  PROVE  CallsOf(acts \o <<x>>) = CallsOf(acts) \o <<CallOf(x.id)>>
<1> DEFINE u == CallsOf(acts \o <<x>>)
           v == CallsOf(acts)
           y == CallOf(x.id)
           n == Len(acts)
           z == acts \o <<x>>
<1>1. n \in Nat /\ DOMAIN acts = 1..n /\ y \in Event
  BY DEF CallOf, Act, Event
<1>2. DOMAIN z = 1..(n + 1) /\ (\A j \in 1..n : z[j] = acts[j]) /\ z[n + 1] = x
  OBVIOUS
<1>3. v \in Seq(Event) /\ Len(v) = n
  BY CallsEvents
<1>4. /\ DOMAIN u = DOMAIN z /\ u = [j \in DOMAIN u |-> u[j]]
      /\ \A j \in DOMAIN z : u[j] = CallOf(z[j].id)
      /\ \A j \in DOMAIN acts : v[j] = CallOf(acts[j].id)
  BY DEF CallsOf
<1> HIDE DEF u, v, n, z
<1>5. Agree(u, v, n) /\ u[n + 1] = y
  <2>1. n + 1 \in 1..(n + 1) /\ \A j \in 1..n : j \in 1..(n + 1)
    BY <1>1
  <2> QED
    BY <1>1, <1>2, <1>4, <2>1 DEF Agree
<1> HIDE DEF y
<1>6. u = v \o <<y>>
  BY <1>1, <1>2, <1>3, <1>4, <1>5, MapAppend
<1> QED
  BY <1>6 DEF u, v, y

LEMMA SegmentAt ==
  ASSUME NEW s \in Seq(Segment), NEW k \in DOMAIN s
  PROVE  /\ s[k] \in Segment
         /\ s[k].kind \in {"text", "tools"}
         /\ s[k].texts \in Seq(Word)
         /\ s[k].acts \in Seq(Act)
<1>1. s[k] \in Segment
  OBVIOUS
<1> QED
  BY <1>1 DEF Segment

LEMMA SegmentWith ==
  ASSUME NEW seg \in Segment, NEW v
  PROVE  /\ [seg EXCEPT !.acts = v] = [kind |-> seg.kind, texts |-> seg.texts, acts |-> v]
         /\ [seg EXCEPT !.texts = v] = [kind |-> seg.kind, texts |-> v, acts |-> seg.acts]
<1>1. seg = [kind |-> seg.kind, texts |-> seg.texts, acts |-> seg.acts]
  BY DEF Segment
<1> QED
  BY <1>1

LEMMA SegmentParts ==
  ASSUME NEW s \in Seq(Segment)
  PROVE  /\ ActsOf(s) \in Seq(Seq(Act)) /\ TextsOf(s) \in Seq(Seq(Word))
         /\ EventsOf(s) \in Seq(Seq(Event))
         /\ Len(ActsOf(s)) = Len(s) /\ Len(TextsOf(s)) = Len(s) /\ Len(EventsOf(s)) = Len(s)
<1>1. Len(s) \in Nat /\ DOMAIN s = 1..Len(s)
  OBVIOUS
<1>2. \A k \in DOMAIN s : s[k].acts \in Seq(Act) /\ s[k].texts \in Seq(Word)
  BY SegmentAt
<1>3. ASSUME NEW k \in DOMAIN s
      PROVE  EventsOf(s)[k] \in Seq(Event)
  <2> DEFINE w == WordsOf(s[k].texts)
             c == CallsOf(s[k].acts)
  <2>1. w \in Seq(Event) /\ c \in Seq(Event)
    BY <1>2, WordsEvents, CallsEvents
  <2>2. EventsOf(s)[k] = w \o c
    BY DEF EventsOf
  <2> HIDE DEF w, c
  <2> QED
    BY <2>1, <2>2, ConcatProperties
<1>4. EventsOf(s) \in Seq(Seq(Event)) /\ Len(EventsOf(s)) = Len(s)
  <2> DEFINE E == Seq(Event)
  <2>1. EventsOf(s) = [k \in 1..Len(s) |-> EventsOf(s)[k]]
    BY <1>1 DEF EventsOf
  <2>2. \A k \in 1..Len(s) : EventsOf(s)[k] \in E
    BY <1>1, <1>3
  <2> HIDE DEF E
  <2>3. EventsOf(s) \in Seq(E) /\ Len(EventsOf(s)) = Len(s)
    BY <1>1, <2>1, <2>2, IsASeq
  <2> QED
    BY <2>3 DEF E
<1> QED
  BY <1>1, <1>2, <1>4 DEF ActsOf, TextsOf

\* Texts w and calls a, as events e, come to the end: in a segment of their
\* own, or in the last one.
SegmentsGrow(s, t, w, a, e) ==
    \/ /\ OneMore(s, t)
       /\ t[Len(t)].texts = w /\ t[Len(t)].acts = a /\ EventsOf(t)[Len(t)] = e
    \/ /\ s # << >> /\ Len(t) = Len(s)
       /\ Agree(t, s, Len(s) - 1)
       /\ t[Len(s)].texts = s[Len(s)].texts \o w
       /\ t[Len(s)].acts = s[Len(s)].acts \o a
       /\ EventsOf(t)[Len(s)] = EventsOf(s)[Len(s)] \o e

LEMMA GrownParts ==
  ASSUME NEW s \in Seq(Segment), NEW t \in Seq(Segment),
         NEW w \in Seq(Word), NEW a \in Seq(Act), NEW e \in Seq(Event),
         SegmentsGrow(s, t, w, a, e)
  PROVE  /\ FlattenSeq(TextsOf(s)) \in Seq(Word) /\ FlattenSeq(ActsOf(s)) \in Seq(Act)
         /\ FlattenSeq(EventsOf(s)) \in Seq(Event)
         /\ FlattenSeq(TextsOf(t)) = FlattenSeq(TextsOf(s)) \o w
         /\ FlattenSeq(ActsOf(t)) = FlattenSeq(ActsOf(s)) \o a
         /\ FlattenSeq(EventsOf(t)) = FlattenSeq(EventsOf(s)) \o e
<1>1. /\ Len(s) \in Nat /\ DOMAIN s = 1..Len(s) /\ Len(t) \in Nat /\ DOMAIN t = 1..Len(t)
      /\ (s # << >> => Len(s) \in DOMAIN s) /\ (t # << >> => Len(t) \in DOMAIN t)
  OBVIOUS
<1>2. /\ \A i \in DOMAIN s : ActsOf(s)[i] = s[i].acts /\ TextsOf(s)[i] = s[i].texts
      /\ \A i \in DOMAIN t : ActsOf(t)[i] = t[i].acts /\ TextsOf(t)[i] = t[i].texts
  BY DEF ActsOf, TextsOf
<1>3. \A i \in DOMAIN s : i \in DOMAIN t /\ t[i] = s[i] => EventsOf(t)[i] = EventsOf(s)[i]
  BY DEF EventsOf
<1>4. /\ ActsOf(s) \in Seq(Seq(Act)) /\ TextsOf(s) \in Seq(Seq(Word))
      /\ EventsOf(s) \in Seq(Seq(Event))
      /\ Len(ActsOf(s)) = Len(s) /\ Len(TextsOf(s)) = Len(s) /\ Len(EventsOf(s)) = Len(s)
  BY SegmentParts
<1>5. /\ ActsOf(t) \in Seq(Seq(Act)) /\ TextsOf(t) \in Seq(Seq(Word))
      /\ EventsOf(t) \in Seq(Seq(Event))
      /\ Len(ActsOf(t)) = Len(t) /\ Len(TextsOf(t)) = Len(t) /\ Len(EventsOf(t)) = Len(t)
  BY SegmentParts
<1> DEFINE tx == TextsOf(s)
           ty == TextsOf(t)
           ax == ActsOf(s)
           ay == ActsOf(t)
           ex == EventsOf(s)
           ey == EventsOf(t)
<1>6. /\ \A i \in DOMAIN s : ax[i] = s[i].acts /\ tx[i] = s[i].texts
      /\ \A i \in DOMAIN t : ay[i] = t[i].acts /\ ty[i] = t[i].texts
      /\ \A i \in DOMAIN s : i \in DOMAIN t /\ t[i] = s[i] =>
            ay[i] = ax[i] /\ ty[i] = tx[i] /\ ey[i] = ex[i]
  BY <1>2, <1>3
<1>7. SegmentsGrow(s, t, w, a, e) <=>
         \/ /\ OneMore(s, t)
            /\ t[Len(t)].texts = w /\ t[Len(t)].acts = a /\ ey[Len(t)] = e
         \/ /\ s # << >> /\ Len(t) = Len(s)
            /\ Agree(t, s, Len(s) - 1)
            /\ t[Len(s)].texts = s[Len(s)].texts \o w
            /\ t[Len(s)].acts = s[Len(s)].acts \o a
            /\ ey[Len(s)] = ex[Len(s)] \o e
  BY DEF SegmentsGrow
<1>8. /\ Len(tx) = Len(s) /\ Len(ax) = Len(s) /\ Len(ex) = Len(s)
      /\ Len(ty) = Len(t) /\ Len(ay) = Len(t) /\ Len(ey) = Len(t)
      /\ s # << >> => tx # << >> /\ ax # << >> /\ ex # << >>
  BY <1>1, <1>4, <1>5
<1> HIDE DEF tx, ty, ax, ay, ex, ey
<1>9. Grows(tx, ty, w) /\ Grows(ax, ay, a) /\ Grows(ex, ey, e)
  <2>1. CASE /\ OneMore(s, t)
             /\ t[Len(t)].texts = w /\ t[Len(t)].acts = a /\ ey[Len(t)] = e
    <3>1. \A i \in 1..Len(s) : i \in DOMAIN s /\ i \in DOMAIN t /\ t[i] = s[i]
      BY <1>1, <2>1 DEF OneMore, Agree
    <3>2. Len(t) = Len(s) + 1 /\ Len(t) \in DOMAIN t
      BY <1>1, <2>1 DEF OneMore
    <3>3. OneMore(tx, ty) /\ OneMore(ax, ay) /\ OneMore(ex, ey)
      BY <1>6, <1>8, <3>1, <3>2 DEF OneMore, Agree
    <3>4. ty[Len(ty)] = w /\ ay[Len(ay)] = a /\ ey[Len(ey)] = e
      BY <1>6, <1>8, <2>1, <3>2
    <3> QED
      BY <3>3, <3>4 DEF Grows
  <2>2. CASE /\ s # << >> /\ Len(t) = Len(s)
             /\ Agree(t, s, Len(s) - 1)
             /\ t[Len(s)].texts = s[Len(s)].texts \o w
             /\ t[Len(s)].acts = s[Len(s)].acts \o a
             /\ ey[Len(s)] = ex[Len(s)] \o e
    <3>1. \A i \in 1..(Len(s) - 1) : i \in DOMAIN s /\ i \in DOMAIN t /\ t[i] = s[i]
      BY <1>1, <2>2 DEF Agree
    <3>2. Len(s) \in DOMAIN s /\ Len(s) \in DOMAIN t
      BY <1>1, <2>2
    <3>3. /\ Agree(ty, tx, Len(s) - 1) /\ Agree(ay, ax, Len(s) - 1)
          /\ Agree(ey, ex, Len(s) - 1)
      BY <1>6, <3>1 DEF Agree
    <3>4. /\ ty[Len(s)] = tx[Len(s)] \o w /\ ay[Len(s)] = ax[Len(s)] \o a
          /\ ey[Len(s)] = ex[Len(s)] \o e
      BY <1>6, <2>2, <3>2
    <3> QED
      BY <1>8, <2>2, <3>3, <3>4 DEF Grows
  <2> QED
    BY <1>7, <2>1, <2>2
<1>10. FlattenSeq(tx) \in Seq(Word) /\ FlattenSeq(ty) = FlattenSeq(tx) \o w
  BY <1>4, <1>5, <1>9, FlattenGrows DEF tx, ty
<1>11. FlattenSeq(ax) \in Seq(Act) /\ FlattenSeq(ay) = FlattenSeq(ax) \o a
  BY <1>4, <1>5, <1>9, FlattenGrows DEF ax, ay
<1>12. FlattenSeq(ex) \in Seq(Event) /\ FlattenSeq(ey) = FlattenSeq(ex) \o e
  BY <1>4, <1>5, <1>9, FlattenGrows DEF ex, ey
<1> QED
  BY <1>10, <1>11, <1>12 DEF tx, ty, ax, ay, ex, ey

LEMMA EventsAt ==
  ASSUME NEW s, NEW k \in DOMAIN s
  PROVE  EventsOf(s)[k] = WordsOf(s[k].texts) \o CallsOf(s[k].acts)
BY DEF EventsOf

\* The segment put in the place of the last one, or after it.
PutAtLast(s, t, q) ==
    /\ t \in Seq(Segment) /\ Len(t) = Len(s)
    /\ DOMAIN t = DOMAIN s /\ t[Len(s)] = q
    /\ Agree(t, s, Len(s) - 1)
    /\ \A k \in DOMAIN s : k # Len(s) => t[k] = s[k]

LEMMA PutLast ==
  ASSUME NEW s \in Seq(Segment), s # << >>, NEW q \in Segment
  PROVE  PutAtLast(s, [s EXCEPT ![Len(s)] = q], q)
<1> DEFINE n == Len(s)
           t == [s EXCEPT ![n] = q]
<1>1. n \in 1..n /\ DOMAIN s = 1..n /\ n \in Nat
  OBVIOUS
<1> HIDE DEF n
<1>2. /\ t \in Seq(Segment) /\ DOMAIN t = DOMAIN s /\ t[n] = q
      /\ \A k \in DOMAIN s : k # n => t[k] = s[k]
  BY <1>1
<1>3. Len(t) = n
  BY <1>1, <1>2
<1> HIDE DEF t
<1>4. Agree(t, s, n - 1)
  BY <1>1, <1>2 DEF Agree
<1> QED
  BY <1>2, <1>3, <1>4 DEF PutAtLast, n, t

LEMMA PutNext ==
  ASSUME NEW s \in Seq(Segment), NEW q \in Segment, NEW t, t = Append(s, q)
  PROVE  /\ t \in Seq(Segment) /\ Len(t) = Len(s) + 1 /\ Len(t) \in DOMAIN t
         /\ t[Len(t)] = q /\ OneMore(s, t)
         /\ DOMAIN t = DOMAIN s \cup {Len(t)} /\ Len(t) \notin DOMAIN s
         /\ \A k \in DOMAIN s : t[k] = s[k]
<1>1. /\ t \in Seq(Segment) /\ Len(t) = Len(s) + 1 /\ Len(s) \in Nat
      /\ \A i \in 1..Len(s) : t[i] = s[i] /\ t[Len(s) + 1] = q
      /\ DOMAIN s = 1..Len(s) /\ DOMAIN t = 1..Len(t)
  BY AppendProperties
<1>2. t[Len(s) + 1] = q
  BY AppendProperties
<1> QED
  BY <1>1, <1>2 DEF OneMore, Agree

\* More text for the last segment, or a segment of it.
\* s becomes t by a text.
TextAdded(s, t, x) ==
    /\ t \in Seq(Segment) /\ OneKind(t)
    /\ SegmentsGrow(s, t, <<x>>, << >>, <<Words(x)>>)
    /\ \A k \in DOMAIN s : k \in DOMAIN t /\ t[k].acts = s[k].acts
    /\ \A k \in DOMAIN t : k \in DOMAIN s \/ t[k].acts = << >>

LEMMA TextJoins ==
  ASSUME NEW s \in Seq(Segment), OneKind(s), s # << >>, s[Len(s)].kind = "text",
         NEW x \in Word, NEW q,
         q = [kind |-> "text", texts |-> s[Len(s)].texts \o <<x>>, acts |-> << >>]
  PROVE  TextAdded(s, [s EXCEPT ![Len(s)] = q], x)
<1> DEFINE n == Len(s)
           ws == s[n].texts
           t == [s EXCEPT ![n] = q]
<1>1. n \in DOMAIN s
  OBVIOUS
<1>2. ws \in Seq(Word) /\ s[n].acts = << >> /\ <<x>> \in Seq(Word)
  BY <1>1, SegmentAt DEF OneKind
<1>3. /\ q.kind = "text" /\ q.texts = ws \o <<x>> /\ q.acts = << >>
      /\ q \in Segment
  BY <1>2, NoneYet, ConcatProperties DEF Segment
<1>4. PutAtLast(s, t, q)
  BY <1>3, PutLast
<1> HIDE DEF t
<1>5. /\ t \in Seq(Segment) /\ Len(t) = n /\ DOMAIN t = DOMAIN s /\ t[n] = q
      /\ Agree(t, s, n - 1) /\ \A k \in DOMAIN s : k # n => t[k] = s[k]
  BY <1>4 DEF PutAtLast
<1>6. EventsOf(t)[n] = EventsOf(s)[n] \o <<Words(x)>>
  <2>1. EventsOf(t)[n] = WordsOf(ws \o <<x>>) \o << >> /\ EventsOf(s)[n] = WordsOf(ws) \o << >>
    <3>1. /\ EventsOf(t)[n] = WordsOf(t[n].texts) \o CallsOf(t[n].acts)
          /\ EventsOf(s)[n] = WordsOf(s[n].texts) \o CallsOf(s[n].acts)
      BY <1>1, <1>5, EventsAt
    <3> QED
      BY <1>2, <1>3, <1>5, <3>1, NoneYet
  <2>2. /\ WordsOf(ws) \in Seq(Event) /\ WordsOf(ws \o <<x>>) \in Seq(Event)
    BY <1>2, ConcatProperties, WordsEvents
  <2>3. EventsOf(t)[n] = WordsOf(ws \o <<x>>) /\ EventsOf(s)[n] = WordsOf(ws)
    BY <2>1, <2>2, ConcatEmptySeq
  <2> QED
    BY <1>2, <2>3, WordsAppend
<1>7. << >> = s[n].acts \o << >>
  BY <1>2
<1>8. SegmentsGrow(s, t, <<x>>, << >>, <<Words(x)>>)
  BY <1>3, <1>5, <1>6, <1>7 DEF SegmentsGrow
<1>9. OneKind(t)
  BY <1>3, <1>5 DEF OneKind
<1> QED
  BY <1>2, <1>3, <1>5, <1>8, <1>9 DEF TextAdded, t

LEMMA TextStarts ==
  ASSUME NEW s \in Seq(Segment), OneKind(s), NEW x \in Word
  PROVE  TextAdded(s, Append(s, TextSegment(x)), x)
<1> DEFINE q == TextSegment(x)
           t == Append(s, q)
<1>1. <<x>> \in Seq(Word) /\ <<Words(x)>> \in Seq(Event)
  BY DEF Words, Event
<1>2. q \in Segment /\ q.texts = <<x>> /\ q.acts = << >> /\ q.kind = "text"
  BY <1>1, NoneYet DEF TextSegment, Segment
<1> HIDE DEF q
<1>3. /\ t \in Seq(Segment) /\ Len(t) \in DOMAIN t
      /\ t[Len(t)] = q /\ OneMore(s, t)
      /\ DOMAIN t = DOMAIN s \cup {Len(t)}
      /\ \A k \in DOMAIN s : t[k] = s[k]
  BY <1>2, PutNext
<1> HIDE DEF t
<1>4. EventsOf(t)[Len(t)] = <<Words(x)>>
  <2>1. WordsOf(<<x>>) = <<Words(x)>>
    BY DEF WordsOf
  <2>2. EventsOf(t)[Len(t)] = <<Words(x)>> \o << >>
    BY <1>2, <1>3, <2>1, EventsAt, NoneYet
  <2> QED
    BY <1>1, <2>2, ConcatEmptySeq
<1>5. SegmentsGrow(s, t, <<x>>, << >>, <<Words(x)>>)
  BY <1>2, <1>3, <1>4 DEF SegmentsGrow
<1>6. OneKind(t)
  BY <1>2, <1>3 DEF OneKind
<1> QED
  BY <1>2, <1>3, <1>5, <1>6 DEF TextAdded, t, q

Asked(id) == [id |-> id, result |-> NoResult]

\* t has the entries of s, and one for id where LatestSlot says.
NewEntry(s, t, id) ==
    /\ \A k \in DOMAIN s : k \in DOMAIN t
    /\ \A k \in DOMAIN s : \A j \in DOMAIN s[k].acts :
          j \in DOMAIN t[k].acts /\ t[k].acts[j] = s[k].acts[j]
    /\ LatestSlot(t).seg \in DOMAIN t /\ LatestSlot(t).act \in DOMAIN t[LatestSlot(t).seg].acts
    /\ t[LatestSlot(t).seg].acts[LatestSlot(t).act] = Asked(id)
    /\ \A k \in DOMAIN t : \A j \in DOMAIN t[k].acts :
          \/ k = LatestSlot(t).seg /\ j = LatestSlot(t).act
          \/ k \in DOMAIN s /\ j \in DOMAIN s[k].acts
    /\ ~ (LatestSlot(t).seg \in DOMAIN s /\ LatestSlot(t).act \in DOMAIN s[LatestSlot(t).seg].acts)

CallAdded(s, t, id) ==
    /\ t \in Seq(Segment) /\ OneKind(t)
    /\ SegmentsGrow(s, t, << >>, <<Asked(id)>>, <<CallOf(id)>>)
    /\ NewEntry(s, t, id)

LEMMA AskedAct ==
  ASSUME NEW id \in Id
  PROVE  /\ Asked(id) \in Act /\ <<Asked(id)>> \in Seq(Act) /\ <<CallOf(id)>> \in Seq(Event)
         /\ Asked(id).id = id /\ Asked(id).result = NoResult
BY DEF Asked, Act, CallOf, Event

LEMMA CallJoins ==
  ASSUME NEW s \in Seq(Segment), OneKind(s), s # << >>, s[Len(s)].kind = "tools",
         NEW id \in Id, NEW q,
         q = [kind |-> "tools", texts |-> << >>, acts |-> s[Len(s)].acts \o <<Asked(id)>>]
  PROVE  CallAdded(s, [s EXCEPT ![Len(s)] = q], id)
<1> DEFINE n == Len(s)
           acts == s[n].acts
           a == Asked(id)
           t == [s EXCEPT ![n] = q]
<1>1. n \in Nat /\ DOMAIN s = 1..n /\ n \in DOMAIN s
  OBVIOUS
<1>2. a \in Act /\ <<a>> \in Seq(Act) /\ a.id = id
  BY AskedAct
<1>3. acts \in Seq(Act) /\ s[n].texts = << >>
  BY <1>1, SegmentAt DEF OneKind
<1> HIDE DEF a
<1>4. /\ q.kind = "tools" /\ q.texts = << >> /\ q.acts = acts \o <<a>>
      /\ q.acts \in Seq(Act) /\ Len(q.acts) = Len(acts) + 1
      /\ Len(acts) \in Nat /\ DOMAIN acts = 1..Len(acts) /\ DOMAIN q.acts = 1..(Len(acts) + 1)
      /\ \A j \in DOMAIN acts : q.acts[j] = acts[j]
      /\ q.acts[Len(acts) + 1] = a
  BY <1>2, <1>3 DEF a
<1>5. q \in Segment
  BY <1>4, NoneYet DEF Segment
<1>6. PutAtLast(s, t, q)
  BY <1>5, PutLast
<1>7. s[n].acts = acts /\ acts \in Seq(Act)
  BY <1>3
<1> HIDE DEF t, acts
<1>8. /\ t \in Seq(Segment) /\ Len(t) = n /\ DOMAIN t = DOMAIN s /\ t[n] = q
      /\ Agree(t, s, n - 1) /\ \A k \in DOMAIN s : k # n => t[k] = s[k]
  BY <1>6 DEF PutAtLast
<1>9. EventsOf(t)[n] = EventsOf(s)[n] \o <<CallOf(id)>>
  <2>1. EventsOf(t)[n] = WordsOf(t[n].texts) \o CallsOf(t[n].acts)
    BY <1>1, <1>8, EventsAt
  <2>2. EventsOf(s)[n] = WordsOf(s[n].texts) \o CallsOf(acts)
    BY <1>1, EventsAt DEF acts
  <2>3. EventsOf(t)[n] = << >> \o CallsOf(acts \o <<a>>)
    BY <1>4, <1>8, <2>1, NoneYet
  <2>4. EventsOf(s)[n] = << >> \o CallsOf(acts)
    BY <1>3, <2>2, NoneYet
  <2>5. CallsOf(acts) \in Seq(Event) /\ CallsOf(acts \o <<a>>) \in Seq(Event)
    BY <1>3, <1>4, CallsEvents DEF acts
  <2>6. EventsOf(t)[n] = CallsOf(acts \o <<a>>)
    BY <2>3, <2>5, ConcatEmptySeq
  <2>7. EventsOf(s)[n] = CallsOf(acts)
    BY <2>4, <2>5, ConcatEmptySeq
  <2>8. CallsOf(acts \o <<a>>) = CallsOf(acts) \o <<CallOf(a.id)>>
    BY <1>2, <1>3, CallsAppend DEF acts
  <2> QED
    BY <1>2, <2>6, <2>7, <2>8
<1>10. t[n].texts = s[n].texts \o << >>
  BY <1>3, <1>4, <1>8
<1>11. SegmentsGrow(s, t, << >>, <<a>>, <<CallOf(id)>>)
  BY <1>4, <1>8, <1>9, <1>10 DEF SegmentsGrow, acts
<1>12. OneKind(t)
  BY <1>3, <1>4, <1>8 DEF OneKind
<1>13. LatestSlot(t).seg = n /\ LatestSlot(t).act = Len(acts) + 1
  BY <1>4, <1>8 DEF LatestSlot
<1>14. NewEntry(s, t, id)
  <2>1. ASSUME NEW k \in DOMAIN s, NEW j \in DOMAIN s[k].acts
        PROVE  j \in DOMAIN t[k].acts /\ t[k].acts[j] = s[k].acts[j]
    <3>1. CASE k = n
      <4>1. j \in DOMAIN acts
        BY <1>7, <2>1, <3>1
      <4> QED
        BY <1>4, <1>8, <1>7, <3>1, <4>1
    <3>2. CASE k # n
      BY <1>8, <2>1, <3>2
    <3> QED
      BY <3>1, <3>2
  <2>2. ASSUME NEW k \in DOMAIN t, NEW j \in DOMAIN t[k].acts
        PROVE  (k = n /\ j = Len(acts) + 1) \/ (k \in DOMAIN s /\ j \in DOMAIN s[k].acts)
    <3>1. CASE k = n
      <4>1. j \in 1..(Len(acts) + 1)
        BY <1>4, <1>8, <2>2, <3>1
      <4>2. j = Len(acts) + 1 \/ j \in DOMAIN acts
        BY <1>4, <4>1
      <4> QED
        BY <1>1, <1>7, <3>1, <4>2
    <3>2. CASE k # n
      BY <1>8, <2>2, <3>2
    <3> QED
      BY <3>1, <3>2
  <2>3. /\ n \in DOMAIN t /\ Len(acts) + 1 \in DOMAIN t[n].acts
        /\ t[n].acts[Len(acts) + 1] = Asked(id) /\ Len(acts) + 1 \notin DOMAIN s[n].acts
    BY <1>1, <1>4, <1>8 DEF acts, a
  <2> QED
    BY <1>8, <1>13, <2>1, <2>2, <2>3 DEF NewEntry
<1> QED
  BY <1>8, <1>11, <1>12, <1>14 DEF CallAdded, t, a

LEMMA CallStarts ==
  ASSUME NEW s \in Seq(Segment), OneKind(s), NEW id \in Id
  PROVE  CallAdded(s, Append(s, ToolsSegment(id)), id)
<1> DEFINE q == ToolsSegment(id)
           t == Append(s, q)
           a == Asked(id)
<1>1. a \in Act /\ <<a>> \in Seq(Act) /\ a.id = id /\ <<CallOf(id)>> \in Seq(Event)
  BY AskedAct
<1>2. q \in Segment /\ q.texts = << >> /\ q.acts = <<a>> /\ q.kind = "tools"
  BY <1>1, NoneYet DEF ToolsSegment, Asked, Segment
<1> HIDE DEF q, a
<1>3. q.acts # << >> /\ Len(q.acts) = 1 /\ DOMAIN q.acts = {1} /\ q.acts[1] = a
  BY <1>2
<1>4. /\ t \in Seq(Segment) /\ Len(t) \in DOMAIN t
      /\ t[Len(t)] = q /\ OneMore(s, t)
      /\ DOMAIN t = DOMAIN s \cup {Len(t)} /\ Len(t) \notin DOMAIN s
      /\ \A k \in DOMAIN s : t[k] = s[k]
  BY <1>2, PutNext
<1> HIDE DEF t
<1>5. EventsOf(t)[Len(t)] = <<CallOf(id)>>
  <2>1. CallsOf(<<a>>) = <<CallOf(id)>>
    <3>1. DOMAIN <<a>> = {1} /\ <<a>>[1] = a
      OBVIOUS
    <3>2. CallsOf(<<a>>) = [j \in {1} |-> CallOf(id)]
      BY <1>1, <3>1 DEF CallsOf
    <3> QED
      BY <3>2
  <2>2. EventsOf(t)[Len(t)] = WordsOf(t[Len(t)].texts) \o CallsOf(t[Len(t)].acts)
    BY <1>4, EventsAt
  <2>3. EventsOf(t)[Len(t)] = << >> \o <<CallOf(id)>>
    BY <1>2, <1>4, <2>1, <2>2, NoneYet
  <2> QED
    BY <1>1, <2>3, ConcatEmptySeq
<1>6. SegmentsGrow(s, t, << >>, <<a>>, <<CallOf(id)>>)
  BY <1>2, <1>4, <1>5 DEF SegmentsGrow
<1>7. OneKind(t)
  BY <1>2, <1>3, <1>4 DEF OneKind
<1>8. /\ LatestSlot(t).seg = Len(t) /\ LatestSlot(t).act = 1
      /\ DOMAIN t[Len(t)].acts = {1} /\ t[Len(t)].acts[1] = a
  BY <1>3, <1>4 DEF LatestSlot
<1>9. NewEntry(s, t, id)
  BY <1>4, <1>8 DEF NewEntry, a
<1> QED
  BY <1>4, <1>6, <1>7, <1>9 DEF CallAdded, t, q, a

LEMMA WithCallAdds ==
  ASSUME NEW s \in Seq(Segment), OneKind(s), NEW id \in Id
  PROVE  CallAdded(s, WithCall(s, id), id)
<1>1. CASE s # << >> /\ s[Len(s)].kind = "tools"
  <2> DEFINE n == Len(s)
             old == s[n]
             q == [kind |-> "tools", texts |-> << >>, acts |-> old.acts \o <<Asked(id)>>]
  <2>1. n \in DOMAIN s
    BY <1>1
  <2>2. /\ old \in Segment /\ old.acts \in Seq(Act) /\ old.texts = << >> /\ old.kind = "tools"
    BY <1>1, <2>1, SegmentAt DEF OneKind
  <2>3. Append(old.acts, [id |-> id, result |-> NoResult]) = old.acts \o <<Asked(id)>>
    BY <2>2, AskedAct, AppendIsConcat DEF Asked
  <2>4. [old EXCEPT !.acts = Append(old.acts, [id |-> id, result |-> NoResult])] = q
    <3>1. [old EXCEPT !.acts = old.acts \o <<Asked(id)>>] = q
      BY <2>2, SegmentWith
    <3> QED
      BY <2>3, <3>1
  <2>5. WithCall(s, id) = [s EXCEPT ![n] = q]
    BY <1>1, <2>1, <2>4 DEF WithCall
  <2> HIDE DEF q
  <2>6. CallAdded(s, [s EXCEPT ![n] = q], id)
    BY <1>1, CallJoins DEF q
  <2> QED
    BY <2>5, <2>6
<1>2. CASE ~ (s # << >> /\ s[Len(s)].kind = "tools")
  BY <1>2, CallStarts DEF WithCall
<1> QED
  BY <1>1, <1>2

\* t is s but for the result of the entry at k and j, which is id now.
ResultPut(s, t, k, j, id) ==
    /\ t \in Seq(Segment) /\ OneKind(t)
    /\ DOMAIN t = DOMAIN s
    /\ \A m \in DOMAIN s : DOMAIN t[m].acts = DOMAIN s[m].acts
    /\ \A m \in DOMAIN s : \A i \in DOMAIN s[m].acts :
          /\ t[m].acts[i].id = s[m].acts[i].id
          /\ m # k \/ i # j => t[m].acts[i].result = s[m].acts[i].result
    /\ t[k].acts[j].result = id
    /\ TextsOf(t) = TextsOf(s) /\ EventsOf(t) = EventsOf(s)

LEMMA PutResult ==
  ASSUME NEW s \in Seq(Segment), OneKind(s), NEW k \in DOMAIN s, NEW j \in DOMAIN s[k].acts,
         NEW id \in Id
  PROVE  ResultPut(s, [s EXCEPT ![k].acts[j].result = id], k, j, id)
<1> DEFINE acts == s[k].acts
           a == [id |-> acts[j].id, result |-> id]
           new == [acts EXCEPT ![j] = a]
           q == [kind |-> s[k].kind, texts |-> s[k].texts, acts |-> new]
           t == [s EXCEPT ![k] = q]
<1>1. /\ s[k] \in Segment /\ acts \in Seq(Act) /\ s[k].texts \in Seq(Word)
      /\ s[k].kind \in {"text", "tools"}
  BY SegmentAt
<1>2. acts[j] \in Act /\ a \in Act
  <2>1. acts[j] \in Act
    BY <1>1
  <2> QED
    BY <2>1 DEF Act
<1>3. [s EXCEPT ![k].acts[j].result = id] = t
  <2>1. [acts[j] EXCEPT !.result = id] = a
    BY <1>2 DEF Act
  <2>2. [acts EXCEPT ![j].result = id] = new
    BY <2>1
  <2>3. [s[k] EXCEPT !.acts = new] = q
    <3> HIDE DEF new, a
    <3> QED
      BY <1>1, SegmentWith
  <2>4. [s[k] EXCEPT !.acts[j].result = id] = q
    BY <2>2, <2>3
  <2> QED
    BY <2>4
<1> HIDE DEF a
<1>4. /\ new \in Seq(Act) /\ DOMAIN new = DOMAIN acts /\ new[j] = a
      /\ \A i \in DOMAIN acts : i # j => new[i] = acts[i]
  BY <1>1, <1>2
<1> HIDE DEF new, acts
<1>5. q \in Segment /\ q.kind = s[k].kind /\ q.texts = s[k].texts /\ q.acts = new
  BY <1>1, <1>4 DEF Segment
<1> HIDE DEF q
<1>6. /\ t \in Seq(Segment) /\ DOMAIN t = DOMAIN s /\ t[k] = q
      /\ \A m \in DOMAIN s : m # k => t[m] = s[m]
  BY <1>5
<1> HIDE DEF t
<1>7. \A m \in DOMAIN s : /\ t[m].kind = s[m].kind /\ t[m].texts = s[m].texts
                          /\ DOMAIN t[m].acts = DOMAIN s[m].acts
  BY <1>4, <1>5, <1>6 DEF acts
<1>8. acts # << >> => new # << >>
  BY <1>1, <1>4 DEF acts
<1>9. OneKind(t)
  <2> SUFFICES ASSUME NEW m \in DOMAIN s
               PROVE  /\ t[m].kind = "text" => t[m].acts = << >>
                      /\ t[m].kind = "tools" => t[m].texts = << >> /\ t[m].acts # << >>
    BY <1>6 DEF OneKind
  <2>1. CASE m = k
    <3>1. s[k].kind # "text"
      BY DEF OneKind
    <3>2. s[k].kind = "tools" => s[k].texts = << >> /\ acts # << >>
      BY DEF OneKind, acts
    <3> QED
      BY <1>5, <1>6, <1>8, <2>1, <3>1, <3>2
  <2>2. CASE m # k
    BY <1>6, <2>2 DEF OneKind
  <2> QED
    BY <2>1, <2>2
<1>10. \A m \in DOMAIN s : \A i \in DOMAIN s[m].acts :
          /\ t[m].acts[i].id = s[m].acts[i].id
          /\ m # k \/ i # j => t[m].acts[i].result = s[m].acts[i].result
  <2>1. a.id = acts[j].id /\ s[k].acts = acts
    BY DEF a, acts
  <2>2. \A i \in DOMAIN acts : new[i].id = acts[i].id /\ (i # j => new[i].result = acts[i].result)
    BY <1>4, <2>1
  <2> QED
    BY <1>5, <1>6, <2>1, <2>2
<1>11. t[k].acts[j].result = id
  BY <1>4, <1>5, <1>6 DEF a
<1>12. TextsOf(t) = TextsOf(s)
  BY <1>6, <1>7 DEF TextsOf
<1>13. EventsOf(t) = EventsOf(s)
  <2>1. \A m \in DOMAIN s : CallsOf(t[m].acts) = CallsOf(s[m].acts)
    BY <1>7, <1>10 DEF CallsOf
  <2> QED
    BY <1>6, <1>7, <2>1 DEF EventsOf
<1>14. ResultPut(s, t, k, j, id)
  BY <1>6, <1>7, <1>9, <1>10, <1>11, <1>12, <1>13 DEF ResultPut
<1> QED
  BY <1>3, <1>14 DEF t

-----------------------------------------------------------------------------
(* The steps of the record.                                                *)

LEMMA EntryAt ==
  ASSUME NEW s \in Seq(Segment), NEW k \in DOMAIN s, NEW j \in DOMAIN s[k].acts
  PROVE  s[k].acts[j] \in Act /\ s[k].acts[j].id \in Entries(s)
<1>1. s[k].acts \in Seq(Act)
  BY SegmentAt
<1>2. s[k].acts[j] \in Act
  BY <1>1
<1> QED
  BY <1>2 DEF Entries, Act

LEMMA SlotAdded ==
  ASSUME NEW s, NEW t, NEW p, NEW pp, NEW id \in Id, CallAdded(s, t, id), Slotted(s, p),
         id \notin DOMAIN p, DOMAIN pp = DOMAIN p \cup {id},
         pp[id] = LatestSlot(t), \A i \in DOMAIN p : pp[i] = p[i]
  PROVE  Slotted(t, pp)
<1>1. NewEntry(s, t, id) /\ Asked(id).id = id /\ Asked(id).result = NoResult
  BY AskedAct DEF CallAdded
<1>2. ASSUME NEW i \in DOMAIN pp
      PROVE  /\ i \in Id
             /\ pp[i].seg \in DOMAIN t /\ pp[i].act \in DOMAIN t[pp[i].seg].acts
             /\ t[pp[i].seg].acts[pp[i].act].id = i
             /\ t[pp[i].seg].acts[pp[i].act].result = NoResult
  <2>1. CASE i = id
    BY <1>1, <2>1 DEF NewEntry
  <2>2. CASE i # id
    <3>1. i \in DOMAIN p /\ pp[i] = p[i]
      BY <2>2
    <3> QED
      BY <1>1, <3>1 DEF NewEntry, Slotted
  <2> QED
    BY <2>1, <2>2
<1>3. ASSUME NEW k \in DOMAIN t, NEW j \in DOMAIN t[k].acts
      PROVE  \/ t[k].acts[j].result = t[k].acts[j].id
             \/ /\ t[k].acts[j].result = NoResult
                /\ t[k].acts[j].id \in DOMAIN pp
                /\ pp[t[k].acts[j].id].seg = k /\ pp[t[k].acts[j].id].act = j
  <2>1. CASE k = LatestSlot(t).seg /\ j = LatestSlot(t).act
    <3>1. t[k].acts[j] = Asked(id)
      BY <1>1, <2>1 DEF NewEntry
    <3> QED
      BY <1>1, <2>1, <3>1
  <2>2. CASE k \in DOMAIN s /\ j \in DOMAIN s[k].acts
    <3>1. t[k].acts[j] = s[k].acts[j]
      BY <1>1, <2>2 DEF NewEntry
    <3> QED
      BY <2>2, <3>1 DEF Slotted
  <2> QED
    BY <1>1, <2>1, <2>2 DEF NewEntry
<1> QED
  BY <1>2, <1>3 DEF Slotted

LEMMA SlotRemoved ==
  ASSUME NEW s, NEW t, NEW p, NEW pp, NEW id \in DOMAIN p, Slotted(s, p),
         ResultPut(s, t, p[id].seg, p[id].act, id),
         DOMAIN pp = DOMAIN p \ {id}, \A i \in DOMAIN pp : pp[i] = p[i]
  PROVE  Slotted(t, pp)
<1> DEFINE k == p[id].seg
           j == p[id].act
<1>1. k \in DOMAIN s /\ j \in DOMAIN s[k].acts /\ s[k].acts[j].id = id
  BY DEF Slotted
<1>2. /\ DOMAIN t = DOMAIN s
      /\ \A m \in DOMAIN s : DOMAIN t[m].acts = DOMAIN s[m].acts
      /\ \A m \in DOMAIN s : \A i \in DOMAIN s[m].acts :
            /\ t[m].acts[i].id = s[m].acts[i].id
            /\ m # k \/ i # j => t[m].acts[i].result = s[m].acts[i].result
      /\ t[k].acts[j].result = id
  BY DEF ResultPut
<1> HIDE DEF k, j
<1>3. ASSUME NEW i \in DOMAIN pp
      PROVE  /\ i \in Id
             /\ pp[i].seg \in DOMAIN t /\ pp[i].act \in DOMAIN t[pp[i].seg].acts
             /\ t[pp[i].seg].acts[pp[i].act].id = i
             /\ t[pp[i].seg].acts[pp[i].act].result = NoResult
  <2> DEFINE m == p[i].seg
             n == p[i].act
  <2>1. i \in DOMAIN p /\ i # id /\ pp[i] = p[i]
    OBVIOUS
  <2>2. /\ m \in DOMAIN s /\ n \in DOMAIN s[m].acts /\ s[m].acts[n].id = i
        /\ s[m].acts[n].result = NoResult /\ i \in Id
    BY <2>1 DEF Slotted
  <2> HIDE DEF m, n
  <2>3. m # k \/ n # j
    BY <1>1, <2>1, <2>2
  <2>4. /\ m \in DOMAIN t /\ n \in DOMAIN t[m].acts /\ t[m].acts[n].id = i
        /\ t[m].acts[n].result = NoResult
    BY <1>2, <2>2, <2>3
  <2> QED
    BY <2>1, <2>2, <2>4 DEF m, n
<1>4. ASSUME NEW m \in DOMAIN t, NEW n \in DOMAIN t[m].acts
      PROVE  \/ t[m].acts[n].result = t[m].acts[n].id
             \/ /\ t[m].acts[n].result = NoResult
                /\ t[m].acts[n].id \in DOMAIN pp
                /\ pp[t[m].acts[n].id].seg = m /\ pp[t[m].acts[n].id].act = n
  <2>1. m \in DOMAIN s /\ n \in DOMAIN s[m].acts /\ t[m].acts[n].id = s[m].acts[n].id
    BY <1>2
  <2>2. CASE m = k /\ n = j
    BY <1>1, <1>2, <2>1, <2>2
  <2>3. CASE m # k \/ n # j
    <3>1. t[m].acts[n].result = s[m].acts[n].result
      BY <1>2, <2>1, <2>3
    <3>2. CASE s[m].acts[n].result = s[m].acts[n].id
      BY <2>1, <3>1, <3>2
    <3>3. CASE /\ s[m].acts[n].result = NoResult
               /\ s[m].acts[n].id \in DOMAIN p
               /\ p[s[m].acts[n].id].seg = m /\ p[s[m].acts[n].id].act = n
      <4>1. s[m].acts[n].id # id
        BY <2>3, <3>3 DEF k, j
      <4>2. s[m].acts[n].id \in DOMAIN pp
        BY <3>3, <4>1
      <4> QED
        BY <2>1, <3>1, <3>3, <4>2
    <3> QED
      BY <2>1, <3>2, <3>3 DEF Slotted
  <2> QED
    BY <2>2, <2>3
<1> QED
  BY <1>3, <1>4 DEF Slotted

LEMMA SlotsKept ==
  ASSUME NEW s, NEW t, NEW p, Slotted(s, p),
         \A k \in DOMAIN s : k \in DOMAIN t /\ t[k].acts = s[k].acts,
         \A k \in DOMAIN t : k \in DOMAIN s \/ t[k].acts = << >>
  PROVE  Slotted(t, p)
BY DEF Slotted

LEMMA OrderIs ==
  /\ RecordInOrder <=> happened = FlattenSeq(EventsOf(segments))
  /\ Texts = FlattenSeq(TextsOf(segments))
  /\ Acts = FlattenSeq(ActsOf(segments))
BY DEF RecordInOrder, Texts, Acts, EventsOf, TextsOf, ActsOf, WordsOf, CallsOf

\* The same, a step on.
LEMMA OrderIsNext ==
  /\ RecordInOrder' <=> happened' = FlattenSeq(EventsOf(segments'))
  /\ Texts' = FlattenSeq(TextsOf(segments'))
BY DEF RecordInOrder, Texts, EventsOf, TextsOf, WordsOf, CallsOf

LEMMA RecordStarts ==
  ASSUME segments = << >>, pending = << >>, happened = << >>
  PROVE  RecordInv /\ Entries(segments) = {} /\ Texts = << >>
<1>1. EventsOf(segments) = << >> /\ TextsOf(segments) = << >>
  BY DEF EventsOf, TextsOf
<1>2. RecordInOrder /\ Texts = << >>
  BY <1>1, OrderIs, FlattenEmpty
<1>3. segments \in Seq(Segment) /\ OneKind(segments) /\ Slotted(segments, pending)
  BY DEF OneKind, Slotted
<1> QED
  BY <1>2, <1>3 DEF RecordInv, Entries

LEMMA EntriesGrow ==
  ASSUME NEW s \in Seq(Segment), NEW t, NEW id \in Id, CallAdded(s, t, id)
  PROVE  Entries(t) = Entries(s) \cup {id}
<1>1. NewEntry(s, t, id) /\ Asked(id).id = id
  BY AskedAct DEF CallAdded
<1>2. ASSUME NEW x \in Entries(s) PROVE x \in Entries(t)
  <2>1. PICK k \in DOMAIN s : \E j \in DOMAIN s[k].acts : s[k].acts[j].id = x
    BY DEF Entries
  <2>2. PICK j \in DOMAIN s[k].acts : s[k].acts[j].id = x
    BY <2>1
  <2>3. k \in DOMAIN t /\ j \in DOMAIN t[k].acts /\ t[k].acts[j].id = x
    BY <1>1, <2>2 DEF NewEntry
  <2> QED
    BY <2>3 DEF Entries
<1>3. id \in Entries(t)
  BY <1>1 DEF NewEntry, Entries
<1>4. ASSUME NEW x \in Entries(t) PROVE x \in Entries(s) \cup {id}
  <2>1. PICK k \in DOMAIN t : \E j \in DOMAIN t[k].acts : t[k].acts[j].id = x
    BY DEF Entries
  <2>2. PICK j \in DOMAIN t[k].acts : t[k].acts[j].id = x
    BY <2>1
  <2>3. CASE k = LatestSlot(t).seg /\ j = LatestSlot(t).act
    BY <1>1, <2>2, <2>3 DEF NewEntry
  <2>4. CASE k \in DOMAIN s /\ j \in DOMAIN s[k].acts
    <3>1. s[k].acts[j].id = x
      BY <1>1, <2>2, <2>4 DEF NewEntry
    <3> QED
      BY <2>4, <3>1 DEF Entries
  <2> QED
    BY <1>1, <2>2, <2>3, <2>4 DEF NewEntry
<1> QED
  BY <1>2, <1>3, <1>4

LEMMA EntriesKept ==
  ASSUME NEW s, NEW t, NEW k, NEW j, NEW id, ResultPut(s, t, k, j, id)
  PROVE  Entries(t) = Entries(s)
BY DEF ResultPut, Entries

\* The record grows by a call.
LEMMA CallGrows ==
  ASSUME NEW s \in Seq(Segment), NEW t, NEW id \in Id, CallAdded(s, t, id)
  PROVE  /\ t \in Seq(Segment) /\ OneKind(t)
         /\ FlattenSeq(EventsOf(t)) = Append(FlattenSeq(EventsOf(s)), CallOf(id))
         /\ FlattenSeq(TextsOf(t)) = FlattenSeq(TextsOf(s))
<1> DEFINE w == << >>
           a == <<Asked(id)>>
           e == <<CallOf(id)>>
           es == FlattenSeq(EventsOf(s))
           ts == FlattenSeq(TextsOf(s))
<1>1. /\ t \in Seq(Segment) /\ OneKind(t) /\ SegmentsGrow(s, t, w, a, e)
      /\ w \in Seq(Word) /\ a \in Seq(Act) /\ e \in Seq(Event) /\ CallOf(id) \in Event
  BY NoneYet, AskedAct DEF CallAdded, CallOf, Event
<1> HIDE DEF w, a, e
<1>2. /\ ts \in Seq(Word) /\ es \in Seq(Event)
      /\ FlattenSeq(TextsOf(t)) = ts \o w /\ FlattenSeq(EventsOf(t)) = es \o e
  BY <1>1, GrownParts
<1> HIDE DEF es, ts
<1>3. ts \o w = ts
  BY <1>2, ConcatEmptySeq DEF w
<1>4. es \o e = Append(es, CallOf(id))
  BY <1>1, <1>2, AppendIsConcat DEF e
<1> QED
  BY <1>1, <1>2, <1>3, <1>4 DEF es, ts

LEMMA CallRecorded ==
  ASSUME RecordInv, NEW id \in Id, id \notin Entries(segments), RecordCall(id)
  PROVE  /\ RecordInv'
         /\ Entries(segments') = Entries(segments) \cup {id}
         /\ Texts' = Texts
<1>1. /\ segments \in Seq(Segment) /\ OneKind(segments) /\ Slotted(segments, pending)
      /\ happened = FlattenSeq(EventsOf(segments)) /\ Texts = FlattenSeq(TextsOf(segments))
  BY OrderIs DEF RecordInv
<1>2. segments' = WithCall(segments, id) /\ happened' = Append(happened, CallOf(id))
  BY DEF RecordCall
<1>3. CallAdded(segments, segments', id)
  BY <1>1, <1>2, WithCallAdds
<1>4. id \notin DOMAIN pending
  BY <1>1, EntryAt DEF Slotted
<1>5. /\ DOMAIN pending' = DOMAIN pending \cup {id} /\ pending'[id] = LatestSlot(segments')
      /\ \A i \in DOMAIN pending : pending'[i] = pending[i]
  BY <1>4 DEF RecordCall
<1>6. Slotted(segments', pending')
  BY <1>1, <1>3, <1>4, <1>5, SlotAdded
<1>7. /\ segments' \in Seq(Segment) /\ OneKind(segments')
      /\ FlattenSeq(EventsOf(segments')) = Append(FlattenSeq(EventsOf(segments)), CallOf(id))
      /\ FlattenSeq(TextsOf(segments')) = FlattenSeq(TextsOf(segments))
  BY <1>1, <1>3, CallGrows
<1>8. happened' = FlattenSeq(EventsOf(segments')) /\ Texts' = Texts
  BY <1>1, <1>2, <1>7, OrderIsNext
<1>9. RecordInOrder'
  BY <1>8, OrderIsNext
<1> QED
  BY <1>1, <1>3, <1>6, <1>7, <1>8, <1>9, EntriesGrow DEF RecordInv

LEMMA ResultRecorded ==
  ASSUME RecordInv, NEW id, RecordResult(id)
  PROVE  /\ RecordInv'
         /\ Entries(segments') = Entries(segments)
         /\ Texts' = Texts
<1>1. /\ segments \in Seq(Segment) /\ OneKind(segments) /\ Slotted(segments, pending)
      /\ happened = FlattenSeq(EventsOf(segments)) /\ Texts = FlattenSeq(TextsOf(segments))
  BY OrderIs DEF RecordInv
<1>2. /\ segments' = WithResult(segments, pending, id) /\ happened' = happened
      /\ DOMAIN pending' = DOMAIN pending \ {id}
      /\ \A i \in DOMAIN pending' : pending'[i] = pending[i]
  BY DEF RecordResult, Restrict
<1>3. CASE id \in DOMAIN pending
  <2> DEFINE k == pending[id].seg
             j == pending[id].act
  <2>1. k \in DOMAIN segments /\ j \in DOMAIN segments[k].acts /\ id \in Id
    BY <1>1, <1>3 DEF Slotted
  <2>2. segments' = [segments EXCEPT ![k].acts[j].result = id]
    BY <1>2, <1>3 DEF WithResult
  <2> HIDE DEF k, j
  <2>3. ResultPut(segments, segments', k, j, id)
    BY <1>1, <2>1, <2>2, PutResult
  <2>4. Slotted(segments', pending')
    BY <1>1, <1>2, <1>3, <2>3, SlotRemoved DEF k, j
  <2>5. /\ segments' \in Seq(Segment) /\ OneKind(segments')
        /\ EventsOf(segments') = EventsOf(segments) /\ TextsOf(segments') = TextsOf(segments)
    BY <2>3 DEF ResultPut
  <2>6. RecordInOrder' /\ Texts' = Texts
    BY <1>1, <1>2, <2>5, OrderIsNext
  <2> QED
    BY <2>3, <2>4, <2>5, <2>6, EntriesKept DEF RecordInv
<1>4. CASE id \notin DOMAIN pending
  <2>1. segments' = segments
    BY <1>2, <1>4 DEF WithResult
  <2>2. Slotted(segments', pending')
    BY <1>1, <1>2, <1>4, <2>1 DEF Slotted
  <2>3. RecordInOrder' /\ Texts' = Texts
    BY <1>1, <1>2, <2>1, OrderIsNext
  <2> QED
    BY <1>1, <2>1, <2>2, <2>3 DEF RecordInv
<1> QED
  BY <1>3, <1>4

LEMMA CallAndResultRecorded ==
  ASSUME RecordInv, NEW id \in Id, id \notin Entries(segments), RecordCallAndResult(id)
  PROVE  /\ RecordInv'
         /\ Entries(segments') = Entries(segments) \cup {id}
         /\ Texts' = Texts
<1> DEFINE called == WithCall(segments, id)
           p == [i \in DOMAIN pending \cup {id} |->
                    IF i = id THEN LatestSlot(called) ELSE pending[i]]
           k == p[id].seg
           j == p[id].act
<1>1. /\ segments \in Seq(Segment) /\ OneKind(segments) /\ Slotted(segments, pending)
      /\ happened = FlattenSeq(EventsOf(segments)) /\ Texts = FlattenSeq(TextsOf(segments))
  BY OrderIs DEF RecordInv
<1>2. /\ segments' =
            [called EXCEPT ![LatestSlot(called).seg].acts[LatestSlot(called).act].result = id]
      /\ happened' = Append(happened, CallOf(id)) /\ pending' = pending
  BY DEF RecordCallAndResult, WithResult
<1>3. CallAdded(segments, called, id)
  BY <1>1, WithCallAdds
<1> HIDE DEF called
<1>4. id \notin DOMAIN pending
  BY <1>1, EntryAt DEF Slotted
<1>5. /\ DOMAIN p = DOMAIN pending \cup {id} /\ p[id] = LatestSlot(called)
      /\ \A i \in DOMAIN pending : p[i] = pending[i]
  BY <1>4
<1>6. segments' = [called EXCEPT ![k].acts[j].result = id]
  BY <1>2, <1>5
<1> HIDE DEF p
<1>7. Slotted(called, p)
  BY <1>1, <1>3, <1>4, <1>5, SlotAdded
<1>8. /\ called \in Seq(Segment) /\ OneKind(called)
      /\ FlattenSeq(EventsOf(called)) = Append(FlattenSeq(EventsOf(segments)), CallOf(id))
      /\ FlattenSeq(TextsOf(called)) = FlattenSeq(TextsOf(segments))
  BY <1>1, <1>3, CallGrows
<1>9. k \in DOMAIN called /\ j \in DOMAIN called[k].acts /\ id \in DOMAIN p
  BY <1>5, <1>7 DEF Slotted
<1>10. ResultPut(called, segments', k, j, id)
  <2> HIDE DEF k, j
  <2> QED
    BY <1>6, <1>8, <1>9, PutResult
<1>11. DOMAIN pending' = DOMAIN p \ {id} /\ \A i \in DOMAIN pending' : pending'[i] = p[i]
  BY <1>2, <1>4, <1>5
<1>12. Slotted(segments', pending')
  BY <1>7, <1>9, <1>10, <1>11, SlotRemoved
<1>13. /\ segments' \in Seq(Segment) /\ OneKind(segments')
       /\ EventsOf(segments') = EventsOf(called) /\ TextsOf(segments') = TextsOf(called)
  BY <1>10 DEF ResultPut
<1>14. RecordInOrder' /\ Texts' = Texts
  BY <1>1, <1>2, <1>8, <1>13, OrderIsNext
<1>15. Entries(segments') = Entries(segments) \cup {id}
  BY <1>1, <1>3, <1>10, EntriesGrow, EntriesKept
<1> QED
  BY <1>12, <1>13, <1>14, <1>15 DEF RecordInv

\* The record grows by a text.
LEMMA TextGrows ==
  ASSUME NEW s \in Seq(Segment), NEW t \in Seq(Segment), NEW x \in Word,
         SegmentsGrow(s, t, <<x>>, << >>, <<Words(x)>>)
  PROVE  /\ FlattenSeq(EventsOf(t)) = Append(FlattenSeq(EventsOf(s)), Words(x))
         /\ FlattenSeq(TextsOf(s)) \in Seq(Word)
         /\ FlattenSeq(TextsOf(t)) = Append(FlattenSeq(TextsOf(s)), x)
<1> DEFINE w == <<x>>
           a == << >>
           e == <<Words(x)>>
           es == FlattenSeq(EventsOf(s))
           ts == FlattenSeq(TextsOf(s))
<1>1. /\ SegmentsGrow(s, t, w, a, e)
      /\ w \in Seq(Word) /\ a \in Seq(Act) /\ e \in Seq(Event) /\ Words(x) \in Event
  BY NoneYet DEF Words, Event
<1> HIDE DEF w, a, e
<1>2. /\ ts \in Seq(Word) /\ es \in Seq(Event)
      /\ FlattenSeq(TextsOf(t)) = ts \o w /\ FlattenSeq(EventsOf(t)) = es \o e
  BY <1>1, GrownParts
<1> HIDE DEF es, ts
<1>3. ts \o w = Append(ts, x)
  BY <1>2, AppendIsConcat DEF w
<1>4. es \o e = Append(es, Words(x))
  BY <1>1, <1>2, AppendIsConcat DEF e
<1> QED
  BY <1>2, <1>3, <1>4 DEF es, ts

LEMMA TextAddsOn ==
  ASSUME NEW s \in Seq(Segment), OneKind(s), s # << >>, s[Len(s)].kind = "text",
         NEW x \in Word
  PROVE  TextAdded(s, [s EXCEPT ![Len(s)].texts = Append(@, x)], x)
<1> DEFINE n == Len(s)
           old == s[n]
           q == [kind |-> "text", texts |-> old.texts \o <<x>>, acts |-> << >>]
<1>1. n \in DOMAIN s
  OBVIOUS
<1>2. old \in Segment /\ old.texts \in Seq(Word) /\ old.acts = << >> /\ old.kind = "text"
  BY <1>1, SegmentAt DEF OneKind
<1>3. Append(old.texts, x) = old.texts \o <<x>>
  BY <1>2, AppendIsConcat
<1> DEFINE v == old.texts \o <<x>>
<1>4. v = Append(old.texts, x) /\ q = [kind |-> "text", texts |-> v, acts |-> << >>]
  BY <1>3
<1>5. q = [kind |-> "text", texts |-> s[Len(s)].texts \o <<x>>, acts |-> << >>]
  OBVIOUS
<1> HIDE DEF q, v
<1>6. [old EXCEPT !.texts = v] = q
  <2> HIDE DEF old
  <2>1. [old EXCEPT !.texts = v] = [kind |-> old.kind, texts |-> v, acts |-> old.acts]
    BY ONLY <1>2, SegmentWith
  <2> QED
    BY <1>2, <1>4, <2>1
<1>7. [s EXCEPT ![n].texts = Append(@, x)] = [s EXCEPT ![n] = q]
  BY <1>1, <1>4, <1>6
<1>8. TextAdded(s, [s EXCEPT ![n] = q], x)
  BY <1>5, TextJoins
<1> QED
  BY <1>7, <1>8

LEMMA TextAdds ==
  ASSUME RecordInv, NEW x \in Word, RecordText(x)
  PROVE  TextAdded(segments, segments', x)
<1>1. segments \in Seq(Segment) /\ OneKind(segments)
  BY DEF RecordInv
<1>2. CASE LastIs("text")
  <2>1. segments # << >> /\ segments[Len(segments)].kind = "text"
    BY <1>2 DEF LastIs
  <2>2. segments' = [segments EXCEPT ![Len(segments)].texts = Append(@, x)]
    BY <1>2 DEF RecordText
  <2> QED
    BY <1>1, <2>1, <2>2, TextAddsOn
<1>3. CASE ~ LastIs("text")
  <2>1. segments' = Append(segments, TextSegment(x))
    BY <1>3 DEF RecordText
  <2> QED
    BY <1>1, <2>1, TextStarts
<1> QED
  BY <1>2, <1>3

LEMMA TextEntries ==
  ASSUME NEW s \in Seq(Segment), NEW t, NEW x, TextAdded(s, t, x)
  PROVE  Entries(t) = Entries(s)
BY DEF TextAdded, Entries

LEMMA TextRecorded ==
  ASSUME RecordInv, NEW x \in Word, RecordText(x)
  PROVE  /\ RecordInv'
         /\ Entries(segments') = Entries(segments)
         /\ Texts \in Seq(Word) /\ Texts' = Append(Texts, x)
<1>1. /\ segments \in Seq(Segment) /\ OneKind(segments) /\ Slotted(segments, pending)
      /\ happened = FlattenSeq(EventsOf(segments)) /\ Texts = FlattenSeq(TextsOf(segments))
  BY OrderIs DEF RecordInv
<1>2. TextAdded(segments, segments', x)
  BY TextAdds
<1>3. pending' = pending /\ happened' = Append(happened, Words(x))
  BY DEF RecordText
<1>4. segments' \in Seq(Segment) /\ OneKind(segments')
  BY <1>2 DEF TextAdded
<1>5. Slotted(segments', pending')
  BY <1>1, <1>2, <1>3, SlotsKept DEF TextAdded
<1>6. /\ FlattenSeq(EventsOf(segments')) = Append(FlattenSeq(EventsOf(segments)), Words(x))
      /\ FlattenSeq(TextsOf(segments)) \in Seq(Word)
      /\ FlattenSeq(TextsOf(segments')) = Append(FlattenSeq(TextsOf(segments)), x)
  BY <1>1, <1>2, <1>4, TextGrows DEF TextAdded
<1>7. RecordInOrder' /\ Texts \in Seq(Word) /\ Texts' = Append(Texts, x)
  BY <1>1, <1>3, <1>6, OrderIsNext
<1> QED
  BY <1>1, <1>2, <1>4, <1>5, <1>7, TextEntries DEF RecordInv

LEMMA RecordKept ==
  ASSUME RecordInv, UNCHANGED <<segments, pending, happened>>
  PROVE  RecordInv' /\ Entries(segments') = Entries(segments) /\ Texts' = Texts
<1>1. RecordInOrder' /\ Texts' = Texts
  BY OrderIs, OrderIsNext DEF RecordInv
<1> QED
  BY <1>1 DEF RecordInv

LEMMA TextsType ==
  ASSUME RecordInv
  PROVE  Texts \in Seq(Word)
<1>1. TextsOf(segments) \in Seq(Seq(Word))
  BY SegmentParts DEF RecordInv
<1> QED
  BY <1>1, OrderIs, FlattenRange

\* What is recorded, is in one of the segments.
LEMMA ActsAre ==
  ASSUME RecordInv
  PROVE  /\ Acts \in Seq(Act)
         /\ \A k \in DOMAIN Acts : \E n \in DOMAIN segments : \E j \in DOMAIN segments[n].acts :
               Acts[k] = segments[n].acts[j]
         /\ \A n \in DOMAIN segments : \A j \in DOMAIN segments[n].acts :
               \E k \in DOMAIN Acts : Acts[k] = segments[n].acts[j]
<1> DEFINE as == ActsOf(segments)
<1>1. segments \in Seq(Segment) /\ as \in Seq(Seq(Act)) /\ Len(as) = Len(segments)
  BY SegmentParts DEF RecordInv
<1>2. DOMAIN as = DOMAIN segments /\ \A n \in DOMAIN segments : as[n] = segments[n].acts
  BY DEF ActsOf
<1> HIDE DEF as
<1>3. /\ FlattenSeq(as) \in Seq(Act)
      /\ Range(FlattenSeq(as)) = UNION {Range(as[i]) : i \in DOMAIN as}
  BY <1>1, FlattenRange
<1>4. Acts = FlattenSeq(as)
  BY OrderIs DEF as
<1>5. Acts \in Seq(Act) /\ Range(Acts) = UNION {Range(as[i]) : i \in DOMAIN as}
  BY <1>3, <1>4
<1>6. ASSUME NEW k \in DOMAIN Acts
      PROVE  \E n \in DOMAIN segments : \E j \in DOMAIN segments[n].acts :
                Acts[k] = segments[n].acts[j]
  <2>1. Acts[k] \in Range(Acts)
    BY DEF Range
  <2>2. PICK n \in DOMAIN as : Acts[k] \in Range(as[n])
    BY <1>5, <2>1
  <2> QED
    BY <1>2, <2>2 DEF Range
<1>7. ASSUME NEW n \in DOMAIN segments, NEW j \in DOMAIN segments[n].acts
      PROVE  \E k \in DOMAIN Acts : Acts[k] = segments[n].acts[j]
  <2>1. segments[n].acts[j] \in Range(as[n])
    BY <1>2 DEF Range
  <2>2. segments[n].acts[j] \in Range(Acts)
    BY <1>2, <1>5, <2>1
  <2> QED
    BY <2>2 DEF Range
<1> QED
  BY <1>5, <1>6, <1>7

LEMMA RecordInvFits ==
  ASSUME RecordInv
  PROVE  ResultOnItsCall /\ RecordInOrder /\ Recorded = Entries(segments)
<1>1. /\ segments \in Seq(Segment) /\ Slotted(segments, pending)
  BY DEF RecordInv
<1>2. ASSUME NEW k \in DOMAIN Acts
      PROVE  \E n \in DOMAIN segments : \E j \in DOMAIN segments[n].acts :
                /\ Acts[k] = segments[n].acts[j] /\ Acts[k].id \in Id
                /\ \/ Acts[k].result = Acts[k].id
                   \/ Acts[k].result = NoResult /\ Acts[k].id \in DOMAIN pending
  <2>1. PICK n \in DOMAIN segments : \E j \in DOMAIN segments[n].acts :
           Acts[k] = segments[n].acts[j]
    BY ActsAre
  <2>2. PICK j \in DOMAIN segments[n].acts : Acts[k] = segments[n].acts[j]
    BY <2>1
  <2>3. Acts[k].id \in Id
    <3>1. Acts[k] \in Act
      BY ActsAre, ElementOfSeq
    <3> QED
      BY <3>1 DEF Act
  <2> QED
    BY <1>1, <2>2, <2>3 DEF Slotted
<1>3. ASSUME NEW id \in DOMAIN pending
      PROVE  \E k \in DOMAIN Acts : Acts[k].id = id /\ Acts[k].result = NoResult
  <2> DEFINE n == pending[id].seg
             j == pending[id].act
  <2>1. /\ n \in DOMAIN segments /\ j \in DOMAIN segments[n].acts
        /\ segments[n].acts[j].id = id /\ segments[n].acts[j].result = NoResult
    BY <1>1 DEF Slotted
  <2> HIDE DEF n, j
  <2> QED
    BY <2>1, ActsAre
<1>4. NoResult \notin Id
  BY StageTurnAssumption DEF Id
<1>5. \A k \in DOMAIN Acts : Acts[k].result \in {NoResult, Acts[k].id}
  BY <1>2
<1>6. DOMAIN pending = {Acts[k].id : k \in {j \in DOMAIN Acts : Acts[j].result = NoResult}}
  <2>1. ASSUME NEW k \in DOMAIN Acts, Acts[k].result = NoResult
        PROVE  Acts[k].id \in DOMAIN pending
    BY <1>2, <1>4, <2>1
  <2> QED
    BY <1>3, <2>1
<1>7. ASSUME NEW x \in Recorded PROVE x \in Entries(segments)
  <2>1. PICK k \in DOMAIN Acts : Acts[k].id = x
    BY DEF Recorded
  <2> QED
    BY <1>2, <2>1 DEF Entries
<1>8. ASSUME NEW x \in Entries(segments) PROVE x \in Recorded
  BY ActsAre DEF Entries, Recorded
<1> QED
  BY <1>5, <1>6, <1>7, <1>8 DEF RecordInv, ResultOnItsCall

-----------------------------------------------------------------------------
(* The proposals of the local loop.                                        *)

\* How many of S there are up to i.
UpTo(S, i) == Cardinality({j \in S : j <= i})

\* Each of finitely many has a place, no two the same, and each place is taken.
LEMMA PlaceOf ==
  ASSUME NEW S \in SUBSET Nat, IsFiniteSet(S)
  PROVE  /\ Cardinality(S) \in Nat
         /\ \A i \in S : UpTo(S, i) \in 1..Cardinality(S)
         /\ \A k \in 1..Cardinality(S) : \E i \in S : UpTo(S, i) = k
<1> DEFINE Below(i) == {j \in S : j <= i}
           n == Cardinality(S)
           f == [i \in S |-> UpTo(S, i)]
<1>1. n \in Nat
  BY FS_CardinalityType
<1>2. ASSUME NEW i \in S
      PROVE  /\ IsFiniteSet(Below(i)) /\ Below(i) \in SUBSET S /\ i \in Below(i)
             /\ UpTo(S, i) = Cardinality(Below(i))
             /\ UpTo(S, i) \in 1..n
  <2>1. Below(i) \in SUBSET S /\ i \in Below(i) /\ UpTo(S, i) = Cardinality(Below(i))
    BY DEF UpTo
  <2> HIDE DEF Below
  <2>2. IsFiniteSet(Below(i)) /\ Cardinality(Below(i)) <= n
    BY <2>1, FS_Subset
  <2>3. Cardinality(Below(i)) \in Nat /\ Cardinality(Below(i)) # 0
    BY <2>1, <2>2, FS_CardinalityType, FS_EmptySet
  <2> QED
    BY <1>1, <2>1, <2>2, <2>3
<1>3. ASSUME NEW i \in S, NEW j \in S, i < j
      PROVE  UpTo(S, i) # UpTo(S, j)
  <2>1. Below(i) \in SUBSET Below(j) /\ j \notin Below(i)
    <3>1. i \in Nat /\ j \in Nat /\ \A x \in S : x \in Nat
      OBVIOUS
    <3>2. ASSUME NEW x \in S, x <= i PROVE x <= j
      BY <1>3, <3>1, <3>2
    <3>3. ~ (j <= i)
      BY <1>3, <3>1
    <3> QED
      BY <3>2, <3>3
  <2>2. IsFiniteSet(Below(j)) /\ j \in Below(j)
    BY <1>2
  <2>3. Below(i) # Below(j)
    BY <2>1, <2>2
  <2> HIDE DEF Below
  <2>4. Cardinality(Below(i)) # Cardinality(Below(j))
    BY <2>1, <2>2, <2>3, FS_Subset
  <2> QED
    BY <1>2, <2>4
<1>4. f \in Injection(S, 1..n)
  <2>1. f \in [S -> 1..n]
    BY <1>2
  <2>2. \A i, j \in S : i # j => f[i] # f[j]
    <3>1. \A i, j \in S : i # j => i < j \/ j < i
      OBVIOUS
    <3> QED
      BY <1>3, <3>1
  <2> HIDE DEF f
  <2> QED
    BY <2>1, <2>2 DEF Injection, IsInjective
<1>5. IsFiniteSet(1..n) /\ Cardinality(1..n) = n
  BY <1>1, FS_Interval
<1> HIDE DEF f
<1>6. f \in Surjection(S, 1..n)
  BY <1>4, <1>5, FS_Injection
<1>7. ASSUME NEW k \in 1..n PROVE \E i \in S : UpTo(S, i) = k
  <2>1. PICK i \in S : f[i] = k
    BY <1>6 DEF Surjection
  <2> QED
    BY <2>1 DEF f
<1> QED
  BY <1>1, <1>2, <1>7

\* Distinct sequences have as many members as elements.
LEMMA DistinctMembers ==
  ASSUME NEW T, NEW s \in Seq(T), \A i, j \in DOMAIN s : s[i] = s[j] => i = j
  PROVE  Cardinality(ToSet(s)) = Len(s)
<1> DEFINE f == [i \in 1..Len(s) |-> s[i]]
<1>1. Len(s) \in Nat /\ DOMAIN s = 1..Len(s)
  OBVIOUS
<1>2. IsFiniteSet(1..Len(s)) /\ Cardinality(1..Len(s)) = Len(s)
  BY <1>1, FS_Interval
<1>3. f \in Bijection(1..Len(s), ToSet(s))
  BY <1>1 DEF Bijection, Injection, Surjection, IsInjective, ToSet
<1> QED
  BY <1>2, <1>3, FS_Bijection DEF ExistsBijection

\* Each call that stopped the loop once, by its id.
LEMMA StopIdsAre ==
  ASSUME stopCalls \in SUBSET Nat, IsFiniteSet(stopCalls), round \in Nat
  PROVE  /\ StopIds \in Seq(Id)
         /\ \A k \in DOMAIN StopIds : StopIds[k][1] = round
         /\ \A k, m \in DOMAIN StopIds : StopIds[k] = StopIds[m] => k = m
<1> DEFINE n == Cardinality(stopCalls)
           at(k) == CHOOSE i \in stopCalls : UpTo(stopCalls, i) = k
<1>1. n \in Nat
  BY PlaceOf
<1>2. ASSUME NEW k \in 1..n PROVE at(k) \in stopCalls /\ UpTo(stopCalls, at(k)) = k
  <2>1. \E i \in stopCalls : UpTo(stopCalls, i) = k
    BY PlaceOf
  <2> QED
    BY <2>1
<1>3. StopIds = [k \in 1..n |-> <<round, at(k)>>]
  BY DEF StopIds, LoopId, UpTo
<1> HIDE DEF at, n
<1>4. ASSUME NEW k \in 1..n PROVE <<round, at(k)>> \in Id
  BY <1>2 DEF Id
<1>5. StopIds \in Seq(Id) /\ DOMAIN StopIds = 1..n
  BY <1>1, <1>3, <1>4
<1>6. ASSUME NEW k \in 1..n, NEW m \in 1..n, StopIds[k] = StopIds[m] PROVE k = m
  BY <1>2, <1>3, <1>6
<1> QED
  BY <1>3, <1>5, <1>6

-----------------------------------------------------------------------------
(* The messages of the CLI.                                                *)

Message ==
    [type : {"start", "text"}] \cup [type : {"call"}, id : Escalation]
    \cup [type : {"result"}, id : Escalation, ok : BOOLEAN] \cup [type : {"end"}, ok : BOOLEAN]

UseRecord == [used : BOOLEAN, kind : UseKind, done : BOOLEAN, ok : BOOLEAN]

FlowTypeOK ==
    /\ turn \in Nat /\ turn \in Turn \cup {NoTurn}
    /\ phase \in {"idle", "running", "recorded"}
    /\ runner \in Runner \cup {""} /\ connected \in BOOLEAN
    /\ text \in [due : BOOLEAN, any : BOOLEAN, round : Nat]
    /\ use \in [Escalation -> UseRecord]
    /\ drafts \subseteq Escalation /\ out \in Seq(Escalation)
    /\ queue \in Seq(Message) /\ (phase = "running" => turn # NoTurn)

Called(id) == use[id].used

\* A call on its way is news to the turn that runs, be it this turn's or one that
\* an abandoned turn left to read; a result on its way is its call's.
MessageFits(m) ==
    /\ m.type = "call" =>
          /\ Called(m.id) /\ (runner # "local" => m.id \notin Entries(segments))
          /\ m.id \notin drafts /\ m.id \notin Range(out)
    /\ m.type = "result" => Called(m.id) /\ use[m.id].done /\ use[m.id].ok = m.ok

CalledOnce(q) ==
    \A i, j \in DOMAIN q :
       q[i].type = "call" /\ q[j].type = "call" /\ q[i].id = q[j].id => i = j

\* A call is sent once.
QueueFits ==
    /\ \A m \in Range(queue) : MessageFits(m)
    /\ CalledOnce(queue)

DraftsFit ==
    /\ \A id \in drafts : Called(id) /\ use[id].kind = "draft" /\ id \notin Range(out)
    /\ \A id \in Range(out) :
          Called(id) /\ use[id].kind = "draft" /\ use[id].done /\ use[id].ok
    /\ \A i, j \in DOMAIN out : out[i] = out[j] => i = j

\* What the CLIs' calls left in the record.
EntriesFit ==
    runner # "local" =>
       \A id \in Entries(segments) : id \in Escalation /\ Called(id) /\ use[id].kind # "draft"

\* The local loop's entries: of the rounds before, and of this one's calls.
LoopEntries ==
    runner = "local" =>
       /\ loop \in {"complete", "stopped"} => \A x \in Entries(segments) : x[1] < round
       /\ loop \in {"call", "execute"} =>
             \A x \in Entries(segments) :
                \/ x[1] < round
                \/ x[1] = round /\ x[2] \in Latest.answered
                \/ x[1] = round /\ x[2] = running /\ loop = "execute"
       /\ loop # "stopped" => stopCalls = {}

ProposedFits ==
    /\ phase # "recorded" => proposed = << >>
    /\ phase = "recorded" /\ runner # "local" => proposed \in {out, << >>}
    /\ phase = "recorded" /\ runner = "local" => loop \in Ended /\ proposed = StopIds

\* A break is due if the model speaks another message than it spoke last.
BreaksDue ==
    runner \in {"claude-code", "codex"} =>
       /\ text.any <=> Texts # << >>
       /\ Texts # << >> =>
             /\ Texts[Len(Texts)].round <= text.round
             /\ text.due <=> Texts[Len(Texts)].round # text.round

\* The invariant of the record: a call is on its way to the runner, is a draft
\* that waits or was accepted, or has its entry, if it is known to the turn at all.
FlowInv ==
    RecordInv /\ FlowTypeOK /\ QueueFits /\ DraftsFit /\ EntriesFit /\ LoopEntries
    /\ ProposedFits /\ BreaksDue /\ RoundsSeparated

-----------------------------------------------------------------------------
(* The queue.                                                              *)

LEMMA ElementsOf ==
  ASSUME NEW S, NEW s \in Seq(S)
  PROVE  Range(s) \subseteq S
<1>1. \A i \in DOMAIN s : s[i] \in S
  OBVIOUS
<1> QED
  BY <1>1 DEF Range

LEMMA MessageIs ==
  ASSUME NEW m \in Message
  PROVE  /\ m.type = "call" => m.id \in Escalation
         /\ m.type = "result" => m.id \in Escalation /\ m.ok \in BOOLEAN
BY DEF Message

LEMMA QueuedMessages ==
  ASSUME FlowTypeOK, NEW m \in Range(queue)
  PROVE  /\ m \in Message
         /\ m.type = "call" => m.id \in Escalation
         /\ m.type = "result" => m.id \in Escalation /\ m.ok \in BOOLEAN
<1>1. m \in Message
  BY ElementsOf DEF FlowTypeOK
<1> QED
  BY <1>1, MessageIs

LEMMA QueueSent ==
  ASSUME NEW q \in Seq(Message), NEW m \in Message, CalledOnce(q),
         m.type = "call" => \A x \in Range(q) : x.type = "call" => x.id # m.id
  PROVE  /\ Append(q, m) \in Seq(Message) /\ CalledOnce(Append(q, m))
         /\ Range(Append(q, m)) = Range(q) \cup {m}
<1> DEFINE t == Append(q, m)
<1>1. /\ Len(q) \in Nat /\ DOMAIN q = 1..Len(q) /\ DOMAIN t = 1..(Len(q) + 1)
      /\ t \in Seq(Message) /\ t[Len(q) + 1] = m /\ \A i \in DOMAIN q : t[i] = q[i]
  OBVIOUS
<1> HIDE DEF t
<1>2. \A i \in DOMAIN t : i = Len(q) + 1 \/ i \in DOMAIN q
  BY <1>1
<1>3. Len(q) + 1 \in DOMAIN t /\ \A i \in DOMAIN q : i \in DOMAIN t /\ q[i] \in Range(q)
  BY <1>1 DEF Range
<1>4. Range(t) = Range(q) \cup {m}
  BY <1>1, <1>2, <1>3 DEF Range
<1>5. CalledOnce(t)
  BY <1>1, <1>2, <1>3 DEF CalledOnce
<1> QED
  BY <1>1, <1>4, <1>5 DEF t

LEMMA QueueRead ==
  ASSUME NEW q \in Seq(Message), q # << >>, CalledOnce(q)
  PROVE  /\ Head(q) \in Message /\ Head(q) \in Range(q)
         /\ Tail(q) \in Seq(Message) /\ CalledOnce(Tail(q))
         /\ Range(Tail(q)) \subseteq Range(q)
         /\ \A m \in Range(Tail(q)) :
               m.type = "call" /\ Head(q).type = "call" => m.id # Head(q).id
<1> DEFINE t == Tail(q)
<1>1. /\ Len(q) \in Nat /\ Len(q) > 0 /\ DOMAIN q = 1..Len(q) /\ DOMAIN t = 1..(Len(q) - 1)
      /\ t \in Seq(Message) /\ Head(q) = q[1] /\ q[1] \in Message
      /\ \A i \in DOMAIN t : t[i] = q[i + 1]
  OBVIOUS
<1> HIDE DEF t
<1>2. 1 \in DOMAIN q /\ \A i \in DOMAIN t : i \in Nat /\ i + 1 \in DOMAIN q /\ i + 1 # 1
  BY <1>1
<1>3. Head(q) \in Range(q) /\ Range(t) \subseteq Range(q)
  BY <1>1, <1>2 DEF Range
<1>4. CalledOnce(t)
  BY <1>1, <1>2 DEF CalledOnce
<1>5. ASSUME NEW i \in DOMAIN t, t[i].type = "call", Head(q).type = "call"
      PROVE  t[i].id # Head(q).id
  BY <1>1, <1>2, <1>5 DEF CalledOnce
<1> QED
  BY <1>1, <1>3, <1>4, <1>5 DEF t, Range

\* A result is accepted once.
LEMMA AcceptedOnce ==
  ASSUME NEW s \in Seq(Escalation), NEW id \in Escalation, id \notin Range(s),
         \A i, j \in DOMAIN s : s[i] = s[j] => i = j
  PROVE  /\ Append(s, id) \in Seq(Escalation) /\ Range(Append(s, id)) = Range(s) \cup {id}
         /\ \A i, j \in DOMAIN Append(s, id) : Append(s, id)[i] = Append(s, id)[j] => i = j
<1> DEFINE t == Append(s, id)
<1>1. /\ Len(s) \in Nat /\ DOMAIN s = 1..Len(s) /\ DOMAIN t = 1..(Len(s) + 1)
      /\ t \in Seq(Escalation) /\ t[Len(s) + 1] = id /\ \A i \in DOMAIN s : t[i] = s[i]
  OBVIOUS
<1> HIDE DEF t
<1>2. \A i \in DOMAIN t : i = Len(s) + 1 \/ i \in DOMAIN s
  BY <1>1
<1>3. Len(s) + 1 \in DOMAIN t /\ \A i \in DOMAIN s : i \in DOMAIN t /\ s[i] \in Range(s)
  BY <1>1 DEF Range
<1>4. Range(t) = Range(s) \cup {id}
  BY <1>1, <1>2, <1>3 DEF Range
<1>5. \A i, j \in DOMAIN t : t[i] = t[j] => i = j
  BY <1>1, <1>2, <1>3
<1> QED
  BY <1>1, <1>4, <1>5 DEF t

-----------------------------------------------------------------------------
(* What the steps leave alone.                                             *)

LEMMA WordsKept ==
  ASSUME BreaksDue, RoundsSeparated, UNCHANGED <<runner, text>>, Texts' = Texts
  PROVE  BreaksDue' /\ RoundsSeparated'
BY DEF BreaksDue, RoundsSeparated

LEMMA LoopEntriesKept ==
  ASSUME LoopEntries, UNCHANGED <<runner, loopVars>>, Entries(segments') = Entries(segments)
  PROVE  LoopEntries'
BY DEF LoopEntries, loopVars, Latest, Entries

LEMMA ProposedKept ==
  ASSUME ProposedFits, UNCHANGED <<phase, runner, proposed, out, loopVars>>
  PROVE  ProposedFits'
<1>1. StopIds' = StopIds
  BY DEF StopIds, LoopId, loopVars
<1> QED
  BY <1>1 DEF ProposedFits, loopVars

\* A running turn has proposed nothing yet.
LEMMA ProposedRunning ==
  ASSUME ProposedFits, phase = "running", UNCHANGED <<phase, proposed>>
  PROVE  ProposedFits'
BY DEF ProposedFits

LEMMA NotLocalEntries ==
  ASSUME runner' # "local"
  PROVE  LoopEntries'
BY DEF LoopEntries

\* Nothing of a turn moves but its callbacks.
LEMMA FlowKept ==
  ASSUME FlowInv, UNCHANGED <<recordVars, loopVars, turnVars, queue, use, drafts>>,
         connected' \in BOOLEAN
  PROVE  FlowInv'
<1> USE DEF FlowInv
<1>1. /\ UNCHANGED <<segments, pending, proposed, happened>>
      /\ UNCHANGED <<turn, phase, runner, text, out>>
  BY DEF recordVars, turnVars
<1>2. RecordInv' /\ Entries(segments') = Entries(segments) /\ Texts' = Texts
  BY <1>1, RecordKept
<1>3. FlowTypeOK'
  BY <1>1 DEF FlowTypeOK
<1>4. QueueFits' /\ DraftsFit' /\ EntriesFit'
  BY <1>1 DEF QueueFits, DraftsFit, EntriesFit, MessageFits, Called, CalledOnce, Entries
<1>5. LoopEntries' /\ ProposedFits'
  BY <1>1, <1>2, LoopEntriesKept, ProposedKept
<1>6. BreaksDue' /\ RoundsSeparated'
  BY <1>1, <1>2, WordsKept
<1> QED
  BY <1>2, <1>3, <1>4, <1>5, <1>6

\* A turn's record starts empty.
LEMMA RecordStartsAnew ==
  ASSUME segments' = << >>, pending' = << >>, happened' = << >>
  PROVE  RecordInv' /\ Entries(segments') = {} /\ Texts' = << >>
<1>1. EventsOf(segments') = << >> /\ TextsOf(segments') = << >>
  BY DEF EventsOf, TextsOf
<1>2. RecordInOrder' /\ Texts' = << >>
  BY <1>1, OrderIsNext, FlattenEmpty
<1>3. segments' \in Seq(Segment) /\ OneKind(segments') /\ Slotted(segments', pending')
  BY DEF OneKind, Slotted
<1> QED
  BY <1>2, <1>3 DEF RecordInv, Entries

-----------------------------------------------------------------------------
(* claude-code: what the CLI sends.                                        *)

LEMMA SentFits ==
  ASSUME QueueFits, queue \in Seq(Message), NEW m \in Message, queue' = Append(queue, m),
         UNCHANGED <<runner, segments, drafts, out>>,
         m.type = "call" => \A x \in Range(queue) : x.type = "call" => x.id # m.id,
         MessageFits(m)',
         \A x \in Range(queue) :
            /\ x.type = "call" => use'[x.id].used = use[x.id].used
            /\ x.type = "result" => use'[x.id] = use[x.id]
  PROVE  QueueFits' /\ queue' \in Seq(Message)
<1>1. /\ queue' \in Seq(Message) /\ CalledOnce(queue')
      /\ Range(queue') = Range(queue) \cup {m}
  BY QueueSent DEF QueueFits
<1>2. ASSUME NEW x \in Range(queue) PROVE MessageFits(x)'
  <2>1. MessageFits(x)
    BY DEF QueueFits
  <2> QED
    BY <2>1 DEF MessageFits, Called, Entries
<1>3. \A x \in Range(queue') : MessageFits(x)'
  BY <1>1, <1>2
<1> QED
  BY <1>1, <1>3 DEF QueueFits, CalledOnce

\* Words, or the end: no call is concerned.
LEMMA FlowSends ==
  ASSUME FlowInv, NEW m \in Message, m.type \notin {"call", "result"},
         queue' = Append(queue, m),
         UNCHANGED <<recordVars, loopVars, turnVars, connected, use, drafts>>
  PROVE  FlowInv'
<1> USE DEF FlowInv
<1>1. /\ UNCHANGED <<segments, pending, proposed, happened>>
      /\ UNCHANGED <<turn, phase, runner, text, out>>
  BY DEF recordVars, turnVars
<1>2. RecordInv' /\ Entries(segments') = Entries(segments) /\ Texts' = Texts
  BY <1>1, RecordKept
<1>3. QueueFits' /\ queue' \in Seq(Message)
  BY <1>1, SentFits DEF FlowTypeOK, MessageFits
<1>4. FlowTypeOK'
  BY <1>1, <1>3 DEF FlowTypeOK
<1>5. DraftsFit' /\ EntriesFit'
  BY <1>1 DEF DraftsFit, EntriesFit, Called, Entries
<1>6. LoopEntries' /\ ProposedFits'
  BY <1>1, <1>2, LoopEntriesKept, ProposedKept
<1>7. BreaksDue' /\ RoundsSeparated'
  BY <1>1, <1>2, WordsKept
<1> QED
  BY <1>2, <1>3, <1>4, <1>5, <1>6, <1>7

LEMMA FlowCliSpeaks ==
  ASSUME FlowInv, CliSpeaks
  PROVE  FlowInv'
<1>1. PICK m \in {[type |-> "start"], [type |-> "text"]} : queue' = Append(queue, m)
  BY DEF CliSpeaks, Send
<1>2. m \in Message /\ m.type \notin {"call", "result"}
  BY <1>1 DEF Message
<1> QED
  BY <1>1, <1>2, FlowSends DEF CliSpeaks, CliTalks

LEMMA FlowCliEnds ==
  ASSUME FlowInv, NEW ok \in BOOLEAN, CliEnds(ok)
  PROVE  FlowInv'
<1> DEFINE m == [type |-> "end", ok |-> ok]
<1>1. m \in Message /\ m.type \notin {"call", "result"}
  BY DEF Message
<1>2. queue' = Append(queue, m)
  BY DEF CliEnds, Send
<1> HIDE DEF m
<1> QED
  BY <1>1, <1>2, FlowSends DEF CliEnds, CliTalks

\* Neither the turn nor the queue has anything of a call that is not used.
LEMMA UnusedIsNew ==
  ASSUME FlowInv, runner # "local", NEW id \in Escalation, ~ use[id].used
  PROVE  /\ ~ Called(id) /\ id \notin Entries(segments) /\ id \notin drafts
         /\ id \notin Range(out)
         /\ \A x \in Range(queue) : x.type \in {"call", "result"} => x.id # id
<1>1. ~ Called(id)
  BY DEF Called
<1> QED
  BY <1>1 DEF FlowInv, QueueFits, DraftsFit, EntriesFit, MessageFits

LEMMA FlowCliCalls ==
  ASSUME FlowInv, NEW id \in Escalation, NEW kind \in UseKind, CliCalls(id, kind)
  PROVE  FlowInv'
<1> USE DEF FlowInv
<1> DEFINE m == [type |-> "call", id |-> id]
           u == Used(kind)
<1>1. /\ UNCHANGED <<segments, pending, proposed, happened>>
      /\ UNCHANGED <<turn, phase, runner, text, out, drafts, connected>>
      /\ phase = "running" /\ runner = "claude-code" /\ RunsOn("claude-code")
      /\ queue' = Append(queue, m) /\ use' = [use EXCEPT ![id] = u] /\ ~ use[id].used
  BY DEF CliCalls, recordVars, turnVars, CliTalks, RunsOn, Send, NextCall
<1>2. RecordInv' /\ Entries(segments') = Entries(segments) /\ Texts' = Texts
  BY <1>1, RecordKept
<1>3. /\ ~ Called(id) /\ id \notin Entries(segments) /\ id \notin drafts
      /\ id \notin Range(out)
      /\ \A x \in Range(queue) : x.type \in {"call", "result"} => x.id # id
  BY <1>1, UnusedIsNew
<1>4. u \in UseRecord /\ u.used = TRUE
  BY DEF Used, UnusedCall, UseRecord, FlowTypeOK
<1>5. m \in Message /\ m.type = "call" /\ m.id = id
  BY DEF Message
<1> HIDE DEF m, u
<1>6. /\ use' \in [Escalation -> UseRecord] /\ use'[id] = u
      /\ \A x \in Escalation : x # id => use'[x] = use[x]
  BY <1>1, <1>4 DEF FlowTypeOK
<1>7. MessageFits(m)'
  BY <1>1, <1>2, <1>3, <1>4, <1>5, <1>6 DEF MessageFits, Called
<1>8. QueueFits' /\ queue' \in Seq(Message)
  <2>1. \A x \in Range(queue) :
           x.type \in {"call", "result"} => x.id # id /\ use'[x.id] = use[x.id]
    BY <1>3, <1>6, QueuedMessages
  <2> QED
    BY <1>1, <1>5, <1>7, <2>1, SentFits DEF FlowTypeOK
<1>9. FlowTypeOK'
  BY <1>1, <1>6, <1>8 DEF FlowTypeOK
<1>10. DraftsFit' /\ EntriesFit'
  <2>1. drafts \subseteq Escalation /\ Range(out) \subseteq Escalation
    BY ElementsOf DEF FlowTypeOK
  <2>2. DraftsFit'
    BY <1>1, <1>3, <1>6, <2>1 DEF DraftsFit, Called
  <2>3. EntriesFit'
    BY <1>1, <1>2, <1>3, <1>6 DEF EntriesFit, Called
  <2> QED
    BY <2>2, <2>3
<1>11. LoopEntries' /\ ProposedFits'
  BY <1>1, NotLocalEntries, ProposedRunning
<1>12. BreaksDue' /\ RoundsSeparated'
  BY <1>1, <1>2, WordsKept
<1> QED
  BY <1>2, <1>8, <1>9, <1>10, <1>11, <1>12

LEMMA FlowCliResults ==
  ASSUME FlowInv, NEW id \in Escalation, NEW ok \in BOOLEAN, CliResults(id, ok)
  PROVE  FlowInv'
<1> USE DEF FlowInv
<1> DEFINE m == [type |-> "result", id |-> id, ok |-> ok]
           u == [use[id] EXCEPT !.done = TRUE, !.ok = ok]
<1>1. /\ UNCHANGED <<segments, pending, proposed, happened>>
      /\ UNCHANGED <<turn, phase, runner, text, out, drafts, connected>>
      /\ phase = "running" /\ runner = "claude-code" /\ RunsOn("claude-code")
      /\ queue' = Append(queue, m) /\ Called(id) /\ ~ use[id].done
  BY DEF CliResults, recordVars, turnVars, CliTalks, RunsOn, Send, Called
<1>2. use' = [use EXCEPT ![id] = u]
  BY DEF CliResults
<1>3. RecordInv' /\ Entries(segments') = Entries(segments) /\ Texts' = Texts
  BY <1>1, RecordKept
<1>4. /\ u \in UseRecord /\ u.used = use[id].used /\ u.kind = use[id].kind
      /\ u.done = TRUE /\ u.ok = ok
  BY DEF UseRecord, FlowTypeOK
<1>5. m \in Message /\ m.type = "result" /\ m.id = id /\ m.ok = ok
  BY DEF Message
<1> HIDE DEF m, u
<1>6. /\ use' \in [Escalation -> UseRecord] /\ use'[id] = u
      /\ \A x \in Escalation : x # id => use'[x] = use[x]
  BY <1>2, <1>4 DEF FlowTypeOK
<1>7. MessageFits(m)'
  BY <1>1, <1>4, <1>5, <1>6 DEF MessageFits, Called
<1>8. QueueFits' /\ queue' \in Seq(Message)
  <2>1. ASSUME NEW x \in Range(queue)
        PROVE  /\ x.type = "call" => use'[x.id].used = use[x.id].used
               /\ x.type = "result" => use'[x.id] = use[x.id]
    <3>1. MessageFits(x)
      BY DEF QueueFits
    <3> QED
      BY <1>1, <1>4, <1>6, <3>1, QueuedMessages DEF MessageFits
  <2> QED
    BY <1>1, <1>5, <1>7, <2>1, SentFits DEF FlowTypeOK
<1>9. FlowTypeOK'
  BY <1>1, <1>6, <1>8 DEF FlowTypeOK
<1>10. \A x \in Escalation : use'[x].used = use[x].used /\ use'[x].kind = use[x].kind
  BY <1>4, <1>6
<1>11. DraftsFit'
  <2>1. id \notin Range(out)
    BY <1>1 DEF DraftsFit
  <2>2. drafts \subseteq Escalation /\ Range(out) \subseteq Escalation
    BY ElementsOf DEF FlowTypeOK
  <2> QED
    BY <1>1, <1>6, <1>10, <2>1, <2>2 DEF DraftsFit, Called
<1>12. EntriesFit'
  BY <1>1, <1>3, <1>10 DEF EntriesFit, Called
<1>13. LoopEntries' /\ ProposedFits'
  BY <1>1, NotLocalEntries, ProposedRunning
<1>14. BreaksDue' /\ RoundsSeparated'
  BY <1>1, <1>3, WordsKept
<1> QED
  BY <1>3, <1>8, <1>9, <1>11, <1>12, <1>13, <1>14

-----------------------------------------------------------------------------
(* claude-code and codex: what the runner makes of it.                     *)

\* One message less, and the calls as they were.
LEMMA ReadFits ==
  ASSUME QueueFits, queue \in Seq(Message), queue # << >>, queue' = Tail(queue),
         UNCHANGED <<runner, use>>, runner # "local",
         \A x \in Range(queue') : x.type = "call" =>
            /\ x.id \notin Entries(segments) => x.id \notin Entries(segments')
            /\ x.id \notin drafts => x.id \notin drafts'
            /\ x.id \notin drafts /\ x.id \notin Range(out) => x.id \notin Range(out')
  PROVE  QueueFits' /\ queue' \in Seq(Message)
<1>1. /\ queue' \in Seq(Message) /\ CalledOnce(queue')
      /\ Range(queue') \subseteq Range(queue)
  BY QueueRead DEF QueueFits
<1>2. ASSUME NEW x \in Range(queue') PROVE MessageFits(x)'
  <2>1. MessageFits(x)
    BY <1>1 DEF QueueFits
  <2>2. x.type = "call" =>
          Called(x.id) /\ x.id \notin Entries(segments') /\ x.id \notin drafts'
          /\ x.id \notin Range(out')
    BY <2>1 DEF MessageFits
  <2>3. x.type = "result" => Called(x.id) /\ use[x.id].done /\ use[x.id].ok = x.ok
    BY <2>1 DEF MessageFits
  <2> QED
    BY <2>2, <2>3 DEF MessageFits, Called
<1> QED
  BY <1>1, <1>2 DEF QueueFits, CalledOnce

\* A turn that reads none, or drops one, leaves messages that fit as they did.
LEMMA LeftFits ==
  ASSUME QueueFits, queue \in Seq(Message),
         queue' \in {queue, << >>} \/ (queue # << >> /\ queue' = Tail(queue)),
         \A x \in Range(queue) : MessageFits(x) => MessageFits(x)'
  PROVE  QueueFits' /\ queue' \in Seq(Message)
<1>1. CASE queue' = << >>
  BY <1>1 DEF QueueFits, Range, CalledOnce
<1>2. CASE queue' = queue
  BY <1>2 DEF QueueFits, CalledOnce
<1>3. CASE queue # << >> /\ queue' = Tail(queue)
  <2>1. /\ queue' \in Seq(Message) /\ CalledOnce(queue')
        /\ Range(queue') \subseteq Range(queue)
    BY <1>3, QueueRead DEF QueueFits
  <2> QED
    BY <2>1 DEF QueueFits, CalledOnce
<1> QED
  BY <1>1, <1>2, <1>3

\* A message of the model begins.
LEMMA RoundBegins ==
  ASSUME FlowTypeOK, BreaksDue, RoundsSeparated, RecordInv, StartNewRound,
         UNCHANGED runner, Texts' = Texts
  PROVE  BreaksDue' /\ RoundsSeparated' /\ text' \in [due : BOOLEAN, any : BOOLEAN, round : Nat]
<1>1. /\ text'.due = TRUE /\ text'.any = text.any /\ text'.round = text.round + 1
      /\ text.round \in Nat /\ text' \in [due : BOOLEAN, any : BOOLEAN, round : Nat]
  <2>1. text \in [due : BOOLEAN, any : BOOLEAN, round : Nat]
    BY DEF FlowTypeOK
  <2>2. text.round \in Nat /\ text.round + 1 \in Nat
    BY <2>1
  <2>3. text' = [text EXCEPT !.due = TRUE, !.round = text.round + 1]
    BY DEF StartNewRound
  <2> QED
    BY <2>1, <2>2, <2>3
<1>2. Texts # << >> => Texts[Len(Texts)].round \in Nat
  <2>1. Texts \in Seq(Word)
    BY TextsType
  <2>2. Texts # << >> => Texts[Len(Texts)] \in Word
    BY <2>1
  <2> QED
    BY <2>2 DEF Word
<1>3. BreaksDue'
  BY <1>1, <1>2 DEF BreaksDue
<1>4. RoundsSeparated'
  BY DEF RoundsSeparated
<1> QED
  BY <1>1, <1>3, <1>4

\* Its first words.
LEMMA WordsCome ==
  ASSUME FlowTypeOK, BreaksDue, RoundsSeparated, RecordInv, AppendDelta, UNCHANGED runner,
         runner \in {"claude-code", "codex"}
  PROVE  /\ BreaksDue' /\ RoundsSeparated' /\ RecordInv'
         /\ Entries(segments') = Entries(segments)
         /\ text' \in [due : BOOLEAN, any : BOOLEAN, round : Nat]
<1> DEFINE x == [round |-> text.round, broken |-> BreakDue(text)]
           n == Len(Texts)
<1>1. /\ text'.due = FALSE /\ text'.any = TRUE /\ text'.round = text.round
      /\ text.round \in Nat /\ text.due \in BOOLEAN /\ text.any \in BOOLEAN
      /\ text' \in [due : BOOLEAN, any : BOOLEAN, round : Nat]
  BY DEF AppendDelta, FlowTypeOK
<1>2. RecordText(x) /\ x \in Word /\ x.round = text.round /\ (x.broken <=> text.due /\ text.any)
  BY <1>1 DEF AppendDelta, Word, BreakDue
<1> HIDE DEF x
<1>3. /\ RecordInv' /\ Entries(segments') = Entries(segments)
      /\ Texts \in Seq(Word) /\ Texts' = Append(Texts, x)
  BY <1>2, TextRecorded
<1>4. /\ n \in Nat /\ DOMAIN Texts = 1..n /\ DOMAIN Texts' = 1..(n + 1) /\ Len(Texts') = n + 1
      /\ Texts'[n + 1] = x /\ \A k \in 1..n : Texts'[k] = Texts[k]
      /\ (n = 0 <=> Texts = << >>) /\ Texts' # << >>
  BY <1>3
<1>5. BreaksDue'
  BY <1>1, <1>2, <1>4 DEF BreaksDue
<1>6. x.broken <=> n + 1 > 1 /\ Texts[n].round # x.round
  BY <1>1, <1>2, <1>4 DEF BreaksDue
<1>7. RoundsSeparated'
  <2> SUFFICES ASSUME NEW k \in DOMAIN Texts'
               PROVE  Texts'[k].broken <=> k > 1 /\ Texts'[k - 1].round # Texts'[k].round
    BY DEF RoundsSeparated
  <2>1. CASE k = n + 1
    <3>1. n > 0 => Texts'[k - 1] = Texts[n]
      BY <1>4, <2>1
    <3> QED
      BY <1>4, <1>6, <2>1, <3>1
  <2>2. CASE k # n + 1
    <3>1. k \in 1..n /\ (k > 1 => k - 1 \in 1..n)
      BY <1>4, <2>2
    <3>2. Texts[k].broken <=> k > 1 /\ Texts[k - 1].round # Texts[k].round
      BY <1>4, <3>1 DEF RoundsSeparated
    <3> QED
      BY <1>4, <3>1, <3>2
  <2> QED
    BY <2>1, <2>2
<1> QED
  BY <1>1, <1>3, <1>5, <1>7

LEMMA FlowReadStart ==
  ASSUME FlowInv, ReadStart
  PROVE  FlowInv'
<1> USE DEF FlowInv
<1>1. /\ UNCHANGED <<segments, pending, proposed, happened>>
      /\ UNCHANGED <<turn, phase, runner, out, connected, use, drafts>>
      /\ phase = "running" /\ runner = "claude-code"
      /\ queue # << >> /\ queue' = Tail(queue) /\ StartNewRound
  BY DEF ReadStart, recordVars, Reads, RunsOn
<1>2. RecordInv' /\ Entries(segments') = Entries(segments) /\ Texts' = Texts
  BY <1>1, RecordKept
<1>3. BreaksDue' /\ RoundsSeparated' /\ text' \in [due : BOOLEAN, any : BOOLEAN, round : Nat]
  BY <1>1, <1>2, RoundBegins
<1>4. QueueFits' /\ queue' \in Seq(Message)
  BY <1>1, <1>2, ReadFits DEF FlowTypeOK
<1>5. FlowTypeOK'
  BY <1>1, <1>3, <1>4 DEF FlowTypeOK
<1>6. DraftsFit' /\ EntriesFit'
  BY <1>1 DEF DraftsFit, EntriesFit, Called, Entries
<1>7. LoopEntries' /\ ProposedFits'
  BY <1>1, NotLocalEntries, ProposedRunning
<1> QED
  BY <1>2, <1>3, <1>4, <1>5, <1>6, <1>7

LEMMA FlowReadText ==
  ASSUME FlowInv, ReadText
  PROVE  FlowInv'
<1> USE DEF FlowInv
<1>1. /\ UNCHANGED <<proposed, turn, phase, runner, out, connected, use, drafts>>
      /\ phase = "running" /\ runner = "claude-code"
      /\ queue # << >> /\ queue' = Tail(queue) /\ AppendDelta
  BY DEF ReadText, Reads, RunsOn, AppendDelta, RecordText
<1>2. /\ BreaksDue' /\ RoundsSeparated' /\ RecordInv'
      /\ Entries(segments') = Entries(segments)
      /\ text' \in [due : BOOLEAN, any : BOOLEAN, round : Nat]
  BY <1>1, WordsCome
<1>3. QueueFits' /\ queue' \in Seq(Message)
  BY <1>1, <1>2, ReadFits DEF FlowTypeOK
<1>4. FlowTypeOK'
  BY <1>1, <1>2, <1>3 DEF FlowTypeOK
<1>5. DraftsFit' /\ EntriesFit'
  BY <1>1, <1>2 DEF DraftsFit, EntriesFit, Called
<1>6. LoopEntries' /\ ProposedFits'
  BY <1>1, NotLocalEntries, ProposedRunning
<1> QED
  BY <1>2, <1>3, <1>4, <1>5, <1>6

LEMMA FlowReadCall ==
  ASSUME FlowInv, ReadCall
  PROVE  FlowInv'
<1> USE DEF FlowInv
<1> DEFINE m == Head(queue)
           id == Head(queue).id
<1>1. /\ UNCHANGED <<turn, phase, runner, text, out, connected, use>>
      /\ phase = "running" /\ runner = "claude-code"
      /\ queue # << >> /\ queue' = Tail(queue) /\ m.type = "call"
  BY DEF ReadCall, Reads, RunsOn, turnVars
<1>2. /\ m \in Range(queue) /\ Range(queue') \subseteq Range(queue)
      /\ \A x \in Range(queue') : x.type = "call" => x.id # id
  BY <1>1, QueueRead DEF QueueFits, FlowTypeOK
<1>3. id \in Escalation /\ id \in Id
  BY <1>1, <1>2, QueuedMessages, StageTurnAssumption DEF Id
<1>4. Called(id) /\ id \notin Entries(segments) /\ id \notin drafts /\ id \notin Range(out)
  BY <1>1, <1>2 DEF QueueFits, MessageFits
<1> HIDE DEF m, id
<1>5. CASE use[id].kind = "draft" /\ drafts' = drafts \cup {id} /\ UNCHANGED recordVars
  <2>1. UNCHANGED <<segments, pending, proposed, happened>>
    BY <1>5 DEF recordVars
  <2>2. RecordInv' /\ Entries(segments') = Entries(segments) /\ Texts' = Texts
    BY <2>1, RecordKept
  <2>3. QueueFits' /\ queue' \in Seq(Message)
    BY <1>1, <1>2, <1>5, <2>2, ReadFits DEF FlowTypeOK
  <2>4. FlowTypeOK'
    BY <1>1, <1>3, <1>5, <2>3 DEF FlowTypeOK
  <2>5. DraftsFit' /\ EntriesFit'
    BY <1>1, <1>4, <1>5, <2>2 DEF DraftsFit, EntriesFit, Called
  <2>6. LoopEntries' /\ ProposedFits' /\ BreaksDue' /\ RoundsSeparated'
    BY <1>1, <2>1, <2>2, NotLocalEntries, ProposedRunning, WordsKept
  <2> QED
    BY <2>2, <2>3, <2>4, <2>5, <2>6
<1>6. CASE use[id].kind # "draft" /\ RecordCall(id) /\ UNCHANGED drafts
  <2>1. UNCHANGED proposed
    BY <1>6 DEF RecordCall
  <2>2. RecordInv' /\ Entries(segments') = Entries(segments) \cup {id} /\ Texts' = Texts
    BY <1>3, <1>4, <1>6, CallRecorded
  <2>3. QueueFits' /\ queue' \in Seq(Message)
    BY <1>1, <1>2, <1>6, <2>2, ReadFits DEF FlowTypeOK
  <2>4. FlowTypeOK'
    BY <1>1, <1>6, <2>3 DEF FlowTypeOK
  <2>5. DraftsFit' /\ EntriesFit'
    BY <1>1, <1>3, <1>4, <1>6, <2>2 DEF DraftsFit, EntriesFit, Called
  <2>6. LoopEntries' /\ ProposedFits' /\ BreaksDue' /\ RoundsSeparated'
    BY <1>1, <2>1, <2>2, NotLocalEntries, ProposedRunning, WordsKept
  <2> QED
    BY <2>2, <2>3, <2>4, <2>5, <2>6
<1>7. \/ use[id].kind = "draft" /\ drafts' = drafts \cup {id} /\ UNCHANGED recordVars
      \/ use[id].kind # "draft" /\ RecordCall(id) /\ UNCHANGED drafts
  BY DEF ReadCall, id
<1> QED
  BY <1>5, <1>6, <1>7

LEMMA FlowReadResult ==
  ASSUME FlowInv, ReadResult
  PROVE  FlowInv'
<1> USE DEF FlowInv
<1> DEFINE m == Head(queue)
           id == Head(queue).id
<1>1. /\ UNCHANGED <<turn, phase, runner, text, connected, use>>
      /\ phase = "running" /\ runner = "claude-code"
      /\ queue # << >> /\ queue' = Tail(queue) /\ m.type = "result"
  BY DEF ReadResult, Reads, RunsOn
<1>2. m \in Range(queue) /\ Range(queue') \subseteq Range(queue)
  BY <1>1, QueueRead DEF QueueFits, FlowTypeOK
<1>3. id \in Escalation
  BY <1>1, <1>2, QueuedMessages
<1>4. Called(id) /\ use[id].done /\ use[id].ok = m.ok
  BY <1>1, <1>2 DEF QueueFits, MessageFits
<1>5. \/ /\ id \in drafts /\ drafts' = drafts \ {id}
         /\ out' = IF m.ok THEN Append(out, id) ELSE out
         /\ UNCHANGED recordVars
      \/ id \notin drafts /\ RecordResult(id) /\ UNCHANGED <<drafts, out>>
  BY DEF ReadResult, Accepted
<1> HIDE DEF m, id
<1>6. CASE id \in drafts
  <2>1. /\ drafts' = drafts \ {id} /\ out' = IF m.ok THEN Append(out, id) ELSE out
        /\ UNCHANGED <<segments, pending, proposed, happened>>
    BY <1>5, <1>6 DEF recordVars
  <2>2. RecordInv' /\ Entries(segments') = Entries(segments) /\ Texts' = Texts
    BY <2>1, RecordKept
  <2>3. use[id].kind = "draft" /\ id \notin Range(out)
    BY <1>6 DEF DraftsFit
  <2>4. /\ out' \in Seq(Escalation)
        /\ Range(out') = Range(out) \/ (m.ok /\ Range(out') = Range(out) \cup {id})
        /\ \A i, j \in DOMAIN out' : out'[i] = out'[j] => i = j
    <3>1. CASE m.ok
      BY <1>3, <2>1, <2>3, <3>1, AcceptedOnce DEF DraftsFit, FlowTypeOK
    <3>2. CASE ~ m.ok
      BY <2>1, <3>2 DEF DraftsFit, FlowTypeOK
    <3> QED
      BY <3>1, <3>2
  <2>5. QueueFits' /\ queue' \in Seq(Message)
    <3>1. \A x : /\ x \notin drafts => x \notin drafts'
                 /\ x \notin drafts /\ x \notin Range(out) => x \notin Range(out')
      BY <1>6, <2>1, <2>4
    <3> QED
      BY <1>1, <2>2, <3>1, ReadFits DEF FlowTypeOK
  <2>6. FlowTypeOK'
    BY <1>1, <2>1, <2>4, <2>5 DEF FlowTypeOK
  <2>7. DraftsFit'
    <3>1. \A x \in drafts' : x \in drafts /\ x # id
      BY <2>1
    <3>2. \A x \in Range(out') : x \in Range(out) \/ (x = id /\ m.ok)
      BY <2>4
    <3>3. \A x \in drafts' : x \notin Range(out')
      BY <3>1, <3>2 DEF DraftsFit
    <3> QED
      BY <1>1, <1>4, <2>3, <2>4, <3>1, <3>2, <3>3 DEF DraftsFit, Called
  <2>8. EntriesFit'
    BY <1>1, <2>2 DEF EntriesFit, Called
  <2>9. LoopEntries' /\ ProposedFits' /\ BreaksDue' /\ RoundsSeparated'
    BY <1>1, <2>1, <2>2, NotLocalEntries, ProposedRunning, WordsKept
  <2> QED
    BY <2>2, <2>5, <2>6, <2>7, <2>8, <2>9
<1>7. CASE id \notin drafts
  <2>1. RecordResult(id) /\ UNCHANGED <<drafts, out>> /\ UNCHANGED proposed
    BY <1>5, <1>7 DEF RecordResult
  <2>2. RecordInv' /\ Entries(segments') = Entries(segments) /\ Texts' = Texts
    BY <2>1, ResultRecorded
  <2>3. QueueFits' /\ queue' \in Seq(Message)
    BY <1>1, <2>1, <2>2, ReadFits DEF FlowTypeOK
  <2>4. FlowTypeOK'
    BY <1>1, <2>1, <2>3 DEF FlowTypeOK
  <2>5. DraftsFit' /\ EntriesFit'
    BY <1>1, <2>1, <2>2 DEF DraftsFit, EntriesFit, Called
  <2>6. LoopEntries' /\ ProposedFits' /\ BreaksDue' /\ RoundsSeparated'
    BY <1>1, <2>1, <2>2, NotLocalEntries, ProposedRunning, WordsKept
  <2> QED
    BY <2>2, <2>3, <2>4, <2>5, <2>6
<1> QED
  BY <1>6, <1>7

LEMMA FlowCodexSpeaks ==
  ASSUME FlowInv, CodexSpeaks
  PROVE  FlowInv'
<1> USE DEF FlowInv
<1>1. /\ UNCHANGED <<turn, phase, runner, out, connected, queue, use, drafts>>
      /\ phase = "running" /\ runner = "codex"
      /\ (StartNewRound /\ UNCHANGED recordVars) \/ AppendDelta
  BY DEF CodexSpeaks, RunsOn, cliVars
<1>2. /\ BreaksDue' /\ RoundsSeparated' /\ RecordInv'
      /\ Entries(segments') = Entries(segments) /\ UNCHANGED proposed
      /\ text' \in [due : BOOLEAN, any : BOOLEAN, round : Nat]
  <2>1. CASE StartNewRound /\ UNCHANGED recordVars
    <3>1. UNCHANGED <<segments, pending, proposed, happened>>
      BY <2>1 DEF recordVars
    <3>2. RecordInv' /\ Entries(segments') = Entries(segments) /\ Texts' = Texts
      BY <3>1, RecordKept
    <3> QED
      BY <1>1, <2>1, <3>1, <3>2, RoundBegins
  <2>2. CASE AppendDelta
    <3>1. UNCHANGED proposed
      BY <2>2 DEF AppendDelta, RecordText
    <3> QED
      BY <1>1, <2>2, <3>1, WordsCome
  <2> QED
    BY <1>1, <2>1, <2>2
<1>3. QueueFits' /\ FlowTypeOK' /\ DraftsFit' /\ EntriesFit'
  <2>1. \A x \in Range(queue) : MessageFits(x) => MessageFits(x)'
    BY <1>1, <1>2 DEF MessageFits, Called
  <2>2. QueueFits'
    BY <1>1, <2>1, LeftFits DEF FlowTypeOK
  <2> QED
    BY <1>1, <1>2, <2>2 DEF FlowTypeOK, DraftsFit, EntriesFit, Called
<1>4. LoopEntries' /\ ProposedFits'
  BY <1>1, <1>2, NotLocalEntries, ProposedRunning
<1> QED
  BY <1>2, <1>3, <1>4

LEMMA FlowCodexItem ==
  ASSUME FlowInv, NEW id \in Escalation, NEW kind \in {"tool", "draft"}, NEW ok \in BOOLEAN,
         CodexItem(id, kind, ok)
  PROVE  FlowInv'
<1> USE DEF FlowInv
<1> DEFINE u == [Used(kind) EXCEPT !.done = TRUE, !.ok = ok]
<1>1. /\ UNCHANGED <<turn, phase, runner, text, connected, queue, drafts>>
      /\ phase = "running" /\ runner = "codex" /\ ~ use[id].used
      /\ use' = [use EXCEPT ![id] = u]
  BY DEF CodexItem, RunsOn, NextCall
<1>2. /\ ~ Called(id) /\ id \notin Entries(segments) /\ id \notin drafts
      /\ id \notin Range(out)
      /\ \A x \in Range(queue) : x.type \in {"call", "result"} => x.id # id
  BY <1>1, UnusedIsNew
<1>3. /\ u \in UseRecord /\ u.used = TRUE /\ u.kind = kind /\ u.done = TRUE /\ u.ok = ok
  BY DEF Used, UnusedCall, UseRecord, FlowTypeOK, UseKind
<1> HIDE DEF u
<1>4. /\ use' \in [Escalation -> UseRecord] /\ use'[id] = u
      /\ \A x \in Escalation : x # id => use'[x] = use[x]
  BY <1>1, <1>3 DEF FlowTypeOK
<1>5. ASSUME Entries(segments') \subseteq Entries(segments) \cup {id},
             Range(out') \subseteq Range(out) \cup {id}
      PROVE  QueueFits' /\ queue' \in Seq(Message)
  <2>1. ASSUME NEW x \in Range(queue), MessageFits(x) PROVE MessageFits(x)'
    <3>1. x.type \in {"call", "result"} => x.id # id /\ use'[x.id] = use[x.id]
      BY <1>2, <1>4, QueuedMessages
    <3> QED
      BY <1>1, <1>5, <2>1, <3>1 DEF MessageFits, Called
  <2> QED
    BY <1>1, <2>1, LeftFits DEF FlowTypeOK
<1>6. drafts \subseteq Escalation /\ Range(out) \subseteq Escalation
  BY ElementsOf DEF FlowTypeOK
<1>7. id \in Id
  BY StageTurnAssumption DEF Id
<1>8. \/ /\ kind = "draft" /\ out' = IF ok THEN Append(out, id) ELSE out
         /\ UNCHANGED recordVars
      \/ kind # "draft" /\ RecordCallAndResult(id) /\ UNCHANGED out
  BY DEF CodexItem, Accepted
<1>9. CASE kind = "draft"
  <2>1. /\ UNCHANGED <<segments, pending, proposed, happened>>
        /\ out' = IF ok THEN Append(out, id) ELSE out
    BY <1>8, <1>9 DEF recordVars
  <2>2. RecordInv' /\ Entries(segments') = Entries(segments) /\ Texts' = Texts
    BY <2>1, RecordKept
  <2>3. /\ out' \in Seq(Escalation)
        /\ Range(out') = Range(out) \/ (ok /\ Range(out') = Range(out) \cup {id})
        /\ \A i, j \in DOMAIN out' : out'[i] = out'[j] => i = j
    <3>1. CASE ok
      BY <1>2, <2>1, <3>1, AcceptedOnce DEF DraftsFit, FlowTypeOK
    <3>2. CASE ~ ok
      BY <2>1, <3>2 DEF DraftsFit, FlowTypeOK
    <3> QED
      BY <3>1, <3>2
  <2>4. FlowTypeOK' /\ QueueFits'
    <3>1. QueueFits' /\ queue' \in Seq(Message)
      BY <1>5, <2>2, <2>3
    <3> QED
      BY <1>1, <1>4, <2>3, <3>1 DEF FlowTypeOK
  <2>5. DraftsFit'
    <3>1. \A x \in Range(out') : x \in Range(out) \/ (x = id /\ ok)
      BY <2>3
    <3>2. \A x \in drafts : x # id /\ x \notin Range(out')
      BY <1>2, <3>1 DEF DraftsFit
    <3> QED
      BY <1>1, <1>2, <1>3, <1>4, <1>6, <1>9, <2>3, <3>1, <3>2 DEF DraftsFit, Called
  <2>6. EntriesFit'
    BY <1>1, <1>2, <1>4, <2>2 DEF EntriesFit, Called
  <2>7. LoopEntries' /\ ProposedFits' /\ BreaksDue' /\ RoundsSeparated'
    BY <1>1, <2>1, <2>2, NotLocalEntries, ProposedRunning, WordsKept
  <2> QED
    BY <2>2, <2>4, <2>5, <2>6, <2>7
<1>10. CASE kind # "draft"
  <2>1. RecordCallAndResult(id) /\ UNCHANGED <<out, proposed>>
    BY <1>8, <1>10 DEF RecordCallAndResult
  <2>2. RecordInv' /\ Entries(segments') = Entries(segments) \cup {id} /\ Texts' = Texts
    BY <1>2, <1>7, <2>1, CallAndResultRecorded
  <2>3. FlowTypeOK' /\ QueueFits'
    <3>1. QueueFits' /\ queue' \in Seq(Message)
      BY <1>5, <2>1, <2>2
    <3> QED
      BY <1>1, <1>4, <2>1, <3>1 DEF FlowTypeOK
  <2>4. DraftsFit'
    BY <1>1, <1>2, <1>4, <1>6, <2>1 DEF DraftsFit, Called
  <2>5. EntriesFit'
    BY <1>1, <1>2, <1>3, <1>4, <1>10, <2>2 DEF EntriesFit, Called
  <2>6. LoopEntries' /\ ProposedFits' /\ BreaksDue' /\ RoundsSeparated'
    BY <1>1, <2>1, <2>2, NotLocalEntries, ProposedRunning, WordsKept
  <2> QED
    BY <2>2, <2>3, <2>4, <2>5, <2>6
<1> QED
  BY <1>9, <1>10

-----------------------------------------------------------------------------
(* A turn begins, and it returns.                                          *)

LEMMA FlowStartTurn ==
  ASSUME FlowInv, NEW t \in Turn, NEW e \in Runner, StartTurn(t, e)
  PROVE  FlowInv'
<1> USE DEF FlowInv
<1>1. /\ segments' = << >> /\ pending' = << >> /\ proposed' = << >> /\ happened' = << >>
      /\ t = turn + 1 /\ turn' = t /\ phase' = "running" /\ runner' = e
      /\ text' = NoText /\ out' = << >> /\ queue' \in {queue, << >>}
      /\ drafts' = {} /\ use' = use
      /\ connected' \in {TRUE, connected}
      /\ loop' = "complete" /\ stopCalls' = {}
  BY DEF StartTurn, ResetRecord
<1>2. RecordInv' /\ Entries(segments') = {} /\ Texts' = << >>
  BY <1>1, RecordStartsAnew
<1>3. QueueFits' /\ queue' \in Seq(Message)
  <2>1. Range(out') = {}
    BY <1>1 DEF Range
  <2>2. \A x \in Range(queue) : MessageFits(x) => MessageFits(x)'
    BY <1>1, <1>2, <2>1 DEF MessageFits, Called
  <2> QED
    BY <1>1, <2>2, LeftFits DEF FlowTypeOK
<1>4. text' \in [due : BOOLEAN, any : BOOLEAN, round : Nat] /\ text'.any = FALSE
  BY <1>1 DEF NoText
<1>5. FlowTypeOK'
  <2>1. turn' \in Nat /\ turn' # NoTurn
    <3>1. turn \in Nat
      BY DEF FlowTypeOK
    <3>2. t # NoTurn
      BY EscalationsAssumption
    <3> QED
      BY ONLY <1>1, <3>1, <3>2
  <2>2. out' \in Seq(Escalation)
    BY <1>1
  <2> QED
    BY <1>1, <1>3, <1>4, <2>1, <2>2 DEF FlowTypeOK
<1>6. DraftsFit' /\ EntriesFit' /\ LoopEntries' /\ ProposedFits'
  BY <1>1, <1>2 DEF DraftsFit, EntriesFit, LoopEntries, ProposedFits, Range
<1>7. BreaksDue' /\ RoundsSeparated'
  BY <1>2, <1>4 DEF BreaksDue, RoundsSeparated
<1> QED
  BY <1>2, <1>3, <1>5, <1>6, <1>7

LEMMA FlowReturns ==
  ASSUME FlowInv, NEW calls, Return(calls), phase = "running",
         queue' = queue \/ (queue # << >> /\ queue' = Tail(queue)),
         runner # "local" => calls \in {out, << >>},
         runner = "local" => loop \in Ended /\ calls = StopIds,
         UNCHANGED <<loopVars, use, drafts, connected>>
  PROVE  FlowInv'
<1> USE DEF FlowInv
<1>1. /\ UNCHANGED <<segments, pending, happened, turn, runner, text, out, use, drafts, connected>>
      /\ phase' = "recorded" /\ proposed' = calls
  BY DEF Return, RecordProposals
<1>2. RecordInv' /\ Entries(segments') = Entries(segments) /\ Texts' = Texts
  BY <1>1, RecordKept
<1>3. QueueFits' /\ queue' \in Seq(Message)
  <2>1. \A x \in Range(queue) : MessageFits(x) => MessageFits(x)'
    BY <1>1, <1>2 DEF MessageFits, Called
  <2> QED
    BY <2>1, LeftFits DEF FlowTypeOK
<1>4. FlowTypeOK'
  BY <1>1, <1>3 DEF FlowTypeOK
<1>5. DraftsFit' /\ EntriesFit'
  BY <1>1, <1>2 DEF DraftsFit, EntriesFit, Called
<1>6. LoopEntries'
  BY <1>1, <1>2, LoopEntriesKept
<1>7. ProposedFits'
  <2>1. StopIds' = StopIds /\ loop' = loop
    BY DEF StopIds, LoopId, loopVars
  <2> QED
    BY <1>1, <2>1 DEF ProposedFits
<1>8. BreaksDue' /\ RoundsSeparated'
  BY <1>1, <1>2, WordsKept
<1> QED
  BY <1>2, <1>3, <1>4, <1>5, <1>6, <1>7, <1>8

LEMMA FlowReturn ==
  ASSUME FlowInv, ClaudeReturns \/ ClaudeEndsSilently \/ CodexReturns \/ LocalReturns
  PROVE  FlowInv'
<1> USE FlowReturns
<1>1. CASE ClaudeReturns
  BY <1>1 DEF ClaudeReturns, RunsOn
<1>2. CASE ClaudeEndsSilently
  BY <1>2 DEF ClaudeEndsSilently, RunsOn, cliVars
<1>3. CASE CodexReturns
  BY <1>3 DEF CodexReturns, RunsOn, cliVars
<1>4. CASE LocalReturns
  BY <1>4 DEF LocalReturns, RunsOn, cliVars
<1> QED
  BY <1>1, <1>2, <1>3, <1>4

-----------------------------------------------------------------------------
(* local.                                                                  *)

\* A step of the loop in a running turn: what is left to be shown.
LEMMA FlowLocal ==
  ASSUME FlowInv, RunsOn("local"), RecordInv', LoopEntries',
         UNCHANGED <<proposed, turn, phase, runner, out, cliVars>>,
         text' \in [due : BOOLEAN, any : BOOLEAN, round : Nat]
  PROVE  FlowInv'
<1> USE DEF FlowInv
<1>1. /\ phase = "running" /\ runner = "local"
      /\ UNCHANGED <<connected, queue, use, drafts>>
  BY DEF RunsOn, cliVars
<1>2. QueueFits' /\ queue' \in Seq(Message)
  <2>1. \A x \in Range(queue) : MessageFits(x) => MessageFits(x)'
    BY <1>1 DEF MessageFits, Called
  <2> QED
    BY <1>1, <2>1, LeftFits DEF FlowTypeOK
<1>3. FlowTypeOK'
  BY <1>1, <1>2 DEF FlowTypeOK
<1>4. DraftsFit' /\ EntriesFit'
  BY <1>1 DEF DraftsFit, EntriesFit, Called
<1>5. ProposedFits'
  BY <1>1, ProposedRunning
<1>6. BreaksDue' /\ RoundsSeparated'
  BY <1>1 DEF BreaksDue, RoundsSeparated
<1> QED
  BY <1>2, <1>3, <1>4, <1>5, <1>6

LEMMA FlowLocalSpeaks ==
  ASSUME FlowInv, LoopInv, LocalSpeaks
  PROVE  FlowInv'
<1> DEFINE x == [round |-> round, broken |-> FALSE]
<1>1. round \in Nat /\ text \in [due : BOOLEAN, any : BOOLEAN, round : Nat]
  BY DEF LoopInv, LoopTypeOK, FlowInv, FlowTypeOK
<1>2. x \in Word /\ RecordText(x)
  BY <1>1 DEF Word, LocalSpeaks
<1> HIDE DEF x
<1>3. RecordInv' /\ Entries(segments') = Entries(segments) /\ UNCHANGED proposed
  BY <1>2, TextRecorded DEF FlowInv, RecordText
<1>4. UNCHANGED <<turn, phase, runner, out, cliVars, loopVars>> /\ RunsOn("local")
  BY DEF LocalSpeaks
<1>5. text' \in [due : BOOLEAN, any : BOOLEAN, round : Nat]
  BY <1>1 DEF LocalSpeaks
<1>6. LoopEntries'
  BY <1>3, <1>4, LoopEntriesKept DEF FlowInv
<1> QED
  BY <1>3, <1>4, <1>5, <1>6, FlowLocal

\* The loop goes on, the record stays.
LEMMA LoopGoesOn ==
  ASSUME FlowInv, LoopInv, RunsOn("local"), UNCHANGED recordVars,
         \/ \E calls \in Seq(Call) : Complete(calls)
         \/ LoopFails
  PROVE  RecordInv' /\ LoopEntries'
<1>1. UNCHANGED <<segments, pending, happened>>
  BY DEF recordVars
<1>2. RecordInv' /\ Entries(segments') = Entries(segments)
  BY <1>1, RecordKept DEF FlowInv
<1>3. /\ round \in Nat /\ runner = "local" /\ Entries(segments) \subseteq Id
      /\ LoopEntries
  BY DEF LoopInv, LoopTypeOK, FlowInv, Entries, RunsOn
<1>4. CASE LoopFails
  BY <1>2, <1>3, <1>4 DEF LoopFails, LoopEntries
<1>5. ASSUME NEW calls \in Seq(Call), Complete(calls)
      PROVE  LoopEntries'
  <2>1. loop = "complete" /\ \A x \in Entries(segments) : x[1] < round
    BY <1>3, <1>5 DEF Complete, LoopEntries
  <2>2. stopCalls = {}
    BY <1>3, <2>1 DEF LoopEntries
  <2>3. \/ loop' \in {"answered", "exhausted"} /\ UNCHANGED stopCalls
        \/ loop' = "complete" /\ round' = round + 1 /\ UNCHANGED stopCalls
        \/ loop' = "stopped" /\ round' = round
        \/ loop' = "call" /\ round' = round /\ UNCHANGED stopCalls
    BY <1>5 DEF Complete, Answer, Reject, NextTurn
  <2>4. \A x \in Entries(segments') : x[1] \in Nat /\ x[1] < round
    BY <1>2, <1>3, <2>1 DEF Id
  <2> QED
    BY <1>3, <2>2, <2>3, <2>4 DEF LoopEntries
<1> QED
  BY <1>2, <1>4, <1>5

LEMMA FlowLocalCompletes ==
  ASSUME FlowInv, LoopInv, StreamInv, LocalCompletes \/ LocalFails
  PROVE  FlowInv'
<1>1. /\ RunsOn("local") /\ UNCHANGED <<recordVars, turnVars, cliVars>>
      /\ Complete(Flush) \/ Complete(<< >>) \/ LoopFails
  BY DEF LocalCompletes, LocalFails
<1>2. Flush \in Seq(Call) /\ << >> \in Seq(Call)
  BY FlushCalls
<1>3. RecordInv' /\ LoopEntries'
  BY <1>1, <1>2, LoopGoesOn
<1>4. UNCHANGED <<proposed, turn, phase, runner, out, text>>
  BY <1>1 DEF recordVars, turnVars
<1>5. text' \in [due : BOOLEAN, any : BOOLEAN, round : Nat]
  BY <1>4 DEF FlowInv, FlowTypeOK
<1> QED
  BY <1>1, <1>3, <1>4, <1>5, FlowLocal

LEMMA FlowLocalTool ==
  ASSUME FlowInv, LoopInv, LocalTool
  PROVE  FlowInv'
<1>1. /\ RunsOn("local") /\ runner = "local" /\ UNCHANGED <<turnVars, cliVars>>
      /\ LoopEntries /\ Entries(segments) \subseteq Id /\ round \in Nat /\ round # 0
  BY DEF LocalTool, RunsOn, FlowInv, LoopInv, LoopTypeOK, Entries
<1>2. UNCHANGED <<turn, phase, runner, out, text>>
  BY <1>1 DEF turnVars
<1>3. text' \in [due : BOOLEAN, any : BOOLEAN, round : Nat]
  BY <1>2 DEF FlowInv, FlowTypeOK
<1>4. CASE CallTool /\ RecordCall(LoopId(running'))
  <2> DEFINE id == LoopId(running')
  <2>1. /\ loop = "call" /\ loop' = "execute" /\ running' \in Unanswered
        /\ UNCHANGED <<round, batches, stopCalls>> /\ batches # << >>
    BY <1>4 DEF CallTool, LoopInv, LatestFits
  <2>2. Latest \in BatchRecord /\ Latest' = Latest
    <3>1. batches \in Seq(BatchRecord)
      BY DEF LoopInv, LoopTypeOK
    <3> QED
      BY <2>1, <3>1 DEF Latest
  <2>3. running' \in Nat /\ running' \notin Latest.answered
    BY <2>1, <2>2 DEF Unanswered, BatchRecord
  <2>4. id \in Id /\ id[1] = round /\ id[2] = running'
    BY <1>1, <2>3 DEF LoopId, Id
  <2> HIDE DEF id
  <2>5. id \notin Entries(segments)
    BY <1>1, <2>1, <2>3, <2>4 DEF LoopEntries
  <2>6. /\ RecordInv' /\ Entries(segments') = Entries(segments) \cup {id}
        /\ UNCHANGED proposed
    BY <1>4, <2>4, <2>5, CallRecorded DEF FlowInv, RecordCall, id
  <2>7. LoopEntries'
    BY <1>1, <2>1, <2>2, <2>4, <2>6 DEF LoopEntries
  <2> QED
    BY <1>1, <1>2, <1>3, <2>6, <2>7, FlowLocal
<1>5. CASE ToolReturns /\ RecordResult(LoopId(running))
  <2>1. /\ loop = "execute" /\ UNCHANGED stopCalls /\ batches # << >>
        /\ batches' = [batches EXCEPT ![Len(batches)].answered = @ \cup {running}]
        /\ \/ loop' = "call" /\ round' = round
           \/ loop' = "exhausted"
           \/ loop' = "complete" /\ round' = round + 1
    BY <1>5 DEF ToolReturns, LoopInv, LatestFits, NextTurn
  <2>2. Latest'.answered = Latest.answered \cup {running}
    <3> DEFINE n == Len(batches)
               b == [batches[n] EXCEPT !.answered = @ \cup {running}]
    <3>1. batches \in Seq(BatchRecord) /\ n \in DOMAIN batches /\ batches[n] \in BatchRecord
      BY <2>1 DEF LoopInv, LoopTypeOK
    <3>2. b.answered = batches[n].answered \cup {running}
      BY <3>1 DEF BatchRecord
    <3>3. batches' = [batches EXCEPT ![n] = b]
      BY <2>1
    <3> HIDE DEF b
    <3>4. Len(batches') = n /\ batches'[n] = b
      BY <3>1, <3>3
    <3> QED
      BY <3>2, <3>4 DEF Latest
  <2>3. RecordInv' /\ Entries(segments') = Entries(segments) /\ UNCHANGED proposed
    BY <1>5, ResultRecorded DEF FlowInv, RecordResult
  <2>4. \A x \in Entries(segments) :
           /\ x[1] \in Nat
           /\ \/ x[1] < round
              \/ x[1] = round /\ x[2] \in Latest'.answered
    BY <1>1, <2>1, <2>2 DEF LoopEntries, Id
  <2>5. LoopEntries'
    BY <1>1, <1>2, <2>1, <2>3, <2>4 DEF LoopEntries
  <2> QED
    BY <1>1, <1>2, <1>3, <2>3, <2>5, FlowLocal
<1> QED
  BY <1>4, <1>5 DEF LocalTool

-----------------------------------------------------------------------------
\* The calls that were running are done; what was said of them stays.
LEMMA FlowDisconnect ==
  ASSUME FlowInv, Disconnect
  PROVE  FlowInv'
<1> USE DEF FlowInv
<1>1. /\ UNCHANGED <<segments, pending, proposed, happened>>
      /\ UNCHANGED <<turn, phase, runner, text, out, queue, drafts, loopVars>>
      /\ connected' = FALSE
  BY DEF Disconnect, recordVars, turnVars
<1>2. /\ use' \in [Escalation -> UseRecord]
      /\ \A x \in Escalation :
            /\ use'[x].used = use[x].used /\ use'[x].kind = use[x].kind
            /\ use'[x].ok = use[x].ok /\ use'[x].done = use[x].used
  BY DEF Disconnect, FlowTypeOK, UseRecord
<1>3. RecordInv' /\ Entries(segments') = Entries(segments) /\ Texts' = Texts
  BY <1>1, RecordKept
<1>4. FlowTypeOK'
  BY <1>1, <1>2 DEF FlowTypeOK
<1>5. QueueFits'
  <2>1. ASSUME NEW x \in Range(queue), MessageFits(x) PROVE MessageFits(x)'
    BY <1>1, <1>2, <2>1, QueuedMessages DEF MessageFits, Called, Entries
  <2> QED
    BY <1>1, <2>1, LeftFits DEF FlowTypeOK
<1>6. DraftsFit' /\ EntriesFit'
  <2>1. drafts \subseteq Escalation /\ Range(out) \subseteq Escalation
    BY ElementsOf DEF FlowTypeOK
  <2> QED
    BY <1>1, <1>2, <1>3, <2>1 DEF DraftsFit, EntriesFit, Called
<1>7. LoopEntries' /\ ProposedFits'
  BY <1>1, <1>3, LoopEntriesKept, ProposedKept
<1>8. BreaksDue' /\ RoundsSeparated'
  BY <1>1, <1>3, WordsKept
<1> QED
  BY <1>3, <1>4, <1>5, <1>6, <1>7, <1>8

LEMMA FlowStep ==
  ASSUME FlowInv, LoopInv, StreamInv, [Next]_vars
  PROVE  FlowInv'
<1>1. ASSUME NEW t \in Turn, NEW e \in Runner, StartTurn(t, e) PROVE FlowInv'
  BY <1>1, FlowStartTurn
<1>2. CASE CliSpeaks
  BY <1>2, FlowCliSpeaks
<1>3. ASSUME NEW id \in Escalation, NEW kind \in UseKind, CliCalls(id, kind) PROVE FlowInv'
  BY <1>3, FlowCliCalls
<1>4. ASSUME NEW id \in Escalation, CliAsks(id) PROVE FlowInv'
  BY <1>4, FlowKept DEF CliAsks, cliVars, FlowInv, FlowTypeOK
<1>5. ASSUME NEW id \in Escalation, NEW ok \in BOOLEAN, CliResults(id, ok) PROVE FlowInv'
  BY <1>5, FlowCliResults
<1>6. ASSUME NEW id \in Escalation, NEW kind \in {"tool", "draft"}, NEW ok \in BOOLEAN,
             CodexItem(id, kind, ok)
      PROVE  FlowInv'
  BY <1>6, FlowCodexItem
<1>7. ASSUME NEW ok \in BOOLEAN, CliEnds(ok) PROVE FlowInv'
  BY <1>7, FlowCliEnds
<1>8. CASE ReadStart \/ ReadText \/ ReadCall \/ ReadResult
  BY <1>8, FlowReadStart, FlowReadText, FlowReadCall, FlowReadResult
<1>9. CASE ClaudeReturns \/ ClaudeEndsSilently \/ CodexReturns
  BY <1>9, FlowReturn
<1>10. CASE Disconnect
  BY <1>10, FlowDisconnect
<1>11. CASE CallbackStep \/ CallbackCancelled \/ HumanDecides
  BY <1>11, FlowKept DEF CallbackStep, CallbackCancelled, HumanDecides, cliVars, FlowInv,
                         FlowTypeOK
<1>12. CASE CodexSpeaks
  BY <1>12, FlowCodexSpeaks
<1>13. CASE LocalStep
  <2>1. CASE LocalOpens \/ LocalFragment
    BY <2>1, FlowKept DEF LocalOpens, LocalFragment, cliVars, FlowInv, FlowTypeOK
  <2> QED
    BY <1>13, <2>1, FlowLocalSpeaks, FlowLocalCompletes, FlowLocalTool, FlowReturn DEF LocalStep
<1>14. CASE UNCHANGED vars
  BY <1>14, FlowKept DEF vars, cliVars, FlowInv, FlowTypeOK
<1> QED
  BY <1>1, <1>2, <1>3, <1>4, <1>5, <1>6, <1>7, <1>8, <1>9, <1>10, <1>11, <1>12, <1>13,
     <1>14 DEF Next

LEMMA FlowStart ==
  ASSUME Init
  PROVE  FlowInv
<1>1. /\ segments = << >> /\ pending = << >> /\ proposed = << >> /\ happened = << >>
      /\ turn = NoTurn /\ phase = "idle" /\ runner = "" /\ connected = FALSE
      /\ text = NoText /\ queue = << >> /\ drafts = {} /\ out = << >>
      /\ use = [id \in Escalation |-> UnusedCall]
  BY DEF Init, RecordEmpty
<1>2. RecordInv /\ Entries(segments) = {} /\ Texts = << >>
  BY <1>1, RecordStarts
<1>3. FlowTypeOK
  <2>1. out \in Seq(Escalation) /\ queue \in Seq(Message) /\ turn \in Nat
    <3>1. turn \in Nat
      BY <1>1 DEF NoTurn
    <3> QED
      BY <1>1, <3>1, NoCalls
  <2>2. use \in [Escalation -> UseRecord]
    BY <1>1 DEF UnusedCall, UseRecord, UseKind
  <2>3. text \in [due : BOOLEAN, any : BOOLEAN, round : Nat]
    BY <1>1 DEF NoText
  <2> QED
    BY <1>1, <2>1, <2>2, <2>3 DEF FlowTypeOK
<1>4. QueueFits /\ DraftsFit /\ EntriesFit /\ LoopEntries /\ ProposedFits
  <2>1. DOMAIN queue = {} /\ DOMAIN out = {}
    <3>1. DOMAIN << >> = {}
      OBVIOUS
    <3>2. queue = << >> /\ out = << >>
      BY <1>1
    <3> QED
      BY ONLY <3>1, <3>2
  <2>2. Range(queue) = {} /\ Range(out) = {}
    BY <2>1 DEF Range
  <2>3. QueueFits
    BY <1>1, <2>1, <2>2 DEF QueueFits, CalledOnce
  <2>4. DraftsFit
    BY <1>1, <2>1, <2>2 DEF DraftsFit
  <2> QED
    BY <1>1, <1>2, <2>3, <2>4 DEF EntriesFit, LoopEntries, ProposedFits
<1>5. BreaksDue /\ RoundsSeparated
  BY <1>1 DEF BreaksDue, RoundsSeparated
<1> QED
  BY <1>2, <1>3, <1>4, <1>5 DEF FlowInv

LEMMA TurnInvariant == Spec => [](FlowInv /\ LoopInv /\ StreamInv /\ EscalationsInv)
<1> DEFINE I == FlowInv /\ LoopInv /\ StreamInv /\ EscalationsInv
<1>1. Init => I
  <2> SUFFICES ASSUME Init PROVE I
    OBVIOUS
  <2>1. StreamInv
    <3>1. << >> \in Seq([index : DOMAIN streamed, whole : BOOLEAN])
      BY NoCalls
    <3> QED
      BY <3>1 DEF Init, StreamInit, StreamInv, StreamTypeOK
  <2>2. LoopInv /\ EscalationsInv
    BY LoopStart, EscalationsStart DEF Init
  <2> QED
    BY <2>1, <2>2, FlowStart
<1>2. I /\ [Next]_vars => I'
  <2> SUFFICES ASSUME I, [Next]_vars PROVE I'
    OBVIOUS
  <2>1. StreamInv' /\ LoopInv'
    BY LoopMove, LoopStep, LoopStartsAnew
  <2>2. EscalationsInv'
    BY EscalationsMove, EscalationsStep
  <2> QED
    BY <2>1, <2>2, FlowStep
<1> QED
  BY <1>1, <1>2, PTL DEF Spec

\* Whatever is proposed was accepted, and is not tool activity.
LEMMA ProposedAccepted ==
  ASSUME FlowInv, LoopInv
  PROVE  ProposalsAccepted
<1>1. Recorded = Entries(segments)
  BY RecordInvFits DEF FlowInv
<1>2. CASE proposed = << >>
  <2>1. ToSet(proposed) = {}
    BY <1>2 DEF ToSet
  <2> QED
    BY <1>2, <2>1, FS_EmptySet DEF ProposalsAccepted
<1>3. CASE runner # "local" /\ proposed = out
  <2>1. Cardinality(ToSet(out)) = Len(out)
    BY DistinctMembers DEF FlowInv, FlowTypeOK, DraftsFit
  <2>2. ToSet(out) = Range(out)
    BY DEF ToSet, Range
  <2>3. \A id \in Range(out) : use[id].kind = "draft" /\ use[id].ok
    BY DEF FlowInv, DraftsFit
  <2>4. \A id \in Range(out) : id \notin Entries(segments)
    BY <1>3, <2>3 DEF FlowInv, EntriesFit
  <2> QED
    BY <1>1, <1>3, <2>1, <2>2, <2>3, <2>4 DEF ProposalsAccepted
<1>4. CASE phase = "recorded" /\ runner = "local" /\ proposed # << >>
  <2>1. loop \in Ended /\ proposed = StopIds /\ round \in Nat /\ stopCalls \in SUBSET Nat
    BY <1>4 DEF FlowInv, ProposedFits, LoopInv, LoopTypeOK
  <2>2. loop = "stopped"
    <3>1. CASE loop # "stopped"
      <4>1. stopCalls = {}
        BY <1>4, <3>1 DEF FlowInv, LoopEntries
      <4>2. Cardinality(stopCalls) = 0
        BY <4>1, FS_EmptySet
      <4>3. StopIds = << >>
        BY <4>2 DEF StopIds
      <4> QED
        BY <1>4, <2>1, <4>3
    <3> QED
      BY <3>1
  <2>3. IsFiniteSet(stopCalls)
    <3>1. /\ batches # << >> /\ batches \in Seq(BatchRecord)
          /\ stopCalls = FoundStopCalls(Latest.calls)
      BY <2>2 DEF LoopInv, LatestFits, LoopTypeOK
    <3>2. Latest \in BatchRecord
      BY <3>1 DEF Latest
    <3>3. Latest.calls \in Seq(Call)
      BY <3>2 DEF BatchRecord
    <3>4. stopCalls \in SUBSET (1..Len(Latest.calls)) /\ Len(Latest.calls) \in Nat
      BY <3>1, <3>3, FoundInDomain
    <3>5. IsFiniteSet(1..Len(Latest.calls))
      BY <3>4, FS_Interval
    <3> QED
      BY <3>4, <3>5, FS_Subset
  <2>4. /\ StopIds \in Seq(Id)
        /\ \A k \in DOMAIN StopIds : StopIds[k][1] = round
        /\ \A k, m \in DOMAIN StopIds : StopIds[k] = StopIds[m] => k = m
    BY <2>1, <2>3, StopIdsAre
  <2>5. Cardinality(ToSet(StopIds)) = Len(StopIds)
    BY <2>4, DistinctMembers
  <2>6. \A x \in Entries(segments) : x[1] < round
    BY <1>4, <2>2 DEF FlowInv, LoopEntries
  <2>7. \A id \in ToSet(StopIds) : id[1] = round
    BY <2>4 DEF ToSet
  <2>8. \A id \in ToSet(StopIds) : id \notin Entries(segments)
    BY <2>1, <2>6, <2>7
  <2> QED
    BY <1>1, <1>4, <2>1, <2>5, <2>8 DEF ProposalsAccepted
<1> QED
  BY <1>2, <1>3, <1>4 DEF FlowInv, ProposedFits

-----------------------------------------------------------------------------
\* A result is recorded with the call it answers, in whatever order calls,
\* words and results alternate; a call without one is still waited for.
THEOREM ResultsOnTheirCalls == Spec => []ResultOnItsCall
<1>1. FlowInv => ResultOnItsCall
  BY RecordInvFits DEF FlowInv
<1> QED
  BY <1>1, TurnInvariant, PTL

\* The segments, read one after the other, are what happened, in its order.
THEOREM RecordedInOrder == Spec => []RecordInOrder
<1>1. FlowInv => RecordInOrder
  BY DEF FlowInv, RecordInv
<1> QED
  BY <1>1, TurnInvariant, PTL

\* The human is shown accepted proposals, each once, and none of them as tool
\* activity too, whatever an abandoned turn left to read.
THEOREM OnlyAcceptedProposed == Spec => []ProposalsAccepted
BY TurnInvariant, ProposedAccepted, PTL

\* The words of two messages of the model are a break apart, those of one not.
THEOREM MessagesApart == Spec => []RoundsSeparated
<1>1. FlowInv => RoundsSeparated
  BY DEF FlowInv
<1> QED
  BY <1>1, TurnInvariant, PTL

\* The stream, the record, the queue, the registry and the loop keep their types.
THEOREM TurnTypeCorrect == Spec => []TurnTypeOK
<1>1. FlowInv /\ LoopInv /\ StreamInv /\ EscalationsInv => TurnTypeOK
  BY DEF FlowInv, FlowTypeOK, LoopInv, LoopTypeOK, StreamInv, EscalationsInv, TurnTypeOK, UseRecord
<1> QED
  BY <1>1, TurnInvariant, PTL
=============================================================================
