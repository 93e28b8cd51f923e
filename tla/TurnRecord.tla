------------------------------ MODULE TurnRecord ------------------------------
(***************************************************************************)
(* What runStageTurn (internal/api/stage_conversation.go) records of a     *)
(* turn: the segments, in the order in which the runner's callbacks come,  *)
(* each the text or the run of tool calls between two changes of the kind, *)
(* and the proposals.  A text is the round of the model it belongs to and  *)
(* whether a paragraph break precedes it; a tool's result is named by the  *)
(* call it is the result of.                                               *)
(***************************************************************************)
EXTENDS Naturals, Sequences, SequencesExt, Functions

CONSTANTS NoResult

VARIABLES
    segments,   \* the turn's segments
    pending,    \* per unresolved call id, where its entry lives
    proposed,   \* the proposals surfaced to the human, by id
    happened    \* auxiliary: the texts and the calls, as they came

recordVars == <<segments, pending, proposed, happened>>

TextSegment(text) == [kind |-> "text", texts |-> <<text>>, acts |-> << >>]
ToolsSegment(id) ==
    [kind |-> "tools", texts |-> << >>, acts |-> <<[id |-> id, result |-> NoResult]>>]

Words(text) == [kind |-> "text", text |-> text]
CallOf(id) == [kind |-> "tools", id |-> id]

RecordEmpty == segments = << >> /\ pending = << >> /\ proposed = << >> /\ happened = << >>

ResetRecord ==
    segments' = << >> /\ pending' = << >> /\ proposed' = << >> /\ happened' = << >>

LastIs(kind) == segments # << >> /\ segments[Len(segments)].kind = kind

\* The onDelta of runStageTurn: consecutive texts are one segment.
RecordText(text) ==
    /\ segments' = IF LastIs("text")
                   THEN [segments EXCEPT ![Len(segments)].texts = Append(@, text)]
                   ELSE Append(segments, TextSegment(text))
    /\ happened' = Append(happened, Words(text))
    /\ UNCHANGED <<pending, proposed>>

\* Where the call recorded last lives.
LatestSlot(s) == [seg |-> Len(s), act |-> Len(s[Len(s)].acts)]

\* Mutant: a call joins the turn's first run of calls.
WithCallInFirst(s, id) ==
    IF \E k \in DOMAIN s : s[k].kind = "tools"
    THEN [s EXCEPT ![CHOOSE k \in DOMAIN s : s[k].kind = "tools"].acts =
                      Append(@, [id |-> id, result |-> NoResult])]
    ELSE Append(s, ToolsSegment(id))

\* in.OnToolCall: consecutive calls are one segment.
WithCall(s, id) ==
    IF s # << >> /\ s[Len(s)].kind = "tools"
    THEN [s EXCEPT ![Len(s)].acts = Append(@, [id |-> id, result |-> NoResult])]
    ELSE Append(s, ToolsSegment(id))

RecordCall(id) ==
    /\ segments' = WithCall(segments, id)
    /\ pending' = [i \in DOMAIN pending \cup {id} |->
                      IF i = id THEN LatestSlot(segments') ELSE pending[i]]
    /\ happened' = Append(happened, CallOf(id))
    /\ UNCHANGED proposed

\* Mutant: a result goes to the call recorded last.
WithResultLast(s, p, id) ==
    IF id \in DOMAIN p /\ s[Len(s)].kind = "tools"
    THEN [s EXCEPT ![Len(s)].acts[Len(s[Len(s)].acts)].result = id] ELSE s

\* in.OnToolResult: the result goes where the id's call lives; a result of no
\* pending call is not recorded.
WithResult(s, p, id) ==
    IF id \in DOMAIN p THEN [s EXCEPT ![p[id].seg].acts[p[id].act].result = id] ELSE s

RecordResult(id) ==
    /\ segments' = WithResult(segments, pending, id)
    /\ pending' = Restrict(pending, DOMAIN pending \ {id})
    /\ UNCHANGED <<proposed, happened>>

\* A call that a runner reports together with its result.
RecordCallAndResult(id) ==
    /\ segments' = LET called == WithCall(segments, id)
                   IN  WithResult(called, [i \in {id} |-> LatestSlot(called)], id)
    /\ happened' = Append(happened, CallOf(id))
    /\ UNCHANGED <<pending, proposed>>

\* After Run: the proposals among the calls it returned, in their order.
RecordProposals(calls) ==
    /\ proposed' = calls
    /\ UNCHANGED <<segments, pending, happened>>

-----------------------------------------------------------------------------
(* What must hold.                                                         *)

Acts == FlattenSeq([k \in DOMAIN segments |-> segments[k].acts])
Texts == FlattenSeq([k \in DOMAIN segments |-> segments[k].texts])
Recorded == {Acts[k].id : k \in DOMAIN Acts}

\* "A result can arrive for any pending call" (stage_conversation.go:766): each
\* is recorded with the call it answers, in whatever order calls, words and
\* results alternate; and a call without a result is one still waited for.
ResultOnItsCall ==
    /\ \A k \in DOMAIN Acts : Acts[k].result \in {NoResult, Acts[k].id}
    /\ DOMAIN pending = {Acts[k].id : k \in {j \in DOMAIN Acts : Acts[j].result = NoResult}}

\* "The turn's one real record of what happened, in the order it happened".
RecordInOrder ==
    happened = FlattenSeq([k \in DOMAIN segments |->
                  [j \in DOMAIN segments[k].texts |-> Words(segments[k].texts[j])]
                    \o [j \in DOMAIN segments[k].acts |-> CallOf(segments[k].acts[j].id)]])
=============================================================================
