-------------------------- MODULE CompletionStream --------------------------
(***************************************************************************)
(* One streamed chat completion (internal/chat/client.go and toolcall.go): *)
(* the model's tool calls arrive in fragments keyed by index, those of     *)
(* parallel calls interleaved, and are handed over at the finish reason.   *)
(* A call is its name and its arguments: the first fragment brings the     *)
(* name, the last the rest of the arguments.                               *)
(***************************************************************************)
EXTENDS Naturals, Sequences

CONSTANTS
    Batch,      \* the sequences of tool calls a model may stream
    Cut         \* arguments whose end is missing, no valid JSON

ASSUME CompletionStreamAssumption ==
    \A calls \in Batch : calls \in Seq([name : STRING, args : STRING])

VARIABLES
    open,       \* a completion is being streamed
    streamed,   \* its calls, by index
    acc         \* the accumulator: the calls so far, in first-seen order

streamVars == <<open, streamed, acc>>

StreamTypeOK ==
    /\ open \in BOOLEAN
    /\ streamed \in Batch \cup {<< >>}
    /\ acc \in Seq([index : DOMAIN streamed, whole : BOOLEAN])

StreamInit == open = FALSE /\ streamed = << >> /\ acc = << >>

\* Mutant: one accumulator for all completions.
NoStreamSameAcc == open' = FALSE /\ streamed' = << >> /\ UNCHANGED acc

NoStream == open' = FALSE /\ streamed' = << >> /\ acc' = << >>

\* The request is accepted and the first chunk is on its way.
OpenStream ==
    /\ ~ open
    /\ open' = TRUE
    /\ streamed' \in Batch
    /\ UNCHANGED acc

Seen(i) == \E k \in DOMAIN acc : acc[k].index = i

\* toolCallAccumulator.add, for the first and the last fragment of a call.
Add(i) ==
    \/ /\ ~ Seen(i)
       /\ acc' = Append(acc, [index |-> i, whole |-> FALSE])
    \/ \E k \in DOMAIN acc :
          /\ acc[k].index = i /\ ~ acc[k].whole
          /\ acc' = [acc EXCEPT ![k].whole = TRUE]

Fragment ==
    /\ open
    /\ \E i \in DOMAIN streamed :
          /\ i > 1 => Seen(i - 1)
          /\ Add(i)
    /\ UNCHANGED <<open, streamed>>

\* flush: every call accumulated so far, the unfinished ones with the
\* arguments they have.
Flush ==
    [k \in DOMAIN acc |->
        IF acc[k].whole THEN streamed[acc[k].index]
        ELSE [streamed[acc[k].index] EXCEPT !.args = Cut]]

\* The finish reason arrives, after the calls or, at the token limit, amid one.
FinishReason ==
    /\ open
    /\ \A i \in DOMAIN streamed : i < Len(streamed) => Seen(i)

\* The stream is over, whichever way: a closed connection is no error, and
\* what it had accumulated without a finish reason is dropped.
CloseStream ==
    /\ open
    /\ NoStream
=============================================================================
