---------------------------- MODULE MCStageTurn ----------------------------
(* StageTurn on a small instance. *)
EXTENDS StageTurn

CONSTANTS MaxTurn, MaxUses

MCTurn == 1..MaxTurn
MCEscalation == {0} \X (1..MaxUses)

\* The last turn is claude-code's: of an earlier one the others read nothing.
MCExecutors == [t \in MCTurn |-> IF t = MaxTurn THEN {"claude-code"} ELSE Runner]

C(name, args) == [name |-> name, args |-> args]
Read == C("Read", "a")

\* An answer, reads with a duplicate and beyond the cap, an unknown tool,
\* proposals next to a read, valid and not, and two of the same tool.
MCBatch ==
    {<< >>, <<Read, Read, C("Read", "b")>>, <<C("Read", "b"), C("Glob", "a"), Read>>,
     <<C("Frob", "a")>>, <<Read, C("propose", "valid")>>, <<C("propose", "bad")>>,
     <<C("propose", "valid"), C("propose", "b")>>}

MCCall == [name : {"Read", "Glob", "Frob", "propose"}, args : {"a", "b", "valid", "bad", "cut"}]
=============================================================================
