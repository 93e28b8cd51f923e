------------------------- MODULE MCStageConversation -------------------------
(* StageConversation on small instances. *)
EXTENDS StageConversation, TLC

\* The requests are alike.
Symmetry == Permutations(Request)

\* A session that no record, client or request names is never used again.
Named ==
    {sessionIDs[e] : e \in Executor} \cup {client}
      \cup UNION {{req[r].session, req[r].resume} : r \in Open}

\* What a request will not read again: after its turn only the id to record
\* and, to regenerate, the messages kept; of a post's messages only the
\* invariants of calm behaviours speak.
Remaining(r) ==
    LET q == req[r]
        seen == IF q.pc \in {"persist", "save"}
                THEN [q EXCEPT !.resume = NoSession, !.session = NoSession,
                               !.retried = FALSE, !.gone = {}]
                ELSE q
    IN  IF q.kind \in EditKind THEN seen
        ELSE [seen EXCEPT !.alone = TRUE,
                          !.kept = IF q.pc \in {"persist", "save"} THEN << >> ELSE @]

MCView ==
    <<client, held, busy, current, messages, sessionIDs, calm, discarded,
      [s \in Request |-> IF s \in Named THEN context[s] ELSE {}],
      [r \in Request |-> Remaining(r)],
      IF calm THEN delivered ELSE {}>>
=============================================================================
