-------------------------- MODULE StageConversation --------------------------
(***************************************************************************)
(* One stage's Conversation (internal/api/stage_conversation.go): requests *)
(* that post, start, delete, regenerate or finalize, each a sequence of    *)
(* steps, over three records that must agree: the messages on disk, the    *)
(* session ids on disk (internal/task/session.go) and what the agents'     *)
(* sessions have in context (AgentSessions).                               *)
(***************************************************************************)
EXTENDS AgentSessions, Naturals

CONSTANTS
    MaxOpen       \* requests in progress at a time

ASSUME StageConversationAssumption == MaxOpen \in Nat \ {0}

VARIABLES
    current,     \* the task is at this conversation's stage
    messages,    \* conversation-<stage>.yaml
    sessionIDs,  \* conversation-<stage>.session.yaml
    req,         \* the requests
    calm,        \* auxiliary: no two requests have overlapped, no edit was cut
    delivered,   \* auxiliary: messages that reached a model or came from one
    discarded    \* auxiliary: removed by an edit that ran alone and finished

auxVars == <<calm, delivered, discarded>>
vars == <<sessionVars, current, messages, sessionIDs, req, auxVars>>

TurnKind == {"post", "start", "regenerate"}
EditKind == {"delete", "regenerate"}
Kind == TurnKind \cup EditKind \cup {"finalize"}

\* kept: the messages read, for an edit those it keeps; resume: the session id
\* read; session: the one the turn runs on; out: the id the turn returned.
NewRequest == [pc |-> "new", kind |-> "post", executor |-> "", kept |-> << >>,
               resume |-> NoSession, session |-> NoSession, retried |-> FALSE,
               out |-> NoSession, todo |-> {}, alone |-> TRUE,
               removed |-> {}, gone |-> {}]

\* The handler has returned.
Finished(r) == [NewRequest EXCEPT !.pc = "done", !.executor = req[r].executor]

Open == {r \in Request : req[r].pc \notin {"new", "done"}}
Messages(s) == {s[i] : i \in DOMAIN s}

Goto(r, pc) == req' = [req EXCEPT ![r].pc = pc]
OfRunner(r, executors) == req[r].executor \in executors

-----------------------------------------------------------------------------
(* The requests, up to the turn.                                           *)

\* A handler starts, the server may be at others.
Begin(r, kind, e) ==
    /\ req[r].pc = "new"
    /\ Cardinality(Open) < MaxOpen
    /\ req' = [q \in Request |->
                 IF q = r
                 THEN [NewRequest EXCEPT
                         !.pc = IF kind = "finalize" THEN "close" ELSE "read",
                         !.kind = kind, !.executor = e, !.alone = (Open = {}),
                         !.todo = Executor, !.gone = discarded]
                 ELSE IF q \in Open THEN [req[q] EXCEPT !.alone = FALSE] ELSE req[q]]
    /\ calm' = (calm /\ Open = {})
    /\ UNCHANGED <<sessionVars, messages, sessionIDs, delivered, discarded>>

\* requireCurrentStage; from here on the stage may move under the request.
OpenRequest(r, kind, e) ==
    /\ Begin(r, kind, e)
    /\ current
    /\ current' = (kind # "finalize")

\* GetConversation, with the answers 400 and 409.
ReadForPost(r) ==
    /\ req[r].pc = "read" /\ req[r].kind = "post"
    /\ req' = [req EXCEPT ![r].pc = "resume", ![r].kept = messages]
    /\ UNCHANGED <<sessionVars, current, messages, sessionIDs, auxVars>>

ReadForStart(r) ==
    /\ req[r].pc = "read" /\ req[r].kind = "start"
    /\ req' = [req EXCEPT ![r] = IF messages = << >> THEN [@ EXCEPT !.pc = "resume"]
                                 ELSE Finished(r)]
    /\ UNCHANGED <<sessionVars, current, messages, sessionIDs, auxVars>>

ReadForDelete(r) ==
    /\ req[r].pc = "read" /\ req[r].kind = "delete"
    /\ \/ \E i \in DOMAIN messages :
             req' = [req EXCEPT ![r].pc = "replace", ![r].kept = RemoveAt(messages, i)]
       \/ req' = [req EXCEPT ![r] = Finished(r)]
    /\ UNCHANGED <<sessionVars, current, messages, sessionIDs, auxVars>>

ReadForRegenerate(r) ==
    /\ req[r].pc = "read" /\ req[r].kind = "regenerate"
    /\ \/ \E i \in DOMAIN messages :
             /\ messages[i].role = "user"
             /\ req' = [req EXCEPT ![r].pc = "close", ![r].kept = SubSeq(messages, 1, i - 1)]
       \/ req' = [req EXCEPT ![r] = Finished(r)]
    /\ UNCHANGED <<sessionVars, current, messages, sessionIDs, auxVars>>

\* ReplaceConversationMessages of a delete.
ReplaceMessages(r) ==
    /\ req[r].pc = "replace"
    /\ messages' = req[r].kept
    /\ req' = [req EXCEPT ![r].pc = "close",
                          ![r].removed = Messages(messages) \ Messages(messages')]
    /\ UNCHANGED <<sessionVars, current, sessionIDs, auxVars>>

\* Mutant: only the runners with a connected client close theirs.
CloseSessionsOfClients(r) ==
    /\ req[r].pc = "close"
    /\ client' = NoSession
    /\ req' = [req EXCEPT ![r] = IF @.kind = "finalize" THEN Finished(r)
                                 ELSE [@ EXCEPT !.pc = "clear"]]
    /\ UNCHANGED <<held, busy, context, current, messages, sessionIDs, auxVars>>

\* closeSessions, in one step: a turn only sees what its own runner holds.
CloseSessions(r) ==
    /\ req[r].pc = "close"
    /\ client' = NoSession /\ held' = NotHeld
    /\ req' = [req EXCEPT ![r] = IF @.kind = "finalize" THEN Finished(r)
                                 ELSE [@ EXCEPT !.pc = "clear"]]
    /\ UNCHANGED <<busy, context, current, messages, sessionIDs, auxVars>>

Discard(r, removed) ==
    discarded' = IF req[r].alone THEN discarded \cup removed ELSE discarded

\* clearSessionIDs, one executor after the other: each reads and writes the
\* file under the store's lock.
Cleared(r, e) ==
    IF req[r].todo # {e} THEN [req[r] EXCEPT !.todo = @ \ {e}]
    ELSE IF req[r].kind = "delete" THEN Finished(r)
    ELSE [req[r] EXCEPT !.pc = "resume"]

ClearSessionIDs(r) ==
    /\ req[r].pc = "clear"
    /\ \E e \in req[r].todo :
          /\ sessionIDs' = [sessionIDs EXCEPT ![e] = NoSession]
          /\ req' = [req EXCEPT ![r] = Cleared(r, e)]
    /\ IF req'[r].pc = "done" THEN Discard(r, req[r].removed) ELSE UNCHANGED discarded
    /\ UNCHANGED <<sessionVars, current, messages, calm, delivered>>

-----------------------------------------------------------------------------
(* The turn.                                                               *)

\* resolveStageRun fails: no turn runs, but the exchange is saved.
WorkspaceFails(r) ==
    /\ req[r].pc = "resume"
    /\ Goto(r, "save")
    /\ UNCHANGED <<sessionVars, current, messages, sessionIDs, auxVars>>

LoadResumeSessionID(r) ==
    /\ req[r].pc = "resume"
    /\ req' = [req EXCEPT ![r].pc = "run",
                          ![r].resume = IF req[r].kind = "regenerate" THEN NoSession
                                        ELSE sessionIDs[req[r].executor]]
    /\ UNCHANGED <<sessionVars, current, messages, sessionIDs, auxVars>>

\* The runner's Run returns; its deferred unlock.
Return(r, out) ==
    /\ Unlock(req[r].executor)
    /\ req' = [req EXCEPT ![r].pc = "persist", ![r].out = out]

\* ErrRunInProgress.
RunRefused(r) ==
    /\ req[r].pc = "run"
    /\ req[r].executor \in busy
    /\ Goto(r, "persist")
    /\ UNCHANGED <<sessionVars, current, messages, sessionIDs, auxVars>>

Run(r) ==
    /\ req[r].pc = "run"
    /\ TryLock(req[r].executor)
    /\ \/ OfRunner(r, {"claude-code"}) /\ Goto(r, "client") /\ UNCHANGED <<held, context>>
       \/ OfRunner(r, {"codex"}) /\ Goto(r, "connect") /\ UNCHANGED <<held, context>>
       \/ /\ OfRunner(r, {"local"})
          /\ SendHeld(r, Messages(req[r].kept))
          /\ req' = [req EXCEPT ![r].pc = "receive", ![r].session = r]
    /\ UNCHANGED <<client, current, messages, sessionIDs, auxVars>>

\* clientFor up to the connection: the cached client, or none, when it is for
\* another model or effort, or has been idle for too long (reapIdleClients).
ClientFor(r) ==
    /\ req[r].pc = "client"
    /\ \/ /\ client # NoSession
          /\ req' = [req EXCEPT ![r].pc = "query", ![r].session = client]
          /\ UNCHANGED <<client, held>>
       \/ CloseSession("claude-code") /\ Goto(r, "connect")
    /\ UNCHANGED <<busy, context, current, messages, sessionIDs, auxVars>>

\* A new connection: the recorded session, or, when there is none or the CLI
\* does not know it, a new one that is told the history.
Connect(r) ==
    /\ req[r].pc = "connect"
    /\ \/ /\ Resume(req[r].resume)
          /\ req' = [req EXCEPT ![r].pc = "query", ![r].session = req[r].resume]
       \/ /\ StartSession(r, Messages(req[r].kept))
          /\ req' = [req EXCEPT ![r].pc = "query", ![r].session = r]
    /\ CacheClient(req[r].executor, req'[r].session)
    /\ UNCHANGED <<held, busy, current, messages, sessionIDs, auxVars>>

\* No workspace, no such executable, no permission, ...
ConnectFails(r) ==
    /\ req[r].pc = "connect"
    /\ Return(r, NoSession)
    /\ UNCHANGED <<client, held, context, current, messages, sessionIDs, auxVars>>

Query(r) ==
    /\ req[r].pc = "query"
    /\ Connected(req[r].executor, req[r].session)
    /\ Hear(req[r].session, User(r))
    /\ Goto(r, "receive")
    /\ delivered' = delivered \cup {User(r)}
    /\ UNCHANGED <<client, held, busy, current, messages, sessionIDs, calm, discarded>>

\* The pipe of claude-code is gone, its client closed or its subprocess ended
\* by itself: one reconnection.
QueryStale(r) ==
    /\ req[r].pc = "query"
    /\ OfRunner(r, {"claude-code"})
    /\ ~req[r].retried
    /\ CloseSession("claude-code")
    /\ req' = [req EXCEPT ![r].pc = "client", ![r].retried = TRUE]
    /\ UNCHANGED <<busy, context, current, messages, sessionIDs, auxVars>>

QueryFails(r) ==
    /\ req[r].pc = "query"
    /\ Return(r, NoSession)
    /\ UNCHANGED <<client, held, context, current, messages, sessionIDs, auxVars>>

\* The turn's result arrives.
Reply(r) ==
    /\ req[r].pc = "receive"
    /\ \/ OfRunner(r, {"local"}) /\ HoldTurn(r) /\ Return(r, NoSession)
       \/ ~OfRunner(r, {"local"}) /\ Return(r, req[r].session) /\ UNCHANGED held
    /\ Hear(req[r].session, Assistant(r))
    /\ delivered' = delivered \cup {User(r), Assistant(r)}
    /\ UNCHANGED <<client, current, messages, sessionIDs, calm, discarded>>

\* An error result, a timeout or a closed browser tab: claude-code learned the
\* session's id only from an error result, codex when the thread started.
TurnFails(r) ==
    /\ req[r].pc = "receive"
    /\ \/ OfRunner(r, {"claude-code", "codex"}) /\ Return(r, req[r].session)
       \/ OfRunner(r, {"claude-code", "local"}) /\ Return(r, NoSession)
    /\ UNCHANGED <<client, held, context, current, messages, sessionIDs, auxVars>>

\* claude-code's client was closed under the turn, or its subprocess ended: the
\* message stream ends with no result.
TurnEndsSilently(r) ==
    /\ req[r].pc = "receive"
    /\ OfRunner(r, {"claude-code"})
    /\ CloseSession("claude-code")
    /\ Return(r, NoSession)
    /\ UNCHANGED <<context, current, messages, sessionIDs, auxVars>>

\* persistSessionID, whatever the turn returned.
PersistSessionID(r) ==
    /\ req[r].pc = "persist"
    /\ sessionIDs' = [sessionIDs EXCEPT ![req[r].executor] = req[r].out]
    /\ Goto(r, "save")
    /\ UNCHANGED <<sessionVars, current, messages, auxVars>>

\* A post and a kickoff append, a regeneration writes what it kept and its
\* own exchange over the messages.
SaveMessages(r) ==
    /\ req[r].pc = "save"
    /\ messages' = CASE req[r].kind = "post" -> messages \o <<User(r), Assistant(r)>>
                     [] req[r].kind = "start" -> Append(messages, Assistant(r))
                     [] req[r].kind = "regenerate" ->
                          req[r].kept \o <<User(r), Assistant(r)>>
    /\ Discard(r, Messages(messages) \ Messages(messages'))
    /\ req' = [req EXCEPT ![r] = Finished(r)]
    /\ UNCHANGED <<sessionVars, current, sessionIDs, calm, delivered>>

-----------------------------------------------------------------------------
(* Revise brings the task back to the stage; the server may end any time.  *)

Revise ==
    /\ ~current
    /\ current' = TRUE
    /\ UNCHANGED <<sessionVars, messages, sessionIDs, req, auxVars>>

Restart ==
    /\ SessionsLost
    /\ req' = [r \in Request |-> IF r \in Open THEN Finished(r) ELSE req[r]]
    /\ calm' = (calm /\ \A r \in Open : req[r].kind \notin EditKind)
    /\ UNCHANGED <<current, messages, sessionIDs, delivered, discarded>>

OtherConversation ==
    /\ ClientReaped
    /\ UNCHANGED <<current, messages, sessionIDs, req, auxVars>>

Init ==
    /\ SessionsInit
    /\ current = TRUE
    /\ messages = << >>
    /\ sessionIDs = [e \in Executor |-> NoSession]
    /\ req = [r \in Request |-> NewRequest]
    /\ calm = TRUE /\ delivered = {} /\ discarded = {}

TurnStep(r) ==
    \/ LoadResumeSessionID(r) \/ WorkspaceFails(r)
    \/ RunRefused(r) \/ Run(r)
    \/ ClientFor(r) \/ Connect(r) \/ ConnectFails(r)
    \/ Query(r) \/ QueryStale(r) \/ QueryFails(r)
    \/ Reply(r) \/ TurnFails(r) \/ TurnEndsSilently(r)
    \/ PersistSessionID(r) \/ SaveMessages(r)

EditStep(r) == ReplaceMessages(r) \/ CloseSessions(r) \/ ClearSessionIDs(r)

RequestStep(r) ==
    \/ \E kind \in TurnKind, e \in Executor : OpenRequest(r, kind, e)
    \/ \E kind \in {"delete", "finalize"} : OpenRequest(r, kind, "")
    \/ ReadForPost(r) \/ ReadForStart(r) \/ ReadForDelete(r) \/ ReadForRegenerate(r)
    \/ EditStep(r)
    \/ TurnStep(r)

Next ==
    \/ \E r \in Request : RequestStep(r)
    \/ Revise \/ Restart \/ OtherConversation

Spec == Init /\ [][Next]_vars

-----------------------------------------------------------------------------
(* What must hold.                                                         *)

Pc == {"new", "read", "replace", "close", "clear", "resume", "run", "client", "connect",
       "query", "receive", "persist", "save", "done"}

RequestRecord ==
    [pc : Pc, kind : Kind, executor : Executor \cup {""}, kept : Seq(Message),
     resume : Request \cup {NoSession}, session : Request \cup {NoSession},
     retried : BOOLEAN, out : Request \cup {NoSession}, todo : SUBSET Executor,
     alone : BOOLEAN, removed : SUBSET Message, gone : SUBSET Message]

ConversationTypeOK ==
    /\ SessionsTypeOK
    /\ current \in BOOLEAN
    /\ messages \in Seq(Message)
    /\ sessionIDs \in [Executor -> Request \cup {NoSession}]
    /\ req \in [Request -> RequestRecord]
    /\ calm \in BOOLEAN
    /\ delivered \cup discarded \subseteq Message

InTurn(r) == req[r].pc = "receive"

\* Two turns never talk to one CLI session at the same time, whichever way
\* each came by it (cached client, recorded id, new): tryLock, and the ids
\* recorded per executor.
OneTurnPerSession ==
    \A r, q \in Request :
        InTurn(r) /\ InTurn(q) /\ req[r].session = req[q].session => r = q

\* clearSessionIDs: what a human deleted or replaced never gets back into the
\* model's context, for every turn requested after the edit, through any
\* executor, a restart, a reconnection or an overlapping turn.
DiscardedStaysDiscarded ==
    \A r \in Request :
        InTurn(r) => context[req[r].session] \cap req[r].gone = {}

\* RunInput.History and ResumeSessionID: however the session was come by, the
\* model knows every message of the transcript that this executor exchanged.
KnowsOwnExchanges ==
    \A r \in Request :
        calm /\ InTurn(r) =>
            {m \in Messages(req[r].kept) \cap delivered :
                req[m.request].executor = req[r].executor} \subseteq context[req[r].session]

\* runner.go:98, "replaying it into an established session would duplicate
\* history the runner already holds": the session of a turn knows the whole
\* transcript the turn was given.
SessionHoldsTranscript ==
    \A r \in Request :
        calm /\ InTurn(r) => Messages(req[r].kept) \cap delivered \subseteq context[req[r].session]
=============================================================================
