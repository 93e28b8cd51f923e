---------------------------- MODULE AgentSessions ----------------------------
(***************************************************************************)
(* What the agent runners keep of one stage conversation between its turns *)
(* (internal/agentrunner: claude_runner.go, codex_runner.go,               *)
(* chat_client_runner.go), for one session key.  "claude-code" keeps a     *)
(* connected client and its CLI a transcript on disk; "codex" keeps        *)
(* nothing itself, its CLI a transcript; "local" keeps the messages in     *)
(* memory.  A CLI session is named by the turn that started it.            *)
(***************************************************************************)
EXTENDS FiniteSets, Sequences, SequencesExt

CONSTANTS
    Request,    \* the HTTP requests on the conversation
    Executor,   \* the configured runners
    NoSession   \* "", no session id

ASSUME AgentSessionsAssumption ==
    /\ Executor \subseteq {"claude-code", "codex", "local"}
    /\ NoSession \notin Request

VARIABLES
    client,     \* the session of claude-code's cached client
    held,       \* local's messages of the key
    busy,       \* the runners with a turn in flight on the key
    context     \* what the model of a session has seen, the CLIs' transcripts

sessionVars == <<client, held, busy, context>>

Message == [request : Request, role : {"user", "assistant"}]
User(r) == [request |-> r, role |-> "user"]
Assistant(r) == [request |-> r, role |-> "assistant"]

NotHeld == [live |-> FALSE, messages |-> {}]
Held(messages) == [live |-> TRUE, messages |-> messages]

SessionsTypeOK ==
    /\ client \in Request \cup {NoSession}
    /\ held \in [live : BOOLEAN, messages : SUBSET Message]
    /\ busy \subseteq Executor \ {"local"}
    /\ context \in [Request -> SUBSET Message]

SessionsInit ==
    /\ client = NoSession /\ held = NotHeld /\ busy = {}
    /\ context = [r \in Request |-> {}]

-----------------------------------------------------------------------------
(* One turn r: AgentRunner.Run, from the lock to the connected session.    *)

\* CloseSession of one runner; codex has nothing to close.
CloseSession(e) ==
    /\ client' = IF e = "claude-code" THEN NoSession ELSE client
    /\ held' = IF e = "local" THEN NotHeld ELSE held

\* Mutants: the key is not locked; every runner locks it.
TryLockAgain(e) == busy' = IF e = "local" THEN busy ELSE busy \cup {e}

TryLockAny(e) ==
    /\ e \notin busy
    /\ busy' = busy \cup {e}

\* claude-code and codex admit one turn on a key, local any number.
TryLock(e) ==
    /\ e \notin busy
    /\ busy' = IF e = "local" THEN busy ELSE busy \cup {e}

Unlock(e) == busy' = busy \ {e}

\* The CLI goes on with the recorded session and its own transcript, ...
Resume(s) ==
    /\ s # NoSession
    /\ UNCHANGED context

\* Mutant: a new session is not told what came before it.
StartSessionBare(r, history) ==
    context' = [context EXCEPT ![r] = {}]

\* ... or a session starts, which is told the transcript of the record (all of
\* it: the limit of systemPromptWithHistory is not reached).
StartSession(r, history) ==
    context' = [context EXCEPT ![r] = history]

\* cacheClient; codex keeps its thread to the turn.
CacheClient(e, s) ==
    client' = IF e = "claude-code" THEN s ELSE client

\* ChatClientRunner.Run: the history of the record is taken over unless the
\* runner holds messages; the model is sent what is held and the new message.
Rehydrate(history) ==
    held' = IF ~held.live /\ history # {} THEN Held(history) ELSE held

SendHeld(r, history) ==
    /\ Rehydrate(history)
    /\ context' = [context EXCEPT ![r] = held'.messages \cup {User(r)}]

\* The pipe to the cached client is open: nobody closed it.
Connected(e, s) == e = "claude-code" => client = s

Hear(s, message) == context' = [context EXCEPT ![s] = @ \cup {message}]

\* A finished local turn is appended to whatever is held by then.
HoldTurn(r) == held' = Held(held.messages \cup {User(r), Assistant(r)})

-----------------------------------------------------------------------------
(* What happens to the sessions beside the conversation's own requests.    *)

\* reapIdleClients, run by a turn of another conversation, half an hour after
\* this one's latest turn started; that turn may still be going on.
ClientReaped ==
    /\ client # NoSession
    /\ CloseSession("claude-code")
    /\ UNCHANGED <<busy, context>>

\* The server ends and starts again: what it held in memory is gone.
SessionsLost ==
    /\ client' = NoSession /\ held' = NotHeld /\ busy' = {}
    /\ UNCHANGED context
=============================================================================
