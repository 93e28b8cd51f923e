----------------------------- MODULE Escalations -----------------------------
(***************************************************************************)
(* Permission escalations (internal/api/stage_permission.go and the        *)
(* escalation callback of internal/agentrunner/claude_runner.go): a tool   *)
(* call of a turn blocks in a callback of its own goroutine until a human  *)
(* decides over HTTP.  The callback finds the turn's hook by the session   *)
(* key, when it runs, and registers the request under an id; the decision  *)
(* endpoints look the id up.                                               *)
(***************************************************************************)
EXTENDS Naturals, Functions

CONSTANTS
    Session,        \* session keys
    Escalation,     \* calls of the callback, and the ids they register
    Turn            \* the turns of all sessions

VARIABLES
    requester,      \* permissionRequesters: the turn whose hook a session has
    ask,            \* the callbacks
    registry,       \* escalationRegistry.pending: id to session key
    allowedBy       \* auxiliary: the sessions whose human allowed the id

escalationVars == <<requester, ask, registry, allowedBy>>

NoTurn == 0
NoKey == ""

ASSUME EscalationsAssumption == NoTurn \notin Turn /\ NoKey \notin Session

\* session: the key the client was connected for; hook: the turn whose hook the
\* callback found; channel: the decision it can receive.
NewAsk == [pc |-> "idle", session |-> NoKey, hook |-> NoTurn, channel |-> "none"]

AskRecord ==
    [pc : {"idle", "started", "found", "waiting", "allowed", "denied", "failed"},
     session : Session \cup {NoKey}, hook : Turn \cup {NoTurn},
     channel : {"none", "allow", "deny"}]

EscalationsTypeOK ==
    /\ requester \in [Session -> Turn \cup {NoTurn}]
    /\ ask \in [Escalation -> AskRecord]
    /\ DOMAIN registry \subseteq Escalation
    /\ \A id \in DOMAIN registry : registry[id] \in Session
    /\ allowedBy \in [Escalation -> SUBSET Session]

EscalationsInit ==
    /\ requester = [s \in Session |-> NoTurn]
    /\ ask = [id \in Escalation |-> NewAsk]
    /\ registry = << >>
    /\ allowedBy = [id \in Escalation |-> {}]

\* Mutant: the hook outlives the turn.
ClearPermissionRequesterNever(s) == UNCHANGED escalationVars

\* Run, before it connects, and its deferred clear.
SetPermissionRequester(s, t) ==
    /\ requester' = [requester EXCEPT ![s] = t]
    /\ UNCHANGED <<ask, registry, allowedBy>>

ClearPermissionRequester(s) ==
    /\ requester' = [requester EXCEPT ![s] = NoTurn]
    /\ UNCHANGED <<ask, registry, allowedBy>>

\* The agent asks for a tool that is visible but not approved.
StartAsk(id, s) ==
    /\ ask[id].pc = "idle"
    /\ ask' = [ask EXCEPT ![id].pc = "started", ![id].session = s]
    /\ UNCHANGED <<requester, registry, allowedBy>>

\* permissionEscalationCallback up to the hook: a write outside the workspace is
\* denied unasked, so is any tool when no turn of the session has a hook.
AnswerUnasked(id, outside) ==
    /\ ask[id].pc = "started"
    /\ outside \/ requester[ask[id].session] = NoTurn
    /\ ask' = [ask EXCEPT ![id].pc = "denied"]
    /\ UNCHANGED <<requester, registry, allowedBy>>

\* permissionRequesterFor: the callback holds the hook, and no lock.
FindHook(id, outside) ==
    /\ ask[id].pc = "started"
    /\ ~ outside
    /\ requester[ask[id].session] # NoTurn
    /\ ask' = [ask EXCEPT ![id].pc = "found", ![id].hook = requester[ask[id].session]]
    /\ UNCHANGED <<requester, registry, allowedBy>>

\* The hook up to its select: the request is registered and written to the
\* stream of the hook's turn, whether or not that turn has ended since.
Register(id) ==
    /\ ask[id].pc = "found"
    /\ ask' = [ask EXCEPT ![id].pc = "waiting"]
    /\ registry' = [i \in DOMAIN registry \cup {id} |->
                       IF i = id THEN ask[id].session ELSE registry[i]]
    /\ UNCHANGED <<requester, allowedBy>>

\* Mutant: the id alone decides.
FoundById(id, s) == id \in DOMAIN registry

Found(id, s) == id \in DOMAIN registry /\ registry[id] = s

\* resolve, by the decision endpoint of session s: 204, and the id is
\* forgotten; an unknown id or one of another session is a 404.
Resolve(id, s, allow) ==
    /\ Found(id, s)
    /\ registry' = Restrict(registry, DOMAIN registry \ {id})
    /\ ask' = [ask EXCEPT ![id].channel = IF allow THEN "allow" ELSE "deny"]
    /\ allowedBy' = IF allow THEN [allowedBy EXCEPT ![id] = @ \cup {s}] ELSE allowedBy
    /\ UNCHANGED requester

\* Mutant: the waiter does not forget its entry.
CleanupNothing(id) == UNCHANGED registry

\* register's cleanup, deferred by the hook.
Cleanup(id) == registry' = Restrict(registry, DOMAIN registry \ {id})

\* The hook receives the decision, ...
TakeDecision(id) ==
    /\ ask[id].pc = "waiting"
    /\ ask[id].channel # "none"
    /\ Cleanup(id)
    /\ ask' = [ask EXCEPT ![id].pc = IF ask[id].channel = "allow"
                                     THEN "allowed" ELSE "denied"]
    /\ UNCHANGED <<requester, allowedBy>>

\* ... or its context ends first, even with a decision in the channel.
CancelAsk(id) ==
    /\ ask[id].pc = "waiting"
    /\ Cleanup(id)
    /\ ask' = [ask EXCEPT ![id].pc = "failed"]
    /\ UNCHANGED <<requester, allowedBy>>

EscalationsNext ==
    \/ \E s \in Session, t \in Turn : SetPermissionRequester(s, t)
    \/ \E s \in Session : ClearPermissionRequester(s)
    \/ \E id \in Escalation :
          \/ \E s \in Session : StartAsk(id, s)
          \/ \E outside \in BOOLEAN : AnswerUnasked(id, outside) \/ FindHook(id, outside)
          \/ Register(id)
          \/ \E s \in Session, allow \in BOOLEAN : Resolve(id, s, allow)
          \/ TakeDecision(id) \/ CancelAsk(id)

EscalationsSpec == EscalationsInit /\ [][EscalationsNext]_escalationVars

-----------------------------------------------------------------------------
(* What must hold.                                                         *)

\* "One session can never resolve another's" (stage_permission.go): a tool is
\* allowed only by a human at the session that asked, about that very call,
\* whatever other sessions, late decisions and later turns do.
AllowedByItsHuman ==
    \A id \in Escalation : ask[id].pc = "allowed" => ask[id].session \in allowedBy[id]

\* The registry holds the requests somebody waits for undecided and no other:
\* no decision is taken for a request nobody waits for, none is taken twice,
\* and no entry is left behind.
RegistryHoldsWaiters ==
    DOMAIN registry = {id \in Escalation : ask[id].pc = "waiting" /\ ask[id].channel = "none"}
=============================================================================
