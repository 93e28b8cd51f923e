-------------------------- MODULE EscalationsProofs --------------------------
(***************************************************************************)
(* For any number of sessions, turns and tool calls that ask: a tool is    *)
(* allowed by the human at the session it asked in, and the registry holds *)
(* the undecided requests.                                                 *)
(***************************************************************************)
EXTENDS Escalations, TLAPS

\* A registered id is waited for under the session it is registered with, and
\* a decision in a channel was made by that session's human.
IdsKept ==
    \A id \in Escalation :
        /\ id \in DOMAIN registry => registry[id] = ask[id].session
        /\ ask[id].channel = "allow" => ask[id].session \in allowedBy[id]
        /\ ask[id].pc \in {"idle", "started", "found"} => ask[id].channel = "none"
        /\ ask[id].pc # "idle" => ask[id].session \in Session

EscalationsInv ==
    EscalationsTypeOK /\ IdsKept /\ RegistryHoldsWaiters /\ AllowedByItsHuman

LEMMA EscalationsStart ==
  ASSUME EscalationsInit
  PROVE  EscalationsInv
<1> QED
  BY DEF EscalationsInit, EscalationsInv, EscalationsTypeOK, IdsKept, RegistryHoldsWaiters,
         AllowedByItsHuman, NewAsk, AskRecord

\* The entry is forgotten, whether or not it was there.
LEMMA CleanupEffect ==
  ASSUME EscalationsTypeOK, NEW id \in Escalation, Cleanup(id)
  PROVE  /\ DOMAIN registry' = DOMAIN registry \ {id}
         /\ \A x \in DOMAIN registry' : registry'[x] = registry[x]
<1> QED
  BY DEF Cleanup, Restrict, EscalationsTypeOK

\* One request goes on: what else is to be shown of it, by what it becomes.
LEMMA AskGoesOn ==
  ASSUME EscalationsInv, NEW id \in Escalation, NEW q \in AskRecord,
         ask' = [ask EXCEPT ![id] = q],
         q.channel = "allow" => q.session \in allowedBy'[id],
         q.pc \in {"idle", "started", "found"} => q.channel = "none",
         q.pc # "idle" => q.session \in Session,
         q.pc = "allowed" => q.session \in allowedBy'[id],
         id \in DOMAIN registry' <=> q.pc = "waiting" /\ q.channel = "none",
         id \in DOMAIN registry' => registry'[id] = q.session /\ q.session \in Session,
         DOMAIN registry' \ {id} = DOMAIN registry \ {id},
         \A x \in DOMAIN registry' \ {id} : registry'[x] = registry[x],
         requester' = requester,
         allowedBy' \in [Escalation -> SUBSET Session],
         \A x \in Escalation : allowedBy[x] \subseteq allowedBy'[x]
  PROVE  EscalationsInv'
<1>1. /\ ask \in [Escalation -> AskRecord]
      /\ ask' \in [Escalation -> AskRecord] /\ ask'[id] = q
      /\ \A x \in Escalation \ {id} : ask'[x] = ask[x]
  BY DEF EscalationsInv, EscalationsTypeOK
<1>2. EscalationsTypeOK'
  BY <1>1 DEF EscalationsInv, EscalationsTypeOK
<1>3. IdsKept'
  BY <1>1 DEF EscalationsInv, IdsKept
<1>4. RegistryHoldsWaiters'
  <2>1. DOMAIN registry' \subseteq Escalation
    BY <1>2 DEF EscalationsTypeOK
  <2>2. ASSUME NEW x \in Escalation
        PROVE  x \in DOMAIN registry' <=> ask'[x].pc = "waiting" /\ ask'[x].channel = "none"
    BY <1>1 DEF EscalationsInv, RegistryHoldsWaiters
  <2> QED
    BY <2>1, <2>2 DEF RegistryHoldsWaiters
<1>5. AllowedByItsHuman'
  BY <1>1 DEF EscalationsInv, AllowedByItsHuman
<1> QED
  BY <1>2, <1>3, <1>4, <1>5 DEF EscalationsInv

LEMMA EscalationsStep ==
  ASSUME EscalationsInv, [EscalationsNext]_escalationVars
  PROVE  EscalationsInv'
<1> USE DEF EscalationsInv
<1>0. ASSUME NEW id \in Escalation
      PROVE  /\ ask[id] \in AskRecord /\ allowedBy \in [Escalation -> SUBSET Session]
             /\ id \in DOMAIN registry <=> ask[id].pc = "waiting" /\ ask[id].channel = "none"
             /\ ask[id].channel = "allow" => ask[id].session \in allowedBy[id]
             /\ ask[id].pc # "idle" => ask[id].session \in Session
             /\ id \in DOMAIN registry => /\ registry[id] = ask[id].session
                                          /\ registry[id] \in Session
  BY DEF EscalationsTypeOK, RegistryHoldsWaiters, IdsKept
<1>1. ASSUME NEW s \in Session, NEW t \in Turn \cup {NoTurn},
             requester' = [requester EXCEPT ![s] = t], UNCHANGED <<ask, registry, allowedBy>>
      PROVE  EscalationsInv'
  BY <1>1 DEF EscalationsTypeOK, IdsKept, RegistryHoldsWaiters, AllowedByItsHuman
<1>2. ASSUME NEW id \in Escalation, NEW s \in Session, StartAsk(id, s)
      PROVE  EscalationsInv'
  <2> DEFINE q == [ask[id] EXCEPT !.pc = "started", !.session = s]
  <2>1. /\ q \in AskRecord /\ q.pc = "started" /\ q.channel = "none"
        /\ q.session \in Session /\ id \notin DOMAIN registry
    BY <1>0, <1>2 DEF StartAsk, AskRecord, IdsKept
  <2>2. ask' = [ask EXCEPT ![id] = q] /\ UNCHANGED <<requester, registry, allowedBy>>
    BY <1>2 DEF StartAsk
  <2> HIDE DEF q
  <2> QED
    BY <1>0, <2>1, <2>2, AskGoesOn
<1>3. ASSUME NEW id \in Escalation, NEW outside \in BOOLEAN, AnswerUnasked(id, outside)
      PROVE  EscalationsInv'
  BY <1>3 DEF AnswerUnasked, EscalationsTypeOK, IdsKept, RegistryHoldsWaiters,
              AllowedByItsHuman, AskRecord
<1>9. ASSUME NEW id \in Escalation, NEW outside \in BOOLEAN, FindHook(id, outside)
      PROVE  EscalationsInv'
  <2> DEFINE t == requester[ask[id].session]
             q == [ask[id] EXCEPT !.pc = "found", !.hook = t]
  <2>1. /\ ask[id].pc = "started" /\ id \notin DOMAIN registry
        /\ ask' = [ask EXCEPT ![id] = q] /\ UNCHANGED <<requester, registry, allowedBy>>
    BY <1>0, <1>9 DEF FindHook
  <2>2. ask[id].session \in Session /\ t \in Turn \cup {NoTurn}
    BY <1>0, <1>9 DEF FindHook, EscalationsTypeOK, AskRecord, IdsKept
  <2> HIDE DEF t
  <2>3. /\ q \in AskRecord /\ q.pc = "found" /\ q.channel = "none"
        /\ q.session = ask[id].session
    BY <1>0, <2>1, <2>2 DEF AskRecord, IdsKept
  <2> HIDE DEF q
  <2> QED
    BY <1>0, <2>1, <2>2, <2>3, AskGoesOn
<1>4. ASSUME NEW id \in Escalation, Register(id)
      PROVE  EscalationsInv'
  <2> DEFINE q == [ask[id] EXCEPT !.pc = "waiting"]
  <2>1. /\ ask[id].pc = "found" /\ id \notin DOMAIN registry
        /\ ask' = [ask EXCEPT ![id] = q] /\ UNCHANGED <<requester, allowedBy>>
        /\ registry' = [i \in DOMAIN registry \cup {id} |->
                           IF i = id THEN ask[id].session ELSE registry[i]]
    BY <1>0, <1>4 DEF Register
  <2>2. ask[id].session \in Session
    BY <1>0, <1>4 DEF Register
  <2>3. /\ q \in AskRecord /\ q.pc = "waiting" /\ q.channel = "none"
        /\ q.session = ask[id].session
    BY <1>0, <2>1, <2>2 DEF AskRecord, IdsKept
  <2> HIDE DEF q
  <2> QED
    BY <1>0, <2>1, <2>2, <2>3, AskGoesOn
<1>5. ASSUME NEW id \in Escalation, NEW s \in Session, NEW allow \in BOOLEAN,
             Resolve(id, s, allow)
      PROVE  EscalationsInv'
  BY <1>5 DEF Resolve, Found, Restrict, EscalationsTypeOK, IdsKept, RegistryHoldsWaiters,
              AllowedByItsHuman, AskRecord
<1>6. ASSUME NEW id \in Escalation, TakeDecision(id)
      PROVE  EscalationsInv'
  <2>1. PICK pc \in {"allowed", "denied", "failed"} :
           /\ ask' = [ask EXCEPT ![id] = [ask[id] EXCEPT !.pc = pc]]
           /\ pc = "allowed" => ask[id].channel = "allow"
    BY <1>6 DEF TakeDecision
  <2> DEFINE q == [ask[id] EXCEPT !.pc = pc]
  <2>2. /\ q \in AskRecord /\ q.pc = pc /\ q.session = ask[id].session
        /\ q.channel = ask[id].channel
    BY <1>0 DEF AskRecord
  <2> HIDE DEF q
  <2>3. ask' = [ask EXCEPT ![id] = q] /\ Cleanup(id) /\ UNCHANGED <<requester, allowedBy>>
    BY <1>6, <2>1 DEF TakeDecision, q
  <2>4. /\ DOMAIN registry' = DOMAIN registry \ {id}
        /\ \A x \in DOMAIN registry' : registry'[x] = registry[x]
    BY <2>3, CleanupEffect
  <2>5. /\ DOMAIN registry' \ {id} = DOMAIN registry \ {id}
        /\ \A x \in DOMAIN registry' \ {id} : registry'[x] = registry[x]
        /\ id \notin DOMAIN registry'
    BY <2>4
  <2>6. ask[id].pc = "waiting"
    BY <1>6 DEF TakeDecision
  <2> QED
    BY <1>0, <2>1, <2>2, <2>3, <2>5, <2>6, AskGoesOn
<1>7. ASSUME NEW id \in Escalation, CancelAsk(id)
      PROVE  EscalationsInv'
  <2>1. PICK pc \in {"allowed", "denied", "failed"} :
           /\ ask' = [ask EXCEPT ![id] = [ask[id] EXCEPT !.pc = pc]]
           /\ pc = "allowed" => ask[id].channel = "allow"
    BY <1>7 DEF CancelAsk
  <2> DEFINE q == [ask[id] EXCEPT !.pc = pc]
  <2>2. /\ q \in AskRecord /\ q.pc = pc /\ q.session = ask[id].session
        /\ q.channel = ask[id].channel
    BY <1>0 DEF AskRecord
  <2> HIDE DEF q
  <2>3. ask' = [ask EXCEPT ![id] = q] /\ Cleanup(id) /\ UNCHANGED <<requester, allowedBy>>
    BY <1>7, <2>1 DEF CancelAsk, q
  <2>4. /\ DOMAIN registry' = DOMAIN registry \ {id}
        /\ \A x \in DOMAIN registry' : registry'[x] = registry[x]
    BY <2>3, CleanupEffect
  <2>5. /\ DOMAIN registry' \ {id} = DOMAIN registry \ {id}
        /\ \A x \in DOMAIN registry' \ {id} : registry'[x] = registry[x]
        /\ id \notin DOMAIN registry'
    BY <2>4
  <2>6. ask[id].pc = "waiting"
    BY <1>7 DEF CancelAsk
  <2> QED
    BY <1>0, <2>1, <2>2, <2>3, <2>5, <2>6, AskGoesOn
<1>8. CASE UNCHANGED escalationVars
  BY <1>8 DEF escalationVars, EscalationsTypeOK, IdsKept, RegistryHoldsWaiters, AllowedByItsHuman
<1> QED
  BY <1>1, <1>2, <1>3, <1>9, <1>4, <1>5, <1>6, <1>7, <1>8
     DEF EscalationsNext, SetPermissionRequester, ClearPermissionRequester

-----------------------------------------------------------------------------
\* "One session can never resolve another's", for any number of sessions and
\* requests, whatever decisions arrive and in whatever order.
THEOREM DecidedByItsHuman == EscalationsSpec => []AllowedByItsHuman
<1> QED
  BY EscalationsStart, EscalationsStep, PTL DEF EscalationsSpec, EscalationsInv

\* No entry is left behind and none is taken twice.
THEOREM RegistryExact == EscalationsSpec => []RegistryHoldsWaiters
<1> QED
  BY EscalationsStart, EscalationsStep, PTL DEF EscalationsSpec, EscalationsInv
=============================================================================
