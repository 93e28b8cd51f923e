----------------------- MODULE StageConversationProofs -----------------------
(***************************************************************************)
(* For any number of requests, any of them at a time, over any of the      *)
(* runners: the types; that a CLI session has one turn at a time; that     *)
(* what an edit discarded stays out of every turn requested since; and, in *)
(* calm behaviours, that a turn's session knows the exchanges its executor *)
(* had.                                                                    *)
(***************************************************************************)
EXTENDS StageConversation, SequenceTheorems, TLAPS

LEMMA PartsOfMessages ==
  ASSUME NEW s \in Seq(Message), NEW i \in DOMAIN s
  PROVE  /\ RemoveAt(s, i) \in Seq(Message)
         /\ SubSeq(s, 1, i - 1) \in Seq(Message)
<1>1. i \in 1..Len(s)
  OBVIOUS
<1>2. SubSeq(s, 1, i - 1) \in Seq(Message) /\ SubSeq(s, i + 1, Len(s)) \in Seq(Message)
  BY <1>1
<1> QED
  BY <1>2 DEF RemoveAt

LEMMA MessageTypes ==
  ASSUME NEW r \in Request
  PROVE  /\ User(r) \in Message /\ Assistant(r) \in Message
         /\ \A s \in Seq(Message) : Messages(s) \subseteq Message
<1>1. \A s \in Seq(Message) : Messages(s) \subseteq Message
  BY DEF Messages
<1> QED
  BY <1>1 DEF User, Assistant, Message

\* A new request, and a request whose handler has returned, are requests.
LEMMA RequestTypes ==
  ASSUME ConversationTypeOK, NEW r \in Request
  PROVE  /\ NewRequest \in RequestRecord
         /\ Finished(r) \in RequestRecord
         /\ Finished(r).pc = "done"
         /\ Finished(r).executor = req[r].executor
<1>1. NewRequest \in RequestRecord
  BY DEF NewRequest, RequestRecord, Pc, Kind, TurnKind, EditKind
<1>2. req[r].executor \in Executor \cup {""}
  BY ZenonT(60) DEF ConversationTypeOK, RequestRecord
<1> QED
  BY ZenonT(60), <1>1, <1>2 DEF Finished, RequestRecord, Pc, NewRequest

-----------------------------------------------------------------------------
(* The types.                                                              *)

\* The updates that the steps make of a request.
LEMMA UpdateTypes ==
  ASSUME NEW q \in RequestRecord, NEW pc \in Pc
  PROVE  /\ [q EXCEPT !.pc = pc] \in RequestRecord
         /\ \A kept \in Seq(Message) : [q EXCEPT !.pc = pc, !.kept = kept] \in RequestRecord
         /\ \A removed \in SUBSET Message :
               [q EXCEPT !.pc = pc, !.removed = removed] \in RequestRecord
         /\ \A todo \in SUBSET Executor : [q EXCEPT !.todo = todo] \in RequestRecord
         /\ \A s \in Request \cup {NoSession} :
               /\ [q EXCEPT !.pc = pc, !.resume = s] \in RequestRecord
               /\ [q EXCEPT !.pc = pc, !.session = s] \in RequestRecord
               /\ [q EXCEPT !.pc = pc, !.out = s] \in RequestRecord
<1> QED
  BY ZenonT(60) DEF RequestRecord

LEMMA RetryType ==
  ASSUME NEW q \in RequestRecord
  PROVE  [q EXCEPT !.pc = "client", !.retried = TRUE] \in RequestRecord
<1> QED
  BY ZenonT(60) DEF RequestRecord, Pc

-----------------------------------------------------------------------------
(* The invariant.  Every session id that is recorded, cached or in use is  *)
(* that of a request that started it through the same executor; and a turn *)
(* in flight through a CLI holds that executor's lock, alone.              *)

StartedBy(s, e) == s = NoSession \/ (s \in Request /\ req[s].pc # "new" /\ req[s].executor = e)

HoldsLock(pc) == pc \in {"client", "connect", "query", "receive"}
OnSession(pc) == pc \in {"query", "receive"}

SessionsOwned ==
    /\ StartedBy(client, "claude-code")
    /\ \A e \in Executor : StartedBy(sessionIDs[e], e)
    /\ \A r \in Request :
          /\ StartedBy(req[r].resume, req[r].executor)
          /\ StartedBy(req[r].session, req[r].executor)
          /\ StartedBy(req[r].out, req[r].executor)
          /\ OnSession(req[r].pc) => /\ req[r].session # NoSession
                                     /\ req[r].executor = "local" => req[r].session = r

LocksHeld ==
    \A r \in Request :
        HoldsLock(req[r].pc) /\ req[r].executor # "local" =>
            /\ req[r].executor \in busy
            /\ \A q \in Request :
                  HoldsLock(req[q].pc) /\ req[q].executor = req[r].executor => q = r

\* Which kinds of requests get where; and whoever has a turn has a runner.
Fits(q) ==
    /\ q.pc = "replace" => q.kind = "delete"
    /\ q.pc = "close" => q.kind \in EditKind \cup {"finalize"}
    /\ q.pc = "clear" => q.kind \in EditKind
    /\ q.pc \in {"resume", "run", "client", "connect", "query", "receive", "persist", "save"} =>
          q.kind \in TurnKind
    /\ q.kind \in TurnKind /\ q.pc \notin {"new", "done"} => q.executor \in Executor
    /\ q.pc = "client" => q.executor = "claude-code"
    /\ q.pc = "connect" => q.executor # "local"

RequestsFit == \A r \in Request : Fits(req[r])

ConversationInv == ConversationTypeOK /\ SessionsOwned /\ LocksHeld /\ RequestsFit

\* One request goes on, with its executor: it keeps, takes or gives back the
\* lock, and whatever session it names was started by its executor.
LEMMA RequestGoesOn ==
  ASSUME ConversationInv, NEW r \in Request, NEW q \in RequestRecord,
         req' = [req EXCEPT ![r] = q],
         req[r].pc # "new", q.pc # "new", q.executor = req[r].executor, Fits(q),
         StartedBy(q.resume, q.executor), StartedBy(q.session, q.executor),
         StartedBy(q.out, q.executor),
         OnSession(q.pc) => q.session # NoSession /\ (q.executor = "local" => q.session = r),
         StartedBy(client', "claude-code"),
         \A e \in Executor : StartedBy(sessionIDs'[e], e),
         \/ (HoldsLock(q.pc) => HoldsLock(req[r].pc)) /\ busy' = busy
         \/ /\ q.executor \notin busy /\ busy \subseteq busy'
            /\ q.executor = "local" \/ q.executor \in busy'
         \/ HoldsLock(req[r].pc) /\ ~ HoldsLock(q.pc) /\ busy' = busy \ {q.executor}
  PROVE  SessionsOwned' /\ LocksHeld' /\ RequestsFit'
<1>1. req \in [Request -> RequestRecord]
  BY DEF ConversationInv, ConversationTypeOK
<1>2. /\ req'[r] = q
      /\ \A p \in Request : p # r => req'[p] = req[p]
  BY <1>1
<1>3. ASSUME NEW s, NEW e, StartedBy(s, e)
      PROVE  s = NoSession \/ (s \in Request /\ req'[s].pc # "new" /\ req'[s].executor = e)
  BY <1>2, <1>3 DEF StartedBy
<1>4. SessionsOwned'
  BY <1>2, <1>3 DEF ConversationInv, SessionsOwned, StartedBy
<1>5. LocksHeld'
  BY <1>2 DEF ConversationInv, LocksHeld
<1>6. RequestsFit'
  BY <1>2 DEF ConversationInv, RequestsFit
<1> QED
  BY <1>4, <1>5, <1>6

\* Nothing but the request changes.
LEMMA OnlyRequest ==
  ASSUME ConversationInv, NEW r \in Request, NEW q \in RequestRecord,
         req' = [req EXCEPT ![r] = q],
         UNCHANGED <<sessionVars, current, messages, sessionIDs, auxVars>>
  PROVE  ConversationTypeOK'
<1> QED
  BY DEF ConversationInv, ConversationTypeOK, SessionsTypeOK, sessionVars, auxVars

\* Such a step keeps the invariant when the request is in the same place as to
\* the lock and to its session.
LEMMA QuietStep ==
  ASSUME ConversationInv, NEW r \in Request, NEW q \in RequestRecord,
         req' = [req EXCEPT ![r] = q],
         UNCHANGED <<sessionVars, current, messages, sessionIDs, auxVars>>,
         req[r].pc # "new", q.pc # "new", q.executor = req[r].executor, Fits(q),
         StartedBy(q.resume, q.executor), StartedBy(q.session, q.executor),
         StartedBy(q.out, q.executor),
         ~ HoldsLock(q.pc)
  PROVE  ConversationInv'
<1>1. ConversationTypeOK'
  BY OnlyRequest
<1>2. UNCHANGED <<client, sessionIDs, busy>>
  BY DEF sessionVars
<1>3. SessionsOwned' /\ LocksHeld' /\ RequestsFit'
  BY <1>2, RequestGoesOn DEF ConversationInv, SessionsOwned, HoldsLock, OnSession
<1> QED
  BY <1>1, <1>3 DEF ConversationInv

\* The handler returns early, or is finished with.
LEMMA FinishedOwns ==
  ASSUME ConversationInv, NEW r \in Request
  PROVE  /\ StartedBy(Finished(r).resume, req[r].executor)
         /\ StartedBy(Finished(r).session, req[r].executor)
         /\ StartedBy(Finished(r).out, req[r].executor)
         /\ Fits(Finished(r))
<1> QED
  BY DEF Finished, NewRequest, StartedBy, Fits, RequestRecord, ConversationInv

LEMMA ReadSteps ==
  ASSUME ConversationInv, NEW r \in Request,
         ReadForPost(r) \/ ReadForStart(r) \/ ReadForDelete(r) \/ ReadForRegenerate(r)
  PROVE  ConversationInv'
<1>1. /\ req \in [Request -> RequestRecord] /\ messages \in Seq(Message)
      /\ StartedBy(req[r].resume, req[r].executor)
      /\ StartedBy(req[r].session, req[r].executor)
      /\ StartedBy(req[r].out, req[r].executor)
  BY DEF ConversationInv, ConversationTypeOK, SessionsOwned
<1>2. /\ req[r].pc = "read"
      /\ UNCHANGED <<sessionVars, current, messages, sessionIDs, auxVars>>
  BY DEF ReadForPost, ReadForStart, ReadForDelete, ReadForRegenerate
<1>3. /\ Finished(r) \in RequestRecord /\ Finished(r).pc = "done"
      /\ Finished(r).executor = req[r].executor
  BY RequestTypes DEF ConversationInv
<1>4. CASE req' = [req EXCEPT ![r] = Finished(r)]
  BY <1>2, <1>3, <1>4, FinishedOwns, QuietStep DEF HoldsLock
<1>5. ASSUME NEW pc \in {"resume", "replace", "close"}, NEW kept \in Seq(Message),
             req' = [req EXCEPT ![r] = [req[r] EXCEPT !.pc = pc, !.kept = kept]],
             pc = "resume" => req[r].kind \in {"post", "start"},
             pc = "replace" => req[r].kind = "delete",
             pc = "close" => req[r].kind = "regenerate"
      PROVE  ConversationInv'
  <2> DEFINE q == [req[r] EXCEPT !.pc = pc, !.kept = kept]
  <2>1. q \in RequestRecord
    BY <1>1, <1>5, UpdateTypes DEF Pc
  <2>2. /\ q.pc = pc /\ q.executor = req[r].executor /\ q.resume = req[r].resume
        /\ q.session = req[r].session /\ q.out = req[r].out /\ q.kind = req[r].kind
    BY ZenonT(60), <1>1 DEF RequestRecord
  <2>3. ~ HoldsLock(q.pc) /\ q.pc # "new"
    BY <2>2 DEF HoldsLock
  <2>4. Fits(req[r]) /\ req[r].pc = "read"
    BY <1>2 DEF ConversationInv, RequestsFit
  <2>5. Fits(q)
    BY <1>5, <2>2, <2>4 DEF Fits, EditKind, TurnKind
  <2> HIDE DEF q
  <2> QED
    BY ZenonT(60), <1>1, <1>2, <1>5, <2>1, <2>2, <2>3, <2>5, QuietStep DEF q
<1>6. CASE ReadForPost(r)
  BY ZenonT(60), <1>1, <1>5, <1>6 DEF ReadForPost
<1>7. CASE ReadForStart(r)
  <2>1. CASE messages # << >>
    BY <1>4, <1>7, <2>1 DEF ReadForStart
  <2>2. CASE messages = << >>
    <3>1. req' = [req EXCEPT ![r] = [req[r] EXCEPT !.pc = "resume", !.kept = req[r].kept]]
      BY ZenonT(60), <1>1, <1>7, <2>2 DEF ReadForStart, RequestRecord
    <3>2. req[r].kind = "start"
      BY <1>7 DEF ReadForStart
    <3> QED
      BY ZenonT(60), <1>1, <1>5, <3>1, <3>2 DEF RequestRecord
  <2> QED
    BY <2>1, <2>2
<1>8. CASE ReadForDelete(r)
  <2>1. ASSUME NEW i \in DOMAIN messages,
               req' = [req EXCEPT ![r].pc = "replace", ![r].kept = RemoveAt(messages, i)]
        PROVE  ConversationInv'
    <3>1. req[r].kind = "delete"
      BY <1>8 DEF ReadForDelete
    <3> QED
      BY ZenonT(60), <1>1, <1>5, <2>1, <3>1, PartsOfMessages
  <2> QED
    BY <1>4, <1>8, <2>1 DEF ReadForDelete
<1>9. CASE ReadForRegenerate(r)
  <2>1. ASSUME NEW i \in DOMAIN messages,
               req' = [req EXCEPT ![r].pc = "close", ![r].kept = SubSeq(messages, 1, i - 1)]
        PROVE  ConversationInv'
    <3>1. req[r].kind = "regenerate"
      BY <1>9 DEF ReadForRegenerate
    <3> QED
      BY ZenonT(60), <1>1, <1>5, <2>1, <3>1, PartsOfMessages
  <2> QED
    BY <1>4, <1>9, <2>1 DEF ReadForRegenerate
<1> QED
  BY <1>6, <1>7, <1>8, <1>9

\* What every step of a request may use of the invariant.
LEMMA RequestFacts ==
  ASSUME ConversationInv, NEW r \in Request
  PROVE  /\ req \in [Request -> RequestRecord] /\ req[r] \in RequestRecord
         /\ StartedBy(req[r].resume, req[r].executor)
         /\ StartedBy(req[r].session, req[r].executor)
         /\ StartedBy(req[r].out, req[r].executor)
         /\ StartedBy(client, "claude-code") /\ StartedBy(NoSession, req[r].executor)
         /\ \A e \in Executor : StartedBy(sessionIDs[e], e)
         /\ Fits(req[r])
<1> QED
  BY DEF ConversationInv, ConversationTypeOK, SessionsOwned, StartedBy, RequestsFit

\* The fields of a request that the steps read again, after an update.
LEMMA UpdateFields ==
  ASSUME NEW p \in RequestRecord, NEW pc \in Pc
  PROVE  /\ LET q == [p EXCEPT !.pc = pc]
            IN  /\ q.pc = pc /\ q.executor = p.executor /\ q.kind = p.kind
                /\ q.resume = p.resume /\ q.session = p.session /\ q.out = p.out
         /\ \A removed : LET q == [p EXCEPT !.pc = pc, !.removed = removed]
                         IN  /\ q.pc = pc /\ q.executor = p.executor /\ q.kind = p.kind /\ q.resume = p.resume
                             /\ q.session = p.session /\ q.out = p.out
         /\ \A todo : LET q == [p EXCEPT !.todo = todo]
                      IN  /\ q.pc = p.pc /\ q.executor = p.executor /\ q.kind = p.kind /\ q.resume = p.resume
                          /\ q.session = p.session /\ q.out = p.out
         /\ \A s : LET q == [p EXCEPT !.pc = pc, !.resume = s]
                   IN  /\ q.pc = pc /\ q.executor = p.executor /\ q.kind = p.kind
                       /\ q.resume = s /\ q.session = p.session /\ q.out = p.out
         /\ \A s : LET q == [p EXCEPT !.pc = pc, !.session = s]
                   IN  /\ q.pc = pc /\ q.executor = p.executor /\ q.kind = p.kind
                       /\ q.resume = p.resume /\ q.session = s /\ q.out = p.out
         /\ \A s : LET q == [p EXCEPT !.pc = pc, !.out = s]
                   IN  /\ q.pc = pc /\ q.executor = p.executor /\ q.kind = p.kind
                       /\ q.resume = p.resume /\ q.session = p.session /\ q.out = s
<1> QED
  BY ZenonT(60) DEF RequestRecord

LEMMA GoesTo ==
  ASSUME ConversationInv, NEW r \in Request, NEW pc \in Pc
  PROVE  \E q \in RequestRecord :
            /\ q = [req[r] EXCEPT !.pc = pc]
            /\ q.pc = pc /\ q.executor = req[r].executor /\ q.kind = req[r].kind
            /\ StartedBy(q.resume, q.executor) /\ StartedBy(q.session, q.executor)
            /\ StartedBy(q.out, q.executor)
<1> DEFINE q == [req[r] EXCEPT !.pc = pc]
<1>1. q \in RequestRecord
  BY ZenonT(60), RequestFacts, UpdateTypes
<1>2. /\ q.pc = pc /\ q.executor = req[r].executor /\ q.resume = req[r].resume
      /\ q.session = req[r].session /\ q.out = req[r].out /\ q.kind = req[r].kind
  BY RequestFacts, UpdateFields
<1> HIDE DEF q
<1> QED
  BY <1>1, <1>2, RequestFacts DEF q

LEMMA EditSteps ==
  ASSUME ConversationInv, NEW r \in Request, EditStep(r)
  PROVE  ConversationInv'
<1>1. /\ Finished(r) \in RequestRecord /\ Finished(r).pc = "done"
      /\ Finished(r).executor = req[r].executor
  BY RequestTypes DEF ConversationInv
<1>2. CASE ReplaceMessages(r)
  <2> DEFINE removed == Messages(messages) \ Messages(messages')
             q == [req[r] EXCEPT !.pc = "close", !.removed = removed]
  <2>1. messages' \in Seq(Message) /\ removed \in SUBSET Message
    BY ZenonT(60), <1>2, MessageTypes, RequestFacts
       DEF ReplaceMessages, RequestRecord, ConversationInv, ConversationTypeOK
  <2>2. q \in RequestRecord
    BY <2>1, RequestFacts, UpdateTypes DEF Pc
  <2>3. req' = [req EXCEPT ![r] = q]
    BY <1>2 DEF ReplaceMessages
  <2>4. /\ q.pc = "close" /\ q.executor = req[r].executor /\ q.resume = req[r].resume
        /\ q.session = req[r].session /\ q.out = req[r].out /\ q.kind = req[r].kind
    BY RequestFacts, UpdateFields DEF Pc
  <2>5. req[r].pc = "replace" /\ UNCHANGED <<sessionVars, current, sessionIDs, auxVars>>
    BY <1>2 DEF ReplaceMessages
  <2> HIDE DEF q
  <2>6. ConversationTypeOK'
    BY <2>1, <2>2, <2>3, <2>5
       DEF ConversationInv, ConversationTypeOK, SessionsTypeOK, sessionVars, auxVars
  <2>8. Fits(q)
    BY <2>4, <2>5, RequestFacts DEF Fits, EditKind, TurnKind
  <2>7. SessionsOwned' /\ LocksHeld' /\ RequestsFit'
    BY <2>2, <2>3, <2>4, <2>5, <2>8, RequestFacts, RequestGoesOn DEF HoldsLock, OnSession, sessionVars
  <2> QED
    BY <2>6, <2>7 DEF ConversationInv
<1>3. CASE CloseSessions(r)
  <2>1. PICK q \in RequestRecord :
           /\ req' = [req EXCEPT ![r] = q]
           /\ q.executor = req[r].executor /\ q.pc \in {"done", "clear"} /\ Fits(q)
           /\ StartedBy(q.resume, q.executor) /\ StartedBy(q.session, q.executor)
           /\ StartedBy(q.out, q.executor)
    <3>1. CASE req[r].kind = "finalize"
      <4>1. req' = [req EXCEPT ![r] = Finished(r)]
        BY <1>3, <3>1 DEF CloseSessions
      <4> QED
        BY <1>1, <4>1, FinishedOwns
    <3>2. CASE req[r].kind # "finalize"
      <4>1. req' = [req EXCEPT ![r] = [req[r] EXCEPT !.pc = "clear"]]
        BY <1>3, <3>2 DEF CloseSessions
      <4>2. req[r].pc = "close"
        BY <1>3 DEF CloseSessions
      <4> QED
        BY ZenonT(60), <3>2, <4>1, <4>2, GoesTo, RequestFacts DEF Pc, Fits, EditKind
    <3> QED
      BY <3>1, <3>2
  <2>2. /\ req[r].pc = "close" /\ client' = NoSession /\ held' = NotHeld
        /\ UNCHANGED <<busy, context, current, messages, sessionIDs, auxVars>>
    BY <1>3 DEF CloseSessions
  <2>3. ConversationTypeOK'
    BY <2>1, <2>2 DEF ConversationInv, ConversationTypeOK, SessionsTypeOK, NotHeld, auxVars
  <2>4. SessionsOwned' /\ LocksHeld' /\ RequestsFit'
    BY <2>1, <2>2, RequestFacts, RequestGoesOn DEF HoldsLock, OnSession, StartedBy
  <2> QED
    BY <2>3, <2>4 DEF ConversationInv
<1>4. CASE ClearSessionIDs(r)
  <2>1. PICK e \in req[r].todo :
           /\ sessionIDs' = [sessionIDs EXCEPT ![e] = NoSession]
           /\ req' = [req EXCEPT ![r] = Cleared(r, e)]
    BY <1>4 DEF ClearSessionIDs
  <2>2. req[r].pc = "clear" /\ req[r].todo \in SUBSET Executor
    BY ZenonT(60), <1>4, RequestFacts DEF ClearSessionIDs, RequestRecord
  <2>3. PICK q \in RequestRecord :
           /\ req' = [req EXCEPT ![r] = q]
           /\ q.executor = req[r].executor /\ q.pc \in {"clear", "done", "resume"} /\ Fits(q)
           /\ StartedBy(q.resume, q.executor) /\ StartedBy(q.session, q.executor)
           /\ StartedBy(q.out, q.executor)
    <3>1. CASE req[r].todo # {e}
      <4> DEFINE todo == req[r].todo \ {e}
      <4>1. req' = [req EXCEPT ![r] = [req[r] EXCEPT !.todo = todo]] /\ todo \in SUBSET Executor
        BY <2>1, <2>2, <3>1 DEF Cleared
      <4> DEFINE q == [req[r] EXCEPT !.todo = todo]
      <4>2. q \in RequestRecord
        BY <4>1, RequestFacts, UpdateTypes DEF Pc
      <4>3. /\ q.pc = "clear" /\ q.executor = req[r].executor /\ q.resume = req[r].resume
            /\ q.session = req[r].session /\ q.out = req[r].out /\ q.kind = req[r].kind
        BY <2>2, RequestFacts, UpdateFields DEF Pc
      <4> HIDE DEF q
      <4>4. Fits(q)
        BY <2>2, <4>3, RequestFacts DEF Fits
      <4> QED
        BY ZenonT(60), <4>1, <4>2, <4>3, <4>4, RequestFacts DEF q
    <3>2. CASE req[r].todo = {e} /\ req[r].kind = "delete"
      <4>1. req' = [req EXCEPT ![r] = Finished(r)]
        BY <2>1, <3>2 DEF Cleared
      <4> QED
        BY <1>1, <4>1, FinishedOwns
    <3>3. CASE req[r].todo = {e} /\ req[r].kind # "delete"
      <4>1. req' = [req EXCEPT ![r] = [req[r] EXCEPT !.pc = "resume"]]
        BY <2>1, <3>3 DEF Cleared
      <4>2. req[r].kind = "regenerate" /\ req[r].executor \in Executor
        BY <2>2, <3>3, RequestFacts DEF Fits, EditKind, TurnKind
      <4>3. PICK q \in RequestRecord :
               /\ q = [req[r] EXCEPT !.pc = "resume"]
               /\ q.pc = "resume" /\ q.executor = req[r].executor /\ q.kind = req[r].kind
               /\ StartedBy(q.resume, q.executor) /\ StartedBy(q.session, q.executor)
               /\ StartedBy(q.out, q.executor)
        BY GoesTo DEF Pc
      <4>4. Fits(q)
        BY <4>2, <4>3 DEF Fits, TurnKind
      <4> QED
        BY <4>1, <4>3, <4>4
    <3> QED
      BY <3>1, <3>2, <3>3
  <2>4. UNCHANGED <<sessionVars, current, messages, calm, delivered>>
    BY <1>4 DEF ClearSessionIDs
  <2>5. discarded' \subseteq Message
    <3>1. discarded \subseteq Message /\ req[r].removed \subseteq Message
      BY ZenonT(60), RequestFacts DEF ConversationInv, ConversationTypeOK, RequestRecord
    <3> QED
      BY <1>4, <3>1 DEF ClearSessionIDs, Discard
  <2>6. sessionIDs' \in [Executor -> Request \cup {NoSession}]
    BY <2>1 DEF ConversationInv, ConversationTypeOK
  <2>7. ConversationTypeOK'
    BY <2>3, <2>4, <2>5, <2>6 DEF ConversationInv, ConversationTypeOK, SessionsTypeOK, sessionVars
  <2>8. \A x \in Executor : StartedBy(sessionIDs'[x], x)
    BY <2>1, RequestFacts DEF StartedBy, ConversationInv, ConversationTypeOK
  <2>9. SessionsOwned' /\ LocksHeld' /\ RequestsFit'
    BY <2>2, <2>3, <2>4, <2>8, RequestFacts, RequestGoesOn DEF HoldsLock, OnSession, sessionVars
  <2> QED
    BY <2>7, <2>9 DEF ConversationInv
<1> QED
  BY <1>2, <1>3, <1>4 DEF EditStep

-----------------------------------------------------------------------------
(* The turn.                                                               *)

\* The lock is taken only when nobody has it.
LEMMA TurnStarts ==
  ASSUME ConversationInv, NEW r \in Request,
         LoadResumeSessionID(r) \/ WorkspaceFails(r) \/ RunRefused(r) \/ Run(r)
  PROVE  ConversationInv'
<1>1. CASE LoadResumeSessionID(r)
  <2> DEFINE s == IF req[r].kind = "regenerate" THEN NoSession ELSE sessionIDs[req[r].executor]
             q == [req[r] EXCEPT !.pc = "run", !.resume = s]
  <2>1. /\ req[r].pc = "resume" /\ req' = [req EXCEPT ![r] = q]
        /\ UNCHANGED <<sessionVars, current, messages, sessionIDs, auxVars>>
    BY ZenonT(60), <1>1 DEF LoadResumeSessionID
  <2>2. req[r].executor \in Executor /\ req[r].kind \in TurnKind
    BY <2>1, RequestFacts DEF Fits
  <2>3. s \in Request \cup {NoSession} /\ StartedBy(s, req[r].executor)
    BY <2>2, RequestFacts DEF ConversationInv, ConversationTypeOK
  <2> HIDE DEF s
  <2>4. q \in RequestRecord
    BY <2>3, RequestFacts, UpdateTypes DEF Pc
  <2>5. /\ q.pc = "run" /\ q.executor = req[r].executor /\ q.kind = req[r].kind
        /\ q.resume = s /\ q.session = req[r].session /\ q.out = req[r].out
    BY RequestFacts, UpdateFields DEF Pc
  <2> HIDE DEF q
  <2>6. Fits(q)
    BY <2>2, <2>5 DEF Fits
  <2> QED
    BY <2>1, <2>3, <2>4, <2>5, <2>6, RequestFacts, QuietStep DEF HoldsLock
<1>2. CASE WorkspaceFails(r)
  <2>1. req[r].pc = "resume" /\ req' = [req EXCEPT ![r] = [req[r] EXCEPT !.pc = "save"]]
    BY <1>2 DEF WorkspaceFails, Goto
  <2>2. UNCHANGED <<sessionVars, current, messages, sessionIDs, auxVars>>
    BY <1>2 DEF WorkspaceFails
  <2> QED
    BY ZenonT(60), <2>1, <2>2, GoesTo, RequestFacts, QuietStep DEF Pc, HoldsLock, Fits
<1>3. CASE RunRefused(r)
  <2>1. req[r].pc = "run" /\ req' = [req EXCEPT ![r] = [req[r] EXCEPT !.pc = "persist"]]
    BY <1>3 DEF RunRefused, Goto
  <2>2. UNCHANGED <<sessionVars, current, messages, sessionIDs, auxVars>>
    BY <1>3 DEF RunRefused
  <2> QED
    BY ZenonT(60), <2>1, <2>2, GoesTo, RequestFacts, QuietStep DEF Pc, HoldsLock, Fits
<1>4. CASE Run(r)
  <2>1. /\ req[r].pc = "run" /\ TryLock(req[r].executor)
        /\ UNCHANGED <<client, current, messages, sessionIDs, auxVars>>
    BY <1>4 DEF Run
  <2>2. req[r].executor \in Executor /\ req[r].kind \in TurnKind
    BY <2>1, RequestFacts DEF Fits
  <2>3. ASSUME NEW q \in RequestRecord, req' = [req EXCEPT ![r] = q],
               HoldsLock(q.pc), q.executor = req[r].executor, q.kind = req[r].kind,
               StartedBy(q.resume, q.executor), StartedBy(q.session, q.executor),
               StartedBy(q.out, q.executor),
               OnSession(q.pc) => q.session # NoSession /\ (q.executor = "local" => q.session = r),
               q.pc = "client" => q.executor = "claude-code",
               q.pc = "connect" => q.executor # "local",
               held' \in [live : BOOLEAN, messages : SUBSET Message],
               context' \in [Request -> SUBSET Message]
        PROVE  ConversationInv'
    <3>1. Fits(q)
      BY <2>2, <2>3 DEF Fits, HoldsLock
    <3>2. /\ q.executor \notin busy /\ busy \subseteq busy'
          /\ q.executor = "local" \/ q.executor \in busy'
          /\ busy' \subseteq Executor \ {"local"}
      BY <2>1, <2>2, <2>3 DEF TryLock, ConversationInv, ConversationTypeOK, SessionsTypeOK
    <3>3. ConversationTypeOK'
      BY <2>1, <2>3, <3>2 DEF ConversationInv, ConversationTypeOK, SessionsTypeOK, auxVars
    <3>4. SessionsOwned' /\ LocksHeld' /\ RequestsFit'
      BY <2>1, <2>3, <3>1, <3>2, RequestFacts, RequestGoesOn DEF HoldsLock
    <3> QED
      BY <3>3, <3>4 DEF ConversationInv
  <2>4. ASSUME NEW pc \in {"client", "connect"}, Goto(r, pc), UNCHANGED <<held, context>>,
               OfRunner(r, {IF pc = "client" THEN "claude-code" ELSE "codex"})
        PROVE  ConversationInv'
    <3>1. req' = [req EXCEPT ![r] = [req[r] EXCEPT !.pc = pc]] /\ pc \in Pc
      BY <2>4 DEF Goto, Pc
    <3>2. HoldsLock(pc) /\ ~ OnSession(pc)
      BY DEF HoldsLock, OnSession
    <3>3. /\ held' \in [live : BOOLEAN, messages : SUBSET Message]
          /\ context' \in [Request -> SUBSET Message]
      BY <2>4 DEF ConversationInv, ConversationTypeOK, SessionsTypeOK
    <3>4. PICK q \in RequestRecord :
             /\ q = [req[r] EXCEPT !.pc = pc]
             /\ q.pc = pc /\ q.executor = req[r].executor /\ q.kind = req[r].kind
             /\ StartedBy(q.resume, q.executor) /\ StartedBy(q.session, q.executor)
             /\ StartedBy(q.out, q.executor)
      BY <3>1, GoesTo
    <3>5. req' = [req EXCEPT ![r] = q]
      BY <3>1, <3>4
    <3> QED
      BY <2>3, <2>4, <3>2, <3>3, <3>4, <3>5 DEF OfRunner
  <2>5. CASE /\ OfRunner(r, {"local"})
             /\ SendHeld(r, Messages(req[r].kept))
             /\ req' = [req EXCEPT ![r].pc = "receive", ![r].session = r]
    <3> DEFINE q == [req[r] EXCEPT !.pc = "receive", !.session = r]
    <3>1. q \in RequestRecord
      BY RequestFacts, UpdateTypes DEF Pc
    <3>2. /\ q.pc = "receive" /\ q.executor = req[r].executor /\ q.kind = req[r].kind
          /\ q.resume = req[r].resume /\ q.session = r /\ q.out = req[r].out
      BY RequestFacts, UpdateFields DEF Pc
    <3>3. req' = [req EXCEPT ![r] = q]
      BY <2>5
    <3>4. Messages(req[r].kept) \in SUBSET Message /\ User(r) \in Message
      BY ZenonT(60), MessageTypes, RequestFacts DEF RequestRecord
    <3>5. /\ held \in [live : BOOLEAN, messages : SUBSET Message]
          /\ context \in [Request -> SUBSET Message]
      BY DEF ConversationInv, ConversationTypeOK, SessionsTypeOK
    <3>6. held' \in [live : BOOLEAN, messages : SUBSET Message]
      BY <2>5, <3>4, <3>5 DEF SendHeld, Rehydrate, Held
    <3>7. context' \in [Request -> SUBSET Message]
      BY <2>5, <3>4, <3>5, <3>6 DEF SendHeld
    <3>8. StartedBy(r, req[r].executor) /\ r # NoSession
      BY <2>1, AgentSessionsAssumption DEF StartedBy
    <3> HIDE DEF q
    <3> QED
      BY ZenonT(60), <2>3, <3>1, <3>2, <3>3, <3>6, <3>7, <3>8, RequestFacts DEF HoldsLock
  <2> QED
    BY <1>4, <2>4, <2>5 DEF Run
<1> QED
  BY <1>1, <1>2, <1>3, <1>4

\* A step of a turn that keeps the lock it holds, on a session of its runner.
LEMMA KeepsLock ==
  ASSUME ConversationInv, NEW r \in Request, NEW q \in RequestRecord,
         HoldsLock(req[r].pc), HoldsLock(q.pc), req' = [req EXCEPT ![r] = q],
         q.executor = req[r].executor, q.kind = req[r].kind,
         q.pc = "client" => q.executor = "claude-code",
         q.pc = "connect" => q.executor # "local",
         StartedBy(q.resume, q.executor), StartedBy(q.session, q.executor),
         StartedBy(q.out, q.executor),
         OnSession(q.pc) => q.session # NoSession /\ (q.executor = "local" => q.session = r),
         StartedBy(client', "claude-code"), client' \in Request \cup {NoSession},
         held' \in [live : BOOLEAN, messages : SUBSET Message],
         context' \in [Request -> SUBSET Message],
         delivered' \subseteq Message,
         UNCHANGED <<busy, current, messages, sessionIDs, calm, discarded>>
  PROVE  ConversationInv'
<1>1. Fits(q)
  BY RequestFacts DEF Fits, HoldsLock
<1>2. ConversationTypeOK'
  BY DEF ConversationInv, ConversationTypeOK, SessionsTypeOK
<1>3. SessionsOwned' /\ LocksHeld' /\ RequestsFit'
  BY <1>1, RequestFacts, RequestGoesOn DEF HoldsLock
<1> QED
  BY <1>2, <1>3 DEF ConversationInv

\* A turn that ends gives the lock back, with a session of its own runner.
LEMMA Returns ==
  ASSUME ConversationInv, NEW r \in Request, HoldsLock(req[r].pc),
         NEW out \in Request \cup {NoSession}, StartedBy(out, req[r].executor), Return(r, out),
         StartedBy(client', "claude-code"), client' \in Request \cup {NoSession},
         held' \in [live : BOOLEAN, messages : SUBSET Message],
         context' \in [Request -> SUBSET Message],
         delivered' \subseteq Message,
         UNCHANGED <<current, messages, sessionIDs, calm, discarded>>
  PROVE  ConversationInv'
<1> DEFINE q == [req[r] EXCEPT !.pc = "persist", !.out = out]
<1>1. req' = [req EXCEPT ![r] = q] /\ busy' = busy \ {req[r].executor}
  BY ZenonT(60) DEF Return, Unlock
<1>2. q \in RequestRecord
  BY RequestFacts, UpdateTypes DEF Pc
<1>3. /\ q.pc = "persist" /\ q.executor = req[r].executor /\ q.kind = req[r].kind
      /\ q.resume = req[r].resume /\ q.session = req[r].session /\ q.out = out
  BY RequestFacts, UpdateFields DEF Pc
<1> HIDE DEF q
<1>4. Fits(q)
  BY <1>3, RequestFacts DEF Fits, HoldsLock
<1>5. ConversationTypeOK'
  BY <1>1, <1>2 DEF ConversationInv, ConversationTypeOK, SessionsTypeOK
<1>6. SessionsOwned' /\ LocksHeld' /\ RequestsFit'
  BY <1>1, <1>2, <1>3, <1>4, RequestFacts, RequestGoesOn DEF HoldsLock, OnSession
<1> QED
  BY <1>5, <1>6 DEF ConversationInv

\* What a runner holds, what its model hears and what is closed.
LEMMA SessionEffects ==
  ASSUME ConversationInv, NEW r \in Request
  PROVE  /\ held \in [live : BOOLEAN, messages : SUBSET Message]
         /\ context \in [Request -> SUBSET Message]
         /\ client \in Request \cup {NoSession} /\ StartedBy(client, "claude-code")
         /\ delivered \subseteq Message /\ User(r) \in Message /\ Assistant(r) \in Message
         /\ \A e : CloseSession(e) => /\ held' \in [live : BOOLEAN, messages : SUBSET Message]
                                      /\ client' \in Request \cup {NoSession}
                                      /\ StartedBy(client', "claude-code")
         /\ \A m \in Message : \A s : Hear(s, m) => context' \in [Request -> SUBSET Message]
         /\ HoldTurn(r) => held' \in [live : BOOLEAN, messages : SUBSET Message]
<1>1. /\ held \in [live : BOOLEAN, messages : SUBSET Message]
      /\ context \in [Request -> SUBSET Message]
      /\ client \in Request \cup {NoSession} /\ delivered \subseteq Message
  BY DEF ConversationInv, ConversationTypeOK, SessionsTypeOK
<1>2. StartedBy(client, "claude-code") /\ StartedBy(NoSession, "claude-code")
  BY DEF ConversationInv, SessionsOwned, StartedBy
<1>3. User(r) \in Message /\ Assistant(r) \in Message
  BY MessageTypes
<1>4. \A e : CloseSession(e) => /\ held' \in [live : BOOLEAN, messages : SUBSET Message]
                                /\ client' \in Request \cup {NoSession}
                                /\ StartedBy(client', "claude-code")
  BY <1>1, <1>2 DEF CloseSession, NotHeld
<1>5. ASSUME NEW m \in Message, NEW s, Hear(s, m)
      PROVE  context' \in [Request -> SUBSET Message]
  <2>1. context' = [context EXCEPT ![s] = context[s] \cup {m}]
    BY <1>5 DEF Hear
  <2>2. CASE s \in Request
    <3>1. context[s] \cup {m} \in SUBSET Message
      BY <1>1, <2>2
    <3> QED
      BY <1>1, <2>1, <2>2, <3>1
  <2>3. CASE s \notin Request
    <3>1. context' = [x \in Request |-> context[x]]
      BY <1>1, <2>1, <2>3
    <3> QED
      BY <1>1, <3>1
  <2> QED
    BY <2>2, <2>3
<1>6. HoldTurn(r) => held' \in [live : BOOLEAN, messages : SUBSET Message]
  BY <1>1, <1>3 DEF HoldTurn, Held
<1> QED
  BY <1>1, <1>2, <1>3, <1>4, <1>5, <1>6

\* ... and the steps that go on with a session, or with none.
LEMMA OnToSession ==
  ASSUME ConversationInv, NEW r \in Request, req[r].pc \in {"client", "connect"},
         NEW s \in Request, s # NoSession, StartedBy(s, req[r].executor),
         req[r].executor # "local",
         req' = [req EXCEPT ![r].pc = "query", ![r].session = s],
         StartedBy(client', "claude-code"), client' \in Request \cup {NoSession},
         held' = held, context' \in [Request -> SUBSET Message],
         UNCHANGED <<busy, current, messages, sessionIDs, auxVars>>
  PROVE  ConversationInv'
<1> DEFINE q == [req[r] EXCEPT !.pc = "query", !.session = s]
<1>1. q \in RequestRecord
  BY RequestFacts, UpdateTypes DEF Pc
<1>2. /\ q.pc = "query" /\ q.executor = req[r].executor /\ q.kind = req[r].kind
      /\ q.resume = req[r].resume /\ q.session = s /\ q.out = req[r].out
  BY RequestFacts, UpdateFields DEF Pc
<1>3. req' = [req EXCEPT ![r] = q]
  OBVIOUS
<1> HIDE DEF q
<1> QED
  BY ZenonT(60), <1>1, <1>2, <1>3, RequestFacts, SessionEffects, KeepsLock DEF HoldsLock, auxVars

LEMMA GoesOnLocked ==
  ASSUME ConversationInv, NEW r \in Request, HoldsLock(req[r].pc), NEW pc \in Pc,
         Goto(r, pc), HoldsLock(pc),
         OnSession(pc) => OnSession(req[r].pc),
         pc = "client" => req[r].executor = "claude-code",
         pc = "connect" => req[r].executor # "local",
         StartedBy(client', "claude-code"), client' \in Request \cup {NoSession},
         held' \in [live : BOOLEAN, messages : SUBSET Message],
         context' \in [Request -> SUBSET Message], delivered' \subseteq Message,
         UNCHANGED <<busy, current, messages, sessionIDs, calm, discarded>>
  PROVE  ConversationInv'
<1> DEFINE q == [req[r] EXCEPT !.pc = pc]
<1>1. q \in RequestRecord
  BY ZenonT(60), RequestFacts, UpdateTypes
<1>2. /\ q.pc = pc /\ q.executor = req[r].executor /\ q.kind = req[r].kind
      /\ q.resume = req[r].resume /\ q.session = req[r].session /\ q.out = req[r].out
  BY RequestFacts, UpdateFields
<1>3. req' = [req EXCEPT ![r] = q]
  BY DEF Goto
<1>4. OnSession(req[r].pc) => /\ req[r].session # NoSession
                              /\ req[r].executor = "local" => req[r].session = r
  BY DEF ConversationInv, SessionsOwned
<1> HIDE DEF q
<1> QED
  BY <1>1, <1>2, <1>3, <1>4, RequestFacts, KeepsLock

LEMMA TurnConnects ==
  ASSUME ConversationInv, NEW r \in Request,
         ClientFor(r) \/ Connect(r) \/ ConnectFails(r)
  PROVE  ConversationInv'
<1>1. CASE ClientFor(r)
  <2>1. /\ req[r].pc = "client" /\ req[r].executor = "claude-code"
        /\ UNCHANGED <<busy, context, current, messages, sessionIDs, auxVars>>
    BY <1>1, RequestFacts DEF ClientFor, Fits
  <2>2. CASE /\ client # NoSession
             /\ req' = [req EXCEPT ![r].pc = "query", ![r].session = client]
             /\ UNCHANGED <<client, held>>
    BY <2>1, <2>2, SessionEffects, OnToSession
  <2>3. CASE CloseSession("claude-code") /\ Goto(r, "connect")
    BY <2>1, <2>3, SessionEffects, GoesOnLocked DEF HoldsLock, OnSession, auxVars, Pc
  <2> QED
    BY <1>1, <2>2, <2>3 DEF ClientFor
<1>2. CASE Connect(r)
  <2>1. /\ req[r].pc = "connect" /\ req[r].executor # "local"
        /\ CacheClient(req[r].executor, req'[r].session)
        /\ UNCHANGED <<held, busy, current, messages, sessionIDs, auxVars>>
    BY <1>2, RequestFacts DEF Connect, Fits
  <2>2. PICK s \in Request :
           /\ s # NoSession /\ StartedBy(s, req[r].executor)
           /\ req' = [req EXCEPT ![r].pc = "query", ![r].session = s]
           /\ context' \in [Request -> SUBSET Message]
    <3>1. CASE /\ Resume(req[r].resume)
               /\ req' = [req EXCEPT ![r].pc = "query", ![r].session = req[r].resume]
      <4>1. req[r].resume \in Request /\ req[r].resume # NoSession /\ context' = context
        BY ZenonT(60), <3>1, RequestFacts DEF Resume, RequestRecord
      <4> QED
        BY <3>1, <4>1, RequestFacts, SessionEffects
    <3>2. CASE /\ StartSession(r, Messages(req[r].kept))
               /\ req' = [req EXCEPT ![r].pc = "query", ![r].session = r]
      <4>1. r # NoSession /\ StartedBy(r, req[r].executor)
        BY <2>1, AgentSessionsAssumption DEF StartedBy
      <4>2. Messages(req[r].kept) \in SUBSET Message
        BY ZenonT(60), MessageTypes, RequestFacts DEF RequestRecord
      <4>3. context' \in [Request -> SUBSET Message]
        BY <3>2, <4>2, SessionEffects DEF StartSession
      <4> QED
        BY <3>2, <4>1, <4>3
    <3> QED
      BY <1>2, <3>1, <3>2 DEF Connect
  <2>3. req'[r].session = s
    BY ZenonT(60), <2>2, RequestFacts DEF RequestRecord
  <2>4. StartedBy(client', "claude-code") /\ client' \in Request \cup {NoSession}
    BY <2>1, <2>2, <2>3, SessionEffects DEF CacheClient
  <2> QED
    BY <2>1, <2>2, <2>4, OnToSession
<1>3. CASE ConnectFails(r)
  <2>1. /\ HoldsLock(req[r].pc) /\ Return(r, NoSession)
        /\ UNCHANGED <<client, held, context, current, messages, sessionIDs, auxVars>>
    BY <1>3 DEF ConnectFails, HoldsLock
  <2> QED
    BY <2>1, RequestFacts, SessionEffects, Returns DEF auxVars
<1> QED
  BY <1>1, <1>2, <1>3

LEMMA TurnTalks ==
  ASSUME ConversationInv, NEW r \in Request,
         \/ Query(r) \/ QueryStale(r) \/ QueryFails(r)
         \/ Reply(r) \/ TurnFails(r) \/ TurnEndsSilently(r)
  PROVE  ConversationInv'
<1>1. CASE Query(r)
  <2>1. /\ req[r].pc = "query" /\ Goto(r, "receive") /\ Hear(req[r].session, User(r))
        /\ delivered' = delivered \cup {User(r)}
        /\ UNCHANGED <<client, held, busy, current, messages, sessionIDs, calm, discarded>>
    BY <1>1 DEF Query
  <2>2. context' \in [Request -> SUBSET Message] /\ delivered' \subseteq Message
    BY <2>1, SessionEffects
  <2> QED
    BY <2>1, <2>2, SessionEffects, GoesOnLocked DEF HoldsLock, OnSession, Pc
<1>2. CASE QueryStale(r)
  <2> DEFINE q == [req[r] EXCEPT !.pc = "client", !.retried = TRUE]
  <2>1. /\ req[r].pc = "query" /\ req[r].executor = "claude-code" /\ CloseSession("claude-code")
        /\ req' = [req EXCEPT ![r] = q]
        /\ UNCHANGED <<busy, context, current, messages, sessionIDs, auxVars>>
    BY <1>2 DEF QueryStale, OfRunner
  <2>2. /\ q.pc = "client" /\ q.executor = req[r].executor /\ q.kind = req[r].kind
        /\ q.resume = req[r].resume /\ q.session = req[r].session /\ q.out = req[r].out
    BY ZenonT(60), RequestFacts DEF RequestRecord
  <2>3. q \in RequestRecord
    BY ZenonT(60), RequestFacts, RetryType
  <2> HIDE DEF q
  <2> QED
    BY <2>1, <2>2, <2>3, RequestFacts, SessionEffects, KeepsLock
       DEF HoldsLock, OnSession, auxVars
<1>3. CASE QueryFails(r)
  <2>1. /\ HoldsLock(req[r].pc) /\ Return(r, NoSession)
        /\ UNCHANGED <<client, held, context, current, messages, sessionIDs, auxVars>>
    BY <1>3 DEF QueryFails, HoldsLock
  <2> QED
    BY <2>1, RequestFacts, SessionEffects, Returns DEF auxVars
<1>4. CASE Reply(r)
  <2>1. PICK out \in Request \cup {NoSession} :
           /\ StartedBy(out, req[r].executor) /\ Return(r, out)
           /\ held' \in [live : BOOLEAN, messages : SUBSET Message]
    <3>1. CASE OfRunner(r, {"local"}) /\ HoldTurn(r) /\ Return(r, NoSession)
      BY <3>1, RequestFacts, SessionEffects
    <3>2. CASE ~OfRunner(r, {"local"}) /\ Return(r, req[r].session) /\ UNCHANGED held
      BY ZenonT(60), <3>2, RequestFacts, SessionEffects DEF RequestRecord
    <3> QED
      BY <1>4, <3>1, <3>2 DEF Reply
  <2>2. /\ HoldsLock(req[r].pc) /\ Hear(req[r].session, Assistant(r))
        /\ delivered' = delivered \cup {User(r), Assistant(r)}
        /\ UNCHANGED <<client, current, messages, sessionIDs, calm, discarded>>
    BY <1>4 DEF Reply, HoldsLock
  <2>3. context' \in [Request -> SUBSET Message] /\ delivered' \subseteq Message
    BY <2>2, SessionEffects
  <2> QED
    BY <2>1, <2>2, <2>3, SessionEffects, Returns
<1>5. CASE TurnFails(r)
  <2>1. PICK out \in Request \cup {NoSession} : StartedBy(out, req[r].executor) /\ Return(r, out)
    BY ZenonT(60), <1>5, RequestFacts DEF TurnFails, RequestRecord
  <2>2. /\ HoldsLock(req[r].pc)
        /\ UNCHANGED <<client, held, context, current, messages, sessionIDs, auxVars>>
    BY <1>5 DEF TurnFails, HoldsLock
  <2> QED
    BY <2>1, <2>2, SessionEffects, Returns DEF auxVars
<1>6. CASE TurnEndsSilently(r)
  <2>1. /\ HoldsLock(req[r].pc) /\ CloseSession("claude-code") /\ Return(r, NoSession)
        /\ UNCHANGED <<context, current, messages, sessionIDs, auxVars>>
    BY <1>6 DEF TurnEndsSilently, HoldsLock
  <2> QED
    BY <2>1, RequestFacts, SessionEffects, Returns DEF auxVars
<1> QED
  BY <1>1, <1>2, <1>3, <1>4, <1>5, <1>6

LEMMA TurnEnds ==
  ASSUME ConversationInv, NEW r \in Request, PersistSessionID(r) \/ SaveMessages(r)
  PROVE  ConversationInv'
<1>1. CASE PersistSessionID(r)
  <2>1. /\ req[r].pc = "persist" /\ req' = [req EXCEPT ![r] = [req[r] EXCEPT !.pc = "save"]]
        /\ sessionIDs' = [sessionIDs EXCEPT ![req[r].executor] = req[r].out]
        /\ UNCHANGED <<sessionVars, current, messages, auxVars>>
    BY <1>1 DEF PersistSessionID, Goto
  <2>2. PICK q \in RequestRecord :
           /\ q = [req[r] EXCEPT !.pc = "save"]
           /\ q.pc = "save" /\ q.executor = req[r].executor /\ q.kind = req[r].kind
           /\ StartedBy(q.resume, q.executor) /\ StartedBy(q.session, q.executor)
           /\ StartedBy(q.out, q.executor)
    BY GoesTo DEF Pc
  <2>3. req' = [req EXCEPT ![r] = q]
    BY <2>1, <2>2
  <2>4. Fits(q)
    BY <2>1, <2>2, RequestFacts DEF Fits
  <2>5. /\ sessionIDs' \in [Executor -> Request \cup {NoSession}]
        /\ \A e \in Executor : StartedBy(sessionIDs'[e], e)
    BY ZenonT(60), <2>1, RequestFacts DEF ConversationInv, ConversationTypeOK, RequestRecord
  <2>6. ConversationTypeOK'
    BY <2>1, <2>3, <2>5
       DEF ConversationInv, ConversationTypeOK, SessionsTypeOK, sessionVars, auxVars
  <2>7. SessionsOwned' /\ LocksHeld' /\ RequestsFit'
    BY <2>1, <2>2, <2>3, <2>4, <2>5, RequestFacts, RequestGoesOn
       DEF HoldsLock, OnSession, sessionVars
  <2> QED
    BY <2>6, <2>7 DEF ConversationInv
<1>2. CASE SaveMessages(r)
  <2>1. /\ req[r].pc = "save" /\ req' = [req EXCEPT ![r] = Finished(r)]
        /\ UNCHANGED <<sessionVars, current, sessionIDs, calm, delivered>>
        /\ Discard(r, Messages(messages) \ Messages(messages'))
    BY <1>2 DEF SaveMessages
  <2>2. req[r].kind \in TurnKind
    BY <2>1, RequestFacts DEF Fits
  <2>3. /\ messages \in Seq(Message) /\ req[r].kept \in Seq(Message)
        /\ User(r) \in Message /\ Assistant(r) \in Message
    BY ZenonT(60), RequestFacts, MessageTypes DEF ConversationInv, ConversationTypeOK, RequestRecord
  <2>4. messages' \in Seq(Message)
    BY <1>2, <2>2, <2>3 DEF SaveMessages, TurnKind
  <2>5. discarded' \subseteq Message
    BY <2>1, <2>3, MessageTypes DEF Discard, ConversationInv, ConversationTypeOK
  <2>6. /\ Finished(r) \in RequestRecord /\ Finished(r).pc = "done"
        /\ Finished(r).executor = req[r].executor
    BY RequestTypes DEF ConversationInv
  <2>7. ConversationTypeOK'
    BY <2>1, <2>4, <2>5, <2>6 DEF ConversationInv, ConversationTypeOK, SessionsTypeOK, sessionVars
  <2>8. SessionsOwned' /\ LocksHeld' /\ RequestsFit'
    BY <2>1, <2>6, RequestFacts, FinishedOwns, RequestGoesOn DEF HoldsLock, OnSession, sessionVars
  <2> QED
    BY <2>7, <2>8 DEF ConversationInv
<1> QED
  BY <1>1, <1>2

-----------------------------------------------------------------------------
(* The beginning of a request, the restart, and all steps together.        *)

LEMMA BeginStep ==
  ASSUME ConversationInv, NEW r \in Request, NEW kind \in Kind, NEW e \in Executor \cup {""},
         kind \in TurnKind => e \in Executor,
         Begin(r, kind, e), current' \in BOOLEAN
  PROVE  ConversationInv'
<1>1. req \in [Request -> RequestRecord] /\ NewRequest \in RequestRecord
  BY ZenonT(60), RequestFacts, RequestTypes DEF ConversationInv, ConversationTypeOK
<1>2. discarded \in SUBSET Message /\ (Open = {}) \in BOOLEAN
  BY ZenonT(60) DEF ConversationInv, ConversationTypeOK
<1> DEFINE opened == [NewRequest EXCEPT
                         !.pc = IF kind = "finalize" THEN "close" ELSE "read",
                         !.kind = kind, !.executor = e, !.alone = (Open = {}),
                         !.todo = Executor, !.gone = discarded]
<1>3. opened \in RequestRecord
  <2>1. CASE Open = {}
    <3>1. [NewRequest EXCEPT !.pc = IF kind = "finalize" THEN "close" ELSE "read",
                             !.kind = kind, !.executor = e, !.alone = TRUE,
                             !.todo = Executor, !.gone = discarded] \in RequestRecord
      BY ZenonT(60), <1>1, <1>2 DEF RequestRecord, Pc, NewRequest
    <3>2. (Open = {}) = TRUE
      BY ZenonT(60), <2>1
    <3> QED
      BY ZenonT(60), <3>1, <3>2
  <2>2. CASE Open # {}
    <3>1. [NewRequest EXCEPT !.pc = IF kind = "finalize" THEN "close" ELSE "read",
                             !.kind = kind, !.executor = e, !.alone = FALSE,
                             !.todo = Executor, !.gone = discarded] \in RequestRecord
      BY ZenonT(60), <1>1, <1>2 DEF RequestRecord, Pc, NewRequest
    <3>2. (Open = {}) = FALSE
      BY ZenonT(60), <2>2
    <3> QED
      BY ZenonT(60), <3>1, <3>2
  <2> QED
    BY ZenonT(60), <2>1, <2>2
<1>4. /\ opened.pc = (IF kind = "finalize" THEN "close" ELSE "read")
      /\ opened.kind = kind /\ opened.executor = e
      /\ opened.resume = NoSession /\ opened.session = NoSession /\ opened.out = NoSession
  BY ZenonT(60) DEF NewRequest
<1> HIDE DEF opened
<1> DEFINE other(q) == [req[q] EXCEPT !.alone = FALSE]
<1>5. ASSUME NEW q \in Request
      PROVE  /\ other(q) \in RequestRecord
             /\ other(q).pc = req[q].pc /\ other(q).executor = req[q].executor
             /\ other(q).kind = req[q].kind /\ other(q).resume = req[q].resume
             /\ other(q).session = req[q].session /\ other(q).out = req[q].out
  BY ZenonT(60), <1>1 DEF RequestRecord
<1> HIDE DEF other
<1>6. req' = [q \in Request |->
                 IF q = r THEN opened ELSE IF q \in Open THEN other(q) ELSE req[q]]
  BY ZenonT(60) DEF Begin, opened, other
<1>7. /\ req[r].pc = "new" /\ calm' \in BOOLEAN
      /\ UNCHANGED <<sessionVars, messages, sessionIDs, delivered, discarded>>
  BY ZenonT(60) DEF Begin, ConversationInv, ConversationTypeOK
<1>8. req' \in [Request -> RequestRecord]
  BY ZenonT(60), <1>1, <1>3, <1>5, <1>6
<1>9. ConversationTypeOK'
  BY ZenonT(60), <1>7, <1>8 DEF ConversationInv, ConversationTypeOK, SessionsTypeOK, sessionVars
<1>10. \A q \in Request : q # r =>
          /\ req'[q].pc = req[q].pc /\ req'[q].executor = req[q].executor
          /\ req'[q].kind = req[q].kind /\ req'[q].resume = req[q].resume
          /\ req'[q].session = req[q].session /\ req'[q].out = req[q].out
  BY ZenonT(60), <1>5, <1>6
<1>11. req'[r] = opened
  BY ZenonT(60), <1>6
<1>12. ASSUME NEW s, NEW x, StartedBy(s, x)
       PROVE  StartedBy(s, x)'
  BY ZenonT(60), <1>7, <1>10, <1>12 DEF StartedBy
<1>13. SessionsOwned'
  <2>1. ASSUME NEW q \in Request
        PROVE  /\ StartedBy(req[q].resume, req[q].executor)'
               /\ StartedBy(req[q].session, req[q].executor)'
               /\ StartedBy(req[q].out, req[q].executor)'
               /\ OnSession(req'[q].pc) => /\ req'[q].session # NoSession
                                           /\ req'[q].executor = "local" => req'[q].session = q
    <3>1. CASE q = r
      BY ZenonT(60), <1>4, <1>11, <3>1 DEF StartedBy, OnSession
    <3>2. CASE q # r
      <4>1. /\ StartedBy(req[q].resume, req[q].executor)
            /\ StartedBy(req[q].session, req[q].executor)
            /\ StartedBy(req[q].out, req[q].executor)
            /\ OnSession(req[q].pc) => /\ req[q].session # NoSession
                                       /\ req[q].executor = "local" => req[q].session = q
        BY ZenonT(60) DEF ConversationInv, SessionsOwned
      <4>2. /\ req'[q].resume = req[q].resume /\ req'[q].session = req[q].session
            /\ req'[q].out = req[q].out /\ req'[q].executor = req[q].executor
            /\ req'[q].pc = req[q].pc
        BY ZenonT(60), <1>10, <3>2
      <4>3. StartedBy(req[q].resume, req[q].executor)'
        BY ZenonT(60), <1>12, <4>1, <4>2
      <4>4. StartedBy(req[q].session, req[q].executor)'
        BY ZenonT(60), <1>12, <4>1, <4>2
      <4>5. StartedBy(req[q].out, req[q].executor)'
        BY ZenonT(60), <1>12, <4>1, <4>2
      <4> QED
        BY ZenonT(60), <4>1, <4>2, <4>3, <4>4, <4>5
    <3> QED
      BY ZenonT(60), <3>1, <3>2
  <2>2. client' = client /\ sessionIDs' = sessionIDs
    BY ZenonT(60), <1>7 DEF sessionVars
  <2>3. StartedBy(client, "claude-code") /\ \A x \in Executor : StartedBy(sessionIDs[x], x)
    BY ZenonT(60) DEF ConversationInv, SessionsOwned
  <2>4. StartedBy(client, "claude-code")' /\ \A x \in Executor : StartedBy(sessionIDs[x], x)'
    BY ZenonT(60), <1>12, <2>2, <2>3 DEF StartedBy
  <2> QED
    BY ZenonT(60), <2>1, <2>4 DEF SessionsOwned
<1>14. LocksHeld'
  <2>1. ~ HoldsLock(req'[r].pc) /\ busy' = busy
    BY ZenonT(60), <1>4, <1>7, <1>11 DEF HoldsLock, sessionVars
  <2>2. ASSUME NEW q \in Request, HoldsLock(req'[q].pc), req'[q].executor # "local"
        PROVE  /\ req'[q].executor \in busy'
               /\ \A x \in Request :
                     HoldsLock(req'[x].pc) /\ req'[x].executor = req'[q].executor => x = q
    <3>1. q # r /\ HoldsLock(req[q].pc) /\ req[q].executor # "local"
      BY ZenonT(60), <1>10, <2>1, <2>2
    <3>2. /\ req[q].executor \in busy
          /\ \A x \in Request :
                HoldsLock(req[x].pc) /\ req[x].executor = req[q].executor => x = q
      BY ZenonT(60), <3>1 DEF ConversationInv, LocksHeld
    <3> QED
      BY ZenonT(60), <1>10, <2>1, <3>1, <3>2
  <2> QED
    BY ZenonT(60), <2>2 DEF LocksHeld
<1>15. RequestsFit'
  <2>1. Fits(opened)
    BY ZenonT(60), <1>4 DEF Fits, TurnKind
  <2>2. ASSUME NEW q \in Request, q # r PROVE Fits(req'[q])
    BY ZenonT(60), <1>10, <2>2 DEF ConversationInv, RequestsFit, Fits
  <2> QED
    BY ZenonT(60), <1>11, <2>1, <2>2 DEF RequestsFit
<1> QED
  BY ZenonT(60), <1>9, <1>13, <1>14, <1>15 DEF ConversationInv

LEMMA RestartStep ==
  ASSUME ConversationInv, Restart
  PROVE  ConversationInv'
<1>1. req \in [Request -> RequestRecord]
  BY DEF ConversationInv, ConversationTypeOK
<1>2. /\ client' = NoSession /\ held' = NotHeld /\ busy' = {} /\ context' = context
      /\ req' = [r \in Request |-> IF r \in Open THEN Finished(r) ELSE req[r]]
      /\ UNCHANGED <<current, messages, sessionIDs, delivered, discarded>>
  BY DEF Restart, SessionsLost
<1>3. calm' \in BOOLEAN
  BY DEF Restart
<1>4. ASSUME NEW r \in Request
      PROVE  /\ Finished(r) \in RequestRecord /\ Finished(r).pc = "done"
             /\ Finished(r).executor = req[r].executor
  BY RequestTypes DEF ConversationInv
<1>5. ConversationTypeOK'
  <2>1. req' \in [Request -> RequestRecord]
    BY <1>1, <1>2, <1>4
  <2> QED
    BY <1>2, <1>3, <2>1 DEF ConversationInv, ConversationTypeOK, SessionsTypeOK, NotHeld
<1>6. ASSUME NEW r \in Request
      PROVE  /\ req'[r].executor = req[r].executor
             /\ req[r].pc # "new" => req'[r].pc # "new"
             /\ req'[r].pc \in {"new", "done"}
             /\ r \notin Open => req'[r] = req[r]
             /\ r \in Open => req'[r] = Finished(r)
  BY <1>2, <1>4 DEF Open
<1>7. ASSUME NEW s, NEW x, StartedBy(s, x)
      PROVE  StartedBy(s, x)'
  BY <1>6, <1>7 DEF StartedBy
<1>8. SessionsOwned'
  <2>1. ASSUME NEW r \in Request
        PROVE  /\ StartedBy(req[r].resume, req[r].executor)'
               /\ StartedBy(req[r].session, req[r].executor)'
               /\ StartedBy(req[r].out, req[r].executor)'
               /\ ~ OnSession(req'[r].pc)
    <3>1. ~ OnSession(req'[r].pc)
      BY <1>6 DEF OnSession
    <3>2. CASE r \in Open
      BY <1>4, <1>6, <1>7, <3>1, <3>2, FinishedOwns
    <3>3. CASE r \notin Open
      BY <1>6, <1>7, <3>1, <3>3, RequestFacts
    <3> QED
      BY <3>2, <3>3
  <2>2. StartedBy(client, "claude-code")' /\ \A x \in Executor : StartedBy(sessionIDs[x], x)'
    <3>1. \A x \in Executor : StartedBy(sessionIDs[x], x)
      BY DEF ConversationInv, SessionsOwned
    <3>2. \A x \in Executor : StartedBy(sessionIDs[x], x)'
      BY <1>2, <1>7, <3>1
    <3> QED
      BY <1>2, <3>2 DEF StartedBy
  <2> QED
    BY <2>1, <2>2 DEF SessionsOwned
<1>9. LocksHeld'
  BY <1>6 DEF LocksHeld, HoldsLock
<1>10. RequestsFit'
  BY <1>6 DEF RequestsFit, Fits
<1> QED
  BY <1>5, <1>8, <1>9, <1>10 DEF ConversationInv

\* The stage comes back, another conversation's turn reaps the client.
LEMMA OtherSteps ==
  ASSUME ConversationInv, Revise \/ OtherConversation \/ UNCHANGED vars
  PROVE  ConversationInv'
<1>1. UNCHANGED <<req, sessionIDs, busy>> /\ client' \in {client, NoSession}
  BY DEF Revise, OtherConversation, ClientReaped, CloseSession, vars, sessionVars
<1>2. ConversationTypeOK'
  BY DEF Revise, OtherConversation, ClientReaped, CloseSession, vars, sessionVars, auxVars,
         ConversationInv, ConversationTypeOK, SessionsTypeOK
<1>3. SessionsOwned' /\ LocksHeld' /\ RequestsFit'
  BY <1>1 DEF ConversationInv, SessionsOwned, LocksHeld, RequestsFit, StartedBy
<1> QED
  BY <1>2, <1>3 DEF ConversationInv

LEMMA ConversationInductive ==
  ASSUME ConversationInv, [Next]_vars
  PROVE  ConversationInv'
<1>1. ASSUME NEW r \in Request, RequestStep(r) PROVE ConversationInv'
  <2>1. ASSUME NEW kind \in TurnKind, NEW e \in Executor, OpenRequest(r, kind, e)
        PROVE  ConversationInv'
    BY ZenonT(60), <2>1, BeginStep DEF OpenRequest, Kind
  <2>2. ASSUME NEW kind \in {"delete", "finalize"}, OpenRequest(r, kind, "")
        PROVE  ConversationInv'
    BY ZenonT(60), <2>2, BeginStep DEF OpenRequest, Kind, TurnKind, EditKind
  <2> QED
    BY ZenonT(60), <1>1, <2>1, <2>2, ReadSteps, EditSteps, TurnStarts, TurnConnects,
       TurnTalks, TurnEnds
       DEF RequestStep, TurnStep
<1> QED
  BY <1>1, RestartStep, OtherSteps DEF Next

LEMMA ConversationStarts ==
  ASSUME Init
  PROVE  ConversationInv
<1>1. NewRequest \in RequestRecord
  BY DEF NewRequest, RequestRecord, Pc, Kind, TurnKind, EditKind
<1>2. ConversationTypeOK
  BY <1>1 DEF Init, ConversationTypeOK, SessionsTypeOK, SessionsInit, NotHeld
<1>3. \A r \in Request : req[r] = NewRequest
  BY DEF Init
<1>4. SessionsOwned /\ LocksHeld /\ RequestsFit
  BY ZenonT(60), <1>3
         DEF Init, SessionsInit, SessionsOwned, LocksHeld, RequestsFit, StartedBy, Fits,
              NewRequest, HoldsLock, OnSession, TurnKind
<1> QED
  BY <1>2, <1>4 DEF ConversationInv

LEMMA OneTurn ==
  ASSUME ConversationInv
  PROVE  OneTurnPerSession
<1> SUFFICES ASSUME NEW r \in Request, NEW q \in Request, InTurn(r), InTurn(q),
                    req[r].session = req[q].session
             PROVE  r = q
  BY DEF OneTurnPerSession
<1>1. /\ OnSession(req[r].pc) /\ OnSession(req[q].pc)
      /\ HoldsLock(req[r].pc) /\ HoldsLock(req[q].pc)
  BY DEF InTurn, OnSession, HoldsLock
<1>2. req[r].executor = req[q].executor
  BY <1>1 DEF ConversationInv, SessionsOwned, StartedBy
<1>3. CASE req[r].executor = "local"
  BY <1>1, <1>2, <1>3 DEF ConversationInv, SessionsOwned
<1>4. CASE req[r].executor # "local"
  BY <1>1, <1>2, <1>4 DEF ConversationInv, LocksHeld
<1> QED
  BY <1>3, <1>4

-----------------------------------------------------------------------------
\* The values that the files, the runners and the requests hold are of their
\* types.
THEOREM ConversationTypeCorrect == Spec => []ConversationTypeOK
<1>1. ConversationInv => ConversationTypeOK
  BY DEF ConversationInv
<1> QED
  BY <1>1, ConversationStarts, ConversationInductive, PTL DEF Spec

\* Of any number of requests at a time, through any runners, over restarts,
\* reconnections and edits, no two have a turn on one CLI session.
THEOREM OneTurnAtATime == Spec => []OneTurnPerSession
<1> QED
  BY OneTurn, ConversationStarts, ConversationInductive, PTL DEF Spec

-----------------------------------------------------------------------------
(* What was discarded.  Every message that an edit alone discarded is that *)
(* of a request that has returned; the messages on disk, what local holds  *)
(* and every session that a record, the cached client or a request names   *)
(* are clean of them.  A request in progress began after the last discard, *)
(* for the edit that discards has been alone from beginning to end.        *)

Settled(ms) == \A m \in ms : req[m.request].pc = "done"
Clean(ms) == ms \cap discarded = {}
CleanSession(s) == s # NoSession => Clean(context[s])

\* The part of a request after its edit, if it makes one.
Turning(pc) ==
    pc \in {"resume", "run", "client", "connect", "query", "receive", "persist", "save"}

RecordsClean ==
    /\ Settled(discarded)
    /\ Settled(Messages(messages)) /\ Clean(Messages(messages))
    /\ Clean(held.messages) /\ CleanSession(client)
    /\ \A e \in Executor : CleanSession(sessionIDs[e])

RequestClean(r) ==
    /\ req[r].gone = discarded
    /\ Settled(Messages(req[r].kept)) /\ Clean(Messages(req[r].kept))
    /\ CleanSession(req[r].resume) /\ CleanSession(req[r].session) /\ CleanSession(req[r].out)

\* What a regeneration leaves of the conversation.
Own(r) == {User(r), Assistant(r)}
Told(r) == Messages(req[r].kept) \cup Own(r)
Within(s, ms) == s # NoSession => context[s] \subseteq ms

\* An edit that is alone: once its messages are replaced, nothing keeps what
\* they were; nothing but what it keeps and its own exchange comes up again.
EditAlone(r) ==
    /\ \A q \in Open : q = r
    /\ ~ Turning(req[r].pc) => req[r].session = NoSession /\ req[r].out = NoSession
    /\ req[r].kind = "regenerate" => req[r].resume = NoSession
    /\ req[r].kind = "delete" /\ req[r].pc \in {"close", "clear"} =>
          Settled(req[r].removed) /\ req[r].removed \cap Messages(messages) = {}
    /\ req[r].pc \in {"read", "replace", "close"} => req[r].todo = Executor
    /\ req[r].pc = "clear" =>
          /\ client = NoSession /\ held.messages = {}
          /\ \A e \in Executor \ req[r].todo : sessionIDs[e] = NoSession
    /\ req[r].kind = "regenerate" /\ Turning(req[r].pc) =>
          /\ Within(client, Told(r)) /\ held.messages \subseteq Told(r)
          /\ \A e \in Executor : Within(sessionIDs[e], Told(r))
          /\ Within(req[r].session, Told(r)) /\ Within(req[r].out, Told(r))

DiscardInv ==
    /\ RecordsClean
    /\ \A r \in Open : RequestClean(r)
    /\ \A r \in Open : req[r].alone => EditAlone(r)

-----------------------------------------------------------------------------
(* What a step of a turn can change, before the messages are saved: the    *)
(* session that the request uses hears its exchange, or one is started     *)
(* with what was kept or held; every name given to a session is one that   *)
(* was recorded, cached or in use, or that of a session so started.        *)

Fresh(r) == Told(r) \cup held.messages

Named(x, r) ==
    \/ x \in {NoSession, client, req[r].resume, req[r].session, req[r].out}
    \/ \E e \in Executor : x = sessionIDs[e]

MayName(x, r) == Named(x, r) \/ (x = r /\ context'[r] \subseteq Fresh(r))

\* The fields that no step of a turn changes.
SameKind(q, p) ==
    /\ q.kind = p.kind /\ q.executor = p.executor
    /\ q.alone = p.alone /\ q.gone = p.gone

SameRequest(q, p) == SameKind(q, p) /\ q.kept = p.kept

Alone(r) == \A q \in Request : q # r => req'[q] = req[q]

TurnEffect(r) ==
    /\ Turning(req[r].pc) /\ Turning(req'[r].pc)
    /\ Alone(r) /\ SameRequest(req'[r], req[r])
    /\ UNCHANGED <<messages, discarded, calm>>
    /\ held'.messages \subseteq Fresh(r)
    /\ \A s \in Request : \/ context'[s] \subseteq context[s] \cup Own(r)
                          \/ context'[s] \subseteq Fresh(r)
    /\ MayName(client', r) /\ \A e \in Executor : MayName(sessionIDs'[e], r)
    /\ MayName(req'[r].resume, r) /\ MayName(req'[r].session, r) /\ MayName(req'[r].out, r)
    /\ req[r].kind = "regenerate" => req'[r].resume \in {NoSession, req[r].resume}

\* A step that replaces one request by q leaves the others alone.
LEMMA OneMoves ==
  ASSUME ConversationInv, NEW r \in Request, NEW q, req' = [req EXCEPT ![r] = q]
  PROVE  req'[r] = q /\ Alone(r)
<1> QED
  BY RequestFacts DEF Alone

\* How the request itself goes on, step by step.
LEMMA TurnFields ==
  ASSUME ConversationInv, NEW r \in Request
  PROVE  /\ \A pc \in Pc : Goto(r, pc) =>
               /\ Alone(r) /\ SameRequest(req'[r], req[r]) /\ req'[r].pc = pc
               /\ req'[r].resume = req[r].resume /\ req'[r].session = req[r].session
               /\ req'[r].out = req[r].out
         /\ \A pc \in Pc, s \in Request \cup {NoSession} :
               req' = [req EXCEPT ![r].pc = pc, ![r].session = s] =>
                  /\ Alone(r) /\ SameRequest(req'[r], req[r]) /\ req'[r].pc = pc
                  /\ req'[r].resume = req[r].resume /\ req'[r].session = s
                  /\ req'[r].out = req[r].out
         /\ \A out : Return(r, out) =>
               /\ Alone(r) /\ SameRequest(req'[r], req[r]) /\ req'[r].pc = "persist"
               /\ req'[r].resume = req[r].resume /\ req'[r].session = req[r].session
               /\ req'[r].out = out
<1>1. req[r] \in RequestRecord
  BY RequestFacts
<1>2. ASSUME NEW pc \in Pc, Goto(r, pc)
      PROVE  /\ Alone(r) /\ SameRequest(req'[r], req[r]) /\ req'[r].pc = pc
             /\ req'[r].resume = req[r].resume /\ req'[r].session = req[r].session
             /\ req'[r].out = req[r].out
  <2> DEFINE q == [req[r] EXCEPT !.pc = pc]
  <2>1. req' = [req EXCEPT ![r] = q]
    BY <1>2 DEF Goto
  <2>2. /\ SameRequest(q, req[r]) /\ q.pc = pc /\ q.resume = req[r].resume
        /\ q.session = req[r].session /\ q.out = req[r].out
    BY ZenonT(60), <1>1 DEF RequestRecord, SameRequest, SameKind
  <2> HIDE DEF q
  <2> QED
    BY <2>1, <2>2, OneMoves
<1>3. ASSUME NEW pc \in Pc, NEW s \in Request \cup {NoSession},
             req' = [req EXCEPT ![r].pc = pc, ![r].session = s]
      PROVE  /\ Alone(r) /\ SameRequest(req'[r], req[r]) /\ req'[r].pc = pc
             /\ req'[r].resume = req[r].resume /\ req'[r].session = s
             /\ req'[r].out = req[r].out
  <2> DEFINE q == [req[r] EXCEPT !.pc = pc, !.session = s]
  <2>1. req' = [req EXCEPT ![r] = q]
    BY <1>3
  <2>2. /\ SameRequest(q, req[r]) /\ q.pc = pc /\ q.resume = req[r].resume
        /\ q.session = s /\ q.out = req[r].out
    BY ZenonT(60), <1>1 DEF RequestRecord, SameRequest, SameKind
  <2> HIDE DEF q
  <2> QED
    BY <2>1, <2>2, OneMoves
<1>4. ASSUME NEW out, Return(r, out)
      PROVE  /\ Alone(r) /\ SameRequest(req'[r], req[r]) /\ req'[r].pc = "persist"
             /\ req'[r].resume = req[r].resume /\ req'[r].session = req[r].session
             /\ req'[r].out = out
  <2> DEFINE q == [req[r] EXCEPT !.pc = "persist", !.out = out]
  <2>1. req' = [req EXCEPT ![r] = q]
    BY <1>4 DEF Return
  <2>2. /\ SameRequest(q, req[r]) /\ q.pc = "persist" /\ q.resume = req[r].resume
        /\ q.session = req[r].session /\ q.out = out
    BY ZenonT(60), <1>1 DEF RequestRecord, SameRequest, SameKind
  <2> HIDE DEF q
  <2> QED
    BY <2>1, <2>2, OneMoves
<1> QED
  BY <1>2, <1>3, <1>4

\* A runner that closes, hears or holds.
LEMMA SessionSteps ==
  ASSUME ConversationInv, NEW r \in Request
  PROVE  /\ \A e : CloseSession(e) =>
               client' \in {client, NoSession} /\ held'.messages \subseteq held.messages
         /\ \A m : \A s \in Request : Hear(s, m) =>
               \A x \in Request : context'[x] \subseteq context[x] \cup {m}
         /\ HoldTurn(r) => held'.messages = held.messages \cup Own(r)
         /\ context \in [Request -> SUBSET Message]
<1>1. context \in [Request -> SUBSET Message]
  BY SessionEffects
<1>2. \A e : CloseSession(e) =>
          client' \in {client, NoSession} /\ held'.messages \subseteq held.messages
  BY DEF CloseSession, NotHeld
<1>3. \A m : \A s \in Request : Hear(s, m) =>
          \A x \in Request : context'[x] \subseteq context[x] \cup {m}
  BY <1>1 DEF Hear
<1>4. HoldTurn(r) => held'.messages = held.messages \cup Own(r)
  BY DEF HoldTurn, Held, Own
<1> QED
  BY <1>1, <1>2, <1>3, <1>4

LEMMA TurnEffects ==
  ASSUME ConversationInv, NEW r \in Request,
         \/ LoadResumeSessionID(r) \/ WorkspaceFails(r)
         \/ RunRefused(r) \/ Run(r)
         \/ ClientFor(r) \/ Connect(r) \/ ConnectFails(r)
         \/ Query(r) \/ QueryStale(r) \/ QueryFails(r)
         \/ Reply(r) \/ TurnFails(r) \/ TurnEndsSilently(r)
         \/ PersistSessionID(r)
  PROVE  TurnEffect(r)
<1>1. req[r] \in RequestRecord /\ (Turning(req[r].pc) => req[r].executor \in Executor)
  BY RequestFacts DEF Turning, Fits
<1>2. ASSUME UNCHANGED <<context, sessionIDs>>, Named(client', r),
             held'.messages \subseteq held.messages
      PROVE  /\ held'.messages \subseteq Fresh(r)
             /\ \A s \in Request : context'[s] \subseteq context[s] \cup Own(r)
             /\ MayName(client', r) /\ \A e \in Executor : MayName(sessionIDs'[e], r)
  BY <1>2 DEF Fresh, MayName, Named
<1>3. Named(req[r].resume, r) /\ Named(req[r].session, r) /\ Named(req[r].out, r)
      /\ Named(NoSession, r) /\ Named(client, r)
  BY DEF Named
<1>4. CASE LoadResumeSessionID(r)
  <2> DEFINE s == IF req[r].kind = "regenerate" THEN NoSession ELSE sessionIDs[req[r].executor]
             q == [req[r] EXCEPT !.pc = "run", !.resume = s]
  <2>1. /\ req[r].pc = "resume" /\ req' = [req EXCEPT ![r] = q]
        /\ UNCHANGED <<sessionVars, messages, sessionIDs, calm, discarded>>
    BY <1>4 DEF LoadResumeSessionID, auxVars
  <2>2. Named(s, r) /\ (req[r].kind = "regenerate" => s = NoSession)
    BY <1>1, <2>1 DEF Named, Turning
  <2> HIDE DEF s
  <2>3. /\ SameRequest(q, req[r]) /\ q.pc = "run" /\ q.resume = s
        /\ q.session = req[r].session /\ q.out = req[r].out
    BY ZenonT(60), <1>1 DEF RequestRecord, SameRequest, SameKind
  <2> HIDE DEF q
  <2>4. req'[r] = q /\ Alone(r)
    BY <2>1, OneMoves
  <2> QED
    BY <1>2, <1>3, <2>1, <2>2, <2>3, <2>4 DEF TurnEffect, Turning, MayName, sessionVars
<1>5. CASE WorkspaceFails(r) \/ RunRefused(r)
  <2>1. /\ req[r].pc \in {"resume", "run"}
        /\ Goto(r, "save") \/ Goto(r, "persist")
        /\ UNCHANGED <<sessionVars, messages, sessionIDs, calm, discarded>>
    BY <1>5 DEF WorkspaceFails, RunRefused, auxVars
  <2>2. /\ Alone(r) /\ SameRequest(req'[r], req[r]) /\ req'[r].pc \in {"save", "persist"}
        /\ req'[r].resume = req[r].resume /\ req'[r].session = req[r].session
        /\ req'[r].out = req[r].out
    BY <2>1, TurnFields DEF Pc
  <2> QED
    BY <1>2, <1>3, <2>1, <2>2 DEF TurnEffect, Turning, MayName, sessionVars
<1>6. CASE Run(r)
  <2>1. req[r].pc = "run" /\ UNCHANGED <<client, messages, sessionIDs, calm, discarded>>
    BY <1>6 DEF Run, auxVars
  <2>2. CASE (Goto(r, "client") \/ Goto(r, "connect")) /\ UNCHANGED <<held, context>>
    <3>1. /\ Alone(r) /\ SameRequest(req'[r], req[r]) /\ req'[r].pc \in {"client", "connect"}
          /\ req'[r].resume = req[r].resume /\ req'[r].session = req[r].session
          /\ req'[r].out = req[r].out
      BY ZenonT(60), <2>2, TurnFields DEF Pc
    <3> QED
      BY <1>2, <1>3, <2>1, <2>2, <3>1 DEF TurnEffect, Turning, MayName
  <2>3. CASE /\ SendHeld(r, Messages(req[r].kept))
             /\ req' = [req EXCEPT ![r].pc = "receive", ![r].session = r]
    <3>1. /\ Alone(r) /\ SameRequest(req'[r], req[r]) /\ req'[r].pc = "receive"
          /\ req'[r].resume = req[r].resume /\ req'[r].session = r
          /\ req'[r].out = req[r].out
      BY <2>3, TurnFields DEF Pc
    <3>2. held'.messages \subseteq held.messages \cup Messages(req[r].kept)
      BY <2>3 DEF SendHeld, Rehydrate, Held
    <3>3. context' = [context EXCEPT ![r] = held'.messages \cup {User(r)}]
      BY <2>3 DEF SendHeld
    <3>4. held'.messages \subseteq Fresh(r) /\ context'[r] \subseteq Fresh(r)
      BY <3>2, <3>3, SessionSteps DEF Fresh, Told, Own
    <3>5. \A s \in Request : s # r => context'[s] = context[s]
      BY <3>3, SessionSteps
    <3>6. MayName(r, r) /\ MayName(client', r) /\ \A e \in Executor : MayName(sessionIDs'[e], r)
      BY <2>1, <3>4 DEF MayName, Named
    <3> QED
      BY <1>3, <2>1, <3>1, <3>4, <3>5, <3>6 DEF TurnEffect, Turning, MayName
  <2> QED
    BY <1>6, <2>2, <2>3 DEF Run
<1>7. CASE ClientFor(r)
  <2>1. /\ req[r].pc = "client"
        /\ UNCHANGED <<context, messages, sessionIDs, calm, discarded>>
    BY <1>7 DEF ClientFor, auxVars
  <2>2. client \in Request \cup {NoSession}
    BY SessionEffects
  <2>3. CASE /\ req' = [req EXCEPT ![r].pc = "query", ![r].session = client]
             /\ UNCHANGED <<client, held>>
    <3>1. /\ Alone(r) /\ SameRequest(req'[r], req[r]) /\ req'[r].pc = "query"
          /\ req'[r].resume = req[r].resume /\ req'[r].session = client
          /\ req'[r].out = req[r].out
      BY <2>2, <2>3, TurnFields DEF Pc
    <3> QED
      BY <1>2, <1>3, <2>1, <2>3, <3>1 DEF TurnEffect, Turning, MayName
  <2>4. CASE CloseSession("claude-code") /\ Goto(r, "connect")
    <3>1. /\ Alone(r) /\ SameRequest(req'[r], req[r]) /\ req'[r].pc = "connect"
          /\ req'[r].resume = req[r].resume /\ req'[r].session = req[r].session
          /\ req'[r].out = req[r].out
      BY <2>4, TurnFields DEF Pc
    <3>2. Named(client', r) /\ held'.messages \subseteq held.messages
      BY <2>4, SessionSteps DEF Named
    <3> QED
      BY <1>2, <1>3, <2>1, <3>1, <3>2 DEF TurnEffect, Turning, MayName
  <2> QED
    BY <1>7, <2>3, <2>4 DEF ClientFor
<1>8. CASE Connect(r)
  <2>1. /\ req[r].pc = "connect" /\ CacheClient(req[r].executor, req'[r].session)
        /\ UNCHANGED <<held, messages, sessionIDs, calm, discarded>>
    BY <1>8 DEF Connect, auxVars
  <2>2. CASE /\ Resume(req[r].resume)
             /\ req' = [req EXCEPT ![r].pc = "query", ![r].session = req[r].resume]
    <3>1. /\ Alone(r) /\ SameRequest(req'[r], req[r]) /\ req'[r].pc = "query"
          /\ req'[r].resume = req[r].resume /\ req'[r].session = req[r].resume
          /\ req'[r].out = req[r].out
      BY <1>1, <2>2, TurnFields DEF Pc, RequestRecord
    <3>2. context' = context /\ Named(client', r)
      BY <2>1, <2>2, <3>1 DEF Resume, CacheClient, Named
    <3> QED
      BY <1>2, <1>3, <2>1, <3>1, <3>2 DEF TurnEffect, Turning, MayName
  <2>3. CASE /\ StartSession(r, Messages(req[r].kept))
             /\ req' = [req EXCEPT ![r].pc = "query", ![r].session = r]
    <3>1. /\ Alone(r) /\ SameRequest(req'[r], req[r]) /\ req'[r].pc = "query"
          /\ req'[r].resume = req[r].resume /\ req'[r].session = r
          /\ req'[r].out = req[r].out
      BY <2>3, TurnFields DEF Pc
    <3>2. /\ context'[r] = Messages(req[r].kept)
          /\ \A s \in Request : s # r => context'[s] = context[s]
      BY <2>3, SessionSteps DEF StartSession
    <3>3. MayName(r, r) /\ held'.messages \subseteq Fresh(r) /\ context'[r] \subseteq Fresh(r)
      BY <2>1, <3>2 DEF MayName, Fresh, Told
    <3>4. MayName(client', r) /\ \A e \in Executor : MayName(sessionIDs'[e], r)
      BY <2>1, <3>1, <3>3 DEF CacheClient, MayName, Named
    <3> QED
      BY <1>3, <2>1, <3>1, <3>2, <3>3, <3>4 DEF TurnEffect, Turning, MayName
  <2> QED
    BY <1>8, <2>2, <2>3 DEF Connect
<1>9. CASE ConnectFails(r) \/ QueryFails(r) \/ TurnFails(r) \/ TurnEndsSilently(r)
  <2>1. /\ req[r].pc \in {"connect", "query", "receive"}
        /\ Return(r, NoSession) \/ Return(r, req[r].session)
        /\ UNCHANGED <<context, messages, sessionIDs, calm, discarded>>
        /\ (UNCHANGED <<client, held>>) \/ CloseSession("claude-code")
    BY <1>9 DEF ConnectFails, QueryFails, TurnFails, TurnEndsSilently, auxVars
  <2>2. /\ Alone(r) /\ SameRequest(req'[r], req[r]) /\ req'[r].pc = "persist"
        /\ req'[r].resume = req[r].resume /\ req'[r].session = req[r].session
        /\ req'[r].out \in {NoSession, req[r].session}
    BY <2>1, TurnFields
  <2>3. Named(client', r) /\ held'.messages \subseteq held.messages
    BY <2>1, SessionSteps DEF Named
  <2> QED
    BY <1>2, <1>3, <2>1, <2>2, <2>3 DEF TurnEffect, Turning, MayName
<1>10. CASE Query(r)
  <2>1. /\ req[r].pc = "query" /\ Hear(req[r].session, User(r)) /\ Goto(r, "receive")
        /\ UNCHANGED <<client, held, messages, sessionIDs, calm, discarded>>
    BY <1>10 DEF Query
  <2>2. /\ Alone(r) /\ SameRequest(req'[r], req[r]) /\ req'[r].pc = "receive"
        /\ req'[r].resume = req[r].resume /\ req'[r].session = req[r].session
        /\ req'[r].out = req[r].out
    BY <2>1, TurnFields DEF Pc
  <2>3. req[r].session \in Request
    BY ZenonT(60), <1>1, <2>1 DEF ConversationInv, SessionsOwned, OnSession, RequestRecord
  <2>4. \A s \in Request : context'[s] \subseteq context[s] \cup Own(r)
    BY <2>1, <2>3, SessionSteps DEF Own
  <2>5. /\ held'.messages \subseteq Fresh(r)
        /\ MayName(client', r) /\ \A e \in Executor : MayName(sessionIDs'[e], r)
    BY <2>1 DEF Fresh, MayName, Named
  <2> QED
    BY <1>3, <2>1, <2>2, <2>4, <2>5 DEF TurnEffect, Turning, MayName
<1>11. CASE QueryStale(r)
  <2> DEFINE q == [req[r] EXCEPT !.pc = "client", !.retried = TRUE]
  <2>1. /\ req[r].pc = "query" /\ CloseSession("claude-code")
        /\ req' = [req EXCEPT ![r] = q]
        /\ UNCHANGED <<context, messages, sessionIDs, calm, discarded>>
    BY <1>11 DEF QueryStale, auxVars
  <2>2. /\ SameRequest(q, req[r]) /\ q.pc = "client" /\ q.resume = req[r].resume
        /\ q.session = req[r].session /\ q.out = req[r].out
    BY ZenonT(60), <1>1 DEF RequestRecord, SameRequest, SameKind
  <2> HIDE DEF q
  <2>3. req'[r] = q /\ Alone(r)
    BY <2>1, OneMoves
  <2>4. Named(client', r) /\ held'.messages \subseteq held.messages
    BY <2>1, SessionSteps DEF Named
  <2> QED
    BY <1>2, <1>3, <2>1, <2>2, <2>3, <2>4 DEF TurnEffect, Turning, MayName
<1>12. CASE Reply(r)
  <2>1. /\ req[r].pc = "receive" /\ Hear(req[r].session, Assistant(r))
        /\ \/ Return(r, NoSession) /\ HoldTurn(r)
           \/ Return(r, req[r].session) /\ held' = held
        /\ UNCHANGED <<client, messages, sessionIDs, calm, discarded>>
    BY <1>12 DEF Reply
  <2>2. /\ Alone(r) /\ SameRequest(req'[r], req[r]) /\ req'[r].pc = "persist"
        /\ req'[r].resume = req[r].resume /\ req'[r].session = req[r].session
        /\ req'[r].out \in {NoSession, req[r].session}
    BY <2>1, TurnFields
  <2>3. req[r].session \in Request
    BY ZenonT(60), <1>1, <2>1 DEF ConversationInv, SessionsOwned, OnSession, RequestRecord
  <2>4. \A s \in Request : context'[s] \subseteq context[s] \cup Own(r)
    BY <2>1, <2>3, SessionSteps DEF Own
  <2>5. /\ held'.messages \subseteq Fresh(r)
        /\ MayName(client', r) /\ \A e \in Executor : MayName(sessionIDs'[e], r)
    BY <2>1, SessionSteps DEF Fresh, Told, MayName, Named
  <2> QED
    BY <1>3, <2>1, <2>2, <2>4, <2>5 DEF TurnEffect, Turning, MayName
<1>13. CASE PersistSessionID(r)
  <2>1. /\ req[r].pc = "persist" /\ Goto(r, "save")
        /\ sessionIDs' = [sessionIDs EXCEPT ![req[r].executor] = req[r].out]
        /\ UNCHANGED <<sessionVars, messages, calm, discarded>>
    BY <1>13 DEF PersistSessionID, auxVars
  <2>2. /\ Alone(r) /\ SameRequest(req'[r], req[r]) /\ req'[r].pc = "save"
        /\ req'[r].resume = req[r].resume /\ req'[r].session = req[r].session
        /\ req'[r].out = req[r].out
    BY <2>1, TurnFields DEF Pc
  <2>3. \A e \in Executor : sessionIDs'[e] \in {sessionIDs[e], req[r].out}
    BY <2>1 DEF ConversationInv, ConversationTypeOK
  <2>4. /\ \A e \in Executor : MayName(sessionIDs'[e], r)
        /\ MayName(client', r) /\ held'.messages \subseteq Fresh(r)
    BY <2>1, <2>3 DEF MayName, Named, sessionVars, Fresh
  <2>5. \A s \in Request : context'[s] = context[s]
    BY <2>1 DEF sessionVars
  <2> QED
    BY <1>3, <2>1, <2>2, <2>4, <2>5 DEF TurnEffect, Turning, MayName
<1> QED
  BY <1>4, <1>5, <1>6, <1>7, <1>8, <1>9, <1>10, <1>11, <1>12, <1>13

\* The messages of the records are of requests, and what is settled stays so.
LEMMA StaysSettled ==
  ASSUME ConversationInv, NEW r \in Request, r \in Open, Alone(r),
         NEW ms \in SUBSET Message, Settled(ms)
  PROVE  Settled(ms)' /\ Own(r) \cap ms = {}
<1>1. ASSUME NEW m \in ms PROVE m.request \in Request /\ m.request # r
  BY DEF Message, Settled, Open
<1> QED
  BY <1>1 DEF Settled, Alone, Own, User, Assistant

LEMMA ConversationSets ==
  ASSUME ConversationInv
  PROVE  /\ discarded \in SUBSET Message /\ Messages(messages) \in SUBSET Message
         /\ \A r \in Request : /\ Messages(req[r].kept) \in SUBSET Message
                               /\ req[r].removed \in SUBSET Message
                               /\ req[r].todo \in SUBSET Executor
<1>1. messages \in Seq(Message) /\ \A r \in Request : req[r].kept \in Seq(Message)
  BY ZenonT(60) DEF ConversationInv, ConversationTypeOK, RequestRecord
<1>2. \A s \in Seq(Message) : Messages(s) \in SUBSET Message
  BY DEF Messages
<1>3. discarded \in SUBSET Message
  BY DEF ConversationInv, ConversationTypeOK
<1>4. \A r \in Request : req[r].removed \in SUBSET Message /\ req[r].todo \in SUBSET Executor
  BY ZenonT(60) DEF ConversationInv, ConversationTypeOK, RequestRecord
<1> QED
  BY <1>1, <1>2, <1>3, <1>4

LEMMA TurnStaysClean ==
  ASSUME ConversationInv, DiscardInv, NEW r \in Request, TurnEffect(r)
  PROVE  DiscardInv'
<1>1. /\ r \in Open /\ Alone(r) /\ Open' = Open
      /\ discarded' = discarded /\ messages' = messages
      /\ SameRequest(req'[r], req[r])
  BY DEF TurnEffect, Turning, Open, Alone
<1>2. Settled(discarded) /\ Settled(discarded)' /\ Own(r) \cap discarded = {}
  <2>1. Settled(discarded)
    BY DEF DiscardInv, RecordsClean
  <2>2. \A ms \in SUBSET Message : Settled(ms) => Settled(ms)' /\ Own(r) \cap ms = {}
    BY <1>1, StaysSettled
  <2> QED
    BY <1>1, <2>1, <2>2, ConversationSets DEF Settled
<1>3. RequestClean(r)
  BY <1>1 DEF DiscardInv
<1>4. Fresh(r) \cap discarded = {}
  BY <1>2, <1>3 DEF DiscardInv, RecordsClean, RequestClean, Fresh, Told, Clean
<1>5. \A s \in Request : context[s] \cap discarded = {} => context'[s] \cap discarded = {}
  BY <1>2, <1>4 DEF TurnEffect
<1>6. ASSUME NEW x, MayName(x, r)
      PROVE  x # NoSession => context'[x] \cap discarded = {}
  <2>1. CASE Named(x, r)
    <3>1. x \in Request \cup {NoSession}
      BY ZenonT(60), <2>1 DEF Named, ConversationInv, ConversationTypeOK,
                     SessionsTypeOK, RequestRecord
    <3>2. x # NoSession => context[x] \cap discarded = {}
      BY <1>3, <2>1 DEF Named, DiscardInv, RecordsClean, RequestClean, CleanSession, Clean
    <3> QED
      BY <1>5, <3>1, <3>2
  <2>2. CASE x = r /\ context'[r] \subseteq Fresh(r)
    BY <1>4, <2>2
  <2> QED
    BY <1>6, <2>1, <2>2 DEF MayName
<1>7. \A x : MayName(x, r) => CleanSession(x)'
  BY <1>1, <1>6 DEF CleanSession, Clean
<1>8. Settled(Messages(messages))' /\ (Messages(messages) \cap discarded)' = {}
  <2>1. Settled(Messages(messages)) /\ Clean(Messages(messages))
    BY DEF DiscardInv, RecordsClean
  <2>2. \A ms \in SUBSET Message : Settled(ms) => Settled(ms)'
    BY <1>1, StaysSettled
  <2>3. Messages(messages') = Messages(messages)
    BY <1>1
  <2> QED
    BY <1>1, <2>1, <2>2, <2>3, ConversationSets DEF Settled, Clean
<1>9. RecordsClean'
  BY <1>1, <1>2, <1>4, <1>7, <1>8 DEF RecordsClean, TurnEffect, Clean, CleanSession, Settled
<1>10. ASSUME NEW q \in Open' PROVE RequestClean(q)'
  <2>1. q \in Request /\ q \in Open
    BY <1>1 DEF Open
  <2>2. RequestClean(q)
    BY <2>1 DEF DiscardInv
  <2>3. /\ req'[q].gone = req[q].gone /\ req'[q].kept = req[q].kept
        /\ MayName(req'[q].resume, r) \/ req'[q].resume = req[q].resume
        /\ MayName(req'[q].session, r) \/ req'[q].session = req[q].session
        /\ MayName(req'[q].out, r) \/ req'[q].out = req[q].out
    BY <1>1, <2>1 DEF Alone, SameRequest, SameKind, TurnEffect
  <2>4. \A s \in Request \cup {NoSession} : CleanSession(s) => CleanSession(s)'
    BY <1>1, <1>5 DEF CleanSession, Clean
  <2>5. /\ req[q].resume \in Request \cup {NoSession}
        /\ req[q].session \in Request \cup {NoSession}
        /\ req[q].out \in Request \cup {NoSession}
    BY ZenonT(60), <2>1 DEF ConversationInv, ConversationTypeOK, RequestRecord
  <2>6. CleanSession(req[q].resume)' /\ CleanSession(req[q].session)' /\ CleanSession(req[q].out)'
    BY <1>7, <2>2, <2>3, <2>4, <2>5 DEF RequestClean
  <2>7. \A ms \in SUBSET Message : Settled(ms) => Settled(ms)'
    BY <1>1, StaysSettled
  <2>8. Settled(Messages(req[q].kept))' /\ Clean(Messages(req[q].kept))'
    BY <1>1, <2>1, <2>2, <2>3, <2>7, ConversationSets DEF RequestClean, Clean, Settled
  <2> QED
    BY <1>1, <2>2, <2>3, <2>6, <2>8 DEF RequestClean, CleanSession
<1>11. ASSUME NEW q \in Open', req'[q].alone PROVE EditAlone(q)'
  <2>1. q \in Request /\ q \in Open /\ req[q].alone
    BY <1>1, <1>11 DEF Open, Alone, SameRequest, SameKind
  <2>2. EditAlone(q)
    BY <2>1 DEF DiscardInv
  <2>3. q = r
    BY <1>1, <2>2 DEF EditAlone
  <2>4. Turning(req[r].pc) /\ Turning(req'[r].pc)
    BY DEF TurnEffect
  <2>5. ASSUME req[r].kind = "regenerate"
        PROVE  /\ req'[r].resume = NoSession
               /\ Within(client, Told(r))' /\ held'.messages \subseteq Told(r)'
               /\ \A e \in Executor : Within(sessionIDs[e], Told(r))'
               /\ Within(req[r].session, Told(r))' /\ Within(req[r].out, Told(r))'
    <3>1. Told(r)' = Told(r)
      BY <1>1 DEF Told, SameRequest, SameKind
    <3>2. Fresh(r) = Told(r)
      BY <2>2, <2>3, <2>4, <2>5 DEF EditAlone, Fresh
    <3>3. ASSUME NEW x, MayName(x, r)
          PROVE  x # NoSession => context'[x] \subseteq Told(r)
      <4>1. CASE Named(x, r)
        <5>1. x \in Request \cup {NoSession}
          BY ZenonT(60), <4>1 DEF Named, ConversationInv, ConversationTypeOK,
                     SessionsTypeOK, RequestRecord
        <5>2. x # NoSession => context[x] \subseteq Told(r)
          BY <2>2, <2>3, <2>4, <2>5, <4>1 DEF Named, EditAlone, Within
        <5> QED
          BY <3>2, <5>1, <5>2 DEF TurnEffect, Told
      <4>2. CASE x = r /\ context'[r] \subseteq Fresh(r)
        BY <3>2, <4>2
      <4> QED
        BY <3>3, <4>1, <4>2 DEF MayName
    <3>4. req'[r].resume = NoSession
      BY <2>2, <2>3, <2>5 DEF EditAlone, TurnEffect
    <3> QED
      BY <3>1, <3>2, <3>3, <3>4 DEF TurnEffect, Within
  <2>6. req'[r].kind = req[r].kind
    BY <1>1 DEF SameRequest, SameKind
  <2>7. req'[r].pc \notin {"read", "replace", "close", "clear"}
    BY <2>4 DEF Turning
  <2>8. \A p \in Open' : p = q
    BY <1>1, <2>2 DEF EditAlone
  <2> QED
    BY <2>3, <2>4, <2>5, <2>6, <2>7, <2>8 DEF EditAlone
<1> QED
  BY <1>9, <1>10, <1>11 DEF DiscardInv

-----------------------------------------------------------------------------
(* The other steps of a request.                                           *)

\* A request goes on or returns, with nothing more than the messages it read
\* and, when it returns, its exchange; and no session hears anything.
LEMMA MovesClean ==
  ASSUME ConversationInv, DiscardInv, NEW r \in Request, r \in Open, Alone(r),
         req'[r].pc # "new", UNCHANGED <<context, discarded>>,
         messages' \in Seq(Message),
         \/ Messages(messages') \subseteq Messages(messages) \cup Messages(req[r].kept)
         \/ /\ req'[r].pc = "done"
            /\ Messages(messages') \subseteq
                  Messages(messages) \cup Messages(req[r].kept) \cup Own(r),
         client' \in {client, NoSession}, held'.messages \subseteq held.messages,
         \A e \in Executor : sessionIDs'[e] \in {sessionIDs[e], NoSession},
         r \in Open' => RequestClean(r)' /\ (req'[r].alone => EditAlone(r)')
  PROVE  DiscardInv'
<1>1. \A ms \in SUBSET Message : Settled(ms) => Settled(ms)' /\ Own(r) \cap ms = {}
  BY StaysSettled
<1>2. \A s : CleanSession(s) => CleanSession(s)'
  BY DEF CleanSession, Clean
<1>3. RecordsClean /\ RequestClean(r)
  BY DEF DiscardInv
<1>4. Settled(discarded)' /\ Own(r) \cap discarded = {}
  BY <1>1, <1>3, ConversationSets DEF RecordsClean, Settled
<1>5. /\ Settled(Messages(messages) \cup Messages(req[r].kept))
      /\ Clean(Messages(messages) \cup Messages(req[r].kept))
  BY <1>3 DEF RecordsClean, RequestClean, Settled, Clean
<1>6. \A m \in Messages(messages) \cup Messages(req[r].kept) : req'[m.request].pc = "done"
  <2> DEFINE ms == Messages(messages) \cup Messages(req[r].kept)
  <2>1. ms \in SUBSET Message
    BY ConversationSets
  <2> QED
    BY <1>1, <1>5, <2>1 DEF Settled
<1>7. \A m \in Own(r) : req'[r].pc = "done" => req'[m.request].pc = "done"
  BY DEF Own, User, Assistant
<1>8. RecordsClean'
  <2>1. Settled(Messages(messages))' /\ Clean(Messages(messages))'
    BY <1>4, <1>5, <1>6, <1>7 DEF Settled, Clean
  <2>2. Clean(held.messages)' /\ CleanSession(client)'
        /\ \A e \in Executor : CleanSession(sessionIDs[e])'
    BY <1>3 DEF RecordsClean, Clean, CleanSession
  <2> QED
    BY <1>4, <2>1, <2>2 DEF RecordsClean
<1>9. ASSUME NEW q \in Open', q # r
      PROVE  q \in Open /\ req'[q] = req[q] /\ q \in Request
  BY <1>9 DEF Open, Alone
<1>10. ASSUME NEW q \in Open' PROVE RequestClean(q)'
  <2>1. CASE q = r
    BY <1>10, <2>1
  <2>2. CASE q # r
    <3>1. RequestClean(q) /\ req'[q] = req[q] /\ q \in Request
      BY <1>9, <1>10, <2>2 DEF DiscardInv
    <3>2. \A m \in Messages(req[q].kept) : req'[m.request].pc = "done"
      BY <1>1, <3>1, ConversationSets DEF RequestClean, Settled
    <3> QED
      BY <3>1, <3>2 DEF RequestClean, Settled, Clean, CleanSession
  <2> QED
    BY <2>1, <2>2
<1>11. ASSUME NEW q \in Open', req'[q].alone PROVE EditAlone(q)'
  <2>1. CASE q = r
    BY <1>11, <2>1
  <2>2. CASE q # r
    BY <1>9, <1>11, <2>2 DEF DiscardInv, EditAlone
  <2> QED
    BY <2>1, <2>2
<1> QED
  BY <1>8, <1>10, <1>11 DEF DiscardInv

\* An edit that was alone discards what it removed: the messages that stand,
\* what is held and the sessions that records and the client name are clear
\* of it, and no other request is in progress.
LEMMA DiscardsClean ==
  ASSUME ConversationInv, DiscardInv, NEW r \in Request, r \in Open, Alone(r),
         \A q \in Open : q = r, req'[r].pc = "done", UNCHANGED context,
         NEW removed \in SUBSET Message, Settled(removed),
         discarded' = discarded \cup removed, removed \cap Messages(messages') = {},
         Messages(messages') \subseteq
            Messages(messages) \cup Messages(req[r].kept) \cup Own(r),
         client' = client, held' = held, sessionIDs' \in [Executor -> Request \cup {NoSession}],
         held.messages \cap removed = {},
         client # NoSession => context[client] \cap removed = {},
         \A e \in Executor :
            /\ sessionIDs'[e] \in {sessionIDs[e], NoSession}
            /\ sessionIDs'[e] # NoSession => context[sessionIDs'[e]] \cap removed = {}
  PROVE  DiscardInv'
<1>1. \A ms \in SUBSET Message : Settled(ms) => Settled(ms)' /\ Own(r) \cap ms = {}
  BY StaysSettled
<1>2. RecordsClean /\ RequestClean(r)
  BY DEF DiscardInv
<1>3. \A m \in Messages(messages) \cup Messages(req[r].kept) \cup discarded \cup removed :
         req'[m.request].pc = "done"
  <2> DEFINE ms == Messages(messages) \cup Messages(req[r].kept) \cup discarded \cup removed
  <2>1. ms \in SUBSET Message
    BY ConversationSets
  <2>2. Settled(ms)
    BY <1>2 DEF RecordsClean, RequestClean, Settled
  <2> QED
    BY <1>1, <2>1, <2>2 DEF Settled
<1>4. \A m \in Own(r) : req'[m.request].pc = "done"
  BY DEF Own, User, Assistant
<1>5. Own(r) \cap discarded = {}
  BY <1>1, <1>2, ConversationSets DEF RecordsClean
<1>6. Settled(discarded)' /\ Settled(Messages(messages))'
  BY <1>3, <1>4 DEF Settled
<1>7. Clean(Messages(messages))'
  BY <1>2, <1>5 DEF RecordsClean, RequestClean, Clean
<1>8. /\ Clean(held.messages)' /\ CleanSession(client)'
      /\ \A e \in Executor : CleanSession(sessionIDs[e])'
  BY <1>2 DEF RecordsClean, Clean, CleanSession
<1>9. Open' = {}
  BY DEF Open, Alone
<1> QED
  BY <1>6, <1>7, <1>8, <1>9 DEF DiscardInv, RecordsClean

LEMMA PartsKept ==
  ASSUME NEW s \in Seq(Message), NEW i \in DOMAIN s
  PROVE  /\ Messages(RemoveAt(s, i)) \subseteq Messages(s)
         /\ Messages(SubSeq(s, 1, i - 1)) \subseteq Messages(s)
<1>1. i \in 1..Len(s) /\ \A j \in 1..Len(s) : s[j] \in Messages(s)
  BY DEF Messages
<1> DEFINE front == SubSeq(s, 1, i - 1)
           back == SubSeq(s, i + 1, Len(s))
<1>2. /\ front \in Seq(Message) /\ Len(front) = i - 1
      /\ \A j \in 1..(i - 1) : front[j] = s[j]
  BY <1>1
<1>3. /\ back \in Seq(Message) /\ Len(back) = Len(s) - i
      /\ \A j \in 1..(Len(s) - i) : back[j] = s[i + j]
  BY <1>1
<1>4. Messages(front) \subseteq Messages(s)
  BY <1>1, <1>2 DEF Messages
<1>5. Messages(back) \subseteq Messages(s)
  <2> HIDE DEF back
  <2>1. \A j \in 1..Len(back) : i + j \in 1..Len(s)
    BY <1>1, <1>3
  <2> QED
    BY <1>1, <1>3, <2>1 DEF Messages
<1>6. Messages(front \o back) = Messages(front) \cup Messages(back)
  <2> HIDE DEF front, back
  <2>1. Range(front \o back) = Range(front) \cup Range(back)
    BY <1>2, <1>3, RangeConcatenation
  <2>2. \A x : Messages(x) = Range(x)
    BY DEF Messages, Range
  <2> QED
    BY <2>1, <2>2
<1> QED
  BY <1>4, <1>5, <1>6 DEF RemoveAt

LEMMA ExchangeSaved ==
  ASSUME NEW s \in Seq(Message), NEW r \in Request
  PROVE  /\ s \o <<User(r), Assistant(r)>> \in Seq(Message)
         /\ Messages(s \o <<User(r), Assistant(r)>>) = Messages(s) \cup Own(r)
         /\ Append(s, Assistant(r)) \in Seq(Message)
         /\ Messages(Append(s, Assistant(r))) = Messages(s) \cup {Assistant(r)}
<1> DEFINE own == <<User(r), Assistant(r)>>
<1>1. User(r) \in Message /\ Assistant(r) \in Message
  BY MessageTypes
<1>2. /\ own \in Seq(Message) /\ Len(own) = 2
      /\ own[1] = User(r) /\ own[2] = Assistant(r)
  BY <1>1
<1> HIDE DEF own
<1>3. /\ s \o own \in Seq(Message) /\ Len(s \o own) = Len(s) + 2
      /\ \A i \in 1..Len(s) : (s \o own)[i] = s[i]
      /\ (s \o own)[Len(s) + 1] = User(r) /\ (s \o own)[Len(s) + 2] = Assistant(r)
  <2>1. /\ s \o own \in Seq(Message) /\ Len(s \o own) = Len(s) + Len(own)
        /\ \A i \in 1..(Len(s) + Len(own)) :
              (s \o own)[i] = IF i <= Len(s) THEN s[i] ELSE own[i - Len(s)]
    BY <1>2, ConcatProperties
  <2> QED
    BY <1>2, <2>1
<1>4. Messages(s \o own) = Messages(s) \cup Own(r)
  <2>1. DOMAIN (s \o own) = 1..Len(s) \cup {Len(s) + 1, Len(s) + 2} /\ DOMAIN s = 1..Len(s)
    BY <1>3
  <2> QED
    BY <1>3, <2>1 DEF Messages, Own
<1> DEFINE t == Append(s, Assistant(r))
<1>5. /\ t \in Seq(Message) /\ Len(t) = Len(s) + 1
      /\ \A i \in 1..Len(s) : t[i] = s[i]
      /\ t[Len(s) + 1] = Assistant(r)
  BY <1>1
<1> HIDE DEF t
<1>6. Messages(t) = Messages(s) \cup {Assistant(r)}
  <2>1. DOMAIN t = 1..Len(s) \cup {Len(s) + 1} /\ DOMAIN s = 1..Len(s)
    BY <1>5
  <2> QED
    BY <1>5, <2>1 DEF Messages
<1> QED
  BY <1>3, <1>4, <1>5, <1>6 DEF own, t

LEMMA FinishedFields ==
  ASSUME ConversationInv, NEW r \in Request, req' = [req EXCEPT ![r] = Finished(r)]
  PROVE  /\ Alone(r) /\ req'[r].pc = "done" /\ r \notin Open'
         /\ req'[r].executor = req[r].executor
<1>1. req'[r] = Finished(r) /\ Alone(r)
  BY OneMoves
<1>2. Finished(r).pc = "done" /\ Finished(r).executor = req[r].executor
  BY RequestTypes DEF ConversationInv
<1> QED
  BY <1>1, <1>2 DEF Open

\* What reading the messages does to the request: it returns, or goes on.
Reads(r) ==
    /\ Alone(r) /\ SameKind(req'[r], req[r])
    /\ req'[r].resume = req[r].resume /\ req'[r].session = req[r].session
    /\ req'[r].out = req[r].out /\ req'[r].todo = req[r].todo
    /\ \/ req[r].kind = "post" /\ req'[r].pc = "resume" /\ req'[r].kept = messages
       \/ /\ req[r].kind = "start" /\ req'[r].pc = "resume"
          /\ messages = << >> /\ req'[r].kept = req[r].kept
       \/ /\ req[r].kind = "delete" /\ req'[r].pc = "replace"
          /\ Messages(req'[r].kept) \subseteq Messages(messages)
       \/ /\ req[r].kind = "regenerate" /\ req'[r].pc = "close"
          /\ Messages(req'[r].kept) \subseteq Messages(messages)

ReturnsNow(r) == Alone(r) /\ req'[r].pc = "done" /\ req'[r].executor = req[r].executor

LEMMA ReadEffects ==
  ASSUME ConversationInv, NEW r \in Request,
         ReadForPost(r) \/ ReadForStart(r) \/ ReadForDelete(r) \/ ReadForRegenerate(r)
  PROVE  /\ req[r].pc = "read"
         /\ UNCHANGED <<sessionVars, messages, sessionIDs, auxVars>>
         /\ ReturnsNow(r) \/ Reads(r)
<1>1. req[r] \in RequestRecord /\ messages \in Seq(Message)
  BY RequestFacts DEF ConversationInv, ConversationTypeOK
<1>2. /\ req[r].pc = "read"
      /\ UNCHANGED <<sessionVars, messages, sessionIDs, auxVars>>
  BY DEF ReadForPost, ReadForStart, ReadForDelete, ReadForRegenerate
<1>3. ASSUME req' = [req EXCEPT ![r] = Finished(r)]
      PROVE  ReturnsNow(r)
  BY <1>3, FinishedFields DEF ReturnsNow
<1>4. ASSUME NEW pc, NEW kept,
             req' = [req EXCEPT ![r] = [req[r] EXCEPT !.pc = pc, !.kept = kept]]
      PROVE  /\ Alone(r) /\ SameKind(req'[r], req[r])
             /\ req'[r].pc = pc /\ req'[r].kept = kept
             /\ req'[r].resume = req[r].resume /\ req'[r].session = req[r].session
             /\ req'[r].out = req[r].out /\ req'[r].todo = req[r].todo
  <2> DEFINE q == [req[r] EXCEPT !.pc = pc, !.kept = kept]
  <2>1. /\ SameKind(q, req[r]) /\ q.pc = pc /\ q.kept = kept
        /\ q.resume = req[r].resume /\ q.session = req[r].session /\ q.out = req[r].out
        /\ q.todo = req[r].todo
    BY ZenonT(60), <1>1 DEF RequestRecord, SameKind
  <2>2. req' = [req EXCEPT ![r] = q]
    BY <1>4
  <2> HIDE DEF q
  <2>3. req'[r] = q /\ Alone(r)
    BY <2>2, OneMoves
  <2> QED
    BY <2>1, <2>3
<1>5. CASE ReadForPost(r)
  <2>1. /\ req[r].kind = "post"
        /\ req' = [req EXCEPT ![r] = [req[r] EXCEPT !.pc = "resume", !.kept = messages]]
    BY <1>5 DEF ReadForPost
  <2>2. Reads(r)
    BY ZenonT(60), <1>4, <2>1 DEF Reads
  <2> QED
    BY <1>2, <2>2
<1>6. CASE ReadForStart(r) /\ messages = << >>
  <2>1. /\ req[r].kind = "start"
        /\ req' = [req EXCEPT ![r] = [req[r] EXCEPT !.pc = "resume", !.kept = req[r].kept]]
    BY ZenonT(60), <1>1, <1>6 DEF ReadForStart, RequestRecord
  <2>2. Reads(r)
    BY ZenonT(60), <1>4, <1>6, <2>1 DEF Reads
  <2> QED
    BY <1>2, <2>2
<1>7. CASE ReadForStart(r) /\ messages # << >>
  BY <1>2, <1>3, <1>7 DEF ReadForStart
<1>8. CASE ReadForDelete(r)
  <2>1. ASSUME NEW i \in DOMAIN messages,
               req' = [req EXCEPT ![r].pc = "replace", ![r].kept = RemoveAt(messages, i)]
        PROVE  Reads(r)
    <3> DEFINE kept == RemoveAt(messages, i)
    <3>1. req[r].kind = "delete" /\ Messages(kept) \subseteq Messages(messages)
      BY <1>1, <1>8, PartsKept DEF ReadForDelete
    <3>2. req' = [req EXCEPT ![r] = [req[r] EXCEPT !.pc = "replace", !.kept = kept]]
      BY <2>1
    <3> HIDE DEF kept
    <3>3. /\ Alone(r) /\ SameKind(req'[r], req[r])
          /\ req'[r].pc = "replace" /\ req'[r].kept = kept
          /\ req'[r].resume = req[r].resume /\ req'[r].session = req[r].session
          /\ req'[r].out = req[r].out /\ req'[r].todo = req[r].todo
      BY ZenonT(60), <1>4, <3>2
    <3> QED
      BY <3>1, <3>3 DEF Reads
  <2> QED
    BY <1>2, <1>3, <1>8, <2>1 DEF ReadForDelete
<1>9. CASE ReadForRegenerate(r)
  <2>1. ASSUME NEW i \in DOMAIN messages,
               req' = [req EXCEPT ![r].pc = "close", ![r].kept = SubSeq(messages, 1, i - 1)]
        PROVE  Reads(r)
    <3> DEFINE kept == SubSeq(messages, 1, i - 1)
    <3>1. req[r].kind = "regenerate" /\ Messages(kept) \subseteq Messages(messages)
      BY <1>1, <1>9, PartsKept DEF ReadForRegenerate
    <3>2. req' = [req EXCEPT ![r] = [req[r] EXCEPT !.pc = "close", !.kept = kept]]
      BY <2>1
    <3> HIDE DEF kept
    <3>3. /\ Alone(r) /\ SameKind(req'[r], req[r])
          /\ req'[r].pc = "close" /\ req'[r].kept = kept
          /\ req'[r].resume = req[r].resume /\ req'[r].session = req[r].session
          /\ req'[r].out = req[r].out /\ req'[r].todo = req[r].todo
      BY ZenonT(60), <1>4, <3>2
    <3> QED
      BY <3>1, <3>3 DEF Reads
  <2> QED
    BY <1>2, <1>3, <1>9, <2>1 DEF ReadForRegenerate
<1> QED
  BY <1>5, <1>6, <1>7, <1>8, <1>9

\* What the steps of an edit do to the request.
GoesOn(r, pc) ==
    /\ Alone(r) /\ SameRequest(req'[r], req[r]) /\ req'[r].pc = pc
    /\ req'[r].resume = req[r].resume /\ req'[r].session = req[r].session
    /\ req'[r].out = req[r].out

Clears(r, e) ==
    /\ sessionIDs' = [sessionIDs EXCEPT ![e] = NoSession]
    /\ \/ /\ req[r].todo # {e} /\ GoesOn(r, "clear") /\ req'[r].removed = req[r].removed
          /\ req'[r].todo = req[r].todo \ {e} /\ UNCHANGED discarded
       \/ /\ req[r].todo = {e} /\ req[r].kind = "delete" /\ ReturnsNow(r)
          /\ Discard(r, req[r].removed)
       \/ /\ req[r].todo = {e} /\ req[r].kind = "regenerate" /\ GoesOn(r, "resume")
          /\ UNCHANGED discarded

LEMMA EditEffects ==
  ASSUME ConversationInv, NEW r \in Request
  PROVE  /\ ReplaceMessages(r) =>
               /\ req[r].pc = "replace" /\ req[r].kind = "delete" /\ GoesOn(r, "close")
               /\ messages' = req[r].kept /\ req'[r].todo = req[r].todo
               /\ req'[r].removed = Messages(messages) \ Messages(messages')
               /\ UNCHANGED <<sessionVars, sessionIDs, auxVars>>
         /\ CloseSessions(r) =>
               /\ req[r].pc = "close" /\ client' = NoSession /\ held' = NotHeld
               /\ \/ req[r].kind = "finalize" /\ ReturnsNow(r)
                  \/ /\ req[r].kind \in EditKind /\ GoesOn(r, "clear")
                     /\ req'[r].removed = req[r].removed /\ req'[r].todo = req[r].todo
               /\ UNCHANGED <<context, messages, sessionIDs, auxVars>>
         /\ ClearSessionIDs(r) =>
               /\ req[r].pc = "clear" /\ \E e \in req[r].todo : Clears(r, e)
               /\ UNCHANGED <<sessionVars, messages, calm, delivered>>
<1>1. req[r] \in RequestRecord /\ Fits(req[r])
  BY RequestFacts
<1>2. ASSUME req' = [req EXCEPT ![r] = Finished(r)]
      PROVE  ReturnsNow(r)
  BY <1>2, FinishedFields DEF ReturnsNow
<1>3. ASSUME NEW q, req' = [req EXCEPT ![r] = q]
      PROVE  req'[r] = q /\ Alone(r)
  BY <1>3, OneMoves
<1>4. ASSUME NEW pc, req' = [req EXCEPT ![r] = [req[r] EXCEPT !.pc = pc]]
      PROVE  GoesOn(r, pc) /\ req'[r].removed = req[r].removed /\ req'[r].todo = req[r].todo
  <2> DEFINE q == [req[r] EXCEPT !.pc = pc]
  <2>1. /\ SameRequest(q, req[r]) /\ q.pc = pc /\ q.resume = req[r].resume
        /\ q.session = req[r].session /\ q.out = req[r].out
        /\ q.removed = req[r].removed /\ q.todo = req[r].todo
    BY ZenonT(60), <1>1 DEF RequestRecord, SameRequest, SameKind
  <2>2. req' = [req EXCEPT ![r] = q]
    BY <1>4
  <2> HIDE DEF q
  <2> QED
    BY <1>3, <2>1, <2>2 DEF GoesOn
<1>5. ASSUME ReplaceMessages(r)
      PROVE  /\ req[r].pc = "replace" /\ req[r].kind = "delete" /\ GoesOn(r, "close")
             /\ messages' = req[r].kept /\ req'[r].todo = req[r].todo
             /\ req'[r].removed = Messages(messages) \ Messages(messages')
             /\ UNCHANGED <<sessionVars, sessionIDs, auxVars>>
  <2> DEFINE removed == Messages(messages) \ Messages(messages')
             q == [req[r] EXCEPT !.pc = "close", !.removed = removed]
  <2>1. /\ req' = [req EXCEPT ![r] = q] /\ req[r].pc = "replace" /\ messages' = req[r].kept
        /\ UNCHANGED <<sessionVars, sessionIDs, auxVars>>
    BY <1>5 DEF ReplaceMessages
  <2> HIDE DEF removed
  <2>2. /\ SameRequest(q, req[r]) /\ q.pc = "close" /\ q.resume = req[r].resume
        /\ q.session = req[r].session /\ q.out = req[r].out /\ q.removed = removed
        /\ q.todo = req[r].todo
    BY ZenonT(60), <1>1 DEF RequestRecord, SameRequest, SameKind
  <2> HIDE DEF q
  <2>3. req'[r] = q /\ Alone(r)
    BY <1>3, <2>1
  <2> QED
    BY <1>1, <2>1, <2>2, <2>3 DEF GoesOn, Fits, removed
<1>6. ASSUME CloseSessions(r)
      PROVE  /\ req[r].pc = "close" /\ client' = NoSession /\ held' = NotHeld
             /\ \/ req[r].kind = "finalize" /\ ReturnsNow(r)
                \/ /\ req[r].kind \in EditKind /\ GoesOn(r, "clear")
                   /\ req'[r].removed = req[r].removed /\ req'[r].todo = req[r].todo
             /\ UNCHANGED <<context, messages, sessionIDs, auxVars>>
  <2>1. /\ req[r].pc = "close" /\ client' = NoSession /\ held' = NotHeld
        /\ UNCHANGED <<context, messages, sessionIDs, auxVars>>
    BY <1>6 DEF CloseSessions
  <2>2. CASE req[r].kind = "finalize"
    <3>1. req' = [req EXCEPT ![r] = Finished(r)]
      BY <1>6, <2>2 DEF CloseSessions
    <3> QED
      BY <1>2, <2>1, <2>2, <3>1
  <2>3. CASE req[r].kind # "finalize"
    <3>1. req' = [req EXCEPT ![r] = [req[r] EXCEPT !.pc = "clear"]]
      BY <1>6, <2>3 DEF CloseSessions
    <3> QED
      BY <1>1, <1>4, <2>1, <2>3, <3>1 DEF Fits
  <2> QED
    BY <2>2, <2>3
<1>7. ASSUME ClearSessionIDs(r)
      PROVE  /\ req[r].pc = "clear" /\ \E e \in req[r].todo : Clears(r, e)
             /\ UNCHANGED <<sessionVars, messages, calm, delivered>>
  <2>1. /\ req[r].pc = "clear" /\ UNCHANGED <<sessionVars, messages, calm, delivered>>
        /\ IF req'[r].pc = "done" THEN Discard(r, req[r].removed) ELSE UNCHANGED discarded
    BY <1>7 DEF ClearSessionIDs
  <2>2. PICK e \in req[r].todo :
           /\ sessionIDs' = [sessionIDs EXCEPT ![e] = NoSession]
           /\ req' = [req EXCEPT ![r] = Cleared(r, e)]
    BY <1>7 DEF ClearSessionIDs
  <2>3. CASE req[r].todo # {e}
    <3> DEFINE todo == req[r].todo \ {e}
               q == [req[r] EXCEPT !.todo = todo]
    <3>1. req' = [req EXCEPT ![r] = q]
      BY <2>2, <2>3 DEF Cleared
    <3> HIDE DEF todo
    <3>2. /\ SameRequest(q, req[r]) /\ q.pc = "clear" /\ q.resume = req[r].resume
          /\ q.session = req[r].session /\ q.out = req[r].out
          /\ q.removed = req[r].removed /\ q.todo = todo
      BY ZenonT(60), <1>1, <2>1 DEF RequestRecord, SameRequest, SameKind
    <3> HIDE DEF q
    <3>3. req'[r] = q /\ Alone(r)
      BY <1>3, <3>1
    <3>4. Clears(r, e)
      BY <2>1, <2>2, <2>3, <3>2, <3>3 DEF Clears, GoesOn, todo
    <3> QED
      BY <2>1, <3>4
  <2>4. CASE req[r].todo = {e} /\ req[r].kind = "delete"
    <3>1. req' = [req EXCEPT ![r] = Finished(r)]
      BY <2>2, <2>4 DEF Cleared
    <3>2. Clears(r, e)
      BY <1>2, <2>1, <2>2, <2>4, <3>1 DEF Clears, ReturnsNow
    <3> QED
      BY <2>1, <3>2
  <2>5. CASE req[r].todo = {e} /\ req[r].kind # "delete"
    <3>1. req' = [req EXCEPT ![r] = [req[r] EXCEPT !.pc = "resume"]]
      BY <2>2, <2>5 DEF Cleared
    <3>2. req[r].kind = "regenerate"
      BY <1>1, <2>1, <2>5 DEF Fits, EditKind
    <3>3. Clears(r, e)
      BY <1>4, <2>1, <2>2, <2>5, <3>1, <3>2 DEF Clears, GoesOn
    <3> QED
      BY <2>1, <3>3
  <2> QED
    BY <2>3, <2>4, <2>5
<1> QED
  BY <1>5, <1>6, <1>7

LEMMA ReadsClean ==
  ASSUME ConversationInv, DiscardInv, NEW r \in Request,
         ReadForPost(r) \/ ReadForStart(r) \/ ReadForDelete(r) \/ ReadForRegenerate(r)
  PROVE  DiscardInv'
<1>1. /\ req[r].pc = "read" /\ UNCHANGED <<sessionVars, messages, sessionIDs, auxVars>>
      /\ ReturnsNow(r) \/ Reads(r)
  BY ReadEffects
<1>2. /\ UNCHANGED <<client, held, context, messages, sessionIDs, discarded>>
      /\ r \in Open /\ Alone(r) /\ req'[r].pc # "new" /\ messages' \in Seq(Message)
  BY <1>1 DEF sessionVars, auxVars, Open, ReturnsNow, Reads, ConversationInv, ConversationTypeOK
<1>3. ASSUME r \in Open'
      PROVE  RequestClean(r)' /\ (req'[r].alone => EditAlone(r)')
  <2>1. Reads(r)
    BY <1>1, <1>3 DEF ReturnsNow, Open
  <2>2. RequestClean(r) /\ RecordsClean
    BY <1>2 DEF DiscardInv
  <2>3. \A ms \in SUBSET Message : Settled(ms) => Settled(ms)' /\ Own(r) \cap ms = {}
    BY <1>2, StaysSettled
  <2>4. Messages(req'[r].kept) \subseteq Messages(messages) \cup Messages(req[r].kept)
    BY <2>1 DEF Reads
  <2>5. /\ \A m \in Messages(messages) \cup Messages(req[r].kept) : req'[m.request].pc = "done"
        /\ Clean(Messages(messages)) /\ Clean(Messages(req[r].kept))
    BY <2>2, <2>3, ConversationSets DEF RequestClean, RecordsClean, Settled
  <2>6. RequestClean(r)'
    BY <1>2, <2>1, <2>2, <2>4, <2>5 DEF RequestClean, Reads, SameKind, Settled, Clean, CleanSession
  <2>7. ASSUME req'[r].alone PROVE EditAlone(r)'
    <3>1. EditAlone(r)
      BY <1>2, <2>1, <2>7 DEF DiscardInv, Reads, SameKind
    <3>2. \A q \in Open' : q = r
      BY <1>2, <3>1 DEF EditAlone, Open, Alone
    <3>3. /\ req'[r].session = NoSession /\ req'[r].out = NoSession
          /\ req'[r].kind = "regenerate" => req'[r].resume = NoSession /\ req'[r].pc = "close"
          /\ req'[r].kind = "delete" => req'[r].pc = "replace"
          /\ req'[r].pc # "clear" /\ req'[r].todo = Executor
      BY <1>1, <2>1, <3>1 DEF EditAlone, Reads, SameKind, Turning
    <3> QED
      BY <3>2, <3>3 DEF EditAlone, Turning
  <2> QED
    BY <2>6, <2>7
<1> QED
  BY <1>2, <1>3, MovesClean

LEMMA EditsClean ==
  ASSUME ConversationInv, DiscardInv, NEW r \in Request, EditStep(r)
  PROVE  DiscardInv'
<1>1. \A ms \in SUBSET Message :
         r \in Open /\ Alone(r) /\ Settled(ms) => Settled(ms)' /\ Own(r) \cap ms = {}
  BY StaysSettled
<1>2. r \in Open => /\ RequestClean(r) /\ RecordsClean
                    /\ req[r].alone => EditAlone(r)
  BY DEF DiscardInv
<1>3. ASSUME NEW pc \in Pc \ {"new", "done"}, GoesOn(r, pc), r \in Open,
             UNCHANGED <<context, discarded>>
      PROVE  /\ RequestClean(r)'
             /\ req'[r].alone =>
                   /\ req[r].alone /\ \A q \in Open' : q = r
                   /\ ~ Turning(req[r].pc) => req'[r].session = NoSession /\ req'[r].out = NoSession
                   /\ req'[r].kind = "regenerate" => req'[r].resume = NoSession
  <2>1. \A m \in Messages(req[r].kept) : req'[m.request].pc = "done"
    BY <1>1, <1>2, <1>3, ConversationSets DEF RequestClean, GoesOn, Settled
  <2>2. RequestClean(r)'
    BY <1>2, <1>3, <2>1
       DEF RequestClean, GoesOn, SameRequest, SameKind, Settled, Clean, CleanSession
  <2> QED
    BY <1>2, <1>3, <2>2 DEF EditAlone, GoesOn, SameRequest, SameKind, Open, Alone
<1>4. messages' \in Seq(Message)
  BY EditSteps DEF ConversationInv, ConversationTypeOK
<1>5. CASE ReplaceMessages(r)
  <2>1. /\ req[r].pc = "replace" /\ req[r].kind = "delete" /\ GoesOn(r, "close")
        /\ messages' = req[r].kept /\ req'[r].todo = req[r].todo
        /\ req'[r].removed = Messages(messages) \ Messages(messages')
        /\ UNCHANGED <<sessionVars, sessionIDs, auxVars>>
    BY <1>5, EditEffects
  <2>2. /\ UNCHANGED <<client, held, context, sessionIDs, discarded>>
        /\ r \in Open /\ Alone(r) /\ req'[r].pc = "close"
    BY <2>1 DEF sessionVars, auxVars, Open, GoesOn
  <2>3. ASSUME req'[r].alone PROVE EditAlone(r)'
    <3>1. Settled(Messages(messages))
      BY <1>2, <2>2 DEF RecordsClean
    <3>2. \A m \in Messages(messages) : req'[m.request].pc = "done"
      BY <1>1, <2>2, <3>1, ConversationSets DEF Settled
    <3>3. req'[r].kind = "delete" /\ req'[r].todo = Executor
      BY <1>2, <1>3, <2>1, <2>2, <2>3 DEF EditAlone, GoesOn, SameRequest, SameKind, Pc
    <3> QED
      BY <1>3, <2>1, <2>2, <2>3, <3>2, <3>3 DEF EditAlone, Turning, Settled, Pc
  <2> QED
    BY <1>3, <1>4, <2>1, <2>2, <2>3, MovesClean DEF Pc
<1>6. CASE CloseSessions(r)
  <2>1. /\ req[r].pc = "close" /\ client' = NoSession /\ held' = NotHeld
        /\ \/ req[r].kind = "finalize" /\ ReturnsNow(r)
           \/ /\ req[r].kind \in EditKind /\ GoesOn(r, "clear")
              /\ req'[r].removed = req[r].removed /\ req'[r].todo = req[r].todo
        /\ UNCHANGED <<context, messages, sessionIDs, discarded>>
    BY <1>6, EditEffects DEF auxVars
  <2>2. /\ r \in Open /\ Alone(r) /\ req'[r].pc # "new" /\ held'.messages = {}
    BY <2>1 DEF Open, GoesOn, ReturnsNow, NotHeld
  <2>3. ASSUME r \in Open' PROVE RequestClean(r)' /\ (req'[r].alone => EditAlone(r)')
    <3>1. /\ GoesOn(r, "clear") /\ req[r].kind \in EditKind
          /\ req'[r].removed = req[r].removed /\ req'[r].todo = req[r].todo
      BY <2>1, <2>3 DEF ReturnsNow, Open
    <3>2. ASSUME req'[r].alone PROVE EditAlone(r)'
      <4>1. req[r].alone /\ EditAlone(r)
        BY <1>2, <1>3, <2>1, <2>2, <3>1, <3>2 DEF Pc
      <4>2. ASSUME req[r].kind = "delete"
            PROVE  Settled(req[r].removed)' /\ req'[r].removed \cap Messages(messages') = {}
        <5>1. Settled(req[r].removed) /\ req[r].removed \cap Messages(messages) = {}
          BY <2>1, <4>1, <4>2 DEF EditAlone
        <5>2. \A m \in req[r].removed : req'[m.request].pc = "done"
          BY <1>1, <2>2, <5>1, ConversationSets DEF Settled
        <5> QED
          BY <2>1, <3>1, <5>1, <5>2 DEF Settled
      <4>3. req'[r].kind = req[r].kind /\ req'[r].pc = "clear"
        BY <3>1 DEF GoesOn, SameRequest, SameKind
      <4>4. req'[r].todo = Executor
        BY <2>1, <3>1, <4>1 DEF EditAlone
      <4> QED
        BY <1>3, <2>1, <2>2, <3>1, <3>2, <4>2, <4>3, <4>4 DEF EditAlone, Turning, Pc
    <3> QED
      BY <1>3, <2>1, <2>2, <3>1, <3>2 DEF Pc
  <2> QED
    BY <1>4, <2>1, <2>2, <2>3, MovesClean
<1>7. CASE ClearSessionIDs(r)
  <2>1. PICK e \in req[r].todo : Clears(r, e)
    BY <1>7, EditEffects
  <2>2. /\ req[r].pc = "clear"
        /\ UNCHANGED <<client, held, context, messages>>
    BY <1>7, EditEffects DEF sessionVars
  <2>3. /\ r \in Open /\ Alone(r) /\ req'[r].pc # "new"
        /\ sessionIDs' \in [Executor -> Request \cup {NoSession}]
        /\ \A x \in Executor : sessionIDs'[x] = IF x = e THEN NoSession ELSE sessionIDs[x]
    BY <2>1, <2>2 DEF Open, Clears, GoesOn, ReturnsNow, ConversationInv, ConversationTypeOK
  <2>4. CASE discarded' = discarded
    <3>1. ASSUME r \in Open' PROVE RequestClean(r)' /\ (req'[r].alone => EditAlone(r)')
      <4>1. CASE /\ req[r].todo # {e} /\ GoesOn(r, "clear") /\ req'[r].removed = req[r].removed
                 /\ req'[r].todo = req[r].todo \ {e}
        <5>1. ASSUME req'[r].alone PROVE EditAlone(r)'
          <6>1. req[r].alone /\ EditAlone(r)
            BY <1>2, <1>3, <2>2, <2>3, <2>4, <4>1, <5>1 DEF Pc
          <6>2. ASSUME req[r].kind = "delete"
                PROVE  Settled(req[r].removed)' /\ req'[r].removed \cap Messages(messages') = {}
            <7>1. Settled(req[r].removed) /\ req[r].removed \cap Messages(messages) = {}
              BY <2>2, <6>1, <6>2 DEF EditAlone
            <7>2. \A m \in req[r].removed : req'[m.request].pc = "done"
              BY <1>1, <2>3, <7>1, ConversationSets DEF Settled
            <7> QED
              BY <2>2, <4>1, <7>1, <7>2 DEF Settled
          <6>3. req'[r].kind = req[r].kind /\ req'[r].pc = "clear"
            BY <4>1 DEF GoesOn, SameRequest, SameKind
          <6>4. \A x \in Executor \ req'[r].todo : sessionIDs'[x] = NoSession
            BY <2>2, <2>3, <4>1, <6>1 DEF EditAlone
          <6>5. client' = NoSession /\ held'.messages = {}
            BY <2>2, <6>1 DEF EditAlone
          <6> QED
            BY <1>3, <2>2, <2>3, <2>4, <4>1, <5>1, <6>2, <6>3, <6>4, <6>5
               DEF EditAlone, Turning, Pc
        <5> QED
          BY <1>3, <2>2, <2>3, <2>4, <4>1, <5>1 DEF Pc
      <4>2. CASE req[r].todo = {e} /\ req[r].kind = "regenerate" /\ GoesOn(r, "resume")
        <5>1. ASSUME req'[r].alone PROVE EditAlone(r)'
          <6>1. req[r].alone /\ EditAlone(r)
            BY <1>2, <1>3, <2>2, <2>3, <2>4, <4>2, <5>1 DEF Pc
          <6>2. \A x \in Executor : sessionIDs'[x] = NoSession
            BY <2>2, <2>3, <4>2, <6>1 DEF EditAlone
          <6>3. client' = NoSession /\ held'.messages = {}
            BY <2>2, <6>1 DEF EditAlone
          <6>4. req'[r].kind = "regenerate" /\ req'[r].pc = "resume"
            BY <4>2 DEF GoesOn, SameRequest, SameKind
          <6>5. req'[r].session = NoSession /\ req'[r].out = NoSession /\ req'[r].resume = NoSession
            BY <2>2, <4>2, <6>1, <6>4 DEF EditAlone, GoesOn, Turning
          <6> QED
            BY <1>3, <2>2, <2>3, <2>4, <4>2, <5>1, <6>2, <6>3, <6>4, <6>5
               DEF EditAlone, Turning, Within, Pc
        <5> QED
          BY <1>3, <2>2, <2>3, <2>4, <4>2, <5>1 DEF Pc
      <4> QED
        BY <2>1, <3>1, <4>1, <4>2 DEF Clears, ReturnsNow, Open
    <3> QED
      BY <1>4, <2>2, <2>3, <2>4, <3>1, MovesClean
  <2>5. CASE discarded' # discarded
    <3>1. /\ req[r].todo = {e} /\ req[r].kind = "delete" /\ ReturnsNow(r)
          /\ req[r].alone /\ discarded' = discarded \cup req[r].removed
      BY <2>1, <2>5 DEF Clears, Discard
    <3>2. EditAlone(r)
      BY <1>2, <2>3, <3>1
    <3>3. /\ Settled(req[r].removed) /\ req[r].removed \cap Messages(messages') = {}
          /\ client = NoSession /\ held.messages = {} /\ \A q \in Open : q = r
          /\ \A x \in Executor : sessionIDs'[x] = NoSession
      BY <2>2, <2>3, <3>1, <3>2 DEF EditAlone
    <3>4. req[r].removed \in SUBSET Message /\ req'[r].pc = "done"
      BY <3>1, ConversationSets DEF ReturnsNow
    <3> QED
      BY <2>2, <2>3, <3>1, <3>3, <3>4, DiscardsClean
  <2> QED
    BY <2>4, <2>5
<1> QED
  BY <1>5, <1>6, <1>7 DEF EditStep

LEMMA SavesClean ==
  ASSUME ConversationInv, DiscardInv, NEW r \in Request, SaveMessages(r)
  PROVE  DiscardInv'
<1>1. /\ req[r].pc = "save" /\ req' = [req EXCEPT ![r] = Finished(r)]
      /\ UNCHANGED <<client, held, context, sessionIDs>>
      /\ Discard(r, Messages(messages) \ Messages(messages'))
  BY DEF SaveMessages, sessionVars
<1>2. Alone(r) /\ req'[r].pc = "done" /\ r \notin Open' /\ r \in Open
  BY <1>1, FinishedFields DEF Open
<1>3. /\ messages \in Seq(Message) /\ req[r].kept \in Seq(Message)
      /\ messages' \in Seq(Message) /\ req[r].kind \in TurnKind
      /\ sessionIDs \in [Executor -> Request \cup {NoSession}]
  BY ZenonT(60), <1>1, TurnEnds, RequestFacts
     DEF ConversationInv, ConversationTypeOK, RequestRecord, Fits
<1>4. \/ req[r].kind # "regenerate" /\ Messages(messages) \subseteq Messages(messages')
         /\ Messages(messages') \subseteq Messages(messages) \cup Own(r)
      \/ req[r].kind = "regenerate" /\ Messages(messages') = Told(r)
  <2>1. \A s \in Seq(Message) :
           /\ Messages(s \o <<User(r), Assistant(r)>>) = Messages(s) \cup Own(r)
           /\ Messages(Append(s, Assistant(r))) = Messages(s) \cup {Assistant(r)}
    BY ExchangeSaved
  <2>2. CASE req[r].kind = "post"
    <3>1. messages' = messages \o <<User(r), Assistant(r)>>
      BY <2>2 DEF SaveMessages
    <3> QED
      BY <1>3, <2>1, <2>2, <3>1
  <2>3. CASE req[r].kind = "start"
    <3>1. messages' = Append(messages, Assistant(r))
      BY <2>3 DEF SaveMessages
    <3> QED
      BY <1>3, <2>1, <2>3, <3>1 DEF Own
  <2>4. CASE req[r].kind = "regenerate"
    <3>1. messages' = req[r].kept \o <<User(r), Assistant(r)>>
      BY <2>4 DEF SaveMessages
    <3> QED
      BY <1>3, <2>1, <2>4, <3>1 DEF Told
  <2> QED
    BY <1>3, <2>2, <2>3, <2>4 DEF TurnKind
<1>5. CASE discarded' = discarded
  <2>1. Messages(messages') \subseteq Messages(messages) \cup Messages(req[r].kept) \cup Own(r)
    BY <1>4 DEF Told
  <2> QED
    BY <1>1, <1>2, <1>3, <1>5, <2>1, MovesClean
<1>6. CASE discarded' # discarded
  <2> DEFINE removed == Messages(messages) \ Messages(messages')
  <2>1. req[r].alone /\ discarded' = discarded \cup removed
    BY <1>1, <1>6 DEF Discard
  <2>2. req[r].kind = "regenerate" /\ Messages(messages') = Told(r)
    BY <1>4, <1>6, <2>1
  <2>3. EditAlone(r) /\ RecordsClean
    BY <1>2, <2>1 DEF DiscardInv
  <2>4. /\ \A q \in Open : q = r
        /\ Within(client, Told(r)) /\ held.messages \subseteq Told(r)
        /\ \A e \in Executor : Within(sessionIDs[e], Told(r))
    BY <1>1, <2>2, <2>3 DEF EditAlone, Turning
  <2>5. removed \in SUBSET Message /\ Settled(removed)
    BY <2>3, ConversationSets DEF RecordsClean, Settled
  <2>6. removed \cap Messages(messages') = {} /\ removed \cap Told(r) = {}
    BY <2>2
  <2>7. Messages(messages') \subseteq Messages(messages) \cup Messages(req[r].kept) \cup Own(r)
    BY <2>2 DEF Told
  <2>8. /\ held.messages \cap removed = {}
        /\ client # NoSession => context[client] \cap removed = {}
        /\ \A e \in Executor : sessionIDs[e] # NoSession => context[sessionIDs[e]] \cap removed = {}
    BY <2>4, <2>6 DEF Within
  <2> HIDE DEF removed
  <2> QED
    BY <1>1, <1>2, <1>3, <2>1, <2>4, <2>5, <2>6, <2>7, <2>8, DiscardsClean
<1> QED
  BY <1>5, <1>6

\* What a new request is, and the others then.
LEMMA BeginEffects ==
  ASSUME ConversationInv, NEW r \in Request, NEW kind, NEW e, Begin(r, kind, e)
  PROVE  /\ req[r].pc = "new"
         /\ req'[r].pc = (IF kind = "finalize" THEN "close" ELSE "read")
         /\ req'[r].kind = kind /\ req'[r].executor = e /\ req'[r].alone = (Open = {})
         /\ req'[r].todo = Executor /\ req'[r].gone = discarded
         /\ req'[r].kept = << >> /\ req'[r].resume = NoSession
         /\ req'[r].session = NoSession /\ req'[r].out = NoSession
         /\ \A q \in Request : q # r =>
               /\ req'[q].pc = req[q].pc /\ req'[q].kind = req[q].kind
               /\ req'[q].executor = req[q].executor /\ req'[q].kept = req[q].kept
               /\ req'[q].resume = req[q].resume /\ req'[q].session = req[q].session
               /\ req'[q].out = req[q].out /\ req'[q].gone = req[q].gone
               /\ q \in Open => ~ req'[q].alone
         /\ calm' = (calm /\ Open = {})
         /\ UNCHANGED <<sessionVars, messages, sessionIDs, delivered, discarded>>
<1>1. req \in [Request -> RequestRecord]
  BY RequestFacts
<1> DEFINE opened == [NewRequest EXCEPT
                         !.pc = IF kind = "finalize" THEN "close" ELSE "read",
                         !.kind = kind, !.executor = e, !.alone = (Open = {}),
                         !.todo = Executor, !.gone = discarded]
           other(q) == [req[q] EXCEPT !.alone = FALSE]
<1>2. /\ opened.pc = (IF kind = "finalize" THEN "close" ELSE "read")
      /\ opened.kind = kind /\ opened.executor = e /\ opened.alone = (Open = {})
      /\ opened.todo = Executor /\ opened.gone = discarded
      /\ opened.kept = << >> /\ opened.resume = NoSession
      /\ opened.session = NoSession /\ opened.out = NoSession
  BY DEF NewRequest
<1>3. ASSUME NEW q \in Request
      PROVE  /\ other(q).pc = req[q].pc /\ other(q).kind = req[q].kind
             /\ other(q).executor = req[q].executor /\ other(q).kept = req[q].kept
             /\ other(q).resume = req[q].resume /\ other(q).session = req[q].session
             /\ other(q).out = req[q].out /\ other(q).gone = req[q].gone
             /\ ~ other(q).alone
  BY ZenonT(60), <1>1 DEF RequestRecord
<1> HIDE DEF opened, other
<1>4. /\ req[r].pc = "new"
      /\ req' = [q \in Request |->
                   IF q = r THEN opened ELSE IF q \in Open THEN other(q) ELSE req[q]]
      /\ calm' = (calm /\ Open = {})
      /\ UNCHANGED <<sessionVars, messages, sessionIDs, delivered, discarded>>
  BY ZenonT(60) DEF Begin, opened, other
<1>5. req'[r] = opened
  BY <1>4
<1>6. \A q \in Request : q # r => req'[q] = IF q \in Open THEN other(q) ELSE req[q]
  BY <1>4
<1> QED
  BY <1>2, <1>3, <1>4, <1>5, <1>6

LEMMA BeginsClean ==
  ASSUME ConversationInv, DiscardInv, NEW r \in Request, NEW kind, NEW e, Begin(r, kind, e)
  PROVE  DiscardInv'
<1>1. /\ req[r].pc = "new" /\ r \notin Open
      /\ UNCHANGED <<client, held, context, messages, sessionIDs, discarded>>
  BY BeginEffects DEF Open, sessionVars
<1>2. ASSUME NEW ms \in SUBSET Message, Settled(ms)
      PROVE  \A m \in ms : req'[m.request].pc = "done"
  <2> TAKE m \in ms
  <2>1. m.request \in Request /\ req[m.request].pc = "done"
    BY <1>2 DEF Message, Settled
  <2> QED
    BY <1>1, <2>1, BeginEffects
<1>3. RecordsClean
  BY DEF DiscardInv
<1>4. /\ \A m \in discarded : req'[m.request].pc = "done"
      /\ \A m \in Messages(messages) : req'[m.request].pc = "done"
  BY <1>2, <1>3, ConversationSets DEF RecordsClean
<1>5. RecordsClean'
  BY <1>1, <1>3, <1>4 DEF RecordsClean, Settled, Clean, CleanSession
<1>6. ASSUME NEW q \in Open' PROVE RequestClean(q)'
  <2>1. CASE q = r
    <3>1. Messages(req'[r].kept) = {}
      BY BeginEffects DEF Messages
    <3> QED
      BY <1>1, <2>1, <3>1, BeginEffects DEF RequestClean, Settled, Clean, CleanSession
  <2>2. CASE q # r
    <3>1. q \in Request /\ q \in Open /\ RequestClean(q)
      BY <1>6, <2>2, BeginEffects DEF Open, DiscardInv
    <3>2. \A m \in Messages(req[q].kept) : req'[m.request].pc = "done"
      BY <1>2, <3>1, ConversationSets DEF RequestClean
    <3>3. /\ req'[q].kept = req[q].kept /\ req'[q].gone = req[q].gone
          /\ req'[q].resume = req[q].resume /\ req'[q].session = req[q].session
          /\ req'[q].out = req[q].out
      BY <2>2, <3>1, BeginEffects
    <3> QED
      BY <1>1, <3>1, <3>2, <3>3 DEF RequestClean, Settled, Clean, CleanSession
  <2> QED
    BY <2>1, <2>2
<1>7. ASSUME NEW q \in Open', req'[q].alone PROVE EditAlone(q)'
  <2>1. q = r /\ Open = {}
    BY <1>7, BeginEffects DEF Open
  <2>2. \A p \in Open' : p = r
    BY <2>1, BeginEffects DEF Open
  <2>3. /\ req'[r].pc \in {"close", "read"} /\ (req'[r].pc = "close" <=> kind = "finalize")
        /\ req'[r].kind = kind /\ req'[r].todo = Executor
        /\ req'[r].resume = NoSession /\ req'[r].session = NoSession /\ req'[r].out = NoSession
    BY BeginEffects
  <2> QED
    BY <2>1, <2>2, <2>3 DEF EditAlone, Turning
<1> QED
  BY <1>5, <1>6, <1>7 DEF DiscardInv

LEMMA RestartsClean ==
  ASSUME ConversationInv, DiscardInv, Restart
  PROVE  DiscardInv'
<1>1. /\ client' = NoSession /\ held'.messages = {}
      /\ UNCHANGED <<context, messages, sessionIDs, discarded>>
  BY DEF Restart, SessionsLost, NotHeld
<1>2. ASSUME NEW r \in Request
      PROVE  req'[r].pc \in {"new", "done"} /\ (req[r].pc = "done" => req'[r].pc = "done")
  <2>1. req' = [x \in Request |-> IF x \in Open THEN Finished(x) ELSE req[x]]
    BY DEF Restart
  <2>2. Finished(r).pc = "done"
    BY RequestTypes DEF ConversationInv
  <2> QED
    BY <2>1, <2>2 DEF Open
<1>3. ASSUME NEW ms \in SUBSET Message, Settled(ms)
      PROVE  \A m \in ms : req'[m.request].pc = "done"
  BY <1>2, <1>3 DEF Message, Settled
<1>4. RecordsClean
  BY DEF DiscardInv
<1>5. /\ \A m \in discarded : req'[m.request].pc = "done"
      /\ \A m \in Messages(messages) : req'[m.request].pc = "done"
  BY <1>3, <1>4, ConversationSets DEF RecordsClean
<1>6. RecordsClean'
  BY <1>1, <1>4, <1>5 DEF RecordsClean, Settled, Clean, CleanSession
<1>7. Open' = {}
  BY <1>2 DEF Open
<1> QED
  BY <1>6, <1>7 DEF DiscardInv

LEMMA OthersClean ==
  ASSUME ConversationInv, DiscardInv, Revise \/ OtherConversation \/ UNCHANGED vars
  PROVE  DiscardInv'
<1>1. /\ UNCHANGED <<context, messages, sessionIDs, discarded, req>>
      /\ client' \in {client, NoSession} /\ held'.messages = held.messages
  BY DEF Revise, OtherConversation, ClientReaped, CloseSession, vars, sessionVars, auxVars
<1>2. RecordsClean'
  BY <1>1 DEF DiscardInv, RecordsClean, Settled, Clean, CleanSession
<1>3. Open' = Open
  BY <1>1 DEF Open
<1>4. \A r \in Open' : RequestClean(r)'
  BY <1>1, <1>3 DEF DiscardInv, RequestClean, Settled, Clean, CleanSession
<1>5. ASSUME NEW r \in Open', req'[r].alone PROVE EditAlone(r)'
  <2>1. EditAlone(r) /\ Told(r)' = Told(r)
    BY <1>1, <1>3, <1>5 DEF DiscardInv, Told
  <2> QED
    BY <1>1, <1>3, <2>1 DEF EditAlone, Within, Settled
<1> QED
  BY <1>2, <1>4, <1>5 DEF DiscardInv

LEMMA DiscardInductive ==
  ASSUME ConversationInv, DiscardInv, [Next]_vars
  PROVE  DiscardInv'
<1>1. ASSUME NEW r \in Request, RequestStep(r) PROVE DiscardInv'
  <2>1. ASSUME NEW kind, NEW e, OpenRequest(r, kind, e) PROVE DiscardInv'
    BY <2>1, BeginsClean DEF OpenRequest
  <2> QED
    BY ZenonT(60), <1>1, <2>1, ReadsClean, EditsClean, SavesClean, TurnEffects, TurnStaysClean
       DEF RequestStep, TurnStep
<1> QED
  BY <1>1, RestartsClean, OthersClean DEF Next

LEMMA DiscardStarts ==
  ASSUME Init
  PROVE  DiscardInv
<1>1. /\ discarded = {} /\ Messages(messages) = {} /\ held.messages = {} /\ client = NoSession
      /\ \A e \in Executor : sessionIDs[e] = NoSession
  BY DEF Init, SessionsInit, NotHeld, Messages
<1>2. Open = {}
  BY ZenonT(60) DEF Init, Open, NewRequest
<1> QED
  BY <1>1, <1>2 DEF DiscardInv, RecordsClean, Settled, Clean, CleanSession

\* What an edit alone discarded is in the context of no turn requested since:
\* through any executor, after restarts and reconnections, and whatever other
\* requests overlap that turn.
THEOREM DiscardedForGood == Spec => []DiscardedStaysDiscarded
<1>1. ConversationInv /\ DiscardInv => DiscardedStaysDiscarded
  <2> SUFFICES ASSUME ConversationInv, DiscardInv, NEW r \in Request, InTurn(r)
               PROVE  context[req[r].session] \cap req[r].gone = {}
    BY DEF DiscardedStaysDiscarded
  <2>1. r \in Open /\ req[r].session # NoSession
    BY DEF InTurn, Open, ConversationInv, SessionsOwned, OnSession
  <2> QED
    BY <2>1 DEF DiscardInv, RequestClean, CleanSession, Clean
<1>2. Init => ConversationInv /\ DiscardInv
  BY ConversationStarts, DiscardStarts
<1>3. ConversationInv /\ DiscardInv /\ [Next]_vars => ConversationInv' /\ DiscardInv'
  BY ConversationInductive, DiscardInductive
<1> QED
  BY <1>1, <1>2, <1>3, PTL DEF Spec

-----------------------------------------------------------------------------
(* What the agents know.  While no two requests have overlapped and no     *)
(* edit was cut, the messages that stand - a regeneration's are those that *)
(* it keeps - and were exchanged through an executor are in every session  *)
(* that the executor could go on with; and the exchange of the turn that   *)
(* is going on is in every session that a record or the client will keep.  *)

Runner == {"claude-code", "codex", "local"}

Rewrites(r) == req[r].kind = "regenerate" /\ Turning(req[r].pc)

Standing ==
    {m \in Messages(messages) : \A r \in Request : Rewrites(r) => m \in Messages(req[r].kept)}

Exchanged ==
    [x \in Runner |-> {m \in Standing \cap delivered : req[m.request].executor = x}]

Heard(r) == Own(r) \cap delivered

Recalls(s, ms) == s # NoSession => ms \subseteq context[s]

RecordsRecall ==
    /\ Recalls(client, Exchanged["claude-code"])
    /\ \A e \in Executor : Recalls(sessionIDs[e], Exchanged[e])
    /\ held.live => Exchanged["local"] \subseteq held.messages
    /\ ~ held.live => held.messages = {}

\* By where the request is: what it kept, and what it will go on with.
KeepsStanding(r) ==
    /\ Messages(req[r].kept) \subseteq Messages(messages)
    /\ Turning(req[r].pc) => Standing \subseteq Messages(req[r].kept)
    /\ req[r].pc \notin {"persist", "save"} => req[r].out = NoSession
    /\ req[r].pc \in {"run", "client", "connect", "query"} =>
          Recalls(req[r].resume, Exchanged[req[r].executor])
    /\ OnSession(req[r].pc) => Recalls(req[r].session, Exchanged[req[r].executor])
    /\ req[r].pc = "persist" => Recalls(req[r].out, Exchanged[req[r].executor])

\* ... and who has heard its own exchange, as far as it was delivered.
KeepsHeard(r) ==
    /\ req[r].pc = "query" => req[r].executor # "local"
    /\ req[r].pc \notin {"receive", "persist", "save"} => Heard(r) = {}
    /\ req[r].pc = "receive" =>
          /\ Recalls(req[r].session, Heard(r))
          /\ req[r].executor # "local" => User(r) \in Heard(r)
          /\ req[r].executor = "claude-code" => client \in {NoSession, req[r].session}
          /\ req[r].executor = "local" =>
                Heard(r) = {} /\ (held.live \/ Messages(req[r].kept) = {})
    /\ req[r].pc = "persist" => Recalls(req[r].out, Heard(r))
    /\ req[r].pc = "save" => Recalls(sessionIDs[req[r].executor], Heard(r))
    /\ req[r].executor = "claude-code" => Recalls(client, Heard(r))
    /\ req[r].executor = "local" /\ held.live => Heard(r) \subseteq held.messages

RecallInv ==
    /\ \A r \in Request : req[r].pc = "new" => Heard(r) = {}
    /\ calm => /\ RecordsRecall
               /\ \A r \in Open : req[r].alone /\ KeepsStanding(r) /\ KeepsHeard(r)

\* Nobody else's exchange changes while a request goes on alone.
LEMMA ExchangedKept ==
  ASSUME ConversationInv, DiscardInv, NEW r \in Request, r \in Open, Alone(r),
         Messages(messages') \subseteq Messages(messages),
         delivered' \subseteq delivered \cup Own(r),
         Rewrites(r) => Rewrites(r)' /\ req'[r].kept = req[r].kept
  PROVE  /\ Standing' \subseteq Standing
         /\ \A x \in Runner : Exchanged'[x] \subseteq Exchanged[x]
<1>1. Standing' \subseteq Standing
  BY DEF Standing, Rewrites, Alone
<1>2. ASSUME NEW m \in Standing
      PROVE  m \notin Own(r) /\ req'[m.request].executor = req[m.request].executor
  <2>1. Settled(Messages(messages)) /\ m \in Messages(messages)
    BY <1>2 DEF DiscardInv, RecordsClean, Standing
  <2>2. m.request \in Request /\ m.request # r
    BY <2>1, ConversationSets DEF Settled, Open, Message
  <2> QED
    BY <2>2 DEF Own, User, Assistant, Alone
<1> QED
  BY <1>1, <1>2 DEF Exchanged

\* It is enough to show the records and the one request.
LEMMA RecallsOn ==
  ASSUME ConversationInv, DiscardInv, RecallInv, NEW r \in Request, r \in Open, Alone(r),
         calm' = calm, delivered' \subseteq delivered \cup Own(r), req'[r].pc # "new",
         calm => /\ RecordsRecall'
                 /\ r \in Open' => req'[r].alone /\ KeepsStanding(r)' /\ KeepsHeard(r)'
  PROVE  RecallInv'
<1>1. ASSUME NEW q \in Request, req'[q].pc = "new" PROVE Heard(q)' = {}
  <2>1. q # r /\ req[q].pc = "new"
    BY <1>1 DEF Alone
  <2>2. Heard(q) = {} /\ Own(q) \cap Own(r) = {}
    BY <2>1 DEF RecallInv, Own, User, Assistant
  <2> QED
    BY <2>2 DEF Heard
<1>2. ASSUME calm, NEW q \in Open' PROVE q = r
  <2>1. req[r].alone
    BY <1>2 DEF RecallInv
  <2>2. \A p \in Open : p = r
    BY <2>1 DEF DiscardInv, EditAlone
  <2> QED
    BY <1>2, <2>2 DEF Open, Alone
<1> QED
  BY <1>1, <1>2 DEF RecallInv

\* What a step of a request has in calm times.
LEMMA CalmFacts ==
  ASSUME ConversationInv, DiscardInv, RecallInv, calm, NEW r \in Request, r \in Open
  PROVE  /\ RecordsRecall /\ KeepsStanding(r) /\ KeepsHeard(r)
         /\ req[r].alone /\ EditAlone(r) /\ \A q \in Open : q = r
<1>1. RecordsRecall /\ KeepsStanding(r) /\ KeepsHeard(r) /\ req[r].alone
  BY DEF RecallInv
<1>2. EditAlone(r)
  BY <1>1 DEF DiscardInv
<1> QED
  BY <1>1, <1>2 DEF EditAlone

\* A turn's step, in calm times: what was exchanged before stays what it is.
LEMMA CalmTurn ==
  ASSUME ConversationInv, DiscardInv, RecallInv, calm, NEW r \in Request, TurnEffect(r),
         delivered' \subseteq delivered \cup Own(r)
  PROVE  /\ RecordsRecall /\ KeepsStanding(r) /\ KeepsHeard(r)
         /\ Standing' \subseteq Standing
         /\ \A x \in Runner : Exchanged'[x] \subseteq Exchanged[x]
         /\ \A x \in Runner : Exchanged[x] \subseteq Messages(req[r].kept)
         /\ req[r].executor \in Executor /\ Executor \subseteq Runner
         /\ \A e \in Executor : sessionIDs[e] \in Request \cup {NoSession}
         /\ req[r].resume \in Request \cup {NoSession}
         /\ req[r].session \in Request \cup {NoSession}
         /\ req[r].out \in Request \cup {NoSession}
         /\ client \in Request \cup {NoSession}
<1>1. r \in Open /\ Alone(r)
  BY DEF TurnEffect, Turning, Open
<1>2. RecordsRecall /\ KeepsStanding(r) /\ KeepsHeard(r)
  BY <1>1, CalmFacts
<1>3. Messages(messages') = Messages(messages) /\ (Rewrites(r) => Rewrites(r)')
      /\ req'[r].kept = req[r].kept
  BY DEF TurnEffect, SameRequest, SameKind, Rewrites
<1>4. Standing' \subseteq Standing /\ \A x \in Runner : Exchanged'[x] \subseteq Exchanged[x]
  BY <1>1, <1>3, ExchangedKept
<1>5. \A x \in Runner : Exchanged[x] \subseteq Messages(req[r].kept)
  BY <1>2 DEF KeepsStanding, TurnEffect, Exchanged
<1>6. req[r].executor \in Executor /\ Executor \subseteq Runner
  BY RequestFacts, AgentSessionsAssumption DEF TurnEffect, Turning, Fits, Runner
<1>7. /\ \A e \in Executor : sessionIDs[e] \in Request \cup {NoSession}
      /\ req[r].resume \in Request \cup {NoSession}
      /\ req[r].session \in Request \cup {NoSession}
      /\ req[r].out \in Request \cup {NoSession}
      /\ client \in Request \cup {NoSession}
  BY ZenonT(60) DEF ConversationInv, ConversationTypeOK, SessionsTypeOK, RequestRecord
<1> QED
  BY <1>2, <1>4, <1>5, <1>6, <1>7

\* What a step of a turn has to see to: the records and the request itself go
\* on with sessions that know, after the step, what was exchanged before it.
Tells(s, ms) == s # NoSession => ms \subseteq context'[s]

Carried(r) ==
    /\ Tells(client', Exchanged["claude-code"])
    /\ \A e \in Executor : Tells(sessionIDs'[e], Exchanged[e])
    /\ held'.live => Exchanged["local"] \subseteq held'.messages
    /\ ~ held'.live => held'.messages = {}
    /\ req'[r].pc \notin {"persist", "save"} => req'[r].out = NoSession
    /\ req'[r].pc \in {"run", "client", "connect", "query"} =>
          Tells(req'[r].resume, Exchanged[req[r].executor])
    /\ OnSession(req'[r].pc) => Tells(req'[r].session, Exchanged[req[r].executor])
    /\ req'[r].pc = "persist" => Tells(req'[r].out, Exchanged[req[r].executor])

LEMMA TurnRecalls ==
  ASSUME ConversationInv, DiscardInv, RecallInv, NEW r \in Request, TurnEffect(r),
         delivered' \subseteq delivered \cup Own(r),
         calm => Carried(r) /\ KeepsHeard(r)'
  PROVE  RecallInv'
<1>1. /\ r \in Open /\ Alone(r) /\ req'[r].pc # "new" /\ calm' = calm
      /\ req'[r].executor = req[r].executor /\ req'[r].kept = req[r].kept
      /\ req'[r].alone = req[r].alone /\ messages' = messages
  BY DEF TurnEffect, Turning, Open, SameRequest, SameKind
<1>2. ASSUME calm
      PROVE  RecordsRecall' /\ (r \in Open' => req'[r].alone /\ KeepsStanding(r)' /\ KeepsHeard(r)')
  <2>1. /\ Standing' \subseteq Standing /\ KeepsStanding(r)
        /\ \A x \in Runner : Exchanged'[x] \subseteq Exchanged[x]
        /\ req[r].executor \in Executor /\ Executor \subseteq Runner
    BY <1>2, CalmTurn
  <2>2. Carried(r) /\ KeepsHeard(r)'
    BY <1>2
  <2>3. RecordsRecall'
    <3>1. "claude-code" \in Runner /\ "local" \in Runner
      BY DEF Runner
    <3> QED
      BY <2>1, <2>2, <3>1 DEF RecordsRecall, Carried, Recalls, Tells
  <2>4. KeepsStanding(r)'
    BY <1>1, <2>1, <2>2 DEF KeepsStanding, Carried, Recalls, Tells, TurnEffect
  <2>5. req[r].alone
    BY <1>1, <1>2, CalmFacts
  <2> QED
    BY <1>1, <2>2, <2>3, <2>4, <2>5
<1> QED
  BY <1>1, <1>2, RecallsOn

\* Most steps of a turn leave the sessions and what was delivered alone.
LEMMA QuietTurn ==
  ASSUME ConversationInv, DiscardInv, RecallInv, NEW r \in Request, TurnEffect(r),
         UNCHANGED <<context, held, delivered>>,
         calm => /\ Recalls(client', Exchanged["claude-code"])
                 /\ req[r].executor = "claude-code" => Recalls(client', Heard(r))
                 /\ \A e \in Executor : Recalls(sessionIDs'[e], Exchanged[e])
                 /\ req'[r].pc \notin {"persist", "save"} => Heard(r) = {} /\ req'[r].out = NoSession
                 /\ req'[r].pc \in {"run", "client", "connect", "query"} =>
                       Recalls(req'[r].resume, Exchanged[req[r].executor])
                 /\ req'[r].pc = "query" => /\ Recalls(req'[r].session, Exchanged[req[r].executor])
                                            /\ req[r].executor # "local"
                 /\ req'[r].pc # "receive"
                 /\ req'[r].pc = "persist" =>
                       Recalls(req'[r].out, Exchanged[req[r].executor]) /\ Recalls(req'[r].out, Heard(r))
                 /\ req'[r].pc = "save" => Recalls(sessionIDs'[req[r].executor], Heard(r))
  PROVE  RecallInv'
<1>1. ASSUME calm
      PROVE  Carried(r) /\ KeepsHeard(r)'
  <2>1. RecordsRecall /\ KeepsHeard(r)
    BY <1>1, CalmTurn
  <2>2. req'[r].executor = req[r].executor /\ Heard(r)' = Heard(r)
    BY DEF TurnEffect, SameRequest, SameKind, Heard, Own
  <2>3. Carried(r)
    BY <1>1, <2>1 DEF Carried, Tells, Recalls, RecordsRecall, OnSession
  <2>4. KeepsHeard(r)'
    BY <1>1, <2>1, <2>2 DEF KeepsHeard, Recalls
  <2> QED
    BY <2>3, <2>4
<1> QED
  BY <1>1, TurnRecalls

LEMMA QuietRecalls ==
  ASSUME ConversationInv, DiscardInv, RecallInv, NEW r \in Request,
         \/ LoadResumeSessionID(r) \/ WorkspaceFails(r) \/ RunRefused(r)
         \/ ClientFor(r) \/ ConnectFails(r) \/ QueryStale(r) \/ QueryFails(r)
         \/ TurnFails(r) \/ TurnEndsSilently(r) \/ PersistSessionID(r)
  PROVE  RecallInv'
<1>1. TurnEffect(r) /\ req[r] \in RequestRecord
  BY TurnEffects, RequestFacts
<1>10. delivered' \subseteq delivered \cup Own(r)
  BY DEF LoadResumeSessionID, WorkspaceFails, RunRefused, ClientFor, ConnectFails, QueryStale,
         QueryFails, TurnFails, TurnEndsSilently, PersistSessionID, auxVars
<1>2. calm => /\ RecordsRecall /\ KeepsStanding(r) /\ KeepsHeard(r)
              /\ req[r].executor \in Executor
  BY <1>1, <1>10, CalmTurn
<1>3. Recalls(NoSession, Exchanged["claude-code"]) /\ Recalls(NoSession, Heard(r))
      /\ \A x : Recalls(NoSession, Exchanged[x])
  BY DEF Recalls
<1>4. CASE LoadResumeSessionID(r)
  <2> DEFINE s == IF req[r].kind = "regenerate" THEN NoSession ELSE sessionIDs[req[r].executor]
             q == [req[r] EXCEPT !.pc = "run", !.resume = s]
  <2>1. /\ req[r].pc = "resume" /\ req' = [req EXCEPT ![r] = q]
        /\ UNCHANGED <<client, held, context, sessionIDs, delivered>>
    BY <1>4 DEF LoadResumeSessionID, auxVars, sessionVars
  <2>2. s \in {NoSession, sessionIDs[req[r].executor]}
    OBVIOUS
  <2> HIDE DEF s
  <2>3. q.pc = "run" /\ q.resume = s /\ q.out = req[r].out
    BY ZenonT(60), <1>1 DEF RequestRecord
  <2> HIDE DEF q
  <2>4. req'[r] = q
    BY <2>1, OneMoves
  <2>5. calm => Recalls(s, Exchanged[req[r].executor])
    BY <1>2, <1>3, <2>2 DEF RecordsRecall
  <2> QED
    BY <1>1, <1>2, <2>1, <2>3, <2>4, <2>5, QuietTurn DEF RecordsRecall, KeepsStanding, KeepsHeard
<1>5. CASE WorkspaceFails(r) \/ RunRefused(r)
  <2>1. /\ req[r].pc \in {"resume", "run"}
        /\ Goto(r, "save") \/ Goto(r, "persist")
        /\ UNCHANGED <<client, held, context, sessionIDs, delivered>>
    BY <1>5 DEF WorkspaceFails, RunRefused, auxVars, sessionVars
  <2>2. req'[r].pc \in {"save", "persist"} /\ req'[r].out = req[r].out
    BY <2>1, TurnFields DEF Pc
  <2>3. calm => req[r].out = NoSession /\ Heard(r) = {}
    BY <1>2, <2>1 DEF KeepsStanding, KeepsHeard
  <2> QED
    BY <1>1, <1>2, <1>3, <2>1, <2>2, <2>3, QuietTurn DEF RecordsRecall, Recalls
<1>6. CASE ClientFor(r)
  <2>1. /\ req[r].pc = "client" /\ req[r].executor = "claude-code"
        /\ UNCHANGED <<context, sessionIDs, delivered>>
    BY <1>6, RequestFacts DEF ClientFor, auxVars, Fits
  <2>2. client \in Request \cup {NoSession}
    BY SessionEffects
  <2>3. CASE /\ req' = [req EXCEPT ![r].pc = "query", ![r].session = client]
             /\ UNCHANGED <<client, held>>
    <3>1. /\ req'[r].pc = "query" /\ req'[r].session = client
          /\ req'[r].resume = req[r].resume /\ req'[r].out = req[r].out
      BY <2>2, <2>3, TurnFields DEF Pc
    <3> QED
      BY ZenonT(60), <1>1, <1>2, <2>1, <2>3, <3>1, QuietTurn
         DEF RecordsRecall, KeepsStanding, KeepsHeard
  <2>4. CASE CloseSession("claude-code") /\ Goto(r, "connect")
    <3>1. /\ req'[r].pc = "connect" /\ req'[r].resume = req[r].resume
          /\ req'[r].out = req[r].out
      BY <2>4, TurnFields DEF Pc
    <3>2. client' = NoSession /\ held' = held
      BY <2>4 DEF CloseSession
    <3> QED
      BY <1>1, <1>2, <1>3, <2>1, <3>1, <3>2, QuietTurn DEF RecordsRecall, KeepsStanding, KeepsHeard
  <2> QED
    BY <1>6, <2>3, <2>4 DEF ClientFor
<1>7. CASE ConnectFails(r) \/ QueryFails(r) \/ TurnEndsSilently(r) \/ TurnFails(r)
  <2>1. /\ req[r].pc \in {"connect", "query", "receive"}
        /\ Return(r, NoSession) \/ (req[r].pc = "receive" /\ Return(r, req[r].session))
        /\ UNCHANGED <<context, held, sessionIDs, delivered>>
        /\ client' \in {client, NoSession}
    BY <1>7 DEF ConnectFails, QueryFails, TurnFails, TurnEndsSilently, auxVars, CloseSession
  <2>2. /\ req'[r].pc = "persist"
        /\ req'[r].out = NoSession \/ (req[r].pc = "receive" /\ req'[r].out = req[r].session)
    BY <2>1, TurnFields
  <2>3. calm => Recalls(req'[r].out, Exchanged[req[r].executor]) /\ Recalls(req'[r].out, Heard(r))
    BY <1>2, <1>3, <2>2 DEF KeepsStanding, KeepsHeard, OnSession
  <2> QED
    BY <1>1, <1>2, <1>3, <2>1, <2>2, <2>3, QuietTurn DEF RecordsRecall, KeepsHeard
<1>8. CASE QueryStale(r)
  <2> DEFINE q == [req[r] EXCEPT !.pc = "client", !.retried = TRUE]
  <2>1. /\ req[r].pc = "query" /\ CloseSession("claude-code")
        /\ req' = [req EXCEPT ![r] = q]
        /\ UNCHANGED <<context, sessionIDs, delivered>>
    BY <1>8 DEF QueryStale, auxVars
  <2>2. q.pc = "client" /\ q.resume = req[r].resume /\ q.out = req[r].out
    BY ZenonT(60), <1>1 DEF RequestRecord
  <2> HIDE DEF q
  <2>3. req'[r] = q
    BY <2>1, OneMoves
  <2>4. client' = NoSession /\ held' = held
    BY <2>1 DEF CloseSession
  <2>5. calm => Recalls(req[r].resume, Exchanged[req[r].executor])
    BY <1>2, <2>1 DEF KeepsStanding
  <2> QED
    BY <1>1, <1>2, <1>3, <2>1, <2>2, <2>3, <2>4, <2>5, QuietTurn
       DEF RecordsRecall, KeepsStanding, KeepsHeard
<1>9. CASE PersistSessionID(r)
  <2>1. /\ req[r].pc = "persist" /\ Goto(r, "save")
        /\ sessionIDs' = [sessionIDs EXCEPT ![req[r].executor] = req[r].out]
        /\ UNCHANGED <<client, held, context, delivered>>
    BY <1>9 DEF PersistSessionID, auxVars, sessionVars
  <2>2. req'[r].pc = "save"
    BY <2>1, TurnFields DEF Pc
  <2>3. \A e \in Executor :
           sessionIDs'[e] = IF e = req[r].executor THEN req[r].out ELSE sessionIDs[e]
    BY <2>1 DEF ConversationInv, ConversationTypeOK
  <2> QED
    BY <1>1, <1>2, <2>1, <2>2, <2>3, QuietTurn DEF RecordsRecall, KeepsStanding, KeepsHeard
<1> QED
  BY <1>4, <1>5, <1>6, <1>7, <1>8, <1>9

LEMMA RunRecalls ==
  ASSUME ConversationInv, DiscardInv, RecallInv, NEW r \in Request, Run(r)
  PROVE  RecallInv'
<1>1. TurnEffect(r) /\ req[r] \in RequestRecord
  BY TurnEffects, RequestFacts
<1>2. /\ req[r].pc = "run"
      /\ UNCHANGED <<client, messages, sessionIDs, delivered>>
      /\ delivered' \subseteq delivered \cup Own(r)
  BY DEF Run, auxVars
<1>3. calm => /\ RecordsRecall /\ KeepsStanding(r) /\ KeepsHeard(r)
              /\ req[r].executor \in Executor /\ Executor \subseteq Runner
              /\ \A x \in Runner : Exchanged[x] \subseteq Messages(req[r].kept)
  BY <1>1, <1>2, CalmTurn
<1>4. CASE (Goto(r, "client") \/ Goto(r, "connect")) /\ UNCHANGED <<held, context>>
  <2>1. /\ req'[r].pc \in {"client", "connect"} /\ req'[r].resume = req[r].resume
        /\ req'[r].out = req[r].out
    BY ZenonT(60), <1>4, TurnFields DEF Pc
  <2> QED
    BY <1>1, <1>2, <1>3, <1>4, <2>1, QuietTurn DEF RecordsRecall, KeepsStanding, KeepsHeard
<1>5. CASE /\ OfRunner(r, {"local"})
           /\ SendHeld(r, Messages(req[r].kept))
           /\ req' = [req EXCEPT ![r].pc = "receive", ![r].session = r]
  <2>1. /\ req[r].executor = "local"
        /\ req'[r].pc = "receive" /\ req'[r].session = r /\ req'[r].out = req[r].out
        /\ req'[r].executor = req[r].executor /\ req'[r].kept = req[r].kept
    BY <1>5, TurnFields DEF Pc, OfRunner, SameRequest, SameKind
  <2>2. /\ context'[r] = held'.messages \cup {User(r)}
        /\ \A s \in Request : s # r => context'[s] = context[s]
    BY <1>5, SessionSteps DEF SendHeld
  <2>3. held' = held \/ (held'.live /\ held'.messages = Messages(req[r].kept))
    BY <1>5 DEF SendHeld, Rehydrate, Held
  <2>4. held'.live \/ (held' = held /\ Messages(req[r].kept) = {})
    BY <1>5 DEF SendHeld, Rehydrate, Held
  <2>5. ASSUME calm
        PROVE  Carried(r) /\ KeepsHeard(r)'
    <3>1. /\ RecordsRecall /\ KeepsStanding(r) /\ KeepsHeard(r)
          /\ Executor \subseteq Runner
          /\ Exchanged["local"] \subseteq Messages(req[r].kept)
      BY <1>3, <2>5 DEF Runner
    <3>2. /\ held'.live => Exchanged["local"] \subseteq held'.messages
          /\ ~ held'.live => held'.messages = {}
          /\ Exchanged["local"] \subseteq held'.messages
      BY <2>3, <2>4, <3>1 DEF RecordsRecall
    <3>3. Tells(r, Exchanged["local"])
      BY <2>2, <3>2 DEF Tells
    <3>4. client # r
      BY <2>1, RequestFacts, AgentSessionsAssumption DEF StartedBy
    <3>5. client \in Request \cup {NoSession} /\ \A e \in Executor : sessionIDs[e] \in Request \cup {NoSession}
      BY DEF ConversationInv, ConversationTypeOK, SessionsTypeOK
    <3>6. Tells(client', Exchanged["claude-code"])
      BY <1>2, <2>2, <3>1, <3>4, <3>5 DEF Tells, Recalls, RecordsRecall
    <3>7. ASSUME NEW e \in Executor PROVE Tells(sessionIDs'[e], Exchanged[e])
      <4>1. sessionIDs[e] = r => e = "local"
        BY <2>1, RequestFacts, AgentSessionsAssumption DEF StartedBy
      <4> QED
        BY <1>2, <2>2, <3>1, <3>3, <3>5, <4>1 DEF Tells, Recalls, RecordsRecall
    <3>8. Carried(r)
      BY <1>2, <2>1, <3>1, <3>2, <3>3, <3>6, <3>7 DEF Carried, KeepsStanding, OnSession
    <3>9. Heard(r) = {} /\ Heard(r)' = {}
      BY <1>2, <3>1 DEF KeepsHeard, Heard, Own
    <3>10. KeepsHeard(r)'
      BY <2>1, <2>4, <3>9 DEF KeepsHeard, Recalls
    <3> QED
      BY <3>8, <3>10
  <2> QED
    BY <1>1, <1>2, <2>5, TurnRecalls
<1> QED
  BY <1>4, <1>5 DEF Run

LEMMA ConnectRecalls ==
  ASSUME ConversationInv, DiscardInv, RecallInv, NEW r \in Request, Connect(r)
  PROVE  RecallInv'
<1>1. TurnEffect(r) /\ req[r] \in RequestRecord
  BY TurnEffects, RequestFacts
<1>2. /\ req[r].pc = "connect" /\ CacheClient(req[r].executor, req'[r].session)
      /\ UNCHANGED <<held, messages, sessionIDs, delivered>>
      /\ delivered' \subseteq delivered \cup Own(r)
  BY DEF Connect, auxVars
<1>6. req[r].executor # "local" /\ req[r].resume \in Request \cup {NoSession}
  BY ZenonT(60), <1>1, <1>2, RequestFacts DEF Fits, RequestRecord
<1>3. calm => /\ RecordsRecall /\ KeepsStanding(r) /\ KeepsHeard(r)
              /\ req[r].executor \in Executor /\ Executor \subseteq Runner
              /\ \A x \in Runner : Exchanged[x] \subseteq Messages(req[r].kept)
  BY <1>1, <1>2, CalmTurn
<1>4. CASE /\ Resume(req[r].resume)
           /\ req' = [req EXCEPT ![r].pc = "query", ![r].session = req[r].resume]
  <2>1. /\ req'[r].pc = "query" /\ req'[r].resume = req[r].resume
        /\ req'[r].session = req[r].resume /\ req'[r].out = req[r].out
    <3> DEFINE s == req[r].resume
    <3>1. req' = [req EXCEPT ![r].pc = "query", ![r].session = s] /\ s \in Request \cup {NoSession}
      BY <1>4, <1>6
    <3> HIDE DEF s
    <3>2. req'[r].pc = "query" /\ req'[r].session = s /\ req'[r].resume = req[r].resume /\ req'[r].out = req[r].out
      BY <3>1, TurnFields DEF Pc
    <3> QED
      BY <3>2 DEF s
  <2>2. context' = context
        /\ \/ client' = client
           \/ req[r].executor = "claude-code" /\ client' = req[r].resume
    BY <1>2, <1>4, <2>1 DEF Resume, CacheClient
  <2>3. calm => Heard(r) = {} /\ Recalls(req[r].resume, Exchanged[req[r].executor])
    BY <1>2, <1>3 DEF KeepsHeard, KeepsStanding
  <2> QED
    BY <1>1, <1>2, <1>3, <1>6, <2>1, <2>2, <2>3, QuietTurn
       DEF RecordsRecall, KeepsStanding, Recalls
<1>5. CASE /\ StartSession(r, Messages(req[r].kept))
           /\ req' = [req EXCEPT ![r].pc = "query", ![r].session = r]
  <2>1. /\ req'[r].pc = "query" /\ req'[r].resume = req[r].resume
        /\ req'[r].session = r /\ req'[r].out = req[r].out
        /\ req'[r].executor = req[r].executor
    BY <1>5, TurnFields DEF Pc, SameRequest, SameKind
  <2>2. /\ context'[r] = Messages(req[r].kept)
        /\ \A s \in Request : s # r => context'[s] = context[s]
    BY <1>5, SessionSteps DEF StartSession
  <2>3. client' = client \/ client' = r
    BY <1>2, <2>1 DEF CacheClient
  <2>4. ASSUME calm
        PROVE  Carried(r) /\ KeepsHeard(r)'
    <3>1. ASSUME NEW s \in Request \cup {NoSession}, NEW x \in Runner,
                 s = r \/ Recalls(s, Exchanged[x])
          PROVE  Tells(s, Exchanged[x])
      BY <1>3, <2>2, <2>4, <3>1 DEF Tells, Recalls
    <3>2. /\ RecordsRecall /\ KeepsStanding(r) /\ KeepsHeard(r)
          /\ req[r].executor \in Runner /\ Executor \subseteq Runner
          /\ "claude-code" \in Runner
      BY <1>3, <2>4 DEF Runner
    <3>3. /\ client \in Request \cup {NoSession} /\ r \in Request \cup {NoSession}
          /\ \A e \in Executor : sessionIDs[e] \in Request \cup {NoSession}
          /\ req[r].resume \in Request \cup {NoSession}
      BY ZenonT(60), <1>1 DEF ConversationInv, ConversationTypeOK, SessionsTypeOK, RequestRecord
    <3>4. Tells(client', Exchanged["claude-code"])
      BY <2>3, <3>1, <3>2, <3>3 DEF RecordsRecall
    <3>5. \A e \in Executor : Tells(sessionIDs'[e], Exchanged[e])
      BY <1>2, <3>1, <3>2, <3>3 DEF RecordsRecall
    <3>6. Tells(req[r].resume, Exchanged[req[r].executor]) /\ Tells(r, Exchanged[req[r].executor])
      BY <1>2, <3>1, <3>2, <3>3 DEF KeepsStanding
    <3>7. Carried(r)
      BY <1>2, <2>1, <3>2, <3>4, <3>5, <3>6 DEF Carried, RecordsRecall, KeepsStanding, OnSession
    <3>8. Heard(r)' = {}
      BY <1>2, <3>2 DEF KeepsHeard, Heard, Own
    <3> QED
      BY <1>6, <2>1, <3>7, <3>8 DEF KeepsHeard, Recalls
  <2> QED
    BY <1>1, <1>2, <2>4, TurnRecalls
<1> QED
  BY <1>4, <1>5 DEF Connect

\* The two steps in which a session hears the request's own exchange.
LEMMA TalkRecalls ==
  ASSUME ConversationInv, DiscardInv, RecallInv, NEW r \in Request, Query(r) \/ Reply(r)
  PROVE  RecallInv'
<1>1. TurnEffect(r) /\ req[r] \in RequestRecord
  BY TurnEffects, RequestFacts
<1>2. /\ OnSession(req[r].pc) /\ UNCHANGED <<client, sessionIDs>>
      /\ delivered' \subseteq delivered \cup Own(r)
  BY DEF Query, Reply, OnSession, Own
<1>3. req[r].session \in Request
  BY ZenonT(60), <1>1, <1>2 DEF ConversationInv, SessionsOwned, RequestRecord
<1>4. calm => /\ RecordsRecall /\ KeepsStanding(r) /\ KeepsHeard(r)
              /\ req[r].executor \in Executor /\ Executor \subseteq Runner
  BY <1>1, <1>2, CalmTurn
<1>5. \A s \in Request : context[s] \subseteq context'[s]
  BY <1>3, SessionSteps DEF Query, Reply, Hear
<1>6. /\ client \in Request \cup {NoSession}
      /\ \A e \in Executor : sessionIDs[e] \in Request \cup {NoSession}
      /\ req[r].resume \in Request \cup {NoSession}
  BY ZenonT(60), <1>1 DEF ConversationInv, ConversationTypeOK, SessionsTypeOK, RequestRecord
<1>7. \A s \in Request \cup {NoSession} : \A ms : Recalls(s, ms) => Tells(s, ms)
  BY <1>5 DEF Recalls, Tells
<1>8. CASE Query(r)
  <2>1. /\ req[r].pc = "query" /\ Connected(req[r].executor, req[r].session)
        /\ Goto(r, "receive") /\ held' = held /\ delivered' = delivered \cup {User(r)}
        /\ context' = [context EXCEPT ![req[r].session] = @ \cup {User(r)}]
    BY <1>8 DEF Query, Hear
  <2>2. /\ req'[r].pc = "receive" /\ req'[r].session = req[r].session
        /\ req'[r].out = req[r].out
        /\ req'[r].executor = req[r].executor /\ req'[r].kept = req[r].kept
    BY <2>1, TurnFields DEF Pc, SameRequest, SameKind
  <2>3. context'[req[r].session] = context[req[r].session] \cup {User(r)}
    BY <1>3, <2>1, SessionSteps
  <2>4. ASSUME calm
        PROVE  Carried(r) /\ KeepsHeard(r)'
    <3>1. RecordsRecall /\ KeepsStanding(r) /\ KeepsHeard(r)
      BY <1>4, <2>4
    <3>2. Heard(r) = {} /\ Heard(r)' \subseteq {User(r)} /\ req[r].executor # "local"
      BY <2>1, <3>1 DEF KeepsHeard, Heard, Own
    <3>10. User(r) \in Heard(r)'
      BY <2>1 DEF Heard, Own
    <3>3. Tells(client', Exchanged["claude-code"])
      BY <1>2, <1>6, <1>7, <3>1 DEF RecordsRecall
    <3>4. \A e \in Executor : Tells(sessionIDs'[e], Exchanged[e])
      BY <1>2, <1>6, <1>7, <3>1 DEF RecordsRecall
    <3>5. Tells(req[r].session, Exchanged[req[r].executor])
      BY <1>2, <1>3, <1>7, <3>1 DEF KeepsStanding
    <3>6. Carried(r)
      BY <2>1, <2>2, <3>1, <3>3, <3>4, <3>5 DEF Carried, RecordsRecall, KeepsStanding
    <3>7. Tells(req[r].session, Heard(r)')
      BY <2>3, <3>2 DEF Tells
    <3>8. req[r].executor = "claude-code" => client' = req[r].session
      BY <1>2, <2>1 DEF Connected
    <3>9. KeepsHeard(r)'
      BY <2>2, <3>2, <3>7, <3>8, <3>10 DEF KeepsHeard, Recalls, Tells
    <3> QED
      BY <3>6, <3>9
  <2> QED
    BY <1>1, <1>2, <2>4, TurnRecalls
<1>9. CASE Reply(r)
  <2>1. /\ req[r].pc = "receive" /\ delivered' = delivered \cup Own(r)
        /\ context' = [context EXCEPT ![req[r].session] = @ \cup {Assistant(r)}]
        /\ \/ req[r].executor = "local" /\ HoldTurn(r) /\ Return(r, NoSession)
           \/ req[r].executor # "local" /\ Return(r, req[r].session) /\ held' = held
    BY <1>9 DEF Reply, Hear, OfRunner, Own
  <2>2. /\ req'[r].pc = "persist"
        /\ req'[r].out = IF req[r].executor = "local" THEN NoSession ELSE req[r].session
        /\ req'[r].executor = req[r].executor /\ req'[r].kept = req[r].kept
    BY <2>1, TurnFields DEF SameRequest, SameKind
  <2>3. context'[req[r].session] = context[req[r].session] \cup {Assistant(r)}
    BY <1>3, <2>1, SessionSteps
  <2>4. ASSUME calm
        PROVE  Carried(r) /\ KeepsHeard(r)'
    <3>1. /\ RecordsRecall /\ KeepsStanding(r) /\ KeepsHeard(r)
          /\ Exchanged["local"] \subseteq Messages(req[r].kept)
      BY <1>1, <1>2, <1>4, <2>4, CalmTurn DEF Runner
    <3>2. Heard(r)' = Own(r)
      BY <2>1 DEF Heard, Own
    <3>3. Tells(client', Exchanged["claude-code"])
      BY <1>2, <1>6, <1>7, <3>1 DEF RecordsRecall
    <3>4. \A e \in Executor : Tells(sessionIDs'[e], Exchanged[e])
      BY <1>2, <1>6, <1>7, <3>1 DEF RecordsRecall
    <3>5. Tells(req[r].session, Exchanged[req[r].executor])
      BY <1>2, <1>3, <1>7, <3>1 DEF KeepsStanding
    <3>6. /\ held'.live => Exchanged["local"] \subseteq held'.messages
          /\ ~ held'.live => held'.messages = {}
          /\ req[r].executor = "local" /\ held'.live => Own(r) \subseteq held'.messages
      BY <2>1, <3>1 DEF HoldTurn, Held, Own, RecordsRecall, KeepsHeard
    <3>7. Carried(r)
      BY <2>2, <3>3, <3>4, <3>5, <3>6 DEF Carried, OnSession, Tells
    <3>8. req[r].executor # "local" => Tells(req[r].session, Own(r))
      BY <1>3, <2>1, <2>3, <3>1 DEF KeepsHeard, Recalls, Tells, Own
    <3>9. KeepsHeard(r)'
      BY <1>2, <2>1, <2>2, <3>1, <3>2, <3>6, <3>8 DEF KeepsHeard, Recalls, Tells
    <3> QED
      BY <3>7, <3>9
  <2> QED
    BY <1>1, <1>2, <2>4, TurnRecalls
<1> QED
  BY <1>8, <1>9

\* Before its turn a request only forgets: sessions, records and messages.
LEMMA BeforeTurnRecalls ==
  ASSUME ConversationInv, DiscardInv, RecallInv, NEW r \in Request, r \in Open, Alone(r),
         UNCHANGED <<context, calm, delivered>>, req'[r].pc # "new",
         ~ Turning(req[r].pc), Messages(messages') \subseteq Messages(messages),
         client' \in {client, NoSession}, held' \in {held, NotHeld},
         \A e \in Executor : sessionIDs'[e] \in {sessionIDs[e], NoSession},
         calm /\ r \in Open' =>
            /\ req'[r].pc \in {"replace", "close", "clear", "resume"}
            /\ req'[r].alone = req[r].alone /\ req'[r].out = req[r].out
            /\ Messages(req'[r].kept) \subseteq Messages(messages')
            /\ req'[r].pc = "resume" /\ req'[r].kind # "regenerate" =>
                  Messages(messages') \subseteq Messages(req'[r].kept)
  PROVE  RecallInv'
<1>1. ~ Rewrites(r) /\ delivered' \subseteq delivered \cup Own(r)
  BY DEF Rewrites
<1>2. Standing' \subseteq Standing /\ \A x \in Runner : Exchanged'[x] \subseteq Exchanged[x]
  BY <1>1, ExchangedKept
<1>3. ASSUME calm
      PROVE  RecordsRecall' /\ (r \in Open' => req'[r].alone /\ KeepsStanding(r)' /\ KeepsHeard(r)')
  <2>1. RecordsRecall /\ KeepsStanding(r) /\ KeepsHeard(r) /\ req[r].alone
    BY <1>3, CalmFacts
  <2>2. "claude-code" \in Runner /\ "local" \in Runner /\ Executor \subseteq Runner
    BY AgentSessionsAssumption DEF Runner
  <2>3. RecordsRecall'
    BY <1>2, <2>1, <2>2 DEF RecordsRecall, Recalls, NotHeld
  <2>4. ASSUME r \in Open'
        PROVE  req'[r].alone /\ KeepsStanding(r)' /\ KeepsHeard(r)'
    <3>1. /\ req'[r].pc \in {"replace", "close", "clear", "resume"}
          /\ req'[r].alone = req[r].alone /\ req'[r].out = req[r].out
          /\ Messages(req'[r].kept) \subseteq Messages(messages')
          /\ req'[r].pc = "resume" /\ req'[r].kind # "regenerate" =>
                Messages(messages') \subseteq Messages(req'[r].kept)
      BY <1>3, <2>4
    <3>2. req[r].out = NoSession /\ Heard(r) = {}
      BY <2>1 DEF KeepsStanding, KeepsHeard, Turning
    <3>3. Turning(req'[r].pc) => Standing' \subseteq Messages(req'[r].kept)
      BY <3>1 DEF Turning, Standing, Rewrites
    <3>4. KeepsStanding(r)'
      BY <3>1, <3>2, <3>3 DEF KeepsStanding, OnSession
    <3>5. Heard(r)' = {}
      BY <3>2 DEF Heard, Own
    <3>6. KeepsHeard(r)'
      BY <3>1, <3>5 DEF KeepsHeard, Recalls
    <3> QED
      BY <2>1, <3>1, <3>4, <3>6
  <2> QED
    BY <2>3, <2>4
<1> QED
  BY <1>1, <1>3, RecallsOn

LEMMA ReadsRecall ==
  ASSUME ConversationInv, DiscardInv, RecallInv, NEW r \in Request,
         ReadForPost(r) \/ ReadForStart(r) \/ ReadForDelete(r) \/ ReadForRegenerate(r)
  PROVE  RecallInv'
<1>1. /\ req[r].pc = "read" /\ UNCHANGED <<sessionVars, messages, sessionIDs, auxVars>>
      /\ ReturnsNow(r) \/ Reads(r)
  BY ReadEffects
<1>2. /\ UNCHANGED <<client, held, context, messages, sessionIDs, calm, delivered>>
      /\ r \in Open /\ Alone(r) /\ req'[r].pc # "new" /\ ~ Turning(req[r].pc)
  BY <1>1 DEF sessionVars, auxVars, Open, ReturnsNow, Reads, Turning
<1>3. ASSUME calm, r \in Open'
      PROVE  /\ req'[r].pc \in {"replace", "close", "clear", "resume"}
             /\ req'[r].alone = req[r].alone /\ req'[r].out = req[r].out
             /\ Messages(req'[r].kept) \subseteq Messages(messages')
             /\ req'[r].pc = "resume" /\ req'[r].kind # "regenerate" =>
                   Messages(messages') \subseteq Messages(req'[r].kept)
  <2>1. Reads(r)
    BY <1>1, <1>3 DEF ReturnsNow, Open
  <2>2. Messages(req[r].kept) \subseteq Messages(messages)
    BY <1>2, <1>3, CalmFacts DEF KeepsStanding
  <2>3. messages = << >> => Messages(messages) = {}
    BY DEF Messages
  <2> QED
    BY <1>2, <2>1, <2>2, <2>3 DEF Reads, SameKind
<1> QED
  BY <1>2, <1>3, BeforeTurnRecalls

LEMMA EditsRecall ==
  ASSUME ConversationInv, DiscardInv, RecallInv, NEW r \in Request, EditStep(r)
  PROVE  RecallInv'
<1>1. r \in Open /\ calm => Messages(req[r].kept) \subseteq Messages(messages)
  BY CalmFacts DEF KeepsStanding
<1>2. CASE ReplaceMessages(r)
  <2>1. /\ req[r].pc = "replace" /\ GoesOn(r, "close") /\ messages' = req[r].kept
        /\ UNCHANGED <<client, held, context, sessionIDs, calm, delivered>>
    BY <1>2, EditEffects DEF sessionVars, auxVars
  <2>2. /\ r \in Open /\ Alone(r) /\ ~ Turning(req[r].pc) /\ req'[r].pc = "close"
        /\ req'[r].kept = req[r].kept /\ req'[r].alone = req[r].alone /\ req'[r].out = req[r].out
    BY <2>1 DEF Open, GoesOn, SameRequest, SameKind, Turning
  <2>3. CASE calm
    BY <1>1, <2>1, <2>2, <2>3, BeforeTurnRecalls
  <2>4. CASE ~ calm
    <3>1. delivered' \subseteq delivered \cup Own(r) /\ req'[r].pc # "new" /\ calm' = calm
      BY <2>1, <2>2
    <3> QED
      BY <2>2, <2>4, <3>1, RecallsOn
  <2> QED
    BY <2>3, <2>4
<1>3. CASE CloseSessions(r)
  <2>1. /\ req[r].pc = "close" /\ client' = NoSession /\ held' = NotHeld
        /\ ReturnsNow(r) \/ GoesOn(r, "clear")
        /\ UNCHANGED <<context, messages, sessionIDs, calm, delivered>>
    BY <1>3, EditEffects DEF auxVars
  <2>2. /\ r \in Open /\ Alone(r) /\ ~ Turning(req[r].pc) /\ req'[r].pc # "new"
        /\ r \in Open' => /\ req'[r].pc = "clear" /\ req'[r].kept = req[r].kept
                          /\ req'[r].alone = req[r].alone /\ req'[r].out = req[r].out
    BY <2>1 DEF Open, GoesOn, ReturnsNow, SameRequest, SameKind, Turning
  <2> QED
    BY <1>1, <2>1, <2>2, BeforeTurnRecalls
<1>4. CASE ClearSessionIDs(r)
  <2>1. PICK e \in req[r].todo : Clears(r, e)
    BY <1>4, EditEffects
  <2>2. /\ req[r].pc = "clear"
        /\ UNCHANGED <<client, held, context, messages, calm, delivered>>
    BY <1>4, EditEffects DEF sessionVars
  <2>3. /\ r \in Open /\ Alone(r) /\ ~ Turning(req[r].pc) /\ req'[r].pc # "new"
        /\ r \in Open' => /\ req'[r].pc \in {"clear", "resume"} /\ req'[r].kept = req[r].kept
                          /\ req'[r].alone = req[r].alone /\ req'[r].out = req[r].out
                          /\ req'[r].pc = "resume" => req'[r].kind = "regenerate"
    BY <2>1, <2>2 DEF Open, Clears, GoesOn, ReturnsNow, SameRequest, SameKind, Turning
  <2>4. \A x \in Executor : sessionIDs'[x] \in {sessionIDs[x], NoSession}
    BY <2>1 DEF Clears, ConversationInv, ConversationTypeOK
  <2> QED
    BY <1>1, <2>2, <2>3, <2>4, BeforeTurnRecalls
<1> QED
  BY <1>2, <1>3, <1>4 DEF EditStep

\* The messages that a turn saves: those that stood, and its own exchange.
LEMMA SavedMessages ==
  ASSUME ConversationInv, NEW r \in Request, SaveMessages(r)
  PROVE  Messages(messages') = (IF req[r].kind = "regenerate" THEN Messages(req[r].kept)
                                ELSE Messages(messages))
                               \cup (IF req[r].kind = "start" THEN {Assistant(r)} ELSE Own(r))
<1>1. messages \in Seq(Message) /\ req[r].kept \in Seq(Message)
  BY ZenonT(60), RequestFacts DEF ConversationInv, ConversationTypeOK, RequestRecord
<1>2. req[r].kind \in TurnKind
  BY RequestFacts DEF SaveMessages, Fits
<1>3. \A s \in Seq(Message) :
         /\ Messages(s \o <<User(r), Assistant(r)>>) = Messages(s) \cup Own(r)
         /\ Messages(Append(s, Assistant(r))) = Messages(s) \cup {Assistant(r)}
  BY ExchangeSaved
<1>4. CASE req[r].kind = "post"
  <2>1. messages' = messages \o <<User(r), Assistant(r)>>
    BY <1>4 DEF SaveMessages
  <2> QED
    BY <1>1, <1>3, <1>4, <2>1
<1>5. CASE req[r].kind = "start"
  <2>1. messages' = Append(messages, Assistant(r))
    BY <1>5 DEF SaveMessages
  <2> QED
    BY <1>1, <1>3, <1>5, <2>1
<1>6. CASE req[r].kind = "regenerate"
  <2>1. messages' = req[r].kept \o <<User(r), Assistant(r)>>
    BY <1>6 DEF SaveMessages
  <2> QED
    BY <1>1, <1>3, <1>6, <2>1
<1> QED
  BY <1>2, <1>4, <1>5, <1>6 DEF TurnKind

LEMMA SavesRecall ==
  ASSUME ConversationInv, DiscardInv, RecallInv, NEW r \in Request, SaveMessages(r)
  PROVE  RecallInv'
<1>1. /\ req[r].pc = "save" /\ req' = [req EXCEPT ![r] = Finished(r)]
      /\ UNCHANGED <<client, held, context, sessionIDs, calm, delivered>>
  BY DEF SaveMessages, sessionVars
<1>2. /\ Alone(r) /\ req'[r].pc = "done" /\ r \notin Open' /\ r \in Open
      /\ req'[r].executor = req[r].executor
  BY <1>1, FinishedFields DEF Open
<1>3. ASSUME calm PROVE RecordsRecall'
  <2>1. /\ RecordsRecall /\ KeepsStanding(r) /\ KeepsHeard(r)
        /\ \A q \in Open : q = r
    BY <1>2, <1>3, CalmFacts
  <2>2. \A q \in Request : Rewrites(q) => q = r
    BY <2>1 DEF Rewrites, Turning, Open
  <2>3. Messages(messages') \subseteq Standing \cup Own(r)
    <3>1. CASE req[r].kind = "regenerate"
      BY <2>1, <2>2, <3>1, SavedMessages DEF Standing, KeepsStanding
    <3>2. CASE req[r].kind # "regenerate"
      BY <2>2, <3>2, SavedMessages DEF Standing, Rewrites, Own
    <3> QED
      BY <3>1, <3>2
  <2>4. ASSUME NEW m \in Standing
        PROVE  req'[m.request].executor = req[m.request].executor
    <3>1. Settled(Messages(messages)) /\ m \in Messages(messages)
      BY <2>4 DEF DiscardInv, RecordsClean, Standing
    <3>2. m.request \in Request /\ m.request # r
      BY <1>2, <3>1, ConversationSets DEF Settled, Open, Message
    <3> QED
      BY <1>2, <3>2 DEF Alone
  <2>5. \A m \in Own(r) : m.request = r
    BY DEF Own, User, Assistant
  <2>6. ASSUME NEW x \in Runner
        PROVE  Exchanged'[x] \subseteq Exchanged[x] \cup (IF x = req[r].executor THEN Heard(r) ELSE {})
    BY <1>1, <1>2, <2>3, <2>4, <2>5 DEF Exchanged, Standing, Heard
  <2>7. "claude-code" \in Runner /\ "local" \in Runner /\ Executor \subseteq Runner
    BY AgentSessionsAssumption DEF Runner
  <2>8. Recalls(client, Exchanged["claude-code"])'
    BY <1>1, <2>1, <2>6, <2>7 DEF RecordsRecall, KeepsHeard, Recalls
  <2>9. ASSUME NEW e \in Executor PROVE Recalls(sessionIDs[e], Exchanged[e])'
    BY <1>1, <2>1, <2>6, <2>7 DEF RecordsRecall, KeepsHeard, Recalls
  <2>10. held'.live => Exchanged'["local"] \subseteq held'.messages
    BY <1>1, <2>1, <2>6, <2>7 DEF RecordsRecall, KeepsHeard
  <2> QED
    BY <1>1, <2>1, <2>8, <2>9, <2>10 DEF RecordsRecall
<1>4. delivered' \subseteq delivered \cup Own(r) /\ calm' = calm /\ req'[r].pc # "new"
  BY <1>1, <1>2
<1> QED
  BY <1>2, <1>3, <1>4, RecallsOn

LEMMA BeginsRecall ==
  ASSUME ConversationInv, DiscardInv, RecallInv, NEW r \in Request, NEW kind, NEW e,
         Begin(r, kind, e)
  PROVE  RecallInv'
<1>1. /\ req[r].pc = "new"
      /\ UNCHANGED <<client, held, context, messages, sessionIDs, delivered>>
  BY BeginEffects DEF sessionVars
<1>2. \A q \in Request : Heard(q)' = Heard(q)
  BY <1>1 DEF Heard, Own
<1>3. \A q \in Request : req'[q].pc = "new" => req[q].pc = "new"
  BY <1>1, BeginEffects
<1>4. ASSUME calm'
      PROVE  RecordsRecall' /\ \A q \in Open' : req'[q].alone /\ KeepsStanding(q)' /\ KeepsHeard(q)'
  <2>1. calm /\ Open = {} /\ RecordsRecall
    BY <1>4, BeginEffects DEF RecallInv
  <2>2. \A q \in Open' : q = r
    BY <2>1, BeginEffects DEF Open
  <2>3. Standing = Messages(messages)
    BY <2>1 DEF Standing, Rewrites, Turning, Open
  <2>4. ASSUME NEW m \in Messages(messages)
        PROVE  req'[m.request].executor = req[m.request].executor
    <3>1. m.request \in Request /\ m.request # r
      BY <1>1, ConversationSets DEF DiscardInv, RecordsClean, Settled, Message
    <3> QED
      BY <3>1, BeginEffects
  <2>5. \A x \in Runner : Exchanged'[x] \subseteq Exchanged[x]
    BY <1>1, <2>3, <2>4 DEF Exchanged, Standing
  <2>6. "claude-code" \in Runner /\ "local" \in Runner /\ Executor \subseteq Runner
    BY AgentSessionsAssumption DEF Runner
  <2>7. RecordsRecall'
    BY <1>1, <2>1, <2>5, <2>6 DEF RecordsRecall, Recalls
  <2>8. Messages(req'[r].kept) = {} /\ req'[r].pc \in {"read", "close"} /\ req'[r].out = NoSession
    BY BeginEffects DEF Messages
  <2>9. KeepsStanding(r)'
    BY <2>8 DEF KeepsStanding, Turning, OnSession
  <2>10. Heard(r)' = {}
    BY <1>1, <1>2 DEF RecallInv
  <2>11. KeepsHeard(r)'
    BY <2>8, <2>10 DEF KeepsHeard, Recalls
  <2>12. req'[r].alone
    BY <2>1, BeginEffects
  <2> QED
    BY <2>2, <2>7, <2>9, <2>11, <2>12
<1> QED
  BY <1>2, <1>3, <1>4 DEF RecallInv

LEMMA RestartsRecall ==
  ASSUME ConversationInv, DiscardInv, RecallInv, Restart
  PROVE  RecallInv'
<1>1. /\ client' = NoSession /\ held' = NotHeld
      /\ req' = [r \in Request |-> IF r \in Open THEN Finished(r) ELSE req[r]]
      /\ calm' = (calm /\ \A r \in Open : req[r].kind \notin EditKind)
      /\ UNCHANGED <<context, messages, sessionIDs, delivered>>
  BY DEF Restart, SessionsLost
<1>2. ASSUME NEW r \in Request
      PROVE  /\ req'[r].executor = req[r].executor /\ r \notin Open'
             /\ req'[r].pc = "new" => req[r].pc = "new"
  <2>1. Finished(r).pc = "done" /\ Finished(r).executor = req[r].executor
    BY RequestTypes DEF ConversationInv
  <2> QED
    BY <1>1, <2>1 DEF Open
<1>3. \A q \in Request : Heard(q)' = Heard(q)
  BY <1>1 DEF Heard, Own
<1>4. ASSUME calm' PROVE RecordsRecall'
  <2>1. RecordsRecall /\ \A r \in Request : ~ Rewrites(r)
    BY <1>1, <1>4 DEF RecallInv, Rewrites, Turning, Open, EditKind
  <2>2. \A m \in Messages(messages) : m.request \in Request
    BY ConversationSets DEF Message
  <2>3. \A x \in Runner : Exchanged'[x] \subseteq Exchanged[x]
    BY <1>1, <1>2, <2>1, <2>2 DEF Exchanged, Standing
  <2>4. Executor \subseteq Runner
    BY AgentSessionsAssumption DEF Runner
  <2> QED
    BY <1>1, <2>1, <2>3, <2>4 DEF RecordsRecall, Recalls, NotHeld
<1> QED
  BY <1>2, <1>3, <1>4 DEF RecallInv, Open

LEMMA OthersRecall ==
  ASSUME ConversationInv, RecallInv, Revise \/ OtherConversation \/ UNCHANGED vars
  PROVE  RecallInv'
<1>1. /\ UNCHANGED <<context, messages, sessionIDs, calm, delivered, req>>
      /\ client' \in {client, NoSession} /\ held' = held
  BY DEF Revise, OtherConversation, ClientReaped, CloseSession, vars, sessionVars, auxVars
<1>2. Open' = Open /\ Standing' = Standing /\ \A r \in Request : Heard(r)' = Heard(r)
  BY <1>1 DEF Open, Standing, Rewrites, Heard, Own
<1>3. Exchanged' = Exchanged
  BY <1>1, <1>2 DEF Exchanged
<1>4. RecordsRecall => RecordsRecall'
  BY <1>1, <1>3 DEF RecordsRecall, Recalls
<1>5. \A r \in Request : KeepsStanding(r) => KeepsStanding(r)'
  BY <1>1, <1>2, <1>3 DEF KeepsStanding, Recalls
<1>6. \A r \in Request : KeepsHeard(r) => KeepsHeard(r)'
  BY <1>1, <1>2 DEF KeepsHeard, Recalls
<1> QED
  BY <1>1, <1>2, <1>4, <1>5, <1>6 DEF RecallInv, Open

LEMMA RecallInductive ==
  ASSUME ConversationInv, DiscardInv, RecallInv, [Next]_vars
  PROVE  RecallInv'
<1>1. ASSUME NEW r \in Request, RequestStep(r) PROVE RecallInv'
  <2>1. ASSUME NEW kind, NEW e, OpenRequest(r, kind, e) PROVE RecallInv'
    BY <2>1, BeginsRecall DEF OpenRequest
  <2> QED
    BY ZenonT(60), <1>1, <2>1, ReadsRecall, EditsRecall, SavesRecall, QuietRecalls, RunRecalls,
       ConnectRecalls, TalkRecalls DEF RequestStep, TurnStep
<1> QED
  BY <1>1, RestartsRecall, OthersRecall DEF Next

LEMMA RecallStarts ==
  ASSUME Init
  PROVE  RecallInv
<1>1. /\ delivered = {} /\ Messages(messages) = {} /\ client = NoSession
      /\ held.messages = {} /\ ~ held.live
      /\ \A e \in Executor : sessionIDs[e] = NoSession
  BY DEF Init, SessionsInit, NotHeld, Messages
<1>2. Open = {}
  BY ZenonT(60) DEF Init, Open, NewRequest
<1> QED
  BY <1>1, <1>2 DEF RecallInv, RecordsRecall, Recalls, Heard

\* While no two requests have overlapped and no edit was cut, a turn goes on
\* in a session that knows every message of the transcript which its executor
\* exchanged: through resumed ids, reconnections, rehydrated messages,
\* restarts and edits, and other executors' turns in between.
THEOREM OwnExchangesKnown == Spec => []KnowsOwnExchanges
<1>1. ConversationInv /\ DiscardInv /\ RecallInv => KnowsOwnExchanges
  <2> SUFFICES ASSUME ConversationInv, DiscardInv, RecallInv, NEW r \in Request, calm, InTurn(r),
                      NEW m \in Messages(req[r].kept) \cap delivered,
                      req[m.request].executor = req[r].executor
               PROVE  m \in context[req[r].session]
    BY DEF KnowsOwnExchanges
  <2>1. req[r].pc = "receive" /\ r \in Open
    BY DEF InTurn, Open
  <2>2. KeepsStanding(r) /\ \A q \in Open : q = r
    BY <2>1, CalmFacts
  <2>3. m \in Standing
    BY <2>1, <2>2 DEF Standing, KeepsStanding, Rewrites, Turning, Open
  <2>4. req[r].executor \in Runner
    BY <2>1, RequestFacts, AgentSessionsAssumption DEF Fits, Runner
  <2>5. m \in Exchanged[req[r].executor]
    BY <2>3, <2>4 DEF Exchanged
  <2>6. req[r].session # NoSession
    BY <2>1 DEF ConversationInv, SessionsOwned, OnSession
  <2> QED
    BY <2>1, <2>2, <2>5, <2>6 DEF KeepsStanding, OnSession, Recalls
<1>2. Init => ConversationInv /\ DiscardInv /\ RecallInv
  BY ConversationStarts, DiscardStarts, RecallStarts
<1>3. ConversationInv /\ DiscardInv /\ RecallInv /\ [Next]_vars
         => ConversationInv' /\ DiscardInv' /\ RecallInv'
  BY ConversationInductive, DiscardInductive, RecallInductive
<1> QED
  BY <1>1, <1>2, <1>3, PTL DEF Spec
=============================================================================
