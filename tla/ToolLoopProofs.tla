--------------------------- MODULE ToolLoopProofs ---------------------------
(***************************************************************************)
(* For any tools, schemas, budgets and completions: what the tool loop     *)
(* feeds back is answered call by call, proposals are never executed, and  *)
(* the budgets hold.                                                       *)
(***************************************************************************)
EXTENDS ToolLoop, FiniteSetTheorems, WellFoundedInduction, TLAPS

-----------------------------------------------------------------------------
(* Positions.                                                              *)

LEMMA LeastPosition ==
  ASSUME NEW S \in SUBSET Nat, S # {}
  PROVE  \E m \in S : \A j \in S : m <= j
<1>1. PICK m \in S : \A j \in S : ~ (<<j, m>> \in OpToRel(<, Nat))
  BY NatLessThanWellFounded, WFMin
<1>2. \A j \in S : ~ (j < m)
  BY <1>1 DEF OpToRel
<1> QED
  BY <1>2

\* The last of finitely many: what is left of the bound is least there.
LEMMA LastPosition ==
  ASSUME NEW n \in Nat, NEW S \in SUBSET (1..n), S # {}
  PROVE  \E m \in S : \A j \in S : j <= m
<1> DEFINE T == {n - i : i \in S}
<1>1. T \in SUBSET Nat /\ T # {}
  <2>1. \A i \in S : n - i \in Nat
    OBVIOUS
  <2> QED
    BY <2>1
<1>2. PICK t \in T : \A u \in T : t <= u
  <2> HIDE DEF T
  <2> QED
    BY <1>1, LeastPosition
<1>3. PICK m \in S : t = n - m
  BY <1>2
<1>4. ASSUME NEW j \in S PROVE j <= m
  BY <1>2, <1>3, n - j \in T
<1> QED
  BY <1>4

\* Whoever is streamed under a stop tool's name is found: the first of them is.
LEMMA StopCallsFound ==
  ASSUME NEW calls \in Seq(Call), FoundStopCalls(calls) = {}, NEW i \in DOMAIN calls
  PROVE  calls[i].name \notin StopTool
<1> SUFFICES ASSUME calls[i].name \in StopTool PROVE FALSE
  OBVIOUS
<1> DEFINE Named == {j \in DOMAIN calls : calls[j].name = calls[i].name}
<1>1. Named \in SUBSET Nat /\ Named # {}
  OBVIOUS
<1>2. PICK m \in Named : \A j \in Named : m <= j
  <2> HIDE DEF Named
  <2> QED
    BY <1>1, LeastPosition
<1>3. \A j \in 1..(m - 1) : j \in DOMAIN calls /\ j \notin Named
  BY <1>2
<1>4. m \in FindCall(calls, calls[i].name)
  BY <1>2, <1>3 DEF FindCall
<1> QED
  BY <1>2, <1>4 DEF FoundStopCalls

LEMMA FoundInDomain ==
  ASSUME NEW calls \in Seq(Call)
  PROVE  /\ FoundStopCalls(calls) \subseteq DOMAIN calls
         /\ InvalidStopCalls(calls) \subseteq FoundStopCalls(calls)
         /\ \A i \in FoundStopCalls(calls) : calls[i].name \in StopTool
         /\ DOMAIN calls \subseteq Nat
BY DEF FoundStopCalls, InvalidStopCalls, FindCall

\* At least one call is executed, as many at most as the cap allows, and no
\* two alike.
LEMMA CappedCalls ==
  ASSUME NEW calls \in Seq(Call), calls # << >>, MaxToolCalls \in Nat \ {0}
  PROVE  LET kept == CapCalls(DedupeCalls(calls))
         IN  /\ kept \subseteq DOMAIN calls
             /\ kept # {}
             /\ Cardinality(kept) <= MaxToolCalls
             /\ \A i, j \in kept : calls[i] = calls[j] => i = j
<1> DEFINE P == DedupeCalls(calls)
           kept == CapCalls(P)
           Before(i) == {j \in P : j < i}
<1>1. P \in SUBSET (1..Len(calls)) /\ Len(calls) \in Nat /\ 1 \in P /\ Before(1) = {}
  BY DEF DedupeCalls
<1>2. kept = {i \in P : Cardinality(Before(i)) < MaxToolCalls}
  BY DEF CapCalls
<1>3. 1 \in kept
  BY <1>1, <1>2, FS_EmptySet
<1>4. \A i, j \in P : calls[i] = calls[j] => i = j
  <2>1. ASSUME NEW i \in P, NEW j \in P, i < j PROVE calls[i] # calls[j]
    <3>1. i \in 1..(j - 1)
      BY <1>1, <2>1
    <3> QED
      BY <2>1, <3>1 DEF DedupeCalls
  <2> QED
    BY <1>1, <2>1
<1>5. Cardinality(kept) <= MaxToolCalls
  <2> HIDE DEF P
  <2>1. kept \in SUBSET (1..Len(calls)) /\ kept # {}
    BY <1>1, <1>2, <1>3
  <2>2. PICK m \in kept : \A j \in kept : j <= m
    <3> HIDE DEF kept
    <3> QED
      BY <1>1, <2>1, LastPosition
  <2>3. IsFiniteSet(P) /\ Before(m) \in SUBSET P
    <3>1. IsFiniteSet(1..Len(calls))
      BY <1>1, FS_Interval
    <3> QED
      BY <1>1, <3>1, FS_Subset
  <2>4. IsFiniteSet(Before(m)) /\ Cardinality(Before(m)) \in Nat
    <3> HIDE DEF Before
    <3> QED
      BY <2>3, FS_Subset, FS_CardinalityType
  <2>5. Cardinality(Before(m)) < MaxToolCalls
    <3> HIDE DEF kept, Before
    <3> QED
      BY <1>2, <2>2
  <2>6. kept \in SUBSET (Before(m) \cup {m})
    <3>0. P \subseteq Nat
      BY <1>1
    <3>1. ASSUME NEW j \in kept PROVE j \in P /\ m \in P /\ j <= m
      <4> HIDE DEF kept
      <4> QED
        BY <1>2, <2>2, <3>1
    <3>2. ASSUME NEW j \in kept PROVE j \in Before(m) \cup {m}
      <4>1. j \in P /\ m \in P /\ j <= m
        BY <3>1, <3>2
      <4>2. j \in Nat /\ m \in Nat
        BY <3>0, <4>1
      <4> QED
        BY <4>1, <4>2
    <3> QED
      BY <3>2
  <2> HIDE DEF Before, kept
  <2>7. /\ IsFiniteSet(Before(m) \cup {m})
        /\ Cardinality(Before(m) \cup {m}) <= Cardinality(Before(m)) + 1
    <3> DEFINE B == Before(m)
    <3>1. Cardinality(B \cup {m}) = IF m \in B THEN Cardinality(B) ELSE Cardinality(B) + 1
      BY <2>4, FS_AddElement
    <3>2. IsFiniteSet(B \cup {m})
      BY <2>4, FS_AddElement
    <3> QED
      BY <2>4, <3>1, <3>2
  <2>8. Cardinality(kept) <= Cardinality(Before(m) \cup {m}) /\ IsFiniteSet(kept)
    BY <2>6, <2>7, FS_Subset
  <2>9. Cardinality(kept) \in Nat /\ Cardinality(Before(m) \cup {m}) \in Nat
    BY <2>7, <2>8, FS_CardinalityType
  <2> QED
    BY <2>4, <2>5, <2>7, <2>8, <2>9
<1>6. kept \subseteq P /\ P \subseteq DOMAIN calls
  BY <1>1, <1>2
<1> HIDE DEF P, Before
<1> QED
  BY <1>3, <1>4, <1>5, <1>6 DEF P

-----------------------------------------------------------------------------
(* The invariant.                                                          *)

\* Every batch but one that is being executed is answered.
BatchesSettled ==
    \A k \in DOMAIN batches :
        /\ batches[k].kept \subseteq DOMAIN batches[k].calls
        /\ batches[k].answered \subseteq batches[k].kept
        /\ k < Len(batches) \/ loop = "complete" => batches[k].kept = batches[k].answered

\* What is executed has no proposal in it, what stopped the loop no invalid one.
LatestFits ==
    /\ loop \in {"call", "execute"} =>
          batches # << >> /\ Unanswered # {} /\ FoundStopCalls(Latest.calls) = {}
    /\ loop = "execute" => running \in Unanswered
    /\ loop = "stopped" =>
          /\ batches # << >>
          /\ stopCalls = FoundStopCalls(Latest.calls)
          /\ InvalidStopCalls(Latest.calls) = {}

\* A turn adds a batch or ends the loop.
RoundsCounted ==
    /\ Len(batches) <= round
    /\ loop = "complete" => Len(batches) < round
    /\ MaxTurns > 0 => round <= MaxTurns

CallsCapped ==
    \A k \in DOMAIN batches :
        /\ Cardinality(batches[k].kept) <= MaxToolCalls
        /\ \A i, j \in batches[k].kept : batches[k].calls[i] = batches[k].calls[j] => i = j

LoopInv == LoopTypeOK /\ BatchesSettled /\ LatestFits /\ RoundsCounted /\ CallsCapped

LEMMA LoopStart ==
  ASSUME LoopInit
  PROVE  LoopInv
BY ToolLoopAssumption
   DEF LoopInit, LoopInv, LoopTypeOK, Ended, BatchesSettled, LatestFits, RoundsCounted,
       CallsCapped

\* One more batch: what is to be shown of it.
LEMMA BatchAdded ==
  ASSUME LoopInv, NEW b \in BatchRecord, batches' = Append(batches, b),
         b.kept \subseteq DOMAIN b.calls, b.answered \subseteq b.kept,
         Cardinality(b.kept) <= MaxToolCalls,
         \A i, j \in b.kept : b.calls[i] = b.calls[j] => i = j,
         loop = "complete",
         loop' = "complete" => b.kept = b.answered
  PROVE  /\ batches' \in Seq(BatchRecord)
         /\ Len(batches') = Len(batches) + 1
         /\ Latest' = b
         /\ BatchesSettled'
         /\ CallsCapped'
<1>1. /\ batches \in Seq(BatchRecord)
      /\ batches' \in Seq(BatchRecord)
      /\ Len(batches) \in Nat /\ Len(batches') = Len(batches) + 1
      /\ batches'[Len(batches')] = b
      /\ \A k \in DOMAIN batches' \ {Len(batches')} : k \in DOMAIN batches /\ batches'[k] = batches[k]
  BY DEF LoopInv, LoopTypeOK
<1>2. BatchesSettled'
  BY <1>1 DEF LoopInv, BatchesSettled
<1>3. CallsCapped'
  BY <1>1 DEF LoopInv, CallsCapped
<1> QED
  BY <1>1, <1>2, <1>3 DEF Latest

LEMMA CompleteKeeps ==
  ASSUME LoopInv, NEW calls \in Seq(Call), Complete(calls)
  PROVE  LoopInv'
<1> USE ToolLoopAssumption
<1>0. /\ LoopTypeOK /\ BatchesSettled /\ CallsCapped /\ loop = "complete"
      /\ Len(batches) < round /\ round \in Nat \ {0} /\ Len(batches) \in Nat
      /\ MaxTurns > 0 => round <= MaxTurns
  BY DEF LoopInv, LoopTypeOK, RoundsCounted, Complete
<1>1. ASSUME calls = << >>, Answer, UNCHANGED <<round, batches, running, stopCalls>>
      PROVE  LoopInv'
  BY <1>0, <1>1 DEF Answer, LoopInv, LoopTypeOK, Ended, BatchesSettled, LatestFits,
                    RoundsCounted, CallsCapped
<1>2. ASSUME NEW i \in InvalidStopCalls(calls), Reject(calls, i) PROVE LoopInv'
  <2> DEFINE b == [calls |-> calls, kept |-> {i}, answered |-> {i}]
  <2>1. i \in DOMAIN calls /\ i \in Nat
    BY FoundInDomain
  <2>2. b \in BatchRecord /\ b.kept \subseteq DOMAIN b.calls /\ b.answered = b.kept
    BY <2>1 DEF BatchRecord
  <2>3. Cardinality(b.kept) <= MaxToolCalls
    <3>1. Cardinality({i}) = 1
      BY FS_Singleton
    <3> QED
      BY <3>1
  <2>4. \A x, y \in b.kept : b.calls[x] = b.calls[y] => x = y
    OBVIOUS
  <2>5. batches' = Append(batches, b) /\ NextTurn /\ UNCHANGED <<running, stopCalls>>
    BY <1>2 DEF Reject
  <2> HIDE DEF b
  <2>6. /\ batches' \in Seq(BatchRecord) /\ Len(batches') = Len(batches) + 1
        /\ BatchesSettled' /\ CallsCapped'
    BY <1>0, <2>2, <2>3, <2>4, <2>5, BatchAdded
  <2>7. /\ loop' \in {"complete", "exhausted"} /\ round' \in Nat \ {0}
        /\ RoundsCounted'
    BY <1>0, <2>5, <2>6 DEF NextTurn, RoundsCounted
  <2>8. LoopTypeOK'
    BY <1>0, <2>5, <2>6, <2>7 DEF LoopTypeOK, Ended
  <2>9. LatestFits'
    BY <2>7 DEF LatestFits
  <2> QED
    BY <2>6, <2>7, <2>8, <2>9 DEF LoopInv
<1>3. ASSUME InvalidStopCalls(calls) = {}, loop' = "stopped",
             stopCalls' = FoundStopCalls(calls),
             batches' = Append(batches, [calls |-> calls, kept |-> {}, answered |-> {}]),
             UNCHANGED <<round, running>>
      PROVE  LoopInv'
  <2> DEFINE b == [calls |-> calls, kept |-> {}, answered |-> {}]
  <2>1. b \in BatchRecord /\ b.kept = {} /\ b.answered = {} /\ b.calls = calls
    BY DEF BatchRecord
  <2>2. batches' = Append(batches, b)
    BY <1>3
  <2> HIDE DEF b
  <2>3. Cardinality(b.kept) <= MaxToolCalls
    BY <2>1, FS_EmptySet
  <2>4. /\ batches' \in Seq(BatchRecord) /\ Len(batches') = Len(batches) + 1
        /\ Latest' = b /\ BatchesSettled' /\ CallsCapped'
    BY <1>0, <1>3, <2>1, <2>2, <2>3, BatchAdded
  <2>5. FoundStopCalls(calls) \subseteq Nat
    BY FoundInDomain
  <2>6. LoopTypeOK'
    BY <1>0, <1>3, <2>4, <2>5 DEF LoopTypeOK, Ended
  <2>7. batches' # << >>
    BY <1>0, <2>4
  <2>8. LatestFits'
    BY <1>3, <2>1, <2>4, <2>7 DEF LatestFits
  <2>9. RoundsCounted'
    BY <1>0, <1>3, <2>4 DEF RoundsCounted
  <2> QED
    BY <2>4, <2>6, <2>8, <2>9 DEF LoopInv
<1>4. ASSUME calls # << >>, FoundStopCalls(calls) = {}, loop' = "call",
             batches' = Append(batches, [calls |-> calls, kept |-> CapCalls(DedupeCalls(calls)),
                                         answered |-> {}]),
             UNCHANGED <<round, running, stopCalls>>
      PROVE  LoopInv'
  <2> DEFINE K == CapCalls(DedupeCalls(calls))
             b == [calls |-> calls, kept |-> K, answered |-> {}]
  <2>1. /\ K \subseteq DOMAIN calls /\ K # {} /\ Cardinality(K) <= MaxToolCalls
        /\ \A i, j \in K : calls[i] = calls[j] => i = j
    BY <1>4, CappedCalls
  <2> HIDE DEF K
  <2>2. b \in BatchRecord /\ b.kept = K /\ b.answered = {} /\ b.calls = calls
    BY <2>1, FoundInDomain DEF BatchRecord
  <2>3. batches' = Append(batches, b)
    BY <1>4 DEF K
  <2> HIDE DEF b
  <2>4. /\ batches' \in Seq(BatchRecord) /\ Len(batches') = Len(batches) + 1
        /\ Latest' = b /\ BatchesSettled' /\ CallsCapped'
    BY <1>0, <1>4, <2>1, <2>2, <2>3, BatchAdded
  <2>5. LoopTypeOK'
    BY <1>0, <1>4, <2>4 DEF LoopTypeOK, Ended
  <2>6. batches' # << >> /\ Unanswered' # {}
    BY <1>0, <2>1, <2>2, <2>4 DEF Unanswered
  <2>7. LatestFits'
    BY <1>4, <2>2, <2>4, <2>6 DEF LatestFits
  <2>8. RoundsCounted'
    BY <1>0, <1>4, <2>4 DEF RoundsCounted
  <2> QED
    BY <2>4, <2>5, <2>7, <2>8 DEF LoopInv
<1> QED
  BY <1>1, <1>2, <1>3, <1>4 DEF Complete

LEMMA CallToolKeeps ==
  ASSUME LoopInv, CallTool
  PROVE  LoopInv'
<1>1. /\ running' \in Unanswered /\ loop = "call" /\ loop' = "execute"
      /\ UNCHANGED <<round, batches, stopCalls>>
      /\ batches # << >> /\ FoundStopCalls(Latest.calls) = {}
  BY DEF CallTool, LoopInv, LatestFits
<1>2. Latest' = Latest /\ Unanswered' = Unanswered
  BY <1>1 DEF Latest, Unanswered
<1>3. Unanswered \subseteq Nat
  <2>1. Latest \in BatchRecord
    BY <1>1 DEF LoopInv, LoopTypeOK, Latest
  <2> QED
    BY <2>1 DEF BatchRecord, Unanswered
<1>4. LoopTypeOK'
  BY <1>1, <1>3 DEF LoopInv, LoopTypeOK
<1>5. LatestFits'
  BY <1>1, <1>2 DEF LatestFits
<1>6. BatchesSettled' /\ RoundsCounted' /\ CallsCapped'
  BY <1>1 DEF LoopInv, BatchesSettled, RoundsCounted, CallsCapped
<1> QED
  BY <1>4, <1>5, <1>6 DEF LoopInv

LEMMA ToolReturnsKeeps ==
  ASSUME LoopInv, ToolReturns
  PROVE  LoopInv'
<1> DEFINE n == Len(batches)
           b == [batches[n] EXCEPT !.answered = @ \cup {running}]
<1>1. /\ loop = "execute" /\ batches \in Seq(BatchRecord) /\ n \in DOMAIN batches
      /\ n \in Nat /\ running \in Unanswered /\ FoundStopCalls(Latest.calls) = {}
      /\ round \in Nat \ {0} /\ stopCalls \subseteq Nat
  BY DEF LoopInv, LoopTypeOK, LatestFits, ToolReturns
<1>2. Latest = batches[n] /\ Latest \in BatchRecord
  BY <1>1 DEF Latest
<1>3. /\ b \in BatchRecord /\ b.kept = Latest.kept /\ b.calls = Latest.calls
      /\ b.answered = Latest.answered \cup {running}
      /\ running \in Latest.kept
  BY <1>1, <1>2 DEF BatchRecord, Unanswered
<1>4. batches' = [batches EXCEPT ![n] = b] /\ running' = 0 /\ UNCHANGED stopCalls
  BY DEF ToolReturns
<1> HIDE DEF b
<1>5. /\ batches' \in Seq(BatchRecord) /\ Len(batches') = n /\ DOMAIN batches' = DOMAIN batches
      /\ batches'[n] = b /\ \A k \in DOMAIN batches \ {n} : batches'[k] = batches[k]
      /\ DOMAIN batches = 1..n
  BY <1>1, <1>3, <1>4
<1>6. Latest' = b /\ Unanswered' = Unanswered \ {running} /\ batches' # << >>
  BY <1>1, <1>3, <1>5 DEF Latest, Unanswered
<1>7. CASE Unanswered # {running} /\ loop' = "call" /\ UNCHANGED round
  <2>1. LoopTypeOK'
    BY <1>1, <1>4, <1>5, <1>7 DEF LoopInv, LoopTypeOK
  <2>2. Unanswered' # {}
    BY <1>1, <1>6, <1>7
  <2>3. LatestFits'
    BY <1>1, <1>3, <1>6, <1>7, <2>2 DEF LatestFits
  <2>4. RoundsCounted'
    BY <1>5, <1>7 DEF LoopInv, RoundsCounted
  <2>5. BatchesSettled'
    BY <1>2, <1>3, <1>5, <1>7 DEF LoopInv, BatchesSettled
  <2>6. CallsCapped'
    BY <1>2, <1>3, <1>5 DEF LoopInv, CallsCapped
  <2> QED
    BY <2>1, <2>3, <2>4, <2>5, <2>6 DEF LoopInv
<1>8. CASE Unanswered = {running} /\ NextTurn
  <2>1. loop' \in {"complete", "exhausted"} /\ round' \in Nat \ {0} /\ RoundsCounted'
    BY <1>1, <1>5, <1>8, ToolLoopAssumption DEF LoopInv, RoundsCounted, NextTurn
  <2>2. LoopTypeOK'
    BY <1>1, <1>4, <1>5, <2>1 DEF LoopInv, LoopTypeOK, Ended
  <2>3. LatestFits'
    BY <2>1 DEF LatestFits
  <2>4. b.kept = b.answered
    <3>1. Latest.answered \subseteq Latest.kept
      BY <1>1, <1>2 DEF LoopInv, BatchesSettled
    <3> QED
      BY <1>3, <1>8, <3>1 DEF Unanswered
  <2>5. ASSUME NEW k \in DOMAIN batches
        PROVE  /\ batches'[k].kept \subseteq DOMAIN batches'[k].calls
               /\ batches'[k].kept = batches'[k].answered
    <3>1. CASE k = n
      BY <1>1, <1>2, <1>3, <1>5, <2>4, <3>1 DEF LoopInv, BatchesSettled
    <3>2. CASE k # n
      <4>1. k < n /\ batches'[k] = batches[k]
        BY <1>5, <3>2
      <4> QED
        BY <4>1 DEF LoopInv, BatchesSettled
    <3> QED
      BY <3>1, <3>2
  <2>7. BatchesSettled'
    BY <1>5, <2>5 DEF BatchesSettled
  <2>6. CallsCapped'
    BY <1>2, <1>3, <1>5 DEF LoopInv, CallsCapped
  <2> QED
    BY <2>1, <2>2, <2>3, <2>6, <2>7 DEF LoopInv
<1> QED
  BY <1>7, <1>8 DEF ToolReturns

LEMMA LoopStep ==
  ASSUME LoopInv, [LoopNext]_loopVars
  PROVE  LoopInv'
<1>1. CASE LoopFails
  BY <1>1 DEF LoopFails, LoopInv, LoopTypeOK, Ended, BatchesSettled, LatestFits,
              RoundsCounted, CallsCapped, Latest, Unanswered
<1>2. CASE UNCHANGED loopVars
  BY <1>2 DEF loopVars, LoopInv, LoopTypeOK, BatchesSettled, LatestFits, RoundsCounted,
              CallsCapped, Latest, Unanswered
<1> QED
  BY <1>1, <1>2, CompleteKeeps, CallToolKeeps, ToolReturnsKeeps DEF LoopNext

LEMMA LoopInvariant == LoopSpec => []LoopInv
BY LoopStart, LoopStep, PTL DEF LoopSpec

-----------------------------------------------------------------------------
LEMMA LoopInvAnswered == LoopInv => EveryCallAnswered
BY DEF LoopInv, BatchesSettled, EveryCallAnswered

LEMMA LoopInvStops == LoopInv => StopToolsOnlyStop
<1> SUFFICES ASSUME LoopInv PROVE StopToolsOnlyStop
  OBVIOUS
<1>1. ASSUME loop \in {"execute", "stopped"}
      PROVE  /\ Latest.calls \in Seq(Call) /\ Latest.kept \subseteq DOMAIN Latest.calls
             /\ Unanswered \subseteq Latest.kept
  <2>1. batches # << >> /\ batches \in Seq(BatchRecord)
    BY <1>1 DEF LoopInv, LoopTypeOK, LatestFits
  <2>2. Latest \in BatchRecord /\ Latest.kept \subseteq DOMAIN Latest.calls
    BY <2>1 DEF LoopInv, BatchesSettled, Latest
  <2> QED
    BY <2>2 DEF BatchRecord, Unanswered
<1>2. ASSUME loop = "execute" PROVE Latest.calls[running].name \notin StopTool
  <2>1. running \in DOMAIN Latest.calls /\ FoundStopCalls(Latest.calls) = {}
    BY <1>1, <1>2 DEF LoopInv, LatestFits
  <2> QED
    BY <1>1, <1>2, <2>1, StopCallsFound
<1>3. ASSUME loop = "stopped", NEW i \in stopCalls
      PROVE  Latest.calls[i].name \in StopTool /\ Latest.calls[i].args \in ValidArgs
  <2>1. i \in FoundStopCalls(Latest.calls) /\ InvalidStopCalls(Latest.calls) = {}
    BY <1>3 DEF LoopInv, LatestFits
  <2>2. Latest.calls[i].args \in ValidArgs
    BY <2>1 DEF InvalidStopCalls
  <2> QED
    BY <1>1, <1>3, <2>1, <2>2, FoundInDomain
<1> QED
  BY <1>2, <1>3 DEF StopToolsOnlyStop

LEMMA LoopInvBudget == LoopInv => WithinBudget
BY ToolLoopAssumption DEF LoopInv, LoopTypeOK, RoundsCounted, CallsCapped, WithinBudget

\* Whatever the model calls, however it repeats itself and whichever tools
\* fail, no completion is requested with a call that lacks its result.
THEOREM CallsAnswered == LoopSpec => []EveryCallAnswered
BY LoopInvAnswered, LoopInvariant, PTL

\* A proposal is never executed, in whatever batch and at whatever position it
\* is streamed, and an invalid one never ends the loop.
THEOREM StopToolsCorrect == LoopSpec => []StopToolsOnlyStop
BY LoopInvStops, LoopInvariant, PTL

\* Both budgets hold for any bounds: the turns of the loop, and the calls of a
\* turn, none of which is run twice.
THEOREM BudgetKept == LoopSpec => []WithinBudget
BY LoopInvBudget, LoopInvariant, PTL
=============================================================================
