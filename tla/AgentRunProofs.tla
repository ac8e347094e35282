--------------------------- MODULE AgentRunProofs ---------------------------
(***************************************************************************)
(* What an agent run may do with its tools and its time, proved for any    *)
(* set of tool calls, any budget and any deadlines.                        *)
(***************************************************************************)
EXTENDS AgentRun, FiniteSetTheorems, WellFoundedInduction, TLAPS

Labels == {"loop", "asking", "tools", "finalize", "finalizing", "continuing",
           "done", "cancelled"}

LEMMA BoundTypes ==
  /\ MaxBatch \in Nat /\ MaxModelTurns \in Nat /\ MaxToolCost \in Nat
  /\ MaxDeep \in Nat /\ MaxCorrections \in Nat /\ MaxContinuations \in Nat
  /\ WorkEnd \in Nat /\ RunEnd \in Nat /\ DeepWork \in Nat /\ WorkEnd < RunEnd
  BY RunAssumption

\* A request is a function on some 1..n.
LEMMA RequestShape ==
  ASSUME NEW r \in Requests
  PROVE  \E n \in 1..MaxBatch : r \in [1..n -> Calls]
  BY DEF Requests

\* The batch's calls and its bill.
LEMMA BillType ==
  ASSUME NEW C, C \subseteq Calls
  PROVE  Bill(C) \in Nat /\ DeepIn(C) \in Nat
<1>1. IsFiniteSet(C) /\ IsFiniteSet({c \in C : ToolOf[c] \in {Report, Deep}})
      /\ IsFiniteSet({c \in C : ToolOf[c] = Deep})
  BY RunAssumption, FS_Subset
<1>2. Cardinality(C) \in Nat
  BY <1>1, FS_CardinalityType
<1>3. Cardinality({c \in C : ToolOf[c] \in {Report, Deep}}) \in Nat
  BY <1>1, FS_CardinalityType
<1>4. Cardinality({c \in C : ToolOf[c] = Deep}) \in Nat
  BY <1>1, FS_CardinalityType
<1> QED
  BY <1>2, <1>3, <1>4 DEF Bill, DeepIn

LEMMA CallsAtType ==
  ASSUME TypeOK, NEW S, S \subseteq batch
  PROVE  CallsAt(request, S) \subseteq Calls
  BY RequestShape DEF TypeOK, ToolTypes, CallsAt

\* Closing a batch keeps the types, whatever part of it counts as research.
LEMMA CloseBatchType ==
  ASSUME TypeOK, NEW S, S \subseteq batch, CloseBatch(S), request' = request
  PROVE  /\ cost' \in Nat /\ deep' \in Nat /\ attempted' \subseteq STRING
         /\ replies' \in [DOMAIN request -> Nat]
         /\ batch' = {} /\ results' \in [batch' -> Result]
<1>1. CallsAt(request, batch) \subseteq Calls /\ CallsAt(request, S) \subseteq Calls
  BY CallsAtType
<1>2. cost' \in Nat /\ deep' \in Nat
  BY <1>1, BillType DEF CloseBatch, TypeOK, RunTypes, ToolTypes
<1>3. \A i \in batch : request[i] \in Calls
  BY RequestShape DEF TypeOK, ToolTypes
<1>4. attempted' \subseteq STRING
  BY <1>3, RunAssumption DEF CloseBatch, TypeOK, RunTypes, ToolTypes, ToolAt
<1>5. replies' \in [DOMAIN request -> Nat]
  BY DEF CloseBatch, TypeOK, RunTypes, ToolTypes, ReplyTo
<1>6. batch' = {} /\ results' \in [batch' -> Result]
  BY DEF CloseBatch
<1> QED
  BY <1>2, <1>4, <1>5, <1>6

\* A correction is remembered, or the run stops for the given reason.
LEMMA CorrectType ==
  ASSUME RunTypes, NEW kind \in CorrectionKind, NEW reason \in StopReason,
         Correct(kind, reason)
  PROVE  kinds' \subseteq CorrectionKind /\ stop' \in StopReason
         /\ pc' \in {"loop", "finalize"}
<1>1. kinds \subseteq CorrectionKind /\ stop \in StopReason
  BY DEF RunTypes
<1> QED
  BY <1>1 DEF Correct, Goto, Break

\* A step that starts, settles or leaves alone the tools only.
LEMMA OthersType ==
  ASSUME TypeOK, UNCHANGED toolState, pc' \notin {"tools"}, batch = {} PROVE
         ToolTypes' /\ (pc' = "tools") = (batch' # {})
  BY DEF TypeOK, ToolTypes, toolState

\* The run's counters and its bookkeeping keep their shape (AgentRun.TypeOK).
THEOREM AgentRunTypes == Spec => []TypeOK
<1> USE BoundTypes
<1>1. Init => TypeOK
  BY DEF Init, TypeOK, RunTypes, ToolTypes, Result, StopReason
<1>2. TypeOK /\ [Next]_vars => TypeOK'
  <2> SUFFICES ASSUME TypeOK, [Next]_vars PROVE TypeOK'
    OBVIOUS
  <2> USE DEF TypeOK
  <2>1. CASE StartTurn
    BY <2>1 DEF RunTypes, ToolTypes, StartTurn, Goto, budgets
  <2>2. CASE LoopEnds \/ TurnFails
    BY <2>2, OthersType
       DEF RunTypes, LoopEnds, TurnFails, Break, budgets, StopReason
  <2>3. CASE AskDuplicates
    <3>1. PICK r \in Requests : request' = r /\ replies' = SkipAllBut(r, {})
      BY <2>3 DEF AskDuplicates
    <3>2. ToolTypes' /\ batch' = {}
      BY <2>3, <3>1 DEF AskDuplicates, SkipAllBut, ToolTypes
    <3>3. RunTypes' /\ pc' \in {"loop", "finalize"}
      <4>1. kinds' \subseteq CorrectionKind /\ stop' \in StopReason
            /\ pc' \in {"loop", "finalize"}
        <5>1. "duplicate_tool" \in CorrectionKind /\ "duplicate_tool_call" \in StopReason
          BY DEF CorrectionKind, StopReason
        <5> QED
          BY <2>3, <5>1, CorrectType DEF AskDuplicates
      <4> QED
        BY <2>3, <4>1 DEF AskDuplicates, RunTypes
    <3> QED
      BY <3>2, <3>3
  <2>4. CASE AskUnaffordable
    <3>1. PICK r \in Requests : request' = r /\ replies' = SkipAllBut(r, {})
      BY <2>4 DEF AskUnaffordable
    <3>2. available' \subseteq Eligible
      BY <2>4 DEF ToolTypes, AskUnaffordable
    <3>3. ToolTypes' /\ batch' = {}
      BY <2>4, <3>1, <3>2 DEF AskUnaffordable, SkipAllBut, ToolTypes
    <3>4. RunTypes' /\ pc' \in {"loop", "finalize"}
      BY <2>4 DEF AskUnaffordable, Goto, Break, RunTypes, StopReason
    <3> QED
      BY <3>3, <3>4
  <2>5. CASE AskTools
    <3>1. PICK r, S :
            /\ r \in Requests /\ S \in (SUBSET Fresh(r)) \ {{}}
            /\ request' = r /\ replies' = SkipAllBut(r, S)
            /\ batch' = S /\ results' = Waiting(S)
            /\ seen' = seen \union CallsAt(r, S)
      BY <2>5 DEF AskTools
    <3>2. S \subseteq DOMAIN r /\ S # {}
      BY <3>1 DEF Fresh
    <3>3. CallsAt(r, S) \subseteq Calls
      <4>1. PICK n \in 1..MaxBatch : r \in [1..n -> Calls]
        BY <3>1, RequestShape
      <4> QED
        BY <3>2, <4>1 DEF CallsAt
    <3>4. replies' \in [DOMAIN request' -> Nat] /\ results' \in [batch' -> Result]
      BY <3>1 DEF SkipAllBut, Waiting, Result
    <3>5. ToolTypes'
      BY <2>5, <3>1, <3>2, <3>3, <3>4 DEF AskTools, ToolTypes
    <3>6. RunTypes' /\ pc' = "tools"
      BY <2>5 DEF AskTools, Goto, RunTypes
    <3> QED
      BY <3>1, <3>5, <3>6
  <2>6. CASE BeginEdit
    <3>1. results' \in [batch -> Result]
      BY <2>6 DEF BeginEdit, ToolTypes, Result
    <3>2. executed' \in [Calls -> Nat]
      <4>1. PICK S : Start(S)
        BY <2>6 DEF BeginEdit
      <4> QED
        BY <4>1 DEF Start, ToolTypes
    <3> QED
      BY <2>6, <3>1, <3>2 DEF BeginEdit, RunTypes, ToolTypes, budgets
  <2>7. CASE BeginReads
    <3>1. results' \in [batch -> Result] /\ executed' \in [Calls -> Nat]
      BY <2>7 DEF BeginReads, Start, ToolTypes, Result
    <3> QED
      BY <2>7, <3>1 DEF BeginReads, RunTypes, ToolTypes, budgets
  <2>8. CASE ToolReturns
    <3>1. results' \in [batch -> Result]
      BY <2>8 DEF ToolReturns, ToolTypes, Result
    <3> QED
      BY <2>8, <3>1 DEF ToolReturns, RunTypes, ToolTypes, budgets
  <2>9. CASE BatchDone
    <3>1. CloseBatch(DeepCounted) /\ DeepCounted \subseteq batch
      BY <2>9 DEF BatchDone, DeepCounted
    <3>2. request' = request
      BY <2>9 DEF BatchDone
    <3>3. stop' \in StopReason /\ pc' \in {"loop", "finalize", "done"}
          /\ status' \in {"running", "success", "recovered", "fallback"}
      BY <2>9 DEF RunTypes, BatchDone, Goto, Break, StopReason
    <3>4. RunTypes'
      BY <2>9, <3>1, <3>2, <3>3, CloseBatchType DEF RunTypes, BatchDone
    <3>5. ToolTypes' /\ batch' = {}
      BY <2>9, <3>1, <3>2, CloseBatchType DEF ToolTypes, BatchDone
    <3> QED
      BY <3>3, <3>4, <3>5
  <2>10. CASE BatchTimesOut
    <3>1. CloseBatch(batch) /\ request' = request
      BY <2>10 DEF BatchTimesOut
    <3>2. RunTypes' /\ pc' = "finalize"
      BY <2>10, <3>1, CloseBatchType DEF RunTypes, BatchTimesOut, Break, StopReason
    <3>3. ToolTypes' /\ batch' = {}
      BY <2>10, <3>1, CloseBatchType DEF ToolTypes, BatchTimesOut
    <3> QED
      BY <3>2, <3>3
  <2>11. CASE TextAnswer
    <3>1. "answer_repair" \in CorrectionKind /\ "final_text" \in StopReason
      BY DEF CorrectionKind, StopReason
    <3>2. kinds' \subseteq CorrectionKind /\ stop' \in StopReason
      BY <2>11, <3>1 DEF RunTypes, TextAnswer
    <3>3. pc' \in {"loop", "done", "continuing"} /\ continuations' \in 0..MaxContinuations
      BY <2>11 DEF RunTypes, TextAnswer, Deliver, MayContinue, Goto
    <3>4. RunTypes'
      BY <2>11, <3>2, <3>3 DEF RunTypes, TextAnswer
    <3> QED
      BY <2>11, <3>3, <3>4, OthersType DEF TextAnswer
  <2>12. CASE EmptyTurn
    <3>1. kinds' \subseteq CorrectionKind /\ stop' \in StopReason
          /\ pc' \in {"loop", "finalize"}
      <4>1. "empty_turn" \in CorrectionKind /\ "empty_turn" \in StopReason
        BY DEF CorrectionKind, StopReason
      <4> QED
        BY <2>12, <4>1, CorrectType DEF EmptyTurn
    <3>2. RunTypes'
      BY <2>12, <3>1 DEF EmptyTurn, RunTypes
    <3> QED
      BY <2>12, <3>1, <3>2, OthersType DEF EmptyTurn
  <2>13. CASE Finalize
    BY <2>13, OthersType DEF RunTypes, Finalize, Goto, budgets
  <2>14. CASE FinalFails \/ FinalText \/ ContinuationEnds
    BY <2>14, OthersType DEF RunTypes, FinalFails, FinalText, ContinuationEnds,
                 Deliver, MayContinue, Goto
  <2>15. CASE Tick
    BY <2>15 DEF RunTypes, ToolTypes, Tick, budgets, toolState
  <2>16. CASE Cancelled \/ UNCHANGED vars
    BY <2>16 DEF RunTypes, ToolTypes, Cancelled, Goto, vars, budgets, toolState
  <2> QED
    BY <2>1, <2>2, <2>3, <2>4, <2>5, <2>6, <2>7, <2>8, <2>9, <2>10, <2>11, <2>12,
       <2>13, <2>14, <2>15, <2>16 DEF Next, Terminated
<1> QED
  BY <1>1, <1>2, PTL DEF Spec

-----------------------------------------------------------------------------
(* Every admitted signature is new and leaves a trace in seen; within an    *)
(* open batch, what has not been started yet was never started before.      *)

OnceInv ==
  /\ \A c \in Calls : executed[c] <= 1 /\ (executed[c] > 0 => c \in seen)
  /\ \A i \in batch : request[i] \in seen
  /\ \A i, j \in batch : request[i] = request[j] => i = j
  /\ \A i \in batch : results[i] = "waiting" => executed[request[i]] = 0
  /\ \A i, j \in batch \ EditsIn(batch) :
        results[i] = "waiting" => results[j] = "waiting"

\* Only these variables matter to OnceInv.
onceVars == <<request, batch, results, seen, executed>>

LEMMA OnceUnchanged ==
  ASSUME OnceInv, UNCHANGED onceVars
  PROVE  OnceInv'
  BY DEF OnceInv, onceVars, EditsIn, ToolAt

\* With no batch open only what was started has to be remembered.
LEMMA OnceClosed ==
  ASSUME OnceInv, batch' = {}, seen' = seen, executed' = executed
  PROVE  OnceInv'
  BY DEF OnceInv, EditsIn

\* The batch's members are calls.
LEMMA BatchCalls ==
  ASSUME TypeOK
  PROVE  \A i \in batch : request[i] \in Calls
  BY RequestShape DEF TypeOK, ToolTypes

\* Starting calls that are still waiting starts each of them once.
LEMMA StartOnce ==
  ASSUME TypeOK, OnceInv, NEW S, S \subseteq batch, Start(S),
         \A i \in S : results[i] = "waiting",
         UNCHANGED <<request, batch, seen>>,
         results' \in [batch -> Result],
         \A i \in S : results'[i] # "waiting",
         \A i \in batch \ S : results'[i] = "waiting" => results[i] = "waiting",
         \A i, j \in batch \ EditsIn(batch) :
            results'[i] = "waiting" => results'[j] = "waiting"
  PROVE  OnceInv'
<1>1. \A c \in Calls : executed'[c] = IF \E i \in S : c = request[i]
                                      THEN executed[c] + 1 ELSE executed[c]
  BY DEF Start, CallsAt
<1>2. \A i \in batch : request[i] \in Calls
  BY BatchCalls
<1>3. executed \in [Calls -> Nat]
  BY DEF TypeOK, ToolTypes
<1>4. \A c \in Calls : executed'[c] <= 1 /\ (executed'[c] > 0 => c \in seen')
  <2> SUFFICES ASSUME NEW c \in Calls
               PROVE  executed'[c] <= 1 /\ (executed'[c] > 0 => c \in seen')
    OBVIOUS
  <2>1. CASE \E i \in S : c = request[i]
    <3>1. executed[c] = 0 /\ c \in seen
      BY <2>1 DEF OnceInv
    <3> QED
      BY <2>1, <3>1, <1>1
  <2>2. CASE ~ \E i \in S : c = request[i]
    BY <2>2, <1>1 DEF OnceInv
  <2> QED
    BY <2>1, <2>2
<1>5. \A i \in batch : results'[i] = "waiting" => executed'[request[i]] = 0
  <2> SUFFICES ASSUME NEW i \in batch, results'[i] = "waiting"
               PROVE  executed'[request[i]] = 0
    OBVIOUS
  <2>1. i \notin S /\ results[i] = "waiting"
    OBVIOUS
  <2>2. ~ \E j \in S : request[i] = request[j]
    BY <2>1 DEF OnceInv
  <2> QED
    BY <1>1, <1>2, <2>1, <2>2 DEF OnceInv
<1> QED
  BY <1>4, <1>5 DEF OnceInv, EditsIn, ToolAt

\* A call of a batch was never asked for before (AskTools).
LEMMA AskOnce ==
  ASSUME TypeOK, OnceInv, AskTools
  PROVE  OnceInv'
<1>1. PICK r, S :
        /\ r \in Requests /\ S \in (SUBSET Fresh(r)) \ {{}}
        /\ request' = r /\ batch' = S /\ results' = Waiting(S)
        /\ seen' = seen \union CallsAt(r, S)
  BY DEF AskTools
<1>2. executed' = executed
  BY DEF AskTools
<1>3. PICK n \in 1..MaxBatch : r \in [1..n -> Calls]
  BY <1>1, RequestShape
<1>4. S \subseteq 1..n /\ n \in Nat
  BY <1>1, <1>3, BoundTypes DEF Fresh
<1>5. \A i \in S : r[i] \in Calls /\ r[i] \notin seen
  BY <1>1, <1>3, <1>4 DEF Fresh
<1>6. \A i, j \in S : r[i] = r[j] => i = j
  <2> SUFFICES ASSUME NEW i \in S, NEW j \in S, r[i] = r[j], i # j
               PROVE  FALSE
    OBVIOUS
  <2>1. i \in Nat /\ j \in Nat /\ i >= 1 /\ j >= 1
    BY <1>4
  <2>2. (\A k \in 1..(i-1) : r[k] # r[i]) /\ (\A k \in 1..(j-1) : r[k] # r[j])
    BY <1>1 DEF Fresh
  <2>3. CASE i < j
    <3>1. i \in 1..(j-1)
      BY <2>1, <2>3
    <3> QED
      BY <2>2, <3>1
  <2>4. CASE j < i
    <3>1. j \in 1..(i-1)
      BY <2>1, <2>4
    <3> QED
      BY <2>2, <3>1
  <2> QED
    BY <2>1, <2>3, <2>4
<1>7. \A c \in Calls : executed[c] <= 1 /\ (executed[c] > 0 => c \in seen')
  BY <1>1 DEF OnceInv
<1>8. \A i \in S : executed[r[i]] = 0
  BY <1>5 DEF OnceInv, TypeOK, ToolTypes
<1>9. \A i \in S : r[i] \in seen' /\ results'[i] = "waiting"
  BY <1>1 DEF CallsAt, Waiting
<1> QED
  BY <1>1, <1>2, <1>6, <1>7, <1>8, <1>9 DEF OnceInv, EditsIn, ToolAt

LEMMA OnceInductive == TypeOK /\ OnceInv /\ [Next]_vars => OnceInv'
<1> SUFFICES ASSUME TypeOK, OnceInv, [Next]_vars PROVE OnceInv'
  OBVIOUS
<1>1. CASE StartTurn \/ AskDuplicates \/ AskUnaffordable
  <2>1. batch = {}
    BY <1>1 DEF TypeOK, StartTurn, AskDuplicates, AskUnaffordable
  <2> QED
    BY <1>1, <2>1, OnceClosed DEF StartTurn, AskDuplicates, AskUnaffordable
<1>2. CASE AskTools
  BY <1>2, AskOnce
<1>3. CASE BeginEdit
  <2>1. PICK i \in EditsIn(batch) :
          /\ results[i] = "waiting"
          /\ results' = [results EXCEPT ![i] = "running"] /\ Start({i})
    BY <1>3 DEF BeginEdit
  <2>2. UNCHANGED <<request, batch, seen>>
    BY <1>3 DEF BeginEdit
  <2>3. i \in batch /\ \A j \in batch : j # i => results'[j] = results[j]
    BY <2>1 DEF EditsIn, TypeOK, ToolTypes
  <2>4. results' \in [batch -> Result] /\ results'[i] # "waiting"
    BY <2>1, <2>3 DEF TypeOK, ToolTypes, Result
  <2>5. \A k, j \in batch \ EditsIn(batch) :
            results'[k] = "waiting" => results'[j] = "waiting"
    BY <2>1, <2>3 DEF OnceInv
  <2> QED
    BY <2>1, <2>2, <2>3, <2>4, <2>5, StartOnce
<1>4. CASE BeginReads
  <2> DEFINE blocked == IF \E j \in EditsIn(batch) : results[j] = "failed"
                        THEN {i \in batch : ToolAt(i) = Report} ELSE {}
             reads == batch \ (EditsIn(batch) \union blocked)
  <2>1. /\ EditsReturned
        /\ \E i \in batch : ToolAt(i) # Edit /\ results[i] = "waiting"
        /\ results' = [i \in batch |-> IF i \in reads THEN "running"
                                       ELSE IF i \in blocked THEN "blocked"
                                       ELSE results[i]]
        /\ Start(reads) /\ UNCHANGED <<request, batch, seen>>
    BY <1>4 DEF BeginReads
  <2>2. \A i \in batch \ EditsIn(batch) : results[i] = "waiting"
    BY <2>1 DEF OnceInv, EditsIn
  <2>3. \A i \in EditsIn(batch) : results[i] # "waiting" /\ i \notin blocked
    BY <2>1 DEF EditsReturned, Settled, EditsIn, Edit, Report
  <2>4. \A i \in batch : results'[i] # "waiting"
    BY <2>1, <2>3
  <2>5. results' \in [batch -> Result]
    BY <2>1 DEF TypeOK, ToolTypes, Result
  <2> HIDE DEF reads, blocked
  <2>6. reads \subseteq batch \ EditsIn(batch)
    BY DEF reads
  <2> QED
    BY <2>1, <2>2, <2>4, <2>5, <2>6, StartOnce
<1>5. CASE ToolReturns
  <2>1. PICK i \in batch, res \in {"ok", "rendered", "failed"} :
          results[i] = "running" /\ results' = [results EXCEPT ![i] = res]
    BY <1>5 DEF ToolReturns
  <2>2. \A j \in batch : (results'[j] = "waiting") = (results[j] = "waiting")
    BY <2>1 DEF TypeOK, ToolTypes
  <2>3. UNCHANGED <<request, batch, seen, executed>>
    BY <1>5 DEF ToolReturns
  <2> QED
    BY <2>2, <2>3 DEF OnceInv, EditsIn, ToolAt
<1>6. CASE BatchDone \/ BatchTimesOut
  BY <1>6, OnceClosed DEF BatchDone, BatchTimesOut, CloseBatch
<1>7. CASE LoopEnds \/ TurnFails \/ TextAnswer \/ EmptyTurn \/ Finalize \/ FinalFails
           \/ FinalText \/ ContinuationEnds \/ Tick \/ Cancelled \/ UNCHANGED vars
  <2>1. UNCHANGED onceVars
    BY <1>7 DEF onceVars, LoopEnds, TurnFails, TextAnswer, EmptyTurn, Finalize,
       FinalFails, FinalText, ContinuationEnds, Tick, Cancelled, vars, toolState
  <2> QED
    BY <2>1, OnceUnchanged
<1> QED
  BY <1>1, <1>2, <1>3, <1>4, <1>5, <1>6, <1>7 DEF Next, Terminated

\* However often and in whatever words the model asks again, no signature is
\* started twice in a run (AgentRun.SameCallOnce).
THEOREM NoRepeatedCall == Spec => []SameCallOnce
<1>1. Init => OnceInv
  BY DEF Init, OnceInv, EditsIn
<1>2. OnceInv => SameCallOnce
  BY DEF OnceInv, SameCallOnce
<1> QED
  BY <1>1, <1>2, OnceInductive, AgentRunTypes, PTL DEF Spec

-----------------------------------------------------------------------------
(* Between the turn that reads the channel and the end of its batch, the    *)
(* read is in the batch; afterwards its tool is among the attempted ones.   *)

Reads(c) == ToolOf[c] = Context
ContextInv ==
  /\ \A c, d \in seen : Reads(c) /\ Reads(d) => c = d
  /\ \A c \in seen : Reads(c) => \/ Context \in attempted
                                 \/ \E i \in batch : request[i] = c

LEMMA ContextKept ==
  ASSUME ContextInv, UNCHANGED <<seen, attempted>>,
         batch = {} \/ UNCHANGED <<request, batch>>
  PROVE  ContextInv'
  BY DEF ContextInv, Reads

LEMMA AskContext ==
  ASSUME TypeOK, ContextInv, AskTools
  PROVE  ContextInv'
<1>1. PICK r, S :
        /\ r \in Requests /\ S \in (SUBSET Fresh(r)) \ {{}}
        /\ request' = r /\ batch' = S
        /\ seen' = seen \union CallsAt(r, S)
  BY DEF AskTools
<1>2. attempted' = attempted /\ batch = {}
  BY DEF AskTools, TypeOK
<1>3. PICK n \in 1..MaxBatch : r \in [1..n -> Calls]
  BY <1>1, RequestShape
<1>4. S \subseteq 1..n /\ n \in Nat
  BY <1>1, <1>3, BoundTypes DEF Fresh
<1>5. \A i \in S : /\ r[i] \notin seen
                   /\ Reads(r[i]) => Context \notin attempted
                   /\ Reads(r[i]) => \A j \in 1..(i-1) : Reads(r[j]) => r[j] \in seen
  BY <1>1 DEF Fresh, Reads
<1>6. \A i, j \in S : Reads(r[i]) /\ Reads(r[j]) => i = j
  <2> SUFFICES ASSUME NEW i \in S, NEW j \in S, Reads(r[i]), Reads(r[j]), i < j
               PROVE  FALSE
    BY <1>4
  <2>1. i \in 1..(j-1)
    BY <1>4
  <2> QED
    BY <2>1, <1>5
<1>7. \A c \in seen : Reads(c) => Context \in attempted
  BY <1>2 DEF ContextInv
<1>8. \A c, d \in seen' : Reads(c) /\ Reads(d) => c = d
  <2> SUFFICES ASSUME NEW c \in seen', NEW d \in seen', Reads(c), Reads(d)
               PROVE  c = d
    OBVIOUS
  <2>1. c \in seen \/ \E i \in S : c = r[i]
    BY <1>1 DEF CallsAt
  <2>2. d \in seen \/ \E i \in S : d = r[i]
    BY <1>1 DEF CallsAt
  <2> QED
    BY <2>1, <2>2, <1>5, <1>6, <1>7 DEF ContextInv
<1>9. \A c \in seen' : Reads(c) => \/ Context \in attempted'
                                   \/ \E i \in batch' : request'[i] = c
  BY <1>1, <1>2, <1>7 DEF CallsAt
<1> QED
  BY <1>8, <1>9 DEF ContextInv, Reads

LEMMA ContextInductive == TypeOK /\ ContextInv /\ [Next]_vars => ContextInv'
<1> SUFFICES ASSUME TypeOK, ContextInv, [Next]_vars PROVE ContextInv'
  OBVIOUS
<1>1. CASE AskTools
  BY <1>1, AskContext
<1>2. CASE BatchDone \/ BatchTimesOut
  <2>1. attempted' = attempted \union {ToolAt(i) : i \in batch} /\ seen' = seen
    BY <1>2 DEF BatchDone, BatchTimesOut, CloseBatch
  <2> QED
    BY <2>1 DEF ContextInv, Reads, ToolAt
<1>3. CASE StartTurn \/ AskDuplicates \/ AskUnaffordable
  <2>1. batch = {} /\ UNCHANGED <<seen, attempted>>
    BY <1>3 DEF TypeOK, StartTurn, AskDuplicates, AskUnaffordable
  <2> QED
    BY <2>1, ContextKept
<1>4. CASE BeginEdit \/ BeginReads \/ ToolReturns \/ LoopEnds \/ TurnFails
           \/ TextAnswer \/ EmptyTurn \/ Finalize \/ FinalFails \/ FinalText
           \/ ContinuationEnds \/ Tick \/ Cancelled \/ UNCHANGED vars
  <2>1. UNCHANGED <<seen, attempted, request, batch>>
    BY <1>4 DEF BeginEdit, BeginReads, ToolReturns, LoopEnds, TurnFails, TextAnswer,
       EmptyTurn, Finalize, FinalFails, FinalText, ContinuationEnds, Tick, Cancelled,
       vars, toolState
  <2> QED
    BY <2>1, ContextKept
<1> QED
  BY <1>1, <1>2, <1>3, <1>4 DEF Next, Terminated

\* A response reads the channel's context once, also when the model asks for
\* two different reads in one turn (AgentRun.ContextReadOnce).
THEOREM OneContextRead == Spec => []ContextReadOnce
<1>1. Init => OnceInv /\ ContextInv
  BY DEF Init, OnceInv, ContextInv, EditsIn
<1>2. OnceInv /\ ContextInv => ContextReadOnce
  BY DEF OnceInv, ContextInv, ContextReadOnce, Reads
<1> QED
  BY <1>1, <1>2, OnceInductive, ContextInductive, AgentRunTypes, PTL DEF Spec

-----------------------------------------------------------------------------
(* Tool messages. *)

LEMMA AnsweredInductive == TypeOK /\ EveryCallAnswered /\ [Next]_vars => EveryCallAnswered'
<1> SUFFICES ASSUME TypeOK, EveryCallAnswered, [Next]_vars PROVE EveryCallAnswered'
  OBVIOUS
<1>1. CASE StartTurn
  BY <1>1 DEF StartTurn, EveryCallAnswered
<1>2. CASE AskDuplicates \/ AskUnaffordable
  <2>1. PICK r \in Requests : request' = r /\ replies' = SkipAllBut(r, {})
    BY <1>2 DEF AskDuplicates, AskUnaffordable
  <2>2. pc' \in {"loop", "finalize"}
    BY <1>2 DEF AskDuplicates, AskUnaffordable, Correct, Goto, Break
  <2> QED
    BY <2>1, <2>2 DEF EveryCallAnswered, SkipAllBut
<1>3. CASE AskTools
  <2>1. PICK r, S : request' = r /\ replies' = SkipAllBut(r, S) /\ batch' = S
    BY <1>3 DEF AskTools
  <2>2. pc' = "tools"
    BY <1>3 DEF AskTools, Goto
  <2> QED
    BY <2>1, <2>2 DEF EveryCallAnswered, SkipAllBut
<1>4. CASE BatchDone \/ BatchTimesOut
  <2>1. replies' = ReplyTo(batch) /\ request' = request /\ pc = "tools"
    BY <1>4 DEF BatchDone, BatchTimesOut, CloseBatch
  <2>2. pc' \in {"loop", "finalize", "done"}
    BY <1>4 DEF BatchDone, BatchTimesOut, Goto, Break
  <2> QED
    BY <2>1, <2>2 DEF EveryCallAnswered, ReplyTo, TypeOK, ToolTypes
<1>5. CASE BeginEdit \/ BeginReads \/ ToolReturns
  <2>1. UNCHANGED <<pc, request, replies, batch>>
    BY <1>5 DEF BeginEdit, BeginReads, ToolReturns
  <2> QED
    BY <2>1 DEF EveryCallAnswered
<1>6. CASE Cancelled \/ Tick \/ UNCHANGED vars
  <2>1. UNCHANGED <<request, replies, batch>> /\ (pc' = pc \/ pc' = "cancelled")
        /\ (pc' = pc \/ pc \notin {"cancelled"})
    BY <1>6 DEF Cancelled, Tick, vars, toolState, Goto
  <2> QED
    BY <2>1 DEF EveryCallAnswered, TypeOK
<1>7. CASE LoopEnds \/ TurnFails \/ TextAnswer \/ EmptyTurn \/ Finalize \/ FinalFails
           \/ FinalText \/ ContinuationEnds
  <2>1. UNCHANGED <<request, replies, batch>> /\ pc \notin {"tools", "cancelled"}
    BY <1>7 DEF LoopEnds, TurnFails, TextAnswer, EmptyTurn, Finalize, FinalFails,
       FinalText, ContinuationEnds, toolState
  <2>2. pc' \notin {"tools", "cancelled"}
    BY <1>7 DEF LoopEnds, TurnFails, TextAnswer, EmptyTurn, Finalize, FinalFails,
       FinalText, ContinuationEnds, Deliver, Correct, Goto, Break
  <2> QED
    BY <2>1, <2>2 DEF EveryCallAnswered
<1> QED
  BY <1>1, <1>2, <1>3, <1>4, <1>5, <1>6, <1>7 DEF Next, Terminated

\* No model call is made over an unanswered or twice answered tool call
\* (AgentRun.EveryCallAnswered).
THEOREM AllCallsAnswered == Spec => []EveryCallAnswered
<1>1. Init => EveryCallAnswered
  BY DEF Init, EveryCallAnswered
<1> QED
  BY <1>1, AnsweredInductive, AgentRunTypes, PTL DEF Spec

-----------------------------------------------------------------------------
(* Time.  Work never outlasts WorkEnd unless the run began after it, so     *)
(* that whatever breaks the loop leaves the reserve for the final pass.     *)

Stopped == stop \notin {"none", "final_text"}
FinalInv ==
  /\ pc \in {"asking", "tools"} => now <= WorkEnd
  /\ pc = "loop" => now <= WorkEnd \/ now = begin
  /\ pc = "finalize" =>
        Stopped /\ (now <= WorkEnd \/ (now = begin /\ stop = "deadline"))
  /\ pc = "finalizing" => Stopped /\ finals = 1
  /\ pc = "continuing" => \/ stop = "final_text" /\ status = "success"
                          \/ Stopped /\ finals = 1
  /\ FinalPass

\* What is left to show when a step breaks the loop.
LEMMA BreakFinal ==
  ASSUME FinalInv, NEW reason, Break(reason), reason \notin {"none", "final_text"},
         finals = 0, UNCHANGED <<now, begin, finals>>,
         now <= WorkEnd \/ (now = begin /\ reason = "deadline")
  PROVE  FinalInv'
<1>1. pc' = "finalize" /\ stop' = reason
  BY DEF Break
<1>2. Stopped' /\ FinalPass'
  BY <1>1 DEF Stopped, FinalPass
<1> QED
  BY <1>1, <1>2 DEF FinalInv

LEMMA FinalInductive == TypeOK /\ FinalInv /\ [Next]_vars => FinalInv'
<1> SUFFICES ASSUME TypeOK, FinalInv, [Next]_vars PROVE FinalInv'
  OBVIOUS
<1> USE BoundTypes DEF FinalInv, FinalPass, Stopped
<1>1. /\ now \in Nat /\ begin \in 0..now /\ finals \in 0..1
      /\ pc \notin {"done", "continuing", "finalizing", "cancelled"} => finals = 0
  BY DEF TypeOK, RunTypes
<1>2. CASE StartTurn
  BY <1>2, <1>1 DEF StartTurn, CanStartTurn, Goto
<1>3. CASE LoopEnds
  <2>1. PICK reason \in {"deadline", "model_turn_budget"} :
          Break(reason) /\ (now >= WorkEnd => reason = "deadline")
    BY <1>3 DEF LoopEnds
  <2>2. now <= WorkEnd \/ (now = begin /\ reason = "deadline")
    <3>1. now <= WorkEnd \/ now = begin
      BY <1>3 DEF LoopEnds
    <3>2. now <= WorkEnd \/ now >= WorkEnd
      BY <1>1
    <3> QED
      BY <3>1, <3>2, <2>1
  <2>3. UNCHANGED <<now, begin, finals>> /\ finals = 0
    BY <1>3, <1>1 DEF LoopEnds
  <2>4. reason \notin {"none", "final_text"}
    OBVIOUS
  <2> HIDE DEF FinalInv, FinalPass, Stopped
  <2> QED
    BY <2>1, <2>2, <2>3, <2>4, BreakFinal
<1>4. CASE TurnFails
  <2>1. PICK reason \in {"deadline", "provider_error"} : Break(reason)
    BY <1>4 DEF TurnFails
  <2>2. UNCHANGED <<now, begin, finals>> /\ finals = 0 /\ now <= WorkEnd
    BY <1>4, <1>1 DEF TurnFails
  <2>3. reason \notin {"none", "final_text"}
    OBVIOUS
  <2> HIDE DEF FinalInv, FinalPass, Stopped
  <2> QED
    BY <2>1, <2>2, <2>3, BreakFinal
<1>5. CASE AskDuplicates \/ AskUnaffordable \/ EmptyTurn
  <2>1. /\ pc = "asking" /\ finals = 0 /\ now <= WorkEnd
        /\ UNCHANGED <<now, begin, finals, status>>
    BY <1>5, <1>1 DEF AskDuplicates, AskUnaffordable, EmptyTurn
  <2>2. \/ pc' = "loop"
        \/ \E reason \in {"duplicate_tool_call", "empty_turn", "tool_call_budget"} :
              Break(reason)
    BY <1>5 DEF AskDuplicates, AskUnaffordable, EmptyTurn, Correct, Goto
  <2>3. CASE pc' = "loop"
    BY <2>1, <2>3
  <2>4. CASE \E reason \in {"duplicate_tool_call", "empty_turn", "tool_call_budget"} :
              Break(reason)
    <3>1. PICK reason \in {"duplicate_tool_call", "empty_turn", "tool_call_budget"} :
            Break(reason)
      BY <2>4
    <3>2. reason \notin {"none", "final_text"}
      OBVIOUS
    <3> HIDE DEF FinalInv, FinalPass, Stopped
    <3> QED
      BY <2>1, <3>1, <3>2, BreakFinal
  <2> QED
    BY <2>2, <2>3, <2>4
<1>6. CASE AskTools
  BY <1>6, <1>1 DEF AskTools, Goto
<1>7. CASE BeginEdit \/ BeginReads \/ ToolReturns
  BY <1>7, <1>1 DEF BeginEdit, BeginReads, ToolReturns
<1>8. CASE BatchDone
  <2>1. /\ pc = "tools" /\ finals = 0 /\ now <= WorkEnd
        /\ UNCHANGED <<now, begin, finals>>
    BY <1>8, <1>1 DEF BatchDone
  <2>2. \/ pc' = "done" /\ stop' = "final_text" /\ status' = "success"
        \/ Break("tool_call_budget")
        \/ pc' = "loop"
    BY <1>8 DEF BatchDone, Goto
  <2>3. CASE Break("tool_call_budget")
    <3> HIDE DEF FinalInv, FinalPass, Stopped
    <3> QED
      BY <2>1, <2>3, BreakFinal
  <2>4. CASE pc' = "loop" \/ (pc' = "done" /\ stop' = "final_text" /\ status' = "success")
    BY <2>1, <2>4
  <2> QED
    BY <2>2, <2>3, <2>4
<1>9. CASE BatchTimesOut
  BY <1>9, <1>1 DEF BatchTimesOut, Break
<1>10. CASE TextAnswer
  BY <1>10, <1>1 DEF TextAnswer, Deliver, Goto
<1>11. CASE Finalize
  BY <1>11, <1>1 DEF Finalize, Goto
<1>12. CASE FinalFails \/ FinalText \/ ContinuationEnds
  BY <1>12, <1>1 DEF FinalFails, FinalText, ContinuationEnds, Deliver, Goto
<1>13. CASE Tick
  BY <1>13, <1>1 DEF Tick
<1>14. CASE Cancelled \/ UNCHANGED vars
  BY <1>14, <1>1 DEF Cancelled, Goto, vars
<1> QED
  BY <1>2, <1>3, <1>4, <1>5, <1>6, <1>7, <1>8, <1>9, <1>10, <1>11, <1>12, <1>13,
     <1>14 DEF Next, Terminated

\* However the loop ends, the answer is the model's own text or a final pass was
\* made, unless the request was already over when the run began
\* (AgentRun.FinalPass).
THEOREM ReserveIsKept == Spec => []FinalPass
<1>1. Init => FinalInv
  BY DEF Init, FinalInv, FinalPass
<1>2. FinalInv => FinalPass
  BY DEF FinalInv
<1> QED
  BY <1>1, <1>2, FinalInductive, AgentRunTypes, PTL DEF Spec

\* Nothing is executed twice in a run (tool_flow.py, select_fresh_tool_calls).
THEOREM NothingTwice == Spec => []RunInv
  BY AgentRunTypes, NoRepeatedCall, OneContextRead, PTL DEF RunInv

-----------------------------------------------------------------------------
(* Reports.  While calls of a batch are awaited, every edit comes before    *)
(* everything else, and a report that was started saw none of them fail.    *)

Confirmed(i, j) ==
  /\ results[j] \in Settled
  /\ ToolAt(i) = Report /\ results[i] # "blocked" => results[j] # "failed"

ReportInv ==
  /\ \A j \in batch : ToolAt(j) = Edit => results[j] # "blocked"
  /\ \A i, j \in batch :
        ToolAt(i) # Edit /\ ToolAt(j) = Edit /\ results[i] # "waiting" => Confirmed(i, j)

\* The edits themselves are never blocked by another one.
LEMMA EditsUnblocked ==
  ASSUME TypeOK, ReportInv, [Next]_vars, NEW j \in batch', ToolAt(j)' = Edit
  PROVE  results'[j] # "blocked"
<1> USE DEF ToolAt
<1>1. CASE StartTurn \/ AskDuplicates \/ AskUnaffordable \/ BatchDone \/ BatchTimesOut
  BY <1>1 DEF StartTurn, AskDuplicates, AskUnaffordable, BatchDone, BatchTimesOut,
              CloseBatch, TypeOK
<1>2. CASE AskTools
  BY <1>2 DEF AskTools, Waiting
<1>3. CASE BeginEdit
  BY <1>3 DEF BeginEdit, EditsIn, ReportInv, TypeOK, ToolTypes
<1>4. CASE BeginReads
  BY <1>4 DEF BeginReads, EditsIn, ReportInv, Edit, Report
<1>5. CASE ToolReturns
  BY <1>5 DEF ToolReturns, ReportInv, TypeOK, ToolTypes
<1>6. CASE LoopEnds \/ TurnFails \/ TextAnswer \/ EmptyTurn \/ Finalize \/ FinalFails
           \/ FinalText \/ ContinuationEnds \/ Tick \/ Cancelled \/ UNCHANGED vars
  <2>1. UNCHANGED <<request, batch, results>>
    BY <1>6 DEF LoopEnds, TurnFails, TextAnswer, EmptyTurn, Finalize, FinalFails,
       FinalText, ContinuationEnds, Tick, Cancelled, vars, toolState
  <2> QED
    BY <2>1 DEF ReportInv
<1> QED
  BY <1>1, <1>2, <1>3, <1>4, <1>5, <1>6 DEF Next, Terminated

LEMMA ReportInductive == TypeOK /\ ReportInv /\ [Next]_vars => ReportInv'
<1> SUFFICES ASSUME TypeOK, ReportInv, [Next]_vars,
                    NEW i \in batch', NEW j \in batch',
                    ToolAt(i)' # Edit, ToolAt(j)' = Edit, results'[i] # "waiting"
             PROVE  Confirmed(i, j)'
  BY EditsUnblocked DEF ReportInv
<1> USE DEF ToolAt, Confirmed
<1>1. CASE StartTurn \/ AskDuplicates \/ AskUnaffordable \/ BatchDone \/ BatchTimesOut
  BY <1>1 DEF StartTurn, AskDuplicates, AskUnaffordable, BatchDone, BatchTimesOut,
              CloseBatch, TypeOK
<1>2. CASE AskTools
  BY <1>2 DEF AskTools, Waiting
<1>3. CASE BeginEdit
  <2>1. PICK e \in EditsIn(batch) :
          results[e] = "waiting" /\ results' = [results EXCEPT ![e] = "running"]
    BY <1>3 DEF BeginEdit
  <2>2. UNCHANGED <<request, batch>> /\ e \in batch /\ ToolOf[request[e]] = Edit
    BY <1>3, <2>1 DEF BeginEdit, EditsIn
  <2>3. results[i] # "waiting"
    BY <2>1, <2>2 DEF TypeOK, ToolTypes
  <2>4. results[e] \in Settled
    BY <2>2, <2>3 DEF ReportInv
  <2> QED
    BY <2>1, <2>4 DEF Settled
<1>4. CASE BeginReads
  <2> DEFINE blocked == IF \E e \in EditsIn(batch) : results[e] = "failed"
                        THEN {k \in batch : ToolOf[request[k]] = Report} ELSE {}
             reads == batch \ (EditsIn(batch) \union blocked)
  <2>1. /\ EditsReturned /\ UNCHANGED <<request, batch>>
        /\ results' = [k \in batch |-> IF k \in reads THEN "running"
                                       ELSE IF k \in blocked THEN "blocked"
                                       ELSE results[k]]
    BY <1>4 DEF BeginReads
  <2>2. j \in EditsIn(batch) /\ results[j] \in Settled
    BY <2>1 DEF EditsReturned, EditsIn
  <2>3. results'[j] = results[j]
    BY <2>1, <2>2 DEF EditsIn, Edit, Report
  <2>4. ToolOf[request[i]] = Report /\ results[j] = "failed" => results'[i] = "blocked"
    BY <2>1, <2>2 DEF Edit, Report, EditsIn
  <2> QED
    BY <2>1, <2>2, <2>3, <2>4
<1>5. CASE ToolReturns
  <2>1. PICK k \in batch, res \in {"ok", "rendered", "failed"} :
          results[k] = "running" /\ results' = [results EXCEPT ![k] = res]
    BY <1>5 DEF ToolReturns
  <2>2. UNCHANGED <<request, batch>>
    BY <1>5 DEF ToolReturns
  <2>3. results[i] # "waiting" /\ (results[i] = "blocked" => results'[i] = "blocked")
    BY <2>1, <2>2 DEF TypeOK, ToolTypes
  <2>4. results[j] \in Settled
        /\ (ToolOf[request[i]] = Report /\ results[i] # "blocked" => results[j] # "failed")
    BY <2>2, <2>3 DEF ReportInv
  <2>5. results'[j] = results[j]
    BY <2>1, <2>2, <2>4 DEF TypeOK, ToolTypes, Settled
  <2> QED
    BY <2>2, <2>3, <2>4, <2>5
<1>6. CASE LoopEnds \/ TurnFails \/ TextAnswer \/ EmptyTurn \/ Finalize \/ FinalFails
           \/ FinalText \/ ContinuationEnds \/ Tick \/ Cancelled \/ UNCHANGED vars
  <2>1. UNCHANGED <<request, batch, results>>
    BY <1>6 DEF LoopEnds, TurnFails, TextAnswer, EmptyTurn, Finalize, FinalFails,
       FinalText, ContinuationEnds, Tick, Cancelled, vars, toolState
  <2> QED
    BY <2>1 DEF ReportInv
<1> QED
  BY <1>1, <1>2, <1>3, <1>4, <1>5, <1>6 DEF Next, Terminated

\* A report of the same turn is started after every watchlist edit is confirmed,
\* and not at all once one has failed (AgentRun.ReportSeesEdits).
THEOREM ReportAfterEdits == Spec => []ReportSeesEdits
<1>1. Init => ReportInv
  BY DEF Init, ReportInv
<1>2. TypeOK /\ ReportInv => ReportSeesEdits
  <2> SUFFICES ASSUME TypeOK, ReportInv, NEW i \in batch, NEW j \in batch,
                      ToolAt(i) = Report, results[i] \notin {"waiting", "blocked"},
                      ToolAt(j) = Edit
               PROVE  results[j] \in {"ok", "rendered"}
    BY DEF ReportSeesEdits
  <2>1. results[j] \in Settled /\ results[j] # "failed" /\ results[j] # "blocked"
    <3>1. ToolAt(i) # Edit
      BY DEF Edit, Report
    <3> QED
      BY <3>1 DEF ReportInv, Confirmed
  <2> QED
    BY <2>1 DEF Settled, Result
<1> QED
  BY <1>1, <1>2, ReportInductive, AgentRunTypes, PTL DEF Spec

-----------------------------------------------------------------------------
(* Model calls.  The loop asks only while turns are left; beyond it there   *)
(* is one final pass, and the continuation paid for by its own counter.     *)

TurnInv ==
  /\ pc \in {"loop", "tools", "finalize"} => turns <= MaxModelTurns
  /\ pc = "asking" => turns < MaxModelTurns
  /\ pc = "finalizing" => turns <= MaxModelTurns /\ finals = 1
  /\ pc = "continuing" => turns < MaxModelTurns + finals + continuations
  /\ BoundedModelCalls

LEMMA TurnInductive == TypeOK /\ TurnInv /\ [Next]_vars => TurnInv'
<1> SUFFICES ASSUME TypeOK, TurnInv, [Next]_vars PROVE TurnInv'
  OBVIOUS
<1> USE BoundTypes DEF TurnInv, BoundedModelCalls
<1>1. turns \in Nat /\ finals \in Nat /\ continuations \in Nat
      /\ (pc \notin {"done", "continuing", "finalizing", "cancelled"} => finals = 0)
  BY DEF TypeOK, RunTypes
<1>2. CASE StartTurn
  BY <1>2, <1>1 DEF StartTurn, CanStartTurn, Goto, budgets
<1>3. CASE LoopEnds \/ TurnFails
  BY <1>3, <1>1 DEF LoopEnds, TurnFails, Break, budgets
<1>4. CASE AskDuplicates \/ AskUnaffordable \/ AskTools \/ EmptyTurn
  <2>1. /\ pc = "asking" /\ turns' = turns + 1 /\ UNCHANGED <<finals, continuations>>
        /\ pc' \in {"loop", "tools", "finalize"}
    BY <1>4 DEF AskDuplicates, AskUnaffordable, AskTools, EmptyTurn, Correct, Goto, Break
  <2> QED
    BY <2>1, <1>1
<1>5. CASE BeginEdit \/ BeginReads \/ ToolReturns \/ Tick
  BY <1>5, <1>1 DEF BeginEdit, BeginReads, ToolReturns, Tick, budgets
<1>6. CASE BatchDone \/ BatchTimesOut
  BY <1>6, <1>1 DEF BatchDone, BatchTimesOut, Goto, Break
<1>7. CASE TextAnswer
  BY <1>7, <1>1 DEF TextAnswer, Deliver, Goto
<1>8. CASE Finalize
  BY <1>8, <1>1 DEF Finalize, Goto, budgets
<1>9. CASE FinalFails \/ FinalText \/ ContinuationEnds
  BY <1>9, <1>1 DEF FinalFails, FinalText, ContinuationEnds, Deliver, Goto
<1>10. CASE Cancelled \/ UNCHANGED vars
  BY <1>10, <1>1 DEF Cancelled, Goto, vars, budgets
<1> QED
  BY <1>2, <1>3, <1>4, <1>5, <1>6, <1>7, <1>8, <1>9, <1>10 DEF Next, Terminated

\* Corrections, repairs and refused batches never buy extra model calls
\* (AgentRun.BoundedModelCalls; run_state.py, AgentBudget).
THEOREM CallsAreBounded == Spec => []BoundedModelCalls
<1>1. Init => TurnInv
  BY BoundTypes DEF Init, TurnInv, BoundedModelCalls
<1>2. TurnInv => BoundedModelCalls
  BY DEF TurnInv
<1> QED
  BY <1>1, <1>2, TurnInductive, AgentRunTypes, PTL DEF Spec

-----------------------------------------------------------------------------
(* What tools may cost.  What was ever admitted is billed, or is in the     *)
(* open batch, and the two together fit the budget: select_tool_calls_      *)
(* within_budget sees to it, since its last call still fits after the rest. *)

LEMMA BillGrows ==
  ASSUME NEW D, D \subseteq Calls, NEW C, C \subseteq D
  PROVE  Bill(C) <= Bill(D) /\ DeepIn(C) <= DeepIn(D)
<1> DEFINE dear(X) == {c \in X : ToolOf[c] \in {Report, Deep}}
           deeps(X) == {c \in X : ToolOf[c] = Deep}
<1>1. IsFiniteSet(D) /\ IsFiniteSet(dear(D)) /\ IsFiniteSet(deeps(D))
  BY RunAssumption, FS_Subset
<1>2. dear(C) \subseteq dear(D) /\ deeps(C) \subseteq deeps(D)
  OBVIOUS
<1>3. IsFiniteSet(C) /\ IsFiniteSet(dear(C)) /\ IsFiniteSet(deeps(C))
  BY <1>1, <1>2, FS_Subset
<1>4. Cardinality(C) <= Cardinality(D)
  BY <1>1, FS_Subset
<1>5. Cardinality(dear(C)) <= Cardinality(dear(D))
  BY <1>1, <1>2, FS_Subset
<1>6. Cardinality(deeps(C)) <= Cardinality(deeps(D))
  BY <1>1, <1>2, FS_Subset
<1>7. Cardinality(C) \in Nat /\ Cardinality(D) \in Nat /\ Cardinality(dear(C)) \in Nat
      /\ Cardinality(dear(D)) \in Nat
  BY <1>1, <1>3, FS_CardinalityType
<1>8. Bill(C) = Cardinality(C) + 3 * Cardinality(dear(C))
      /\ Bill(D) = Cardinality(D) + 3 * Cardinality(dear(D))
      /\ DeepIn(C) = Cardinality(deeps(C)) /\ DeepIn(D) = Cardinality(deeps(D))
  BY DEF Bill, DeepIn
<1> HIDE DEF dear, deeps
<1> QED
  BY <1>4, <1>5, <1>6, <1>7, <1>8

LEMMA UnionBound ==
  ASSUME NEW S, IsFiniteSet(S), NEW T, IsFiniteSet(T)
  PROVE  /\ Cardinality(S \union T) <= Cardinality(S) + Cardinality(T)
         /\ Cardinality(S) \in Nat /\ Cardinality(T) \in Nat /\ Cardinality(S \union T) \in Nat
<1>1. IsFiniteSet(S \cap T)
  BY FS_Subset
<1>2. IsFiniteSet(S \union T)
      /\ Cardinality(S \union T) = Cardinality(S) + Cardinality(T) - Cardinality(S \cap T)
  BY FS_Union
<1>3. Cardinality(S) \in Nat /\ Cardinality(T) \in Nat
  BY FS_CardinalityType
<1>4. Cardinality(S \cap T) \in Nat /\ Cardinality(S \union T) \in Nat
  BY <1>1, <1>2, FS_CardinalityType
<1> QED
  BY <1>2, <1>3, <1>4

LEMMA BillAdds ==
  ASSUME NEW C, C \subseteq Calls, NEW D, D \subseteq Calls
  PROVE  Bill(C \union D) <= Bill(C) + Bill(D) /\ DeepIn(C \union D) <= DeepIn(C) + DeepIn(D)
<1> DEFINE dear(X) == {c \in X : ToolOf[c] \in {Report, Deep}}
           deeps(X) == {c \in X : ToolOf[c] = Deep}
<1>1. IsFiniteSet(C) /\ IsFiniteSet(D)
  BY RunAssumption, FS_Subset
<1>2. IsFiniteSet(dear(C)) /\ IsFiniteSet(dear(D))
      /\ IsFiniteSet(deeps(C)) /\ IsFiniteSet(deeps(D))
  BY RunAssumption, FS_Subset
<1>3. dear(C \union D) = dear(C) \union dear(D) /\ deeps(C \union D) = deeps(C) \union deeps(D)
  OBVIOUS
<1>4. Bill(C \union D) = Cardinality(C \union D) + 3 * Cardinality(dear(C \union D))
      /\ Bill(C) = Cardinality(C) + 3 * Cardinality(dear(C))
      /\ Bill(D) = Cardinality(D) + 3 * Cardinality(dear(D))
      /\ DeepIn(C \union D) = Cardinality(deeps(C \union D))
      /\ DeepIn(C) = Cardinality(deeps(C)) /\ DeepIn(D) = Cardinality(deeps(D))
  BY DEF Bill, DeepIn
<1> HIDE DEF dear, deeps
<1>5. Cardinality(C \union D) <= Cardinality(C) + Cardinality(D)
      /\ Cardinality(C \union D) \in Nat /\ Cardinality(C) \in Nat /\ Cardinality(D) \in Nat
  BY <1>1, UnionBound
<1>6. Cardinality(dear(C \union D)) <= Cardinality(dear(C)) + Cardinality(dear(D))
      /\ Cardinality(dear(C \union D)) \in Nat /\ Cardinality(dear(C)) \in Nat
      /\ Cardinality(dear(D)) \in Nat
  BY <1>2, <1>3, UnionBound
<1>7. Cardinality(deeps(C \union D)) <= Cardinality(deeps(C)) + Cardinality(deeps(D))
  BY <1>2, <1>3, UnionBound
<1> QED
  BY <1>4, <1>5, <1>6, <1>7

\* A set of indices has a last one.
LEMMA LastIndex ==
  ASSUME NEW n \in Nat, NEW S, S \subseteq 1..n, S # {}
  PROVE  \E i \in S : \A j \in S : j <= i
<1> DEFINE T == {n - i : i \in S}
           Below == OpToRel(<, Nat)
<1>1. T \subseteq Nat
  <2> SUFFICES ASSUME NEW i \in S PROVE n - i \in Nat
    OBVIOUS
  <2>1. i \in Nat /\ i <= n
    OBVIOUS
  <2> QED
    BY <2>1
<1>2. T # {}
  OBVIOUS
<1>3. \A x, y \in Nat : <<x, y>> \in Below <=> x < y
  BY DEF OpToRel
<1>4. IsWellFoundedOn(Below, Nat)
  BY NatLessThanWellFounded
<1> HIDE DEF Below, T
<1>5. PICK t \in T : \A u \in T : ~ (<<u, t>> \in Below)
  BY <1>1, <1>2, <1>4, WFMin
<1>6. \A u \in T : t <= u
  <2>1. \A u \in T : u \in Nat /\ t \in Nat /\ ~ (u < t)
    BY <1>1, <1>3, <1>5, Zenon
  <2> QED
    BY <2>1
<1>7. PICK i \in S : t = n - i
  BY DEF T
<1>8. \A j \in S : n - i <= n - j
  BY <1>6, <1>7 DEF T
<1>9. \A j \in S : j \in Nat /\ i \in Nat
  OBVIOUS
<1> QED
  BY <1>8, <1>9

LEMMA NoBill == Bill({}) = 0 /\ DeepIn({}) = 0
<1>1. {c \in {} : ToolOf[c] \in {Report, Deep}} = {} /\ {c \in {} : ToolOf[c] = Deep} = {}
  OBVIOUS
<1>2. Cardinality({}) = 0
  BY FS_EmptySet
<1> QED
  BY <1>1, <1>2 DEF Bill, DeepIn

LEMMA OneDeep ==
  ASSUME NEW c \in Calls
  PROVE  DeepIn({c}) <= 1
<1> DEFINE D == {d \in {c} : ToolOf[d] = Deep}
<1>1. IsFiniteSet({c}) /\ Cardinality({c}) = 1
  BY FS_Singleton
<1>2. D \in SUBSET {c}
  OBVIOUS
<1>3. Cardinality(D) <= 1
  BY <1>1, <1>2, FS_Subset
<1> QED
  BY <1>3 DEF DeepIn

\* The calls select_tool_calls_within_budget admits fit what is left.
LEMMA AdmittedFits ==
  ASSUME TypeOK, cost <= MaxToolCost, deep <= MaxDeep,
         NEW r \in Requests, NEW S \in SUBSET Fresh(r), Admitted(r, S)
  PROVE  /\ CallsAt(r, S) \subseteq Calls
         /\ cost + Bill(CallsAt(r, S)) <= MaxToolCost
         /\ deep + DeepIn(CallsAt(r, S)) <= MaxDeep
<1>1. PICK n \in 1..MaxBatch : r \in [1..n -> Calls]
  BY RequestShape
<1>2. S \subseteq 1..n /\ n \in Nat
  BY <1>1, BoundTypes DEF Fresh
<1>3. \A Q \in SUBSET S : CallsAt(r, Q) \subseteq Calls
  BY <1>1, <1>2 DEF CallsAt
<1>4. \A i \in S : Affordable(r, {j \in S : j < i}, i)
  BY DEF Admitted
<1>5. cost \in Nat /\ deep \in Nat
  BY DEF TypeOK, RunTypes
<1>6. cost + Bill(CallsAt(r, S)) <= MaxToolCost
  <2>1. CASE S = {}
    <3>1. CallsAt(r, S) = {}
      BY <2>1 DEF CallsAt
    <3> QED
      BY <3>1, <1>5, NoBill
  <2>2. CASE S # {}
    <3>1. PICK i \in S : \A j \in S : j <= i
      BY <1>2, <2>2, LastIndex
    <3> DEFINE rest == CallsAt(r, {j \in S : j < i})
    <3>2. \A j \in S : j < i \/ j = i
      BY <1>2, <3>1
    <3>3. CallsAt(r, S) = rest \union {r[i]}
      BY <3>2 DEF CallsAt
    <3>4. rest \subseteq Calls /\ {r[i]} \subseteq Calls
      BY <1>1, <1>2, <1>3
    <3>5. Bill(rest) + Bill({r[i]}) <= MaxToolCost - cost
      BY <1>4 DEF Affordable
    <3> HIDE DEF rest
    <3>6. Bill(CallsAt(r, S)) <= Bill(rest) + Bill({r[i]})
      BY <3>3, <3>4, BillAdds
    <3>7. Bill(rest) \in Nat /\ Bill({r[i]}) \in Nat /\ Bill(CallsAt(r, S)) \in Nat
      BY <1>3, <3>4, BillType
    <3> QED
      BY <3>5, <3>6, <3>7, <1>5, BoundTypes
  <2> QED
    BY <2>1, <2>2
<1>7. deep + DeepIn(CallsAt(r, S)) <= MaxDeep
  <2> DEFINE D == {i \in S : ToolOf[r[i]] = Deep}
             deeps(X) == {c \in X : ToolOf[c] = Deep}
  <2>1. CASE D = {}
    <3>1. deeps(CallsAt(r, S)) = {} /\ deeps({}) = {}
      BY <2>1 DEF CallsAt
    <3>2. DeepIn(CallsAt(r, S)) = DeepIn({})
      BY <3>1 DEF DeepIn
    <3> QED
      BY <3>2, <1>5, NoBill
  <2>2. CASE D # {}
    <3>1. PICK i \in D : \A j \in D : j <= i
      BY <1>2, <2>2, LastIndex
    <3> DEFINE rest == CallsAt(r, {j \in S : j < i})
    <3>2. \A j \in D : j < i \/ j = i
      BY <1>2, <3>1
    <3>3. CallsAt(r, D) \subseteq rest \union {r[i]} /\ rest \union {r[i]} \subseteq CallsAt(r, S)
          /\ deeps(CallsAt(r, S)) \subseteq CallsAt(r, D)
      BY <3>1, <3>2 DEF CallsAt
    <3>4. rest \subseteq Calls /\ r[i] \in Calls
      BY <1>1, <1>2, <1>3
    <3>5. DeepIn(rest) < MaxDeep - deep
      BY <1>4 DEF Affordable
    <3>6. DeepIn(CallsAt(r, S)) = DeepIn(rest \union {r[i]})
      BY <3>3 DEF DeepIn
    <3> HIDE DEF rest
    <3>7. DeepIn(rest \union {r[i]}) <= DeepIn(rest) + DeepIn({r[i]})
      BY <3>4, BillAdds
    <3>8. DeepIn({r[i]}) <= 1
      BY <3>4, OneDeep
    <3>9. DeepIn(rest) \in Nat /\ DeepIn({r[i]}) \in Nat /\ DeepIn(rest \union {r[i]}) \in Nat
      BY <3>4, BillType
    <3> QED
      BY <3>5, <3>6, <3>7, <3>8, <3>9, <1>5, BoundTypes
  <2> QED
    BY <2>1, <2>2
<1> QED
  BY <1>3, <1>6, <1>7

Open == CallsAt(request, batch)
SpendInv ==
  /\ Bill(seen) <= cost + Bill(Open) /\ cost + Bill(Open) <= MaxToolCost
  /\ DeepIn(seen) <= deep + DeepIn(Open) /\ deep + DeepIn(Open) <= MaxDeep

\* With no batch open everything is billed.
LEMMA ClosedSpend ==
  ASSUME TypeOK, SpendInv, batch = {}
  PROVE  /\ Bill(seen) <= cost /\ cost <= MaxToolCost
         /\ DeepIn(seen) <= deep /\ deep <= MaxDeep
<1>1. Open = {}
  BY DEF Open, CallsAt
<1>2. cost \in Nat /\ deep \in Nat
  BY DEF TypeOK, RunTypes
<1> QED
  BY <1>1, <1>2, NoBill DEF SpendInv

LEMMA OpenSpend ==
  ASSUME SpendInv, batch' = {}, seen' = seen,
         cost' \in Nat, deep' \in Nat,
         Bill(seen) <= cost' /\ cost' <= MaxToolCost,
         DeepIn(seen) <= deep' /\ deep' <= MaxDeep
  PROVE  SpendInv'
<1>1. Open' = {}
  BY DEF Open, CallsAt
<1>2. Bill({}) = 0 /\ DeepIn({}) = 0
  BY NoBill
<1>3. Bill(Open') = 0 /\ DeepIn(Open') = 0
  BY <1>1, <1>2
<1>4. Bill(seen') = Bill(seen) /\ DeepIn(seen') = DeepIn(seen)
  OBVIOUS
<1> QED
  BY <1>3, <1>4 DEF SpendInv

LEMMA AskSpends ==
  ASSUME TypeOK, SpendInv, AskTools
  PROVE  SpendInv'
<1>1. PICK r, S :
        /\ r \in Requests /\ S \in SUBSET Fresh(r)
        /\ Admitted(r, S) /\ request' = r /\ batch' = S
        /\ seen' = seen \union CallsAt(r, S)
  BY DEF AskTools
<1>2. UNCHANGED <<cost, deep>> /\ batch = {}
  BY DEF AskTools, TypeOK
<1>3. /\ Bill(seen) <= cost /\ cost <= MaxToolCost
      /\ DeepIn(seen) <= deep /\ deep <= MaxDeep
  BY <1>2, ClosedSpend
<1> DEFINE A == CallsAt(r, S)
<1>4. A \subseteq Calls /\ cost + Bill(A) <= MaxToolCost /\ deep + DeepIn(A) <= MaxDeep
  BY <1>1, <1>3, AdmittedFits
<1>5. seen \subseteq Calls
  BY DEF TypeOK, ToolTypes
<1>6. Open' = A /\ seen' = seen \union A
  BY <1>1 DEF Open, CallsAt
<1> HIDE DEF A
<1>7. Bill(seen') <= Bill(seen) + Bill(A) /\ DeepIn(seen') <= DeepIn(seen) + DeepIn(A)
  BY <1>4, <1>5, <1>6, BillAdds
<1>8. Bill(seen) \in Nat /\ DeepIn(seen) \in Nat /\ Bill(A) \in Nat /\ DeepIn(A) \in Nat
  BY <1>4, <1>5, BillType
<1>9. Bill(seen \union A) \in Nat /\ DeepIn(seen \union A) \in Nat
  BY <1>4, <1>5, BillType
<1>10. cost \in Nat /\ deep \in Nat
  BY DEF TypeOK, RunTypes
<1>11. Bill(seen') \in Nat /\ DeepIn(seen') \in Nat
  BY <1>6, <1>9
<1>12. Bill(Open') = Bill(A) /\ DeepIn(Open') = DeepIn(A)
  BY <1>6
<1> QED
  BY <1>2, <1>3, <1>4, <1>7, <1>8, <1>10, <1>11, <1>12, BoundTypes DEF SpendInv

\* Every deep-research call of a batch is counted when it is closed: no status
\* the executor gives exempts one.
LEMMA AllDeepCount ==
  ASSUME TypeOK
  PROVE  DeepIn(CallsAt(request, DeepCounted)) = DeepIn(Open)
<1> DEFINE deeps(X) == {c \in X : ToolOf[c] = Deep}
<1>1. DeepCounted = {i \in batch : ToolOf[request[i]] = Deep}
  BY DEF DeepCounted, DeepStatus
<1>2. deeps(CallsAt(request, DeepCounted)) = deeps(Open)
  BY <1>1 DEF CallsAt, Open
<1> QED
  BY <1>2 DEF DeepIn

LEMMA CloseSpends ==
  ASSUME TypeOK, SpendInv, BatchDone \/ BatchTimesOut
  PROVE  SpendInv'
<1>1. /\ cost' = cost + Bill(Open) /\ deep' = deep + DeepIn(Open)
      /\ batch' = {} /\ seen' = seen
  BY AllDeepCount DEF BatchDone, BatchTimesOut, CloseBatch, Open
<1>2. Open \subseteq Calls
  BY CallsAtType DEF Open
<1>3. cost' \in Nat /\ deep' \in Nat
  BY <1>1, <1>2, BillType DEF TypeOK, RunTypes
<1> QED
  BY <1>1, <1>3, OpenSpend DEF SpendInv

LEMMA SpendInductive == TypeOK /\ SpendInv /\ [Next]_vars => SpendInv'
<1> SUFFICES ASSUME TypeOK, SpendInv, [Next]_vars PROVE SpendInv'
  OBVIOUS
<1>1. CASE AskTools
  BY <1>1, AskSpends
<1>2. CASE BatchDone \/ BatchTimesOut
  BY <1>2, CloseSpends
<1>3. CASE StartTurn \/ AskDuplicates \/ AskUnaffordable
  <2>1. batch = {} /\ UNCHANGED <<batch, seen, cost, deep>>
    BY <1>3 DEF StartTurn, AskDuplicates, AskUnaffordable, budgets, TypeOK
  <2>2. cost \in Nat /\ deep \in Nat
    BY DEF TypeOK, RunTypes
  <2> QED
    BY <2>1, <2>2, ClosedSpend, OpenSpend
<1>4. CASE BeginEdit \/ BeginReads \/ ToolReturns \/ LoopEnds \/ TurnFails
           \/ TextAnswer \/ EmptyTurn \/ Finalize \/ FinalFails \/ FinalText
           \/ ContinuationEnds \/ Tick \/ Cancelled \/ UNCHANGED vars
  <2>1. UNCHANGED <<seen, request, batch, cost, deep>>
    BY <1>4 DEF BeginEdit, BeginReads, ToolReturns, LoopEnds, TurnFails, TextAnswer,
       EmptyTurn, Finalize, FinalFails, FinalText, ContinuationEnds, Tick, Cancelled,
       vars, toolState, budgets
  <2>2. Open' = Open
    BY <2>1 DEF Open
  <2> QED
    BY <2>1, <2>2 DEF SpendInv
<1> QED
  BY <1>1, <1>2, <1>3, <1>4 DEF Next, Terminated

\* Whatever the model asks for, what is really started costs no more than the
\* server-owned budget and makes no more model calls than it allows
\* (AgentRun.StaysInBounds; chat/tool_budget.py, chat/run_state.py).
THEOREM BudgetIsKept == Spec => []StaysInBounds
<1>1. Init => SpendInv
  <2> SUFFICES ASSUME Init PROVE SpendInv
    OBVIOUS
  <2>1. Open = {} /\ seen = {} /\ cost = 0 /\ deep = 0
    BY DEF Init, Open, CallsAt
  <2>2. Bill(Open) = 0 /\ DeepIn(Open) = 0 /\ Bill(seen) = 0 /\ DeepIn(seen) = 0
    BY <2>1, NoBill
  <2> QED
    BY <2>1, <2>2, BoundTypes DEF SpendInv
<1>2. TypeOK /\ OnceInv /\ SpendInv => WithinBudget
  <2> SUFFICES ASSUME TypeOK, OnceInv, SpendInv PROVE WithinBudget
    OBVIOUS
  <2> DEFINE started == {c \in Calls : executed[c] > 0}
  <2>1. started \subseteq seen /\ seen \subseteq Calls
    BY DEF OnceInv, TypeOK, ToolTypes
  <2>2. Bill(started) <= Bill(seen) /\ DeepIn(started) <= DeepIn(seen)
    BY <2>1, BillGrows
  <2>3. Open \subseteq Calls
    BY CallsAtType DEF Open
  <2>4. Bill(Open) \in Nat /\ DeepIn(Open) \in Nat /\ Bill(seen) \in Nat /\ DeepIn(seen) \in Nat
        /\ cost \in Nat /\ deep \in Nat
    BY <2>1, <2>3, BillType DEF TypeOK, RunTypes
  <2>5. Bill(started) \in Nat /\ DeepIn(started) \in Nat
    BY BillType
  <2> HIDE DEF started
  <2>6. Bill(started) <= MaxToolCost /\ DeepIn(started) <= MaxDeep
    BY <2>2, <2>4, <2>5, BoundTypes DEF SpendInv
  <2> QED
    BY <2>6 DEF WithinBudget, started
<1>3. Init => OnceInv
  BY DEF Init, OnceInv, EditsIn
<1> QED
  BY <1>1, <1>2, <1>3, SpendInductive, OnceInductive, AgentRunTypes, CallsAreBounded, PTL
     DEF Spec, StaysInBounds
=============================================================================
