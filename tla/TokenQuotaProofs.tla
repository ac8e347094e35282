--------------------------- MODULE TokenQuotaProofs ---------------------------
(***************************************************************************)
(* Proofs about TokenQuota, for every set of calls, with or without a      *)
(* second provider, every limit, estimates, day bound and crash bound:     *)
(* types, verdicts, what is given back, the day's sums, and the            *)
(* implementation of QuotaLedger.                                          *)
(***************************************************************************)
EXTENDS TokenQuota, FiniteSetTheorems, TLAPS

LEMMA LabelFacts ==
  /\ {"update", "inspect", "insert", "conflict", "primary", "asking", "cross", "settle",
      "release", "charge", "exhaust", "done", "fallback", "cut", "lost"} \subseteq Labels
  /\ {"new"} \cup Final \subseteq Labels
  BY DEF Labels, Reserving, InFlight, Verdicts, Final

LEMMA StatusFacts == {"none", "active"} \cup Closed \subseteq Status
  BY DEF Status

LEMMA ClosedFacts == Closed = {"settled", "released", "uncertain", "provider_exhausted"}
  BY DEF Closed

LEMMA DayFacts == 0 \in Days /\ (\A d \in Days : d < MaxDay => d + 1 \in Days)
  BY DayAssumption DEF Days

\* _finalize writes values of the columns' types, floor included.
LEMMA FinalizeTypes ==
  ASSUME RowTypes, CallerTypes, NEW c \in Calls, NEW s \in Closed, NEW n \in Nat,
         Finalize(c, s, n)
  PROVE  /\ status' \in [Calls -> Status] /\ charged' \in [Calls -> Nat]
         /\ reserved' \in [Days -> Nat] /\ consumed' \in [Days -> Nat]
<1>1. /\ reserved[day[c]] \in Nat /\ tokens[c] \in Nat /\ consumed[day[c]] \in Nat
      /\ Less(reserved[day[c]], tokens[c]) \in Nat
  BY DEF RowTypes, CallerTypes, Less
<1>2. s \in Status
  BY StatusFacts
<1> QED
  BY <1>1, <1>2 DEF RowTypes, CallerTypes, Finalize

\* The four ways a call's reservation is finalized leave the rows well typed.
LEMMA VerdictTypes ==
  ASSUME RowTypes, CallerTypes, WorldTypes, NEW c \in Calls, Close(c) \/ MarkExhausted(c)
  PROVE  RowTypes'
<1>1. tokens[c] \in Nat /\ spent[c] \in Nat /\ day[c] \in Days /\ 0 \in Nat
  BY DEF CallerTypes, WorldTypes
<1>2. \E s \in Closed, n \in Nat : Finalize(c, s, n)
  BY <1>1, ClosedFacts DEF Close, Settle, Release, ChargeUncertain, MarkExhausted
<1>3. /\ status' \in [Calls -> Status] /\ charged' \in [Calls -> Nat]
      /\ reserved' \in [Days -> Nat] /\ consumed' \in [Days -> Nat]
  BY <1>2, FinalizeTypes
<1>4. counters' \subseteq Days /\ exhausted' \subseteq counters'
  BY <1>1 DEF RowTypes, Close, MarkExhausted
<1> QED
  BY <1>3, <1>4 DEF RowTypes

\* Every variable keeps the type of its column or attribute.
THEOREM TypeCorrect == Spec => []TypeOK
<1>1. Init => TypeOK
  <2> SUFFICES ASSUME Init PROVE TypeOK
    OBVIOUS
  <2>1. RowTypes
    BY DayFacts, StatusFacts DEF Init, RowTypes
  <2>2. CallerTypes
    BY DayFacts, LabelFacts DEF Init, CallerTypes
  <2>3. WorldTypes
    BY DayFacts DEF Init, WorldTypes
  <2> QED
    BY <2>1, <2>2, <2>3 DEF TypeOK
<1>2. TypeOK /\ [Next]_vars => TypeOK'
  <2> SUFFICES ASSUME RowTypes, CallerTypes, WorldTypes, [Next]_vars PROVE TypeOK'
    BY DEF TypeOK
  <2>1. ASSUME NEW c \in Calls, Route(c) PROVE TypeOK'
    <3>1. RowTypes'
      BY <2>1 DEF RowTypes, Route, rows, CallerTypes
    <3>2. CallerTypes'
      BY <2>1, LabelFacts, EstimatesAssumption DEF CallerTypes, Route, Goto, WorldTypes
    <3>3. WorldTypes'
      BY <2>1 DEF WorldTypes, Route, world, CallerTypes
    <3> QED
      BY <3>1, <3>2, <3>3 DEF TypeOK
  <2>2. ASSUME NEW c \in Calls, ReserveUpdate(c) PROVE TypeOK'
    <3>1. RowTypes'
      BY <2>2, StatusFacts, ClosedFacts DEF RowTypes, ReserveUpdate, Reserve, Fits,
           rows, CallerTypes
    <3>2. CallerTypes'
      BY <2>2, LabelFacts DEF CallerTypes, ReserveUpdate, Goto
    <3>3. WorldTypes'
      BY <2>2 DEF WorldTypes, ReserveUpdate, world, CallerTypes
    <3> QED
      BY <3>1, <3>2, <3>3 DEF TypeOK
  <2>3. ASSUME NEW c \in Calls, ReserveInspect(c) PROVE TypeOK'
    <3>1. RowTypes'
      BY <2>3 DEF RowTypes, ReserveInspect, rows, CallerTypes
    <3>2. CallerTypes'
      BY <2>3, LabelFacts DEF CallerTypes, ReserveInspect, Goto
    <3>3. WorldTypes'
      BY <2>3 DEF WorldTypes, ReserveInspect, world, CallerTypes
    <3> QED
      BY <3>1, <3>2, <3>3 DEF TypeOK
  <2>4. ASSUME NEW c \in Calls, ReserveInsert(c) PROVE TypeOK'
    <3>1. RowTypes'
      BY <2>4, StatusFacts, ClosedFacts DEF RowTypes, ReserveInsert, Reserve, rows,
           CallerTypes
    <3>2. CallerTypes'
      BY <2>4, LabelFacts DEF CallerTypes, ReserveInsert, Goto
    <3>3. WorldTypes'
      BY <2>4 DEF WorldTypes, ReserveInsert, world, CallerTypes
    <3> QED
      BY <3>1, <3>2, <3>3 DEF TypeOK
  <2>5. ASSUME NEW c \in Calls, ReserveCutShort(c) PROVE TypeOK'
    <3>1. RowTypes'
      BY <2>5, StatusFacts, ClosedFacts DEF RowTypes, ReserveCutShort, Reserves, Reserve, Fits,
           rows, CallerTypes
    <3>2. CallerTypes'
      BY <2>5, LabelFacts DEF CallerTypes, ReserveCutShort, Goto
    <3>3. WorldTypes'
      BY <2>5 DEF WorldTypes, ReserveCutShort, world, CallerTypes
    <3> QED
      BY <3>1, <3>2, <3>3 DEF TypeOK
  <2>6. ASSUME NEW c \in Calls, PrimarySkipped(c) PROVE TypeOK'
    <3>1. RowTypes'
      BY <2>6 DEF RowTypes, PrimarySkipped, rows, CallerTypes
    <3>2. CallerTypes'
      BY <2>6, LabelFacts DEF CallerTypes, PrimarySkipped, Verdict, Goto
    <3>3. WorldTypes'
      BY <2>6 DEF WorldTypes, PrimarySkipped, world, CallerTypes
    <3> QED
      BY <3>1, <3>2, <3>3 DEF TypeOK
  <2>7. ASSUME NEW c \in Calls, PrimaryStarts(c) PROVE TypeOK'
    <3>1. RowTypes'
      BY <2>7 DEF RowTypes, PrimaryStarts, rows, CallerTypes
    <3>2. CallerTypes'
      BY <2>7, LabelFacts DEF CallerTypes, PrimaryStarts, Goto
    <3>3. WorldTypes'
      BY <2>7 DEF WorldTypes, PrimaryStarts, CallerTypes
    <3> QED
      BY <3>1, <3>2, <3>3 DEF TypeOK
  <2>8. ASSUME NEW c \in Calls, PrimarySucceeds(c) PROVE TypeOK'
    <3>1. RowTypes'
      BY <2>8 DEF RowTypes, PrimarySucceeds, rows, CallerTypes
    <3>2. CallerTypes'
      BY <2>8, LabelFacts DEF CallerTypes, PrimarySucceeds, Goto
    <3>3. WorldTypes'
      <4>1. PICK t \in 1 .. tokens[c] : spent' = [spent EXCEPT ![c] = t]
        BY <2>8 DEF PrimarySucceeds
      <4>2. t \in Nat
        BY <4>1 DEF CallerTypes
      <4> QED
        BY <2>8, <4>1, <4>2 DEF WorldTypes, PrimarySucceeds
    <3> QED
      BY <3>1, <3>2, <3>3 DEF TypeOK
  <2>9. ASSUME NEW c \in Calls, PrimaryFails(c) PROVE TypeOK'
    <3>1. RowTypes'
      BY <2>9 DEF RowTypes, PrimaryFails, rows, CallerTypes
    <3>2. CallerTypes'
      BY <2>9, LabelFacts DEF CallerTypes, PrimaryFails, Verdict, Goto
    <3>3. WorldTypes'
      BY <2>9 DEF WorldTypes, PrimaryFails, CallerTypes
    <3> QED
      BY <3>1, <3>2, <3>3 DEF TypeOK
  <2>10. ASSUME NEW c \in Calls, CrossSucceeds(c) PROVE TypeOK'
    <3>1. RowTypes'
      BY <2>10 DEF RowTypes, CrossSucceeds, rows, CallerTypes
    <3>2. CallerTypes'
      BY <2>10, LabelFacts DEF CallerTypes, CrossSucceeds, Goto
    <3>3. WorldTypes'
      BY <2>10 DEF WorldTypes, CrossSucceeds, world, CallerTypes
    <3> QED
      BY <3>1, <3>2, <3>3 DEF TypeOK
  <2>11. ASSUME NEW c \in Calls, CrossFails(c) PROVE TypeOK'
    <3>1. RowTypes'
      BY <2>11 DEF RowTypes, CrossFails, rows, CallerTypes
    <3>2. CallerTypes'
      BY <2>11, LabelFacts DEF CallerTypes, CrossFails, Verdict, Goto
    <3>3. WorldTypes'
      BY <2>11 DEF WorldTypes, CrossFails, world, CallerTypes
    <3> QED
      BY <3>1, <3>2, <3>3 DEF TypeOK
  <2>12. ASSUME NEW c \in Calls, Cancelled(c) PROVE TypeOK'
    <3>1. RowTypes'
      BY <2>12 DEF RowTypes, Cancelled, rows, CallerTypes
    <3>2. CallerTypes'
      BY <2>12, LabelFacts DEF CallerTypes, Cancelled, Verdict, Goto
    <3>3. WorldTypes'
      BY <2>12 DEF WorldTypes, Cancelled, CallerTypes
    <3> QED
      BY <3>1, <3>2, <3>3 DEF TypeOK
  <2>13. ASSUME NEW c \in Calls, Finalized(c) PROVE TypeOK'
    <3>1. RowTypes'
      BY <2>13, VerdictTypes DEF Finalized
    <3>2. CallerTypes'
      BY <2>13, LabelFacts DEF CallerTypes, Finalized, Rest, Goto
    <3>3. WorldTypes'
      BY <2>13 DEF WorldTypes, Finalized, world, CallerTypes
    <3> QED
      BY <3>1, <3>2, <3>3 DEF TypeOK
  <2>14. ASSUME NEW c \in Calls, FinalizeCutShort(c) PROVE TypeOK'
    <3>1. RowTypes'
      BY <2>14, VerdictTypes DEF FinalizeCutShort, RowTypes, rows
    <3>2. CallerTypes'
      BY <2>14, LabelFacts DEF CallerTypes, FinalizeCutShort, Rest, Goto
    <3>3. WorldTypes'
      BY <2>14 DEF WorldTypes, FinalizeCutShort, world, CallerTypes
    <3> QED
      BY <3>1, <3>2, <3>3 DEF TypeOK
  <2>15. CASE CooldownEnds
    <3>1. RowTypes'
      BY <2>15 DEF RowTypes, CooldownEnds, rows
    <3>2. CallerTypes'
      BY <2>15 DEF CallerTypes, CooldownEnds, caller
    <3>3. WorldTypes'
      BY <2>15 DEF WorldTypes, CooldownEnds
    <3> QED
      BY <3>1, <3>2, <3>3 DEF TypeOK
  <2>16. CASE Crash
    <3>1. RowTypes'
      BY <2>16 DEF RowTypes, Crash, rows
    <3>2. CallerTypes'
      BY <2>16, LabelFacts DEF CallerTypes, Crash
    <3>3. WorldTypes'
      <4>1. PICK served \in SUBSET {c \in Calls : pc[c] = "asking"} :
              spent' = [c \in Calls |-> IF c \in served THEN tokens[c] ELSE spent[c]]
        BY <2>16 DEF Crash
      <4>2. spent' \in [Calls -> Nat]
        BY <4>1 DEF WorldTypes, CallerTypes
      <4>3. /\ crashes' = crashes + 1 /\ cooldown' = FALSE
            /\ UNCHANGED <<tried, today>>
        BY <2>16 DEF Crash
      <4>4. tried' \subseteq Calls /\ today' \in Days /\ crashes' \in Nat
        BY <4>3 DEF WorldTypes
      <4> QED
        BY <4>2, <4>3, <4>4, Zenon DEF WorldTypes
    <3> QED
      BY <3>1, <3>2, <3>3 DEF TypeOK
  <2>17. CASE Midnight
    <3>1. RowTypes'
      BY <2>17 DEF RowTypes, Midnight, rows
    <3>2. CallerTypes'
      BY <2>17 DEF CallerTypes, Midnight, caller
    <3>3. WorldTypes'
      BY <2>17, DayFacts DEF WorldTypes, Midnight
    <3> QED
      BY <3>1, <3>2, <3>3 DEF TypeOK
  <2>18. CASE UNCHANGED vars
    <3>1. RowTypes'
      BY <2>18 DEF RowTypes, vars, rows
    <3>2. CallerTypes'
      BY <2>18 DEF CallerTypes, vars, caller
    <3>3. WorldTypes'
      BY <2>18 DEF WorldTypes, vars, world
    <3> QED
      BY <3>1, <3>2, <3>3 DEF TypeOK
  <2> QED
    BY <2>1, <2>2, <2>3, <2>4, <2>5, <2>6, <2>7, <2>8, <2>9, <2>10, <2>11,
       <2>12, <2>13, <2>14, <2>15, <2>16, <2>17, <2>18
    DEF Next, Step, Progress, Interrupted, Finished
<1> QED
  BY <1>1, <1>2, PTL DEF Spec

------------------------------------------------------------------------------
LEMMA LabelsApart ==
  /\ Final = {"done", "fallback", "conflict", "cut", "lost"}
  /\ Reserving = {"update", "inspect", "insert"}
  /\ InFlight = {"asking", "cross"}
  /\ Verdicts = {"settle", "release", "charge", "exhaust"}
  BY DEF Final, Reserving, InFlight, Verdicts

\* Before a verdict there is nothing to charge back: only the call's own verdict
\* step closes its row.
LEMMA RowsBeforeVerdict ==
  ASSUME TypeOK, NEW c \in Calls, NEW a \in Calls, Step(a), ~(pc[a] \in Verdicts)
  PROVE  /\ status'[c] \in Closed => status[c] \in Closed
         /\ c # a => status'[c] = status[c]
<1> USE ClosedFacts, LabelsApart
<1>1. status \in [Calls -> Status]
  BY DEF TypeOK, RowTypes
<1>2. UNCHANGED status \/ status' = [status EXCEPT ![a] = "active"]
  BY DEF Step, Progress, Interrupted, Route, ReserveUpdate, ReserveInspect,
       ReserveInsert, ReserveCutShort,
       Reserves, Reserve, PrimarySkipped, PrimaryStarts, PrimarySucceeds,
         PrimaryFails, CrossSucceeds, CrossFails, Cancelled, Finalized, FinalizeCutShort,
         Close, Settle, Release, ChargeUncertain, MarkExhausted, rows
<1> QED
  BY <1>1, <1>2

\* A verdict step ends its call, and touches no row but its own.
LEMMA VerdictEnds ==
  ASSUME TypeOK, NEW a \in Calls, Step(a), pc[a] \in Verdicts
  PROVE  /\ pc'[a] \in Final /\ \A c \in Calls : c # a => pc'[c] = pc[c]
         /\ \A c \in Calls : c # a => status'[c] = status[c] /\ charged'[c] = charged[c]
         /\ UNCHANGED <<spent, prior>>
<1> USE LabelsApart
<1>1. pc \in [Calls -> Labels] /\ status \in [Calls -> Status] /\ charged \in [Calls -> Nat]
  BY DEF TypeOK, CallerTypes, RowTypes
<1>2. Finalized(a) \/ FinalizeCutShort(a)
  BY DEF Step, Progress, Interrupted, Route, ReserveUpdate, ReserveInspect,
       ReserveInsert, ReserveCutShort,
       PrimarySkipped, PrimaryStarts, PrimarySucceeds,
         PrimaryFails, CrossSucceeds, CrossFails, Cancelled
<1>3. (Goto(a, Rest(a)) \/ Goto(a, "cut")) /\ UNCHANGED <<spent, prior>>
  BY <1>2 DEF Finalized, FinalizeCutShort, world
<1>4. UNCHANGED <<status, charged>>
      \/ \E s, n : status' = [status EXCEPT ![a] = s] /\ charged' = [charged EXCEPT ![a] = n]
  BY <1>2 DEF Finalized, FinalizeCutShort, Close, Settle, Release, ChargeUncertain,
              MarkExhausted, Finalize, rows
<1> QED
  BY <1>1, <1>3, <1>4 DEF Goto, Rest

\* A step other than a verdict moves only its own call, out of no final label,
\* and charges nothing.
LEMMA WorkSteps ==
  ASSUME TypeOK, NEW a \in Calls, Step(a), ~(pc[a] \in Verdicts)
  PROVE  /\ pc[a] \notin Final
         /\ \A c \in Calls : c # a => pc'[c] = pc[c] /\ spent'[c] = spent[c]
         /\ \A c \in Calls : c # a => prior'[c] = prior[c]
         /\ UNCHANGED charged
         /\ pc[a] # "asking" => UNCHANGED spent
<1> USE LabelsApart
<1>1. /\ pc \in [Calls -> Labels] /\ spent \in [Calls -> Nat]
      /\ prior \in [Calls -> {"none", "releasable", "other"}]
  BY DEF TypeOK, CallerTypes, WorldTypes
<1>2. ~Finalized(a) /\ ~FinalizeCutShort(a)
  BY DEF Finalized, FinalizeCutShort, Close, Settle, Release, ChargeUncertain, MarkExhausted
<1>3. (\E l : Goto(a, l)) /\ pc[a] \notin Final
  BY <1>2 DEF Step, Progress, Interrupted, Route, ReserveUpdate, ReserveInspect,
       ReserveInsert, ReserveCutShort,
       PrimarySkipped, PrimaryStarts, PrimarySucceeds,
         PrimaryFails, CrossSucceeds, CrossFails, Cancelled
<1>4. UNCHANGED charged
  BY <1>2 DEF Step, Progress, Interrupted, Route, ReserveUpdate, ReserveInspect,
       ReserveInsert, ReserveCutShort,
       Reserves, Reserve, PrimarySkipped, PrimaryStarts, PrimarySucceeds,
         PrimaryFails, CrossSucceeds, CrossFails, Cancelled, rows
<1>5. UNCHANGED spent \/ (pc[a] = "asking" /\ \E t : spent' = [spent EXCEPT ![a] = t])
  BY <1>2 DEF Step, Progress, Interrupted, Route, ReserveUpdate, ReserveInspect,
       ReserveInsert, ReserveCutShort,
       PrimarySkipped, PrimaryStarts, PrimarySucceeds,
         PrimaryFails, CrossSucceeds, CrossFails, Cancelled, world
<1>6. UNCHANGED prior \/ \E e : prior' = [prior EXCEPT ![a] = e]
  BY <1>2 DEF Step, Progress, Interrupted, Route, ReserveUpdate, ReserveInspect,
       ReserveInsert, ReserveCutShort, PrimarySkipped, PrimaryStarts, PrimarySucceeds,
         PrimaryFails, CrossSucceeds, CrossFails, Cancelled
<1> QED
  BY <1>1, <1>3, <1>4, <1>5, <1>6 DEF Goto

\* A reservation row is closed only together with its call: the steps that move
\* nothing but the world cannot separate the two.
LEMMA ClosedCallsStep ==
  ASSUME TypeOK, ClosedCallsAreOver, [Next]_vars
  PROVE  ClosedCallsAreOver'
<1> SUFFICES ASSUME NEW c \in Calls, status'[c] \in Closed PROVE pc'[c] \in Final
  BY DEF ClosedCallsAreOver
<1>1. ASSUME NEW a \in Calls, Step(a), pc[a] \in Verdicts PROVE pc'[c] \in Final
  BY <1>1, VerdictEnds DEF ClosedCallsAreOver
<1>2. ASSUME NEW a \in Calls, Step(a), ~(pc[a] \in Verdicts) PROVE pc'[c] \in Final
  BY <1>2, RowsBeforeVerdict, WorkSteps DEF ClosedCallsAreOver
<1>3. CASE Crash
  BY <1>3 DEF Crash, ClosedCallsAreOver, rows
<1>4. CASE CooldownEnds \/ Midnight \/ UNCHANGED vars
  BY <1>4 DEF CooldownEnds, Midnight, vars, rows, caller, ClosedCallsAreOver
<1> QED
  BY <1>1, <1>2, <1>3, <1>4 DEF Next, Finished

\* No reservation gets a second verdict (quota_execution.py).
THEOREM OneVerdictPerCall == Spec => []ClosedCallsAreOver
<1>1. Init => ClosedCallsAreOver
  BY ClosedFacts DEF Init, ClosedCallsAreOver
<1> QED
  BY <1>1, TypeCorrect, ClosedCallsStep, PTL DEF Spec

\* A closed reservation row never changes again (_finalize).
THEOREM RowsAreFinal == Spec => FinalizedOnce
<1>1. TypeOK /\ ClosedCallsAreOver /\ [Next]_vars
      => [\A c \in Calls : status[c] \in Closed =>
             status'[c] = status[c] /\ charged'[c] = charged[c]]_vars
  <2> SUFFICES ASSUME TypeOK, ClosedCallsAreOver, [Next]_vars,
                      NEW c \in Calls, status[c] \in Closed
               PROVE  status'[c] = status[c] /\ charged'[c] = charged[c]
    OBVIOUS
  <2>1. pc[c] \in Final
    BY DEF ClosedCallsAreOver
  <2>2. ASSUME NEW a \in Calls, Step(a), pc[a] \in Verdicts
        PROVE  status'[c] = status[c] /\ charged'[c] = charged[c]
    BY <2>1, <2>2, VerdictEnds, LabelsApart
  <2>3. ASSUME NEW a \in Calls, Step(a), ~(pc[a] \in Verdicts)
        PROVE  status'[c] = status[c] /\ charged'[c] = charged[c]
    BY <2>1, <2>3, WorkSteps, RowsBeforeVerdict
  <2>4. CASE Crash \/ CooldownEnds \/ Midnight \/ UNCHANGED vars
    BY <2>4 DEF Crash, CooldownEnds, Midnight, vars, rows
  <2> QED
    BY <2>2, <2>3, <2>4 DEF Next, Finished
<1> QED
  BY <1>1, TypeCorrect, OneVerdictPerCall, PTL DEF Spec, FinalizedOnce

\* Once the provider has declared a day exhausted, _reserve opens no reservation
\* on it, whichever of its three statements it had reached.
THEOREM ExhaustionHolds == Spec => ExhaustedDayStaysClosed
<1>1. TypeOK /\ [Next]_vars
      => [\A c \in Calls :
            status[c] = "none" /\ status'[c] = "active" => day[c] \notin exhausted]_vars
  <2> SUFFICES ASSUME TypeOK, [Next]_vars,
                      NEW c \in Calls, status[c] = "none", status'[c] = "active"
               PROVE  day[c] \notin exhausted
    OBVIOUS
  <2> USE ClosedFacts, LabelsApart
  <2>1. status \in [Calls -> Status] /\ exhausted \subseteq counters
    BY DEF TypeOK, RowTypes
  <2>2. ASSUME NEW a \in Calls, Step(a), pc[a] \in Verdicts PROVE FALSE
    <3>1. Finalized(a) \/ FinalizeCutShort(a)
      BY <2>2 DEF Step, Progress, Interrupted, Route, ReserveUpdate, ReserveInspect,
           ReserveInsert,
           ReserveCutShort, PrimarySkipped, PrimaryStarts, PrimarySucceeds,
             PrimaryFails, CrossSucceeds, CrossFails, Cancelled
    <3>2. UNCHANGED status \/ \E s \in Closed : status' = [status EXCEPT ![a] = s]
      BY <3>1 DEF Finalized, FinalizeCutShort, Close, Settle, Release, ChargeUncertain,
                  MarkExhausted, Finalize, rows
    <3> QED
      BY <2>1, <3>2
  <2>3. ASSUME NEW a \in Calls, Step(a), ~(pc[a] \in Verdicts) PROVE day[c] \notin exhausted
    <3>1. ~Finalized(a) /\ ~FinalizeCutShort(a)
      BY <2>3 DEF Finalized, FinalizeCutShort, Close, Settle, Release, ChargeUncertain,
                  MarkExhausted
    <3>2. \/ UNCHANGED status
          \/ /\ status' = [status EXCEPT ![a] = "active"]
             /\ Fits(day[a], tokens[a]) \/ day[a] \notin counters
      BY <2>3, <3>1 DEF Step, Progress, Interrupted, Route, ReserveUpdate, ReserveInspect,
           ReserveInsert,
             ReserveCutShort, Reserves, Reserve, PrimarySkipped, PrimaryStarts,
             PrimarySucceeds, PrimaryFails, CrossSucceeds, CrossFails, Cancelled, rows
    <3> QED
      BY <2>1, <3>2 DEF Fits
  <2>4. ASSUME Crash \/ CooldownEnds \/ Midnight \/ UNCHANGED vars PROVE FALSE
    BY <2>4 DEF Crash, CooldownEnds, Midnight, vars, rows
  <2> QED
    BY <2>2, <2>3, <2>4 DEF Next, Finished
<1> QED
  BY <1>1, TypeCorrect, PTL DEF Spec, ExhaustedDayStaysClosed

------------------------------------------------------------------------------
(* A verdict that charges nothing follows only from a rejection before     *)
(* inference: of the metered model, or of the second provider after a      *)
(* clean failure of the metered model.                                     *)

\* Where a call has spent nothing, unless it was handed on after an ambiguous failure.
Unspending == {"new", "primary", "cross", "release", "exhaust"} \cup Reserving

FreeUnspent ==
  \A c \in Calls : pc[c] \in Unspending => spent[c] = 0 \/ prior[c] = "other"

UnspentInv == FreeUnspent /\ OnlyMisjudgedAreOwed

\* A call that is still working has no closed row, and gets a verdict that
\* charges nothing only if nothing was spent.
LEMMA WorkKeepsUnspent ==
  ASSUME TypeOK, ClosedCallsAreOver, UnspentInv,
         NEW a \in Calls, Step(a), ~(pc[a] \in Verdicts)
  PROVE  UnspentInv'
<1> USE LabelsApart, ClosedFacts
<1>1. /\ pc \in [Calls -> Labels] /\ spent \in [Calls -> Nat] /\ status \in [Calls -> Status]
      /\ prior \in [Calls -> {"none", "releasable", "other"}]
  BY DEF TypeOK, CallerTypes, WorldTypes, RowTypes
<1>2. ~Finalized(a) /\ ~FinalizeCutShort(a)
  BY DEF Finalized, FinalizeCutShort, Close, Settle, Release, ChargeUncertain, MarkExhausted
<1>3. pc'[a] \in Unspending => spent'[a] = 0 \/ prior'[a] = "other"
  <2>1. CASE PrimaryFails(a)
    BY <2>1, <1>1 DEF PrimaryFails, Verdict, Goto, Ambiguous, Releasable, FailsOver, Unspending
  <2>2. CASE PrimarySucceeds(a) \/ Cancelled(a)
    BY <2>2, <1>1 DEF PrimarySucceeds, Cancelled, Verdict, Goto, Releasable, Unspending
  <2>3. CASE ~PrimaryFails(a) /\ ~PrimarySucceeds(a) /\ ~Cancelled(a)
    <3>1. /\ pc[a] \in Unspending \/ pc'[a] \notin Unspending
          /\ UNCHANGED <<spent, prior>>
      BY <2>3, <1>1, <1>2 DEF Step, Progress, Interrupted, Route, ReserveUpdate,
             ReserveInspect, ReserveInsert, ReserveCutShort, PrimarySkipped,
             PrimaryStarts, CrossSucceeds, CrossFails, Goto, Unspending, world
    <3> QED
      BY <3>1 DEF UnspentInv, FreeUnspent
  <2> QED
    BY <2>1, <2>2, <2>3
<1>4. FreeUnspent'
  BY <1>3, WorkSteps DEF UnspentInv, FreeUnspent
<1>5. OnlyMisjudgedAreOwed'
  <2> SUFFICES ASSUME NEW c \in Calls, status'[c] \in {"released", "provider_exhausted"},
                      prior'[c] # "other"
               PROVE  spent'[c] = 0
    BY DEF OnlyMisjudgedAreOwed, Uncharged, Misjudged
  <2>1. status[c] \in Closed
    BY RowsBeforeVerdict
  <2>2. pc[c] \in Final /\ pc[a] \notin Final
    BY <2>1, WorkSteps DEF ClosedCallsAreOver
  <2>3. c # a
    BY <2>2
  <2>4. status'[c] = status[c] /\ spent'[c] = spent[c] /\ prior'[c] = prior[c]
    BY <2>3, RowsBeforeVerdict, WorkSteps
  <2> QED
    BY <2>4 DEF UnspentInv, OnlyMisjudgedAreOwed, Uncharged, Misjudged
<1> QED
  BY <1>4, <1>5 DEF UnspentInv

LEMMA VerdictKeepsUnspent ==
  ASSUME TypeOK, UnspentInv, NEW a \in Calls, Step(a), pc[a] \in Verdicts
  PROVE  UnspentInv'
<1> USE LabelsApart, ClosedFacts
<1>1. FreeUnspent'
  BY VerdictEnds DEF UnspentInv, FreeUnspent, Unspending
<1>2. Finalized(a) \/ FinalizeCutShort(a)
  BY DEF Step, Progress, Interrupted, Route, ReserveUpdate, ReserveInspect,
       ReserveInsert,
       ReserveCutShort, PrimarySkipped, PrimaryStarts, PrimarySucceeds,
         PrimaryFails, CrossSucceeds, CrossFails, Cancelled
<1>3. \/ status'[a] = status[a]
      \/ status'[a] \in {"released", "provider_exhausted"} => spent[a] = 0 \/ prior[a] = "other"
  <2>1. status \in [Calls -> Status]
    BY DEF TypeOK, RowTypes
  <2> QED
    BY <1>2, <2>1 DEF Finalized, FinalizeCutShort, Close, Settle, Release, ChargeUncertain,
              MarkExhausted, Finalize, rows, UnspentInv, FreeUnspent, Unspending
<1>4. OnlyMisjudgedAreOwed'
  BY <1>3, VerdictEnds DEF UnspentInv, OnlyMisjudgedAreOwed, Uncharged, Misjudged
<1> QED
  BY <1>1, <1>4 DEF UnspentInv

\* What the ledger gives back uncharged was never spent, but for the calls whose
\* ambiguous failure a second provider's covers up: release and mark_exhausted are
\* sound otherwise, with one provider and with two (quota_execution.py).
THEOREM ReleaseIsSound == Spec => []OnlyMisjudgedAreOwed
<1>1. Init => UnspentInv
  BY LabelsApart
  DEF Init, UnspentInv, FreeUnspent, OnlyMisjudgedAreOwed, Uncharged, Misjudged
<1>2. TypeOK /\ ClosedCallsAreOver /\ UnspentInv /\ [Next]_vars => UnspentInv'
  <2> SUFFICES ASSUME TypeOK, ClosedCallsAreOver, UnspentInv, [Next]_vars PROVE UnspentInv'
    OBVIOUS
  <2>1. ASSUME NEW a \in Calls, Step(a) PROVE UnspentInv'
    BY <2>1, WorkKeepsUnspent, VerdictKeepsUnspent
  <2>2. CASE Crash
    <3>1. UNCHANGED <<status, prior>>
      BY <2>2 DEF Crash, rows
    <3>2. \A c \in Calls : (pc'[c] = pc[c] /\ pc[c] \in {"new"} \cup Final) \/ pc'[c] = "lost"
      BY <2>2 DEF Crash
    <3>3. \A c \in Calls : pc[c] # "asking" => spent'[c] = spent[c]
      BY <2>2 DEF Crash, TypeOK, WorldTypes
    <3>4. OnlyMisjudgedAreOwed'
      BY <3>1, <3>3, LabelsApart, ClosedFacts
      DEF UnspentInv, OnlyMisjudgedAreOwed, Uncharged, Misjudged, ClosedCallsAreOver
    <3>5. FreeUnspent'
      BY <3>1, <3>2, <3>3, LabelsApart DEF UnspentInv, FreeUnspent, Unspending
    <3> QED
      BY <3>4, <3>5 DEF UnspentInv
  <2>3. CASE CooldownEnds \/ Midnight \/ UNCHANGED vars
    BY <2>3 DEF CooldownEnds, Midnight, vars, rows, caller, world, UnspentInv,
                FreeUnspent, OnlyMisjudgedAreOwed, Uncharged, Misjudged
  <2> QED
    BY <2>1, <2>2, <2>3 DEF Next, Finished
<1>3. UnspentInv => OnlyMisjudgedAreOwed
  BY DEF UnspentInv
<1> QED
  BY <1>1, <1>2, <1>3, TypeCorrect, OneVerdictPerCall, PTL DEF Spec

------------------------------------------------------------------------------
(* Sums.  A token of a call is a pair, so a sum is the size of a set and   *)
(* the facts about finite sets are facts about sums.                       *)

\* The tokens of finitely many calls are finitely many.
LEMMA UnitsFinite ==
  ASSUME NEW f \in [Calls -> Nat], NEW S, S \subseteq Calls
  PROVE  IsFiniteSet(Units(f, S)) /\ Total(f, S) \in Nat
<1> DEFINE Parts == {{c} \X (1 .. f[c]) : c \in S}
           g == [c \in S |-> {c} \X (1 .. f[c])]
<1>1. IsFiniteSet(S)
  BY CallsAssumption, FS_Subset
<1>2. g \in Surjection(S, Parts)
  BY DEF Surjection, Range
<1>3. IsFiniteSet(Parts)
  BY <1>1, <1>2, FS_Surjection
<1>4. ASSUME NEW P \in Parts PROVE IsFiniteSet(P)
  <2>1. PICK c \in S : P = {c} \X (1 .. f[c])
    OBVIOUS
  <2>2. 1 \in Int /\ f[c] \in Int
    OBVIOUS
  <2>3. IsFiniteSet({c}) /\ IsFiniteSet(1 .. f[c])
    BY <2>2, FS_Singleton, FS_Interval
  <2> QED
    BY <2>1, <2>3, FS_Product
<1>5. Units(f, S) = UNION Parts
  BY DEF Units
<1> HIDE DEF Parts
<1>6. IsFiniteSet(Units(f, S))
  BY <1>3, <1>4, <1>5, FS_UNION
<1> QED
  BY <1>6, FS_CardinalityType DEF Total

\* Sums depend only on the calls summed over.
LEMMA TotalSame ==
  ASSUME NEW f, NEW g, NEW S, \A c \in S : f[c] = g[c]
  PROVE  Total(f, S) = Total(g, S)
<1>1. Units(f, S) = Units(g, S)
  BY DEF Units
<1> QED
  BY <1>1 DEF Total

LEMMA TotalEmpty == \A f : Total(f, {}) = 0
<1>1. \A f : Units(f, {}) = {}
  BY DEF Units
<1> QED
  BY <1>1, FS_EmptySet DEF Total

\* One more call adds its tokens.
LEMMA TotalAdds ==
  ASSUME NEW f \in [Calls -> Nat], NEW S, S \subseteq Calls, NEW a \in Calls, a \notin S
  PROVE  Total(f, S \cup {a}) = Total(f, S) + f[a]
<1> DEFINE Own == {a} \X (1 .. f[a])
<1>1. Units(f, S \cup {a}) = Units(f, S) \cup Own
  BY DEF Units
<1>2. Units(f, S) \cap Own = {}
  BY DEF Units
<1>3. IsFiniteSet(Own) /\ Cardinality(Own) = f[a]
  <2>1. IsFiniteSet({a}) /\ Cardinality({a}) = 1
    BY FS_Singleton
  <2>2. IsFiniteSet(1 .. f[a]) /\ Cardinality(1 .. f[a]) = f[a]
    <3>1. f[a] \in Nat
      OBVIOUS
    <3> QED
      BY <3>1, FS_Interval
  <2>3. IsFiniteSet(Own) /\ Cardinality(Own) = Cardinality({a}) * Cardinality(1 .. f[a])
    BY <2>1, <2>2, FS_Product, Zenon
  <2>4. Cardinality(Own) = 1 * f[a] /\ f[a] \in Nat
    BY <2>1, <2>2, <2>3
  <2> QED
    BY <2>3, <2>4
<1> HIDE DEF Own
<1>4. IsFiniteSet(Units(f, S)) /\ Total(f, S) \in Nat
  BY UnitsFinite
<1>5. Cardinality(Units(f, S) \cup Own) =
        Cardinality(Units(f, S)) + Cardinality(Own) - Cardinality(Units(f, S) \cap Own)
  BY <1>3, <1>4, FS_Union
<1>6. Cardinality(Units(f, S) \cap Own) = 0
  BY <1>2, FS_EmptySet
<1>7. Cardinality(Units(f, S) \cup Own) = Total(f, S) + f[a]
  <2>1. f[a] \in Nat /\ Cardinality(Units(f, S)) = Total(f, S)
    BY DEF Total
  <2> QED
    BY <1>3, <1>4, <1>5, <1>6, <2>1
<1> QED
  BY <1>1, <1>7 DEF Total

\* What every call of S \cup T accounts for, in one sum or the other, is
\* bounded by the two sums.
LEMMA TotalBound ==
  ASSUME NEW f \in [Calls -> Nat], NEW g \in [Calls -> Nat], NEW h \in [Calls -> Nat],
         NEW R, NEW S, NEW T, R \subseteq Calls, S \subseteq Calls, T \subseteq Calls,
         \A c \in R : \/ f[c] = 0
                     \/ (c \in S /\ f[c] <= g[c])
                     \/ (c \in T /\ f[c] <= h[c])
  PROVE  Total(f, R) <= Total(g, S) + Total(h, T)
<1>1. Units(f, R) \subseteq Units(g, S) \cup Units(h, T)
  <2> SUFFICES ASSUME NEW c \in R, NEW i \in 1 .. f[c]
               PROVE  <<c, i>> \in Units(g, S) \cup Units(h, T)
    BY DEF Units
  <2>1. f[c] \in Nat /\ g[c] \in Nat /\ h[c] \in Nat /\ f[c] # 0
    OBVIOUS
  <2>2. (c \in S /\ i \in 1 .. g[c]) \/ (c \in T /\ i \in 1 .. h[c])
    BY <2>1
  <2> QED
    BY <2>2 DEF Units
<1>2. /\ IsFiniteSet(Units(g, S)) /\ IsFiniteSet(Units(h, T)) /\ Total(f, R) \in Nat
      /\ Total(g, S) \in Nat /\ Total(h, T) \in Nat
  BY UnitsFinite
<1> DEFINE Both == Units(g, S) \cup Units(h, T)
           Shared == Units(g, S) \cap Units(h, T)
<1>3. IsFiniteSet(Both) /\ Cardinality(Both) =
        Cardinality(Units(g, S)) + Cardinality(Units(h, T)) - Cardinality(Shared)
  BY <1>2, FS_Union
<1>4. Cardinality(Shared) \in Nat /\ Cardinality(Both) \in Nat
  BY <1>2, <1>3, FS_Intersection, FS_CardinalityType
<1>5. Cardinality(Units(f, R)) <= Cardinality(Both)
  BY <1>1, <1>3, FS_Subset
<1> HIDE DEF Both, Shared
<1> QED
  BY <1>2, <1>3, <1>4, <1>5 DEF Total
------------------------------------------------------------------------------
(* Where a call is says what its row holds; the second attempt of _reserve *)
(* always meets the row that the first one collided with.                  *)

HasRow == {"primary"} \cup InFlight \cup Verdicts

PathInv ==
  \A c \in Calls :
    /\ pc[c] # "conflict"
    /\ pc[c] \in {"new"} \cup Reserving => status[c] = "none"
    /\ pc[c] \in HasRow => status[c] = "active"
    /\ pc[c] \in {"done", "fallback"} => status[c] # "active"
    /\ pc[c] \in Reserving => tokens[c] <= Limit
    /\ pc[c] = "new" => attempt[c] = 1
    /\ attempt[c] = 2 => day[c] \in counters /\ pc[c] # "insert"
    /\ status[c] # "none" => day[c] \in counters

\* A call uses at most what it reserved, and nothing before it has reserved.
SpendInv ==
  \A c \in Calls : spent[c] <= tokens[c] /\ (status[c] = "none" => spent[c] = 0)

\* A step of one call that leaves it in order leaves the others so.
LEMMA PathOfOne ==
  ASSUME TypeOK, PathInv, SpendInv, NEW a \in Calls,
         \A c \in Calls : c # a =>
           /\ pc'[c] = pc[c] /\ status'[c] = status[c] /\ tokens'[c] = tokens[c]
           /\ attempt'[c] = attempt[c] /\ day'[c] = day[c] /\ spent'[c] = spent[c],
         counters \subseteq counters',
         /\ pc'[a] # "conflict"
         /\ pc'[a] \in {"new"} \cup Reserving => status'[a] = "none"
         /\ pc'[a] \in HasRow => status'[a] = "active"
         /\ pc'[a] \in {"done", "fallback"} => status'[a] # "active"
         /\ pc'[a] \in Reserving => tokens'[a] <= Limit
         /\ pc'[a] = "new" => attempt'[a] = 1
         /\ attempt'[a] = 2 => day'[a] \in counters' /\ pc'[a] # "insert"
         /\ status'[a] # "none" => day'[a] \in counters',
         spent'[a] <= tokens'[a],
         status'[a] = "none" => spent'[a] = 0
  PROVE  PathInv' /\ SpendInv'
<1>1. PathInv'
  BY DEF PathInv
<1>2. SpendInv'
  BY DEF SpendInv
<1> QED
  BY <1>1, <1>2

LEMMA PathKept ==
  ASSUME TypeOK, PathInv, SpendInv, [Next]_vars
  PROVE  PathInv' /\ SpendInv'
<1> USE LabelsApart, ClosedFacts DEF HasRow
<1>1. /\ pc \in [Calls -> Labels] /\ tokens \in [Calls -> Nat] /\ day \in [Calls -> Days]
      /\ attempt \in [Calls -> 1 .. 2] /\ status \in [Calls -> Status]
      /\ spent \in [Calls -> Nat] /\ Limit \in Nat
  BY LimitAssumption DEF TypeOK, CallerTypes, RowTypes, WorldTypes
<1>2. ASSUME NEW c \in Calls
      PROVE  /\ pc[c] # "conflict"
             /\ pc[c] \in {"new"} \cup Reserving => status[c] = "none"
             /\ pc[c] \in HasRow => status[c] = "active"
             /\ pc[c] \in {"done", "fallback"} => status[c] # "active"
             /\ pc[c] \in Reserving => tokens[c] <= Limit
             /\ pc[c] = "new" => attempt[c] = 1
             /\ attempt[c] = 2 => day[c] \in counters /\ pc[c] # "insert"
             /\ status[c] # "none" => day[c] \in counters
             /\ spent[c] <= tokens[c]
             /\ status[c] = "none" => spent[c] = 0
             /\ tokens[c] \in Nat /\ spent[c] \in Nat /\ attempt[c] \in 1 .. 2
  BY <1>1 DEF PathInv, SpendInv
<1>3. ASSUME NEW a \in Calls, Route(a) PROVE PathInv' /\ SpendInv'
  <2>1. PICK r \in Estimates : /\ tokens' = [tokens EXCEPT ![a] = r]
                              /\ Goto(a, IF r > Limit THEN "fallback" ELSE "update")
    BY <1>3 DEF Route
  <2>2. r \in Nat
    BY EstimatesAssumption
  <2> QED
    BY <1>1, <1>2, <1>3, <2>1, <2>2, PathOfOne DEF Route, Goto, rows, world
<1>4. ASSUME NEW a \in Calls, ReserveUpdate(a) PROVE PathInv' /\ SpendInv'
  BY <1>1, <1>2, <1>4, PathOfOne DEF ReserveUpdate, Reserve, Fits, Goto, rows, world
<1>5. ASSUME NEW a \in Calls, ReserveInspect(a) PROVE PathInv' /\ SpendInv'
  BY <1>1, <1>2, <1>5, PathOfOne DEF ReserveInspect, Goto, rows, world
<1>6. ASSUME NEW a \in Calls, ReserveInsert(a) PROVE PathInv' /\ SpendInv'
  BY <1>1, <1>2, <1>6, PathOfOne DEF ReserveInsert, Reserve, Goto, rows, world
<1>7. ASSUME NEW a \in Calls, ReserveCutShort(a) PROVE PathInv' /\ SpendInv'
  BY <1>1, <1>2, <1>7, PathOfOne DEF ReserveCutShort, Reserves, Reserve, Fits, Goto, rows, world
<1>8. ASSUME NEW a \in Calls, PrimarySkipped(a) \/ PrimaryStarts(a)
      PROVE  PathInv' /\ SpendInv'
  BY <1>1, <1>2, <1>8, PathOfOne
  DEF PrimarySkipped, PrimaryStarts, Verdict, Goto, rows, world, Releasable
<1>9. ASSUME NEW a \in Calls, PrimarySucceeds(a) PROVE PathInv' /\ SpendInv'
  <2>1. PICK t \in 1 .. tokens[a] : spent' = [spent EXCEPT ![a] = t]
    BY <1>9 DEF PrimarySucceeds
  <2>2. t \in Nat /\ t <= tokens[a] /\ \E l \in {"settle", "charge"} : Goto(a, l)
    BY <1>2, <1>9 DEF PrimarySucceeds
  <2>3. pc[a] = "asking" /\ UNCHANGED <<counters, status, tokens, day, attempt>>
    BY <1>9 DEF PrimarySucceeds, rows
  <2>4. /\ spent'[a] <= tokens'[a] /\ status'[a] = "active" /\ day'[a] \in counters'
        /\ attempt'[a] = attempt[a] /\ pc'[a] \in {"settle", "charge"}
    BY <1>1, <1>2, <2>1, <2>2, <2>3 DEF Goto
  <2>5. \A c \in Calls : c # a =>
           /\ pc'[c] = pc[c] /\ status'[c] = status[c] /\ tokens'[c] = tokens[c]
           /\ attempt'[c] = attempt[c] /\ day'[c] = day[c] /\ spent'[c] = spent[c]
    BY <1>1, <2>1, <2>2, <2>3 DEF Goto
  <2> QED
    BY <2>3, <2>4, <2>5, PathOfOne
<1>10. ASSUME NEW a \in Calls, PrimaryFails(a) PROVE PathInv' /\ SpendInv'
  <2>1. PICK t \in 0 .. tokens[a] : spent' = [spent EXCEPT ![a] = t]
    <3>1. PICK kind \in ErrorKinds :
            \E t \in (IF kind \in Ambiguous THEN 0 .. tokens[a] ELSE {0}) :
              spent' = [spent EXCEPT ![a] = t]
      BY <1>10 DEF PrimaryFails
    <3>2. 0 \in 0 .. tokens[a]
      BY <1>2
    <3> QED
      BY <3>1, <3>2
  <2>2. \E l \in {"cross"} \cup Verdicts : Goto(a, l)
    BY <1>10 DEF PrimaryFails, Verdict
  <2> QED
    BY <1>1, <1>2, <1>10, <2>1, <2>2, PathOfOne DEF PrimaryFails, Goto, rows
<1>11. ASSUME NEW a \in Calls, CrossSucceeds(a) \/ CrossFails(a) PROVE PathInv' /\ SpendInv'
  <2>1. \E l \in Verdicts : Goto(a, l)
    BY <1>11 DEF CrossSucceeds, CrossFails, Verdict
  <2> QED
    BY <1>1, <1>2, <1>11, <2>1, PathOfOne DEF CrossSucceeds, CrossFails, Goto, rows, world
<1>12. ASSUME NEW a \in Calls, Cancelled(a) PROVE PathInv' /\ SpendInv'
  <2>1. PICK t \in 0 .. tokens[a] : spent' = [spent EXCEPT ![a] = t]
    <3>1. spent = [spent EXCEPT ![a] = spent[a]] /\ spent[a] \in 0 .. tokens[a]
      BY <1>1, <1>2
    <3> QED
      BY <1>12, <3>1 DEF Cancelled
  <2>2. \E l \in Verdicts : Goto(a, l)
    BY <1>12 DEF Cancelled, Verdict
  <2> QED
    BY <1>1, <1>2, <1>12, <2>1, <2>2, PathOfOne DEF Cancelled, Goto, rows
<1>13. ASSUME NEW a \in Calls, Finalized(a) \/ FinalizeCutShort(a) PROVE PathInv' /\ SpendInv'
  <2>1. /\ pc[a] \in Verdicts /\ counters \subseteq counters'
        /\ \E l \in {"fallback", "done", "cut"} : Goto(a, l)
        /\ UNCHANGED <<tokens, day, attempt, spent>>
        /\ Goto(a, "cut") \/ Close(a) \/ MarkExhausted(a)
    BY <1>13 DEF Finalized, FinalizeCutShort, Close, Settle, Release, ChargeUncertain,
                 MarkExhausted, Rest, rows, world
  <2>2. UNCHANGED status \/ \E s \in Closed : status' = [status EXCEPT ![a] = s]
    BY <1>13 DEF Finalized, FinalizeCutShort, Close, Settle, Release, ChargeUncertain,
                 MarkExhausted, Finalize, rows
  <2>3. Goto(a, "cut") \/ status'[a] \in Closed
    <3>1. status[a] = "active" /\ day[a] \in counters'
      BY <1>2, <2>1
    <3> QED
      BY <1>1, <2>1, <3>1 DEF Close, Settle, Release, ChargeUncertain, MarkExhausted, Finalize
  <2> QED
    BY <1>1, <1>2, <2>1, <2>2, <2>3, PathOfOne DEF Goto
<1>14. CASE Crash
  <2>1. \A c \in Calls :
          (pc'[c] = pc[c] /\ pc[c] \in {"new"} \cup Final) \/ pc'[c] = "lost"
    BY <1>1, <1>14 DEF Crash
  <2>2. \A c \in Calls : spent'[c] = spent[c] \/ (pc[c] = "asking" /\ spent'[c] = tokens[c])
    <3>1. PICK served \in SUBSET {c \in Calls : pc[c] = "asking"} :
            spent' = [c \in Calls |-> IF c \in served THEN tokens[c] ELSE spent[c]]
      BY <1>14 DEF Crash
    <3> QED
      BY <3>1
  <2>3. UNCHANGED <<counters, status, tokens, day, attempt>>
    BY <1>14 DEF Crash, rows
  <2>4. PathInv'
    BY <1>2, <2>1, <2>3 DEF PathInv
  <2>5. SpendInv'
    BY <1>2, <2>2, <2>3 DEF SpendInv
  <2> QED
    BY <2>4, <2>5
<1>15. CASE CooldownEnds \/ Midnight \/ UNCHANGED vars
  BY <1>15 DEF CooldownEnds, Midnight, vars, rows, caller, world, PathInv, SpendInv
<1> QED
  BY <1>3, <1>4, <1>5, <1>6, <1>7, <1>8, <1>9, <1>10, <1>11, <1>12, <1>13, <1>14, <1>15
  DEF Next, Step, Progress, Interrupted, Finished
------------------------------------------------------------------------------
(* To the books a step is one of three things: it opens a reservation,     *)
(* closes one, or leaves every reservation as it was.                      *)

Opens(a) ==
  /\ status[a] = "none" /\ tokens[a] <= Limit
  /\ Fits(day[a], tokens[a]) \/ day[a] \notin counters
  /\ status' = [status EXCEPT ![a] = "active"]
  /\ reserved' = [reserved EXCEPT ![day[a]] = @ + tokens[a]]
  /\ UNCHANGED <<consumed, charged, tokens, day, spent>>

Closes(a, s, n) ==
  /\ status[a] = "active"
  /\ spent[a] <= n \/ (s \in {"released", "provider_exhausted"})
  /\ status' = [status EXCEPT ![a] = s]
  /\ charged' = [charged EXCEPT ![a] = n]
  /\ reserved' = [reserved EXCEPT ![day[a]] = Less(@, tokens[a])]
  /\ consumed' = [consumed EXCEPT ![day[a]] = @ + n]
  /\ UNCHANGED <<tokens, day, spent>>

Quiet ==
  /\ UNCHANGED <<consumed, reserved, status, charged>>
  /\ \A c \in Calls : status[c] # "none" => tokens'[c] = tokens[c] /\ day'[c] = day[c]

LEMMA StepShapes ==
  ASSUME TypeOK, PathInv, SpendInv, [Next]_vars
  PROVE  \/ \E a \in Calls : Opens(a)
         \/ \E a \in Calls, s \in Closed : \E n \in 0 .. tokens[a] : Closes(a, s, n)
         \/ Quiet
<1> USE LabelsApart, ClosedFacts DEF HasRow
<1>1. /\ tokens \in [Calls -> Nat] /\ day \in [Calls -> Days] /\ spent \in [Calls -> Nat]
  BY DEF TypeOK, CallerTypes, RowTypes, WorldTypes
<1>2. ASSUME NEW c \in Calls
      PROVE  /\ pc[c] \in {"new"} \cup Reserving => status[c] = "none"
             /\ pc[c] \in HasRow => status[c] = "active"
             /\ pc[c] \in Reserving => tokens[c] <= Limit
             /\ status[c] # "none" => day[c] \in counters
             /\ spent[c] \in 0 .. tokens[c] /\ tokens[c] \in 0 .. tokens[c]
             /\ 0 \in 0 .. tokens[c]
  BY <1>1 DEF PathInv, SpendInv
<1>3. ASSUME NEW a \in Calls, Route(a) PROVE Quiet
  <2>1. PICK r \in Estimates : tokens' = [tokens EXCEPT ![a] = r]
    BY <1>3 DEF Route
  <2> QED
    BY <1>1, <1>2, <1>3, <2>1 DEF Route, Quiet, rows
<1>4. ASSUME NEW a \in Calls, ReserveUpdate(a) \/ ReserveInsert(a) \/ ReserveCutShort(a)
      PROVE  Opens(a) \/ Quiet
  BY <1>2, <1>4
  DEF ReserveUpdate, ReserveInsert, ReserveCutShort, Reserves, Reserve, Opens, Quiet, rows, world
<1>5. ASSUME NEW a \in Calls,
             \/ ReserveInspect(a) \/ PrimarySkipped(a) \/ PrimaryStarts(a)
             \/ PrimarySucceeds(a) \/ PrimaryFails(a) \/ CrossSucceeds(a) \/ CrossFails(a)
             \/ Cancelled(a)
      PROVE  Quiet
  BY <1>5 DEF ReserveInspect, PrimarySkipped, PrimaryStarts, PrimarySucceeds, PrimaryFails,
              CrossSucceeds, CrossFails, Cancelled, Quiet, rows
<1>6. ASSUME NEW a \in Calls, Finalized(a) \/ FinalizeCutShort(a)
      PROVE  Quiet \/ \E s \in Closed : \E n \in 0 .. tokens[a] : Closes(a, s, n)
  <2>1. UNCHANGED <<tokens, day, spent>>
    BY <1>6 DEF Finalized, FinalizeCutShort, world
  <2>2. CASE UNCHANGED rows
    BY <2>1, <2>2 DEF Quiet, rows
  <2>3. CASE Close(a) \/ MarkExhausted(a)
    <3>1. status[a] = "active" /\ day[a] \in counters'
      BY <1>2, <2>3 DEF Close, Settle, Release, ChargeUncertain, MarkExhausted
    <3>2. PICK s \in Closed, n \in 0 .. tokens[a] :
            /\ Finalize(a, s, n)
            /\ spent[a] <= n \/ (s \in {"released", "provider_exhausted"})
      BY <1>1, <1>2, <2>3 DEF Close, Settle, Release, ChargeUncertain, MarkExhausted
    <3>3. Closes(a, s, n)
      BY <2>1, <3>1, <3>2 DEF Closes, Finalize
    <3> QED
      BY <3>3
  <2> QED
    BY <1>6, <2>2, <2>3 DEF Finalized, FinalizeCutShort
<1>7. ASSUME Crash \/ CooldownEnds \/ Midnight \/ UNCHANGED vars PROVE Quiet
  BY <1>7 DEF Crash, CooldownEnds, Midnight, vars, rows, caller, Quiet
<1> QED
  BY <1>3, <1>4, <1>5, <1>6, <1>7 DEF Next, Step, Progress, Interrupted, Finished

\* The two counters of a day never promise more than the allowance.
RoomInv == \A d \in Days : reserved[d] + consumed[d] <= Limit

BooksInv == CountersMatchRows /\ RoomInv

\* A day without rows holds and consumed nothing.
LEMMA OpensInRoom ==
  ASSUME TypeOK, PathInv, BooksInv, NEW a \in Calls, Opens(a)
  PROVE  reserved[day[a]] + consumed[day[a]] + tokens[a] <= Limit
<1>1. day[a] \in Days /\ tokens[a] \in Nat /\ Limit \in Nat
  BY LimitAssumption DEF TypeOK, CallerTypes
<1>2. reserved[day[a]] \in Nat /\ consumed[day[a]] \in Nat
  BY <1>1 DEF TypeOK, RowTypes
<1>3. CASE Fits(day[a], tokens[a])
  BY <1>1, <1>2, <1>3 DEF Fits
<1>4. CASE day[a] \notin counters
  <2>1. CallsOn(day[a], {"active"}) = {} /\ CallsOn(day[a], Closed) = {}
    BY <1>4, ClosedFacts DEF CallsOn, PathInv
  <2>2. reserved[day[a]] = 0 /\ consumed[day[a]] = 0
    BY <1>1, <2>1, TotalEmpty DEF BooksInv, CountersMatchRows
  <2> QED
    BY <1>1, <2>2 DEF Opens
<1> QED
  BY <1>3, <1>4 DEF Opens

\* Opening adds one row to the active ones of one day.
LEMMA OpensKeepsBooks ==
  ASSUME TypeOK, PathInv, BooksInv, NEW a \in Calls, Opens(a)
  PROVE  BooksInv'
<1>1. /\ status \in [Calls -> Status] /\ day \in [Calls -> Days]
      /\ tokens \in [Calls -> Nat]
  BY DEF TypeOK, RowTypes, CallerTypes
<1>2. reserved \in [Days -> Nat] /\ consumed \in [Days -> Nat] /\ Limit \in Nat
  BY LimitAssumption DEF TypeOK, RowTypes
<1> SUFFICES ASSUME NEW d \in Days
             PROVE  /\ reserved'[d] = Total(tokens', CallsOn(d, {"active"})')
                    /\ consumed'[d] = Total(charged', CallsOn(d, Closed)')
                    /\ reserved'[d] + consumed'[d] <= Limit
  BY DEF BooksInv, CountersMatchRows, RoomInv
<1> DEFINE open == CallsOn(d, {"active"})
           shut == CallsOn(d, Closed)
<1>3. /\ reserved[d] = Total(tokens, open) /\ consumed[d] = Total(charged, shut)
      /\ reserved[d] + consumed[d] <= Limit
  BY DEF BooksInv, CountersMatchRows, RoomInv
<1>4. open \subseteq Calls /\ a \notin open
  BY DEF CallsOn, Opens
<1>5. shut' = shut /\ open' = IF day[a] = d THEN open \cup {a} ELSE open
  BY <1>1, ClosedFacts DEF CallsOn, Opens
<1>6. /\ tokens' = tokens /\ charged' = charged /\ consumed' = consumed
      /\ reserved'[d] = IF day[a] = d THEN reserved[d] + tokens[a] ELSE reserved[d]
  BY <1>1, <1>2 DEF Opens
<1>7. Total(tokens, open \cup {a}) = Total(tokens, open) + tokens[a]
  BY <1>1, <1>4, TotalAdds
<1>8. day[a] = d => reserved[d] + consumed[d] + tokens[a] <= Limit
  BY OpensInRoom
<1> HIDE DEF open, shut
<1>9. reserved'[d] = Total(tokens', open') /\ consumed'[d] = Total(charged', shut')
  BY <1>3, <1>5, <1>6, <1>7
<1>10. reserved'[d] + consumed'[d] <= Limit
  <2>1. tokens[a] \in Nat /\ reserved[d] \in Nat /\ consumed[d] \in Nat
    BY <1>1, <1>2
  <2> QED
    BY <1>2, <1>3, <1>6, <1>8, <2>1
<1> QED
  BY <1>9, <1>10 DEF open, shut
\* Closing moves one row from the active ones to the closed ones; the floor of
\* the SQL CASE is never reached.
LEMMA ClosesKeepsBooks ==
  ASSUME TypeOK, PathInv, BooksInv,
         NEW a \in Calls, NEW s \in Closed, NEW n \in 0 .. tokens[a], Closes(a, s, n)
  PROVE  BooksInv'
<1>1. /\ status \in [Calls -> Status] /\ day \in [Calls -> Days]
      /\ tokens \in [Calls -> Nat] /\ charged \in [Calls -> Nat]
  BY DEF TypeOK, RowTypes, CallerTypes
<1>2. reserved \in [Days -> Nat] /\ consumed \in [Days -> Nat] /\ Limit \in Nat
  BY LimitAssumption DEF TypeOK, RowTypes
<1>3. n \in Nat /\ n <= tokens[a]
  BY <1>1
<1> SUFFICES ASSUME NEW d \in Days
             PROVE  /\ reserved'[d] = Total(tokens', CallsOn(d, {"active"})')
                    /\ consumed'[d] = Total(charged', CallsOn(d, Closed)')
                    /\ reserved'[d] + consumed'[d] <= Limit
  BY DEF BooksInv, CountersMatchRows, RoomInv
<1> DEFINE open == CallsOn(d, {"active"})
           shut == CallsOn(d, Closed)
           rest == open \ {a}
<1>4. /\ reserved[d] = Total(tokens, open) /\ consumed[d] = Total(charged, shut)
      /\ reserved[d] + consumed[d] <= Limit
  BY DEF BooksInv, CountersMatchRows, RoomInv
<1>5. rest \subseteq Calls /\ a \notin rest /\ shut \subseteq Calls /\ a \notin shut
  BY ClosedFacts DEF CallsOn, Closes
<1>6. /\ day[a] = d => open = rest \cup {a} /\ open' = rest /\ shut' = shut \cup {a}
      /\ day[a] # d => open' = open /\ shut' = shut
  BY <1>1, ClosedFacts DEF CallsOn, Closes
<1>7. /\ tokens' = tokens /\ charged' \in [Calls -> Nat] /\ charged'[a] = n
      /\ \A c \in shut : charged'[c] = charged[c]
      /\ reserved'[d] = IF day[a] = d THEN Less(reserved[d], tokens[a]) ELSE reserved[d]
      /\ consumed'[d] = IF day[a] = d THEN consumed[d] + n ELSE consumed[d]
  BY <1>1, <1>2, <1>3, <1>5 DEF Closes
<1>8. Total(tokens, rest \cup {a}) = Total(tokens, rest) + tokens[a]
  BY <1>1, <1>5, TotalAdds
<1>9. Total(charged', shut) = Total(charged, shut)
  BY <1>7, TotalSame
<1>10. Total(charged', shut \cup {a}) = Total(charged, shut) + n
  BY <1>5, <1>7, <1>9, TotalAdds
<1>11. /\ Total(tokens, rest) \in Nat /\ tokens[a] \in Nat
       /\ reserved[d] \in Nat /\ consumed[d] \in Nat
  BY <1>1, <1>2, <1>5, UnitsFinite
<1> HIDE DEF open, shut, rest
<1>12. CASE day[a] = d
  <2>1. reserved[d] = Total(tokens, rest) + tokens[a]
    BY <1>4, <1>6, <1>8, <1>12
  <2>2. reserved'[d] = Total(tokens, rest) /\ consumed'[d] = consumed[d] + n
    BY <1>7, <1>11, <1>12, <2>1 DEF Less
  <2>3. reserved'[d] + consumed'[d] <= Limit
    BY <1>2, <1>3, <1>4, <1>11, <2>1, <2>2
  <2>4. reserved'[d] = Total(tokens', open') /\ consumed'[d] = Total(charged', shut')
    BY <1>4, <1>6, <1>7, <1>10, <1>12, <2>2
  <2> QED
    BY <2>3, <2>4 DEF open, shut
<1>13. CASE day[a] # d
  <2>1. reserved'[d] = Total(tokens', open') /\ consumed'[d] = Total(charged', shut')
    BY <1>4, <1>6, <1>7, <1>9, <1>13
  <2>2. reserved'[d] + consumed'[d] <= Limit
    BY <1>4, <1>7, <1>13
  <2> QED
    BY <2>1, <2>2 DEF open, shut
<1> QED
  BY <1>12, <1>13

\* A call without a row counts nowhere, so its estimate and its day may change.
LEMMA QuietKeepsBooks ==
  ASSUME TypeOK, BooksInv, Quiet
  PROVE  BooksInv'
<1> SUFFICES ASSUME NEW d \in Days
             PROVE  /\ reserved'[d] = Total(tokens', CallsOn(d, {"active"})')
                    /\ consumed'[d] = Total(charged', CallsOn(d, Closed)')
                    /\ reserved'[d] + consumed'[d] <= Limit
  BY DEF BooksInv, CountersMatchRows, RoomInv
<1> DEFINE open == CallsOn(d, {"active"})
           shut == CallsOn(d, Closed)
<1>1. /\ reserved[d] = Total(tokens, open) /\ consumed[d] = Total(charged, shut)
      /\ reserved[d] + consumed[d] <= Limit
  BY DEF BooksInv, CountersMatchRows, RoomInv
<1>2. open' = open /\ shut' = shut /\ \A c \in open : tokens'[c] = tokens[c]
  BY ClosedFacts DEF CallsOn, Quiet
<1>3. reserved' = reserved /\ consumed' = consumed /\ charged' = charged
  BY DEF Quiet
<1> HIDE DEF open, shut
<1>4. Total(tokens', open) = Total(tokens, open)
  BY <1>2, TotalSame
<1>5. reserved'[d] = Total(tokens', open') /\ consumed'[d] = Total(charged', shut')
  BY <1>1, <1>2, <1>3, <1>4
<1> QED
  BY <1>1, <1>3, <1>5 DEF open, shut

QuotaInv == PathInv /\ SpendInv /\ BooksInv

LEMMA QuotaInductive ==
  /\ Init => QuotaInv
  /\ TypeOK /\ QuotaInv /\ [Next]_vars => QuotaInv'
<1>1. ASSUME Init PROVE QuotaInv
  <2>1. PathInv /\ SpendInv
    BY <1>1, LabelsApart DEF Init, PathInv, SpendInv, HasRow
  <2>2. \A d \in Days : CallsOn(d, {"active"}) = {} /\ CallsOn(d, Closed) = {}
    BY <1>1, ClosedFacts DEF Init, CallsOn
  <2>3. \A d \in Days : reserved[d] = 0 /\ consumed[d] = 0
    BY <1>1 DEF Init
  <2>4. CountersMatchRows
    BY <2>2, <2>3, TotalEmpty DEF CountersMatchRows
  <2>5. RoomInv
    BY <2>3, LimitAssumption DEF RoomInv
  <2> QED
    BY <2>1, <2>4, <2>5 DEF QuotaInv, BooksInv
<1>2. ASSUME TypeOK, QuotaInv, [Next]_vars PROVE QuotaInv'
  <2>1. PathInv' /\ SpendInv'
    BY <1>2, PathKept DEF QuotaInv
  <2>2. BooksInv'
    BY <1>2, StepShapes, OpensKeepsBooks, ClosesKeepsBooks, QuietKeepsBooks DEF QuotaInv
  <2> QED
    BY <2>1, <2>2 DEF QuotaInv
<1> QED
  BY <1>1, <1>2

LEMMA QuotaInvariant == Spec => []QuotaInv
  BY QuotaInductive, TypeCorrect, PTL DEF Spec

\* Every reservation gets one verdict, which is final, unless a transaction of its call is
\* cut short or the process dies (quota_execution.py, _finalize).
THEOREM VerdictsStand == Spec => VerdictsAreFinal
<1>1. QuotaInv => NothingLeftBehind
  BY DEF QuotaInv, PathInv, NothingLeftBehind
<1> QED
  BY <1>1, TypeCorrect, OneVerdictPerCall, RowsAreFinal, QuotaInvariant, PTL
  DEF VerdictsAreFinal

\* Whatever transactions interleave, fail or die half-way, the day's counters are
\* the sums of its rows, and _reserve's one retry never meets a second collision
\* (token_quota.py, _reserve and _finalize).
THEOREM TheBooksBalance == Spec => []BooksBalance
<1>1. QuotaInv => BooksBalance
  BY DEF QuotaInv, PathInv, BooksInv, BooksBalance, RetrySuffices
<1> QED
  BY <1>1, QuotaInvariant, PTL

------------------------------------------------------------------------------
(* What was really spent.  A closed row covers what its call used, unless  *)
(* it was misjudged: a settled one exactly, an uncertain one in full, and  *)
(* a released one because nothing was used.                                *)

Covered ==
  \A c \in Calls \ Misjudged : status[c] \in Closed => spent[c] <= charged[c]

LEMMA CoverKept ==
  ASSUME TypeOK, ClosedCallsAreOver, OnlyMisjudgedAreOwed, OnlyMisjudgedAreOwed',
         QuotaInv, Covered, [Next]_vars
  PROVE  Covered'
<1> USE ClosedFacts, LabelsApart
<1>1. /\ status \in [Calls -> Status] /\ charged \in [Calls -> Nat]
      /\ tokens \in [Calls -> Nat] /\ spent \in [Calls -> Nat]
  BY DEF TypeOK, RowTypes, CallerTypes, WorldTypes
<1> SUFFICES ASSUME NEW c \in Calls, c \notin Misjudged', status'[c] \in Closed
             PROVE  spent'[c] <= charged'[c]
  BY DEF Covered
<1>2. ASSUME status[c] \in Closed
      PROVE  spent'[c] = spent[c] /\ prior'[c] = prior[c]
  <2>1. pc[c] \in Final
    BY <1>2 DEF ClosedCallsAreOver
  <2>2. ASSUME NEW a \in Calls, Step(a) PROVE spent'[c] = spent[c] /\ prior'[c] = prior[c]
    BY <2>1, <2>2, WorkSteps, VerdictEnds
  <2>3. CASE Crash
    BY <1>1, <2>1, <2>3 DEF Crash
  <2>4. CASE CooldownEnds \/ Midnight \/ UNCHANGED vars
    BY <2>4 DEF CooldownEnds, Midnight, vars, caller, world
  <2> QED
    BY <2>2, <2>3, <2>4 DEF Next, Finished
<1>3. status'[c] = status[c] => c \notin Misjudged
  BY <1>2 DEF Misjudged, Uncharged
<1>4. ASSUME NEW a \in Calls, Opens(a) PROVE spent'[c] <= charged'[c]
  BY <1>1, <1>3, <1>4 DEF Opens, Covered
<1>5. ASSUME NEW a \in Calls, NEW s \in Closed, NEW n \in 0 .. tokens[a], Closes(a, s, n)
      PROVE  spent'[c] <= charged'[c]
  <2>1. n \in Nat /\ (spent[a] <= n \/ s \in {"released", "provider_exhausted"})
    BY <1>1, <1>5 DEF Closes
  <2>2. /\ status'[a] = s /\ charged'[a] = n /\ spent' = spent
        /\ c # a => status'[c] = status[c] /\ charged'[c] = charged[c]
    BY <1>1, <1>5 DEF Closes
  <2>3. c = a => spent[a] <= n
    BY <1>1, <2>1, <2>2 DEF OnlyMisjudgedAreOwed, Misjudged, Uncharged
  <2> QED
    BY <1>3, <2>2, <2>3 DEF Covered
<1>6. CASE Quiet
  BY <1>2, <1>3, <1>6 DEF Quiet, Covered
<1> QED
  BY <1>4, <1>5, <1>6, StepShapes DEF QuotaInv

\* Calls that were not misjudged never use more of the metered model in a day than its
\* allowance, whatever is in flight, lost, cut short or uncertain (token_quota.py).
THEOREM SpendIsBounded == Spec => []SpendWithinLimit
<1>1. Init => Covered
  BY ClosedFacts DEF Init, Covered
<1>2. TypeOK /\ ClosedCallsAreOver /\ OnlyMisjudgedAreOwed /\ OnlyMisjudgedAreOwed'
      /\ QuotaInv /\ Covered /\ [Next]_vars => Covered'
  BY CoverKept
<1>3. TypeOK /\ QuotaInv /\ Covered => SpendWithinLimit
  <2> SUFFICES ASSUME TypeOK, QuotaInv, Covered, NEW d \in Days
               PROVE  Total(spent, {c \in Calls \ Misjudged : day[c] = d}) <= Limit
    BY DEF SpendWithinLimit
  <2> DEFINE all  == {c \in Calls \ Misjudged : day[c] = d}
             open == CallsOn(d, {"active"})
             shut == CallsOn(d, Closed)
  <2>1. /\ spent \in [Calls -> Nat] /\ tokens \in [Calls -> Nat]
        /\ charged \in [Calls -> Nat] /\ status \in [Calls -> Status]
    BY DEF TypeOK, RowTypes, CallerTypes, WorldTypes
  <2>2. all \subseteq Calls /\ open \subseteq Calls /\ shut \subseteq Calls
    BY DEF CallsOn
  <2>3. \A c \in all : \/ spent[c] = 0
                       \/ (c \in open /\ spent[c] <= tokens[c])
                       \/ (c \in shut /\ spent[c] <= charged[c])
    BY <2>1 DEF QuotaInv, SpendInv, Covered, CallsOn, Status
  <2>4. /\ reserved[d] = Total(tokens, open) /\ consumed[d] = Total(charged, shut)
        /\ reserved[d] + consumed[d] <= Limit
    BY DEF QuotaInv, BooksInv, CountersMatchRows, RoomInv
  <2>5. Total(spent, all) \in Nat /\ Total(tokens, open) \in Nat /\ Total(charged, shut) \in Nat
    BY <2>1, <2>2, UnitsFinite
  <2> HIDE DEF all, open, shut
  <2>6. Total(spent, all) <= Total(tokens, open) + Total(charged, shut)
    BY <2>1, <2>2, <2>3, TotalBound
  <2>7. Total(spent, all) <= Limit
    BY <2>4, <2>5, <2>6, LimitAssumption
  <2> QED
    BY <2>7 DEF all
<1>4. Spec => []OnlyMisjudgedAreOwed
  BY ReleaseIsSound
<1> QED
  BY <1>1, <1>2, <1>3, <1>4, TypeCorrect, OneVerdictPerCall, QuotaInvariant, PTL DEF Spec
------------------------------------------------------------------------------
(* TokenQuota implements QuotaLedger: opening a reservation is a grant,    *)
(* closing one a close, and nothing else shows.                            *)

\* The state QuotaLedger sees: the refinement mapping of Ledger.
GrantDay == [c \in Calls |-> IF status[c] = "none" THEN -1 ELSE day[c]]
Amount   == [c \in Calls |-> IF status[c] = "active" THEN tokens[c] ELSE charged[c]]
HeldBy   == {c \in Calls : status[c] = "active"}

\* QuotaLedger adds up as TokenQuota does.
LEMMA SameTotal == \A f, S : Ledger!Total(f, S) = Total(f, S)
<1>1. \A f, S : Ledger!Units(f, S) = Units(f, S)
  BY DEF Ledger!Units, Units
<1>2. \A S : Ledger!Cardinality(S) = Cardinality(S)
  BY Zenon DEF Ledger!Cardinality, Cardinality
<1> QED
  BY <1>1, <1>2 DEF Ledger!Total, Total

\* What the ledger has committed on a day is within the two counters.
LEMMA CommittedBound ==
  ASSUME TypeOK, BooksInv, NEW d \in Days
  PROVE  /\ Ledger!Committed(d) \in Nat
         /\ Ledger!Committed(d) <= reserved[d] + consumed[d]
<1> DEFINE granted == {c \in Calls : GrantDay[c] = d}
           open == CallsOn(d, {"active"})
           shut == CallsOn(d, Closed)
<1>1. /\ tokens \in [Calls -> Nat] /\ charged \in [Calls -> Nat]
      /\ status \in [Calls -> Status] /\ day \in [Calls -> Days] /\ Amount \in [Calls -> Nat]
  BY DEF TypeOK, RowTypes, CallerTypes, Amount
<1>2. granted \subseteq Calls /\ open \subseteq Calls /\ shut \subseteq Calls
  BY DEF CallsOn
<1>3. d # -1
  BY DEF Days
<1>4. \A c \in granted : \/ (c \in open /\ Amount[c] <= tokens[c])
                         \/ (c \in shut /\ Amount[c] <= charged[c])
  BY <1>1, <1>3, ClosedFacts DEF GrantDay, Amount, CallsOn, Status
<1>5. reserved[d] = Total(tokens, open) /\ consumed[d] = Total(charged, shut)
  BY DEF BooksInv, CountersMatchRows
<1>6. Ledger!Committed(d) = Total(Amount, granted)
  <2>1. Ledger!Committed(d) = Ledger!Total(Amount, granted)
    BY DEF Ledger!Committed, Amount, GrantDay
  <2>2. Ledger!Total(Amount, granted) = Total(Amount, granted)
    BY SameTotal
  <2> QED
    BY <2>1, <2>2
<1> HIDE DEF granted, open, shut
<1>7. Total(Amount, granted) \in Nat /\ Total(Amount, granted) <= reserved[d] + consumed[d]
  BY <1>1, <1>2, <1>4, <1>5, UnitsFinite, TotalBound
<1> QED
  BY <1>6, <1>7

LEMMA OpensIsGrant ==
  ASSUME TypeOK, PathInv, BooksInv, NEW a \in Calls, Opens(a),
         NEW d \in Days, d = day[a]
  PROVE  Ledger!Grant(a, d)
<1>1. /\ status \in [Calls -> Status] /\ day \in [Calls -> Days]
      /\ tokens \in [Calls -> Nat] /\ charged \in [Calls -> Nat]
      /\ reserved[d] \in Nat /\ consumed[d] \in Nat
  BY DEF TypeOK, RowTypes, CallerTypes
<1>2. GrantDay[a] = -1
  BY DEF GrantDay, Opens
<1>3. tokens[a] \in 0 .. (Limit - Ledger!Committed(d))
  <2>1. reserved[d] + consumed[d] + tokens[a] <= Limit
    BY OpensInRoom
  <2>2. /\ Ledger!Committed(d) \in Nat
        /\ Ledger!Committed(d) <= reserved[d] + consumed[d]
    BY <1>1, CommittedBound
  <2>3. tokens[a] \in Nat
    BY <1>1
  <2> QED
    BY <1>1, <2>1, <2>2, <2>3, LimitAssumption
<1>4. GrantDay' = [GrantDay EXCEPT ![a] = d]
  BY <1>1 DEF GrantDay, Opens
<1>5. Amount' = [Amount EXCEPT ![a] = tokens[a]]
  BY <1>1 DEF Amount, Opens
<1>6. HeldBy' = HeldBy \cup {a}
  BY <1>1 DEF HeldBy, Opens
<1> QED
  BY <1>2, <1>3, <1>4, <1>5, <1>6
  DEF Ledger!Grant, Ledger!NoDay, GrantDay, Amount, HeldBy

LEMMA ClosesIsClose ==
  ASSUME TypeOK, NEW a \in Calls, NEW s \in Closed, NEW n \in 0 .. tokens[a], Closes(a, s, n)
  PROVE  Ledger!Close(a)
<1>1. /\ status \in [Calls -> Status] /\ day \in [Calls -> Days]
      /\ tokens \in [Calls -> Nat] /\ charged \in [Calls -> Nat]
      /\ s \notin {"none", "active"}
  BY ClosedFacts DEF TypeOK, RowTypes, CallerTypes
<1>2. a \in HeldBy /\ n \in 0 .. Amount[a]
  BY DEF HeldBy, Amount, Closes
<1>3. Amount' = [Amount EXCEPT ![a] = n]
  BY <1>1 DEF Amount, Closes
<1>4. HeldBy' = HeldBy \ {a} /\ GrantDay' = GrantDay
  BY <1>1 DEF HeldBy, GrantDay, Closes
<1> QED
  BY <1>2, <1>3, <1>4 DEF Ledger!Close, GrantDay, Amount, HeldBy

LEMMA QuietStutters ==
  ASSUME TypeOK, Quiet
  PROVE  UNCHANGED <<GrantDay, Amount, HeldBy>>
BY DEF Quiet, GrantDay, Amount, HeldBy

\* Every transaction of DailyTokenQuota is a grant, a close or invisible: the
\* counters, rows and races implement the ledger that has none of them.
THEOREM QuotaImplementsLedger == Spec => ImplementsLedger
<1>1. Init => Ledger!Init
  BY DEF Init, Ledger!Init, Ledger!NoDay
<1>2. TypeOK /\ QuotaInv /\ [Next]_vars => [Ledger!Next]_(Ledger!vars)
  <2> SUFFICES ASSUME TypeOK, QuotaInv, [Next]_vars PROVE [Ledger!Next]_(Ledger!vars)
    OBVIOUS
  <2>1. ASSUME NEW a \in Calls, Opens(a) PROVE Ledger!Next
    <3>1. PICK d \in Days : d = day[a]
      BY DEF TypeOK, CallerTypes
    <3>2. Ledger!Grant(a, d)
      BY <2>1, <3>1, OpensIsGrant DEF QuotaInv
    <3> QED
      BY <3>2 DEF Ledger!Next
  <2>2. ASSUME NEW a \in Calls, NEW s \in Closed, NEW n \in 0 .. tokens[a], Closes(a, s, n)
        PROVE  Ledger!Next
    BY <2>2, ClosesIsClose DEF Ledger!Next
  <2>3. CASE Quiet
    BY <2>3, QuietStutters DEF Ledger!vars, GrantDay, Amount, HeldBy
  <2> QED
    BY <2>1, <2>2, <2>3, StepShapes DEF QuotaInv
<1> QED
  BY <1>1, <1>2, TypeCorrect, QuotaInvariant, PTL DEF Spec, ImplementsLedger, Ledger!Spec
==============================================================================
