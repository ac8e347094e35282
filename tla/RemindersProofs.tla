---------------------------- MODULE RemindersProofs ----------------------------
(***************************************************************************)
(* What the poll loop may be relied on for, proved for any number of       *)
(* reminders, any limit and any number of failures, with one connection or *)
(* a pool.                                                                 *)
(***************************************************************************)
EXTENDS Reminders, TLAPS

LEMMA LabelFacts ==
  /\ Labels = {"asleep", "delivering", "marking", "maintaining", "down"}
  /\ Rows = {"none", "pending", "delivered", "deleted", "pruned"}
  BY DEF Labels, Rows

\* A dispatch begins with due, pending reminders.
LEMMA ListedArePending ==
  \A r \in ListDue : r \in Reminders /\ row[r] = "pending"
  BY DEF ListDue, Due

\* Every variable keeps its type, and only an open dispatch has uncommitted marks.
THEOREM RemindersTypes == Spec => []TypeOK
<1> USE LabelFacts
<1>1. Init => TypeOK
  <2> SUFFICES ASSUME Init PROVE TypeOK
    OBVIOUS
  <2>1. row \in [Reminders -> Rows] /\ sent \in [Reminders -> Nat]
    BY DEF Init
  <2>2. gone \subseteq Reminders
    BY DEF Init
  <2> QED
    BY <2>1, <2>2 DEF Init, TypeOK, Dispatching
<1>2. TypeOK /\ [Next]_vars => TypeOK'
  <2> SUFFICES ASSUME TypeOK, [Next]_vars PROVE TypeOK'
    OBVIOUS
  <2> USE DEF TypeOK, Dispatching, table, loop, setting, limits
  <2>1. ASSUME NEW r \in Reminders, CreateReminder(r) \/ ForgetRead(r) \/ ForgetDelete(r)
        PROVE  TypeOK'
    BY <2>1 DEF CreateReminder, ForgetRead, ForgetDelete
  <2>2. ASSUME NEW r \in Reminders, Deliver(r) PROVE TypeOK'
    <3>1. CASE SkipBlocked(r) \/ Refuse(r)
      BY <2>2, <3>1 DEF SkipBlocked, Refuse, Trying, Continue, Trouble
    <3>2. CASE SendUnacknowledged(r) \/ Send(r)
      BY <2>2, <3>2 DEF SendUnacknowledged, Send, Trying, Oldest, Continue, Trouble, Sends
    <3>3. CASE SendRaises(r)
      BY <2>2, <3>3 DEF SendRaises, Trying, Abort, Trouble, Sends
    <3>4. CASE MarkDelivered(r) \/ MarkFails(r)
      BY <2>2, <3>4 DEF MarkDelivered, MarkFails, Continue, Abort, Trouble
    <3> QED
      BY <2>2, <3>1, <3>2, <3>3, <3>4 DEF Deliver
  <2>3. CASE PollBegin
    BY <2>3, ListedArePending DEF PollBegin
  <2>4. CASE DispatchEnds \/ CommitFails
    BY <2>4 DEF DispatchEnds, CommitFails, CommitMarks, Abort, Trouble
  <2>5. CASE Maintain
    BY <2>5 DEF Maintain
  <2>6. ASSUME Crash \/ Restart PROVE TypeOK'
    <3>1. CASE Crash
      <4>1. blocked' \in BOOLEAN
        BY <3>1 DEF Crash
      <4> QED
        BY <3>1, <4>1 DEF Crash
    <3>2. CASE Restart
      BY <3>2 DEF Restart
    <3> QED
      BY <2>6, <3>1, <3>2
  <2>7. ASSUME Trip \/ CoolDown \/ Tick PROVE TypeOK'
    <3>1. CASE Trip
      BY <3>1 DEF Trip, Trouble
    <3>2. CASE CoolDown
      BY <3>2 DEF CoolDown
    <3>3. CASE Tick
      BY <3>3 DEF Tick
    <3> QED
      BY <2>7, <3>1, <3>2, <3>3
  <2>8. CASE UNCHANGED vars
    BY <2>8 DEF vars
  <2> QED
    BY <2>1, <2>2, <2>3, <2>4, <2>5, <2>6, <2>7, <2>8 DEF Next, People, Poll
<1> QED
  BY <1>1, <1>2, PTL DEF Spec

------------------------------------------------------------------------------
(* Repeats need failures                                                   *)

\* The dispatcher has sent r and may yet commit its mark.
InFlight(r) == r \in marked \/ (poller = "marking" /\ Oldest(r))

\* A reminder still to be sent has been sent no more often than there were
\* failures; the one more that RepeatsExplained allows is in flight or final.
Owed(r) == \/ row[r] = "none"
           \/ row[r] = "pending" /\ ~ InFlight(r)
           \/ r \in batch /\ ~ InFlight(r)

RepeatsInv == \A r \in Reminders :
                /\ sent[r] <= faults + 1
                /\ Owed(r) => sent[r] <= faults
                /\ r \in batch => row[r] # "none"

\* A dispatch at one reminder is not at another.
LEMMA OneOldest ==
  ASSUME NEW r \in Reminders, NEW q \in Reminders, Oldest(r), Oldest(q)
  PROVE  r = q
  BY CountAssumption DEF Oldest, Reminders

LEMMA RepeatsStep ==
  ASSUME TypeOK, TypeOK', RepeatsInv, [Next]_vars
  PROVE  RepeatsInv'
<1> USE LabelFacts DEF TypeOK, RepeatsInv, Owed, InFlight, Oldest, Dispatching,
                       table, loop, setting, limits
<1>1. ASSUME NEW r \in Reminders, CreateReminder(r) \/ ForgetRead(r) \/ ForgetDelete(r)
      PROVE  RepeatsInv'
  BY <1>1 DEF CreateReminder, ForgetRead, ForgetDelete
<1>2. ASSUME NEW r \in Reminders, Deliver(r) PROVE RepeatsInv'
  <2>1. CASE SkipBlocked(r) \/ Refuse(r)
    BY <2>1 DEF SkipBlocked, Refuse, Trying, Continue
  <2>2. CASE SendUnacknowledged(r)
    BY <2>2 DEF SendUnacknowledged, Trying, Continue, Sends
  <2>3. CASE SendRaises(r)
    BY <2>3 DEF SendRaises, Trying, Abort, Sends
  <2>4. CASE Send(r)
    <3>1. r \in batch /\ ~ InFlight(r) /\ sent[r] <= faults
      BY <2>4 DEF Send, Trying
    <3>2. faults' = faults /\ sent' = [sent EXCEPT ![r] = @ + 1]
      BY <2>4 DEF Send, Sends
    <3>3. InFlight(r)' /\ row'[r] # "none"
      BY <2>4, <3>1 DEF Send, Trying
    <3>4. ~ Owed(r)' /\ row' = row /\ batch' = batch
      BY <2>4, <3>3 DEF Send
    <3>5. ASSUME NEW q \in Reminders, q # r, Owed(q)' PROVE Owed(q)
      BY <2>4, <3>5 DEF Send, Trying
    <3>6. ASSUME NEW q \in Reminders
          PROVE  sent'[q] <= faults + 1 /\ (Owed(q)' => sent'[q] <= faults)
      <4>1. CASE q = r
        BY <4>1, <3>1, <3>2, <3>4
      <4>2. CASE q # r
        <5>1. sent'[q] = sent[q] /\ sent[q] <= faults + 1
          BY <4>2, <3>2
        <5>2. Owed(q)' => sent[q] <= faults
          BY <4>2, <3>5
        <5> QED
          BY <5>1, <5>2
      <4> QED
        BY <4>1, <4>2
    <3> HIDE DEF Owed, InFlight
    <3> QED
      BY <3>2, <3>4, <3>6
  <2>5. CASE MarkDelivered(r)
    BY <2>5, OneOldest DEF MarkDelivered, Continue
  <2>6. CASE MarkFails(r)
    BY <2>6 DEF MarkFails, Abort
  <2> QED
    BY <1>2, <2>1, <2>2, <2>3, <2>4, <2>5, <2>6 DEF Deliver
<1>3. CASE PollBegin
  BY <1>3, ListedArePending DEF PollBegin
<1>4. CASE DispatchEnds
  BY <1>4 DEF DispatchEnds, CommitMarks
<1>5. CASE CommitFails
  BY <1>5 DEF CommitFails, CommitMarks, Abort
<1>6. CASE Maintain
  BY <1>6 DEF Maintain
<1>7. CASE Crash \/ Restart
  BY <1>7 DEF Crash, Restart
<1>8. CASE Trip \/ CoolDown \/ Tick
  BY <1>8 DEF Trip, CoolDown, Tick
<1>9. CASE UNCHANGED vars
  BY <1>9 DEF vars
<1> QED
  BY <1>1, <1>2, <1>3, <1>4, <1>5, <1>6, <1>7, <1>8, <1>9 DEF Next, People, Poll

\* A reminder is in its channel at most once more often than marks were lost.
THEOREM RepeatsNeedFailures == Spec => []RepeatsExplained
<1>1. Init => RepeatsInv
  BY DEF Init, RepeatsInv
<1>2. RepeatsInv => RepeatsExplained
  BY DEF RepeatsInv, RepeatsExplained
<1> QED
  BY <1>1, <1>2, RepeatsStep, RemindersTypes, PTL DEF Spec

------------------------------------------------------------------------------
(* Nothing is written off                                                  *)

MarksInv == \A r \in Reminders :
              row[r] \in {"delivered", "pruned"} \/ InFlight(r) => sent[r] > 0

LEMMA MarksStep ==
  ASSUME TypeOK, TypeOK', MarksInv, [Next]_vars
  PROVE  MarksInv'
<1> USE LabelFacts DEF TypeOK, MarksInv, InFlight, Oldest, Dispatching,
                       table, loop, setting, limits
<1>1. ASSUME NEW r \in Reminders, CreateReminder(r) \/ ForgetRead(r) \/ ForgetDelete(r)
      PROVE  MarksInv'
  BY <1>1 DEF CreateReminder, ForgetRead, ForgetDelete
<1>2. ASSUME NEW r \in Reminders, Deliver(r) PROVE MarksInv'
  <2>1. CASE SkipBlocked(r) \/ Refuse(r)
    BY <2>1 DEF SkipBlocked, Refuse, Trying, Continue
  <2>2. CASE SendUnacknowledged(r)
    BY <2>2 DEF SendUnacknowledged, Trying, Continue, Sends
  <2>3. CASE SendRaises(r)
    BY <2>3 DEF SendRaises, Trying, Abort, Sends
  <2>4. CASE Send(r)
    BY <2>4, OneOldest DEF Send, Trying, Sends
  <2>5. CASE MarkDelivered(r)
    BY <2>5 DEF MarkDelivered, Continue
  <2>6. CASE MarkFails(r)
    BY <2>6 DEF MarkFails, Abort
  <2> QED
    BY <1>2, <2>1, <2>2, <2>3, <2>4, <2>5, <2>6 DEF Deliver
<1>3. CASE PollBegin
  BY <1>3 DEF PollBegin
<1>4. CASE DispatchEnds
  BY <1>4 DEF DispatchEnds, CommitMarks
<1>5. CASE CommitFails
  BY <1>5 DEF CommitFails, CommitMarks, Abort
<1>6. CASE Maintain
  BY <1>6 DEF Maintain
<1>7. CASE Crash \/ Restart
  BY <1>7 DEF Crash, Restart
<1>8. CASE Trip \/ CoolDown \/ Tick
  BY <1>8 DEF Trip, CoolDown, Tick
<1>9. CASE UNCHANGED vars
  BY <1>9 DEF vars
<1> QED
  BY <1>1, <1>2, <1>3, <1>4, <1>5, <1>6, <1>7, <1>8, <1>9 DEF Next, People, Poll

\* What the table calls delivered, and what retention removed, was delivered.
THEOREM NothingWrittenOff == Spec => []MarkedWasSent
<1>1. Init => MarksInv
  BY DEF Init, MarksInv, InFlight
<1>2. MarksInv => MarkedWasSent
  BY DEF MarksInv, MarkedWasSent
<1> QED
  BY <1>1, <1>2, MarksStep, RemindersTypes, PTL DEF Spec

------------------------------------------------------------------------------
(* One connection                                                          *)

\* While the dispatcher holds the only connection, nobody is deleting, and
\* all it has yet to deliver is still wanted.
HeldInv == single /\ Dispatching =>
             forgetting = {} /\ \A r \in batch : row[r] = "pending"

LEMMA HeldStep ==
  ASSUME TypeOK, HeldInv, [Next]_vars
  PROVE  HeldInv'
<1> USE DEF TypeOK, HeldInv, Dispatching, table, loop, setting, limits
<1>1. ASSUME NEW r \in Reminders, CreateReminder(r) \/ ForgetRead(r) \/ ForgetDelete(r)
      PROVE  HeldInv'
  BY <1>1 DEF CreateReminder, ForgetRead, ForgetDelete, ConnectionFree
<1>2. ASSUME NEW r \in Reminders, Deliver(r) PROVE HeldInv'
  BY <1>2 DEF Deliver, SkipBlocked, Refuse, SendUnacknowledged, SendRaises, Send,
              MarkDelivered, MarkFails, Trying, Continue, Abort
<1>3. CASE PollBegin
  BY <1>3, ListedArePending DEF PollBegin, ConnectionFree
<1>4. CASE DispatchEnds \/ CommitFails \/ Maintain
  BY <1>4 DEF DispatchEnds, CommitFails, Maintain, Abort
<1>5. CASE Crash \/ Restart
  BY <1>5 DEF Crash, Restart
<1>6. CASE Trip \/ CoolDown \/ Tick
  BY <1>6 DEF Trip, CoolDown, Tick
<1>7. CASE UNCHANGED vars
  BY <1>7 DEF vars
<1> QED
  BY <1>1, <1>2, <1>3, <1>4, <1>5, <1>6, <1>7 DEF Next, People, Poll

\* Only the dispatcher's sends put messages into channels, of its batch.
LEMMA SendsComeFromBatch ==
  ASSUME TypeOK, [Next]_vars, NEW r \in Reminders, sent'[r] # sent[r]
  PROVE  Dispatching /\ r \in batch
<1> USE DEF TypeOK, Dispatching, loop
<1>1. ASSUME NEW q \in Reminders, Deliver(q) PROVE Dispatching /\ r \in batch
  BY <1>1 DEF Deliver, SkipBlocked, Refuse, SendUnacknowledged, SendRaises, Send,
              MarkDelivered, MarkFails, Trying, Oldest, Sends
<1>2. sent' = sent \/ \E q \in Reminders : Deliver(q)
  BY DEF Next, People, Poll, CreateReminder, ForgetRead, ForgetDelete, PollBegin, DispatchEnds,
         CommitFails, Maintain, Crash, Restart, Trip, CoolDown, Tick, vars
<1> QED
  BY <1>1, <1>2

\* On SQLite a reminder reported as deleted is never delivered.
THEOREM DeletedStaysSilent == Spec => ForgottenStaysSilent
<1>1. Init => HeldInv
  BY DEF Init, HeldInv, Dispatching
<1>2. TypeOK /\ HeldInv /\ [Next]_vars =>
        [single => \A r \in Reminders : row[r] = "deleted" => sent'[r] = sent[r]]_vars
  BY SendsComeFromBatch DEF HeldInv
<1> QED
  BY <1>1, <1>2, HeldStep, RemindersTypes, PTL DEF Spec, ForgottenStaysSilent

\* Marks and deliveries stay in step but for the failures that cost a mark
\* (bot.py, _deliver_due_reminders).
THEOREM MarksInStep == Spec => []RemindersInv
  BY RemindersTypes, RepeatsNeedFailures, NothingWrittenOff, PTL DEF RemindersInv
==============================================================================
