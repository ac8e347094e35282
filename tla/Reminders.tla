------------------------------- MODULE Reminders -------------------------------
(***************************************************************************)
(* Reminders: the table (reminders/service.py), the poll loop of the bot   *)
(* that delivers them (bot.py) and /forget_reminder                        *)
(* (discord/reminders.py).                                                 *)
(*                                                                         *)
(* The dispatcher lists the due reminders, sends them one by one in an     *)
(* open transaction, flushes a mark for each and commits once at the end.  *)
(* Between its steps Discord may fail in several ways, the process may     *)
(* stop, and people create and delete reminders -- unless the database is  *)
(* an SQLite file, whose pool has one connection, which the dispatcher     *)
(* holds.                                                                  *)
(***************************************************************************)
EXTENDS Integers, FiniteSets

CONSTANTS Count,        \* reminders are 1 .. Count
          Limit,        \* list_due_reminders' limit
          MaxGone,      \* reminders whose channel is dead
          MaxTime,      \* the clock runs over 1 .. MaxTime
          MaxTroubles,  \* failures of Discord or of the database
          MaxCrashes

ASSUME CountAssumption == Count \in Nat /\ MaxTime \in Nat
ASSUME LimitAssumption == Limit \in Nat \ {0}
ASSUME GoneAssumption == MaxGone \in Nat
ASSUME FailureAssumption == MaxTroubles \in Nat /\ MaxCrashes \in Nat

\* In the order of (remind_at, id); reminder r is due at time r.
Reminders == 1 .. Count

VARIABLES
  row,         \* the committed rows
  poller,      \* where the poll loop is
  batch,       \* due_reminders not yet dealt with
  marked,      \* delivered_at flushed, not committed
  forgetting,  \* rows a /forget_reminder has read and is about to delete
  blocked,     \* DISCORD_OUTBOUND_CIRCUIT_BREAKER.is_open
  single,      \* the pool has one connection (SQLite file)
  gone,        \* reminders whose channel no longer takes messages
  sent,        \* messages in the channel, per reminder
  faults,      \* ghost: failures that leave a message without its mark
  troubles, crashes, now

table   == <<row, forgetting>>
loop    == <<poller, batch, marked>>
setting == <<single, gone>>
limits  == <<troubles, crashes>>
vars    == <<table, loop, setting, limits, blocked, sent, faults, now>>

Rows == {"none", "pending", "delivered", "deleted", "pruned"}
Labels == {"asleep", "delivering", "marking", "maintaining", "down"}

Init ==
  /\ row = [r \in Reminders |-> "none"] /\ forgetting = {}
  /\ poller = "maintaining" /\ batch = {} /\ marked = {}
  /\ single \in BOOLEAN /\ gone \in {G \in SUBSET Reminders : Cardinality(G) <= MaxGone}
  /\ sent = [r \in Reminders |-> 0] /\ faults = 0 /\ blocked = FALSE
  /\ troubles = 0 /\ crashes = 0 /\ now = 1

Dispatching == poller \in {"delivering", "marking"}

\* Mutant: the engine keeps the default pool, which overflows.
ConnectionThoughHeld == TRUE

\* A session can be opened.  (A wait of 30 s ends with an error instead.)
ConnectionFree == single => (~ Dispatching /\ forgetting = {})

------------------------------------------------------------------------------
(* People                                                                  *)

\* A confirmed proposal; its time was in the future just before.
CreateReminder(r) ==
  /\ row[r] = "none" /\ now <= r /\ poller # "down"
  /\ ConnectionFree
  /\ row' = [row EXCEPT ![r] = "pending"]
  /\ UNCHANGED <<forgetting, loop, setting, limits, blocked, sent, faults, now>>

\* delete_reminder finds the owner's pending row.  (Otherwise: no change.)
ForgetRead(r) ==
  /\ row[r] = "pending" /\ r \notin forgetting /\ poller # "down"
  /\ ConnectionFree
  /\ forgetting' = forgetting \cup {r}
  /\ UNCHANGED <<row, loop, setting, limits, blocked, sent, faults, now>>

\* It deletes the row by its key and commits; a flushed mark locks the row.
ForgetDelete(r) ==
  /\ r \in forgetting \ marked
  /\ forgetting' = forgetting \ {r}
  /\ row' = [row EXCEPT ![r] = IF @ = "pruned" THEN @ ELSE "deleted"]
  /\ UNCHANGED <<loop, setting, limits, blocked, sent, faults, now>>

------------------------------------------------------------------------------
(* The poll loop                                                           *)

Due == {r \in Reminders : row[r] = "pending" /\ r <= now}

\* list_due_reminders: the oldest Limit of them.
ListDue == {r \in Due : Cardinality({q \in Due : q < r}) < Limit}

PollBegin ==
  /\ poller = "asleep" /\ ConnectionFree
  /\ poller' = "delivering" /\ batch' = ListDue
  /\ UNCHANGED <<table, marked, setting, limits, blocked, sent, faults, now>>

\* The reminder the dispatcher is at, and leaving it for the next one.
Oldest(r) == r \in batch /\ \A q \in batch : r <= q

Continue(r) == poller' = "delivering" /\ batch' = batch \ {r}

\* A reminder the dispatcher is about to deliver; the breaker is closed.
Trying(r) == poller = "delivering" /\ Oldest(r) /\ ~ blocked

\* An exception leaves the session, which rolls back; the loop sleeps.
Abort == poller' = "asleep" /\ batch' = {} /\ marked' = {}

\* One of Discord's or the database's failures, of which there are finitely many.
Trouble == troubles < MaxTroubles /\ troubles' = troubles + 1

Sends(r) == sent' = [sent EXCEPT ![r] = @ + 1]

\* _deliver_reminder is not even tried while the breaker is open.
SkipBlocked(r) ==
  /\ poller = "delivering" /\ Oldest(r) /\ blocked
  /\ Continue(r)
  /\ UNCHANGED <<table, marked, setting, limits, blocked, sent, faults, now>>

\* Mutant: a refused reminder is tried again before the next one.
RefuseRetrying(r) ==
  /\ Trying(r)
  /\ \/ r \in gone /\ UNCHANGED <<troubles, blocked>>
     \/ Trouble /\ blocked' \in BOOLEAN
  /\ UNCHANGED <<table, loop, setting, crashes, sent, faults, now>>

\* It fails to fetch the channel or to send: not delivered, next one.
Refuse(r) ==
  /\ Trying(r)
  /\ \/ r \in gone /\ UNCHANGED <<troubles, blocked>>
     \/ Trouble /\ blocked' \in BOOLEAN
  /\ Continue(r)
  /\ UNCHANGED <<table, marked, setting, crashes, sent, faults, now>>

\* The message arrives, but Discord's answer is an error.
SendUnacknowledged(r) ==
  /\ Trying(r) /\ r \notin gone
  /\ Trouble /\ Sends(r) /\ faults' = faults + 1
  /\ Continue(r)
  /\ UNCHANGED <<table, marked, setting, crashes, blocked, now>>

\* An exception of another kind (a timeout, a closed connection).
SendRaises(r) ==
  /\ Trying(r)
  /\ \/ r \notin gone /\ Sends(r)
     \/ UNCHANGED sent
  /\ Trouble /\ faults' = faults + 1 /\ Abort
  /\ UNCHANGED <<table, setting, crashes, blocked, now>>

Send(r) ==
  /\ Trying(r) /\ r \notin gone
  /\ Sends(r)
  /\ poller' = "marking"
  /\ UNCHANGED <<table, batch, marked, setting, limits, blocked, faults, now>>

\* mark_delivered: the flush updates exactly one row or raises.
MarkDelivered(r) ==
  /\ poller = "marking" /\ Oldest(r) /\ row[r] = "pending"
  /\ marked' = marked \cup {r} /\ Continue(r)
  /\ UNCHANGED <<table, setting, limits, blocked, sent, faults, now>>

MarkFails(r) ==
  /\ poller = "marking" /\ Oldest(r)
  /\ \/ row[r] = "deleted" /\ UNCHANGED troubles
     \/ Trouble
  /\ faults' = faults + 1 /\ Abort
  /\ UNCHANGED <<table, setting, crashes, blocked, sent, now>>

CommitMarks == row' = [r \in Reminders |-> IF r \in marked THEN "delivered" ELSE row[r]]

\* Mutant: one refused reminder keeps the others' marks from being committed.
CommitAllOrNone ==
  /\ poller = "delivering" /\ batch = {}
  /\ IF \E r \in gone : row[r] = "pending" /\ r <= now THEN UNCHANGED row ELSE CommitMarks
  /\ marked' = {} /\ poller' = "maintaining"
  /\ UNCHANGED <<forgetting, batch, setting, limits, blocked, sent, faults, now>>

\* The one commit of a dispatch.  (None if nothing was delivered.)
DispatchEnds ==
  /\ poller = "delivering" /\ batch = {}
  /\ CommitMarks
  /\ marked' = {} /\ poller' = "maintaining"
  /\ UNCHANGED <<forgetting, batch, setting, limits, blocked, sent, faults, now>>

\* The commit raises, before or after it took effect.
CommitFails ==
  /\ poller = "delivering" /\ batch = {} /\ marked # {}
  /\ Trouble /\ faults' = faults + 1
  /\ UNCHANGED row \/ CommitMarks
  /\ Abort
  /\ UNCHANGED <<forgetting, setting, crashes, blocked, sent, now>>

\* prune_delivered_before: rows delivered long ago, any of them here.  (None
\* also when the last run is recent, or fails.)
Maintain ==
  /\ poller = "maintaining" /\ ConnectionFree
  /\ \E old \in SUBSET {r \in Reminders : row[r] = "delivered"} :
       row' = [r \in Reminders |-> IF r \in old THEN "pruned" ELSE row[r]]
  /\ poller' = "asleep"
  /\ UNCHANGED <<forgetting, batch, marked, setting, limits, blocked, sent, faults, now>>

------------------------------------------------------------------------------
(* The process and its surroundings                                        *)

\* The process stops, or close cancels the loop at an await.
Crash ==
  /\ poller # "down" /\ crashes < MaxCrashes
  /\ crashes' = crashes + 1 /\ faults' = faults + 1
  /\ poller' = "down" /\ batch' = {} /\ marked' = {} /\ forgetting' = {}
  /\ blocked' = FALSE
  /\ UNCHANGED <<row, setting, troubles, sent, now>>

\* setup_hook begins with the forced retention run.
Restart ==
  /\ poller = "down" /\ poller' = "maintaining"
  /\ UNCHANGED <<table, batch, marked, setting, limits, blocked, sent, faults, now>>

\* Some other part of the bot is told to slow down.
Trip ==
  /\ poller # "down" /\ Trouble /\ blocked' = TRUE
  /\ UNCHANGED <<table, loop, setting, crashes, sent, faults, now>>

CoolDown ==
  /\ blocked /\ blocked' = FALSE
  /\ UNCHANGED <<table, loop, setting, limits, sent, faults, now>>

Tick ==
  /\ now < MaxTime /\ now' = now + 1
  /\ UNCHANGED <<table, loop, setting, limits, blocked, sent, faults>>

------------------------------------------------------------------------------

People == \E r \in Reminders : CreateReminder(r) \/ ForgetRead(r) \/ ForgetDelete(r)

Deliver(r) == \/ SkipBlocked(r) \/ Refuse(r) \/ SendUnacknowledged(r) \/ SendRaises(r)
              \/ Send(r) \/ MarkDelivered(r) \/ MarkFails(r)

Poll == \/ PollBegin \/ DispatchEnds \/ CommitFails \/ Maintain
        \/ \E r \in Reminders : Deliver(r)

Next == People \/ Poll \/ Crash \/ Restart \/ Trip \/ CoolDown \/ Tick

Spec == Init /\ [][Next]_vars

\* The event loop runs the poll loop and finishes what it began; breakers
\* cool down and a stopped bot is started again.  Nobody has to do anything.
Fairness == /\ WF_vars(Poll) /\ WF_vars(Restart) /\ WF_vars(CoolDown)
            /\ \A r \in Reminders : WF_vars(ForgetDelete(r))

FairSpec == Spec /\ Fairness

(* Properties                                                              *)

\* Types; only an open dispatch has a batch and uncommitted marks, and it has
\* not marked what it has yet to deal with.
TypeOK ==
  /\ row \in [Reminders -> Rows]
  /\ poller \in Labels
  /\ batch \subseteq Reminders /\ marked \subseteq Reminders /\ forgetting \subseteq Reminders
  /\ single \in BOOLEAN /\ gone \subseteq Reminders /\ blocked \in BOOLEAN
  /\ sent \in [Reminders -> Nat] /\ faults \in Nat
  /\ troubles \in Nat /\ crashes \in Nat /\ now \in Nat
  /\ ~ Dispatching => batch = {} /\ marked = {}
  /\ poller = "marking" => batch # {}
  /\ batch \cap marked = {}

\* A reminder is delivered again only after a failure: each failure that lost
\* a mark (an exception, a failed commit, a crash, a deletion that met the
\* flush) repeats it at most once, however the rest of its batch fared.
RepeatsExplained == \A r \in Reminders : sent[r] <= faults + 1

\* No reminder is ever written off: what the table calls delivered, and what
\* retention removed, was in its channel.
MarkedWasSent ==
  \A r \in Reminders : row[r] \in {"delivered", "pruned"} => sent[r] > 0

\* The table is never ahead of the channel, and falls behind it only by a failure.
RemindersInv == TypeOK /\ RepeatsExplained /\ MarkedWasSent

\* With one connection, a reminder that /forget_reminder reported as deleted is
\* not delivered afterwards by a dispatcher that had listed it before.
ForgottenStaysSilent ==
  [][single => \A r \in Reminders : row[r] = "deleted" => sent'[r] = sent[r]]_vars

\* While fewer reminders than the limit are stuck in dead channels, every
\* other due reminder is delivered or deleted, whatever fails on the way.
DueIsDelivered ==
  \A r \in Reminders :
    (row[r] = "pending" /\ r <= now /\ r \notin gone /\ Cardinality(gone) < Limit)
      ~> row[r] # "pending"
==============================================================================
