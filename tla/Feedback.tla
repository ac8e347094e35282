------------------------------- MODULE Feedback -------------------------------
(***************************************************************************)
(* "bad bot" and the agent's own reports of a bad answer (feedback.py):    *)
(* what is kept of an answer for a quarter of an hour, in memory and, if   *)
(* enabled, in the database, and what a report makes of it: an archived    *)
(* row, a message to the debug channel, a demotion of the procedures the   *)
(* answer used.                                                            *)
(*                                                                         *)
(* One channel.  An answer is the number of its request; texts, redaction  *)
(* and the bundle are left out.  A transaction is one step, but for the    *)
(* archive's, which looks before it inserts: with one connection (SQLite)  *)
(* nobody else has a session in between, with a pool somebody may.         *)
(***************************************************************************)
EXTENDS Integers, FiniteSets, FiniteSetsExt

CONSTANTS Replies,        \* the answers, numbered in the order they are given
          AskedBy,        \* by answer: the user it was for
          Complaints,     \* reports
          KeptEntries,    \* FEEDBACK_CACHE_LIMIT
          KeptFor,        \* FEEDBACK_MAX_AGE
          MaxMishaps, FeedbackHorizon   \* bounds

ASSUME FeedbackAssumption ==
  /\ IsFiniteSet(Replies) /\ Replies = 1 .. Cardinality(Replies) /\ DOMAIN AskedBy = Replies
  /\ IsFiniteSet(Complaints)
  /\ KeptEntries \in Nat \ {0} /\ {KeptFor, MaxMishaps, FeedbackHorizon} \subseteq Nat

VARIABLES
  world,      \* fixed: one database connection, snapshots persisted
  minute,
  captured,   \* by answer: when it was delivered, or NotYet
  recent,     \* ResponseDiagnosticCache._snapshots: answers, in their order
  persisted,  \* answers in response_diagnostic_snapshots
  persisting, \* answers whose persist is still to come
  complaint,  \* by report: where it is, of which answer, what came of it
  archive,    \* bad_bot_feedback: by report, the answer it is about, or 0
  demotions,  \* by answer: how often its procedures were demoted
  excuses,    \* by answer: what may explain another demotion
  mishaps     \* failures and restarts so far

feedbackVars == <<world, minute, captured, recent, persisted, persisting, complaint, archive,
                  demotions, excuses, mishaps>>

NotYet == -1
NoComplaint == [at |-> "idle", about |-> 0, age |-> 0, archived |-> FALSE]
Age(a) == minute - captured[a]
Archived(a) == \E c \in Complaints : archive[c] = a
Amid(c) == complaint[c].at \notin {"idle", "over"}
\* The archive's transaction is open.
SessionFree == world.single => \A c \in Complaints : complaint[c].at # "insert"
Mishap == mishaps < MaxMishaps /\ mishaps' = mishaps + 1
Tried(ok) == IF ok THEN UNCHANGED mishaps ELSE Mishap

FeedbackInit ==
  /\ world \in [single : BOOLEAN, persists : BOOLEAN]
  /\ minute = 0 /\ captured = [a \in Replies |-> NotYet] /\ recent = {}
  /\ persisted = {} /\ persisting = {}
  /\ complaint = [c \in Complaints |-> NoComplaint] /\ archive = [c \in Complaints |-> 0]
  /\ demotions = [a \in Replies |-> 0] /\ excuses = [a \in Replies |-> 0] /\ mishaps = 0

------------------------------------------------------------------------------
(* What is kept of an answer                                               *)

\* ResponseDiagnosticCache.prune: the last entries, of these the recent ones.
Pruned(A, at) ==
  {a \in A : Cardinality({b \in A : b > a}) < KeptEntries /\ minute - at[a] <= KeptFor}

\* The reply is delivered and recorded.
Deliver(a) ==
  /\ captured[a] = NotYet /\ \A b \in 1 .. (a - 1) : captured[b] # NotYet
  /\ captured' = [captured EXCEPT ![a] = minute]
  /\ recent' = Pruned(recent \cup {a}, captured')
  /\ persisting' = IF world.persists THEN persisting \cup {a} ELSE persisting
  /\ UNCHANGED <<world, minute, persisted, complaint, archive, demotions, excuses, mishaps>>

\* Expired rows of the database, and those that are not: expires_at <= now.
StillKept(A) == {a \in A : Age(a) < KeptFor}

\* persist_response_diagnostic_snapshot; a failure is only logged.
Persist(a, ok) ==
  /\ a \in persisting /\ SessionFree /\ Tried(ok)
  /\ persisting' = persisting \ {a}
  /\ persisted' = IF ok THEN {b \in persisted : captured[b] + KeptFor > captured[a]} \cup {a}
                  ELSE persisted
  /\ UNCHANGED <<world, minute, captured, recent, complaint, archive, demotions, excuses>>

\* The poll loop prunes the cache, retention the table.
Retain(what) ==
  /\ IF what = "cache" THEN recent' = Pruned(recent, captured) /\ UNCHANGED persisted
     ELSE SessionFree /\ persisted' = StillKept(persisted) /\ UNCHANGED recent
  /\ UNCHANGED <<world, minute, captured, persisting, complaint, archive, demotions, excuses, mishaps>>

------------------------------------------------------------------------------
(* A report                                                                *)

Move(c, r) == complaint' = [complaint EXCEPT ![c] = r]
\* A report about answer a goes on to the check.
Found(a) == [at |-> "check", about |-> a, age |-> Age(a), archived |-> FALSE]
EndOfReport == [NoComplaint EXCEPT !.at = "over"]
Latest(A) == IF A = {} THEN 0 ELSE Max(A)

\* A report means the latest of these answers: the one it replies to, or all those
\* to its user.
Chosen(A, wanted) == Latest(A \cap wanted)
Meanings == {{a} : a \in Replies} \cup {{a \in Replies : AskedBy[a] = AskedBy[b]} : b \in Replies}

\* find, and, without a hit, the database: the rows that have expired are deleted
\* there, and the deletion committed.
Report(c, wanted) ==
  /\ complaint[c].at = "idle"
  /\ recent' = Pruned(recent, captured)
  /\ LET a == Chosen(recent', wanted)
     IN  IF a # 0 THEN Move(c, Found(a)) /\ UNCHANGED <<persisted, mishaps>>
         ELSE IF ~ world.persists THEN Move(c, EndOfReport) /\ UNCHANGED <<persisted, mishaps>>
         ELSE \E ok \in BOOLEAN :
                /\ SessionFree /\ Tried(ok)
                /\ LET b == IF ok THEN Chosen(StillKept(persisted), wanted) ELSE 0
                   IN  Move(c, IF b = 0 THEN EndOfReport ELSE Found(b))
                /\ persisted' = IF ok THEN StillKept(persisted) ELSE persisted
  /\ UNCHANGED <<world, minute, captured, persisting, archive, demotions, excuses>>

Rivals(c) == {d \in Complaints \ {c} : complaint[d].about = complaint[c].about
                                       /\ complaint[d].at \in {"archive", "insert"}}

\* Mutant: nobody asks whether the answer has been reported.
SeenBeforeNever(a) == FALSE

SeenBefore(a) == Archived(a)

\* _response_feedback_is_archived: what it cannot read counts as no.  Passing while
\* another report has passed and not archived yet is what may explain a second
\* demotion.
CheckArchived(c, ok) ==
  /\ complaint[c].at = "check" /\ SessionFree /\ Tried(ok)
  /\ LET a == complaint[c].about
     IN  IF ok /\ SeenBefore(a)
         THEN Move(c, EndOfReport) /\ UNCHANGED excuses
         ELSE /\ Move(c, [complaint[c] EXCEPT !.at = "archive"])
              /\ excuses' = [excuses EXCEPT ![a] = @ + IF ok /\ Rivals(c) = {} THEN 0 ELSE 1]
  /\ UNCHANGED <<world, minute, captured, recent, persisted, persisting, archive, demotions>>

\* archive_bad_bot_feedback: another report's row will do.
ArchiveLook(c) ==
  /\ complaint[c].at = "archive" /\ SessionFree
  /\ Move(c, IF Archived(complaint[c].about)
             THEN [complaint[c] EXCEPT !.at = "send", !.archived = TRUE]
             ELSE [complaint[c] EXCEPT !.at = "insert"])
  /\ UNCHANGED <<world, minute, captured, recent, persisted, persisting, archive, demotions,
                 excuses, mishaps>>

\* A failed insert leaves nothing for the next report to find.
ArchiveInsert(c, ok) ==
  /\ complaint[c].at = "insert" /\ Tried(ok)
  /\ Move(c, [complaint[c] EXCEPT !.at = "send", !.archived = ok])
  /\ archive' = IF ok THEN [archive EXCEPT ![c] = complaint[c].about] ELSE archive
  /\ excuses' = [excuses EXCEPT ![complaint[c].about] = @ + IF ok THEN 0 ELSE 1]
  /\ UNCHANGED <<world, minute, captured, recent, persisted, persisting, demotions>>

\* send_bad_bot_feedback, to a channel if one is configured, and, if either worked,
\* the demotion, which may fail.
SendAndDemote(c, sent, demoted) ==
  /\ complaint[c].at = "send" /\ Move(c, EndOfReport)
  /\ demotions' = IF demoted /\ (sent \/ complaint[c].archived)
                  THEN [demotions EXCEPT ![complaint[c].about] = @ + 1] ELSE demotions
  /\ UNCHANGED <<world, minute, captured, recent, persisted, persisting, archive, excuses, mishaps>>

------------------------------------------------------------------------------

BotRestarts ==
  /\ Mishap /\ recent' = {} /\ persisting' = {}
  /\ complaint' = [c \in Complaints |-> IF Amid(c) THEN EndOfReport ELSE complaint[c]]
  /\ UNCHANGED <<world, minute, captured, persisted, archive, demotions, excuses>>

MinutePasses ==
  /\ minute < FeedbackHorizon /\ minute' = minute + 1
  /\ UNCHANGED <<world, captured, recent, persisted, persisting, complaint, archive, demotions,
                 excuses, mishaps>>

FeedbackNext ==
  \/ \E a \in Replies : Deliver(a) \/ \E ok \in BOOLEAN : Persist(a, ok)
  \/ \E c \in Complaints :
       \/ \E wanted \in Meanings : Report(c, wanted)
       \/ ArchiveLook(c)
       \/ \E ok \in BOOLEAN : CheckArchived(c, ok) \/ ArchiveInsert(c, ok)
       \/ \E sent, demoted \in BOOLEAN : SendAndDemote(c, sent, demoted)
  \/ (\E what \in {"cache", "table"} : Retain(what))
  \/ BotRestarts \/ MinutePasses

FeedbackSpec == FeedbackInit /\ [][FeedbackNext]_feedbackVars

------------------------------------------------------------------------------
(* Properties                                                              *)

FeedbackTypeOK ==
  /\ minute \in 0 .. FeedbackHorizon /\ mishaps \in 0 .. MaxMishaps
  /\ recent \cup persisted \cup persisting \subseteq {a \in Replies : captured[a] # NotYet}
  /\ Cardinality(recent) <= KeptEntries

\* An answer's procedures are demoted once for it, however often and by whomever it
\* is reported, unless two reports overlapped between the check and the archive,
\* or the database failed (feedback.py:152-170, :202-221).
DemotedOnce == \A a \in Replies : demotions[a] <= 1 + excuses[a]

\* With one connection an answer is archived once, even by reports that overlapped
\* (feedback.py:278-318).
ArchivedOnce ==
  world.single => \A c, d \in Complaints : archive[c] # 0 /\ archive[c] = archive[d] => c = d

\* No report digs out an answer older than a quarter of an hour, from memory or from
\* the database, before or after a restart.
FoundIsRecent == \A c \in Complaints : complaint[c].age <= KeptFor

\* What a report may find, archive and demote.
FeedbackInv == FeedbackTypeOK /\ FoundIsRecent /\ ArchivedOnce /\ DemotedOnce
==============================================================================
