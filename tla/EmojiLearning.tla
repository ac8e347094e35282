----------------------------- MODULE EmojiLearning -----------------------------
(***************************************************************************)
(* What the bot learns about one emoji (emoji_learning.py, emoji_backfill  *)
(* .py, emoji_catalog.py): how often it is used, whether its image is safe *)
(* to import, what it means.  The live worker, the backfill from the       *)
(* channel history and the commands of the administrators update one JSON  *)
(* document, each update under the catalog's lock and in a transaction.    *)
(*                                                                         *)
(* The copy in memory follows the database after a commit only, so that a  *)
(* commit whose answer is lost leaves it behind.  The import itself is     *)
(* EmojiPool; an emoji's use is a message or a reaction to one.  The last  *)
(* 64 uses are remembered, more than there are here.                       *)
(***************************************************************************)
EXTENDS Integers, Sequences, FiniteSets, FiniteSetsExt

CONSTANTS
  Posts,          \* messages that use the emoji are 1 .. Posts, by age
  UsesNeeded,     \* 2 for an import, 3 new ones for a meaning
  SamplesNeeded,  \* UsageEvidence.ready: 3 samples
  Assessments,    \* ASSESSMENTS_PER_DAY
  QueueRoom, DayHours, WeekHours, MaxSurprises   \* bounds

ASSUME EmojiAssumption ==
  /\ {Posts, SamplesNeeded, Assessments, MaxSurprises} \subseteq Nat
  /\ {UsesNeeded, QueueRoom, DayHours, WeekHours} \subseteq Nat \ {0}

VARIABLES
  hours,      \* that have passed
  happened,   \* ghost: the uses of the emoji so far
  dropped,    \* ghost: reactions that a later backfill has struck from history_uses
  learned,    \* the document, in memory
  written,    \* the document, in the database
  usesQueue,  \* of the live worker
  evidence,   \* messages whose context is at hand
  doing,      \* by process: where it is, the use, the document it has read, what it found
  asked,      \* ghost: the calls of the vision model
  surprises   \* hours, failures, restarts, reactions given again, administrators

emojiVars == <<hours, happened, dropped, learned, written, usesQueue, evidence, doing, asked,
               surprises>>

Uses == [kind : {"message", "reaction"}, post : 1 .. Posts]
OfKind(k, S) == {u \in S : u.kind = k}
Processes == {"live", "backfill", "admin"}
LongAgo == -WeekHours
NoUse == [kind |-> "message", post |-> 0]

EmptyDocument ==
  [uses |-> 0, messages |-> 0, reactions |-> 0, recent |-> {}, history |-> {}, last |-> 0,
   day |-> 0, assessed |-> 0, safetyAt |-> LongAgo, meaningAt |-> LongAgo, meaningUses |-> 0,
   approved |-> FALSE, approvedAt |-> LongAgo, managed |-> FALSE,
   blocked |-> FALSE, disabled |-> FALSE, meaning |-> "none",
   backfill |-> "none", attemptedAt |-> LongAgo]

\* What a process keeps of a document it has read.
Sight(document) ==
  [wanted |-> document.uses >= UsesNeeded /\ ~ document.managed,
   approvedAt |-> IF document.approved THEN document.approvedAt ELSE LongAgo,
   spoken |-> document.disabled \/ document.meaning = "manual"]
Resting == [at |-> "idle", use |-> NoUse, seen |-> Sight(EmptyDocument), found |-> {}]

EmojiInit ==
  /\ hours = 0 /\ happened = {} /\ dropped = {} /\ learned = EmptyDocument /\ written = EmptyDocument
  /\ usesQueue = <<>> /\ evidence = {} /\ doing = [p \in Processes |-> Resting] /\ asked = <<>>
  /\ surprises = 0

At(p, label) == doing[p].at = label
Goes(p, label) == doing' = [doing EXCEPT ![p].at = label]
Rests(p) == doing' = [doing EXCEPT ![p] = Resting]
Leaves(p, label) == IF label = "idle" THEN Rests(p) ELSE Goes(p, label)
Surprise == surprises < MaxSurprises /\ surprises' = surprises + 1
Others == UNCHANGED <<hours, happened, dropped>>

\* update_learning: saved, or an exception, after a commit or without one.
Update(p, document, label, onError) ==
  \/ learned' = document /\ written' = document /\ Leaves(p, label) /\ UNCHANGED surprises
  \/ Surprise /\ written' \in {written, document} /\ Leaves(p, onError) /\ UNCHANGED learned

------------------------------------------------------------------------------
(* Uses                                                                    *)

\* schedule, schedule_reaction: the job is queued, or lost because the queue is full.
\* A reaction can be taken back and given again.
UseEmoji(u) ==
  /\ u.kind = "message" => u \notin happened /\ \A v \in OfKind("message", happened) : v.post < u.post
  /\ u.kind = "reaction" => [kind |-> "message", post |-> u.post] \in happened
  /\ IF u \in happened THEN Surprise ELSE UNCHANGED surprises
  /\ happened' = happened \cup {u}
  /\ usesQueue' \in {usesQueue, Append(usesQueue, u)} /\ Len(usesQueue') <= QueueRoom
  /\ UNCHANGED <<hours, dropped, learned, written, evidence, doing, asked>>

\* run, up to the record: a job of yesterday is dropped.
TakeUse ==
  /\ At("live", "idle") /\ usesQueue # <<>> /\ usesQueue' = Tail(usesQueue)
  /\ \/ hours >= DayHours /\ UNCHANGED <<doing, evidence>>
     \/ /\ doing' = [doing EXCEPT !["live"].at = "record", !["live"].use = Head(usesQueue)]
        /\ evidence' = evidence \cup {Head(usesQueue).post}
  /\ Others /\ UNCHANGED <<learned, written, asked, surprises>>

\* record refuses what the live worker or the backfill has counted.
Counted(document, u) ==
  \/ u \in document.recent \cup document.history
  \/ u.kind = "message" /\ document.last >= u.post

WithUse(document, u) ==
  LET message == u.kind = "message"
  IN  [document EXCEPT !.uses = @ + 1, !.recent = @ \cup {u},
                       !.messages = IF message THEN @ + 1 ELSE @,
                       !.reactions = IF message THEN @ ELSE @ + 1,
                       !.last = IF message THEN Max({@, u.post}) ELSE @]

\* The document is saved in any case.
RecordUse ==
  /\ At("live", "record")
  /\ LET u == doing["live"].use
     IN  IF Counted(learned, u) THEN Update("live", learned, "idle", "idle")
         ELSE Update("live", WithUse(learned, u), "read", "idle")
  /\ Others /\ UNCHANGED <<usesQueue, evidence, asked>>

------------------------------------------------------------------------------
(* Reservations and the vision model                                       *)

Today == hours \div DayHours
Spent == IF learned.day = Today THEN learned.assessed ELSE 0

\* reserve_assessment
MayAssess(reason) ==
  /\ Spent < Assessments
  /\ reason = "safety" => hours - learned.safetyAt >= DayHours
  /\ reason = "meaning" => hours - learned.meaningAt >= WeekHours
                           /\ learned.uses - learned.meaningUses >= UsesNeeded
Reserved(reason) ==
  LET counted == [learned EXCEPT !.day = Today, !.assessed = Spent + 1]
  IN  CASE learned.uses = 0   -> counted
        [] reason = "safety"  -> [counted EXCEPT !.safetyAt = hours]
        [] OTHER              -> [counted EXCEPT !.meaningAt = hours, !.meaningUses = counted.uses]

\* The call begins when the reservation is saved.
ReserveCall(p, reason, label, onRefusal, onError) ==
  IF MayAssess(reason)
  THEN \/ /\ learned' = Reserved(reason) /\ written' = learned' /\ Goes(p, label)
          /\ asked' = Append(asked, [reason |-> reason, at |-> hours]) /\ UNCHANGED surprises
       \/ /\ Surprise /\ written' \in {written, Reserved(reason)} /\ Leaves(p, onError)
          /\ UNCHANGED <<learned, asked>>
  ELSE Update(p, learned, onRefusal, onError) /\ UNCHANGED asked

------------------------------------------------------------------------------
(* try_import, for the live worker and the backfill                        *)

Importers == {"live", "backfill"}
AfterImport(p) == IF p = "live" THEN "meaning" ELSE "idle"

\* learning_state: what follows decides by what it shows.
ReadDocument(p) ==
  /\ p \in Importers /\ At(p, "read")
  /\ IF learned.blocked THEN Rests(p)
     ELSE doing' = [doing EXCEPT ![p].at = "import", ![p].seen = Sight(learned)]
  /\ Others /\ UNCHANGED <<learned, written, usesQueue, evidence, asked, surprises>>

ImageIsSafe(p) ==
  doing[p].seen.approvedAt # LongAgo /\ hours - doing[p].seen.approvedAt <= WeekHours

TryImport(p) ==
  /\ p \in Importers /\ At(p, "import")
  /\ IF doing[p].seen.wanted /\ ~ ImageIsSafe(p)
     THEN ReserveCall(p, "safety", "safety", AfterImport(p), AfterImport(p))
     ELSE /\ Leaves(p, IF doing[p].seen.wanted THEN "pool" ELSE AfterImport(p))
          /\ UNCHANGED <<learned, written, asked, surprises>>
  /\ Others /\ UNCHANGED <<usesQueue, evidence>>

\* assess_emoji with safety_only has answered, or failed, which is a no.
StoreSafety(p) ==
  /\ p \in Importers /\ At(p, "safety")
  /\ \E approved \in BOOLEAN :
       Update(p, [learned EXCEPT !.approved = approved, !.approvedAt = hours],
              IF approved THEN "pool" ELSE AfterImport(p), AfterImport(p))
  /\ Others /\ UNCHANGED <<usesQueue, evidence, asked>>

\* maintain_emoji_pool looks at the flags again.
ImportIt(p) ==
  /\ p \in Importers /\ At(p, "pool")
  /\ \E managed \in BOOLEAN :
       /\ managed => ~ learned.blocked
       /\ Update(p, [learned EXCEPT !.managed = managed \/ @], AfterImport(p), AfterImport(p))
  /\ Others /\ UNCHANGED <<usesQueue, evidence, asked>>

------------------------------------------------------------------------------
(* Meanings                                                                *)

\* Enough samples, which must also be of a minute and differ.
InferMeaning ==
  /\ At("live", "meaning")
  /\ \/ Rests("live") /\ UNCHANGED <<learned, written, asked, surprises>>
     \/ /\ Cardinality(evidence) >= SamplesNeeded /\ ~ doing["live"].seen.spoken
        /\ ReserveCall("live", "meaning", "assess", "idle", "idle")
  /\ Others /\ UNCHANGED <<usesQueue, evidence>>

\* Mutant: what was read before the model ran decides.
AdminHasSpokenBefore(p) == doing[p].seen.spoken

\* "An admin edit made while the model was running always wins."
AdminHasSpoken(p) == learned.blocked \/ learned.disabled \/ learned.meaning = "manual"

StoreMeaning ==
  /\ At("live", "assess")
  /\ \E answer \in {"none", "inferred"} :
       Update("live", IF AdminHasSpoken("live") THEN learned
                      ELSE [learned EXCEPT !.meaning = answer], "idle", "idle")
  /\ Others /\ UNCHANGED <<usesQueue, evidence, asked>>

\* set_meaning; one that is refused changes nothing.
SetMeaning ==
  /\ At("admin", "idle") /\ Surprise /\ MayAssess("manual")
  /\ learned' = Reserved("manual") /\ written' = learned' /\ Goes("admin", "validate")
  /\ asked' = Append(asked, [reason |-> "manual", at |-> hours])
  /\ UNCHANGED <<hours, happened, dropped, usesQueue, evidence>>
StoreManual ==
  /\ At("admin", "validate")
  /\ \/ Update("admin", [learned EXCEPT !.meaning = "manual", !.disabled = FALSE], "idle", "idle")
     \/ Rests("admin") /\ UNCHANGED <<learned, written, surprises>>
  /\ Others /\ UNCHANGED <<usesQueue, evidence, asked>>

\* EmojiCatalog.control
ControlMeaning(action) ==
  /\ Surprise
  /\ LET new == CASE action = "forget_meaning" -> [learned EXCEPT !.meaning = "none", !.disabled = TRUE]
                  [] OTHER -> [learned EXCEPT !.blocked = action = "block"]
     IN  learned' \in {learned, new} /\ written' = new
  /\ UNCHANGED <<hours, happened, dropped, usesQueue, evidence, doing, asked>>

------------------------------------------------------------------------------
(* The backfill                                                            *)

\* EmojiHistoryBackfill.run: once, unless forced, and not twice in an hour.
BeginBackfill(force) ==
  /\ At("backfill", "idle")
  /\ force \/ learned.backfill # "complete"
  /\ hours - learned.attemptedAt >= 1
  /\ Update("backfill", [learned EXCEPT !.backfill = "running", !.attemptedAt = hours], "scan", "idle")
  /\ Others /\ UNCHANGED <<usesQueue, evidence, asked>>

\* collect_emoji_history reads what it can of public channels.
ScanHistory ==
  /\ At("backfill", "scan")
  /\ \E found \in SUBSET happened :
       doing' = [doing EXCEPT !["backfill"].at = "merge", !["backfill"].found = found]
  /\ Others /\ UNCHANGED <<learned, written, usesQueue, evidence, asked, surprises>>

\* Mutant: what the scan found is added.
MergedAdding(document, found) ==
  LET ms == Cardinality(OfKind("message", found))   rs == Cardinality(OfKind("reaction", found))
  IN  IF found = {} THEN document
      ELSE [document EXCEPT !.messages = @ + ms, !.reactions = @ + rs, !.uses = @ + ms + rs,
                            !.last = Max({@} \cup {u.post : u \in OfKind("message", found)}),
                            !.history = found]

\* merge_emoji_history: floors, because the samples overlap.
Merged(document, found) ==
  LET ms == Max({document.messages, Cardinality(OfKind("message", found))})
      rs == Max({document.reactions, Cardinality(OfKind("reaction", found))})
  IN  IF found = {} THEN document
      ELSE [document EXCEPT !.messages = ms, !.reactions = rs, !.uses = Max({@, ms + rs}),
                            !.last = Max({@} \cup {u.post : u \in OfKind("message", found)}),
                            !.history = found]

MergeHistory ==
  /\ At("backfill", "merge")
  /\ LET found == doing["backfill"].found
     IN  /\ Update("backfill", Merged(learned, found), "note", "failed")
         /\ dropped' = IF found = {} THEN dropped
                       ELSE dropped \cup OfKind("reaction", learned.history \ (found \cup learned.recent))
  /\ UNCHANGED <<hours, happened, usesQueue, evidence, asked>>

\* Then the candidates are tried.
NoteBackfill ==
  /\ At("backfill", "note")
  /\ \E status \in {"complete", "partial"} :
       Update("backfill", [learned EXCEPT !.backfill = status],
              IF doing["backfill"].found = {} THEN "idle" ELSE "read", "failed")
  /\ Others /\ UNCHANGED <<usesQueue, evidence, asked>>

\* The scan takes more than 90 seconds.
ScanFails ==
  /\ At("backfill", "scan") /\ Surprise /\ Goes("backfill", "failed")
  /\ Others /\ UNCHANGED <<learned, written, usesQueue, evidence, asked>>
NoteFailure ==
  /\ At("backfill", "failed")
  /\ Update("backfill", [learned EXCEPT !.backfill = "failed"], "idle", "idle")
  /\ Others /\ UNCHANGED <<usesQueue, evidence, asked>>

------------------------------------------------------------------------------

\* The process ends, with or without close, and another one begins.
LearnerRestarts ==
  /\ Surprise /\ learned' = written /\ usesQueue' = <<>> /\ evidence' = {}
  /\ doing' = [p \in Processes |-> Resting]
  /\ Others /\ UNCHANGED <<written, asked>>

HourGoes ==
  /\ Surprise /\ hours' = hours + 1
  /\ UNCHANGED <<happened, dropped, learned, written, usesQueue, evidence, doing, asked>>

EmojiNext ==
  \/ \E u \in Uses : UseEmoji(u)
  \/ TakeUse \/ RecordUse \/ InferMeaning \/ StoreMeaning \/ SetMeaning \/ StoreManual
  \/ \E p \in Importers : ReadDocument(p) \/ TryImport(p) \/ StoreSafety(p) \/ ImportIt(p)
  \/ \E action \in {"block", "unblock", "forget_meaning"} : ControlMeaning(action)
  \/ \E force \in BOOLEAN : BeginBackfill(force)
  \/ ScanHistory \/ MergeHistory \/ NoteBackfill \/ ScanFails \/ NoteFailure
  \/ LearnerRestarts \/ HourGoes

EmojiSpec == EmojiInit /\ [][EmojiNext]_emojiVars

------------------------------------------------------------------------------
(* Properties                                                              *)

EmojiTypeOK ==
  /\ hours \in 0 .. surprises /\ happened \subseteq Uses
  /\ \A document \in {learned, written} :
       /\ document.recent \cup document.history \subseteq happened
       /\ document.uses \in Nat /\ document.meaning \in {"none", "inferred", "manual"}

\* "Floors deliberately undercount uncertain unions instead of adding duplicates"
\* (emoji_backfill.py:127): live worker, backfills that fail and run again, lost
\* answers and restarts never make more uses than there were.  (Only what a later backfill
\* strikes from history_uses can be counted once more.)
UsesAreReal ==
  \A document \in {learned, written} : document.uses <= Cardinality(happened) + Cardinality(dropped)

\* The vision model is asked ASSESSMENTS_PER_DAY times a day by everyone together, for
\* an image once a day, and for a meaning once a week and then after new uses.
AssessmentsAreBounded ==
  /\ \A d \in 0 .. Today :
       Cardinality({i \in DOMAIN asked : asked[i].at \div DayHours = d}) <= Assessments
  /\ \A i \in DOMAIN asked : \A j \in 1 .. i - 1 :
       /\ asked[i].reason = "safety" /\ asked[j].reason = "safety"
            => asked[i].at - asked[j].at >= DayHours
       /\ asked[i].reason = "meaning" /\ asked[j].reason = "meaning"
            => asked[i].at - asked[j].at >= WeekHours

\* A meaning that an administrator has forgotten does not come back by inference.
ForgottenIsGone == \A document \in {learned, written} : document.disabled => document.meaning = "none"

EmojiInv == EmojiTypeOK /\ UsesAreReal /\ AssessmentsAreBounded /\ ForgottenIsGone
==============================================================================
