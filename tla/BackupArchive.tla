----------------------------- MODULE BackupArchive -----------------------------
(***************************************************************************)
(* The daily off-volume backups of the SQLite file: the worker of the bot  *)
(* (db/backup_worker.py), which runs a process an upload, and the commands *)
(* of an operator beside it (db/sqlite_archive.py).                        *)
(*                                                                         *)
(* A run is: list what is there, copy the file and upload the copy,        *)
(* download it again and check it, mark it verified, delete what is too    *)
(* old.  It takes less than the unit of time, the hour after which a       *)
(* failure is retried; an operator's run may take up to a day.  The           *)
(* connection may fail before or after a request took effect.              *)
(***************************************************************************)
EXTENDS Integers, Sequences, FiniteSets

CONSTANTS BackupDay,        \* DAY
          Retention,        \* retention_days
          MaxForced, MaxSlips, BackupHorizon   \* bounds

ASSUME BackupAssumption ==
  /\ BackupDay \in Nat \ {0} /\ Retention \in Nat /\ Retention > BackupDay
  /\ {MaxForced, MaxSlips, BackupHorizon} \subseteq Nat

VARIABLES
  hour,
  bucket,     \* the objects, in the order of their first upload
  upload,     \* by archiver: its run
  due,        \* when the worker of the bot runs next
  forced,     \* runs of the operator
  slips       \* failures, and uploads that were damaged

backupVars == <<hour, bucket, upload, due, forced, slips>>

Archivers == {"bot", "operator"}
NoUpload == [at |-> "idle", began |-> 0, key |-> 0, seen |-> {}]
Stored == {k \in DOMAIN bucket : bucket[k].there}
Good == {k \in Stored : bucket[k].verified}
\* The last of the objects, by LastModified.
Newest(S) == {k \in S : \A l \in S : bucket[l].at <= bucket[k].at}

BackupInit ==
  /\ hour = 0 /\ bucket = <<>> /\ upload = [w \in Archivers |-> NoUpload] /\ due = 0
  /\ forced = 0 /\ slips = 0

Now(w, label) == upload' = [upload EXCEPT ![w].at = label]
Slip == slips < MaxSlips /\ slips' = slips + 1

------------------------------------------------------------------------------
(* archive                                                                 *)

\* Mutant: an upload that was never verified suppresses the next one.
SuppressesUnverified(k) == hour - bucket[k].at < BackupDay

\* A recent backup makes another one unnecessary, if it was verified.
Suppresses(k) == hour - bucket[k].at < BackupDay /\ bucket[k].verified

\* snapshots; the worker then sleeps for the rest of the day, or goes on.
BeginUpload(w) ==
  /\ upload[w].at = "idle"
  /\ IF w = "bot" THEN hour >= due /\ UNCHANGED forced
     ELSE forced < MaxForced /\ forced' = forced + 1
  /\ LET recent == {k \in Newest(Stored) : w = "bot" /\ Suppresses(k)}
     IN  \/ \E k \in recent : due' = bucket[k].at + BackupDay /\ UNCHANGED upload
         \/ /\ Newest(Stored) = {} \/ Newest(Stored) \ recent # {}
            /\ upload' = [upload EXCEPT ![w] =
                            [at |-> "put", began |-> hour, key |-> 0,
                             seen |-> {<<k, bucket[k].at>> : k \in Stored}]]
            /\ UNCHANGED due
  /\ UNCHANGED <<hour, bucket, slips>>

\* backup_sqlite and put_object; on the way the copy may be damaged.
SendUpload(w) ==
  /\ upload[w].at = "put"
  /\ \E intact \in BOOLEAN :
       /\ IF intact THEN UNCHANGED slips ELSE Slip
       /\ bucket' = Append(bucket, [at |-> hour, intact |-> intact, verified |-> FALSE,
                                    there |-> TRUE])
  /\ upload' = [upload EXCEPT ![w].at = "check", ![w].key = Len(bucket')]
  /\ UNCHANGED <<hour, due, forced>>

\* Mutant: the download is not compared with the file.
MatchesAnyhow(k) == k \in Stored

\* restore, to a file beside the copy.
Matches(k) == k \in Stored /\ bucket[k].intact

CheckUpload(w) ==
  /\ upload[w].at = "check" /\ Matches(upload[w].key) /\ Now(w, "mark")
  /\ UNCHANGED <<hour, bucket, due, forced, slips>>

\* copy_object of the object onto itself makes it one of this hour.
Marked(w) == bucket' = [bucket EXCEPT ![upload[w].key].verified = TRUE,
                                      ![upload[w].key].at = hour]
MarkVerified(w) ==
  /\ upload[w].at = "mark" /\ Marked(w) /\ Now(w, "prune")
  /\ UNCHANGED <<hour, due, forced, slips>>

\* Mutant: retention does not wait for the verification.
ExpiredEarly(w) ==
  IF upload[w].at \in {"check", "mark", "prune"}
  THEN {s[1] : s \in {x \in upload[w].seen : x[2] < upload[w].began - Retention}} \cap Stored
  ELSE {}

\* What was listed and is too old, by the times of the listing.
Expired(w) ==
  IF upload[w].at = "prune"
  THEN {s[1] : s \in {x \in upload[w].seen : x[2] < upload[w].began - Retention}} \cap Stored
  ELSE {}
Deleted(k) == bucket' = [bucket EXCEPT ![k].there = FALSE]
PruneOld(w, k) ==
  /\ k \in Expired(w) /\ Deleted(k)
  /\ UNCHANGED <<hour, upload, due, forced, slips>>

FinishUpload(w) ==
  /\ upload[w].at = "prune" /\ Expired(w) = {}
  /\ upload' = [upload EXCEPT ![w] = NoUpload]
  /\ due' = IF w = "bot" THEN hour + BackupDay ELSE due
  /\ UNCHANGED <<hour, bucket, forced, slips>>

\* Anything goes wrong, the check among it, or the process is killed after three
\* minutes: the worker tries again in an hour.
UploadFails(w) ==
  /\ upload[w].at # "idle"
  /\ \/ UNCHANGED bucket
     \/ upload[w].at = "put" /\ bucket' = Append(bucket, [at |-> hour, intact |-> TRUE,
                                                 verified |-> FALSE, there |-> TRUE])
     \/ upload[w].at = "mark" /\ Marked(w)
     \/ \E k \in Expired(w) : Deleted(k)
  /\ IF upload[w].at = "check" /\ ~ Matches(upload[w].key) THEN UNCHANGED slips ELSE Slip
  /\ upload' = [upload EXCEPT ![w] = NoUpload]
  /\ due' = IF w = "bot" THEN hour + 1 ELSE due
  /\ UNCHANGED <<hour, forced>>

\* close kills the process; the worker of the next bot begins at once.
BotAgain ==
  /\ Slip /\ upload' = [upload EXCEPT !["bot"] = NoUpload] /\ due' = hour
  /\ UNCHANGED <<hour, bucket, forced>>

HourPasses ==
  /\ hour < BackupHorizon /\ hour' = hour + 1
  /\ upload["bot"].at = "idle" /\ due > hour
  /\ upload["operator"].at # "idle" => hour' - upload["operator"].began <= BackupDay
  /\ UNCHANGED <<bucket, upload, due, forced, slips>>

BackupNext ==
  \/ \E w \in Archivers :
       \/ BeginUpload(w) \/ SendUpload(w) \/ CheckUpload(w) \/ MarkVerified(w) \/ FinishUpload(w) \/ UploadFails(w)
       \/ \E k \in Stored : PruneOld(w, k)
  \/ BotAgain \/ HourPasses

BackupSpec == BackupInit /\ [][BackupNext]_backupVars

------------------------------------------------------------------------------
(* Properties                                                              *)

BackupTypeOK ==
  /\ hour \in 0 .. BackupHorizon /\ slips \in 0 .. MaxSlips
  /\ \A w \in Archivers : upload[w].key \in {0} \cup DOMAIN bucket

\* What is marked can be restored.
VerifiedIsIntact == \A k \in Good : bucket[k].intact

\* "Failed or interrupted verification does not prune old backups"
\* (docs/sqlite-migration.md:111-112): from the first verified backup on there always is
\* one, and what has gone was at least Retention older than a verified one.
NeverWithout ==
  /\ (\E k \in DOMAIN bucket : bucket[k].verified) => Good # {}
  /\ \A k \in DOMAIN bucket :
       ~ bucket[k].there => \E l \in Good : bucket[l].at > bucket[k].at + Retention

\* "daily snapshots can lose up to 24 hours of writes when healthy, and longer if
\* backups fail" (docs/sqlite-migration.md:98-99): by an hour a failure, whatever
\* interrupted runs have left in the bucket.
LossIsBounded ==
  LET last == IF Good = {} THEN 0 ELSE bucket[CHOOSE k \in Newest(Good) : TRUE].at
  IN  hour - last <= BackupDay + slips

BackupInv == BackupTypeOK /\ VerifiedIsIntact /\ NeverWithout /\ LossIsBounded
==============================================================================
