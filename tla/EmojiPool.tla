------------------------------- MODULE EmojiPool -------------------------------
(***************************************************************************)
(* The pool of custom emojis the bot uploads to its guild and rotates      *)
(* (discord/emoji_pool.py), the confirmed import of one emoji              *)
(* (discord/emoji_import.py) and the ledger both keep (emoji_catalog.py).  *)
(*                                                                         *)
(* Discord and the database are two stores: every request to either is a   *)
(* step of its own, a crash or a lost answer can fall between two of them, *)
(* and administrators change flags, aliases and emojis meanwhile.          *)
(*                                                                         *)
(* Popularity is left open: which owned emojis have gone a week without    *)
(* use is a set, any of them may be the least popular, and a candidate     *)
(* either beats it or does not.                                            *)
(***************************************************************************)
EXTENDS Integers, FiniteSets

CONSTANTS Sources,          \* emojis of other guilds
          Limit,            \* emoji_auto_import_limit
          GuildSlots,       \* guild.emoji_limit
          MaxUploads, MaxAdmin, MaxTrouble, MaxImports   \* bounds

ASSUME PoolAssumption ==
  /\ {Limit, GuildSlots, MaxUploads} \subseteq Nat \ {0}
  /\ {MaxAdmin, MaxTrouble, MaxImports} \subseteq Nat
  /\ "none" \notin Sources

VARIABLES
  server,      \* the emojis of the guild
  managed,     \* ledger of the pool: by source, NoEmoji, Pending or the id owned
  imports,     \* ledger of all uploads: by source, the id or 0
  controls,    \* what administrators set: pinned, blocked, aliased sources
  unused,      \* sources without a use in a week
  rotated,     \* a rotation was made in the last day
  pool, import,\* the two tasks: where each is, and with what
  spent,       \* uploads, admin moves, troubles, imports so far
  lost         \* uploads whose id was never recorded

poolVars == <<server, managed, imports, controls, unused, rotated, pool, import, spent, lost>>

Ids == 1 .. MaxUploads
NoEmoji == 0
Pending == -1   \* a slot of the ledger whose upload has no id yet
Emojis == [id : Ids, source : Sources, renamed : BOOLEAN, by : {"pool", "import"}]
Idle == [at |-> "idle", source |-> "none", victim |-> "none", old |-> NoEmoji]
Task(at, source, victim, old) == [at |-> at, source |-> source, victim |-> victim, old |-> old]
Expenses == {"uploads", "admin", "trouble", "imports"}
Spend(what) == spent' = [spent EXCEPT ![what] = @ + 1]
FreshId == spent["uploads"] + 1
Left(what) == spent[what] < CASE what = "uploads" -> MaxUploads [] what = "admin" -> MaxAdmin
                              [] what = "trouble" -> MaxTrouble [] what = "imports" -> MaxImports

PoolInit ==
  /\ server = {} /\ managed = [s \in Sources |-> NoEmoji] /\ imports = [s \in Sources |-> NoEmoji]
  /\ controls = [pinned |-> {}, blocked |-> {}, aliased |-> {}]
  /\ unused = {} /\ rotated = FALSE /\ pool = Idle /\ import = Idle
  /\ spent = [what \in Expenses |-> 0] /\ lost = {}

\* bot._emoji_import_lock, held from the look at the guild to the record.
Locked == pool.at # "idle" \/ import.at # "idle"
\* catalog._lock, held by the pool from the second look at the flags to the
\* save of the reservation.
CatalogLocked == pool.at \in {"delete", "reserve"}

Owned == {s \in Sources : managed[s] # NoEmoji}
Protected == controls.pinned \cup controls.aliased
Named(s) == \E e \in server : e.source = s /\ ~ e.renamed
Known(s) == \E e \in server : e.id = imports[s]
Fits == Cardinality(server) < GuildSlots

\* rotation_victim: one of these, the least popular.
Evictable(ctl) ==
  {s \in Owned \cap unused : managed[s] # Pending} \ (ctl.pinned \cup ctl.aliased)

------------------------------------------------------------------------------
(* The pool                                                                *)

\* maintain_emoji_pool up to the download: an approved, popular source that the
\* guild does not have; with the pool full, a victim that is still as the bot
\* made it.
Consider(s) ==
  /\ ~ Locked
  /\ s \notin controls.blocked /\ s \notin Owned /\ ~ Known(s) /\ ~ Named(s)
  /\ \/ /\ Cardinality(Owned) < Limit /\ Fits
        /\ pool' = Task("download", s, "none", NoEmoji)
     \/ /\ Cardinality(Owned) = Limit /\ ~ rotated /\ Cardinality(server) - 1 < GuildSlots
        /\ \E v \in Evictable(controls) : \E e \in server :
             /\ e.id = managed[v] /\ ~ e.renamed
             /\ pool' = Task("download", s, v, e.id)
  /\ UNCHANGED <<server, managed, imports, controls, unused, rotated, import, spent, lost>>

\* Mutant: the flags are not read again after the download.
StillFineUnchecked == TRUE

\* The flags are read again, under the lock that holds their writers off.
StillFine ==
  /\ pool.source \notin controls.blocked
  /\ pool.victim = "none" \/ pool.victim \in Evictable(controls)

\* With a victim the pool may find another one less popular by now.
Downloaded ==
  /\ pool.at = "download"
  /\ \/ /\ StillFine
        /\ pool' = [pool EXCEPT !.at = IF pool.victim = "none" THEN "reserve" ELSE "delete"]
     \/ (~ StillFine \/ pool.victim # "none") /\ pool' = Idle
  /\ UNCHANGED <<server, managed, imports, controls, unused, rotated, import, spent, lost>>

\* old.delete: by the id seen before the download, whatever its name is now.
\* An emoji that is gone by then is an error.
Delete ==
  /\ pool.at = "delete"
  /\ server' = {e \in server : e.id # pool.old}
  /\ pool' = IF server' = server THEN Idle ELSE [pool EXCEPT !.at = "reserve"]
  /\ UNCHANGED <<managed, imports, controls, unused, rotated, import, spent, lost>>

\* Mutant: the slot is not reserved before the upload.
ReservationLate(s) == managed[s]

Reservation(s) == Pending

\* The victim leaves the ledger and the candidate reserves its slot in one save.
Reserve ==
  /\ pool.at = "reserve"
  /\ managed' = [s \in Sources |-> CASE s = pool.source -> Reservation(s)
                                     [] s = pool.victim -> NoEmoji
                                     [] OTHER -> managed[s]]
  /\ rotated' = (rotated \/ pool.victim # "none")
  /\ pool' = [pool EXCEPT !.at = "create"]
  /\ UNCHANGED <<server, imports, controls, unused, import, spent, lost>>

New(s, by) == [id |-> FreshId, source |-> s, renamed |-> FALSE, by |-> by]

Create ==
  /\ pool.at = "create" /\ Left("uploads") /\ Spend("uploads")
  /\ server' = server \cup {New(pool.source, "pool")}
  /\ pool' = [pool EXCEPT !.at = "finish", !.old = FreshId]
  /\ UNCHANGED <<managed, imports, controls, unused, rotated, import, lost>>

Finish ==
  /\ pool.at = "finish"
  /\ managed' = [managed EXCEPT ![pool.source] = pool.old]
  /\ pool' = [pool EXCEPT !.at = "record"]
  /\ UNCHANGED <<server, imports, controls, unused, rotated, import, spent, lost>>

\* record_import
Record ==
  /\ pool.at = "record"
  /\ imports' = [imports EXCEPT ![pool.source] = pool.old]
  /\ pool' = Idle
  /\ UNCHANGED <<server, managed, controls, unused, rotated, import, spent, lost>>

------------------------------------------------------------------------------
(* The confirmed import                                                    *)

\* Mutant: the import does not take the lock.
MayImportAnytime == import.at = "idle"

MayImport == ~ Locked

\* execute_emoji_import up to the upload, under the emoji's own name or, with
\* aliased, under another one.
BeginImport(s, aliased) ==
  /\ MayImport /\ Left("imports") /\ Spend("imports")
  /\ ~ Known(s) /\ (aliased \/ ~ Named(s)) /\ Fits
  /\ import' = Task(IF aliased THEN "upload as" ELSE "upload", s, "none", NoEmoji)
  /\ UNCHANGED <<server, managed, imports, controls, unused, rotated, pool, lost>>

Upload ==
  /\ import.at \in {"upload", "upload as"} /\ Left("uploads") /\ Spend("uploads")
  /\ server' = server \cup {[New(import.source, "import") EXCEPT !.renamed = (import.at = "upload as")]}
  /\ import' = [import EXCEPT !.at = "record", !.old = FreshId]
  /\ UNCHANGED <<managed, imports, controls, unused, rotated, pool, lost>>

RecordImport ==
  /\ import.at = "record"
  /\ imports' = [imports EXCEPT ![import.source] = import.old]
  /\ import' = Idle
  /\ UNCHANGED <<server, managed, controls, unused, rotated, pool, spent, lost>>

------------------------------------------------------------------------------
(* What can go wrong, and who else acts                                    *)

Unrecorded(t) == IF t.at \in {"finish", "record"} THEN {t.old} ELSE {}

\* A request of the pool fails, or the answer of one that was made is lost.
PoolFails ==
  /\ pool.at # "idle" /\ Left("trouble") /\ Spend("trouble")
  /\ pool' = Idle
  /\ lost' = lost \cup Unrecorded(pool)
  /\ UNCHANGED <<server, managed, imports, controls, unused, rotated, import>>

\* The import is cut off at its 15 s, or fails.
ImportFails ==
  /\ import.at # "idle" /\ Left("trouble") /\ Spend("trouble")
  /\ import' = Idle
  /\ lost' = lost \cup Unrecorded(import)
  /\ UNCHANGED <<server, managed, imports, controls, unused, rotated, pool>>

\* Both ledgers are in the database; the tasks are not.
Crash ==
  /\ Locked /\ Left("trouble") /\ Spend("trouble")
  /\ pool' = Idle /\ import' = Idle
  /\ lost' = lost \cup Unrecorded(pool) \cup Unrecorded(import)
  /\ UNCHANGED <<server, managed, imports, controls, unused, rotated>>

Admin == Left("admin") /\ Spend("admin")

\* EmojiCatalog.control: pin, block and their inverses; and override.
Control(s) ==
  /\ ~ CatalogLocked /\ Admin
  /\ \E what \in {"pinned", "blocked", "aliased"} :
       controls' = [controls EXCEPT ![what] = IF s \in @ THEN @ \ {s} ELSE @ \cup {s}]
  /\ UNCHANGED <<server, managed, imports, unused, rotated, pool, import, lost>>

\* A moderator renames or deletes an emoji of the guild.
Moderate(e) ==
  /\ Admin
  /\ \/ server' = server \ {e}
     \/ ~ e.renamed /\ server' = (server \ {e}) \cup {[e EXCEPT !.renamed = TRUE]}
  /\ UNCHANGED <<managed, imports, controls, unused, rotated, pool, import, lost>>

\* A week passes without a use of s.
Week(s) ==
  /\ s \in Owned \ unused
  /\ unused' = unused \cup {s} /\ rotated' = FALSE
  /\ UNCHANGED <<server, managed, imports, controls, pool, import, spent, lost>>

\* A use is recorded, under the catalog's lock.
Use(s) ==
  /\ s \in unused /\ ~ CatalogLocked
  /\ unused' = unused \ {s}
  /\ UNCHANGED <<server, managed, imports, controls, rotated, pool, import, spent, lost>>

PoolNext ==
  \/ \E s \in Sources : Consider(s) \/ Control(s) \/ Week(s) \/ Use(s)
  \/ Downloaded \/ Delete \/ Reserve \/ Create \/ Finish \/ Record
  \/ \E s \in Sources, aliased \in BOOLEAN : BeginImport(s, aliased)
  \/ Upload \/ RecordImport
  \/ PoolFails \/ ImportFails \/ Crash
  \/ \E e \in server : Moderate(e)

PoolSpec == PoolInit /\ [][PoolNext]_poolVars

------------------------------------------------------------------------------
(* Properties                                                              *)

PoolTypeOK ==
  /\ server \subseteq Emojis
  /\ managed \in [Sources -> {NoEmoji, Pending} \cup Ids]
  /\ imports \in [Sources -> Ids \cup {NoEmoji}]
  /\ unused \subseteq Sources /\ lost \subseteq Ids

\* The pool never has more than Limit emojis on the server, those of uploads
\* whose answer was lost included: the slot is reserved before the upload
\* (emoji_pool.py:92-97) and given up only with the emoji.
PoolWithinLimit == Cardinality({e \in server : e.by = "pool"}) <= Limit

\* A source is twice on the server only when one of the two uploads was cut off
\* before its id was recorded (emoji_pool.py:41, emoji_import.py:54-57).
CopiesExplained ==
  \A e1, e2 \in server : e1.source = e2.source => e1 = e2 \/ {e1.id, e2.id} \cap lost # {}

\* The pool deletes no emoji that is pinned, an alias of the guild, or in use
\* again, however long the download before the deletion took
\* (emoji_pool.py:77-92).
SparedWhenPinned ==
  [][\A e \in server : (e \notin server' /\ pool.at = "delete" /\ pool'.at = "reserve")
       => e.source \notin Protected /\ e.source \in unused]_poolVars

\* What the pool and the imports owe the server, over all their runs.
PoolIsKept == [](PoolTypeOK /\ PoolWithinLimit /\ CopiesExplained) /\ SparedWhenPinned
==============================================================================
