---------------------------- MODULE DatabaseTransfer ----------------------------
(***************************************************************************)
(* The move of the database to SQLite (db/sqlite_transfer.py,              *)
(* db/sqlite_identity.py): a copy is made of a database in use or frozen,  *)
(* compared with it and published; when the bot was stopped before, it is  *)
(* started on the copy.                                                    *)
(*                                                                         *)
(* One table with generated ids.  What refers to a row, a reminder or a    *)
(* citation, is its id: it must never name another row.                    *)
(***************************************************************************)
EXTENDS Integers, FiniteSets, FiniteSetsExt

CONSTANTS MaxId, MaxFaults   \* bounds

ASSUME TransferAssumption == {MaxId, MaxFaults} \subseteq Nat

VARIABLES
  store,     \* the database before the move: "postgres", "sqlite", or an "old" SQLite
             \* file, whose table has no AUTOINCREMENT
  moved,     \* the bot uses the copy
  table,     \* the ids of its rows
  sequence,  \* its last generated id, unless it is old
  frozen,    \* no bot writes
  copying,   \* the copy: where it is, its rows, the rows it is a copy of, its sequence
  named,     \* ghost: ids that rows have had
  renamed,   \* ghost: ids that rows have had twice
  faults

transferVars == <<store, moved, table, sequence, frozen, copying, named, renamed, faults>>

Stores == {"postgres", "sqlite", "old"}
NoCopy == [at |-> "none", rows |-> {}, source |-> {}, high |-> 0, final |-> FALSE]
Highest(S) == Max(S \cup {0})

TransferInit ==
  /\ store \in Stores /\ moved = FALSE /\ table = {} /\ sequence = 0 /\ frozen = FALSE
  /\ copying = NoCopy /\ named = {} /\ renamed = {} /\ faults = 0

Fault == faults < MaxFaults /\ faults' = faults + 1

------------------------------------------------------------------------------
(* The bot writes                                                          *)

NextId == 1 + (IF store = "old" /\ ~ moved THEN Highest(table) ELSE sequence)

\* A row is inserted; on PostgreSQL a transaction that fails keeps the id.
InsertOne(committed) ==
  /\ ~ frozen /\ NextId <= MaxId
  /\ committed \/ store = "postgres"
  /\ sequence' = NextId
  /\ IF committed THEN /\ table' = table \cup {NextId} /\ named' = named \cup {NextId}
                       /\ renamed' = renamed \cup ({NextId} \cap named)
     ELSE UNCHANGED <<table, named, renamed>>
  /\ UNCHANGED <<store, moved, frozen, copying, faults>>

DeleteOne(i) ==
  /\ ~ frozen /\ i \in table /\ table' = table \ {i}
  /\ UNCHANGED <<store, moved, sequence, frozen, copying, named, renamed, faults>>

\* NYCTI_MAINTENANCE_MODE.
Freeze ==
  /\ ~ moved /\ frozen' = ~ frozen
  /\ copying' = [copying EXCEPT !.final = FALSE]
  /\ UNCHANGED <<store, moved, table, sequence, named, renamed, faults>>

------------------------------------------------------------------------------
(* copy_to_sqlite                                                          *)

\* One transaction reads all rows as they are at its start.
CopyBegins ==
  /\ copying.at = "none"
  /\ copying' = [at |-> "rows", rows |-> {}, source |-> table, high |-> sequence, final |-> frozen]
  /\ UNCHANGED <<store, moved, table, sequence, frozen, named, renamed, faults>>

\* The rows arrive, or arrive changed.
CopyRows ==
  /\ copying.at = "rows"
  /\ \/ copying' = [copying EXCEPT !.at = "verify", !.rows = copying.source] /\ UNCHANGED faults
     \/ /\ Fault /\ copying.source # {}
        /\ copying' = [copying EXCEPT !.at = "verify",
                                      !.rows = copying.source \ {Highest(copying.source)}]
  /\ UNCHANGED <<store, moved, table, sequence, frozen, named, renamed>>

\* Mutant: the highest row that was copied tells the sequence.
HighWaterOfRows == Highest(copying.source)

\* preserve_identity: a sequence of PostgreSQL is read as it is now, sqlite_sequence
\* as it was when the transaction began, which is not lower than the rows.
HighWater ==
  CASE store = "postgres" -> Max({Highest(copying.source), sequence})
    [] store = "sqlite"   -> copying.high
    [] OTHER              -> Highest(copying.source)

\* Mutant: a copy that differs is published.
SameContentUnchecked == TRUE

\* Counts and digests of both sides.
SameContent == copying.rows = copying.source

\* Compared, and linked to a destination that did not exist.
Publish ==
  /\ copying.at = "verify" /\ SameContent
  /\ copying' = [copying EXCEPT !.at = "published", !.high = HighWater]
  /\ UNCHANGED <<store, moved, table, sequence, frozen, named, renamed, faults>>

\* The temporary file is deleted; a rehearsal is thrown away.
Discard ==
  /\ copying.at # "none" /\ ~ moved
  /\ IF copying.at = "published" \/ (copying.at = "verify" /\ ~ SameContent)
     THEN UNCHANGED faults ELSE Fault
  /\ copying' = NoCopy
  /\ UNCHANGED <<store, moved, table, sequence, frozen, named, renamed>>

\* The final copy, made while nobody wrote, becomes the database.
CutOver ==
  /\ frozen /\ copying.at = "published" /\ copying.final
  /\ moved' = TRUE /\ table' = copying.rows /\ sequence' = copying.high /\ frozen' = FALSE
  /\ copying' = [copying EXCEPT !.final = FALSE]
  /\ UNCHANGED <<store, named, renamed, faults>>

TransferNext ==
  \/ \E committed \in BOOLEAN : InsertOne(committed)
  \/ \E i \in table : DeleteOne(i)
  \/ Freeze \/ CopyBegins \/ CopyRows \/ Publish \/ Discard \/ CutOver

TransferSpec == TransferInit /\ [][TransferNext]_transferVars

------------------------------------------------------------------------------
(* Properties                                                              *)

TransferTypeOK ==
  /\ store \in Stores /\ moved \in BOOLEAN /\ table \subseteq named /\ named \subseteq 1 .. MaxId
  /\ copying.final => frozen

\* "The copy preserves source identity high-water marks, including deleted IDs, so
\* old references cannot silently point at newly inserted rows"
\* (docs/sqlite-migration.md:38-40): an id is given twice only while the bot uses a
\* table without AUTOINCREMENT, or by the copy of one.
NamesStay == renamed # {} => store = "old"

\* A published copy has the rows of one moment, all of them.
CopyIsFaithful == copying.at = "published" => copying.rows = copying.source

TransferInv == TransferTypeOK /\ NamesStay /\ CopyIsFaithful
==============================================================================
