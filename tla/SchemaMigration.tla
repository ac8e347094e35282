---------------------------- MODULE SchemaMigration ----------------------------
(***************************************************************************)
(* Database.init_models (db/session.py): two processes of the new version  *)
(* start on one database, of whatever age, while the old version may still *)
(* write its reports of answers as JSON into app_state.                    *)
(*                                                                         *)
(* A start is one transaction, DDL included (sqlite_runtime.py begins it   *)
(* explicitly).  What two of them write collides: a primary key, a column, *)
(* a lock.  The later one fails, its process exits and is started again.   *)
(***************************************************************************)
EXTENDS Integers, Sequences, FiniteSets, SequencesExt

CONSTANTS Starters,     \* processes
          LegacyRows,   \* rows of app_state: [source, messages, fresh]
          Ages,         \* what databases look like: [marks, columns, owner]
          MaxExits      \* bound

Migrations == {"legacy", "watchlist"}
NoSource == "none"
BotMessages == UNION {r.messages : r \in LegacyRows}
MessageOwners == {NoSource} \cup {r.source : r \in LegacyRows}

ASSUME MigrationAssumption ==
  /\ MaxExits \in Nat /\ IsFiniteSet(LegacyRows)
  /\ \A r \in LegacyRows : r.messages # {} /\ r.source # NoSource
  /\ \A age \in Ages : /\ age.marks \subseteq age.columns /\ age.columns \subseteq Migrations
                       /\ age.owner \in [BotMessages -> MessageOwners]

VARIABLES
  marks,      \* SchemaMigration
  columns,    \* the columns that are there
  appState,   \* legacy rows that are there
  snapshots,  \* sources in response_diagnostic_snapshots
  owner,      \* by bot message: its source in response_diagnostic_messages, or NoSource
  start,      \* by process: where it is, the marks and the rows it has read
  everHad,    \* ghost: legacy rows ever written
  everRead,   \* ghost: rows a committed migration had read
  exits

migrationVars == <<marks, columns, appState, snapshots, owner, start, everHad, everRead, exits>>

Down == [at |-> "down", marks |-> {}, columns |-> {}, rows |-> {}]

MigrationInit ==
  /\ \E age \in Ages : marks = age.marks /\ columns = age.columns /\ owner = age.owner
  /\ snapshots = {owner[m] : m \in BotMessages} \ {NoSource}
  /\ appState \in SUBSET LegacyRows /\ everHad = appState /\ everRead = {}
  /\ start = [p \in Starters |-> Down] /\ exits = 0

------------------------------------------------------------------------------

\* create_all and the reads that decide what is to be done.
Look(p) ==
  /\ start[p].at = "down"
  /\ start' = [start EXCEPT ![p] = [at |-> "looked", marks |-> marks, columns |-> columns, rows |-> {}]]
  /\ UNCHANGED <<marks, columns, appState, snapshots, owner, everHad, everRead, exits>>

\* The legacy rows are read when the columns are there.
ReadLegacy(p) ==
  /\ start[p].at = "looked"
  /\ start' = [start EXCEPT ![p].at = "read",
                            ![p].rows = IF "legacy" \in start[p].marks THEN {} ELSE appState]
  /\ UNCHANGED <<marks, columns, appState, snapshots, owner, everHad, everRead, exits>>

\* A row whose messages belong to another source is passed over; a message that has
\* an owner keeps it.
Moved(state, r) ==
  IF \E m \in r.messages : state.owner[m] \notin {NoSource, r.source} THEN state
  ELSE [snaps |-> state.snaps \cup {r.source},
        owner |-> [m \in BotMessages |-> IF m \in r.messages THEN r.source ELSE state.owner[m]]]

\* _migrate_legacy_response_diagnostics, in the order the query returns.
AfterRows(s) ==
  LET moved[n \in 0 .. Len(s)] ==
        IF n = 0 THEN [snaps |-> snapshots, owner |-> owner] ELSE Moved(moved[n - 1], s[n])
  IN  moved[Len(s)]
Results(rows) == {AfterRows(s) : s \in SetToSeqs({r \in rows : r.fresh})}

\* Mutant: whatever has the prefix is deleted.
HandledByPrefix(rows) == IF rows = {} THEN {} ELSE appState

\* Exactly the rows that were read are deleted.
Handled(rows) == rows

\* Nobody has changed what this transaction changes since it looked.
Collides(p) == marks # start[p].marks

\* A start that finds something to do: missing columns are added, rows moved, all
\* is marked.
Migrate(p) ==
  /\ start[p].at = "read" /\ ~ Collides(p) /\ start[p].marks # Migrations
  /\ \E result \in Results(start[p].rows) : snapshots' = result.snaps /\ owner' = result.owner
  /\ marks' = Migrations /\ columns' = columns \cup (Migrations \ start[p].marks)
  /\ appState' = appState \ Handled(start[p].rows)
  /\ everRead' = everRead \cup start[p].rows
  /\ start' = [start EXCEPT ![p] = [Down EXCEPT !.at = "up"]]
  /\ UNCHANGED <<everHad, exits>>

NothingToDo(p) ==
  /\ start[p].at = "read" /\ start[p].marks = Migrations
  /\ start' = [start EXCEPT ![p] = [Down EXCEPT !.at = "up"]]
  /\ UNCHANGED <<marks, columns, appState, snapshots, owner, everHad, everRead, exits>>

\* The other was first, or the process dies: nothing is changed, and it starts again.
StartFails(p) ==
  /\ start[p].at \in {"looked", "read", "up"}
  /\ IF start[p].at = "read" /\ Collides(p) THEN UNCHANGED exits
     ELSE exits < MaxExits /\ exits' = exits + 1
  /\ start' = [start EXCEPT ![p] = Down]
  /\ UNCHANGED <<marks, columns, appState, snapshots, owner, everHad, everRead>>

\* The old version records an answer.
OldVersionWrites(r) ==
  /\ r \notin everHad /\ appState' = appState \cup {r} /\ everHad' = everHad \cup {r}
  /\ UNCHANGED <<marks, columns, snapshots, owner, start, everRead, exits>>

MigrationNext ==
  \/ \E p \in Starters :
       Look(p) \/ ReadLegacy(p) \/ Migrate(p) \/ NothingToDo(p) \/ StartFails(p)
  \/ \E r \in LegacyRows : OldVersionWrites(r)

MigrationSpec == MigrationInit /\ [][MigrationNext]_migrationVars

------------------------------------------------------------------------------
(* Properties                                                              *)

MigrationTypeOK ==
  /\ marks \subseteq Migrations /\ columns \subseteq Migrations
  /\ owner \in [BotMessages -> MessageOwners]
  /\ \A m \in BotMessages : owner[m] # NoSource => owner[m] \in snapshots

\* A mark stands for its columns, also when two processes started at once, and every
\* process that is up finds both.
MarksAreTrue ==
  marks \subseteq columns /\ \A p \in Starters : start[p].at = "up" => columns = Migrations

IsMoved(r) == r.source \in snapshots /\ \A m \in r.messages : owner[m] = r.source

\* No report of an answer vanishes: it still is in app_state, or a migration has
\* read it and it was useless, is in the new tables, or gave way to another source.
NoReportVanishes ==
  \A r \in everHad \ appState :
    /\ r \in everRead
    /\ ~ r.fresh \/ IsMoved(r) \/ \E m \in r.messages : owner[m] \notin {NoSource, r.source}

MigrationInv == MigrationTypeOK /\ MarksAreTrue /\ NoReportVanishes
==============================================================================
