----------------------------- MODULE MemoryStore -----------------------------
(***************************************************************************)
(* Durable memory: the rows and snapshots of the memory service            *)
(* (memory/service.py, memory/snapshot_service.py, memory/snapshots.py,    *)
(* memory/consolidation.py) as they are between two committed              *)
(* transactions, and the operators each transaction is built from.         *)
(*                                                                         *)
(* A summary is a record of the value it states and its wording; a row's   *)
(* object_text is that value.  Ranking, tags, confidence and the size      *)
(* limits of a snapshot are left out, and so are the temporary (working)   *)
(* memories: what becomes of them is a deletion by the daily maintenance.  *)
(* Where several rows match a lookup that takes the most recently updated  *)
(* one, any of them may be it.                                             *)
(***************************************************************************)
EXTENDS Integers, Sequences, FiniteSets, SequencesExt

CONSTANTS Users, Guilds,
          Predicates,    \* keys of ordinary facts
          Tickers,       \* keys of typed market facts, never in a snapshot
          Values, Wordings,
          MaxRows,       \* rows ever created
          MinMemories,   \* memory_consolidation_min_memories
          NoText,
          DM             \* guild_id None

ASSUME RowsAssumption == MaxRows \in Nat
ASSUME GuildAssumption == DM \notin Guilds
ASSUME ConsolidationAssumption == MinMemories \in Nat \ {0, 1, 2}
ASSUME PeopleAssumption == Users # {} /\ Values # {} /\ Wordings # {}

VARIABLES
  enabled,    \* UserSettings.memory_enabled
  rows,       \* the table memories
  created,    \* ids handed out so far
  snapshot,   \* the table memory_snapshots: the rows each scope shows
  cooling     \* users whose last consolidation is too recent for another

store == <<enabled, rows, created, snapshot, cooling>>

Ids     == 1 .. MaxRows
Places  == Guilds \cup {DM}
Overview == "consolidated_context"
Keys    == Predicates \cup Tickers \cup {Overview}
Texts   == [value : Values, wording : Wordings]
Kinds   == {"fact", "summary", "lore"}
Audiences == {"private", "guild_shared", "lore"}
Statuses  == {"active", "retracted", "superseded", "consolidated", "none"}

Row == [owner : Users, guild : Places, visibility : Audiences, kind : Kinds,
        predicate : Keys, summary : Texts, status : Statuses,
        embedding : Texts \cup {NoText}, sources : SUBSET Ids]

UserScope(u, g) == [type |-> "user", user |-> u, guild |-> g]
GuildScope(g)   == [type |-> "guild", guild |-> g]
UserScopes  == {UserScope(u, g) : u \in Users, g \in Places}
GuildScopes == {GuildScope(g) : g \in Guilds}
Scopes      == UserScopes \cup GuildScopes

Present(rs, i) == rs[i].status # "none"
Active(rs, i)  == rs[i].status = "active"
PrivateFact(rs, u, i) ==
  /\ Active(rs, i) /\ rs[i].owner = u
  /\ rs[i].visibility = "private" /\ rs[i].kind = "fact"

------------------------------------------------------------------------------
(* Snapshots                                                               *)

\* The rows the query of a scope returns: a guild scope of a user also takes
\* the private rows that belong to no guild.
InScope(rs, on, s) ==
  {i \in Ids :
     /\ Active(rs, i)
     /\ IF s.type = "user"
        THEN /\ rs[i].owner = s.user /\ rs[i].guild \in {DM, s.guild}
             /\ rs[i].visibility = "private"
        ELSE /\ on[rs[i].owner] /\ rs[i].guild = s.guild
             /\ rs[i].visibility \in {"guild_shared", "lore"}}

\* _eligible: typed market facts stay out of the always-on block.
Eligible(rs, on, s) ==
  {i \in InScope(rs, on, s) : rs[i].predicate \notin Tickers}

\* build_memory_snapshot: a summary replaces its sources while it is valid,
\* that is, while at least two of them and all of them are in the block.
Build(rs, on, s) ==
  LET shown == Eligible(rs, on, s)
      valid == {i \in shown : /\ rs[i].kind = "summary"
                              /\ Cardinality(rs[i].sources) >= 2
                              /\ rs[i].sources \subseteq shown}
      covered == UNION {rs[i].sources : i \in valid}
  IN  {i \in shown : i \in valid \/ i \notin covered}

\* Every scope in S is rebuilt, those of opted-out users are emptied.
Rebuilt(rs, on, snap, S) ==
  [s \in Scopes |-> IF s \in S THEN Build(rs, on, s) ELSE snap[s]]
Erased(snap, u) ==
  [s \in Scopes |-> IF s.type = "user" /\ s.user = u THEN {} ELSE snap[s]]

\* rebuild_memory_snapshots: this user's snapshot of this guild (of none for
\* a direct message) and the guild's.
RebuildFor(rs, on, snap, u, g) ==
  LET shared == IF g = DM THEN {} ELSE {GuildScope(g)}
  IN  IF on[u] THEN Rebuilt(rs, on, snap, {UserScope(u, g)} \cup shared)
               ELSE Rebuilt(rs, on, Erased(snap, u), shared)

\* Mutant: scopes without rows are left alone.
RefreshedByRows(rs, on, snap, s) ==
  \E i \in Ids : /\ Active(rs, i) /\ on[rs[i].owner]
                 /\ s = IF rs[i].visibility = "private"
                        THEN UserScope(rs[i].owner, rs[i].guild) ELSE GuildScope(rs[i].guild)

\* refresh_all_memory_snapshots: the scopes that have a snapshot now, and the
\* scopes of active rows of users who have memory on.
IsRefreshed(rs, on, snap, s) ==
  \/ snap[s] # {}
  \/ \E i \in Ids : /\ Active(rs, i) /\ on[rs[i].owner]
                   /\ s = IF rs[i].visibility = "private"
                          THEN UserScope(rs[i].owner, rs[i].guild) ELSE GuildScope(rs[i].guild)
RefreshAll(rs, on, snap) ==
  [s \in Scopes |-> IF s.type = "user" /\ ~ on[s.user] THEN {}
                    ELSE IF IsRefreshed(rs, on, snap, s) THEN Build(rs, on, s) ELSE snap[s]]

------------------------------------------------------------------------------
(* store_memory_candidate                                                  *)

\* No guild is asked of a private row: a fact learned in one guild can be
\* replaced from another.
Matching(rs, u, g, vis, c) ==
  {i \in Ids : /\ Active(rs, i) /\ rs[i].owner = u /\ rs[i].visibility = vis
               /\ rs[i].kind = c.kind
               /\ vis # "private" => rs[i].guild = g}
SameKey(rs, u, g, vis, c) ==
  {i \in Matching(rs, u, g, vis, c) : rs[i].predicate = c.predicate}
Duplicates(rs, u, g, vis, c) ==
  {i \in Matching(rs, u, g, vis, c) : rs[i].summary = c.summary}

\* What the extraction brings: never a summary (normalize_memory_kind).
Candidates == [operation : {"upsert", "retract"}, visibility : Audiences,
               kind : Kinds \ {"summary"}, predicate : Keys, summary : Texts]

\* A transaction so far: the table, the ids handed out, whether a row was
\* stored, and the rows that have no embedding, with the text to embed.
Outcome(rs, n, st, ts) == [rows |-> rs, created |-> n, stored |-> st, targets |-> ts]
Stored(o, rs, n, i, c) ==
  Outcome(rs, n, TRUE, IF rs[i].embedding # NoText THEN o.targets
                       ELSE Append(o.targets, [id |-> i, summary |-> c.summary]))

InsertRow(o, rs, u, g, vis, c) ==
  LET i == o.created + 1
  IN  Stored(o, [rs EXCEPT ![i] =
                   [owner |-> u, guild |-> g, visibility |-> vis, kind |-> c.kind,
                    predicate |-> c.predicate, summary |-> c.summary,
                    status |-> "active", embedding |-> NoText, sources |-> {}]],
             i, i, c)

\* A duplicate takes over the key; only without one a row is created.
DuplicateOrInsert(o, rs, u, g, vis, c) ==
  LET same == Duplicates(rs, u, g, vis, c)
  IN  IF same = {} THEN {InsertRow(o, rs, u, g, vis, c)}
      ELSE {Stored(o, [rs EXCEPT ![i].predicate = c.predicate], o.created, i, c) : i \in same}

Upsert(o, u, g, vis, c) ==
  LET current == SameKey(o.rows, u, g, vis, c)
      rs == o.rows
  IN  IF current = {} THEN DuplicateOrInsert(o, rs, u, g, vis, c)
      ELSE UNION {IF rs[i].summary.value = c.summary.value
                  THEN {Stored(o, [rs EXCEPT ![i].summary = c.summary], o.created, i, c)}
                  ELSE DuplicateOrInsert(o, [rs EXCEPT ![i].status = "superseded"],
                                         u, g, vis, c) : i \in current}

Retract(o, u, g, vis, c) ==
  LET current == SameKey(o.rows, u, g, vis, c)
  IN  IF current = {} THEN {o}
      ELSE {Stored(o, [o.rows EXCEPT ![i].status = "retracted"], o.created, i, c) : i \in current}

StoreCandidate(o, u, g, c) ==
  LET vis == IF g = DM THEN "private" ELSE c.visibility
  IN  IF c.operation = "retract" THEN Retract(o, u, g, vis, c) ELSE Upsert(o, u, g, vis, c)

StoreEach(S, u, g, c) == UNION {StoreCandidate(o, u, g, c) : o \in S}

\* The loop over the candidates, in one transaction: how it may stand after the first n.
AfterCandidates(u, g, cands) ==
  LET after[n \in 0 .. Len(cands)] ==
        IF n = 0 THEN {Outcome(rows, created, FALSE, <<>>)}
        ELSE StoreEach(after[n - 1], u, g, cands[n])
  IN  after

\* Mutant: the opt-in read before the model call is trusted.
StoreAllUnchecked(u, g, cands) == AfterCandidates(u, g, cands)[Len(cands)]

\* is_enabled is read in the transaction itself.
StoreAll(u, g, cands) ==
  IF enabled[u] THEN AfterCandidates(u, g, cands)[Len(cands)]
  ELSE {Outcome(rows, created, FALSE, <<>>)}

------------------------------------------------------------------------------
(* What a reply is given                                                   *)

\* get_memory_snapshot_blocks: the user's block of this guild or else the one
\* of no guild, and the guild's block.
Blocks(u, g) ==
  LET scoped == snapshot[UserScope(u, g)]
      own    == IF scoped = {} THEN snapshot[UserScope(u, DM)] ELSE scoped
      guilds == IF g = DM THEN {} ELSE snapshot[GuildScope(g)]
  IN  IF enabled[u] THEN own \cup guilds ELSE {}

\* can_read_memory
CanRead(i, u, g) ==
  IF rows[i].visibility = "private" THEN rows[i].owner = u
  ELSE g # DM /\ rows[i].guild = g
==============================================================================
