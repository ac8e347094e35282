----------------------------- MODULE MemoryRepair -----------------------------
(***************************************************************************)
(* The repair of the memories that earlier versions wrote                  *)
(* (memory/maintenance.py), part of the daily maintenance: sensitive rows  *)
(* go, missing metadata is filled in, market configurations are shared,    *)
(* and lists of stocks in prose become one row a symbol.                   *)
(*                                                                         *)
(* The rows of one guild (here) and of none, in the order of their ids.    *)
(* Kind, subject, object and dates are one flag: whole.  A mention is a    *)
(* symbol of a row's text and how it is written.  The repair is one        *)
(* transaction with the only connection of SQLite.  Left out: what a text  *)
(* is recognized by, and that a list names its first twelve symbols only.  *)
(***************************************************************************)
EXTENDS Integers, Sequences, FiniteSets, SequencesExt

CONSTANTS Symbols,
          NameLike,      \* symbols that are, but for digits, the name of a member
          Near,          \* pairs of symbols one transposition of neighbours apart
          Tables,        \* what earlier versions may have left
          MaxEdits       \* bound: commands and new memories

NoSymbol == "none"

\* A row that is there, whatever it says.
IsRow(r) ==
  /\ DOMAIN r = {"there", "on", "here", "visibility", "key", "symbol", "says", "secret", "market",
                 "scoped", "whole"}
  /\ r.there /\ r.symbol \in Symbols \cup {NoSymbol}
  /\ r.visibility \in {"private", "guild_shared", "lore", "unknown"}
  /\ IsFiniteSet(r.says) /\ \A m \in r.says : m.symbol \in Symbols

ASSUME RepairAssumption ==
  /\ NameLike \subseteq Symbols /\ Near \subseteq Symbols \X Symbols /\ MaxEdits \in Nat
  /\ \A t \in Tables : t \in Seq(ToSet(t)) /\ \A i \in DOMAIN t : IsRow(t[i])

VARIABLES
  memories,   \* the rows
  found,      \* the rows as the last repair found them
  repaired,   \* nothing has happened since
  edits

repairVars == <<memories, found, repaired, edits>>

Active(r) == r.on /\ r.here
IsTicker(r) == Active(r) /\ r.key = "ticker"
\* A list in prose, as a repair leaves the rows it shares.
IsList(r) == Active(r) /\ r.visibility = "guild_shared" /\ r.key = "list"
Tickers(t) == {t[i].symbol : i \in {j \in DOMAIN t : IsTicker(t[j])}}

RepairInit == memories \in Tables /\ found = memories /\ repaired = FALSE /\ edits = 0

------------------------------------------------------------------------------
(* repair_memory_store                                                     *)

\* is_shareable_market_configuration, for a private row of a guild.
Shareable(r) == r.visibility = "private" /\ r.here /\ r.market /\ r.secret = "no"

\* A visibility that is none is private; a list of a guild that had no key gets one
\* with which it is taken apart below.
Mended(r) ==
  LET known == [r EXCEPT !.visibility = IF @ = "unknown" THEN "private" ELSE @]
      v     == IF Shareable(known) THEN "guild_shared" ELSE known.visibility
  IN  IF ~ r.on THEN r
      ELSE [r EXCEPT !.visibility = v, !.whole = TRUE,
                     !.key = IF @ # "blank" THEN @ ELSE IF v = "guild_shared" THEN "list" ELSE "other"]

\* The first loop: what is sensitive is deleted, but stays in the list of the second.
Scrubbed(r) == IF r.secret # "no" THEN [r EXCEPT !.there = FALSE] ELSE Mended(r)
FirstPass(t) == [i \in DOMAIN t |-> Scrubbed(t[i])]

\* _known_ticker_symbols
KnownSymbols(t) ==
  {t[i].symbol : i \in {j \in DOMAIN t : Active(t[j]) /\ t[j].key \in {"ticker", "own ticker"}}}

\* _resolve_known_symbol
Resolved(s, known) ==
  LET near == {k \in known : <<s, k>> \in Near}
  IN  IF s \notin known /\ Cardinality(near) = 1 THEN CHOOSE k \in near : TRUE ELSE s

\* _legacy_market_symbols
Explicit(r, s) == \E m \in r.says : m.symbol = s /\ m.how = "dollar" /\ m.inSource
Recognized(r, known) ==
  {Resolved(m.symbol, known) :
     m \in {n \in r.says :
              /\ n.how \in {"dollar", "upper"} \/ n.symbol \in known
              /\ n.symbol \in NameLike => Explicit(r, n.symbol)
              /\ Resolved(n.symbol, known) \in known \/ n.how = "dollar" \/ r.scoped}}

TickerRow(s, secret) ==
  [there |-> TRUE, on |-> TRUE, here |-> TRUE, visibility |-> "guild_shared", key |-> "ticker",
   symbol |-> s, says |-> {}, secret |-> secret, market |-> TRUE, scoped |-> FALSE, whole |-> TRUE]

Off(rows, i) == [j \in DOMAIN rows |-> IF j = i THEN [rows[j] EXCEPT !.on = FALSE] ELSE rows[j]]

\* The second loop: a row for every symbol that has none; it takes the list's excerpt along.
Retire(o, i) ==
  LET r      == o.rows[i]
      listed == Recognized(r, o.known) \ o.shared
      secret == IF r.secret = "source" THEN "source" ELSE "no"
  IN  IF ~ IsList(r) THEN o
      ELSE [rows   |-> Off(o.rows, i) \o SetToSeq({TickerRow(s, secret) : s \in listed}),
            known  |-> o.known \cup listed,
            shared |-> o.shared \cup listed]

AfterList(t) ==
  LET mended == FirstPass(t)
      after[n \in 0 .. Len(t)] ==
        IF n = 0 THEN [rows |-> mended, known |-> KnownSymbols(mended), shared |-> Tickers(mended)]
        ELSE Retire(after[n - 1], n)
  IN  after

\* The rows that are there, of the first so many and of all.
FirstThere(t) ==
  LET among[n \in 0 .. Len(t)] ==
        IF n = 0 THEN <<>> ELSE IF t[n].there THEN Append(among[n - 1], t[n]) ELSE among[n - 1]
  IN  among
There(t) == FirstThere(t)[Len(t)]

Repaired(t) == There(AfterList(t)[Len(t)].rows)

Repair ==
  /\ memories' = Repaired(memories) /\ found' = memories /\ repaired' = TRUE
  /\ UNCHANGED edits

------------------------------------------------------------------------------
(* What happens to the rows in between                                     *)

Edit == edits < MaxEdits /\ edits' = edits + 1 /\ repaired' = FALSE /\ UNCHANGED found

\* set_memory_visibility, by the owner.
ShowTo(i, v) ==
  /\ Edit
  /\ v # "private" => memories[i].here
  /\ memories' = [memories EXCEPT ![i].visibility = v]

\* delete_memory
ForgetMemory(i) == Edit /\ memories' = There([memories EXCEPT ![i].there = FALSE])

\* store_memory_candidate, for a stock of the guild or of a person.
LearnTicker(s, own) ==
  /\ Edit
  /\ memories' = Append(memories, IF own THEN [TickerRow(s, "no") EXCEPT !.visibility = "private",
                                                                         !.key = "own ticker"]
                                  ELSE TickerRow(s, "no"))

RepairNext ==
  \/ Repair
  \/ \E i \in DOMAIN memories : ForgetMemory(i) \/ \E v \in {"private", "guild_shared", "lore"} : ShowTo(i, v)
  \/ \E s \in Symbols, own \in BOOLEAN : LearnTicker(s, own)

RepairSpec == RepairInit /\ [][RepairNext]_repairVars

------------------------------------------------------------------------------
(* Properties                                                              *)

RepairTypeOK ==
  /\ edits \in 0 .. MaxEdits
  /\ \A i \in DOMAIN memories : IsRow(memories[i])

\* Only what a list was deleted for in the same pass outlives a repair: an excerpt that is
\* sensitive, on a row the pass made of a symbol that list names (maintenance.py:154-201).
Handed(s, t) ==
  \E j \in DOMAIN t : /\ IsList(t[j]) /\ t[j].secret = "source"
                      /\ \E m \in t[j].says : m.symbol = s \/ <<m.symbol, s>> \in Near
OnlyHandedDown ==
  repaired => \A i \in DOMAIN memories :
                LET r == memories[i]
                IN  r.secret # "no" => IsTicker(r) /\ r.secret = "source" /\ Handed(r.symbol, found)

\* Whatever it found, the pass after it leaves nothing sensitive and the one after that
\* finds nothing to do.
SettlesInTwo ==
  repaired => LET again == Repaired(memories)
              IN  Repaired(again) = again /\ \A i \in DOMAIN again : again[i].secret = "no"

\* "Idempotently scrub unsafe rows" (maintenance.py:66): the next repair finds nothing to do.
ScrubsIdempotently == repaired => Repaired(memories) = memories

Taken(i) == IsList(Mended(found[i])) /\ found[i].secret = "no"

\* A list loses none of the symbols its writer marked as such: each is on the guild's
\* list afterwards, or its known neighbour is, unless a deleted row had it.
ListsAreKept ==
  repaired =>
    \A i \in DOMAIN found, s \in Symbols :
      Taken(i) /\ Explicit(found[i], s) =>
        \E k \in Tickers(memories) \cup {found[j].symbol : j \in {n \in DOMAIN found : IsTicker(found[n]) /\ found[n].secret # "no"}} :
          k = s \/ <<s, k>> \in Near

\* However many lists name a symbol, and in whatever order, the repair adds it once
\* and not beside one that is there.
Count(t, s) == Cardinality({i \in DOMAIN t : IsTicker(t[i]) /\ t[i].symbol = s})
NothingListedTwice ==
  repaired => \A s \in Symbols : Count(memories, s) > Count(found, s) => Count(memories, s) = 1

RepairInv == RepairTypeOK /\ OnlyHandedDown /\ SettlesInTwo /\ ListsAreKept /\ NothingListedTwice
==============================================================================
