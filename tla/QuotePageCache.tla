---------------------------- MODULE QuotePageCache ----------------------------
(***************************************************************************)
(* QuotePageCache (yahoo/quote_cache.py), the single-flight cache under    *)
(* the quote pages of YahooFinanceClient and the market pages of           *)
(* MarketPageClient: concurrent readers of a symbol share one load, a      *)
(* value is kept for a while from the start of its load, both the values   *)
(* and the loads under way are bounded, and a reader may leave.            *)
(*                                                                         *)
(* A load is the time it began: what it reads is at least that old.        *)
(***************************************************************************)
EXTENDS Integers, FiniteSets, SequencesExt

CONSTANTS Readers, Symbols,
          CacheTtl,    \* ttl_seconds
          CacheSize,   \* QUOTE_CACHE_CAPACITY, of the values and of the loads
          CacheHorizon \* bound on the clock

ASSUME CacheAssumption == {CacheTtl, CacheSize} \subseteq Nat \ {0} /\ CacheHorizon \in Nat

VARIABLES
  now,
  values,   \* the cached values, least recently used first
  loads,    \* by symbol: when the load under way began, or NoLoad
  reader    \* by reader: where it is, for what, since when, and what it got

cacheVars == <<now, values, loads, reader>>

NoLoad == -1
Got(began, ended) == [began |-> began, ended |-> ended]
Nothing == Got(NoLoad, NoLoad)
Reader(at, symbol, asked, got) == [at |-> at, symbol |-> symbol, asked |-> asked, got |-> got]

CacheInit ==
  /\ now = 0 /\ values = <<>> /\ loads = [s \in Symbols |-> NoLoad]
  /\ reader = [r \in Readers |-> Reader("idle", "none", 0, Nothing)]

Loading == {s \in Symbols : loads[s] # NoLoad}

\* The values of vs that are in S, in their order: those among the first n.
FirstAmong(vs, S) ==
  LET among[n \in 0 .. Len(vs)] ==
        IF n = 0 THEN <<>>
        ELSE IF vs[n] \in S THEN Append(among[n - 1], vs[n]) ELSE among[n - 1]
  IN  among
Among(vs, S) == FirstAmong(vs, S)[Len(vs)]

Unexpired == Among(values, {v \in ToSet(values) : v.expires > now})
Without(s, vs) == Among(vs, {v \in ToSet(vs) : v.symbol # s})
For(s, vs) == {v \in ToSet(vs) : v.symbol = s}

\* Mutant: a load is started although as many as may be are under way.
MayLoadAnyway == TRUE

MayLoad == Cardinality(Loading) < CacheSize

\* One round of get: drop what has expired, then a cached value, the load under
\* way, a load of one's own, or waiting for room.
Look(r, s, asked) ==
  LET cached == For(s, Unexpired)
      hit    == CHOOSE v \in cached : TRUE
  IN  IF cached # {}
      THEN /\ values' = Append(Without(s, Unexpired), hit)
           /\ reader' = [reader EXCEPT ![r] = Reader("served", s, asked, hit.got)]
           /\ UNCHANGED loads
      ELSE /\ values' = Unexpired
           /\ IF s \in Loading \/ MayLoad
              THEN /\ loads' = IF s \in Loading THEN loads ELSE [loads EXCEPT ![s] = now]
                   /\ reader' = [reader EXCEPT ![r] = Reader("joined", s, asked, Nothing)]
              ELSE /\ reader' = [reader EXCEPT ![r] = Reader("outside", s, asked, Nothing)]
                   /\ UNCHANGED loads

Ask(r, s) == reader[r].at = "idle" /\ Look(r, s, now) /\ UNCHANGED now

\* A load ended: the readers outside look again.
LookAgain(r) ==
  /\ reader[r].at = "awake" /\ Look(r, reader[r].symbol, reader[r].asked) /\ UNCHANGED now

\* Mutant: the lifetime counts from the end of the load.
ExpiryFromEnd(began) == now + CacheTtl

Expiry(began) == began + CacheTtl

\* _load: the value is kept if it has not expired by its end, the least recently
\* used ones make room; everyone who joined gets the value, or the failure.
LoadEnds(s, ok) ==
  /\ s \in Loading
  /\ LET got == Got(loads[s], now)
         kept == Append(Without(s, values), [symbol |-> s, expires |-> Expiry(loads[s]), got |-> got])
     IN  /\ values' = IF ok /\ now < Expiry(loads[s])
                      THEN SubSeq(kept, Max({1, Len(kept) - CacheSize + 1}), Len(kept))
                      ELSE values
         /\ reader' = [r \in Readers |->
              CASE reader[r].at = "joined" /\ reader[r].symbol = s ->
                     Reader(IF ok THEN "served" ELSE "failed", s, reader[r].asked, got)
                [] reader[r].at = "outside" -> [reader[r] EXCEPT !.at = "awake"]
                [] OTHER -> reader[r]]
  /\ loads' = [loads EXCEPT ![s] = NoLoad]
  /\ UNCHANGED now

\* Mutant: the load a reader started is cancelled with it.
LeaveUnshielded(r) ==
  /\ loads' = [s \in Symbols |-> IF reader[r].at = "joined" /\ s = reader[r].symbol THEN NoLoad
                                 ELSE loads[s]]
  /\ UNCHANGED <<now, values>>

\* asyncio.shield: the load goes on.
LeaveLoad(r) == UNCHANGED <<now, values, loads>>

\* The reader's tool call is cut off or its request cancelled.
Leaves(r) ==
  /\ reader[r].at \in {"joined", "outside", "awake"}
  /\ reader' = [reader EXCEPT ![r].at = "left"]
  /\ LeaveLoad(r)

CacheTick == now < CacheHorizon /\ now' = now + 1 /\ UNCHANGED <<values, loads, reader>>

CacheProgress ==
  \/ \E r \in Readers : LookAgain(r)
  \/ \E s \in Symbols, ok \in BOOLEAN : LoadEnds(s, ok)

CacheNext ==
  \/ CacheProgress \/ CacheTick
  \/ \E r \in Readers : Leaves(r) \/ \E s \in Symbols : Ask(r, s)

\* Loads end: every read of the network has a timeout of its own.
CacheFairness ==
  /\ \A r \in Readers : WF_cacheVars(LookAgain(r))
  /\ \A s \in Symbols : WF_cacheVars(\E ok \in BOOLEAN : LoadEnds(s, ok))

CacheSpec == CacheInit /\ [][CacheNext]_cacheVars /\ CacheFairness

------------------------------------------------------------------------------
(* Properties                                                              *)

Times == 0 .. CacheHorizon
CacheTypeOK ==
  /\ now \in Times /\ loads \in [Symbols -> Times \cup {NoLoad}]
  /\ Len(values) <= CacheSize /\ Cardinality(Loading) <= CacheSize
  /\ \A i, j \in DOMAIN values : values[i].symbol = values[j].symbol => i = j

\* What a reader gets was being read when it asked or later, or began to be read
\* less than CacheTtl before: the time a slow load takes is part of the age of its
\* value (quote_cache.py:45-58).
FreshServed ==
  \A r \in Readers : reader[r].at = "served" =>
    \/ reader[r].asked < reader[r].got.began + CacheTtl
    \/ reader[r].got.ended >= reader[r].asked

\* Every reader gets an answer or leaves by itself, whoever else leaves or fails
\* and however many symbols are asked for at once (quote_cache.py:34-43).
EveryReaderEnds ==
  \A r \in Readers :
    reader[r].at \in {"joined", "outside", "awake"} ~> reader[r].at \in {"served", "failed", "left"}

\* The cache is bounded and never serves what was old when it was asked for.
CacheInv == CacheTypeOK /\ FreshServed
==============================================================================
