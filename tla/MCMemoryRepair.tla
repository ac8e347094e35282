---------------------------- MODULE MCMemoryRepair ----------------------------
(* Tables of earlier versions for TLC. *)
EXTENDS MemoryRepair

\* Two symbols one transposition apart.
MCNear == {<<"SDNK", "SNDK">>, <<"SNDK", "SDNK">>}

\* A guild's list, and from it: one with two symbols, one of them mistyped; a private one
\* that is shared, with the name of a member in it; one with a sensitive excerpt; a
\* sensitive ticker; a person's own one; a row of no guild and no visibility; a shared
\* row without a key; a list that an earlier repair retired.
Mention(s, how, inSource) == [symbol |-> s, how |-> how, inSource |-> inSource]
OldList == [there |-> TRUE, on |-> TRUE, here |-> TRUE, visibility |-> "guild_shared", key |-> "list",
            symbol |-> NoSymbol, says |-> {}, secret |-> "no", market |-> TRUE, scoped |-> TRUE,
            whole |-> TRUE]
OldRows ==
  {[OldList EXCEPT !.says = {Mention("AMD", "upper", TRUE), Mention("SDNK", "dollar", TRUE)}],
   [OldList EXCEPT !.says = {Mention("AMD", "dollar", TRUE), Mention("BOB", "upper", TRUE)},
                   !.visibility = "private", !.key = "blank", !.whole = FALSE],
   [OldList EXCEPT !.says = {Mention("AMD", "dollar", TRUE)}, !.secret = "source"],
   [OldList EXCEPT !.key = "ticker", !.symbol = "AMD", !.secret = "summary"],
   [OldList EXCEPT !.key = "own ticker", !.symbol = "SNDK", !.visibility = "private", !.market = FALSE],
   [OldList EXCEPT !.key = "blank", !.visibility = "unknown", !.here = FALSE],
   [OldList EXCEPT !.says = {Mention("AMD", "lower", TRUE), Mention("BOB", "dollar", TRUE),
                             Mention("SNDK", "upper", FALSE)},
                   !.key = "blank", !.market = FALSE, !.scoped = FALSE],
   [OldList EXCEPT !.says = {Mention("AMD", "dollar", TRUE)}, !.on = FALSE]}
MCTables == UNION {[1 .. n -> OldRows] : n \in 0 .. 3}
==============================================================================
