------------------------------ MODULE MCBackground ------------------------------
(* Instances of the background work for TLC. *)
EXTENDS Background, TLC

CONSTANTS likes, lives, ACME, tea, coffee, plain, fancy

Fact(pred, val, words) ==
  [operation |-> "upsert", visibility |-> "private", kind |-> "fact",
   predicate |-> pred, summary |-> [value |-> val, wording |-> words]]
SharedFact(pred, val) == [Fact(pred, val, plain) EXCEPT !.visibility = "guild_shared"]
RetractFact(pred, val) == [Fact(pred, val, plain) EXCEPT !.operation = "retract"]

\* Two wordings of one fact; another value; a retraction; a shared default;
\* enough facts for a consolidation, one of them a market fact.
MCExtractions ==
  {<<Fact(likes, tea, plain), Fact(likes, tea, fancy)>>, <<Fact(likes, coffee, plain)>>,
   <<RetractFact(likes, tea)>>, <<SharedFact(likes, tea)>>,
   <<Fact(likes, coffee, plain), Fact(lives, tea, plain), Fact(ACME, tea, fancy)>>}

\* What the consolidation model may write.
MCOverviewTexts == {[value |-> coffee, wording |-> fancy]}

Case1(s, n) == [scenario |-> s, turn |-> n]
\* A scenario of two turns with a case of its own between them.
MCManifest == <<Case1("s", 1), Case1("none", 0), Case1("s", 2)>>
==============================================================================
