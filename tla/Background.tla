------------------------------ MODULE Background ------------------------------
(***************************************************************************)
(* What goes on behind the answers and has to come to an end: the memory   *)
(* writer, the benchmark suites, the quote pages that several readers wait *)
(* for.  They share no state; one of them moves and the others stay where  *)
(* they begin, each as fair as its own module says.                        *)
(***************************************************************************)
EXTENDS MemoryWriter, BenchmarkSuite, QuotePageCache

VARIABLE turn   \* the part that moves

backgroundVars == <<vars, suiteVars, cacheVars, turn>>

Turns == {"memory", "benchmark", "quotes"}

BackgroundInit == turn \in Turns /\ Init /\ SuiteInit /\ CacheInit

Advances(part) ==
  /\ turn = part /\ UNCHANGED turn
  /\ IF part = "memory" THEN Next ELSE UNCHANGED vars
  /\ IF part = "benchmark" THEN SuiteNext ELSE UNCHANGED suiteVars
  /\ IF part = "quotes" THEN CacheNext ELSE UNCHANGED cacheVars

BackgroundNext == \E part \in Turns : Advances(part)

\* A part that does not move owes nothing.
BackgroundSpec ==
  /\ BackgroundInit /\ [][BackgroundNext]_backgroundVars
  /\ WF_vars(turn = "memory" /\ Refreshes)
  /\ WF_suiteVars(turn = "benchmark" /\ SuiteProgress)
  /\ \A r \in Readers : WF_cacheVars(turn = "quotes" /\ LookAgain(r))
  /\ \A s \in Symbols : WF_cacheVars(turn = "quotes" /\ \E ok \in BOOLEAN : LoadEnds(s, ok))

\* The queue counts what is not done, a suite tells and stores how each case ended and
\* gives way to people, a page is loaded by one for all and not used when it is old.
BehindInv == TypeOK /\ SuiteInv /\ CacheInv
==============================================================================
