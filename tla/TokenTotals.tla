------------------------------ MODULE TokenTotals ------------------------------
(***************************************************************************)
(* Adding up tokens over a set of calls, as SELECT SUM(...) over their     *)
(* rows would.  A sum of natural numbers is the number of tokens: the i-th *)
(* token of call c is the pair <<c, i>>.                                   *)
(***************************************************************************)
EXTENDS Integers, FiniteSets

\* The tokens that f gives to the calls of S.
Units(f, S) == UNION {{c} \X (1 .. f[c]) : c \in S}

Total(f, S) == Cardinality(Units(f, S))
==============================================================================
