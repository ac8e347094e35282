----------------------------- MODULE QuotaLedger -----------------------------
(***************************************************************************)
(* What DailyTokenQuota promises, without counters, rows or transactions:  *)
(* every call holds at most one grant, a grant is given only while the     *)
(* day's commitments leave room for it, and it is closed once, at no more  *)
(* than it reserved.  TokenQuota implements this (its Ledger instance).    *)
(***************************************************************************)
EXTENDS Integers, TokenTotals

CONSTANTS Calls,  \* inferences that may ask for capacity
          Days,   \* UTC calendar days
          Limit   \* daily allowance of the metered model, in tokens

NoDay == -1

VARIABLES grantDay,   \* the day a call's grant counts against, or NoDay
          amount,     \* tokens the grant commits: reserved, then charged
          held        \* calls whose grant is still open

vars == <<grantDay, amount, held>>

Committed(d) == Total(amount, {c \in Calls : grantDay[c] = d})

Init == /\ grantDay = [c \in Calls |-> NoDay]
        /\ amount = [c \in Calls |-> 0]
        /\ held = {}

Grant(c, d) ==
  /\ grantDay[c] = NoDay
  /\ \E r \in 0 .. (Limit - Committed(d)) :
       /\ grantDay' = [grantDay EXCEPT ![c] = d]
       /\ amount' = [amount EXCEPT ![c] = r]
       /\ held' = held \cup {c}

Close(c) ==
  /\ c \in held
  /\ \E charge \in 0 .. amount[c] : amount' = [amount EXCEPT ![c] = charge]
  /\ held' = held \ {c}
  /\ UNCHANGED grantDay

Next == \E c \in Calls : Close(c) \/ \E d \in Days : Grant(c, d)

Spec == Init /\ [][Next]_vars
==============================================================================
