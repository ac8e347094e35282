------------------------------ MODULE TokenQuota ------------------------------
(***************************************************************************)
(* The daily token quota: DailyTokenQuota (llm/token_quota.py) and the     *)
(* code that drives it, complete_chat_turn_with_quota                      *)
(* (llm/quota_execution.py), for one metered model.                        *)
(*                                                                         *)
(* Every SQL transaction that commits is one step, except that _reserve is *)
(* split where another transaction can slip in: the conditional UPDATE, the *)
(* read of the counter and the INSERT see different states of the table.   *)
(* The provider is modelled by what it can answer; `spent' is ghost state, *)
(* the tokens the metered model really used for a call.                    *)
(***************************************************************************)
EXTENDS Integers, TokenTotals

CONSTANTS Calls,          \* inferences addressed to the metered model
          Limit,          \* its daily allowance
          Estimates,      \* values estimate_reservation_tokens may return
          MaxDay,         \* days modelled: 0 .. MaxDay
          Backed,         \* those whose feature a second provider may answer
          MaxCrashes      \* bound on process crashes

ASSUME CallsAssumption == IsFiniteSet(Calls)
ASSUME LimitAssumption == Limit \in Nat
ASSUME EstimatesAssumption == Estimates \subseteq Nat
ASSUME DayAssumption == MaxDay \in Nat
ASSUME BackedAssumption == Backed \subseteq Calls
ASSUME BoundsAssumption == MaxCrashes \in Nat

Days == 0 .. MaxDay

\* ProviderErrorKind, and the sets of kinds the code branches on.
ErrorKinds == {"tool_incompatible", "authentication", "deployment",
               "quota_exhausted", "rate_limit", "access_denied", "transient",
               "invalid_request", "unknown"}
Releasable == {"tool_incompatible", "authentication", "deployment",
               "rate_limit", "access_denied", "invalid_request"}
FailsOver  == {"deployment", "rate_limit", "access_denied", "transient"}
\* Kinds that say nothing about whether inference ran.
Ambiguous  == {"transient", "unknown"}

Closed == {"settled", "released", "uncertain", "provider_exhausted"}
Status == {"none", "active"} \cup Closed

VARIABLES
  counters,   \* days that have a DailyModelTokenCounter row
  consumed,   \* its consumed_tokens
  reserved,   \* its reserved_tokens
  exhausted,  \* days whose row says provider_exhausted
  status,     \* status of the call's ModelTokenReservation row, "none" if absent
  charged,    \* its actual_tokens
  pc,         \* where the call is
  tokens,     \* its reserved_tokens
  day,        \* its usage_day
  attempt,    \* which of _reserve's two attempts it is in
  prior,      \* errors of the metered model that a second provider took over with
  spent,      \* ghost: tokens the metered model used for it
  tried,      \* ghost: calls whose request went to the metered model
  cooldown,   \* is the metered model in the client's cooldown table?
  today,      \* the UTC date
  crashes

rows   == <<counters, consumed, reserved, exhausted, status, charged>>
caller == <<pc, tokens, day, attempt, prior>>
world  == <<spent, tried, cooldown, today>>
vars   == <<rows, caller, world, crashes>>

Reserving == {"update", "inspect", "insert"}
InFlight  == {"asking", "cross"}
Verdicts  == {"settle", "release", "charge", "exhaust"}
Final     == {"done", "fallback", "conflict", "cut", "lost"}
Labels    == {"new", "primary"} \cup Reserving \cup InFlight \cup Verdicts
               \cup Final

Init ==
  /\ counters = {} /\ exhausted = {}
  /\ consumed = [d \in Days |-> 0] /\ reserved = [d \in Days |-> 0]
  /\ status = [c \in Calls |-> "none"] /\ charged = [c \in Calls |-> 0]
  /\ pc = [c \in Calls |-> "new"] /\ tokens = [c \in Calls |-> 0]
  /\ day = [c \in Calls |-> 0] /\ attempt = [c \in Calls |-> 1]
  /\ prior = [c \in Calls |-> "none"]
  /\ spent = [c \in Calls |-> 0] /\ tried = {}
  /\ cooldown = FALSE /\ today = 0 /\ crashes = 0

Goto(c, label) == pc' = [pc EXCEPT ![c] = label]

------------------------------------------------------------------------------
(* DailyTokenQuota.route and _reserve                                      *)

\* Mutant: a finished call may be routed again under the same id.
RouteReused(c) ==
  /\ pc[c] \in {"new", "done"}
  /\ \E r \in Estimates :
       /\ tokens' = [tokens EXCEPT ![c] = r]
       /\ Goto(c, IF r > Limit THEN "fallback" ELSE "update")
  /\ day' = [day EXCEPT ![c] = today]
  /\ UNCHANGED <<rows, attempt, prior, world, crashes>>

\* route: the estimate is taken first, and a call larger than the whole
\* allowance never reaches the database.
Route(c) ==
  /\ pc[c] = "new"
  /\ \E r \in Estimates :
       /\ tokens' = [tokens EXCEPT ![c] = r]
       /\ Goto(c, IF r > Limit THEN "fallback" ELSE "update")
  /\ day' = [day EXCEPT ![c] = today]
  /\ UNCHANGED <<rows, attempt, prior, world, crashes>>

\* Mutant: only what was consumed is compared with the limit.
FitsIgnoringReserved(d, r) ==
  d \in counters /\ d \notin exhausted /\ consumed[d] + r <= Limit

\* Mutant: a closed day is not looked at.
FitsThoughExhausted(d, r) == d \in counters /\ consumed[d] + reserved[d] + r <= Limit

\* The WHERE clause of the conditional UPDATE.
Fits(d, r) ==
  /\ d \in counters /\ d \notin exhausted
  /\ consumed[d] + reserved[d] + r <= Limit

\* The reservation row and the capacity it holds, written together.
Reserve(c) ==
  /\ status' = [status EXCEPT ![c] = "active"]
  /\ reserved' = [reserved EXCEPT ![day[c]] = @ + tokens[c]]
  /\ UNCHANGED <<consumed, exhausted, charged>>

ReserveUpdate(c) ==
  /\ pc[c] = "update"
  /\ \/ /\ Fits(day[c], tokens[c])
        /\ Reserve(c)
        /\ Goto(c, "primary")
        /\ UNCHANGED counters
     \/ /\ ~Fits(day[c], tokens[c])
        /\ Goto(c, "inspect")
        /\ UNCHANGED rows
  /\ UNCHANGED <<tokens, day, attempt, prior, world, crashes>>

\* The row is there: the call is turned away, whatever the row says by now.
ReserveInspect(c) ==
  /\ pc[c] = "inspect"
  /\ Goto(c, IF day[c] \in counters THEN "fallback" ELSE "insert")
  /\ UNCHANGED <<rows, tokens, day, attempt, prior, world, crashes>>

\* Mutant: the row is written without looking, over another's.
InsertOverwriting(c) ==
  /\ pc[c] = "insert"
  /\ counters' = counters \cup {day[c]}
  /\ status' = [status EXCEPT ![c] = "active"]
  /\ reserved' = [reserved EXCEPT ![day[c]] = tokens[c]]
  /\ Goto(c, "primary")
  /\ UNCHANGED <<consumed, exhausted, charged, tokens, day, attempt, prior, world,
                 crashes>>

\* The primary key decides who creates the day's row; the loser of the race
\* gets an IntegrityError and starts over once.  A second one would reach route,
\* which falls back.
ReserveInsert(c) ==
  /\ pc[c] = "insert"
  /\ \/ /\ day[c] \notin counters
        /\ counters' = counters \cup {day[c]}
        /\ Reserve(c)
        /\ Goto(c, "primary")
        /\ UNCHANGED attempt
     \/ /\ day[c] \in counters
        /\ IF attempt[c] = 1
             THEN attempt' = [attempt EXCEPT ![c] = 2] /\ Goto(c, "update")
             ELSE Goto(c, "conflict") /\ UNCHANGED attempt
        /\ UNCHANGED rows
  /\ UNCHANGED <<tokens, day, prior, world, crashes>>

\* What the transaction of _reserve would commit at this point.
Reserves(c) ==
  /\ Reserve(c)
  /\ \/ pc[c] = "update" /\ Fits(day[c], tokens[c]) /\ UNCHANGED counters
     \/ /\ pc[c] = "insert" /\ day[c] \notin counters
        /\ counters' = counters \cup {day[c]}

\* The transaction is cut short, before or after its commit.  An exception makes
\* route fall back; a cancellation (/cancel, or the wait_for of the turn) ends the
\* call.  Either way nobody will finalize what was reserved.
ReserveCutShort(c) ==
  /\ pc[c] \in Reserving
  /\ Reserves(c) \/ UNCHANGED rows
  /\ Goto(c, "cut")
  /\ UNCHANGED <<tokens, day, attempt, prior, world, crashes>>

------------------------------------------------------------------------------
(* complete: the metered model, then perhaps the second provider           *)

\* Mutant: ambiguous errors that fail over are released as well.
VerdictLenient(kind) == IF kind = "quota_exhausted" THEN "exhaust"
                        ELSE IF kind \in Releasable \cup FailsOver THEN "release" ELSE "charge"

\* The verdict on an exception that reached complete_chat_turn_with_quota.
Verdict(kind) == IF kind = "quota_exhausted" THEN "exhaust"
                 ELSE IF kind \in Releasable THEN "release" ELSE "charge"

\* The model is in the cooldown table, so it is not even tried: the second
\* provider answers, or a RuntimeError "temporarily unavailable" (transient).
PrimarySkipped(c) ==
  /\ pc[c] = "primary" /\ cooldown
  /\ IF c \in Backed THEN Goto(c, "cross") ELSE Goto(c, Verdict("transient"))
  /\ UNCHANGED <<rows, tokens, day, attempt, prior, world, crashes>>

PrimaryStarts(c) ==
  /\ pc[c] = "primary" /\ ~cooldown
  /\ tried' = tried \cup {c}
  /\ Goto(c, "asking")
  /\ UNCHANGED <<rows, tokens, day, attempt, prior, spent, cooldown, today, crashes>>

\* A request uses at most what it reserved: the estimate is an upper bound.  A
\* Responses answer may name its model differently (a dated version of it): then
\* it is not recognised as the reserved model's, and carries no error either.
PrimarySucceeds(c) ==
  /\ pc[c] = "asking"
  /\ \E t \in 1 .. tokens[c] : spent' = [spent EXCEPT ![c] = t]
  /\ cooldown' = FALSE
  /\ Goto(c, "settle") \/ Goto(c, "charge")
  /\ UNCHANGED <<rows, tokens, day, attempt, prior, tried, today, crashes>>

\* Only an ambiguous error leaves open whether the model had run.
PrimaryFails(c) ==
  /\ pc[c] = "asking"
  /\ \E kind \in ErrorKinds :
       LET over == kind \in FailsOver /\ c \in Backed IN
       /\ \E t \in (IF kind \in Ambiguous THEN 0 .. tokens[c] ELSE {0}) :
            spent' = [spent EXCEPT ![c] = t]
       /\ cooldown' = (cooldown \/ over \/ kind = "deployment")
       /\ Goto(c, IF over THEN "cross" ELSE Verdict(kind))
       /\ prior' = [prior EXCEPT ![c] = IF ~over THEN @
                      ELSE IF kind \in Releasable THEN "releasable" ELSE "other"]
  /\ UNCHANGED <<rows, tokens, day, attempt, tried, today, crashes>>

\* The turn names another provider: the verdict is on the errors it carries.
CrossSucceeds(c) ==
  /\ pc[c] = "cross"
  /\ Goto(c, IF prior[c] = "releasable" THEN "release" ELSE "charge")
  /\ UNCHANGED <<rows, tokens, day, attempt, prior, world, crashes>>

\* The second provider's exception is the one that is classified.
CrossFails(c) ==
  /\ pc[c] = "cross"
  /\ \E kind \in ErrorKinds : Goto(c, Verdict(kind))
  /\ UNCHANGED <<rows, tokens, day, attempt, prior, world, crashes>>

\* CancelledError is not an Exception: it is handled as a transient error, if it
\* arrives while a provider is asked.  Inside the quota's own transactions see
\* ReserveCutShort and FinalizeCutShort.
Cancelled(c) ==
  /\ pc[c] \in InFlight
  /\ Goto(c, Verdict("transient"))
  /\ IF pc[c] = "asking"
       THEN \E t \in 0 .. tokens[c] : spent' = [spent EXCEPT ![c] = t]
       ELSE UNCHANGED spent
  /\ UNCHANGED <<rows, tokens, day, attempt, prior, tried, cooldown, today, crashes>>

CooldownEnds ==
  /\ cooldown /\ cooldown' = FALSE
  /\ UNCHANGED <<rows, caller, spent, tried, today, crashes>>

------------------------------------------------------------------------------
(* _finalize and mark_exhausted                                            *)

\* The SQL CASE that floors the counter at zero.
Less(held, r) == IF held >= r THEN held - r ELSE 0

\* Mutant: reserved capacity is not given back.
FinalizeKeepingReserved(c, newStatus, charge) ==
  /\ status' = [status EXCEPT ![c] = newStatus]
  /\ charged' = [charged EXCEPT ![c] = charge]
  /\ consumed' = [consumed EXCEPT ![day[c]] = @ + charge]
  /\ UNCHANGED reserved

\* Claiming the row and moving its tokens from reserved to consumed, on the
\* day the reservation was made for.
Finalize(c, newStatus, charge) ==
  IF status[c] = "active" /\ day[c] \in counters'
    THEN /\ status' = [status EXCEPT ![c] = newStatus]
         /\ charged' = [charged EXCEPT ![c] = charge]
         /\ reserved' = [reserved EXCEPT ![day[c]] = Less(@, tokens[c])]
         /\ consumed' = [consumed EXCEPT ![day[c]] = @ + charge]
    ELSE UNCHANGED <<status, charged, reserved, consumed>>

Settle(c)  == pc[c] = "settle" /\ Finalize(c, "settled", spent[c])
Release(c) == pc[c] = "release" /\ Finalize(c, "released", 0)
ChargeUncertain(c) == pc[c] = "charge" /\ Finalize(c, "uncertain", tokens[c])

\* Mutant: an ambiguous failure is not finalized.
CloseWithoutCharge(c) ==
  /\ UNCHANGED <<counters, exhausted>>
  /\ Settle(c) \/ Release(c)

Close(c) ==
  /\ UNCHANGED <<counters, exhausted>>
  /\ Settle(c) \/ Release(c) \/ ChargeUncertain(c)

\* One transaction: the day is closed and the rejected call's own reservation
\* released.  A day without a row gets one.
MarkExhausted(c) ==
  /\ pc[c] = "exhaust"
  /\ counters' = counters \cup {day[c]}
  /\ exhausted' = exhausted \cup {day[c]}
  /\ Finalize(c, "provider_exhausted", 0)

\* Where the call goes once the quota has been told: after an exhaustion the
\* configured fallback model answers, unmetered.
Rest(c) == IF pc[c] = "exhaust" THEN "fallback" ELSE "done"

Finalized(c) ==
  /\ Close(c) \/ MarkExhausted(c)
  /\ Goto(c, Rest(c))
  /\ UNCHANGED <<tokens, day, attempt, prior, world, crashes>>

\* The transaction is cut short, before or after its commit.  An exception is logged
\* and swallowed; a CancelledError passes through, since _finalize catches Exception
\* only.  The row may stay active for good: nothing looks at expires_at.
FinalizeCutShort(c) ==
  /\ pc[c] \in Verdicts
  /\ Close(c) \/ MarkExhausted(c) \/ UNCHANGED rows
  /\ Goto(c, "cut")
  /\ UNCHANGED <<tokens, day, attempt, prior, world, crashes>>

------------------------------------------------------------------------------
\* The process dies: calls and the cooldown table are gone, the rows stay.  A
\* request that was out may have been served in full or not at all.
Crash ==
  /\ crashes < MaxCrashes
  /\ crashes' = crashes + 1
  /\ \E served \in SUBSET {c \in Calls : pc[c] = "asking"} :
       spent' = [c \in Calls |-> IF c \in served THEN tokens[c] ELSE spent[c]]
  /\ pc' = [c \in Calls |-> IF pc[c] \in {"new"} \cup Final THEN pc[c] ELSE "lost"]
  /\ cooldown' = FALSE
  /\ UNCHANGED <<rows, tokens, day, attempt, prior, tried, today>>

Midnight ==
  /\ today < MaxDay
  /\ today' = today + 1
  /\ UNCHANGED <<rows, caller, spent, tried, cooldown, crashes>>

Finished == (\A c \in Calls : pc[c] \in Final) /\ UNCHANGED vars

\* What a coroutine does by itself once its awaits return.
Progress(c) ==
  \/ Route(c) \/ ReserveUpdate(c) \/ ReserveInspect(c) \/ ReserveInsert(c)
  \/ PrimarySkipped(c) \/ PrimaryStarts(c) \/ PrimarySucceeds(c) \/ PrimaryFails(c)
  \/ CrossSucceeds(c) \/ CrossFails(c) \/ Finalized(c)

\* What others do to it.
Interrupted(c) == ReserveCutShort(c) \/ Cancelled(c) \/ FinalizeCutShort(c)

Step(c) == Progress(c) \/ Interrupted(c)

Next == (\E c \in Calls : Step(c)) \/ CooldownEnds \/ Crash \/ Midnight \/ Finished

Spec == Init /\ [][Next]_vars

\* A coroutine that can run does run; the provider answers or times out.  Nobody has
\* to cancel it.
FairSpec == Spec /\ \A c \in Calls : WF_vars(Progress(c))

------------------------------------------------------------------------------
RowTypes ==
  /\ counters \subseteq Days /\ exhausted \subseteq counters
  /\ consumed \in [Days -> Nat] /\ reserved \in [Days -> Nat]
  /\ status \in [Calls -> Status] /\ charged \in [Calls -> Nat]

CallerTypes ==
  /\ pc \in [Calls -> Labels]
  /\ tokens \in [Calls -> Nat] /\ day \in [Calls -> Days]
  /\ attempt \in [Calls -> 1 .. 2]
  /\ prior \in [Calls -> {"none", "releasable", "other"}]

WorldTypes ==
  /\ spent \in [Calls -> Nat] /\ tried \subseteq Calls
  /\ cooldown \in BOOLEAN /\ today \in Days
  /\ crashes \in Nat

\* Every variable holds a value its column or attribute can hold.
TypeOK == RowTypes /\ CallerTypes /\ WorldTypes

CallsOn(d, S) == {c \in Calls : day[c] = d /\ status[c] \in S}

\* The two counters of a day are exactly what its reservation rows add up to:
\* no transaction, failure, crash or lost race makes them drift apart.
CountersMatchRows ==
  \A d \in Days :
    /\ reserved[d] = Total(tokens, CallsOn(d, {"active"}))
    /\ consumed[d] = Total(charged, CallsOn(d, Closed))

Uncharged == {c \in Calls : status[c] \in {"released", "provider_exhausted"}}

\* release "a call known to have failed before provider inference began": what
\* is given back uncharged was not used.
UnchargedMeansUnspent == \A c \in Uncharged : spent[c] = 0

\* The calls for which the code breaks that promise: an ambiguous failure of the
\* metered model, and a failure of the second provider that decided the verdict.
Misjudged == {c \in Uncharged : prior[c] = "other"}

\* No other call breaks it: what one provider reports alone, or a clean failure before
\* the second one was asked, is given back only if the metered model used nothing.
OnlyMisjudgedAreOwed == \A c \in Uncharged \ Misjudged : spent[c] = 0

\* The metered model never uses more in a day than its allowance, whatever is
\* in flight, lost, cut short or uncertain: the purpose of the quota.
SpendWithinLimit ==
  \A d \in Days : Total(spent, {c \in Calls \ Misjudged : day[c] = d}) <= Limit

\* charge_uncertain "when provider execution is ambiguous": a call that is
\* charged its full estimate was at least sent to the provider.
ChargedMeansTried ==
  \A c \in Calls : status[c] = "uncertain" => c \in tried

\* A finalized reservation belongs to a call that is over: no path of
\* complete_chat_turn_with_quota gives a second verdict on the same row.
ClosedCallsAreOver == \A c \in Calls : status[c] \in Closed => pc[c] \in Final

\* A call that is over has left no capacity behind, unless one of its transactions was
\* cut short or the process died under it.
NothingLeftBehind ==
  \A c \in Calls : pc[c] \in {"done", "fallback", "conflict"} => status[c] # "active"

\* _reserve's one retry is enough: the second attempt meets the row the first
\* one collided with, so no call is turned away by an IntegrityError.
RetrySuffices == \A c \in Calls : pc[c] # "conflict"

\* A reservation is finalized once and its row never changes again, even by a
\* late settle after midnight.
FinalizedOnce ==
  [][\A c \in Calls :
       status[c] \in Closed => status'[c] = status[c] /\ charged'[c] = charged[c]]_vars

\* The counters agree with the rows, and no call ever meets a row it cannot read:
\* whatever interleaving, failure or crash, the books balance.
BooksBalance == CountersMatchRows /\ RetrySuffices

\* One verdict per reservation: rows and callers are well formed, a finalized row
\* belongs to a call that is over, a call that is over in order has a finalized one,
\* and it is never written again.
VerdictsAreFinal == [](TypeOK /\ ClosedCallsAreOver /\ NothingLeftBehind) /\ FinalizedOnce

\* Once the provider has declared the day exhausted, no later call reserves on
\* that day, though calls may be anywhere inside _reserve.
ExhaustedDayStaysClosed ==
  [][\A c \in Calls :
       status[c] = "none" /\ status'[c] = "active" => day[c] \notin exhausted]_vars

\* Every reservation is finalized in the end, through errors of either provider and
\* through cancellations of their requests.  What a transaction cut short or a crash
\* leaves active stays so: no code sweeps it, the capacity is gone for the day.
EveryReservationCloses ==
  \A c \in Calls : status[c] = "active" ~> status[c] \in Closed \/ pc[c] \in {"cut", "lost"}

\* The abstract promise this implements (QuotaLedger).
Ledger == INSTANCE QuotaLedger WITH
  grantDay <- [c \in Calls |-> IF status[c] = "none" THEN -1 ELSE day[c]],
  amount <- [c \in Calls |-> IF status[c] = "active" THEN tokens[c] ELSE charged[c]],
  held <- {c \in Calls : status[c] = "active"}

\* Every transaction is a grant, a close or invisible to QuotaLedger.
ImplementsLedger == Ledger!Spec
==============================================================================
