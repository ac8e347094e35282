----------------------------- MODULE MarketQuotes -----------------------------
(***************************************************************************)
(* Prices for an answer: the tools that quote instruments (chat/tools/     *)
(* market.py, market_reports.py) and read a price history (chat/tools/     *)
(* history.py) from two providers at once.  Requests to the first one cost *)
(* credits, so its client sends them one by one and rests after a refusal  *)
(* (twelvedata/client.py); the second one's page (yahoo/client.py) is read *)
(* beside it and may say more about the current session.                   *)
(*                                                                         *)
(* A page is what was read of it: the price of an extended session, that   *)
(* of the regular one.  The texts are left out, and so is the cache of     *)
(* pages, a module of its own: every page may have come from there.        *)
(***************************************************************************)
EXTENDS Integers, Sequences, FiniteSets

CONSTANTS
  Cases,           \* what may be wanted
  Instruments,
  ChartJob,        \* the reader of a price history, a client like an instrument
  PagesSeen,       \* what a page may say
  MaxChartPages,   \* MAX_EXTREMA_PAGES
  CreditRest,      \* 60 s in units of the clock
  MaxAbandoned,    \* bound: requests nobody waits for any more
  MarketHorizon    \* bound: time

Wants == [how : {"quote", "report"}, session : {"latest", "regular", "post"},
          keyed : BOOLEAN, yahoo : BOOLEAN, chart : {"none", "series", "extrema"}]
NoPage == [got |-> "none", ext |-> FALSE, regular |-> FALSE]

ASSUME MarketAssumption ==
  /\ Cases \subseteq Wants /\ \A w \in Cases : w.how = "quote" => w.session = "latest"
  /\ IsFiniteSet(Instruments) /\ ChartJob \notin Instruments /\ NoPage \in PagesSeen
  /\ PagesSeen \subseteq [got : {"page", "none", "broken"}, ext : BOOLEAN, regular : BOOLEAN]
  /\ MaxChartPages \in Nat \ {0} /\ CreditRest \in Nat \ {0}
  /\ MaxAbandoned \in Nat /\ MarketHorizon \in Nat

VARIABLES
  wanted,     \* fixed: which tool, of which session, and what is configured
  tool,       \* "running", "answered", "raised", "cut"
  desk,       \* by instrument: where its lookup is, what was heard, what came out
  chart,      \* the reader of a history
  inLine,      \* who holds or waits for _request_lock, first come first served
  sent,       \* the request of the first in line is under way
  abandoned,  \* requests under way that nobody waits for
  restsUntil, \* _cooldown_until
  refusals,   \* when a refusal for lack of credits was heard
  moment

marketVars == <<wanted, tool, desk, chart, inLine, sent, abandoned, restsUntil, refusals, moment>>

NoPrice == [price |-> "none", why |-> "waiting"]
NewLookup == [at |-> "new", primary |-> "none", page |-> NoPage, closed |-> FALSE, out |-> NoPrice]
NewChart == [at |-> "new", pages |-> 0, from |-> "none", complete |-> FALSE]

ProviderAnswers == {"ok", "unknown", "down", "rate", "broken"}

MarketInit ==
  /\ wanted \in Cases
  /\ tool = "running" /\ desk = [i \in Instruments |-> NewLookup]
  /\ chart = IF wanted.chart = "none" THEN [NewChart EXCEPT !.at = "done"] ELSE NewChart
  /\ inLine = <<>> /\ sent = FALSE /\ abandoned = 0
  /\ restsUntil = 0 /\ refusals = <<>> /\ moment = 0

KeepClient == UNCHANGED <<inLine, sent, abandoned, restsUntil, refusals>>
PutDesk(i, r) == desk' = [desk EXCEPT ![i] = r]
Outcome(i, price, why) == [desk[i] EXCEPT !.at = "done", !.out = [price |-> price, why |-> why]]

------------------------------------------------------------------------------
(* The client of the first provider                                        *)

\* Mutant: it is not looked at again once the lock was waited for.
CreditRestsUnseen == FALSE

\* What every holder of the lock looks at first.
CreditRests == moment < restsUntil

Holder == Head(inLine)

\* An exception that is not one of the providers' own ends the whole call; the other
\* lookups go on for nobody.
Raise(i) ==
  /\ PutDesk(i, Outcome(i, "none", "raised"))
  /\ tool' = IF tool = "running" THEN "raised" ELSE tool

\* What the holder was asked for: a quote, a search of symbols (one without a match is
\* "unknown" too), a page of history.
Hears(who, answer) ==
  IF who = ChartJob
  THEN /\ UNCHANGED <<desk, tool>>
       /\ LET pages == chart.pages + 1
          IN chart' =
               IF answer = "broken" THEN [chart EXCEPT !.at = "done"]
               ELSE IF answer # "ok" THEN [chart EXCEPT !.at = "yahoo"]
               ELSE IF wanted.chart = "extrema" /\ pages < MaxChartPages
                    THEN [chart EXCEPT !.at = "page", !.pages = pages]
                    ELSE [chart EXCEPT !.at = "done", !.pages = pages, !.from = "primary",
                                       !.complete = wanted.chart = "series"]
  ELSE /\ UNCHANGED chart
       /\ CASE desk[who].at = "searching" /\ answer = "broken" -> Raise(who)
            [] desk[who].at = "searching" /\ answer # "broken" ->
                 /\ UNCHANGED tool
                 /\ PutDesk(who, IF answer = "ok" THEN Outcome(who, "none", "suggested")
                              ELSE [desk[who] EXCEPT !.at = "matched"])
            [] OTHER -> UNCHANGED tool /\ PutDesk(who, [desk[who] EXCEPT !.at = "heard", !.primary = answer])

\* _get_json with the lock: no request while it rests.
SendOrRefuse ==
  /\ inLine # <<>> /\ ~ sent
  /\ IF CreditRests
     THEN Hears(Holder, "rate") /\ inLine' = Tail(inLine) /\ UNCHANGED sent
     ELSE sent' = TRUE /\ UNCHANGED <<inLine, desk, chart, tool>>
  /\ UNCHANGED <<wanted, abandoned, restsUntil, refusals, moment>>

HearAnswer(answer) ==
  /\ sent /\ sent' = FALSE /\ inLine' = Tail(inLine)
  /\ Hears(Holder, answer)
  /\ IF answer = "rate"
     THEN restsUntil' = moment + CreditRest /\ refusals' = Append(refusals, moment)
     ELSE UNCHANGED <<restsUntil, refusals>>
  /\ UNCHANGED <<wanted, abandoned, moment>>

\* The last page of the history that there is.
HearLastPage ==
  /\ sent /\ Holder = ChartJob /\ wanted.chart = "extrema"
  /\ sent' = FALSE /\ inLine' = Tail(inLine)
  /\ chart' = [chart EXCEPT !.at = "done", !.pages = @ + 1, !.from = "primary", !.complete = TRUE]
  /\ UNCHANGED <<wanted, tool, desk, abandoned, restsUntil, refusals, moment>>

\* A line that some have left.
LineWithout(line, S) ==
  LET Rest[n \in 0 .. Len(line)] ==
        IF n = 0 THEN <<>>
        ELSE IF line[n] \in S THEN Rest[n - 1] ELSE Append(Rest[n - 1], line[n])
  IN  Rest[Len(line)]

\* Some give up: they leave the line, and a request under way stays so, unheard.
GiveUp(S) ==
  /\ inLine' = LineWithout(inLine, S)
  /\ IF sent /\ Holder \in S
     THEN sent' = FALSE /\ abandoned < MaxAbandoned /\ abandoned' = abandoned + 1
     ELSE UNCHANGED <<sent, abandoned>>
  /\ UNCHANGED <<restsUntil, refusals>>

\* Whatever it was, also a refusal.
AbandonedEnds ==
  /\ abandoned > 0 /\ abandoned' = abandoned - 1
  /\ UNCHANGED <<wanted, tool, desk, chart, inLine, sent, restsUntil, refusals, moment>>

------------------------------------------------------------------------------
(* One instrument                                                          *)

Enqueue(who) == inLine' = Append(inLine, who) /\ UNCHANGED <<sent, abandoned, restsUntil, refusals>>

\* Both providers are asked at the same time; without a key the first one is not.
BeginLookup(i) ==
  /\ tool = "running" /\ desk[i].at = "new"
  /\ IF wanted.keyed
     THEN PutDesk(i, [desk[i] EXCEPT !.at = "asking"]) /\ Enqueue(i)
     ELSE PutDesk(i, [desk[i] EXCEPT !.at = "heard", !.primary = "down"]) /\ KeepClient
  /\ UNCHANGED <<wanted, tool, chart, moment>>

\* A report waits up to 8 s for a provider and then does without.
ReportImpatient(i) ==
  /\ wanted.how = "report" /\ desk[i].at = "asking"
  /\ PutDesk(i, [desk[i] EXCEPT !.at = "heard", !.primary = "down"]) /\ GiveUp({i})
  /\ UNCHANGED <<wanted, tool, chart, moment>>

\* The page that was read meanwhile.
PageOf(i, page) == page = NoPage \/ (wanted.yahoo /\ page \in PagesSeen)

Succeeded(i) == desk[i].primary = "ok"

(* A report chooses a row of the session asked for: _select_quote_row. *)
RowOf(i, page, newerDay) ==
  LET ofRegular == wanted.session \in {"latest", "regular"}
  IN  IF page.ext /\ wanted.session \in {"latest", "post"} THEN "session"
      ELSE IF ofRegular /\ page.regular /\ ~ (Succeeded(i) /\ newerDay) THEN "regular"
      ELSE IF ofRegular /\ Succeeded(i) THEN "primary"
      ELSE "none"

ReportRow(i, page, newerDay) ==
  /\ wanted.how = "report" /\ desk[i].at = "heard" /\ PageOf(i, page) /\ page.got # "broken"
  /\ LET row == RowOf(i, page, newerDay)
     IN  PutDesk(i, [Outcome(i, row, IF row = "none" THEN "error" ELSE "price") EXCEPT !.page = page])
  /\ KeepClient /\ UNCHANGED <<wanted, tool, chart, moment>>

(* A quote goes on in several steps: _execute_single_stock_quote_tool. *)

\* An instrument the provider does not know may have been misspelt.
SearchMatches(i, page) ==
  /\ wanted.how = "quote" /\ desk[i].at = "heard" /\ desk[i].primary = "unknown" /\ PageOf(i, page)
  /\ PutDesk(i, [desk[i] EXCEPT !.at = "searching", !.page = page]) /\ Enqueue(i)
  /\ UNCHANGED <<wanted, tool, chart, moment>>

Proceed(i, page, closed) ==
  LET now == [desk[i] EXCEPT !.page = page, !.closed = closed]
      Into(price, why) ==
        desk' = [desk EXCEPT ![i] = [now EXCEPT !.at = "done", !.out = [price |-> price, why |-> why]]]
  IN  IF page.got = "broken" \/ desk[i].primary = "broken" THEN Raise(i)
      ELSE /\ UNCHANGED tool
           /\ IF Succeeded(i)
              THEN IF ~ closed THEN Into("primary", "price")
                   ELSE IF page.ext THEN Into("session", "price")
                   ELSE IF wanted.yahoo THEN PutDesk(i, [now EXCEPT !.at = "more"])
                   ELSE Into("primary", "price")
              ELSE IF page.ext THEN Into("session", "price")
              ELSE IF page.regular THEN Into("regular", "price")
              ELSE IF wanted.yahoo THEN PutDesk(i, [now EXCEPT !.at = "more"])
              ELSE Into("none", "error")

QuoteProceeds(i, page, closed) ==
  /\ wanted.how = "quote" /\ PageOf(i, page)
  /\ \/ desk[i].at = "heard" /\ desk[i].primary # "unknown"
     \/ desk[i].at = "matched" /\ page = desk[i].page
  /\ Proceed(i, page, closed)
  /\ KeepClient /\ UNCHANGED <<wanted, chart, moment>>

\* get_extended_hours_quote: the page once more, then a chart.
MoreArrives(i, more) ==
  /\ desk[i].at = "more"
  /\ CASE more = "session" -> PutDesk(i, Outcome(i, "session", "price")) /\ UNCHANGED tool
       [] more = "nothing" -> /\ PutDesk(i, IF Succeeded(i) THEN Outcome(i, "primary", "price")
                                         ELSE Outcome(i, "none", "error"))
                              /\ UNCHANGED tool
       [] more = "broken"  -> Raise(i)
  /\ KeepClient /\ UNCHANGED <<wanted, chart, moment>>

\* _stock_quote_success_count: the results that begin like a price.
Priced(i) == desk[i].out.price # "none"

QuoteStatus ==
  LET found == {i \in Instruments : Priced(i)}
  IN  IF found = Instruments THEN "ok" ELSE IF found # {} THEN "mixed"
      ELSE IF \E i \in Instruments : desk[i].out.why = "suggested" THEN "empty" ELSE "error"

ToolAnswers ==
  /\ tool = "running" /\ \A i \in Instruments : desk[i].at = "done"
  /\ tool' = QuoteStatus
  /\ UNCHANGED <<wanted, desk, chart, moment>> /\ KeepClient

\* The time of the batch is over.
ToolIsCut ==
  /\ tool = "running" /\ tool' = "cut"
  /\ desk' = [i \in Instruments |->
                IF desk[i].at = "done" THEN desk[i] ELSE Outcome(i, "none", "cut")]
  /\ GiveUp(Instruments) /\ UNCHANGED <<wanted, chart, moment>>

------------------------------------------------------------------------------
(* A price history                                                         *)

ChartPage ==
  /\ chart.at \in {"new", "page"}
  /\ IF wanted.keyed
     THEN chart' = [chart EXCEPT !.at = "asking"] /\ Enqueue(ChartJob)
     ELSE chart' = [chart EXCEPT !.at = "yahoo"] /\ KeepClient
  /\ UNCHANGED <<wanted, tool, desk, moment>>

\* The second provider's series may be cut short: it never proves an all-time high.
ChartRecovers(found) ==
  /\ chart.at = "yahoo"
  /\ chart' = IF found /\ wanted.yahoo
              THEN [chart EXCEPT !.at = "done", !.from = "yahoo", !.complete = wanted.chart = "series"]
              ELSE [chart EXCEPT !.at = IF wanted.chart = "extrema" THEN "reported" ELSE "done"]
  /\ KeepClient /\ UNCHANGED <<wanted, tool, desk, moment>>

\* A page that reports a peak, for a request without bounds.
ChartReported(found) ==
  /\ chart.at = "reported"
  /\ chart' = [chart EXCEPT !.at = "done", !.from = IF found THEN "reported" ELSE "none"]
  /\ KeepClient /\ UNCHANGED <<wanted, tool, desk, moment>>

ChartIsCut ==
  /\ chart.at \notin {"new", "done"}
  /\ chart' = [chart EXCEPT !.at = "done"] /\ GiveUp({ChartJob})
  /\ UNCHANGED <<wanted, tool, desk, moment>>

MinuteGoes ==
  /\ moment < MarketHorizon /\ moment' = moment + 1
  /\ UNCHANGED <<wanted, tool, desk, chart>> /\ KeepClient

MarketNext ==
  \/ SendOrRefuse \/ (\E a \in ProviderAnswers : HearAnswer(a)) \/ HearLastPage \/ AbandonedEnds
  \/ (\E i \in Instruments : BeginLookup(i) \/ ReportImpatient(i))
  \/ (\E i \in Instruments, p \in PagesSeen, yes \in BOOLEAN :
        ReportRow(i, p, yes) \/ QuoteProceeds(i, p, yes))
  \/ (\E i \in Instruments, p \in PagesSeen : SearchMatches(i, p))
  \/ (\E i \in Instruments, m \in {"session", "nothing", "broken"} : MoreArrives(i, m))
  \/ ToolAnswers \/ ToolIsCut
  \/ ChartPage \/ (\E yes \in BOOLEAN : ChartRecovers(yes) \/ ChartReported(yes)) \/ ChartIsCut
  \/ MinuteGoes

MarketSpec == MarketInit /\ [][MarketNext]_marketVars

------------------------------------------------------------------------------
(* Properties                                                              *)

MarketTypeOK ==
  /\ tool \in {"running", "raised", "cut", "ok", "mixed", "empty", "error"}
  /\ inLine \in UNION {[1 .. n -> Instruments \cup {ChartJob}] : n \in 0 .. Cardinality(Instruments) + 1}
  /\ (sent => inLine # <<>>) /\ abandoned \in 0 .. MaxAbandoned /\ moment \in 0 .. MarketHorizon

\* Whoever waits in the line learns of a refusal before it asks for itself: two
\* refusals are heard only a rest apart, whatever tools ask at the same time.
RefusalsApart ==
  \A m, n \in DOMAIN refusals : m < n => refusals[n] >= refusals[m] + CreditRest

\* Nobody is asked twice over: each lookup is in the line when and as long as it waits.
QueueIsExact ==
  LET waiting == {i \in Instruments : desk[i].at \in {"asking", "searching"}}
  IN  /\ {inLine[n] : n \in DOMAIN inLine} = waiting \cup {c \in {ChartJob} : chart.at = "asking"}
      /\ Cardinality({inLine[n] : n \in DOMAIN inLine}) = Len(inLine)

Answered == tool \in {"ok", "mixed", "empty", "error"}

\* An instrument of which either provider had a price of the session asked for is
\* not reported as unavailable, unless it was taken for a misspelling.
AnyPriceIsTold ==
  Answered => \A i \in Instruments :
    LET d == desk[i]
        known == \/ d.primary = "ok" /\ wanted.session # "post"
                 \/ d.page.ext /\ wanted.session # "regular"
                 \/ d.page.regular /\ wanted.session # "post"
    IN  known => d.out.price # "none" \/ (d.out.why = "suggested" /\ d.primary = "unknown")

\* A price of a session that is over does not stand for one that is known to be later.
LatestSessionLeads ==
  Answered => \A i \in Instruments :
    desk[i].page.ext /\ wanted.session = "latest" /\ (wanted.how = "report" \/ desk[i].closed)
      => desk[i].out.price \in {"session", "none"}

\* The call says that all went well only if there is a price for each, and nothing that
\* a provider does ends a report, or a quote but by what none of them announces.
StatusIsTrue ==
  /\ tool = "ok" => \A i \in Instruments : desk[i].out.price # "none"
  /\ tool \in {"empty", "error"} => \A i \in Instruments : desk[i].out.price = "none"
  /\ tool = "raised" => /\ wanted.how = "quote"
                        /\ \E i \in Instruments : desk[i].out.why = "raised"

\* A peak is called verified only if the first provider's pages reached the beginning.
PeakIsProven == chart.complete /\ wanted.chart = "extrema" => chart.from = "primary" /\ chart.pages >= 1

MarketInv ==
  /\ MarketTypeOK /\ RefusalsApart /\ QueueIsExact /\ AnyPriceIsTold /\ LatestSessionLeads
  /\ StatusIsTrue /\ PeakIsProven
==============================================================================
