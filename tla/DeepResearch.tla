----------------------------- MODULE DeepResearch -----------------------------
(***************************************************************************)
(* One call of WebResearchService.research (chat/deep_research.py) and the *)
(* tool answer made of it (chat/tools/research.py): plan, search, extract, *)
(* reduce, each stage a gather whose members fail on their own, all within *)
(* one deadline.                                                           *)
(*                                                                         *)
(* A stage is one action: its members run side by side, nothing outside    *)
(* sees one end before the other, and d is the time the slowest took.      *)
(* Queries are numbers and texts are left out: a hit is a canonical URL    *)
(* and whether the search engine gave an excerpt of it, a source is the    *)
(* place of its hit in the ranking, a summary is the set of the sources it *)
(* cites.  The ranking and the lengths of texts are left open: any order,  *)
(* and any number of sources that fit.                                     *)
(***************************************************************************)
EXTENDS Integers, FiniteSets, SequencesExt

CONSTANTS Urls,
          SearchResults,   \* what one search may return: sets of hits
          Rooms,           \* how many sources fit beside a summary, or alone
          WholeOutcomes,   \* how many outcomes an answer holds uncut
          MinQueries, MaxQueries, MaxSources, MaxExtracts,
          ModelLimit, SearchLimit, ExtractLimit, OverallLimit

Hits == [url : Urls, snippet : BOOLEAN]
OneEach(S) == \A h1, h2 \in S : h1.url = h2.url => h1 = h2

ASSUME ResearchAssumption ==
  /\ SearchResults \subseteq {S \in SUBSET Hits : S # {} /\ OneEach(S)}
  /\ Rooms \subseteq {f \in [beside : 0 .. MaxSources, alone : 0 .. MaxSources] :
                        f.beside <= f.alone}
  /\ {WholeOutcomes, MaxExtracts, MaxSources} \subseteq Nat \ {0}
  /\ MinQueries \in Nat \ {0} /\ MaxQueries \in Nat /\ MinQueries <= MaxQueries
  /\ {ModelLimit, SearchLimit, ExtractLimit, OverallLimit} \subseteq Nat \ {0}

VARIABLES
  stage,      \* "plan", "search", "extract", "reduce", "answer", "done"
  left,       \* time to the deadline
  queries,    \* how many queries were planned
  searched,   \* by query: the search call and its hits
  ranked,     \* the best hit of every URL found, best first
  extracted,  \* by extract target: the status of the extract call
  reduced,    \* by query with evidence: the reduction
  outcomes,   \* by query: its ToolOutcome
  answer      \* the tool's answer

researchVars == <<stage, left, queries, searched, ranked, extracted, reduced, outcomes, answer>>

NoAnswer == [status |-> "none", provenance |-> {}, shown |-> {}]

ResearchInit ==
  /\ stage = "plan" /\ left = OverallLimit /\ queries = 0
  /\ searched = <<>> /\ ranked = <<>> /\ extracted = <<>> /\ reduced = <<>>
  /\ outcomes = <<>> /\ answer = NoAnswer

\* The n best of these sources.
First(n, K) == {k \in K : Cardinality({j \in K : j < k}) < n}

\* _stage_timeout: 0 stands for None, the stage is skipped.
StageTimeout(limit) == Min({limit, left})

\* A call that could have had this status when its stage took time d.
Possible(status, d, limit) ==
  IF left = 0 THEN status = "skipped"
  ELSE status # "skipped" /\ (status = "timeout" => d = StageTimeout(limit))

Takes(d, limit) == d \in 0 .. StageTimeout(limit) /\ left' = left - d

------------------------------------------------------------------------------
(* The stages                                                              *)

\* _plan_queries: without a usable plan the queries are made of the question.
PlanQueries(d, status, n) ==
  /\ stage = "plan" /\ stage' = "search"
  /\ Takes(d, ModelLimit) /\ Possible(status, d, ModelLimit)
  /\ queries' = IF status = "ok" THEN n ELSE MinQueries
  /\ UNCHANGED <<searched, ranked, extracted, reduced, outcomes, answer>>

SearchCall(status, hits) == [status |-> status, hits |-> hits]
SearchCalls == {SearchCall("ok", S) : S \in SearchResults}
               \cup {SearchCall(s, {}) : s \in {"empty", "error", "timeout", "skipped"}}

\* _dedupe_and_rank_sources: of the hits of one URL the best is kept, with its
\* excerpt or its lack of one.
Rankings(calls) ==
  LET hits == UNION {calls[i].hits : i \in DOMAIN calls}
      urls == {h.url : h \in hits}
      best == {B \in SUBSET hits : OneEach(B) /\ {h.url : h \in B} = urls}
  IN  UNION {SetToSeqs(B) : B \in best}

\* _search_one for every query, and the ranking.
SearchAll(d, calls) ==
  /\ stage = "search" /\ stage' = "extract"
  /\ Takes(d, SearchLimit)
  /\ \A i \in DOMAIN calls : Possible(calls[i].status, d, SearchLimit)
  /\ searched' = calls
  /\ ranked' \in Rankings(calls)
  /\ UNCHANGED <<queries, extracted, reduced, outcomes, answer>>

SourcesOf(i) ==
  First(MaxSources, {k \in DOMAIN ranked : \E h \in searched[i].hits : h.url = ranked[k].url})
Targets == First(MaxExtracts, DOMAIN ranked)

\* _extract_one for every target.
ExtractAll(d, calls) ==
  /\ stage = "extract" /\ stage' = "reduce"
  /\ Takes(d, ExtractLimit)
  /\ \A k \in DOMAIN calls : Possible(calls[k], d, ExtractLimit)
  /\ extracted' = calls
  /\ UNCHANGED <<queries, searched, ranked, reduced, outcomes, answer>>

\* A source is evidence with an extract, or else with the engine's excerpt.
HasText(k) == ranked[k].snippet \/ (k \in DOMAIN extracted /\ extracted[k] = "ok")
Evidence(i) == {k \in SourcesOf(i) : HasText(k)}
WithEvidence == {i \in 1 .. queries : Evidence(i) # {}}

Reduction(status, selected, cites) ==
  [status |-> status, selected |-> selected, cites |-> cites]
\* Without a usable reduction every source of the payload is taken, and there
\* is no summary.
Fallback(status, known) == Reduction(status, known, {})

\* Mutant: the summary may cite what it did not select.
ParseReductionLoosely(ids, cites, known) ==
  IF ids \cap known = {} \/ cites = {} THEN Fallback("invalid", known)
  ELSE Reduction("ok", ids \cap known, cites)

\* _parse_reduction
ParseReduction(ids, cites, known) ==
  IF ids \cap known = {} \/ cites = {} \/ ~ cites \subseteq ids \cap known
  THEN Fallback("invalid", known)
  ELSE Reduction("ok", ids \cap known, cites)

\* _reduce_one: the payload holds the first n sources, the model answers with
\* ids and cites of its own, or does not.
Reductions(i, d) ==
  LET ids == SUBSET Evidence(i)
  IN  {r \in UNION {{ParseReduction(S, C, First(n, Evidence(i))) : S \in ids, C \in ids}
                    \cup {Fallback(s, First(n, Evidence(i))) :
                            s \in {"unavailable", "timeout", "error", "skipped"}}
                    : n \in 0 .. MaxSources}
       : Possible(r.status, d, ModelLimit)}

ReduceAll(d, results) ==
  /\ stage = "reduce" /\ stage' = "answer"
  /\ Takes(d, ModelLimit)
  /\ DOMAIN results = WithEvidence
  /\ \A i \in WithEvidence : results[i] \in Reductions(i, d)
  /\ reduced' = results
  /\ UNCHANGED <<queries, searched, ranked, extracted, outcomes, answer>>

------------------------------------------------------------------------------
(* The answer                                                              *)

\* What the reduction selected; all of it when it selected nothing.
Picked(i, r) == IF r.selected = {} THEN Evidence(i) ELSE r.selected

\* Mutant: a summary stays although a source it cites had no room.
RenderWithSummary(i, r, f) ==
  LET picked == Picked(i, r)
  IN  [cites |-> r.cites,
       included |-> First(IF r.cites = {} THEN f.alone ELSE f.beside, picked)]

\* _render_outcome_evidence: a summary that would push a source out is dropped.
Render(i, r, f) ==
  LET picked == Picked(i, r)
      kept   == r.cites # {} /\ f.beside >= Cardinality(picked)
  IN  [cites |-> IF kept THEN r.cites ELSE {},
       included |-> IF kept THEN picked ELSE First(f.alone, picked)]

QueryOutcome(status, cites, included) ==
  [status |-> status, cites |-> cites, included |-> included]

\* _build_outcome
BuildOutcome(i, f) ==
  IF i \notin WithEvidence
  THEN QueryOutcome(IF searched[i].status \in {"ok", "empty"} THEN "empty" ELSE "error", {}, {})
  ELSE LET page == Render(i, reduced[i], f)
       IN  IF page.included = {} THEN QueryOutcome("empty", {}, {})
           ELSE QueryOutcome("ok", page.cites, page.included)

UrlsOf(K) == {ranked[k].url : k \in K}

\* Mutant: only searches that raised count as failed.
SearchFailedLoudly == \E i \in 1 .. queries : searched[i].status = "error"

\* DeepResearchResult.status, when there is no evidence.
SearchFailed == \E i \in 1 .. queries : searched[i].status \in {"error", "timeout", "skipped"}

\* _execute_deep_research_tool: each outcome gets an equal share of the room,
\* and a URL that was cut away is not named as provenance.
ToolAnswer(os, cut) ==
  LET good  == {i \in DOMAIN os : os[i].status = "ok"}
      room  == IF Cardinality(good) > WholeOutcomes THEN cut ELSE MaxSources
      shown == UNION {UrlsOf(First(room, os[i].included)) : i \in good}
      named == UNION {UrlsOf(os[i].included) : i \in good}
  IN  IF good = {}
      THEN [NoAnswer EXCEPT !.status = IF SearchFailed THEN "error" ELSE "empty"]
      ELSE [status |-> "ok", provenance |-> named \cap shown, shown |-> shown]

Answer(fit, cut) ==
  /\ stage = "answer" /\ stage' = "done"
  /\ outcomes' = [i \in 1 .. queries |-> BuildOutcome(i, fit[i])]
  /\ answer' = ToolAnswer(outcomes', cut)
  /\ UNCHANGED <<left, queries, searched, ranked, extracted, reduced>>

ResearchNext ==
  \/ \E d \in 0 .. OverallLimit, n \in MinQueries .. MaxQueries,
        s \in {"ok", "invalid", "unavailable", "timeout", "error"} : PlanQueries(d, s, n)
  \/ \E d \in 0 .. OverallLimit, calls \in [1 .. queries -> SearchCalls] : SearchAll(d, calls)
  \/ \E d \in 0 .. OverallLimit,
        calls \in [Targets -> {"ok", "empty", "error", "timeout", "skipped"}] : ExtractAll(d, calls)
  \/ \E d \in 0 .. OverallLimit :
       \E results \in [WithEvidence -> UNION {Reductions(i, d) : i \in WithEvidence}] : ReduceAll(d, results)
  \/ \E fit \in [1 .. queries -> Rooms], cut \in 0 .. MaxSources : Answer(fit, cut)

ResearchSpec == ResearchInit /\ [][ResearchNext]_researchVars

------------------------------------------------------------------------------
(* Properties                                                              *)

\* The shape of the state; no stage runs past the deadline.
ResearchTypeOK ==
  /\ stage \in {"plan", "search", "extract", "reduce", "answer", "done"}
  /\ left \in 0 .. OverallLimit
  /\ queries \in 0 .. MaxQueries
  /\ answer \in [status : {"none", "ok", "empty", "error"}, provenance : SUBSET Urls,
                 shown : SUBSET Urls]

\* Whatever failed, timed out or did not fit on the way: a summary that is
\* shown cites only sources that stand beside it, and every source that is
\* shown has a text (_parse_reduction, _render_outcome_evidence).
SummaryIsBacked ==
  \A i \in DOMAIN outcomes :
    LET o == outcomes[i]
    IN  /\ o.cites \subseteq o.included
        /\ \A k \in o.included : HasText(k)

\* "Nothing found" is said only when every search came back: a failed search
\* without evidence is an error the agent may retry (DeepResearchResult.status,
\* _execute_deep_research_tool).
EmptyIsHonest ==
  answer.status = "empty" => \A i \in 1 .. queries : searched[i].status \in {"ok", "empty"}

\* Whatever is cut short, the research neither invents support nor hides a failure.
ResearchInv == ResearchTypeOK /\ SummaryIsBacked /\ EmptyIsHonest
==============================================================================
