------------------------------- MODULE Evidence -------------------------------
(***************************************************************************)
(* What an answer may refer to (chat/evidence.py, chat/                    *)
(* evidence_enforcement.py): the sources that the run's tools named form a *)
(* ledger, the model is told of what is new in it after every batch, a     *)
(* draft is checked against it and may be sent back once, and before the   *)
(* delivery whatever is not in it is taken out and what is missing added.  *)
(*                                                                         *)
(* A text is the references it makes.  Every item of the guidance is taken *)
(* to be as long as the others; the advice that goes with it is left out.  *)
(***************************************************************************)
EXTENDS Integers, Sequences, FiniteSets, SequencesExt

CONSTANTS
  Pages,           \* sources by URL, normalised
  Invented,        \* a URL and an id that no tool named
  Begins,          \* pairs of URLs: the text of the first begins that of the second
  ToolBatches,     \* the results of the tool calls of one turn, in sequence
  Drafts,          \* what the model may write
  Styles,          \* what is fixed in a run
  LedgerLimit,     \* DEFAULT_MAX_EVIDENCE_ITEMS
  GuidanceRoom,    \* items in one guidance
  MaxBatches       \* bound: batches of one run

ASSUME EvidenceAssumption ==
  /\ Invented \notin Pages /\ Begins \subseteq (Pages \cup {Invented}) \X Pages
  /\ \A b \in ToolBatches : b \in Seq(ToSet(b)) /\ \A n \in DOMAIN b : LET r == b[n] IN
       /\ DOMAIN r = {"tool", "ok", "pages", "precise", "card", "block", "last", "quoted"}
       /\ r.pages \in Seq(Pages) /\ IsInjective(r.pages) /\ {r.ok, r.precise, r.card, r.block, r.last} \subseteq BOOLEAN
  /\ \A s \in Styles : /\ DOMAIN s = {"cited", "deep", "required", "asks", "priced"}
                      /\ {s.cited, s.deep, s.priced} \subseteq BOOLEAN
  /\ \A d \in Drafts : DOMAIN d = {"cites", "links", "variants", "tail", "mentions"}
  /\ LedgerLimit \in Nat \ {0} /\ GuidanceRoom \in Nat \ {0} /\ MaxBatches \in Nat

VARIABLES
  style,      \* fixed: EvidenceMode is CITED, the profile is DEEP, the instruments to be
              \* quoted and those the request names, whether it is for a current price
  results,    \* AgentRun.outcomes
  guided,     \* guided_evidence_quality, by source
  told,       \* how often the guidance told of a source
  batches,    \* how many batches came in
  writing,    \* "working", "accepted", "continued", "delivered"
  draft,      \* the text of the model
  repairs,    \* CorrectionKind.ANSWER_REPAIR
  reply       \* what was delivered

evidenceVars == <<style, results, guided, told, batches, writing, draft, repairs, reply>>

NoDraft == [cites |-> {}, links |-> {}, variants |-> {}, tail |-> {}, mentions |-> {}]
NoReply == [cites |-> {}, links |-> {}, listed |-> {}, cards |-> {}, blocks |-> {},
            text |-> FALSE, rendered |-> FALSE]
Unguided == [count |-> 0, precise |-> -1]

EvidenceInit ==
  /\ style \in Styles
  /\ results = <<>> /\ guided = <<>> /\ told = <<>>
  /\ batches = 0 /\ writing = "working" /\ draft = NoDraft /\ repairs = 0 /\ reply = NoReply

------------------------------------------------------------------------------
(* The ledger                                                              *)

\* _outcome_sources: the URLs a result names, each once, or else the result itself.
NamedBy(r) == IF r.pages = <<>> THEN <<r.tool>> ELSE r.pages

\* Mutant: the newer result is kept, however broad.
NewerKept(c, e) == c.from > e.from

\* A result that names fewer sources says more of each, of equals the newer one.
MorePrecise(c, e) == c.count < e.count \/ (c.count = e.count /\ c.from > e.from)

\* What result n adds to the sources kept so far: the source's place in the order of
\* discovery stays.
Kept(best, r, n) ==
  LET named == ToSet(NamedBy(r))
      new(p) == [page |-> p, count |-> Len(NamedBy(r)), from |-> n, precise |-> r.precise,
                 first |-> <<n, CHOOSE k \in DOMAIN NamedBy(r) : NamedBy(r)[k] = p>>]
  IN  [p \in DOMAIN best \cup named |->
         IF p \notin named THEN best[p]
         ELSE IF p \notin DOMAIN best THEN new(p)
         ELSE IF MorePrecise(new(p), best[p]) THEN [new(p) EXCEPT !.first = best[p].first]
         ELSE best[p]]

\* EvidenceLedger.from_outcomes, after each of the results.
BestAfter(os) ==
  LET best[n \in 0 .. Len(os)] ==
        IF n = 0 THEN [p \in {} |-> Unguided]
        ELSE IF os[n].ok /\ ~ os[n].card THEN Kept(best[n - 1], os[n], n) ELSE best[n - 1]
  IN  best
BestNamed(os) == BestAfter(os)[Len(os)]

\* The order of the ledger, and the first so many of a set.
Precedes(c, e) ==
  \/ c.count < e.count
  \/ /\ c.count = e.count
     /\ c.first[1] < e.first[1] \/ (c.first[1] = e.first[1] /\ c.first[2] < e.first[2])
FirstFew(S, many) == {c \in S : Cardinality({e \in S : Precedes(e, c)}) < many}

LedgerOf(os) == FirstFew({BestNamed(os)[p] : p \in DOMAIN BestNamed(os)}, LedgerLimit)

Ledger == LedgerOf(results)
InLedger == {c.page : c \in Ledger}
PagesInLedger == InLedger \cap Pages

------------------------------------------------------------------------------
(* Guidance                                                                *)

Quality(c) == [count |-> c.count, precise |-> IF c.precise THEN 1 ELSE 0]
\* By tuples: fewer sources first, then a tool that reads one thing exactly.
Finer(q, g) == \/ g = Unguided \/ q.count < g.count
               \/ (q.count = g.count /\ q.precise > g.precise)
GuidedAs(p) == IF p \in DOMAIN guided THEN guided[p] ELSE Unguided

\* append_evidence_guidance, after the results of a batch.
GuideOf(ledger) == FirstFew({c \in ledger : Finer(Quality(c), GuidedAs(c.page))}, GuidanceRoom)

Blocks(os) == {r.tool : r \in {q \in ToSet(os) : q.block}}

\* The results of a turn, and what the model is told of them.  A turn whose calls were
\* all executed and gave blocks that end the run is itself the answer.
TakeBatch(b, whole) ==
  /\ writing = "working" /\ batches < MaxBatches /\ batches' = batches + 1
  /\ results' = results \o b
  /\ LET shown == GuideOf(LedgerOf(results'))
         pages == {c.page : c \in shown}
     IN  /\ guided' = [p \in DOMAIN guided \cup pages |->
                         IF p \in pages THEN Quality(CHOOSE c \in shown : c.page = p) ELSE guided[p]]
         /\ told' = [p \in DOMAIN told \cup pages |->
                       (IF p \in DOMAIN told THEN told[p] ELSE 0) + (IF p \in pages THEN 1 ELSE 0)]
  /\ IF whole /\ \A n \in DOMAIN b : b[n].block /\ b[n].last
     THEN writing' = "delivered"
          /\ reply' = [NoReply EXCEPT !.blocks = Blocks(results'), !.rendered = TRUE]
     ELSE UNCHANGED <<writing, reply>>
  /\ UNCHANGED <<style, draft, repairs>>

------------------------------------------------------------------------------
(* The check of a draft                                                    *)

References(d) == d.links \cup d.variants \cup d.tail

Unprovenanced(d) == References(d) \ InLedger

NeedsCitations == style.cited /\ (PagesInLedger # {} \/ (InLedger # {} /\ style.deep))
Lacking(d) == NeedsCitations /\ d.cites \cap InLedger = {} /\ References(d) \cap PagesInLedger = {}
Valid(d) == d.cites \subseteq InLedger /\ Unprovenanced(d) = {} /\ ~ Lacking(d)

\* The symbols to be quoted, unless a report did it, and those that a call asked for.
Wanted == IF \E r \in ToSet(results) : r.tool = "market_report" /\ r.block THEN {} ELSE style.required
Attempted == UNION {r.quoted : r \in ToSet(results)}
Complete == UNION {r.quoted : r \in {q \in ToSet(results) : q.ok}}

\* quote_verification_prompt_for_price_answer: a price is to be told and none was looked up.
Unverified(d, tools) ==
  /\ style.priced /\ "quote" \in tools
  /\ \A r \in ToSet(results) : r.ok => r.tool \notin {"quote", "market_report"}
  /\ d.mentions \cup style.asks # {} \/ "web" \in tools

\* request_answer_repair: all that is wrong with the draft, to be told at once.  The tools
\* are those that the budget left.
Requirements(d, tools) ==
  LET coverage == IF Wanted # {} THEN Wanted ELSE Complete \cap style.asks
      missing == Wanted \ Attempted
  IN  (IF Unverified(d, tools) THEN {"price"} ELSE {})
    \cup (IF missing # {} /\ "quote" \in tools THEN {"quotes"} ELSE {})
    \cup (IF Cardinality(coverage) >= 2 /\ missing = {} /\ ~ coverage \subseteq d.mentions
          THEN {"coverage"} ELSE {})
    \cup (IF style.cited /\ InLedger # {} /\ ~ Valid(d) THEN {"evidence"} ELSE {})

WriteDraft(d, tools) ==
  /\ writing = "working" /\ draft' = d
  /\ IF Requirements(d, tools) # {} /\ repairs = 0
     THEN repairs' = 1 /\ UNCHANGED writing
     ELSE writing' = "accepted" /\ UNCHANGED repairs
  /\ UNCHANGED <<style, results, guided, told, batches, reply>>

\* The final pass: without tools and without a check.
WriteFinal(d) ==
  /\ writing = "working" /\ draft' = d /\ writing' = "accepted"
  /\ UNCHANGED <<style, results, guided, told, batches, repairs, reply>>

\* continue_once_if_needed: a text that was cut off goes on.
Continue(d) ==
  /\ writing = "accepted" /\ draft' = [f \in DOMAIN d |-> draft[f] \cup d[f]] /\ writing' = "continued"
  /\ UNCHANGED <<style, results, guided, told, batches, repairs, reply>>

------------------------------------------------------------------------------
(* The delivery                                                            *)

\* _remove_internal_evidence_display: the list of sources is cut off, ids are dropped.
Displayed(d) == IF style.cited THEN d ELSE [d EXCEPT !.cites = {}, !.tail = {}]

\* _remove_untrusted_references: by their text, wherever it occurs.
Trusted(d, bad) ==
  LET hit == {v \in Pages : \E u \in bad : u = v \/ <<u, v>> \in Begins}
  IN  [d EXCEPT !.cites = @ \cap InLedger, !.links = (@ \ bad) \ hit,
                !.variants = (@ \ bad) \ hit, !.tail = (@ \ bad) \ hit]

\* A URL is taken to be in a text that holds a longer one.
InText(p, d) == \E v \in d.links \cup d.tail : v = p \/ <<p, v>> \in Begins

\* _required_source_list
SourceList(d, cited) ==
  LET chosen == IF cited = {} THEN InLedger ELSE cited
      pages == chosen \cap Pages
  IN  IF pages # {} /\ \A p \in pages : InText(p, d) THEN {}
      ELSE IF PagesInLedger = {} /\ NeedsCitations THEN chosen ELSE pages

Cards  == {r.tool : r \in {s \in ToSet(results) : s.card /\ s.ok}}

\* prepare_answer_for_delivery: cards take the place of the text, blocks go before it.
Prepared(d) ==
  LET bad == Unprovenanced(d)
      safe == IF InLedger = {} THEN Displayed(d) ELSE Trusted(Displayed(d), bad)
      list == IF InLedger # {} /\ style.cited THEN SourceList(safe, d.cites \cap InLedger) ELSE {}
  IN  IF Cards # {} THEN [NoReply EXCEPT !.cards = Cards, !.blocks = Blocks(results)]
      ELSE [NoReply EXCEPT !.cites = safe.cites, !.links = References(safe), !.listed = list,
                           !.blocks = Blocks(results), !.text = TRUE]

DeliverAnswer ==
  /\ writing \in {"accepted", "continued"} /\ writing' = "delivered"
  /\ reply' = Prepared(draft)
  /\ UNCHANGED <<style, results, guided, told, batches, draft, repairs>>

EvidenceNext ==
  \/ (\E b \in ToolBatches, whole \in BOOLEAN : TakeBatch(b, whole))
  \/ (\E d \in Drafts, tools \in SUBSET {"quote", "web"} : WriteDraft(d, tools))
  \/ (\E d \in Drafts : WriteFinal(d) \/ Continue(d))
  \/ DeliverAnswer

EvidenceSpec == EvidenceInit /\ [][EvidenceNext]_evidenceVars

------------------------------------------------------------------------------
(* Properties                                                              *)

EvidenceTypeOK ==
  /\ style \in Styles /\ batches \in 0 .. MaxBatches
  /\ DOMAIN guided = DOMAIN told /\ repairs \in {0, 1} /\ Cardinality(Ledger) <= LedgerLimit
  /\ writing \in {"working", "accepted", "continued", "delivered"}

\* The ledger holds, of each source, what the most precise result says, the latest of
\* these, and as long as there is room it holds all that succeeded.
LedgerIsBest ==
  LET naming(p) == {n \in DOMAIN results : /\ results[n].ok /\ ~ results[n].card
                                            /\ p \in ToSet(NamedBy(results[n]))}
      all == {p \in Pages \cup {results[n].tool : n \in DOMAIN results} : naming(p) # {}}
      size(n) == Len(NamedBy(results[n]))
  IN  /\ \A c \in Ledger :
           /\ c.from \in naming(c.page)
           /\ \A n \in naming(c.page) : size(c.from) <= size(n)
           /\ \A n \in naming(c.page) : size(n) = size(c.from) => n <= c.from
      /\ Cardinality(all) <= LedgerLimit => InLedger = all

\* What the model has been told of can still be cited when later results come in,
\* while there is room, and it is told of a source no more often than results name it.
GuidanceStands ==
  /\ Cardinality(DOMAIN BestNamed(results)) <= LedgerLimit => DOMAIN guided \subseteq InLedger
  /\ \A p \in DOMAIN told :
       told[p] <= Cardinality({n \in DOMAIN results : p \in ToSet(NamedBy(results[n]))})

\* Where tools found anything, nothing is delivered that none of them named.
NothingInvented ==
  writing = "delivered" /\ InLedger # {} => reply.cites \cup reply.links \cup reply.listed \subseteq InLedger

\* Where tools found anything, a citation comes with its source, and a text that
\* cites no other result names one of the pages there are.  A page whose URL begins that
\* of another is taken to be named with it.
CitationsAreSourced ==
  reply.text /\ style.cited /\ InLedger # {} =>
    /\ \A p \in reply.cites \cap Pages :
         p \in reply.links \cup reply.listed \/ \E v \in reply.links : <<p, v>> \in Begins
    /\ PagesInLedger # {} /\ reply.cites \subseteq Pages => reply.links \cup reply.listed # {}

\* Without citations the model's own bookkeeping is not shown.
InternalStaysInternal == ~ style.cited => reply.cites = {} /\ reply.listed = {}

\* What the model left out is delivered all the same: the cards to be confirmed and
\* the blocks of the server; only a run that such a block ends delivers no card.
NothingWithheld ==
  writing = "delivered" =>
    reply.blocks = Blocks(results) /\ (reply.cards = Cards \/ reply.rendered)

EvidenceInv ==
  /\ EvidenceTypeOK /\ LedgerIsBest /\ GuidanceStands /\ NothingInvented /\ CitationsAreSourced
  /\ InternalStaysInternal /\ NothingWithheld
==============================================================================
