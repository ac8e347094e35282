------------------------------ MODULE MCServices ------------------------------
(* Instances of the services for TLC. *)
EXTENDS Services, MCMemoryRepair

Hit(u, s) == [url |-> u, snippet |-> s]
Room(beside, alone) == [beside |-> beside, alone |-> alone]

\* A page without an excerpt; a page that one search gives with and another
\* without its excerpt, beside a second one; that second one alone.
MCResults ==
  {{Hit("a", TRUE)}, {Hit("a", FALSE), Hit("b", TRUE)}, {Hit("b", FALSE)}}
\* Room for all, for all but the summary, for nothing.
MCRooms == {Room(2, 2), Room(1, 2), Room(0, 0)}

\* A broken deployment outlasts a busy model; the caller's own error cools nothing.
MCCoolsFor == ("deployment" :> 2) @@ ("rate_limit" :> 1) @@ ("invalid_request" :> 0)

\* Both answers are for one user.
MCAskedBy == <<"u1", "u1">>

\* Two reports share a message, a third is too old to keep.
LegacyRow(s, ms, new) == [source |-> s, messages |-> ms, fresh |-> new]
MCLegacyRows == {LegacyRow("s1", {"m1"}, TRUE), LegacyRow("s2", {"m1", "m2"}, TRUE),
                 LegacyRow("s3", {"m3"}, FALSE)}
Nobody == [m \in {"m1", "m2", "m3"} |-> "none"]
Aged(ms, cs, of) == [marks |-> ms, columns |-> cs, owner |-> of]
\* Before any migration, created by a new version that was not marked, between the
\* two migrations, and with a message that has an owner.
MCAges == {Aged({}, {}, Nobody), Aged({}, {"legacy", "watchlist"}, Nobody),
           Aged({"legacy"}, {"legacy"}, Nobody),
           Aged({}, {"legacy"}, [Nobody EXCEPT !["m2"] = "s2"])}

\* The asker's own rows, and two of another: of this guild and of another one.
MCNoteOwner == ("k1" :> "ann") @@ ("k2" :> "ann") @@ ("k3" :> "bob") @@ ("k4" :> "bob")
MCNoteHere == ("k1" :> TRUE) @@ ("k2" :> TRUE) @@ ("k3" :> TRUE) @@ ("k4" :> FALSE)
MCNoteKind == ("k1" :> "summary") @@ ("k2" :> "summary") @@ ("k3" :> "fact") @@ ("k4" :> "fact")
MCNoteKey == [n \in {"k1", "k2", "k3", "k4"} |-> n]
MCKindCap == ("summary" :> 1) @@ ("fact" :> 2)

\* Six messages of three places, one of them of another guild; the question answers
\* a reply and links to a place its author may not see.
MCPlaceOf == <<"home", "home", "home", "there", "there", "foreign", "home">>
MCReplyTo == <<0, 1, 0, 0, 0, 0, 2>>
MCLinksIn == <<<<>>, <<5>>, <<>>, <<>>, <<>>, <<>>, <<6, 4>>>>
MCCachedSets == {{}, {2, 3, 4}, {1, 2, 3, 4, 5}}

\* Both prices, the regular one, no page, a read that fails in an unforeseen way.
QuotePage(e, r) == [got |-> "page", ext |-> e, regular |-> r]
MCPagesSeen == {NoPage, QuotePage(TRUE, TRUE), QuotePage(FALSE, TRUE), [NoPage EXCEPT !.got = "broken"]}
\* Quotes with and without a key or the second provider, reports of three sessions.
Want(how, session, keyed, yahoo, c) ==
  [how |-> how, session |-> session, keyed |-> keyed, yahoo |-> yahoo, chart |-> c]
MCCases ==
  {Want("quote", "latest", TRUE, TRUE, "none"), Want("quote", "latest", FALSE, TRUE, "series"),
   Want("quote", "latest", TRUE, FALSE, "extrema"), Want("report", "latest", TRUE, TRUE, "none"),
   Want("report", "post", TRUE, TRUE, "none"), Want("report", "regular", FALSE, TRUE, "extrema")}

\* A broad search, a page read alone, a later search that names it again beside a failed
\* one, quotes with a card to confirm, a report that is the answer.
ToolResult(t, p, precise) ==
  [tool |-> t, ok |-> TRUE, pages |-> p, precise |-> precise, card |-> FALSE, block |-> FALSE,
   last |-> FALSE, quoted |-> {}]
CardResult == [ToolResult("propose", <<>>, FALSE) EXCEPT !.card = TRUE]
ReportResult == [ToolResult("market_report", <<>>, FALSE) EXCEPT !.block = TRUE, !.last = TRUE]
QuoteResult == [ToolResult("quote", <<>>, TRUE) EXCEPT !.quoted = {"s", "t"}]
MCBatches ==
  {<<ToolResult("web", <<"a", "b">>, FALSE)>>, <<ToolResult("extract", <<"a">>, TRUE)>>,
   <<ToolResult("find", <<"c", "a">>, FALSE), [ToolResult("web2", <<"b">>, FALSE) EXCEPT !.ok = FALSE]>>,
   <<QuoteResult, CardResult>>, <<ReportResult>>}
DraftOf(c, l, v, t) == [cites |-> c, links |-> l, variants |-> v, tail |-> t, mentions |-> {}]
\* No reference; a citation alone; invented ones; a list with one; a URL in two spellings.
MCDrafts == {DraftOf({}, {}, {}, {}), DraftOf({"a"}, {}, {}, {}), DraftOf({"quote", "fake"}, {"fake"}, {}, {}),
             [DraftOf({}, {"c"}, {}, {"a", "fake"}) EXCEPT !.mentions = {"s", "t"}], DraftOf({"a"}, {}, {"b"}, {"b"})}
\* Quotes that are required, of which the request names one; a price that it asks for.
Style(c, d, required, asks, priced) ==
  [cited |-> c, deep |-> d, required |-> required, asks |-> asks, priced |-> priced]
MCStyles == UNION {{Style(c, d, {"s", "t"}, {"s"}, FALSE), Style(c, d, {}, {"s", "t"}, TRUE)} :
                     c \in BOOLEAN, d \in BOOLEAN}
\* The URL of one page begins that of another.
MCBegins == {<<"a", "b">>}

\* A case with results for the same call twice and for one that no call asks, a live case
\* whose tools may be missing or late, a case with a tool that is not to be used; calls
\* that differ in writing only.
Frozen(t, a, status) == [tool |-> t, args |-> a, status |-> status]
BenchCase(kept, need, never) ==
  [live |-> FALSE, frozen |-> kept, need |-> need, tried |-> {}, any |-> {}, never |-> never,
   limit |-> 1]
MCBenchCases ==
  <<[BenchCase(<<Frozen("quote", "x", "ok"), Frozen("quote", "x", "empty"), Frozen("web", "x", "ok")>>,
               {"quote"}, {}) EXCEPT !.tried = {"web"}, !.limit = 2],
    [BenchCase(<<>>, {"quote"}, {}) EXCEPT !.live = TRUE, !.any = {"web", "quote"}],
    BenchCase(<<Frozen("quote", "x", "ok")>>, {}, {"web"})>>
CallForm(t, a, form) == [tool |-> t, args |-> a, spelling |-> form]
MCCallForms == {CallForm("quote", "x", 1), CallForm("quote", "x", 2), CallForm("web", "y", 1)}
MCSelected == {{1, 3}, {2}}
MCToolSets == {{}, {"web"}, {"web", "quote"}}
=============================================================================
