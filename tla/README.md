# A TLA+ model of Nycticorax

Nycti is a Discord bot: people address it in a server, an agent loop answers
with a language model and a set of tools, and what it proposes to *do* is done
only after a person confirms it.  It is one Python process with one asyncio
event loop, a SQL database (SQLite or PostgreSQL) and a few remote services.
The hard part of the program is not an algorithm: it is what happens between two
awaits.  Several requests, background workers, timeouts, cancellations and
restarts meet in the same counters, tables and in-memory registries.

This directory models those parts as state machines, checks them with TLC on
small instances, and proves the most important properties with TLAPS for every
value of the constants.  `PROJECT.json` is the machine-readable index: runs,
mutants, the source lines behind every definition, hazards and theorems.

## Inventory

Paths are relative to `src/nycti/` of the repository.  "partly" and "not" say how much is
modelled; `PROJECT.json` has a note on each.

| Component | State | Operations | What is hard | What makes it correct |
|---|---|---|---|---|
| Daily token quota (`llm/token_quota.py`, `quota_execution.py`) | a counter row per model and UTC day (consumed, reserved, exhausted); a row per reservation | route/reserve, settle, release, charge_uncertain, mark_exhausted | concurrent reservations, the first row of a day, ambiguous failures, cancellation, commit errors, crashes, midnight | the day's use stays within the limit; counters equal rows; each reservation gets one verdict, the right one |
| Model client, failover (`llm/client.py`, `provider_policy.py`; partly) | cooldown table, attempts of a call | complete with failover, classify, mark and clear cooldowns | calls that began before a model broke; two providers in one list of attempts | a broken deployment rests; the attempts tell what was asked |
| Confirmed actions (`chat/action_confirmation.py`, `chat/tools/actions.py`, `discord/actions.py`) | proposals, capabilities, send_once claims, reminders | propose, confirm, consume, execute | double confirms, expiry, the 15 s timeout at any await, permissions that change, crashes | at most once, by the requester, in time, with permission |
| Agent run (`chat/orchestrator.py`, `tool_flow.py`, `tool_budget.py`, `tool_runner.py`, `finalization.py`, `model_runner.py`, `run_state.py`) | turns, cost, corrections, seen signatures, the open batch, stop reason | model turn, select and run tools, correct, finalize, continue | one deadline over loop and tools, partial results, repeated calls | bounded, every call answered once, nothing repeated, always an answer |
| Evidence and citations (`chat/evidence.py`, `chat/evidence_enforcement.py`) | ledger, what was guided, repairs, the delivered references | ingest a batch, guide, audit, repair, enforce, deliver | a source named again with less; two spellings; a repair that may not come | nothing invented, nothing withheld, citations come with their source |
| Deep research (`chat/deep_research.py`) | queries, hits, extracts, outcomes under one deadline | plan, search, extract, reduce, render | any member of any gather may fail or be cut | summaries cite what stands beside them; failure is told from emptiness |
| Market quotes and history (`twelvedata/`, `yahoo/`, `chat/tools/market*.py`, `history.py`) | metered client's lock and cooldown, quote-page cache, one lookup per instrument | quote, report, history | two providers answer at different times; one credit budget for all tools | one refusal per rest, a known price is told, the status is true |
| Background worker (`background_worker.py`) | queue, one consumer task, counter, closed flag | start, submit, run, drain, close | closing while jobs are submitted or running | the counter fits the jobs; a drain loses nothing it accepted |
| Memory writer and service (`memory/`; partly) | memories, embeddings, snapshots, opt-in flags | extract, store, replace, share, forget, embed, consolidate, rebuild, repair | everything read before a model call is stale after it | opt-out holds; no stale write wins; only permitted eyes |
| Answer context (`chat/context.py`, `context_session.py`, `memory/retriever.py`; partly) | the rows chosen, costs to book | prepare (two sessions around an embedding), search | owners opt out, hide and forget between the two | what was withdrawn is not quoted |
| Message context (`message_context.py`, `message_context_source.py`) | history, reply chain, linked messages, neighbours, lines | collect, follow, compose | failing reads, deletions, caches, links across channels | only what the asker may see; limits kept |
| Member names (`member_aliases.py`; partly) | recorded names, recalled signature | remember | several handlers of one member | what is recalled is recorded |
| Procedure learning (`procedures/`; partly) | learned recipes, a cache of a minute | record, reinforce, demote, prune, retrieve | a retrieval that read before a demotion refills the cache | what was found bad is not taught again |
| Reminders (`reminders/service.py`, `bot.py`) | rows with remind_at, delivered_at | create, list due, deliver, mark, delete, prune | delivery before commit, 25 oldest first, deletion during delivery | delivered; not twice without a failure |
| Request pipeline (`discord/message_pipeline.py`, `request_control.py`, `discord/progress.py`, `reply_delivery.py`) | one active task per channel and user, the progress message | check, register, cancel, answer, clean up | awaits between check and registration; edits in flight; cooldowns | a running request can be cancelled; the answer stays; nothing left behind |
| Discord circuit breaker (`discord/rate_limits.py`) | blocked-until time | record, is_open | shared by every sender | no new request while it is open |
| Emoji pool and imports (`discord/emoji_pool.py`, `emoji_import.py`, `emoji_catalog.py`) | the server's emojis, the ledger of slots and imports, flags | consider, download, delete, reserve, create, finish, record; import | upload and record are two stores; administrators in between | within the limit, no copy without a lost upload, protected emojis spared |
| Emoji learning (`emoji_learning.py`, `emoji_backfill.py`; partly) | uses, assessments, meanings in one document | observe, assess, backfill, override, forget | live worker, backfill and commands update one document | no use counted twice, assessments bounded, what is forgotten stays so |
| Feedback (`feedback.py`; partly) | recent answers, snapshots, archive | capture, complain, archive, demote | overlapping complaints, restarts | one archive and demotion per answer, only recent ones |
| Bot lifecycle (`bot.py`, `main.py`) | its tasks | setup_hook, retries, on_ready, close, changelog | order of start and stop; failures in between | one bot at a time, nothing left, telemetry drained |
| Database schema, backup, transfer (`db/`) | marks and columns; bucket of backups; id high-water marks | migrate, upload, verify, prune, copy, publish | two starters, an old version that still writes, a manual run beside the worker | nothing vanishes, ids keep their meaning, a good backup stays |
| Live benchmarks (`live_benchmarks.py`, `discord/live_benchmarks.py`; partly) | suite lock, registry entry, attempts, histories | start, run a case, grade, save, cancel, compare | a chat request that starts meanwhile; cancel during a save; providers that fail under a model that does not | what is completed is stored, histories are apart, it gives way; grades follow what the tools delivered |
| Answer plan, tool eligibility; memory extraction; other web clients; Discord commands; Python sandbox (not) | none, or caches | requests, prompts and formatting | remote failures | left aside, see "Not modelled" |

How they interact: `discord/message_pipeline.py` collects context (messages, memories,
names) and starts one task per (channel, user) that calls the orchestrator; the
orchestrator calls the model client (which calls the quota around every metered inference)
and the tool runner; tools read remote services, run a deep research, or create a proposal
in the store that a later `/confirm` executes; a draft is checked against the evidence
before it is delivered; when the answer is delivered, jobs are handed to the background
workers and the answer is kept for feedback.  A poll loop delivers reminders.  Benchmarks use
the same registry of active requests as people do.

## Modules

| Module | Models | Checked by | Proved in |
|---|---|---|---|
| `TokenTotals` | a sum of tokens over calls, as the number of elements of a set of tokens | extended by the next two | `TokenQuotaProofs` |
| `QuotaLedger` | the abstract promise of the quota: one grant per call, within the limit, closed once, at no more than was granted | as `ImplementsLedger` | refined by `TokenQuota` in `TokenQuotaProofs` |
| `TokenQuota` | the quota's transactions and the code that drives them | `quota_safety`, `quota_cross_release`, `quota_untried_charge` | `TokenQuotaProofs` |
| `ActionConfirmation` | the proposal store, `/confirm`, the executor | `confirmation` | `ActionConfirmationProofs` |
| `AgentRun` | one run of the agent loop | `agent_run`, `invalid_research` | `AgentRunProofs` |
| `Reminders` | the table, the poll loop that delivers, `/forget_reminder`, retention | `reminders` | `RemindersProofs` |
| `RequestPipeline` | message handler, registry and `/cancel`, progress bar, delivery | `request_pipeline`, `request_collision` | `RequestPipelineProofs` |
| `BackgroundWorker` | the bounded queue with one consumer | extended by `MemoryWriter`, instantiated by `BotLifecycle` | with these |
| `MemoryStore`, `MemoryWriter` | durable memory between transactions; the writer's job beside commands and maintenance | `background` | `BackgroundProofs` |
| `BenchmarkSuite` | `/benchmark suite` beside requests and cancels | `background` | `BackgroundProofs` |
| `QuotePageCache` | the single-flight cache of quote pages | `background` | `BackgroundProofs` |
| `Background` | the last three as alternatives of one run | `background` | `BackgroundProofs` |
| `DeepResearch` | how a research call plans, searches, extracts and reduces | `services` | `ServicesProofs` |
| `Evidence` | what an answer may refer to, and what of it may be delivered | `services` | `KnowledgeProofs` |
| `MarketQuotes` | prices and histories from two providers | `services` | `KnowledgeProofs` |
| `AnswerContext`, `MessageContext`, `MemberNames` | what the model is shown of people and messages | `services` | `KnowledgeProofs` |
| `ModelClient` | cooldowns and failover of the model client | `services` | `ServicesProofs` |
| `ProcedureLearning`, `EmojiLearning` | what is learnt, and unlearnt | `services` | `KnowledgeProofs` |
| `Feedback` | complaints, and what becomes of them | `services` | `ServicesProofs` |
| `EmojiPool` | pool, rotation and import of emojis | `services` | `KnowledgeProofs` |
| `BotLifecycle` | start, stop, retries, changelog, telemetry | `services` | `ServicesProofs` |
| `SchemaMigration`, `BackupArchive`, `DatabaseTransfer` | what may happen to the database file | `services` | `ServicesProofs` |
| `MemoryRepair` | the daily repair of memories that earlier versions wrote | `services`, `repair_twice` | `ServicesProofs` |
| `BenchmarkVerdict` | frozen tool results, grades and the comparison with a baseline | `services` | `ServicesProofs` |
| `Services` | the last seventeen as alternatives of one run | `services` | `ServicesProofs` |
| `MC...` | instances for TLC: constants only, and symmetry for `confirmation` | | |

Each module ends with its properties.  Definitions whose comment begins with
"Mutant:" are not part of the model: they are plausible bugs of the code next to
the definition they would replace, and show that a property can fail.  `PROJECT.json` lists
one per property of a run; the others break a conjunct of a merged property, which is named
in the comment of the run's property (`BehindInv`, `DatabaseInv` and so on).

`Background` and `Services` put modules that share no state side by side: which part moves
is chosen in the initial state (`turn`, `moving`), the other parts stay where they begin,
and `Of(part, inv)` asks for a part's invariant where the part moves.  The states are the
sum of those of the parts, not the product, nothing is lost because no part reads another's
variables, and one run answers for all.  TLC reports a part's steps as one action; every
part was also run alone when it was written, where each of its actions fires.

### TokenQuota

One call is one inference of the metered model, from `route` to its verdict.
`counters`, `consumed`, `reserved`, `exhausted` are the columns of
`DailyModelTokenCounter`; `status` and `charged` those of `ModelTokenReservation`;
`pc`, `tokens`, `day`, `attempt` and `prior` are the local variables of the
coroutine.  `spent` and `tried` are ghosts: what the provider really did.
A committed transaction is one step (`Finalized`, `MarkExhausted`).  `_reserve` is
three (`ReserveUpdate`, `ReserveInspect`, `ReserveInsert`), because under READ
COMMITTED another transaction may commit between its statements; the UPDATE itself
is atomic because it locks the row.  At any of its awaits a transaction may be cut
short, by an exception or by a cancellation (`/cancel`, the `wait_for` of the turn),
before its commit or after it: `ReserveCutShort` and `FinalizeCutShort`, as often as there
are calls.  `_finalize` catches `Exception` only, so that a `CancelledError` passes through
it, and nothing reads `expires_at`: the row may stay active, and its capacity is
withheld until the day ends.  `Cancelled` is the cancellation while a provider is asked,
which the code handles as a transient error.  `Backed` are the calls whose feature a
second provider may answer (client.py:572-583).  Assumed of the provider: a request uses at
most the conservative estimate that was reserved for it, it reports what it used, and an
error of a definite kind means that no inference ran.

`Misjudged` are the calls for which the code breaks its own promise (the finding
`quota_cross_release`): released although the metered model had failed ambiguously before
the second provider was asked.  `OnlyMisjudgedAreOwed` and `SpendWithinLimit` except exactly
these, and `EveryReservationCloses` exactly the calls that a cut transaction or the
death of the process ended (`pc` is `cut` or `lost`); `NothingLeftBehind` says that no
other call that is over leaves capacity withheld.

### ActionConfirmation

Every method of the store holds its lock and contains no await, so it is one
step, the sweep of expired entries (`LivePending`, `LiveCapabilities`) included.
The executor is one step per await: `Check`, `Authorize`, `Claim`, `Send` or
`CreateReminder`.  `Timeout` is the `wait_for` around it: it strikes at whichever
await has been reached, whose request may or may not take effect.  `Crash` loses
what is in memory and keeps rows, claims and messages.  Discord's permissions are
an environment that changes at any time.  A capability has no name of its own: it
is named by the `/confirm` that minted it.  Proposal ids are random and never
reused, which the model takes as given.

### AgentRun

`pc` is the await at which `run_chat_with_tools` is suspended, or the branch it is
about to take.  A tool call is its signature, so that "the same call" is equality;
tools differ only where the code treats them differently (watchlist edit, report,
deep research, channel context, any other).  The model may answer a turn in any
way, tools may succeed, fail, or take for ever; the clock stands for the
work deadline (`WorkEnd`) and the end of the finalization reserve (`RunEnd`).  A
run may begin late, because the request's context is collected first.
Call ids within a turn are taken to be distinct.  Left out: the text of
prompts and answers, evidence, usage records and metrics.

### Reminders

Reminders are numbered in the order in which they are due.  `row` is what is
committed, `marked` what the dispatcher's open session has flushed; `batch` is what
is left of `due_reminders`, and `poller` the await at which the loop is: sending
(`delivering`), flushing the mark (`marking`), retention, or sleeping.  Discord may
refuse a message, take it and answer with an error, or fail with an exception the
code does not catch there, which rolls back the marks of the whole batch (`Abort`).
`single` says that the database is an SQLite file, whose pool has one connection:
then nobody else gets a session while the dispatcher waits for Discord
(`ConnectionFree`).  `faults` is a ghost that counts the failures that lose a mark.
Retention may remove any delivered row, whatever its age.

### RequestPipeline

Each message has a handler (`pc`), a worker that owns the progress bar (`worker`)
and, once registered, a task that stands for a run of `AgentRun`.  `registry` is
`ActiveRequestRegistry._tasks`; `stopped`, `resolved`, `posted` and `cleanup` are the
messages for which the attribute of `DiscordResponseProgress` of that name is set;
`bar` and `told` are what people see.  A handler reads the registry in `Check` and
writes it in `Register`, two awaits later.  `claim` and `discard` wait for the worker,
which may be in the middle of a request.  `blocked` is the circuit breaker all
requests share; `RateLimited` opens it, `Fails` is a failure of another kind.  The
typing indicator matters only as the first request that may meet a 429.  Left out:
recording members, emojis and diagnostics, and the benchmark suites that use the
same registry.

### MemoryStore and MemoryWriter, with BackgroundWorker

`rows` is the table of memories, `snapshot` the rows a scope's block is built of, `enabled`
the opt-in flag; `queue`, `holding`, `task`, `closing`, `unfinished` are the worker's, `step`
is the await its job has reached with all it read before it.  A job is a chain of short
transactions (`StoreAll`, the attachment of an embedding, the application of a
consolidation, the rebuild of snapshots) with the answer of a model between them; the
commands of `/memory` and the daily maintenance commit in between.  A summary is the value
it states and its wording, so that two wordings of one fact are duplicates and a reworded
row makes an embedding stale.  Left out: ranking, tags, confidence, temporary memories, profile
commands; the repair pass of `maintenance.py` is `MemoryRepair`.  What the model shows and nobody
promised otherwise: deleting a private memory of another guild rebuilds only its own
scope, so a snapshot may show it until the next rebuild or daily refresh (README.md:208,
:532-533); `ForgottenFades` is the promise that it goes.

### BenchmarkSuite

`command` is where each `/benchmark suite` is, `lock` who holds the suite lock, `active` the
user's entry of the request registry, `suite` the run itself and `saved` what is stored.
Cases run in the order of the manifest, the attempts of one turn before the next turn.  A
chat request may register while a command waits for Discord; `/cancel` strikes at any await,
a save under way is shielded (`OnCancel`).  What an attempt answers is `BenchmarkVerdict`'s.

### QuotePageCache

A reader takes a cached value, joins the load under way, starts one, or waits for room; a load
is the time it began.  A reader that leaves does not take the load with it
(`asyncio.shield`).  The cache's order is least recently used first.

### DeepResearch

A stage is one action: planner, searches, extraction, reduction, answer; its members run
side by side and each may fail, time out or come too late for the deadline all share.  A
hit is a URL with or without an excerpt, a source the place of its hit in the ranking, a summary
the set of the sources it cites.  The model
shows two things that nothing promises otherwise: three or more good outcomes can cut a
cited block off, and "empty" is said although every extract failed.

### Evidence

`results` are the tool results of the run, `guided` and `told` what the model has been told
of, `repairs` the one repair, `reply` the references of the delivered text; `style` is what is fixed
in a run: the mode, the profile, the quotes the request needs, the names it asks about, whether its prices are to be
verified.  A draft is checked with the tools that the budget left (`tools`): what it must quote or
verify is demanded only while that tool can be had, and coverage only of what the request names.  `Ledger` is a
function of the results, as in the code.  Text is the set of its references; a URL that
begins another (`Begins`) is the only thing of its letters that matters.  The model shows:
with an empty ledger nothing is audited; where only a tool result is cited no source list is
added though pages are known; `append_authoritative_action_cards` replaces the whole text
by the cards; a run that a server-rendered block ends delivers no card of an earlier
proposal; an invented URL that begins a good one takes it along; the heading "Sources" cuts
everything after it off in the internal mode.

### MarketQuotes

`inLine` is the queue at the metered client's lock, `refusals` when it was refused, `desk` one
lookup per instrument of a quote or report with what either provider said, `chart` the price
history.  An exception that nobody announces (`broken`) fails a quote call while its
siblings run on.  A report's patience or a cut tool abandons a request under way: the lock
is freed and the abandoned refusal is recorded nowhere.

### AnswerContext, MessageContext, MemberNames

`AnswerContext`: `prep` is the preparation between its two transactions, `note` how each row may
be seen and by whom, `remembers` who has memory on.  With one connection nobody writes while
a transaction is open, with a pool anybody may (`Stir`).  Any order of the rows found may be
the ranking.  An embedding computed for a person who opts out meanwhile is neither used nor
booked; on PostgreSQL two first requests of a user collide on the settings row.
`MessageContext`: `collect` gathers history, reply chain, links and neighbours, `lines` is what
is composed of them; messages are deleted and permissions given while reads are out.  A reply
keeps quoting a deleted message through its own copy (`DeletedStaysOut` excepts it).
`MemberNames`: handlers of one member's messages compare with what the process recalls and
write; on a pool overlapping writers may leave row and signature different, which
`RecalledIsRecorded` excepts.

### ModelClient

`until` is `_unhealthy_chat_models_until`, `call` one completion with its plan of models and
attempts over two providers, `broken` a ghost: the last deployment error of a model and the
calls that were under way then.  Such a call may overwrite or lift the cooldown, the table
keeps the last word; nobody else does (`CooldownKept`).

### ProcedureLearning, EmojiLearning, Feedback

`ProcedureLearning`: rows, the retrieval cache with its minute, retrievals in flight, the learner,
demotions from feedback; the pool has one or two connections.  On PostgreSQL a retrieval that
read before a demotion can refill the cache for another minute, and concurrent
reinforcements can lose an update.
`EmojiLearning`: `learned` is the copy in memory and `written` the document; the live worker, the
backfill and administrators update it under the catalog's lock, a commit whose answer is
lost leaves the copy behind.  A later backfill replaces `history_uses`
(emoji_backfill.py:127, :135), an inferred meaning can push out a manual one when there are
more than 200, and a backfill interrupted within its hour waits for the next on_ready.
`Feedback`: the answers kept in memory and in the database, complaints in every phase, the
archive, demotions.  Two overlapping reports of one answer demote twice, and on a pool may
archive it twice.

### EmojiPool

`server` and the ledger (`managed`, `imports`) are two stores; `pool` and `import` are the tasks
and hold one lock from the look at the guild to the record.  `lost` are uploads whose id was
never recorded: a request that failed after it took effect, a timeout, a crash.  The model
shows: an emoji renamed while a candidate is downloaded is deleted all the same
(README.md:241 says renamed ones are kept); a slot whose upload was lost is never freed; a
pool emoji deleted by hand stays in the ledger as the least popular victim.

### BotLifecycle

`main.run` starts bots one after the other, `SetupOrder` and `CloseOrder` are the orders of
`setup_hook` and `close`; `alive` are the tasks of every bot of the process.  The telemetry
writer is an `INSTANCE` of `BackgroundWorker` that drains.  `close` awaits the failed changelog
task and suppresses only its cancellation, so that a failed announcement makes it raise before
the rest is stopped (bot.py:322-336); the invariants except that case by name
(`reason # "raised"`), and `late` is an on_ready that was under way during close.

### SchemaMigration, BackupArchive, DatabaseTransfer

`SchemaMigration`: two processes start on a database of any age while the old version still
writes; a start is one transaction, what collides fails and is started again.  Rows the old
version writes after the migration's read stay in app_state.
`BackupArchive`: the worker of the bot and an operator upload, verify, mark and prune; the
connection may fail before or after a request took effect; a manual run is assumed to take at
most a day.
`DatabaseTransfer`: a copy is made of a database in use or frozen, compared and published; an old
table without AUTOINCREMENT may reuse ids, and `NamesStay` excepts it.

### MemoryRepair

`memories` is the table as an earlier version or a person left it, `repair` one pass of the daily
maintenance between its await points: scrub what is sensitive, turn legacy lists into one shared
row per symbol, share what is market configuration.  A row is its visibility, key and symbol,
what it mentions (`says`), and where something sensitive stands (`secret`).  Between two
passes owners edit, hide and forget rows (`MaxEdits`).  A pass is not idempotent, though
maintenance.py:66 says so (`repair_twice`): a sensitive list is deleted but stays in the pass's own
list, and its symbols' new shared rows copy its excerpt.  What does hold: only such handed-down
excerpts are left (`OnlyHandedDown`), the pass after it leaves nothing sensitive, and the one after that
changes nothing (`SettlesInTwo`).  Other things the model shows: a private "Follows X" row whose message said "add" or "track" is shared with the
guild by the next pass, and again after its owner hid it (maintenance.py:93-104, against
README.md:267); a deleted or private row of a symbol counts as existing, so that a list can be
retired without a row in its place.

### BenchmarkVerdict

`run` is the attempt under way with the frozen results that are left (`left`) and the calls made (`log`),
`last` the attempt just graded, `grades` the suite so far, `basis` the grades a baseline was
written from.  The text checks of an answer are one Boolean, a call is a tool, its arguments and its
spelling.  The model shows: an answer that ends as a fallback because the model sent nothing
or raw output is graded ERROR, as if its provider had failed; and one price history of an
unknown symbol makes the whole attempt an ERROR, because the last status of a tool stands for all
of its calls.  Only the command skips cases for want of tools, and only the script
compares, so no skipped case enters a comparison.

## Runs, bounds and what they show

| Run | Instance | Shows |
|---|---|---|
| `quota_safety` | 2 calls, one of which a second provider may answer, limit 4, estimates 2, 3 and 5, 2 days, transactions cut short at any time, 1 crash | the books balance, one verdict per reservation, the limit and every uncharged call but for the misjudged, a closed day stays closed, the transactions implement `QuotaLedger`, and what is not cut short is finalized |
| `quota_cross_release` | 2 calls, both with a second provider, 1 day | violated: a reservation is given back although tokens may have been spent |
| `quota_untried_charge` | 2 calls, no second provider, 1 day | violated: a call that was never sent is charged in full |
| `confirmation` | 2 users, 2 channels, 2 proposals, 2 confirms, at most 1 pending per user, 4 ticks, 1 crash | at most once, for the requester, in time, with permission, no eviction |
| `agent_run` | 8 signatures, 2 calls a turn, 3 turns, 9 cost units, 2 corrections, 1 continuation | nothing repeated, all answered, within budget and bounds, edits before reports, a final pass, termination |
| `invalid_research` | the same | violated: a malformed research call uses up the allowance |
| `reminders` | 3 reminders, batches of 2, at most 1 dead channel, 3 ticks, 1 failure, 1 crash, both kinds of pool | marks are never ahead of the channel, repetitions are paid for by failures, no starvation below the limit |
| `request_pipeline` | 2 messages of one author in one channel, 2 failures of Discord | cancellation, the final answer, the end of handlers and bars |
| `request_collision` | the same, no failure | violated: a second message is dropped without a word |
| `background` | memory: 2 users, 1 guild and direct messages, 5 rows, 2 predicates, 2 jobs, 1 disturbance; suites: 2 commands, 3 cases in 2 repeats, 2 cancels, 1 request; quotes: 2 readers, 2 symbols, a cache of 1 | opt-out, grounding, embeddings, snapshots; stored and separate attempts; bounded and fresh values; refreshes, locks and readers come to an end |
| `services` | two of everything that can collide, one mishap of each kind; see `Services.cfg` and `MCServices.tla` | the safety of the seventeen services; 1.6 million distinct states in one to three minutes |
| `repair_twice` | tables of up to three memories of eight kinds, no edits | violated: a second repair changes what the first one left |

Properties of one run that speak of one subject are merged, each conjunct a named and
commented definition of its module: `ConfirmationInv`, `RunInv`, `RemindersInv`, `RequestsAreSafe`,
`BooksBalance`, `VerdictsAreFinal`, `EffectsAreDue`, `StaysInBounds`, `BehindInv`, and the nine of
`services`.

Why the bounds are enough to be interesting: with limit 4, two
estimates of 2 fit exactly, one of 3 leaves no room for another, and one of 5 can never
fit; two calls are the winner and the loser of the insert race, and one of them reserves
while the other's day is closed; two days let a verdict come after midnight (a third call
shows no new kind of step, and the theorems are for any number).  With one pending card per user a second proposal is refused;
with a lifetime of 2 and a timeout of 1 in 4 ticks a proposal can expire before,
between and after a confirmation.  Nine cost units are two expensive calls and one
cheap one: the budget can be met exactly, exceeded within a batch and exhausted
between turns; three turns allow two corrections and a refused one.  Numbers are
scaled down from the code (45 s, 12 to 16 units, 6 turns and so on), the
comparisons are the same.  With
three reminders and batches of two, one reminder always waits for a later batch and a
dead channel can head the list; one failure and one crash together can repeat a
reminder twice.  Two messages are what it takes to compete for one entry of the
registry; two failures let the clean-up that follows a first one fail as well.
Five rows are enough for two facts and a third to be consolidated (`MinMemories` is 3) into a
summary, and for a replacement beside them; one disturbance is a command or a maintenance
pass between any two steps of a job, and two jobs let one fill the queue of one.  Three
cases are the two turns of a scenario with another case between them; two cancels are the one
that stops the suite and one that strikes during its last save.  A cache of one entry and two
symbols make a reader wait for room.  In `services` every timeout of a research stage is the
whole deadline, so that any stage can use it up; three models are a main one, its fallback
and a second provider's, two calls are one that is under way when a model breaks and one
that comes later; three uploads are an import, a pool emoji and its replacement by rotation;
two complaints are two reports that overlap; two starters are two processes that migrate at
once; six hours with a day of two and a retention of three let a backup be made, fail, be made
again and pruned; the messages of three places, one of them a foreign guild, with a reply and
two links are what it takes to ask for too much; two instruments and one chart share the
metered line; tables of three memories of eight kinds, an edit between two passes; a benchmark case
with two results for one call, one that needs live tools and one with a tool that is not to be used.  Symmetry is used in `confirmation` only, a safety run.

Fairness.  `TokenQuota!FairSpec`: weak fairness of what each call does by itself (`Progress`).  A
coroutine that can run is run by the event loop, and every provider request has a
timeout; nobody has to cancel it or cut its transactions short.
`AgentRun!FairSpec`: weak fairness of what the event loop and its timers owe the
run.  The model and the tools owe it nothing: they may stay silent until the
deadline.  `Reminders!FairSpec`: weak fairness of the poll loop as a whole, of a restart, of the
breaker's cooling down and of a deletion that has begun; nobody has to create or
delete anything and time need not pass.  `RequestPipeline!FairSpec`: weak fairness of
each handler, worker, task and clean-up and of cooling down: every request of the
worker has a timeout, discord.py's own requests end, and a task ends because agent
runs do (`AgentRun!Terminates`).  `BackgroundSpec`: weak fairness of the daily refresh
(`Refreshes`; a loop of the bot), of a suite's own steps (`SuiteProgress`; its attempts and saves
end, people need not cancel), and of each load's end and each reader's next look (a read
of the network has a timeout).  A part that does not move owes nothing.  No strong fairness is
used.  Where the clock is modelled, it does not pass a timer that is due, as on one event loop.

Deadlock is checked in every run but `background` and `services`: their parts are bounded in jobs,
uploads, faults and hours, and a part that has used up its bounds is over.  In the other runs a
state in which everything is over has an explicit stuttering step (`Finished`, `Terminated`),
`ActionConfirmation` keeps a last step (permissions may always change), and the loop of
`Reminders` never ends.

### Disagreements found

* `quota_cross_release`: `_handle_failed_reserved_call` judges by the last
  exception only.  An ambiguous failure of the metered model followed by, say, an
  authentication error of the second provider releases the reservation, against the
  docstring of `release`.  For every other call the property holds (`OnlyMisjudgedAreOwed` in
  `quota_safety`) and is proved (`ReleaseIsSound`).
* `quota_untried_charge`: a model in the client's cooldown costs the full
  estimate of every call routed to it, though nothing is sent.
* `invalid_research`: nothing in production reports the statuses that would
  exempt an invalid deep-research call from the allowance; the test that says so
  builds the status by hand.
* `request_collision`: the pipeline checks for an active request, collects the
  context, and registers without checking again.  The message that comes second is
  dropped by an exception that no handler reports, while the notice for this very case
  and the progress bar promise an answer.  `SilenceHasCause` shows the limit of it:
  while Discord works, nobody is ignored unless another message of the same author and
  channel was registered.
* `repair_twice`: the repair of the memories, "idempotent" by its docstring, deletes a list for its
  sensitive excerpt, makes rows of its symbols all the same, and gives them the excerpt.  The next
  pass deletes them, symbols and all.

The sections on the modules name further places where the code does what a reader might not
expect.  No run stands for them, because no document of the repository says otherwise or
because a run of the project checks the rest of the property around them.

## Proofs

`tlapm` checks eight proof modules, for any number of calls, users, signatures, reminders, messages,
memories, runs, reports, procedures, emojis, suites, backups, drafts and so on, and any bounds that satisfy
the named assumptions of the modules.  Every invariant that a run checks is stated by a theorem.
Where a proof needed an assumption that had not been stated it was added to the module, where TLC
evaluates it: there is somebody, something to say and a way to say it (`PeopleAssumption`); extraction
yields sequences of candidates (`ExtractionAssumption`); the marks for nothing are not values
(`NothingAssumption`); calls, replies, reports and requests are finite in number; a use is needed before an
emoji is imported or explained (`EmojiAssumption`; the code's constants are 2 and 3); a reply comes after
what it answers, in the same channel, as in Discord (`CollectorAssumption`); a tool result names a page
once, as it is read out of a list without duplicates (`EvidenceAssumption`); rows of a table are rows
(`RepairAssumption`); a manifest is a sequence of cases, of which commands select some, and no tool is both
needed and forbidden, as its parser demands (`VerdictAssumption`); the cases of a suite are in their order
and not none, and no name of a request stands for nothing (`SuiteAssumption`).
Theorems range over what TLC cannot: those on `MemoryRepair` over any set of
tables, those on `Evidence` over any results and drafts.
Theorems that state a merged property of a run (`VerdictsStand`, `ConfirmationIsSafe`,
`NothingTwice`, `MarksInStep`, `RequestsStaySafe` and so on) only combine those named here.

* `TokenQuotaProofs`.  `TypeCorrect` is inductive as it stands.  `OneVerdictPerCall`
  (`ClosedCallsAreOver`) needs no strengthening beyond types and that a verdict step
  ends its call; it gives `RowsAreFinal` (an action property), since only a call
  that is not over can write its row.  `ExhaustionHolds` follows from the guard
  `Fits` and the insert's primary key, given `exhausted \subseteq counters`.
  `ReleaseIsSound`: its strengthening says that a call about to be released or to close the
  day has spent nothing, and one at the second provider neither, unless its `prior` error was
  ambiguous.
  `TheBooksBalance` and `SpendIsBounded` need sums.  A sum is the size of a set of tokens
  (`TokenTotals`), so that the library's theorems on cardinality say how it grows by a row
  (`TotalAdds`) and what bounds it (`TotalBound`); no induction is needed.  The inductive
  `QuotaInv` says for each control point what its call's row is (`PathInv`), that a call spends
  at most its estimate and nothing without a row (`SpendInv`), and that the counters are the sums over
  the rows and leave room (`BooksInv`).  A step opens a row, closes one, or leaves the books alone
  (`Opens`, `Closes`, `Quiet`); `StepShapes` sorts the actions into these three.
  `SpendIsBounded` adds that a closed row is charged at least what its call used (`Covered`), but
  for the misjudged.
  `QuotaImplementsLedger` uses the same three shapes: what opens is a `Grant`, what closes a `Close`,
  the others stutter.
* `ActionConfirmationProofs`.  `ActsAtMostOnce` needs the chain of custody: a
  proposal is either still pending or held by at most one `/confirm`, and an
  invocation that has reached the effect is the only one of its proposal that ever
  will.  `RequesterOnly` is preserved because identity is checked where the proposal
  is traded for the capability and a card never changes.  `EffectsComeDue` joins to
  this (`DueInv`) that a busy `/confirm` began before its card expired, is within its timeout, and
  past the permission check belongs to someone who was allowed since it began; `CardsAreKept` that a card
  leaves the store only by expiry, by its confirmation or by a crash.
* `AgentRunProofs`.  `NoRepeatedCall` needs that what is waiting in a batch has
  not been started and that everything started is in `seen`; `OneContextRead` that
  a context read of the open batch is the only one and that closing a batch puts it
  into `attempted`.  `AllCallsAnswered` and `ReserveIsKept` follow the control
  points of the loop.  `ReportAfterEdits` (`ReportInv`) needs that no edit
  of the open batch is blocked and that nothing else in it has begun while one is not confirmed.
  `CallsAreBounded` (`TurnInv`) says at each control point how many model calls are behind it.
  `BudgetIsKept` (`SpendInv`) says that what was ever selected is billed or in the open batch, which
  fits: `BillGrows`, `BillAdds` and `UnionBound` bound the bill of a set of calls by the library's
  theorems on cardinality, and `LastIndex` finds the last call that fits by its theorem on
  well-founded relations.
* `RemindersProofs`.  `RepeatsNeedFailures` needs to know which reminders are still
  owed: one that is pending and not in flight has been sent no more often than there
  were failures, and only one that is in flight or final may have been sent once more.
  `NothingWrittenOff` says the same of marks: what is marked or about to be was sent.
  `DeletedStaysSilent` assumes `single` in its statement: while the dispatcher holds the
  connection nobody is deleting, and all of its batch is pending.
* `RequestPipelineProofs`.  One invariant (`Inv`) speaks of one message at a time; a
  step of another message leaves it alone (`OthersStaySame`).  `Settled` says that the
  worker and the clean-up are done with a resolved bar, which gives `AnswerIsKept`;
  `Truthful` ties what was promised and told to the task's end, which gives
  `CancelledIsNotAnswered`.  `RunningCanBeCancelled` rests on `start` refusing a key
  with an active task and `clear` removing only its own entry.
  `SilenceIsExplained` adds that the breaker is closed while Discord has not failed (`QuietInv`) and
  that entries of the registry are under the key of their message (`KeysInv`), so that whoever is
  told nothing met a task of the same key (`SilentInv`).
* `BackgroundProofs`.  The transaction that stores candidates is a loop, here a recursive function of
  the number of candidates done.  What it does (`GrownRows`: only rows of the author are new or
  changed, and ids are handed out in order) is proved with a minimal counterexample, by the
  library's theorem on well-founded relations: this is how far data can be inducted over without an
  induction theorem.  The inductive `MemoryInv` says what the running job has read as far as
  it still holds when it is used (`StepInv`), that ids not handed out stand for no row (`Fresh`), and that a snapshot
  shows rows of its own scope, a guild's only rows that are still there and whose owner has memory
  on (`SnapshotInv`).  `NobodyElseEverReads` follows from the last; `OptOutIsRespected`, `EmbeddingsFit` and
  `OverviewsAreGrounded` are action properties, one step of the proof per action of the writer.
  `BehindIsKept` adds the suites and the quote pages.  A suite (`SuiteIInv`): who holds the lock runs it
  (`LockInv`), every attempt but the one under way is saved (`SavedInv`), and the history of an index and a
  scenario is exactly as long as the cases of this scenario that the index has been through (`CasesInv`,
  `HistoryInv`), so attempts of different indices do not mix.  The cache (`CacheIInv`): no symbol has two
  values, each expires its lifetime after its load *began*, values and loads keep their bounds, and what a reader
  is given was loaded after that bound.
* `KnowledgeProofs`.  `PoolKeepsItsPromises` (`PoolIsKept`) rests on an accounting of two stores:
  every pool emoji on the server holds a ledger slot of its own (`SlotsAreHeld`, `IdsAreUnique`), and
  every upload is recorded, in the hands of its task, or counted as lost (`EmojisPaidFor`),
  while the two tasks exclude each other (`PoolInStep`, `ImportInStep`).  That the pool stays within
  its limit then follows by an injection of emojis into owned slots and the finite-set
  theorems on injections.
  `LearningIsSafe`: retrievals, demotions and the learner share the pool of connections
  (`ConnectionsInv`).  What a retrieval has read, and what is cached, was not demoted before it was asked
  for, and with one connection is not demoted at all, since nobody demotes while a retrieval reads
  (`HeldInv`).
  `EmojiIsSafe`: both copies of the document, in memory and in the database, fit what has happened.
  `CountsFit` bounds the counters apart: messages by the distinct messages up to the last one counted,
  reactions by those seen, now or before, and once more by those a merge has struck while they were
  recent, and uses by the two together.  Each way of counting (`UseFits`, `MergeFits`) keeps this, and the sum is
  at most what happened plus what was struck.  `CallsFit` says that each copy knows of every
  call of the vision model, which is why a reservation made on either of them keeps the limits
  (`CallFits`), after a lost answer and a restart too; days are compared with `DaysGrow`.
  A section on numbers and loops follows: the least of some numbers, what holds of all up to a bound,
  and the states a loop goes through.  The theorems below rest on it.
  `NamesAreSafe`: as long as no handler has overtaken another, or all share one connection, one writes
  at a time, and what is recalled is what that one saw, or what is written (`InTurn`).
  `ContextIsSafe` (`CtxIInv`): by the step a preparation is at, what it has read was readable since the
  question and is not barred, for the reason it would be (`CtxBarred`, `CtxUnbarred`); each person's rows were
  chosen once and within the limits (`CtxShares`); and if nobody interferes the second transaction finds what
  the first found, so that its costs are booked (`CtxCosts`).
  `MessagesAreSafe` (`MessagesIInv`): what was collected stands where the asker may look and was there
  since the question (`SeenOK`), anchors are in their channels (`StageOK`), and the lines are put
  together from all of it at once (`ComposedIs`).
  `MarketIsSafe` (`MarketIInv`): the line is exactly who waits for the client, each once (`IsLine`), what a
  lookup has heard is what a provider told it (`LookupOK`), and the client's rest covers every
  refusal heard, so that two are a rest apart (`LineRests`).
  `EvidenceIsSafe` (`EvidenceIInv`): the ledger is what the best result says of each source, which
  is a fact about a loop over results and one over the pages of each; while there is more to be told
  of a source than was told, it was told of it less often than it was named (`ToldInStep`); what is delivered
  is a prepared draft and not touched again (`ReplyInStep`).
* `ServicesProofs`.  Each part is proved on its own, then among the services of the run: a step of
  `Services` is a step of every part or leaves it alone (`PartsMove`).
  The client (`ClientIInv`): a call's attempts follow the list of the models it asked, over both
  providers (`Told`), and while a deployment's error stands and nobody has lifted it its entry is the one
  that was written, and a call that may still ask the model was under way when it broke (`TableInv`).
  The bot's life (`LifecycleIInv`): tasks belong to the bot that runs (`AliveInv`), setup and close have come
  as far in their orders as `next` says (`PhaseInv`), the writer's queue, job and counter agree
  (`WriterInv`), an accepted run is written or in hand (`RunsInv`), and what was announced is at most once more
  than there were lapses (`NewsInv`).
  Complaints (`FeedbackIInv`): a report that has passed its check may demote the answer once; who checks it now is
  stopped by the archive or excused by a report on its way there; so the demotions done and to come are
  at most the excuses, and one if the answer is claimed.
  Research (`ResearchIInv`): what the later stages rest on stands once it is there, the hits and their ranking,
  then reductions that cite only what they select and select only evidence (`StagesInv`).
  The transfer (`TransferIInv`): no id is ahead of the sequence unless the table came from a version without
  one (`SequenceInv`), and the last copy, made while nobody writes, is all there is (`CopyInv`).
  The migration (`MigrationIInv`): what a starting process has seen is still there, since marks, columns and
  snapshots only grow, and an old row that is gone was read by one whose loop settles it, whoever runs it.
  The backups (`BackupIsSafe`): every hour is at most a day, and an hour a failed write, after a good
  object (`Covered`); a run takes at most a day, so that what it deletes for its age is as old as it was
  when it was listed (`RunOK`), and younger good ones are there (`ObjectOK`).
  The repair (`RepairIsSafe`): its two loops and the removal of rows are described by places: row i of the
  result comes from place g(i) of the table, or is the new row of one symbol of one list.  From it
  follow that nothing is listed twice, that the symbols of every list are kept, that what is
  sensitive afterwards is a new row of a sensitive list, and that a second pass, which meets no list any more
  (`NoListIsLeft`), removes these and nothing else, so that a third finds nothing to do (`TwoSettle`).
  The verdicts (`VerdictIsSafe`): a frozen result is left or has answered one call (`CallsOf`), a case is
  graded at most once and its scores follow from its grade (`GradeIs`), a case that made a check
  before and fails it now is worse; a change that makes no attempt worse adds at least as many points as it adds
  to what can be scored, so no rate falls (`NothingIsLost`), by a comparison of two sums.
  `LearnersAreKept`, `AnswersAreKept`, `DatabaseIsKept` and `FindingsAreKept` state the merged
  properties of the run, of parts proved here and in `KnowledgeProofs`.

What the proofs changed.  A failed proof attempt was a finding about the model three times, each
confirmed on a small instance before anything was changed:

* `AnswerContext` remembered of a withdrawn note only that it was barred; with three disturbances a note could be
  hidden, shown again and its owner's memory switched off and on, and `NothingWithdrawn` failed.  The
  ghost `barred` now keeps the reason.
* With two related people and room for one, `CostsAreBooked` failed without any disturbance:
  `list_matching_references` has no ORDER BY, so that the second transaction may find another person than
  the first.  The property now has the condition that all of them fit (`AllFit`).
* The places a collector may visit (`AllPlaces` of `MessageContext`) left out the question's own channel when it
  has no earlier message.

Sequences that the code filters or sums are recursive functions in the modules that are proved about, since the
library's folds take an operator as a parameter, which the provers cannot instantiate.  What such a function
computes is proved without an induction theorem: take the least input for which it fails, by the library's
theorem on well-founded relations, and look one step back (`LeastOf`, `UpTo`, `LoopOf`).  So the ledger and
its guidance are sets with an order (`FirstFew`), the frozen results left of a benchmark's attempt a set of places, and
scores sizes of sets of checks (`Held`); TLC checks the same properties of them as before.

Only model-checked: liveness (`EveryReservationCloses`, `Terminates`, `DueIsDelivered`, `HandlersEnd`,
`BarsGo`, `ForgottenFades`, `SuiteLockIsFreed`, `EveryReaderEnds`), which needs fairness and ENABLED;
and the properties of the five runs that expect a violation, of course.

## Plan

The invariants and the refinement are proved.  What would come next:

1. `MemoryStore` with the profile commands, and the profile lines the maintenance scrubs.
2. Two requests of different users in one run of `RequestPipeline` with the memory writer behind them:
   what one says and forgets while the other is answered.
3. The composition of the quota with the client's failover: `TokenQuota` takes the kinds of failure of a second
   provider as inputs that `ModelClient` could generate.

## Not modelled

Text: prompts, answers, formatting, parsing of dates, symbols and model output (the extraction
of memories, the plan of an answer, tool eligibility): pure functions of their input, whose
result is an input of the models.  Remote clients other than the metered one: each is one call
that returns, fails or times out.  The request formats of the model client.  The Python sandbox is an
interpreter, an algorithm on syntax trees.  The commands that only show or set one value.
Traces and diagnostics, which nothing reads back.  Of the benchmarks: the parser of the manifest, the
contents of built-in fixtures, latency and reports.  Of memory: profile commands and the scrubbing of
profile lines.
