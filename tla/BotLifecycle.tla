----------------------------- MODULE BotLifecycle -----------------------------
(***************************************************************************)
(* The bot from start to stop: main.run starts a bot and, when Discord     *)
(* refuses it for a while, another one; setup_hook starts the background   *)
(* tasks and close stops them, one await after the other, while messages   *)
(* are still being answered.  Two tasks in detail: the announcement of the *)
(* changelog and the telemetry writer, the one worker that is drained.     *)
(*                                                                         *)
(* The tasks of every bot of the process are in `alive'.  discord.py       *)
(* reconnects by itself once it is connected, so that a start is repeated  *)
(* only for a refusal within setup_hook.                                   *)
(***************************************************************************)
EXTENDS Integers, Sequences, FiniteSets, SequencesExt

CONSTANTS MaxAttempts,     \* MAX_DISCORD_START_RETRIES
          Homes,           \* guilds with a changelog channel, in the order of the query
          Runs,            \* agent runs that end, of a process
          TelemetryRoom, NoRun,
          MaxBoots, MaxLapses   \* bounds

ASSUME LifecycleAssumption ==
  /\ {MaxAttempts, Homes, MaxBoots} \subseteq Nat \ {0} /\ MaxLapses \in Nat /\ NoRun \notin Runs

VARIABLES
  phase,      \* of main.run
  next,       \* the step setup_hook or close has reached
  attempt,    \* of this process
  reason,     \* why the bot is closed: "stopped" when it was connected
  alive,      \* <<bot, task>> for every task that is not done
  late,       \* the backfill was begun after close had stopped it
  readying,   \* on_ready is loading the catalog
  news,       \* the announcement: where it is, and what it has flushed
  announced,  \* by guild: how often the announcement was seen there
  known,      \* guilds whose snapshot is committed
  lapses,     \* failures that lose the record of an announcement
  runs,       \* by run: "open", "queued", "written", "lost", "refused"
  boots,
  queue, holding, task, closing, unfinished   \* of the telemetry writer

bot       == <<phase, next, attempt, reason, boots>>
changelog == <<news, announced, known, lapses>>
telemetry == <<queue, holding, task, closing, unfinished>>
lifecycleVars == <<bot, alive, late, readying, changelog, runs, telemetry>>

Writer == INSTANCE BackgroundWorker WITH Capacity <- TelemetryRoom, Drains <- TRUE, NoJob <- NoRun

SetupOrder == <<"warmup", "database", "backup", "retention", "memory", "procedures", "sync",
                "poll", "summary", "changelog">>

\* Mutant: close has not heard of the task that warms up the market policy.
CloseOrderOld == <<"backup", "backfill", "learner", "memory", "procedures", "poll",
                   "changelog", "summary", "telemetry">>

CloseOrder == <<"warmup", "backup", "backfill", "learner", "memory", "procedures", "poll",
                "changelog", "summary", "telemetry">>

NoNews == [at |-> "none", guild |-> 0, flushed |-> {}]
Serving == phase = "up" \/ (phase = "closing" /\ reason = "stopped")
Mine(t) == <<attempt, t>>
\* Closing has come past this task.
Stopped(t) == phase = "closing" /\ \E i \in 1 .. (next - 1) : CloseOrder[i] = t

LifecycleInit ==
  /\ phase = "setup" /\ next = 1 /\ attempt = 1 /\ reason = "none" /\ boots = 1
  /\ alive = {} /\ late = FALSE /\ readying = FALSE
  /\ news = NoNews /\ announced = [g \in 1 .. Homes |-> 0] /\ known = {} /\ lapses = 0
  /\ runs = [r \in Runs |-> "open"]
  /\ Writer!WorkerInit

------------------------------------------------------------------------------
(* setup_hook and main.run                                                 *)

Quit(why) == phase' = "closing" /\ next' = 1 /\ reason' = why

\* The next step of setup_hook starts its task, or does its work.
SetUp ==
  /\ phase = "setup"
  /\ LET step == SetupOrder[next]
     IN  /\ alive' = IF step \in {"database", "retention", "sync"} THEN alive
                     ELSE alive \cup {Mine(step)}
         /\ news' = IF step = "changelog" THEN [NoNews EXCEPT !.at = "start"] ELSE news
  /\ IF next = Len(SetupOrder) THEN phase' = "up" /\ next' = 1
     ELSE next' = next + 1 /\ UNCHANGED phase
  /\ UNCHANGED <<attempt, reason, boots, late, readying, announced, known, lapses, runs, telemetry>>

\* The database fails it, or Discord refuses the commands, for a while or for good.
SetUpFails ==
  /\ phase = "setup"
  /\ \/ SetupOrder[next] \in {"database", "retention", "sync"} /\ Quit("broken")
     \/ SetupOrder[next] = "sync" /\ Quit("refused")
  /\ UNCHANGED <<attempt, boots, alive, late, readying, changelog, runs, telemetry>>

\* The process is told to stop, or the connection is lost for good.
Stop ==
  /\ phase = "up" /\ Quit("stopped")
  /\ UNCHANGED <<attempt, boots, alive, late, readying, changelog, runs, telemetry>>

\* A bot that is closed is replaced if Discord may be kinder later.
EndRun ==
  IF reason = "refused" /\ attempt < MaxAttempts THEN phase' = "backoff" ELSE phase' = "gone"

StartAgain ==
  /\ phase = "backoff"
  /\ phase' = "setup" /\ next' = 1 /\ attempt' = attempt + 1 /\ reason' = "none"
  /\ late' = FALSE /\ Writer!Restart
  /\ UNCHANGED <<boots, alive, readying, changelog, runs>>

\* The process is started anew, after its end or, dying, in the middle.
Dies == phase # "gone"
Reboot ==
  /\ boots < MaxBoots /\ boots' = boots + 1
  /\ Dies => lapses < MaxLapses
  /\ lapses' = IF Dies THEN lapses + 1 ELSE lapses
  /\ phase' = "setup" /\ next' = 1 /\ attempt' = 1 /\ reason' = "none"
  /\ alive' = {} /\ late' = FALSE /\ readying' = FALSE /\ news' = NoNews
  /\ runs' = [r \in Runs |-> "open"] /\ Writer!Restart
  /\ UNCHANGED <<announced, known>>

------------------------------------------------------------------------------
(* close                                                                   *)

\* A task is cancelled and awaited.  A task that has failed raises its exception
\* here: close ends, whatever is left, and the process with it.
CloseTask ==
  /\ phase = "closing" /\ CloseOrder[next] # "telemetry"
  /\ LET t == CloseOrder[next]
     IN  IF t = "changelog" /\ news.at = "failed"
         THEN phase' = "gone" /\ reason' = "raised" /\ UNCHANGED <<next, alive, news, lapses>>
         ELSE /\ alive' = alive \ {Mine(t)} /\ next' = next + 1
              /\ IF t = "changelog" /\ news.at \notin {"none", "over"}
                 THEN /\ lapses' = lapses + 1
                      /\ news' = [NoNews EXCEPT !.at = "over"]
                 ELSE UNCHANGED <<news, lapses>>
              /\ UNCHANGED <<phase, reason>>
  /\ UNCHANGED <<attempt, boots, late, readying, announced, known, runs, telemetry>>

\* The writer is closed for new runs, and drained if it has begun to work.
CloseWriter ==
  /\ phase = "closing" /\ CloseOrder[next] = "telemetry" /\ Writer!CloseBegin
  /\ IF closing' = "closed" THEN EndRun /\ alive' = alive \ {Mine("telemetry")}
     ELSE UNCHANGED <<phase, alive>>
  /\ UNCHANGED <<next, attempt, reason, boots, late, readying, changelog, runs>>

Drained ==
  /\ Writer!DrainDone /\ EndRun /\ alive' = alive \ {Mine("telemetry")}
  /\ UNCHANGED <<next, attempt, reason, boots, late, readying, changelog, runs>>

\* TELEMETRY_DRAIN_TIMEOUT_SECONDS: what is queued or being written is lost.
DrainTimesOut ==
  /\ Writer!DrainTimeout /\ EndRun /\ alive' = alive \ {Mine("telemetry")}
  /\ runs' = [r \in Runs |-> IF runs[r] = "queued" THEN "lost" ELSE runs[r]]
  /\ UNCHANGED <<next, attempt, reason, boots, late, readying, changelog>>

------------------------------------------------------------------------------
(* What goes on while the bot serves                                       *)

\* on_ready: the catalog is loaded, and the backfill, unless one is running, begun.
Ready ==
  /\ Serving /\ readying' = ~ readying
  /\ alive' = IF readying THEN alive \cup {Mine("backfill")} ELSE alive
  /\ late' = (late \/ (readying /\ Stopped("backfill")))
  /\ UNCHANGED <<bot, changelog, runs, telemetry>>

\* The warm-up and the backfill come to an end.
TaskEnds(t) ==
  /\ Serving /\ Mine(t) \in alive /\ alive' = alive \ {Mine(t)}
  /\ UNCHANGED <<bot, late, readying, changelog, runs, telemetry>>

\* submit of a worker that starts with its first job; not once it is closed.
FirstEmoji ==
  /\ Serving /\ ~ Stopped("learner") /\ alive' = alive \cup {Mine("learner")}
  /\ UNCHANGED <<bot, late, readying, changelog, runs, telemetry>>

\* A run has ended and its telemetry is submitted: refused when the writer is
\* closed or its queue full.
RunEnds(r) ==
  /\ Serving /\ runs[r] = "open"
  /\ IF closing = "open"
     THEN /\ Writer!Submit(r) /\ alive' = alive \cup {Mine("telemetry")}
          /\ runs' = [runs EXCEPT ![r] = IF queue' = queue THEN "refused" ELSE "queued"]
     ELSE runs' = [runs EXCEPT ![r] = "refused"] /\ UNCHANGED <<alive, telemetry>>
  /\ UNCHANGED <<bot, late, readying, changelog>>

WriterTakes ==
  /\ Serving /\ Writer!Take /\ UNCHANGED <<bot, alive, late, readying, changelog, runs>>

\* flush commits the rows of the run, or logs that it could not.
WriterFlushes(ok) ==
  /\ Serving /\ Writer!Settle
  /\ runs' = [runs EXCEPT ![holding] = IF ok THEN "written" ELSE "lost"]
  /\ UNCHANGED <<bot, alive, late, readying, changelog>>

------------------------------------------------------------------------------
(* post_startup                                                            *)

Lapse == lapses < MaxLapses /\ lapses' = lapses + 1
Announcing == Serving /\ Mine("changelog") \in alive
NewsFail == news' = [NoNews EXCEPT !.at = "failed"] /\ alive' = alive \ {Mine("changelog")}
Elsewhere == UNCHANGED <<bot, late, readying, runs, telemetry>>

\* The channels are listed, which may fail.
List ==
  /\ Announcing /\ news.at = "start"
  /\ \/ news' = [news EXCEPT !.at = "post", !.guild = 1] /\ UNCHANGED <<lapses, alive>>
     \/ Lapse /\ NewsFail
  /\ UNCHANGED <<announced, known>> /\ Elsewhere

Following == [news EXCEPT !.guild = @ + 1]

\* Mutant: a guild that has had this changelog is not passed over.
OldNewsNever(g) == FALSE

\* The snapshot of the guild, committed before or flushed just now, is this one.
OldNews(g) == g \in known \cup news.flushed

\* post_announcement and set_last_snapshot: Discord refuses it all, or what comes
\* after a first chunk, or takes it; then the snapshot is flushed.
Post ==
  /\ Announcing /\ news.at = "post" /\ news.guild <= Homes
  /\ LET g == news.guild
         Seen == announced' = [announced EXCEPT ![g] = @ + 1]
     IN  \/ OldNews(g) /\ news' = Following /\ UNCHANGED <<announced, lapses, alive>>
         \/ /\ ~ OldNews(g)
            /\ \/ news' = Following /\ UNCHANGED <<announced, lapses, alive>>
               \/ news' = Following /\ Seen /\ Lapse /\ UNCHANGED alive
               \/ /\ news' = [Following EXCEPT !.flushed = @ \cup {g}]
                  /\ Seen /\ UNCHANGED <<lapses, alive>>
               \/ Seen /\ Lapse /\ NewsFail
  /\ UNCHANGED known /\ Elsewhere

\* One commit for all guilds, if there was anything to post; it may fail, before or
\* after it took effect.
Commit ==
  /\ Announcing /\ news.at = "post" /\ news.guild > Homes
  /\ \/ /\ news' = [NoNews EXCEPT !.at = "over"] /\ alive' = alive \ {Mine("changelog")}
        /\ known' = known \cup news.flushed /\ UNCHANGED lapses
     \/ /\ news.flushed # {} /\ Lapse /\ NewsFail
        /\ known' \in {known, known \cup news.flushed}
  /\ UNCHANGED announced /\ Elsewhere

LifecycleNext ==
  \/ SetUp \/ SetUpFails \/ Stop \/ StartAgain \/ Reboot
  \/ CloseTask \/ CloseWriter \/ Drained \/ DrainTimesOut
  \/ Ready \/ FirstEmoji \/ (\E t \in {"warmup", "backfill"} : TaskEnds(t))
  \/ (\E r \in Runs : RunEnds(r)) \/ WriterTakes \/ (\E ok \in BOOLEAN : WriterFlushes(ok))
  \/ List \/ Post \/ Commit

LifecycleSpec == LifecycleInit /\ [][LifecycleNext]_lifecycleVars

------------------------------------------------------------------------------
(* Properties                                                              *)

LifecycleTypeOK ==
  /\ phase \in {"setup", "up", "closing", "backoff", "gone"}
  /\ attempt \in 1 .. MaxAttempts /\ next \in 1 .. Len(SetupOrder)
  /\ known \subseteq 1 .. Homes /\ unfinished >= 0
  /\ runs \in [Runs -> {"open", "queued", "written", "lost", "refused"}]

\* Whatever was refused, two bots of one process never have tasks at the same time:
\* two poll loops would deliver every reminder twice (main.py:57-76, bot.py:308-338).
OneBotAtATime == \A x, y \in alive : x[1] = y[1]

\* A bot that was closed has no task left, unless the announcement had failed and
\* close raised its exception, or on_ready was under way and began the backfill
\* after it had been stopped.
NothingLeft ==
  phase \in {"backoff", "gone"} /\ reason # "raised"
    => alive \subseteq (IF late THEN {Mine("backfill")} ELSE {})

\* The telemetry of every run that was accepted is written before the process ends,
\* but for failed writes, a drain that took too long, a crash, and a close that
\* raised.
TelemetryIsDrained ==
  phase \in {"backoff", "gone"} /\ reason # "raised" => \A r \in Runs : runs[r] # "queued"

\* A guild sees an announcement again only after a failure that lost the record.
AnnouncedOnce == \A g \in 1 .. Homes : announced[g] <= 1 + lapses

\* Starts and stops leave nothing behind and nothing running twice.
LifecycleInv ==
  LifecycleTypeOK /\ OneBotAtATime /\ NothingLeft /\ TelemetryIsDrained /\ AnnouncedOnce
==============================================================================
