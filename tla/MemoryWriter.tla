----------------------------- MODULE MemoryWriter -----------------------------
(***************************************************************************)
(* The background memory writer (memory/background.py) beside the commands *)
(* of the people whose memories it writes (discord/memory.py) and the      *)
(* daily maintenance (bot.py).                                             *)
(*                                                                         *)
(* A job is a chain of short transactions with calls of a model between    *)
(* them: everything it read may have changed when the next one begins.     *)
(* Each action below is one transaction or the answer of one model call.   *)
(***************************************************************************)
EXTENDS BackgroundWorker, MemoryStore

CONSTANTS Extractions,   \* what the extraction model may find in a message
          OverviewTexts, \* what the consolidation model may write
          OptedIn,       \* who has memory on at the start
          Authors,       \* the users whose messages are worth an extraction
          MaxJobs,
          MaxDisturbances, \* commands, failures, restarts and pruned rows
          NoDecision

\* The memory writer is built without a drain timeout.
ASSUME WriterAssumption == ~ Drains
ASSUME ModelsAssumption == OverviewTexts \subseteq Texts
ASSUME UsersAssumption  == Authors \subseteq Users /\ OptedIn \subseteq Users
ASSUME ExtractionAssumption == Extractions \subseteq Seq(Candidates)
ASSUME NothingAssumption ==
  /\ NoText \notin Texts
  /\ NoJob \notin [user : Authors, guild : Places]
  /\ NoDecision \notin [summary : OverviewTexts, sources : SUBSET Ids]

VARIABLES
  step,       \* the local state of the running job
  submitted,
  disturbances

bounds == <<submitted, disturbances>>
vars   == <<worker, store, step, bounds>>

Jobs == [user : Authors, guild : Places]

\* at: the next transaction or call; plan: the sources of a consolidation as
\* they were read.
Step(at, cands, targets, plan, decision) ==
  [at |-> at, cands |-> cands, targets |-> targets, plan |-> plan, decision |-> decision]
Bare(at) == Step(at, <<>>, <<>>, <<>>, NoDecision)

NoRow == [owner |-> CHOOSE u \in Users : TRUE, guild |-> DM, visibility |-> "private",
          kind |-> "fact", predicate |-> Overview,
          summary |-> CHOOSE t \in Texts : TRUE, status |-> "none",
          embedding |-> NoText, sources |-> {}]

Init ==
  /\ WorkerInit
  /\ enabled = [u \in Users |-> u \in OptedIn]
  /\ rows = [i \in Ids |-> NoRow] /\ created = 0
  /\ snapshot = [s \in Scopes |-> {}] /\ cooling = [u \in Users |-> FALSE]
  /\ step = Bare("idle")
  /\ submitted = 0 /\ disturbances = 0

u_ == holding.user
g_ == holding.guild
At(label) == task = "busy" /\ step.at = label
Unwritten == UNCHANGED store
KeepWorker == UNCHANGED <<worker, bounds>>
Disturb(n) == /\ disturbances + n <= MaxDisturbances
              /\ disturbances' = disturbances + n /\ UNCHANGED submitted

------------------------------------------------------------------------------
(* The queue                                                               *)

\* schedule: a message is worth an extraction.
Schedule(job) ==
  /\ submitted < MaxJobs /\ submitted' = submitted + 1
  /\ Submit(job)
  /\ UNCHANGED <<store, step, disturbances>>

Begin == Take /\ step' = Bare("check") /\ UNCHANGED <<store, bounds>>
End   == step.at = "done" /\ Settle /\ step' = Bare("idle") /\ UNCHANGED <<store, bounds>>

------------------------------------------------------------------------------
(* _run_serialized                                                         *)

\* Its own session: a user who is opted out costs no model call.
CheckOptIn ==
  /\ At("check")
  /\ step' = Bare(IF enabled[u_] THEN "extract" ELSE "done")
  /\ Unwritten /\ KeepWorker

\* The extraction model answers.
Extract(cands) ==
  /\ At("extract") /\ created + Len(cands) <= MaxRows
  /\ step' = Step("store", cands, <<>>, <<>>, NoDecision)
  /\ Unwritten /\ KeepWorker

AfterTarget(targets) ==
  Step(IF targets = <<>> THEN "plan" ELSE "target", <<>>, targets, <<>>, NoDecision)

StoreCandidates ==
  /\ At("store")
  /\ \E o \in StoreAll(u_, g_, step.cands) :
       /\ rows' = o.rows /\ created' = o.created
       /\ step' = IF o.stored THEN AfterTarget(o.targets) ELSE Bare("done")
  /\ UNCHANGED <<enabled, snapshot, cooling>> /\ KeepWorker

\* Mutant: the target's wording is not compared.
TargetIsThere(t) ==
  /\ enabled[u_] /\ Active(rows, t.id) /\ rows[t.id].owner = u_
  /\ rows[t.id].embedding = NoText

\* memory_embedding_target_is_current, in a session of its own.
TargetIsCurrent(t) ==
  /\ enabled[u_] /\ Active(rows, t.id) /\ rows[t.id].owner = u_
  /\ rows[t.id].embedding = NoText /\ rows[t.id].summary = t.summary
CheckTarget ==
  /\ At("target")
  /\ step' = IF TargetIsCurrent(Head(step.targets)) THEN [step EXCEPT !.at = "embed"]
                                                    ELSE AfterTarget(Tail(step.targets))
  /\ Unwritten /\ KeepWorker

\* The embedding model answers, or does not: then the row stays without.
Embed ==
  /\ At("embed") /\ step' = [step EXCEPT !.at = "attach"]
  /\ Unwritten /\ KeepWorker
EmbedFails ==
  /\ At("embed") /\ step' = AfterTarget(Tail(step.targets))
  /\ Disturb(1) /\ UNCHANGED <<worker, store>>

\* attach_memory_embedding reads the opt-in and the row again.
MayAttach(t) ==
  /\ enabled[u_] /\ Active(rows, t.id) /\ rows[t.id].owner = u_
  /\ rows[t.id].embedding = NoText
Attach ==
  /\ At("attach")
  /\ LET done == Head(step.targets)
     IN  rows' = IF MayAttach(done) THEN [rows EXCEPT ![done.id].embedding = done.summary] ELSE rows
  /\ step' = AfterTarget(Tail(step.targets))
  /\ UNCHANGED <<enabled, created, snapshot, cooling>> /\ KeepWorker

\* prepare_memory_consolidation: the facts as they are now.
PlanConsolidation ==
  /\ At("plan")
  /\ LET facts == {i \in Ids : PrivateFact(rows, u_, i)}
         plan  == [i \in facts |-> [predicate |-> rows[i].predicate, summary |-> rows[i].summary]]
     IN  step' = IF /\ enabled[u_] /\ ~ cooling[u_]
                    /\ Cardinality(facts) >= MinMemories
                 THEN Step("decide", <<>>, <<>>, plan, NoDecision) ELSE Bare("rebuild")
  /\ Unwritten /\ KeepWorker

\* generate_memory_consolidation: the model names at least two of the facts.
Decisions == [summary : OverviewTexts, sources : {S \in SUBSET DOMAIN step.plan : Cardinality(S) >= 2}]
Decide ==
  /\ At("decide")
  /\ \/ step' = Bare("rebuild")                 \* the provider failed
     \/ step' = [step EXCEPT !.at = "apply"]    \* nothing to consolidate
     \/ /\ created < MaxRows
        /\ \E d \in Decisions : step' = [step EXCEPT !.at = "apply", !.decision = d]
  /\ Unwritten /\ KeepWorker

\* Mutant: what the model decided is applied as it is.
AsDecided(d) == d.sources

\* The sources that are still what the model was shown.
Unchanged(d) ==
  {i \in d.sources : /\ PrivateFact(rows, u_, i)
                     /\ rows[i].predicate = step.plan[i].predicate
                     /\ rows[i].summary = step.plan[i].summary}

OverviewRow(d, S) ==
  [owner |-> u_, guild |-> g_, visibility |-> "private", kind |-> "summary",
   predicate |-> Overview, summary |-> d.summary, status |-> "active",
   embedding |-> NoText, sources |-> S]
Overviews == {i \in Ids : /\ Active(rows, i) /\ rows[i].owner = u_
                          /\ rows[i].visibility = "private" /\ rows[i].kind = "summary"
                          /\ rows[i].predicate = Overview}

\* apply_memory_consolidation, for a decision.
Consolidate(d) ==
  LET S == Unchanged(d)
      new == created + 1
  IN  IF Cardinality(S) < 2 THEN UNCHANGED <<rows, created>>
      ELSE \/ /\ Overviews = {}
              /\ rows' = [rows EXCEPT ![new] = OverviewRow(d, S)] /\ created' = new
           \/ \E i \in Overviews :
                IF rows[i].sources = S /\ rows[i].summary = d.summary
                THEN UNCHANGED <<rows, created>>
                ELSE /\ rows' = [rows EXCEPT ![i].status = "consolidated",
                                             ![new] = OverviewRow(d, S)]
                     /\ created' = new

Apply ==
  /\ At("apply")
  /\ IF ~ enabled[u_] THEN UNCHANGED <<rows, created, cooling>>
     ELSE /\ cooling' = [cooling EXCEPT ![u_] = TRUE]
          /\ IF step.decision = NoDecision THEN UNCHANGED <<rows, created>>
             ELSE Consolidate(step.decision)
  /\ step' = Bare("rebuild")
  /\ UNCHANGED <<enabled, snapshot>> /\ KeepWorker

Rebuild ==
  /\ At("rebuild")
  /\ snapshot' = RebuildFor(rows, enabled, snapshot, u_, g_)
  /\ step' = Bare("done")
  /\ UNCHANGED <<enabled, rows, created, cooling>> /\ KeepWorker

\* A model call or a transaction raises: run swallows it, what is committed
\* stays.
JobFails ==
  /\ task = "busy" /\ step.at \notin {"done", "idle"}
  /\ Disturb(1) /\ step' = Bare("done")
  /\ UNCHANGED <<worker, store>>

------------------------------------------------------------------------------
(* The commands of the users and the daily maintenance                     *)

Command == Disturb(1) /\ UNCHANGED <<worker, step>>

GuildsOf(u) == {rows[i].guild : i \in {j \in Ids : Present(rows, j) /\ rows[j].owner = u}} \ {DM}

\* Mutant: the guilds' snapshots are left alone.
SetEnabledOwnScopes(u, value) ==
  LET on  == [enabled EXCEPT ![u] = value]
      own == IF value THEN {UserScope(u, g) : g \in GuildsOf(u) \cup {DM}} ELSE {}
  IN  /\ enabled' = on
      /\ snapshot' = Rebuilt(rows, on, Erased(snapshot, u), own)
      /\ Command /\ UNCHANGED <<rows, created, cooling>>

\* /memory enable: set_enabled
SetEnabled(u, value) ==
  LET on     == [enabled EXCEPT ![u] = value]
      own    == IF value THEN {UserScope(u, g) : g \in GuildsOf(u) \cup {DM}} ELSE {}
      shared == {GuildScope(g) : g \in GuildsOf(u)}
  IN  /\ enabled' = on
      /\ snapshot' = Rebuilt(rows, on, Erased(snapshot, u), own \cup shared)
      /\ Command /\ UNCHANGED <<rows, created, cooling>>

\* /memory forget: delete_memory rebuilds the snapshots of the row's own guild.
Forget(i) ==
  LET left == [rows EXCEPT ![i].status = "none"]
  IN  /\ Present(rows, i)
      /\ rows' = left
      /\ snapshot' = RebuildFor(left, enabled, snapshot, rows[i].owner, rows[i].guild)
      /\ Command /\ UNCHANGED <<enabled, created, cooling>>

\* /memory memory_id visibility, by the owner, in guild g.
SetVisibility(i, v, g) ==
  LET changed == [rows EXCEPT ![i].visibility = v,
                              ![i].kind = IF v = "lore" THEN "lore" ELSE rows[i].kind]
  IN  /\ Present(rows, i)
      /\ v # "private" => (rows[i].guild # DM /\ g = rows[i].guild)
      /\ rows' = changed
      /\ snapshot' = RebuildFor(changed, enabled, snapshot, rows[i].owner, rows[i].guild)
      /\ Command /\ UNCHANGED <<enabled, created, cooling>>

\* _run_retention_maintenance: old rows go and every snapshot is refreshed, in
\* one transaction.
Maintain(old) ==
  LET left == [i \in Ids |-> IF i \in old THEN [rows[i] EXCEPT !.status = "none"] ELSE rows[i]]
  IN  /\ Disturb(Cardinality(old)) /\ UNCHANGED <<worker, step, enabled, created, cooling>>
      /\ \A i \in old : Present(rows, i)
      /\ rows' = left /\ snapshot' = RefreshAll(left, enabled, snapshot)

CooldownEnds(u) ==
  /\ cooling[u] /\ cooling' = [cooling EXCEPT ![u] = FALSE]
  /\ UNCHANGED <<enabled, rows, created, snapshot, worker, step, bounds>>

------------------------------------------------------------------------------
(* Shutdown and restart                                                    *)

\* NyctiBot.close cancels the consumer wherever it is.
Close == CloseBegin /\ step' = Bare("idle") /\ UNCHANGED <<store, bounds>>
\* The process ends, closed or not, and starts again on the same database.
Reboot ==
  /\ Disturb(1) /\ Restart /\ step' = Bare("idle")
  /\ UNCHANGED store

JobStep == \/ CheckOptIn \/ (\E cands \in Extractions : Extract(cands)) \/ StoreCandidates
           \/ CheckTarget \/ Embed \/ EmbedFails \/ Attach
           \/ PlanConsolidation \/ Decide \/ Apply \/ Rebuild

Maintenance == \E old \in SUBSET Ids : Maintain(old)

Next ==
  \/ \E job \in Jobs : Schedule(job)
  \/ Begin
  \/ JobStep
  \/ JobFails
  \/ End
  \/ \E u \in Users, value \in BOOLEAN : SetEnabled(u, value)
  \/ \E i \in Ids : Forget(i)
  \/ \E i \in Ids, v \in Audiences, g \in Guilds : SetVisibility(i, v, g)
  \/ Maintenance
  \/ \E u \in Users : CooldownEnds(u)
  \/ Close
  \/ Reboot

Spec == Init /\ [][Next]_vars

\* No snapshot shows what is no longer active.
Current == \A s \in Scopes : \A i \in snapshot[s] : Active(rows, i)
\* The poll loop runs the maintenance at start-up and once a day, whatever the
\* writer does; fairness is owed to the one that finds something to refresh.
Refreshes == ~ Current /\ Maintain({})
FairSpec == Spec /\ WF_vars(Refreshes)

------------------------------------------------------------------------------
(* Properties                                                              *)

\* The shape of the state; asyncio.Queue's counter never disagrees with the
\* jobs there are, or join would hang or task_done raise.
TypeOK ==
  /\ WorkerTypeOK(Jobs)
  /\ unfinished = Len(queue) + InHand
  /\ enabled \in [Users -> BOOLEAN] /\ cooling \in [Users -> BOOLEAN]
  /\ rows \in [Ids -> Row] /\ created \in 0 .. MaxRows
  /\ snapshot \in [Scopes -> SUBSET Ids]
  /\ (task = "busy") = (step.at # "idle") /\ (task = "busy") = (holding # NoJob)

\* A user who has turned memory off is not written about: no step of the
\* writer changes a row of theirs, whatever it read before the model call it
\* comes back from (memory/background.py, store_memory_candidate,
\* attach_memory_embedding, apply_memory_consolidation).
OptOutRespected ==
  [][step' # step /\ rows' # rows =>
       \A i \in Ids : rows'[i] # rows[i] => enabled[rows'[i].owner]]_vars

\* What a reply is given belongs to people who have memory on, and everything
\* in it may be read by the person it answers in the guild it is answered in,
\* under the row's visibility of this moment (get_memory_snapshot_blocks,
\* set_enabled, set_memory_visibility, refresh_all_memory_snapshots).
NobodyElseReads ==
  \A u \in Users, g \in Places : \A i \in Blocks(u, g) :
    enabled[rows[i].owner] /\ CanRead(i, u, g)

\* A consolidated overview rests on at least two facts that are still active,
\* private and word for word what the model was shown
\* (apply_memory_consolidation, after the model call).
OverviewIsGrounded ==
  [][\A i \in created + 1 .. created' :
       rows'[i].kind = "summary" =>
         /\ Cardinality(rows'[i].sources) >= 2
         /\ \A j \in rows'[i].sources :
              /\ PrivateFact(rows', rows'[i].owner, j)
              /\ rows[j].summary = step.plan[j].summary]_vars

\* An embedding is attached for the words its row has at that moment, though
\* the target was read before the embedding model was asked and one job may
\* reword a row twice (memory_embedding_target_is_current).
EmbeddingFits ==
  [][\A i \in Ids : rows'[i].embedding \notin {NoText, rows[i].embedding} =>
       rows'[i].embedding = rows[i].summary]_vars

\* The daily refresh repairs what jobs cut off and deletions in other scopes
\* leave behind: what was forgotten, retracted or replaced does not stay in
\* any snapshot for ever (refresh_all_memory_snapshots).
ForgottenFades == []<>Current
==============================================================================
