--------------------------- MODULE ProcedureLearning ---------------------------
(***************************************************************************)
(* Learned procedures of one guild (procedures/service.py,                 *)
(* procedures/background.py): the learner that records and reinforces      *)
(* them, the feedback that demotes them, the retention that drops them,    *)
(* and the retrieval that reads them through a cache of a minute.          *)
(*                                                                         *)
(* A procedure is its task key.  Which ones resemble a request, and what   *)
(* the model makes of one, is left open.  A transaction reads, changes its *)
(* rows in memory and writes them at the commit; the pool has one          *)
(* connection on SQLite and several on PostgreSQL (db/session.py:33-37),   *)
(* and a retrieval holds its own while it awaits the rows.                 *)
(***************************************************************************)
EXTENDS Integers, FiniteSets

CONSTANTS Procedures, Requests, Reports,
          PoolSizes,      \* sizes the connection pool may have
          ProcedureTtl,   \* PROCEDURE_CACHE_TTL_SECONDS
          MaxJobs, MaxReviews, MaxPrunes, LearningHorizon   \* bounds

ASSUME LearningAssumption ==
  /\ IsFiniteSet(Requests) /\ IsFiniteSet(Reports)
  /\ PoolSizes \subseteq Nat \ {0} /\ ProcedureTtl \in Nat \ {0}
  /\ {MaxJobs, MaxReviews, MaxPrunes, LearningHorizon} \subseteq Nat

VARIABLES
  connections,  \* how many the pool has
  clock,
  rows,         \* by procedure: status, successes, failures
  cache,        \* the guild's cached rows, and until when; or none
  request,      \* the retrievals: where each is, when it asked, what it has
  report,       \* the demotions: where each is, the procedure, the row to write
  learner,      \* the learner's job
  demotedAt,    \* by procedure: when it was demoted, if not reviewed since
  done          \* jobs, reviews and prunes so far

learningVars == <<connections, clock, rows, cache, request, report, learner, demotedAt, done>>

NoCache == [until |-> 0, held |-> {}]
NoRow == [status |-> "none", successes |-> 0, failures |-> 0]
Usable == {"candidate", "validated"}
Validated == {p \in Procedures : rows[p].status = "validated"}
Never == -1

LearningInit ==
  /\ connections \in PoolSizes /\ clock = 0
  /\ rows = [p \in Procedures |-> NoRow] /\ cache = NoCache
  /\ request = [r \in Requests |-> [at |-> "idle", asked |-> 0, held |-> {}]]
  /\ report = [d \in Reports |-> [at |-> "idle", procedure |-> "none", row |-> NoRow]]
  /\ learner = [at |-> "idle", procedure |-> "none", row |-> NoRow]
  /\ demotedAt = [p \in Procedures |-> Never]
  /\ done = [jobs |-> 0, reviews |-> 0, prunes |-> 0]

InUse == Cardinality({r \in Requests : request[r].at = "reading"})
         + Cardinality({d \in Reports : report[d].at \in {"commit", "clear"}})
         + (IF learner.at \in {"commit", "invalidate"} THEN 1 ELSE 0)
Free == InUse < connections

------------------------------------------------------------------------------
(* Retrieval                                                               *)

\* _get_active_procedures with a fresh cache.
RetrieveCached(r) ==
  /\ request[r].at = "idle" /\ cache.until > clock
  /\ request' = [request EXCEPT ![r] = [at |-> "served", asked |-> clock, held |-> cache.held]]
  /\ UNCHANGED <<connections, clock, rows, cache, report, learner, demotedAt, done>>

\* Without one the validated rows are selected.
Select(r) ==
  /\ request[r].at = "idle" /\ cache.until <= clock /\ Free
  /\ request' = [request EXCEPT ![r] = [at |-> "reading", asked |-> clock, held |-> Validated]]
  /\ UNCHANGED <<connections, clock, rows, cache, report, learner, demotedAt, done>>

\* They are cached when the await returns, for a time that counts from the look.
Fill(r) ==
  /\ request[r].at = "reading"
  /\ cache' = [until |-> request[r].asked + ProcedureTtl, held |-> request[r].held]
  /\ request' = [request EXCEPT ![r].at = "served"]
  /\ UNCHANGED <<connections, clock, rows, report, learner, demotedAt, done>>

------------------------------------------------------------------------------
(* Demotion                                                                *)

Demoted(row) ==
  LET failures == row.failures + 1
  IN  [status |-> IF failures >= 3 /\ failures >= row.successes THEN "retired" ELSE "candidate",
       successes |-> row.successes, failures |-> failures]

\* Mutant: a change of a procedure leaves the cache alone.
InvalidatedNever == cache

Invalidated == NoCache

\* demote: the row is read and changed in the session, the cache dropped.
Demote(d, p) ==
  /\ report[d].at = "idle" /\ rows[p] # NoRow /\ Free
  /\ report' = [report EXCEPT ![d] = [at |-> "commit", procedure |-> p, row |-> Demoted(rows[p])]]
  /\ cache' = Invalidated
  /\ UNCHANGED <<connections, clock, rows, request, learner, demotedAt, done>>

\* Only the columns that changed are written.
DemoteCommit(d) ==
  /\ report[d].at = "commit"
  /\ LET p   == report[d].procedure
         new == report[d].row
     IN  rows' = IF rows[p] = NoRow THEN rows
                 ELSE [rows EXCEPT ![p] = [status |-> new.status, successes |-> rows[p].successes,
                                           failures |-> new.failures]]
  /\ demotedAt' = [demotedAt EXCEPT ![report[d].procedure] = clock]
  /\ report' = [report EXCEPT ![d].at = "clear"]
  /\ UNCHANGED <<connections, clock, cache, request, learner, done>>

\* demote_from_metrics drops every cache after the commit.
DemoteReturns(d) ==
  /\ report[d].at = "clear"
  /\ cache' = Invalidated
  /\ report' = [report EXCEPT ![d].at = "done"]
  /\ UNCHANGED <<connections, clock, rows, request, learner, demotedAt, done>>

------------------------------------------------------------------------------
(* Learning                                                                *)

Reinforced(row) == [row EXCEPT !.successes = @ + 1]
Learned == [status |-> "candidate", successes |-> 1, failures |-> 0]

\* run, first transaction: a selected procedure with like tools is reinforced,
\* whatever its status, or else a usable one that resembles the request.
Reinforce(p, selected) ==
  /\ learner.at = "idle" /\ Free /\ done.jobs < MaxJobs
  /\ rows[p] # NoRow /\ (selected \/ rows[p].status \in Usable)
  /\ learner' = [at |-> "commit", procedure |-> p, row |-> Reinforced(rows[p])]
  /\ cache' = Invalidated
  /\ done' = [done EXCEPT !.jobs = @ + 1]
  /\ UNCHANGED <<connections, clock, rows, request, report, demotedAt>>

\* Without either the transaction ends, and the model is asked outside of any.
Generalize ==
  /\ learner.at = "idle" /\ Free /\ done.jobs < MaxJobs
  /\ learner' = [learner EXCEPT !.at = "generate"]
  /\ done' = [done EXCEPT !.jobs = @ + 1]
  /\ UNCHANGED <<connections, clock, rows, cache, request, report, demotedAt>>

\* The model fails, or finds nothing to generalize.
NothingLearned ==
  /\ learner.at = "generate" /\ learner' = [learner EXCEPT !.at = "idle"]
  /\ UNCHANGED <<connections, clock, rows, cache, request, report, demotedAt, done>>

\* store_candidate: the row of the same key, retired or not, or else a usable
\* one that resembles the candidate is reinforced; or else a candidate is added.
StoreCandidate(p, key) ==
  /\ learner.at = "generate" /\ Free
  /\ \/ p = key
     \/ rows[key] = NoRow /\ rows[p].status \in Usable
  /\ learner' = [at |-> "commit", procedure |-> p,
                 row |-> IF rows[p] = NoRow THEN Learned ELSE Reinforced(rows[p])]
  /\ cache' = Invalidated
  /\ UNCHANGED <<connections, clock, rows, request, report, demotedAt, done>>

LearnerCommit ==
  /\ learner.at = "commit"
  /\ LET p == learner.procedure
     IN  rows' = IF rows[p] = NoRow /\ learner.row # Learned THEN rows
                 ELSE IF rows[p] = NoRow THEN [rows EXCEPT ![p] = Learned]
                 ELSE [rows EXCEPT ![p].successes = learner.row.successes]
  /\ learner' = [learner EXCEPT !.at = "invalidate"]
  /\ UNCHANGED <<connections, clock, cache, request, report, demotedAt, done>>

LearnerReturns ==
  /\ learner.at = "invalidate"
  /\ cache' = Invalidated
  /\ learner' = [at |-> "idle", procedure |-> "none", row |-> NoRow]
  /\ UNCHANGED <<connections, clock, rows, request, report, demotedAt, done>>

------------------------------------------------------------------------------
(* Retention, the reviewer, time                                           *)

\* What is left of a row.
Dropped(row) == IF row.status = "validated" THEN [row EXCEPT !.status = "retired"] ELSE NoRow

\* prune: stale candidates and retired rows go, an idle or surplus validated
\* row is retired; one transaction, the cache dropped before its commit.
Prune(p) ==
  /\ Free /\ done.prunes < MaxPrunes
  /\ rows[p] # NoRow /\ rows' = [rows EXCEPT ![p] = Dropped(rows[p])] /\ cache' = Invalidated
  /\ done' = [done EXCEPT !.prunes = @ + 1]
  /\ UNCHANGED <<connections, clock, request, report, learner, demotedAt>>

\* Outside the code: a reviewer marks a row validated.
Review(p) ==
  /\ done.reviews < MaxReviews /\ rows[p].status \in {"candidate", "retired"} /\ Free
  /\ rows' = [rows EXCEPT ![p].status = "validated"]
  /\ done' = [done EXCEPT !.reviews = @ + 1]
  /\ demotedAt' = [demotedAt EXCEPT ![p] = Never]
  /\ UNCHANGED <<connections, clock, cache, request, report, learner>>

Tick ==
  /\ clock < LearningHorizon /\ clock' = clock + 1
  /\ UNCHANGED <<connections, rows, cache, request, report, learner, demotedAt, done>>

LearningNext ==
  \/ \E r \in Requests : RetrieveCached(r) \/ Select(r) \/ Fill(r)
  \/ \E d \in Reports : DemoteCommit(d) \/ DemoteReturns(d) \/ \E p \in Procedures : Demote(d, p)
  \/ \E p \in Procedures, selected \in BOOLEAN : Reinforce(p, selected)
  \/ Generalize \/ NothingLearned \/ LearnerCommit \/ LearnerReturns \/ Tick
  \/ \E p, key \in Procedures : StoreCandidate(p, key)
  \/ \E p \in Procedures : Prune(p) \/ Review(p)

LearningSpec == LearningInit /\ [][LearningNext]_learningVars

------------------------------------------------------------------------------
(* Properties                                                              *)

Row == [status : {"none", "candidate", "validated", "retired"}, successes : Nat, failures : Nat]

LearningTypeOK ==
  /\ connections \in PoolSizes /\ clock \in 0 .. LearningHorizon
  /\ rows \in [Procedures -> Row]
  /\ cache.until \in Nat /\ cache.held \subseteq Procedures
  /\ InUse <= connections

\* An answer that asked after a demotion is not given the demoted procedure: with
\* one connection never again, with more for no longer than a cache entry lives
\* (service.py:300-345, :400-428).
DemotedFadesOut ==
  \A r \in Requests : request[r].at = "served" =>
    \A p \in request[r].held :
      (demotedAt[p] # Never /\ demotedAt[p] < request[r].asked) =>
        (connections > 1 /\ request[r].asked < demotedAt[p] + ProcedureTtl)

\* What was found bad is not taught again.
LearningInv == LearningTypeOK /\ DemotedFadesOut
==============================================================================
