--------------------------- MODULE BenchmarkVerdict ---------------------------
(***************************************************************************)
(* What a benchmark suite says of an answer: the frozen tools a case runs  *)
(* with, the grade of each attempt (live_benchmarks.py), and the           *)
(* comparison with a baseline (live_benchmark_baseline.py).  How a suite   *)
(* is started, cancelled and saved is BenchmarkSuite's.                    *)
(*                                                                         *)
(* The checks of an answer's text, its grounding and its metrics are one.  *)
(* A case without frozen results answers as remote tools do, but a built-in*)
(* fixture is never late.  Left out: repeats, latency, the verdict of deep *)
(* research.  Two rates of suites as small as these differ by more than    *)
(* the tolerance or not at all.                                            *)
(***************************************************************************)
EXTENDS Integers, Sequences, FiniteSets, SequencesExt

CONSTANTS BenchCases,   \* the manifest: a sequence of cases
          CallForms,    \* the calls a model may make: a tool, arguments, how they are written
          Quoting,      \* tools whose result carries the provider's status
          Selected,     \* what --case-id or the command may select: sets of cases
          ToolSets,     \* what the bot may have configured for canaries
          MaxForms      \* bound: calls of one attempt

ASSUME VerdictAssumption ==
  /\ MaxForms \in Nat /\ BenchCases \in Seq(ToSet(BenchCases))
  /\ \A cases \in Selected : cases \subseteq DOMAIN BenchCases
  /\ \A i \in DOMAIN BenchCases :
       /\ BenchCases[i].frozen \in Seq(ToSet(BenchCases[i].frozen))
       /\ IsFiniteSet(BenchCases[i].need) /\ IsFiniteSet(BenchCases[i].tried)
       /\ IsFiniteSet(BenchCases[i].never)
       /\ (BenchCases[i].need \cup BenchCases[i].tried) \cap BenchCases[i].never = {}

VARIABLES
  batch,     \* the suite that runs: from where, what it selected, the tools it finds
  run,       \* the attempt under way: the fixtures that are left and the calls made
  last,      \* the last graded attempt
  grades,    \* the grades of the suite so far
  basis,     \* the grades the baseline was written from
  outcome    \* of the comparison

verdictVars == <<batch, run, last, grades, basis, outcome>>

NoBatch == [at |-> "none", cases |-> {}, tools |-> {}]
NotRunning == [case |-> 0, left |-> {}, log |-> <<>>]
NotGraded == [case |-> 0, log |-> <<>>, end |-> "none", grade |-> "none"]

VerdictInit ==
  /\ batch = NoBatch /\ run = NotRunning /\ last = NotGraded
  /\ grades = <<>> /\ basis = <<>> /\ outcome = "none"

------------------------------------------------------------------------------
(* An attempt                                                              *)

\* The script looks at no tools; the command asks the runner of the case.
Unavailable(case) ==
  /\ batch.at = "command" /\ case.live
  /\ \/ ~ (case.need \cup case.tried) \subseteq batch.tools
     \/ case.any # {} /\ case.any \cap batch.tools = {}

\* _replay: of the fixtures that are left, the first with this tool and these very
\* arguments is used up.
Replayed(left, case, form) ==
  LET fits  == {i \in left : case.frozen[i].tool = form.tool /\ case.frozen[i].args = form.args}
      first == CHOOSE i \in fits : \A j \in fits : i <= j
  IN  IF fits = {} THEN [from |-> 0, status |-> "error", left |-> left]
      ELSE [from |-> first, status |-> case.frozen[first].status, left |-> left \ {first}]

Entry(form, from, status, broken) ==
  [form |-> form, from |-> from, status |-> status, broken |-> broken]

\* A call that the agent has not made yet, as it is written.
CallTool(form) ==
  LET case == BenchCases[run.case]
      found == Replayed(run.left, case, form)
      Log(e) == run' = [run EXCEPT !.log = Append(@, e)]
  IN  /\ run.case # 0 /\ Len(run.log) < MaxForms
      /\ \A i \in DOMAIN run.log : run.log[i].form # form
      /\ IF case.frozen # <<>>
         THEN run' = [run EXCEPT !.left = found.left,
                                 !.log = Append(@, Entry(form, found.from, found.status, FALSE))]
         ELSE \/ \E status \in {"ok", "empty", "error"} : Log(Entry(form, 0, status, FALSE))
              \/ case.live /\ Log(Entry(form, 0, "timeout", FALSE))
              \/ case.live /\ form.tool \in Quoting /\ Log(Entry(form, 0, "error", TRUE))
      /\ UNCHANGED <<batch, last, grades, basis, outcome>>

\* How a run ends: with the model's text, or in the final pass after the provider or
\* something else stopped it, which brings an answer or a fallback.  Without a turn of
\* the model no tool was called.
AttemptEnds ==
  [good : BOOLEAN, stop : {"final", "provider", "other"}, fallback : BOOLEAN, spoke : BOOLEAN]
MayEnd(e, log) ==
  /\ (log # <<>> \/ e.stop = "final" \/ ~ e.fallback) => e.spoke
  /\ e.stop = "final" => ~ e.fallback

Delivered(log) == {log[i].form.tool : i \in {j \in DOMAIN log : log[j].status = "ok"}}
Asked(log) == {log[i].form.tool : i \in DOMAIN log}

\* A tool that times out leaves the status of an earlier call.
StatusBroken(log, t) ==
  LET told == {i \in DOMAIN log : log[i].form.tool = t /\ log[i].status # "timeout"}
  IN  told # {} /\ log[CHOOSE i \in told : \A j \in told : j <= i].broken

\* infrastructure_error
Infrastructure(log, e) ==
  \/ Delivered(log) = {} /\ \E i \in DOMAIN log : log[i].status = "timeout"
  \/ e.stop = "provider" /\ ~ e.spoke
  \/ e.fallback
  \/ \E t \in Quoting : StatusBroken(log, t)

\* evaluate_live_benchmark: what is checked of a case, and when it holds.
Checks(case) ==
  {<<"answer", "">>, <<"stop", "">>, <<"limit", "">>}
  \cup ({"need"} \X case.need) \cup ({"tried"} \X case.tried) \cup ({"never"} \X case.never)
  \cup {<<"any", "">> : any \in {case.any} \ {{}}}

Holds(check, case, log, e) ==
  /\ check[1] = "answer" => e.good
  /\ check[1] = "stop"   => e.stop = "final"
  /\ check[1] = "limit"  => Len(log) <= case.limit
  /\ check[1] = "need"   => check[2] \in Delivered(log)
  /\ check[1] = "tried"  => check[2] \in Asked(log)
  /\ check[1] = "any"    => case.any \cap Delivered(log) # {}
  /\ check[1] = "never"  => check[2] \notin Asked(log)

Held(case, log, e) == {check \in Checks(case) : Holds(check, case, log, e)}

Grade(case, log, e) ==
  IF Infrastructure(log, e) THEN "error"
  ELSE IF Held(case, log, e) = Checks(case) THEN "pass" ELSE "fail"

------------------------------------------------------------------------------
(* A suite                                                                 *)

CasesOf(g) == {g[i].case : i \in DOMAIN g}
ToDo == batch.cases \ CasesOf(grades)
NextCase == CHOOSE i \in ToDo : \A k \in ToDo : i <= k

Graded(i, status, score, max) ==
  grades' = Append(grades, [case |-> i, status |-> status, score |-> score, max |-> max])

\* A suite of the script, which writes a baseline or compares with it, or of the command.
StartSuite(at) ==
  /\ batch = NoBatch /\ outcome = "none"
  /\ at = "command" => basis = <<>>
  /\ \E cases \in Selected, tools \in ToolSets :
       batch' = [at |-> at, cases |-> cases, tools |-> IF at = "command" THEN tools ELSE {}]
  /\ UNCHANGED <<run, last, grades, basis, outcome>>

BeginAttempt ==
  /\ batch # NoBatch /\ run.case = 0 /\ ToDo # {}
  /\ LET case == BenchCases[NextCase]
     IN  IF Unavailable(case)
         THEN Graded(NextCase, "skip", 0, 0) /\ last' = NotGraded /\ UNCHANGED run
         ELSE /\ run' = [case |-> NextCase, left |-> DOMAIN case.frozen, log |-> <<>>]
              /\ last' = NotGraded /\ UNCHANGED grades
  /\ UNCHANGED <<batch, basis, outcome>>

EndAttempt ==
  /\ run.case # 0
  /\ \E e \in AttemptEnds :
       LET case  == BenchCases[run.case]
           grade == Grade(case, run.log, e)
       IN  /\ MayEnd(e, run.log)
           /\ IF grade = "error" THEN Graded(run.case, grade, 0, 0)
              ELSE Graded(run.case, grade, Cardinality(Held(case, run.log, e)), Cardinality(Checks(case)))
           /\ last' = [case |-> run.case, log |-> run.log, end |-> e, grade |-> grade]
  /\ run' = NotRunning
  /\ UNCHANGED <<batch, basis, outcome>>

\* The answer could not be generated at all.
AttemptRaises ==
  /\ run.case # 0
  /\ Graded(run.case, "error", 0, 0)
  /\ run' = NotRunning
  /\ UNCHANGED <<batch, last, basis, outcome>>

\* aggregate_live_benchmark_suite
Tally(g, status) == Cardinality({i \in DOMAIN g : g[i].status = status})
Evaluated(g) == Len(g) - Tally(g, "skip")
Sums(g) ==
  LET sum[n \in 0 .. Len(g)] ==
        IF n = 0 THEN [score |-> 0, max |-> 0]
        ELSE [score |-> sum[n - 1].score + g[n].score, max |-> sum[n - 1].max + g[n].max]
  IN  sum
Scored(g) == Sums(g)[Len(g)].score
Scorable(g) == Sums(g)[Len(g)].max

\* _case_baseline
Passes(g, i) ==
  LET active == {k \in DOMAIN g : g[k].case = i /\ g[k].status # "skip"}
  IN  active # {} /\ \A k \in active : g[k].status = "pass"

\* a / b fell to c / d, where no attempt makes a rate of zero.
Fell(a, b, c, d) == b # 0 /\ a > 0 /\ (d = 0 \/ c * b < a * d)

\* compare_live_benchmark_baseline
HoldsAgainst(now, base) ==
  /\ CasesOf(now) = CasesOf(base)
  /\ Tally(now, "fail") <= Tally(base, "fail") /\ Tally(now, "error") <= Tally(base, "error")
  /\ ~ Fell(Tally(base, "pass"), Evaluated(base), Tally(now, "pass"), Evaluated(now))
  /\ ~ Fell(Scored(base), Scorable(base), Scored(now), Scorable(now))
  /\ \A i \in CasesOf(base) : Passes(base, i) => Passes(now, i)

EndSuite ==
  /\ batch # NoBatch /\ run.case = 0 /\ ToDo = {}
  /\ batch' = NoBatch
  /\ IF batch.at = "command" THEN outcome' = "told" /\ UNCHANGED <<grades, basis>>
     ELSE IF basis = <<>> THEN basis' = grades /\ grades' = <<>> /\ UNCHANGED outcome
     ELSE /\ outcome' = IF HoldsAgainst(grades, basis) THEN "passed" ELSE "failed"
          /\ UNCHANGED <<grades, basis>>
  /\ last' = NotGraded /\ UNCHANGED run

VerdictNext ==
  \/ \E at \in {"script", "command"} : StartSuite(at)
  \/ BeginAttempt \/ EndAttempt \/ AttemptRaises \/ EndSuite
  \/ \E form \in CallForms : CallTool(form)

VerdictSpec == VerdictInit /\ [][VerdictNext]_verdictVars

------------------------------------------------------------------------------
(* Properties                                                              *)

VerdictTypeOK ==
  /\ run.case \in 0 .. Len(BenchCases) /\ Len(run.log) <= MaxForms
  /\ outcome \in {"none", "told", "passed", "failed"}
  /\ \A i \in DOMAIN grades : grades[i].score <= grades[i].max

\* Within an attempt a fixture answers one call, and that with the arguments it was frozen
\* for; the next attempt has it again.
FixturesAnswerOnce ==
  \A i \in DOMAIN run.log : run.log[i].from # 0 =>
    LET f == BenchCases[run.case].frozen[run.log[i].from]
    IN  /\ f.tool = run.log[i].form.tool /\ f.args = run.log[i].form.args
        /\ \A j \in DOMAIN run.log : j # i => run.log[j].from # run.log[i].from

\* An attempt passes only if every tool it needed was asked and delivered: for a frozen
\* case, what was frozen for it.
PassIsBacked ==
  last.grade = "pass" =>
    LET case == BenchCases[last.case]
    IN  /\ last.end.spoke /\ ~ last.end.fallback
        /\ \A t \in case.need : \E i \in DOMAIN last.log :
             /\ last.log[i].form.tool = t /\ last.log[i].status = "ok"
             /\ case.frozen # <<>> => last.log[i].from # 0
        /\ \A i \in DOMAIN last.log : last.log[i].form.tool \notin case.never

\* A model fails only if it had its say and was not left without any tool by timeouts.
ModelIsNotBlamed ==
  last.grade = "fail" =>
    /\ last.end.spoke /\ ~ last.end.fallback
    /\ (\E i \in DOMAIN last.log : last.log[i].status = "timeout") =>
         \E i \in DOMAIN last.log : last.log[i].status = "ok"

\* "gate later changes against it" (README.md:399): a change passes only if every case that
\* passed does, in whatever other case the suite has become better.
RegressionsAreSeen ==
  outcome = "passed" =>
    \A i \in DOMAIN basis : basis[i].status = "pass" =>
      \E j \in DOMAIN grades : grades[j].case = basis[i].case /\ grades[j].status = "pass"

\* It is not held up when no attempt has become worse.
Better(was, is) ==
  was.case = is.case /\ (is.status = "pass" \/ (is.status = was.status /\ is.score >= was.score))
NoFalseAlarm ==
  outcome = "failed" =>
    ~ (Len(grades) = Len(basis) /\ \A i \in DOMAIN basis : Better(basis[i], grades[i]))

\* Every part of it.
VerdictInv ==
  /\ VerdictTypeOK /\ FixturesAnswerOnce /\ PassIsBacked /\ ModelIsNotBlamed
  /\ RegressionsAreSeen /\ NoFalseAlarm
==============================================================================
