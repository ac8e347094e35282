---------------------------- MODULE BenchmarkSuite ----------------------------
(***************************************************************************)
(* /benchmark suite (discord/live_benchmarks.py) and the suite it runs     *)
(* (live_benchmarks.py): one suite at a time behind a lock, registered as  *)
(* the user's active request so that /cancel reaches it, its cases run one *)
(* after the other, each attempt saved before the next begins.             *)
(*                                                                         *)
(* All commands here are of one user in one channel, who may also have an  *)
(* ordinary request running.  What an attempt answers is left out: one     *)
(* that is skipped for a tool that is not there, or ends in an error, is   *)
(* saved and joins the history like any other.                             *)
(***************************************************************************)
EXTENDS Integers, Sequences, FiniteSets, SequencesExt

CONSTANTS Commands,      \* invocations of /benchmark suite
          Manifest,      \* the cases: a sequence of [scenario, turn]
          Repeats,       \* attempts per case
          NoScenario,
          MaxCancels, MaxRequests   \* bounds

\* _validate_scenario_order: the turns of a scenario come in order.
ASSUME SuiteAssumption ==
  /\ Repeats \in 1 .. 3 /\ {MaxCancels, MaxRequests} \subseteq Nat
  /\ {"none", "request"} \cap Commands = {}
  /\ Manifest \in Seq(ToSet(Manifest)) /\ Manifest # <<>>
  /\ \A i \in DOMAIN Manifest :
       LET c == Manifest[i]
       IN  IF c.scenario = NoScenario THEN c.turn = 0
           ELSE c.turn = 1 + Cardinality({j \in 1 .. (i - 1) : Manifest[j].scenario = c.scenario})

VARIABLES
  command,   \* by command: "idle", "deferring", "running" or how it ended
  lock,      \* the command that holds the suite lock, or "none"
  active,    \* the registry: the command whose task it holds, "request", or "none"
  suite,     \* the suite's task: where it is, its cases, the next attempt
  attempts,  \* by command: the attempts made, in order
  history,   \* by attempt index and scenario: what its earlier turns left
  saved,     \* by command: the attempts whose save has ended, well or not
  suiteBounds

suiteVars == <<command, lock, active, suite, attempts, history, saved, suiteBounds>>

NoTask == [at |-> "none", cases |-> <<>>, next |-> 1]
HistoryKeys == (1 .. Repeats) \X {Manifest[i].scenario : i \in DOMAIN Manifest}
NoHistory == [k \in HistoryKeys |-> <<>>]

SuiteInit ==
  /\ command = [c \in Commands |-> "idle"] /\ lock = "none" /\ active = "none"
  /\ suite = NoTask /\ attempts = [c \in Commands |-> <<>>] /\ history = NoHistory
  /\ saved = [c \in Commands |-> {}] /\ suiteBounds = [cancels |-> 0, requests |-> 0]

Over == {"reported", "cancelled", "crashed", "refused", "undelivered"}
\* The registry drops a task only when its owner clears it; a done one is not
\* active.
HasActive == active = "request" \/ (active # "none" /\ suite.at \in {"running", "saving", "stopping"})

------------------------------------------------------------------------------
(* The command                                                             *)

\* Mutant: only the case asked for is selected.
SelectAlone(i) == <<i>>

TurnOf(scenario, n) ==
  CHOOSE j \in DOMAIN Manifest : Manifest[j].scenario = scenario /\ Manifest[j].turn = n

\* The cases to run: all, or one with the earlier turns of its scenario.
SelectOne(i) ==
  LET c == Manifest[i]
  IN  IF c.turn <= 1 THEN <<i>> ELSE [n \in 1 .. c.turn |-> TurnOf(c.scenario, n)]
Selections == {[j \in DOMAIN Manifest |-> j]} \cup {SelectOne(i) : i \in DOMAIN Manifest}

\* benchmark_suite up to the defer: the two checks and the lock have no await
\* between them.
Invoke(c) ==
  /\ command[c] = "idle"
  /\ IF HasActive \/ lock # "none"
     THEN command' = [command EXCEPT ![c] = "refused"] /\ UNCHANGED lock
     ELSE command' = [command EXCEPT ![c] = "deferring"] /\ lock' = c
  /\ UNCHANGED <<active, suite, attempts, history, saved, suiteBounds>>

\* Mutant: the lock is freed only where a result is reported.
LeaveReported(c, how) ==
  command' = [command EXCEPT ![c] = how] /\ lock' = IF how = "cancelled" THEN lock ELSE "none"

\* The finally of a command.
Leave(c, how) == command' = [command EXCEPT ![c] = how] /\ lock' = "none"

DeferFails(c) ==
  /\ command[c] = "deferring" /\ Leave(c, "undelivered")
  /\ UNCHANGED <<active, suite, attempts, history, saved, suiteBounds>>

\* Mutant: the registry is not looked at again after the defer.
StartedMeanwhileUnseen == FALSE

StartedMeanwhile == HasActive

\* The registry is looked at again, and refuses a second active task.
Start(c) ==
  /\ command[c] = "deferring"
  /\ IF HasActive
     THEN /\ Leave(c, IF StartedMeanwhile THEN "refused" ELSE "crashed")
          /\ UNCHANGED <<active, suite, history>>
     ELSE /\ command' = [command EXCEPT ![c] = "running"]
          /\ active' = c /\ history' = NoHistory
          /\ \E cases \in Selections : suite' = [at |-> "running", cases |-> cases, next |-> 1]
          /\ UNCHANGED lock
  /\ UNCHANGED <<attempts, saved, suiteBounds>>

\* The command's await ends with its task: it clears its own entry only, frees
\* the lock and answers.
Return(c) ==
  /\ command[c] = "running" /\ suite.at \in {"finished", "cancelled"}
  /\ Leave(c, IF suite.at = "finished" THEN "reported" ELSE "cancelled")
  /\ active' = IF active = c THEN "none" ELSE active
  /\ suite' = NoTask
  /\ UNCHANGED <<attempts, history, saved, suiteBounds>>

------------------------------------------------------------------------------
(* The suite                                                               *)

Case == Manifest[suite.cases[((suite.next - 1) \div Repeats) + 1]]
Index == ((suite.next - 1) % Repeats) + 1

\* Mutant: the attempts of a case share their history.
KeyOfScenario(index, scenario) == <<1, scenario>>

HistoryKey(index, scenario) == <<index, scenario>>

\* An attempt ends; its prompt and its answer, or the lack of one, join the
\* history of its scenario.
Attempt ==
  /\ suite.at = "running"
  /\ LET key == HistoryKey(Index, Case.scenario)
         made == [case |-> Case, index |-> Index, saw |-> history[key]]
     IN  /\ attempts' = [attempts EXCEPT ![lock] = Append(@, made)]
         /\ history' = IF Case.scenario = NoScenario THEN history
                       ELSE [history EXCEPT ![key] = Append(@, [turn |-> Case.turn, index |-> Index])]
  /\ suite' = [suite EXCEPT !.at = "saving"]
  /\ UNCHANGED <<command, lock, active, saved, suiteBounds>>

NextAttempt(at) ==
  suite' = [suite EXCEPT !.next = @ + 1,
                         !.at = IF at = "stopping" THEN "cancelled"
                                ELSE IF suite.next = Len(suite.cases) * Repeats THEN "finished"
                                ELSE "running"]

\* The save of the last attempt ends, written or failed; a failure is noted and
\* the suite goes on.
SaveEnds ==
  /\ suite.at \in {"saving", "stopping"}
  /\ saved' = [saved EXCEPT ![lock] = @ \cup {Len(attempts[lock])}]
  /\ NextAttempt(suite.at)
  /\ UNCHANGED <<command, lock, active, attempts, history, suiteBounds>>

\* Mutant: the save is not shielded.
OnCancelUnshielded == "cancelled"

\* _finish_observer_after_cancellation: a save under way is waited for, however
\* often the task is cancelled.
OnCancel == IF suite.at = "running" THEN "cancelled" ELSE "stopping"

\* /cancel, or the shutdown's cancel_all.
Cancel ==
  /\ suiteBounds.cancels < MaxCancels /\ suiteBounds' = [suiteBounds EXCEPT !.cancels = @ + 1]
  /\ active \in Commands /\ suite.at \in {"running", "saving", "stopping"}
  /\ suite' = [suite EXCEPT !.at = OnCancel]
  /\ UNCHANGED <<command, lock, active, attempts, history, saved>>

------------------------------------------------------------------------------
(* The user's ordinary requests                                            *)

RequestStarts ==
  /\ ~ HasActive /\ suiteBounds.requests < MaxRequests
  /\ suiteBounds' = [suiteBounds EXCEPT !.requests = @ + 1]
  /\ active' = "request"
  /\ UNCHANGED <<command, lock, suite, attempts, history, saved>>

RequestEnds ==
  /\ active = "request" /\ active' = "none"
  /\ UNCHANGED <<command, lock, suite, attempts, history, saved, suiteBounds>>

SuiteProgress ==
  \/ \E c \in Commands : DeferFails(c) \/ Start(c) \/ Return(c)
  \/ Attempt \/ SaveEnds

SuiteNext ==
  \/ SuiteProgress
  \/ \E c \in Commands : Invoke(c)
  \/ Cancel \/ RequestStarts \/ RequestEnds

SuiteSpec == SuiteInit /\ [][SuiteNext]_suiteVars /\ WF_suiteVars(SuiteProgress)

------------------------------------------------------------------------------
(* Properties                                                              *)

SuiteTypeOK ==
  /\ command \in [Commands -> Over \cup {"idle", "deferring", "running"}]
  /\ lock \in Commands \cup {"none"} /\ active \in Commands \cup {"none", "request"}
  /\ suite.at \in {"none", "running", "saving", "stopping", "finished", "cancelled"}

\* A suite that has ended, cancelled or not, leaves no attempt behind whose save
\* had not ended: "Completed attempts remain stored"
\* (discord/live_benchmarks.py:137, live_benchmarks.py:781-796).
CompletedIsStored ==
  \A c \in Commands : command[c] \in Over => DOMAIN attempts[c] \subseteq saved[c]

\* An attempt at a turn of a scenario saw exactly the earlier turns of it, each
\* as the attempt of the same index left it, although the suite runs all the
\* attempts of a turn before the next turn (live_benchmarks.py:718-728).
HistoryIsOwn ==
  \A c \in Commands : \A k \in DOMAIN attempts[c] :
    LET a == attempts[c][k]
    IN  a.case.scenario # NoScenario =>
          a.saw = [t \in 1 .. (a.case.turn - 1) |-> [turn |-> t, index |-> a.index]]

\* A request that starts while the command waits for Discord makes it give way,
\* never crash: only the second look at the registry stands between them
\* (discord/live_benchmarks.py:118-124, request_control.py:17-23).
GivesWay == \A c \in Commands : command[c] # "crashed"

\* The suite lock is always freed again.
SuiteLockIsFreed == lock # "none" ~> lock = "none"

\* A suite keeps what it has done, keeps its attempts apart, and gives way.
SuiteInv == SuiteTypeOK /\ CompletedIsStored /\ HistoryIsOwn /\ GivesWay
==============================================================================
