------------------------------ MODULE AgentRun ------------------------------
(***************************************************************************)
(* One agent run: AgentChatMixin.run_chat_with_tools and what it calls to  *)
(* select, budget and execute tools and to finalize the answer             *)
(* (chat/orchestrator.py, run_state.py, tool_flow.py, tool_budget.py,      *)
(* tool_runner.py, finalization.py, model_runner.py).                      *)
(*                                                                         *)
(* A model turn is answered by text, by nothing usable, by an exception,   *)
(* or by a sequence of tool calls.  A tool call is identified by its       *)
(* signature (tool_call_signature: name and normalised arguments), an      *)
(* element of Calls; its id is its index in the turn.  Prompt text,        *)
(* evidence ledgers and metrics are left out.  The model, the tools and    *)
(* the clock are the environment.  Time is discrete: work may be done      *)
(* until WorkEnd, the finalization reserve lasts until RunEnd.             *)
(***************************************************************************)
EXTENDS Naturals, Sequences, FiniteSets

CONSTANTS Calls,            \* call signatures the model can emit
          ToolOf,           \* the tool each signature names
          Malformed,        \* signatures whose arguments do not parse
          Eligible,         \* tools exposed by the answer plan
          MaxBatch,         \* bound: tool calls in one turn
          MaxModelTurns, MaxToolCost, MaxDeep,   \* AgentBudget
          MaxCorrections, MaxContinuations,
          WorkEnd, RunEnd,  \* deadline minus reserve, and deadline
          DeepWork          \* min_work_seconds_to_start of deep_research

ASSUME RunAssumption ==
    /\ ToolOf \in [Calls -> STRING] /\ Malformed \subseteq Calls
    /\ IsFiniteSet(Calls)
    /\ {MaxBatch, MaxModelTurns, MaxToolCost, MaxDeep, MaxCorrections,
        MaxContinuations, WorkEnd, RunEnd, DeepWork} \subseteq Nat
    /\ WorkEnd < RunEnd

VARIABLES pc,          \* where run_chat_with_tools is suspended
          now, begin,  \* seconds since started_at; begin: at the first turn
          turns,       \* run.model_turns
          request,     \* the turn's tool calls
          replies,     \* tool messages appended for each of them
          batch,       \* indices being executed
          results,     \* what the ToolRunner knows of each of them
          cost, deep,  \* run.tool_cost_units, run.deep_research_calls
          kinds, continuations,       \* run.correction_kinds, .continuations
          seen, attempted, available, \* signatures; tools tried; tools exposed
          stop, status,               \* run.stop_reason, run.final_status
          executed,    \* times each signature was started (history)
          finals       \* tools-disabled final passes (history)

budgets == <<turns, cost, deep, kinds, continuations>>
toolState == <<request, replies, batch, results, seen, attempted, available,
               executed>>
vars == <<pc, now, begin, budgets, toolState, stop, status, finals>>

Edit    == "watchlist"
Report  == "market_report"
Deep    == "deep_research"
Context == "channel_ctx"
CorrectionKind == {"duplicate_tool", "empty_turn", "answer_repair"}
StopReason == {"none", "final_text", "duplicate_tool_call", "empty_turn",
               "model_turn_budget", "tool_call_budget", "deadline",
               "provider_error"}
Result == {"waiting", "running", "ok", "rendered", "failed", "blocked"}
Settled == Result \ {"waiting", "running"}

-----------------------------------------------------------------------------
(* Budgets. *)

\* Mutant: the loop is bounded by its deadline alone.
CanStartUntilDeadline == now < WorkEnd

CanStartTurn == turns < MaxModelTurns /\ now < WorkEnd
MayCorrect(kind) == kind \notin kinds /\ Cardinality(kinds) < MaxCorrections
MayContinue == continuations < MaxContinuations /\ now < RunEnd
HasSpareUnits == cost < MaxToolCost

\* Cost units of a set of signatures: 4 for the expensive tools, 1 otherwise.
Bill(C) == Cardinality(C)
           + 3 * Cardinality({c \in C : ToolOf[c] \in {Report, Deep}})
DeepIn(C) == Cardinality({c \in C : ToolOf[c] = Deep})
CallsAt(r, S) == {r[i] : i \in S}
Waiting(S) == [i \in S |-> "waiting"]
Requests == UNION {[1..n -> Calls] : n \in 1..MaxBatch}

\* Mutant: duplicates are looked for in the same turn only.
FreshInTurn(r) ==
    {i \in DOMAIN r : /\ ToolOf[r[i]] \in available
                      /\ \A j \in 1..(i-1) : r[j] # r[i]}

\* select_fresh_tool_calls: exposed, not seen, the first of its signature, and
\* the only read of the channel's context.
Fresh(r) ==
    {i \in DOMAIN r :
        /\ ToolOf[r[i]] \in available /\ r[i] \notin seen
        /\ \A j \in 1..(i-1) : r[j] # r[i]
        /\ ToolOf[r[i]] = Context =>
             /\ Context \notin attempted
             /\ \A j \in 1..(i-1) : ToolOf[r[j]] = Context => r[j] \in seen}

Affordable(r, admitted, i) ==
    /\ ToolOf[r[i]] = Deep => /\ DeepIn(CallsAt(r, admitted)) < MaxDeep - deep
                              /\ now + DeepWork <= WorkEnd
    /\ Bill(CallsAt(r, admitted)) + Bill({r[i]}) <= MaxToolCost - cost

\* S is the batch select_tool_calls_within_budget admits: taken in order, each
\* fresh call that still fits.
Admitted(r, S) ==
    \A i \in Fresh(r) : i \in S <=> Affordable(r, {j \in S : j < i}, i)

\* The deep_research_status of an outcome.  The executor answers a call whose
\* arguments do not parse without metrics; the research service only reports
\* how the research went.
DeepStatus(c) == IF c \in Malformed THEN "" ELSE "researched"

\* The deep-research calls record_execution counts once there are outcomes.
DeepCounted ==
    {i \in batch : ToolOf[request[i]] = Deep
        /\ DeepStatus(request[i]) \notin {"invalid_arguments", "invalid_inputs"}}

\* Every call outside S gets its skipped or rejected message at once.
SkipAllBut(r, S) == [i \in DOMAIN r |-> IF i \in S THEN 0 ELSE 1]

ReplyTo(S) == [i \in DOMAIN request |-> replies[i] + IF i \in S THEN 1 ELSE 0]

-----------------------------------------------------------------------------
Init ==
    /\ begin \in 0..(RunEnd + 1) /\ now = begin
    /\ pc = "loop" /\ turns = 0 /\ cost = 0 /\ deep = 0
    /\ kinds = {} /\ continuations = 0
    /\ request = <<>> /\ replies = <<>> /\ batch = {} /\ results = <<>>
    /\ seen = {} /\ attempted = {} /\ available = Eligible
    /\ stop = "none" /\ status = "running"
    /\ executed = [c \in Calls |-> 0] /\ finals = 0

-----------------------------------------------------------------------------
(* The loop: one model turn at a time. *)

Goto(where) == pc' = where
Break(reason) == pc' = "finalize" /\ stop' = reason

\* The next turn is requested; the last one's calls are history.
StartTurn ==
    /\ pc = "loop" /\ CanStartTurn
    /\ Goto("asking")
    /\ request' = <<>> /\ replies' = <<>>
    /\ UNCHANGED <<now, begin, budgets, batch, results, seen, attempted,
                   available, executed, stop, status, finals>>

LoopEnds ==
    /\ pc = "loop" /\ ~CanStartTurn
    /\ Break(IF now >= WorkEnd THEN "deadline" ELSE "model_turn_budget")
    /\ UNCHANGED <<now, begin, budgets, toolState, status, finals>>

\* call_agent_model raises: its wait_for fires, or the client gives up.
TurnFails ==
    /\ pc = "asking"
    /\ \/ now >= WorkEnd /\ Break("deadline")
       \/ Break("provider_error")
    /\ UNCHANGED <<now, begin, budgets, toolState, status, finals>>

\* One correction of each kind; without it the run stops for the reason.
Correct(kind, reason) ==
    \/ /\ MayCorrect(kind) /\ Goto("loop")
       /\ kinds' = kinds \union {kind} /\ UNCHANGED stop
    \/ /\ ~MayCorrect(kind) /\ Break(reason) /\ UNCHANGED kinds

\* The turn asks for tools, but only for what it may not use or already did.
AskDuplicates ==
    /\ pc = "asking" /\ turns' = turns + 1
    /\ \E r \in Requests :
         /\ Fresh(r) = {}
         /\ request' = r /\ replies' = SkipAllBut(r, {})
    /\ Correct("duplicate_tool", "duplicate_tool_call")
    /\ UNCHANGED <<now, begin, cost, deep, continuations, batch, results, seen,
                   attempted, available, executed, status, finals>>

\* No fresh call fits the budget: the tools just refused are withdrawn.
AskUnaffordable ==
    /\ pc = "asking" /\ turns' = turns + 1
    /\ \E r \in Requests :
         /\ Fresh(r) # {} /\ Admitted(r, {})
         /\ request' = r /\ replies' = SkipAllBut(r, {})
         /\ \/ /\ turns' < MaxModelTurns /\ now < WorkEnd
               /\ available' = IF HasSpareUnits
                               THEN available \ {ToolOf[r[i]] : i \in Fresh(r)}
                               ELSE {}
               /\ Goto("loop") /\ UNCHANGED stop
            \/ /\ ~(turns' < MaxModelTurns /\ now < WorkEnd)
               /\ Break("tool_call_budget") /\ UNCHANGED available
    /\ UNCHANGED <<now, begin, cost, deep, kinds, continuations, batch, results,
                   seen, attempted, executed, status, finals>>

AskTools ==
    /\ pc = "asking" /\ turns' = turns + 1
    /\ \E r \in Requests : \E S \in (SUBSET Fresh(r)) \ {{}} :
         /\ Admitted(r, S)
         /\ request' = r /\ replies' = SkipAllBut(r, S)
         /\ batch' = S /\ results' = Waiting(S)
         /\ seen' = seen \union CallsAt(r, S)
    /\ Goto("tools")
    /\ UNCHANGED <<now, begin, cost, deep, kinds, continuations, attempted,
                   available, executed, stop, status, finals>>

-----------------------------------------------------------------------------
(* ToolRunner.run: edits one after the other, then everything else at once. *)

ToolAt(i) == ToolOf[request[i]]
EditsIn(S) == {i \in S : ToolAt(i) = Edit}
Awaiting == \E i \in batch : results[i] = "running"
Start(S) ==
    executed' = [c \in Calls |-> IF c \in CallsAt(request, S)
                                 THEN executed[c] + 1 ELSE executed[c]]

\* Mutant: the edits are started, but not awaited, before the rest.
EditsStarted == \A j \in EditsIn(batch) : results[j] # "waiting"
EditsReturned == \A j \in EditsIn(batch) : results[j] \in Settled

BeginEdit ==
    /\ pc = "tools"
    /\ \E i \in EditsIn(batch) :
         /\ results[i] = "waiting"
         /\ \A j \in EditsIn(batch) : j < i => results[j] \in Settled
         /\ results' = [results EXCEPT ![i] = "running"]
         /\ Start({i})
    /\ UNCHANGED <<pc, now, begin, budgets, request, replies, batch, seen,
                   attempted, available, stop, status, finals>>

\* Every edit has returned; a report waits for none that failed.
BeginReads ==
    LET blocked == IF \E j \in EditsIn(batch) : results[j] = "failed"
                   THEN {i \in batch : ToolAt(i) = Report} ELSE {}
        reads == batch \ (EditsIn(batch) \union blocked)
    IN  /\ pc = "tools"
        /\ EditsReturned
        /\ \E i \in batch : ToolAt(i) # Edit /\ results[i] = "waiting"
        /\ results' = [i \in batch |-> IF i \in reads THEN "running"
                                       ELSE IF i \in blocked THEN "blocked"
                                       ELSE results[i]]
        /\ Start(reads)
        /\ UNCHANGED <<pc, now, begin, budgets, request, replies, batch, seen,
                       attempted, available, stop, status, finals>>

\* A tool returns, fails or exceeds its own timeout.  Only the watchlist and
\* the report render a terminal reply themselves.
ToolReturns ==
    /\ pc = "tools"
    /\ \E i \in batch :
         /\ results[i] = "running"
         /\ \E res \in {"ok", "rendered", "failed"} :
              /\ request[i] \in Malformed => res = "failed"
              /\ res = "rendered" => ToolAt(i) \in {Edit, Report}
              /\ results' = [results EXCEPT ![i] = res]
    /\ UNCHANGED <<pc, now, begin, budgets, request, replies, batch, seen,
                   attempted, available, executed, stop, status, finals>>

\* execute_tool_batch appends the outcomes and records what the batch cost.
CloseBatch(counted) ==
    /\ replies' = ReplyTo(batch)
    /\ cost' = cost + Bill(CallsAt(request, batch))
    /\ deep' = deep + DeepIn(CallsAt(request, counted))
    /\ attempted' = attempted \union {ToolAt(i) : i \in batch}
    /\ batch' = {} /\ results' = <<>>

DirectReply == batch = DOMAIN request /\ \A i \in batch : results[i] = "rendered"

BatchDone ==
    /\ pc = "tools" /\ \A i \in batch : results[i] \in Settled
    /\ CloseBatch(DeepCounted)
    /\ \/ /\ DirectReply
          /\ Goto("done") /\ stop' = "final_text" /\ status' = "success"
       \/ /\ ~DirectReply /\ cost' >= MaxToolCost
          /\ Break("tool_call_budget") /\ UNCHANGED status
       \/ /\ ~DirectReply /\ cost' < MaxToolCost
          /\ Goto("loop") /\ UNCHANGED <<stop, status>>
    /\ UNCHANGED <<now, begin, turns, kinds, continuations, request, seen,
                   available, executed, finals>>

\* Mutant: a timed-out call gets no tool message.
TimesOutUnanswered ==
    /\ pc = "tools" /\ Awaiting /\ now >= WorkEnd
    /\ batch' = {} /\ results' = <<>>
    /\ Break("deadline")
    /\ UNCHANGED <<now, begin, budgets, request, replies, seen, attempted,
                   available, executed, status, finals>>
\* Mutant: the tools are awaited without a deadline.
TimesOutNever == FALSE /\ UNCHANGED vars

\* wait_for(tool_runner.run(...)) fires: no result is kept, all is billed.
BatchTimesOut ==
    /\ pc = "tools" /\ Awaiting /\ now >= WorkEnd
    /\ CloseBatch(batch)
    /\ Break("deadline")
    /\ UNCHANGED <<now, begin, turns, kinds, continuations, request, seen,
                   available, executed, status, finals>>

-----------------------------------------------------------------------------
(* Text. *)

\* continue_once_if_needed: the answer looks cut and one more call may be made.
Deliver ==
    \/ Goto("done") /\ UNCHANGED continuations
    \/ MayContinue /\ Goto("continuing") /\ continuations' = continuations + 1

TextAnswer ==
    /\ pc = "asking" /\ turns' = turns + 1
    /\ \/ /\ MayCorrect("answer_repair") /\ Goto("loop")
          /\ kinds' = kinds \union {"answer_repair"}
          /\ UNCHANGED <<continuations, stop, status>>
       \/ /\ Deliver /\ stop' = "final_text" /\ status' = "success"
          /\ UNCHANGED kinds
    /\ UNCHANGED <<now, begin, cost, deep, toolState, finals>>

\* No text and no calls, or raw tool output.
EmptyTurn ==
    /\ pc = "asking" /\ turns' = turns + 1
    /\ Correct("empty_turn", "empty_turn")
    /\ UNCHANGED <<now, begin, cost, deep, continuations, toolState, status,
                   finals>>

\* Mutant: the final pass is measured against the work deadline.
FinalizeInWorkTime ==
    /\ pc = "finalize"
    /\ \/ /\ now < WorkEnd
          /\ Goto("finalizing") /\ finals' = finals + 1 /\ UNCHANGED status
       \/ /\ now >= WorkEnd
          /\ Goto("done") /\ status' = "fallback" /\ UNCHANGED finals
    /\ UNCHANGED <<now, begin, budgets, toolState, stop>>

\* finalize_run: one tools-disabled pass in what is left of the run.
Finalize ==
    /\ pc = "finalize"
    /\ \/ /\ now < RunEnd
          /\ Goto("finalizing") /\ finals' = finals + 1 /\ UNCHANGED status
       \/ /\ now >= RunEnd
          /\ Goto("done") /\ status' = "fallback" /\ UNCHANGED finals
    /\ UNCHANGED <<now, begin, budgets, toolState, stop>>

\* The pass raises, or returns nothing usable: a canned reply goes out.
FinalFails ==
    /\ pc = "finalizing"
    /\ turns' \in {turns, turns + 1}
    /\ Goto("done") /\ status' = "fallback"
    /\ UNCHANGED <<now, begin, cost, deep, kinds, continuations, toolState, stop,
                   finals>>

FinalText ==
    /\ pc = "finalizing" /\ turns' = turns + 1
    /\ Deliver
    /\ status' = IF pc' = "done" THEN "recovered" ELSE status
    /\ UNCHANGED <<now, begin, cost, deep, kinds, toolState, stop, finals>>

\* The continuation is joined, useless, or raises: the answer is kept anyway.
ContinuationEnds ==
    /\ pc = "continuing"
    /\ turns' \in {turns, turns + 1} /\ Goto("done")
    /\ status' = IF stop = "final_text" THEN status ELSE "recovered"
    /\ UNCHANGED <<now, begin, cost, deep, kinds, continuations, toolState, stop,
                   finals>>

-----------------------------------------------------------------------------
(* The environment.  A wait_for that is due fires before time goes on. *)

Tick ==
    /\ \/ pc = "asking" /\ now < WorkEnd
       \/ pc = "tools" /\ Awaiting /\ now < WorkEnd
       \/ pc \in {"finalizing", "continuing"} /\ now < RunEnd
    /\ now' = now + 1
    /\ UNCHANGED <<pc, begin, budgets, toolState, stop, status, finals>>

\* The request's task is cancelled (/cancel, shutdown) at one of its awaits.
Cancelled ==
    /\ pc \in {"asking", "tools", "finalizing", "continuing"}
    /\ pc = "tools" => Awaiting
    /\ Goto("cancelled")
    /\ UNCHANGED <<now, begin, budgets, toolState, stop, status, finals>>

Terminated == pc \in {"done", "cancelled"} /\ UNCHANGED vars

Next ==
    \/ StartTurn \/ LoopEnds \/ TurnFails
    \/ AskDuplicates \/ AskUnaffordable \/ AskTools
    \/ BeginEdit \/ BeginReads \/ ToolReturns \/ BatchDone \/ BatchTimesOut
    \/ TextAnswer \/ EmptyTurn
    \/ Finalize \/ FinalFails \/ FinalText \/ ContinuationEnds
    \/ Tick \/ Cancelled \/ Terminated

Spec == Init /\ [][Next]_vars
\* What the event loop owes the run: its clock advances, what is ready goes on,
\* and a wait that is due ends.  The model and the tools owe it nothing.
Scheduled ==
    \/ StartTurn \/ LoopEnds \/ TurnFails
    \/ BeginEdit \/ BeginReads \/ BatchDone \/ BatchTimesOut
    \/ Finalize \/ FinalFails \/ ContinuationEnds \/ Tick
FairSpec == Spec /\ WF_vars(Scheduled)

-----------------------------------------------------------------------------
(* Properties. *)

RunTypes ==
    /\ pc \in {"loop", "asking", "tools", "finalize", "finalizing",
               "continuing", "done", "cancelled"}
    /\ now \in Nat /\ begin \in 0..now /\ turns \in Nat
    /\ finals \in 0..1 /\ (pc \notin {"done", "continuing", "finalizing", "cancelled"}
                             => finals = 0)
    /\ cost \in Nat /\ deep \in Nat
    /\ kinds \subseteq CorrectionKind /\ continuations \in 0..MaxContinuations
    /\ stop \in StopReason
    /\ status \in {"running", "success", "recovered", "fallback"}
ToolTypes ==
    /\ request \in Requests \union {<<>>}
    /\ replies \in [DOMAIN request -> Nat]
    /\ batch \subseteq DOMAIN request /\ results \in [batch -> Result]
    /\ seen \subseteq Calls /\ attempted \subseteq STRING
    /\ available \subseteq Eligible
    /\ executed \in [Calls -> Nat]

\* The run's counters stay within AgentBudget and its bookkeeping in shape: a
\* batch is open exactly while tools are awaited, and one final pass is made.
TypeOK ==
    /\ RunTypes /\ ToolTypes
    /\ pc # "cancelled" => (pc = "tools") = (batch # {})

\* Before the model is called again every tool call of the last turn has
\* exactly one tool message, whichever of the five ways it was answered: the
\* provider rejects a history with an unanswered or twice answered call.
EveryCallAnswered ==
    \A i \in DOMAIN request :
        replies[i] = IF pc \in {"tools", "cancelled"} /\ i \in batch THEN 0 ELSE 1

\* "Exact argument signatures prevent repeated calls": no signature is started
\* twice in a run, after a failure, a timeout or a correction either.
SameCallOnce == \A c \in Calls : executed[c] <= 1

\* At most one bounded read of the channel per response, also when two reads
\* with different arguments come in one turn.
ContextReadOnce ==
    \A c, d \in Calls : /\ ToolOf[c] = Context /\ ToolOf[d] = Context
                        /\ executed[c] > 0 /\ executed[d] > 0
                        => c = d

\* What was really started never costs more than the server-owned budget, and
\* never includes more deep research than allowed.
WithinBudget ==
    LET started == {c \in Calls : executed[c] > 0}
    IN  Bill(started) <= MaxToolCost /\ DeepIn(started) <= MaxDeep

\* Corrections, repairs and refused batches never buy extra model calls: the
\* loop's turns, one final pass and the continuations bound them.
BoundedModelCalls ==
    turns <= MaxModelTurns + finals + continuations

\* Neither tools nor model calls go beyond what the run was given at its start.
StaysInBounds == WithinBudget /\ BoundedModelCalls

\* Nothing runs twice: no signature, and no second read of the channel; the
\* bookkeeping that sees to it is well formed.
RunInv == TypeOK /\ SameCallOnce /\ ContextReadOnce

\* Whatever ends the loop, the user gets the model's own text or a final pass
\* was made: the reserve is still there unless the run began without it.
FinalPass ==
    pc = "done" =>
        \/ stop = "final_text" /\ status = "success"
        \/ stop # "final_text" /\ finals = 1 /\ status \in {"recovered", "fallback"}
        \/ stop = "deadline" /\ begin >= RunEnd /\ status = "fallback"

\* "A same-turn report must observe confirmed watchlist changes": a report
\* starts after every edit of its batch was confirmed, and not at all if one
\* failed.
ReportSeesEdits ==
    \A i, j \in batch :
        /\ ToolAt(i) = Report /\ results[i] \notin {"waiting", "blocked"}
        /\ ToolAt(j) = Edit
        => results[j] \in {"ok", "rendered"}

\* Every request is answered: no sequence of duplicate, refused, empty or
\* repaired turns and no slow tool keeps the run going for ever.
Terminates == <>(pc \in {"done", "cancelled"})

\* Invalid deep-research arguments do not consume the run's allowance, so
\* that the call can be corrected and retried (registry.py, tests).
InvalidResearchIsFree ==
    deep <= DeepIn(seen \ Malformed)

=============================================================================
