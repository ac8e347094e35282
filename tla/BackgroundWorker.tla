--------------------------- MODULE BackgroundWorker ---------------------------
(***************************************************************************)
(* BoundedBackgroundWorker (background_worker.py): a bounded asyncio queue *)
(* with one consumer task.  The memory writer, the procedure learner, the  *)
(* emoji learner and the telemetry writer each own one and supply its      *)
(* handler; a module that extends this one says what the handler does      *)
(* between Take and Settle.                                                *)
(***************************************************************************)
EXTENDS Integers, Sequences

CONSTANTS Capacity,  \* maxsize of the queue
          Drains,    \* drain_timeout_seconds is given (the telemetry writer)
          NoJob

ASSUME WorkerAssumption == Capacity \in Nat \ {0} /\ Drains \in BOOLEAN

VARIABLES
  queue,       \* the jobs put and not yet taken
  holding,     \* the job the handler works on, or NoJob
  task,        \* the consumer task: "none", "waiting" (in get) or "busy"
  closing,     \* "open", "draining" (in wait_for(queue.join)) or "closed"
  unfinished   \* asyncio.Queue's counter: put_nowait adds 1, task_done takes 1

worker == <<queue, holding, task, closing, unfinished>>

WorkerInit ==
  /\ queue = <<>> /\ holding = NoJob /\ unfinished = 0
  /\ task = "none" /\ closing = "open"

WorkerTypeOK(Jobs) ==
  /\ queue \in Seq(Jobs) /\ Len(queue) <= Capacity
  /\ holding \in Jobs \cup {NoJob}
  /\ task \in {"none", "waiting", "busy"}
  /\ closing \in {"open", "draining", "closed"}
  /\ unfinished \in Int

InHand == IF task = "busy" THEN 1 ELSE 0

\* put_nowait, or QueueFull.
Put(job) ==
  IF Len(queue) < Capacity
  THEN queue' = Append(queue, job) /\ unfinished' = unfinished + 1
  ELSE UNCHANGED <<queue, unfinished>>

\* submit: starts the consumer, and drops the job when the queue is full.
Submit(job) ==
  /\ closing = "open"
  /\ task' = IF task = "none" THEN "waiting" ELSE task
  /\ Put(job)
  /\ UNCHANGED <<holding, closing>>

\* _run: the next job is taken.
Take ==
  /\ task = "waiting" /\ queue # <<>>
  /\ task' = "busy" /\ holding' = Head(queue) /\ queue' = Tail(queue)
  /\ UNCHANGED <<closing, unfinished>>

\* _run: the handler returned or raised; task_done either way.
Settle ==
  /\ task = "busy"
  /\ task' = "waiting" /\ holding' = NoJob /\ unfinished' = unfinished - 1
  /\ UNCHANGED <<queue, closing>>

\* Mutant: the job in the handler's hands is never marked done.
EndTaskUncounted ==
  /\ task' = "none" /\ holding' = NoJob /\ queue' = <<>>
  /\ unfinished' = unfinished - Len(queue)
  /\ closing' = "closed"

\* The consumer is cancelled (its own finally calls task_done), and what is
\* still queued is discarded with a task_done for each.
EndTask ==
  /\ task' = "none" /\ holding' = NoJob /\ queue' = <<>>
  /\ unfinished' = unfinished - InHand - Len(queue)
  /\ closing' = "closed"

\* close, up to its first await.
CloseBegin ==
  /\ closing = "open"
  /\ IF task # "none" /\ Drains
     THEN closing' = "draining" /\ UNCHANGED <<queue, holding, task, unfinished>>
     ELSE EndTask

\* close: everything was handled in time, or the drain timed out.
DrainDone    == closing = "draining" /\ unfinished = 0 /\ EndTask
DrainTimeout == closing = "draining" /\ unfinished # 0 /\ EndTask

\* The process dies and a new one starts with an empty queue.
Restart == queue' = <<>> /\ holding' = NoJob /\ unfinished' = 0
           /\ task' = "none" /\ closing' = "open"
===============================================================================
