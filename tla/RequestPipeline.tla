---------------------------- MODULE RequestPipeline ----------------------------
(***************************************************************************)
(* From a Discord message to its answer: handle_discord_message            *)
(* (discord/message_pipeline.py), the registry of active requests and      *)
(* /cancel (request_control.py, discord/core.py), the progress bar         *)
(* (discord/progress.py) and the delivery (discord/reply_delivery.py).     *)
(*                                                                         *)
(* Every message has a handler, a worker that posts and edits one progress *)
(* bar, and -- once registered -- a task that generates the answer (module *)
(* AgentRun).  All run on one event loop: a step is what happens between   *)
(* two awaits.  Discord may refuse any request, with a 429 (which opens    *)
(* the circuit breaker everybody shares) or otherwise.                     *)
(***************************************************************************)
EXTENDS Integers, FiniteSets

CONSTANTS Messages,     \* messages that address the bot
          Keys,         \* (channel, author)
          Key,          \* of each message
          MaxTroubles,  \* failures of Discord
          None          \* no task

ASSUME KeyAssumption == Key \in [Messages -> Keys]
ASSUME NoneAssumption == None \notin Messages
ASSUME TroublesAssumption == MaxTroubles \in Nat

VARIABLES
  pc,        \* the handler of each message
  task,      \* its _generate_reply task
  registry,  \* ActiveRequestRegistry._tasks
  worker,    \* its DiscordResponseProgress._run task
  stopped,   \* the messages whose _stopped is set
  resolved,  \* the messages whose _resolved is set
  posted,    \* the messages whose worker knows its bar (_message)
  bar,       \* what the bar's message shows in the channel
  cleanup,   \* the messages with a deferred deletion (_cleanup_task)
  told,      \* what else the channel shows for the message, or its bar
  promised,  \* the messages whose author was told "Cancelling ..."
  learning,  \* the messages handed to the memory writer
  blocked,   \* the circuit breaker is open
  troubles,
  spoiled    \* ghost: messages with a request that failed, not by a 429

handlers == <<pc, told, learning>>
requests == <<task, registry, promised>>
progress == <<worker, stopped, posted>>
bars     == <<bar, resolved, cleanup>>
discord  == <<blocked, troubles>>
vars     == <<handlers, requests, progress, bars, discord, spoiled>>

Labels == {"new", "observing", "refusing", "typing", "context", "generating", "claiming",
           "delivering", "replying", "rest", "discarding", "stopping", "over"}
Tasks == {"none", "running", "cancelling", "answered", "failed", "cancelled"}
Workers == {"none", "delay", "posting", "watching", "editing", "ended"}
Bars == {"none", "progress", "final", "gone"}
Words == {"nothing", "busy", "answer", "part", "error", "cancelled"}

Init ==
  /\ pc = [m \in Messages |-> "new"] /\ told = [m \in Messages |-> "nothing"]
  /\ learning = {}
  /\ task = [m \in Messages |-> "none"] /\ registry = [k \in Keys |-> None]
  /\ promised = {}
  /\ worker = [m \in Messages |-> "none"] /\ stopped = {} /\ posted = {}
  /\ bar = [m \in Messages |-> "none"] /\ resolved = {} /\ cleanup = {}
  /\ blocked = FALSE /\ troubles = 0 /\ spoiled = {}

Goto(m, label) == pc' = [pc EXCEPT ![m] = label]

Say(m, what) == told' = [told EXCEPT ![m] = what]

\* A request to Discord answered with a 429, or failing in another way.
RateLimited == troubles < MaxTroubles /\ troubles' = troubles + 1 /\ blocked' = TRUE
Fails(m) == /\ troubles < MaxTroubles /\ troubles' = troubles + 1 /\ UNCHANGED blocked
            /\ spoiled' = spoiled \cup {m}
Trouble(m) == Fails(m) \/ (RateLimited /\ UNCHANGED spoiled)

------------------------------------------------------------------------------
(* ActiveRequestRegistry                                                   *)

Live == {"running", "cancelling"}

\* The task that has_active, start and cancel find for a key is not done.
Active(k) == registry[k] # None /\ task[registry[k]] \in Live

Clear(m) == registry' = IF registry[Key[m]] = m THEN [registry EXCEPT ![Key[m]] = None]
                        ELSE registry

Cancelling(ms) ==
  /\ task' = [m \in Messages |-> IF m \in ms THEN "cancelling" ELSE task[m]]
  /\ promised' = promised \cup ms
  /\ UNCHANGED <<handlers, registry, progress, bars, discord, spoiled>>

\* /cancel; it finds nothing to do for a key without an active task.
Cancel(k) == Active(k) /\ Cancelling({registry[k]})

\* /cancel_all and /reset.
CancelAll == Cancelling({registry[k] : k \in {k \in Keys : Active(k)}})

\* The task ends by itself, or at its next await once it is cancelled.
TaskEnds(m) ==
  /\ \/ task[m] = "running" /\ \E end \in {"answered", "failed"} : task' = [task EXCEPT ![m] = end]
     \/ task[m] = "cancelling" /\ task' = [task EXCEPT ![m] = "cancelled"]
  /\ UNCHANGED <<handlers, registry, promised, progress, bars, discord, spoiled>>

------------------------------------------------------------------------------
(* The handler, up to the end of the task                                  *)

Arrive(m) ==
  /\ pc[m] = "new"
  /\ Goto(m, IF blocked THEN "over" ELSE "observing")
  /\ UNCHANGED <<told, learning, requests, progress, bars, discord, spoiled>>

\* After the awaits that record members and emojis and decide that the
\* message is for the bot.
Check(m) ==
  /\ pc[m] = "observing"
  /\ Goto(m, IF Active(Key[m]) THEN "refusing" ELSE "typing")
  /\ UNCHANGED <<told, learning, requests, progress, bars, discord, spoiled>>

\* "You already have an active request in this channel."
Refuse(m) ==
  /\ pc[m] = "refusing"
  /\ \/ blocked /\ UNCHANGED <<told, discord, spoiled>>
     \/ ~ blocked /\ Say(m, "busy") /\ UNCHANGED <<discord, spoiled>>
     \/ ~ blocked /\ Trouble(m) /\ UNCHANGED told
  /\ Goto(m, "over")
  /\ UNCHANGED <<learning, requests, progress, bars>>

\* The typing indicator; only its 429 matters.
Typing(m) ==
  /\ pc[m] = "typing"
  /\ \/ UNCHANGED discord
     \/ ~ blocked /\ RateLimited
  /\ IF blocked' THEN Goto(m, "over") /\ UNCHANGED worker
     ELSE Goto(m, "context") /\ worker' = [worker EXCEPT ![m] = "delay"]
  /\ UNCHANGED <<told, learning, requests, stopped, posted, bars, spoiled>>

\* The context is collected and start called, which raises if another message
\* has been registered meanwhile.
Register(m) ==
  /\ pc[m] = "context"
  /\ \/ /\ ~ blocked /\ ~ Active(Key[m])
        /\ Goto(m, "generating")
        /\ task' = [task EXCEPT ![m] = "running"]
        /\ registry' = [registry EXCEPT ![Key[m]] = m]
        /\ UNCHANGED <<discord, spoiled>>
     \/ /\ blocked \/ Active(Key[m])
        /\ Goto(m, "discarding") /\ UNCHANGED <<task, registry, discord, spoiled>>
     \/ /\ Trouble(m)
        /\ Goto(m, "discarding") /\ UNCHANGED <<task, registry>>
  /\ UNCHANGED <<told, learning, promised, progress, bars>>

\* The handler resumes: it clears the registry, and stops the worker (claim).
Resume(m) ==
  /\ pc[m] = "generating" /\ task[m] \notin Live
  /\ Clear(m)
  /\ stopped' = stopped \cup {m}
  /\ Goto(m, "claiming")
  /\ UNCHANGED <<told, learning, task, promised, worker, posted, bars, discord, spoiled>>

------------------------------------------------------------------------------
(* The progress worker                                                     *)

Becomes(m, state) == worker' = [worker EXCEPT ![m] = state]

\* The delay is over, or the worker is stopped before.
WakeUp(m) ==
  /\ worker[m] = "delay"
  /\ Becomes(m, IF m \in stopped \/ blocked THEN "ended" ELSE "posting")
  /\ UNCHANGED <<handlers, requests, stopped, posted, bars, discord, spoiled>>

\* The reply that is the bar.  A timeout may leave one nobody knows of.
Post(m) ==
  /\ worker[m] = "posting"
  /\ \/ /\ bar' = [bar EXCEPT ![m] = "progress"] /\ posted' = posted \cup {m}
        /\ Becomes(m, "watching") /\ UNCHANGED <<discord, spoiled>>
     \/ /\ Fails(m) /\ bar' \in {bar, [bar EXCEPT ![m] = "progress"]}
        /\ Becomes(m, "ended") /\ UNCHANGED posted
     \/ RateLimited /\ Becomes(m, "ended") /\ UNCHANGED <<bar, posted, spoiled>>
  /\ UNCHANGED <<handlers, requests, stopped, resolved, cleanup>>

\* Mutant: only a new phase wakes the worker, not the stop.
WatchUpdates(m) ==
  /\ worker[m] = "watching" /\ m \notin stopped
  /\ Becomes(m, IF blocked THEN "ended" ELSE "editing")
  /\ UNCHANGED <<handlers, requests, stopped, posted, bars, discord, spoiled>>

\* A new phase, or the stop, wakes it.
Watch(m) ==
  /\ worker[m] = "watching"
  /\ Becomes(m, IF m \in stopped \/ blocked THEN "ended" ELSE "editing")
  /\ UNCHANGED <<handlers, requests, stopped, posted, bars, discord, spoiled>>

\* The edit takes effect, or fails.
Edit(m) ==
  /\ worker[m] = "editing"
  /\ \/ /\ bar' = [bar EXCEPT ![m] = "progress"]
        /\ Becomes(m, "watching") /\ UNCHANGED <<discord, spoiled>>
     \/ Fails(m) /\ Becomes(m, "watching") /\ UNCHANGED bar
     \/ RateLimited /\ Becomes(m, "ended") /\ UNCHANGED <<bar, spoiled>>
  /\ UNCHANGED <<handlers, requests, stopped, posted, resolved, cleanup>>

Work(m) == WakeUp(m) \/ Post(m) \/ Watch(m) \/ Edit(m)

------------------------------------------------------------------------------
(* The handler, delivery and cleanup                                       *)

\* Mutant: claim does not wait for an edit that is under way.
ClaimAtOnce(m) ==
  /\ pc[m] = "claiming"
  /\ Goto(m, "delivering")
  /\ UNCHANGED <<told, learning, requests, progress, bars, discord, spoiled>>

\* claim returns when the worker has ended.
Claim(m) ==
  /\ pc[m] = "claiming" /\ worker[m] = "ended"
  /\ Goto(m, "delivering")
  /\ UNCHANGED <<told, learning, requests, progress, bars, discord, spoiled>>

Word(m) == CASE task[m] = "answered" -> "part"
             [] task[m] = "cancelled" -> "cancelled"
             [] OTHER -> "error"

\* Only an answer has more than its first message.
AfterFirst(m) == IF task[m] = "answered" THEN "rest" ELSE "discarding"

\* Mutant: without a bar there is nothing to replace.
ReplaceBarOnly(m) ==
  /\ pc[m] = "delivering"
  /\ \/ /\ blocked \/ m \notin posted
        /\ Goto(m, "discarding") /\ UNCHANGED <<told, bar, resolved, discord>>
     \/ /\ ~ blocked /\ m \in posted
        /\ bar' = [bar EXCEPT ![m] = "final"] /\ resolved' = resolved \cup {m}
        /\ Say(m, Word(m)) /\ Goto(m, AfterFirst(m)) /\ UNCHANGED discord
  /\ UNCHANGED <<learning, requests, progress, cleanup, spoiled>>

\* The bar becomes the first message.  (It is deleted before a reply when the
\* answer has files or mentions somebody.)  After an error of Discord's a reply
\* is tried; an exception of another kind ends the delivery.
Replace(m) ==
  /\ pc[m] = "delivering"
  /\ \/ /\ blocked
        /\ Goto(m, "discarding") /\ UNCHANGED <<told, bar, resolved, discord, spoiled>>
     \/ /\ ~ blocked /\ m \notin posted
        /\ Goto(m, "replying") /\ UNCHANGED <<told, bar, resolved, discord, spoiled>>
     \/ /\ ~ blocked /\ m \in posted
        /\ \/ /\ bar' = [bar EXCEPT ![m] = "final"] /\ resolved' = resolved \cup {m}
              /\ Say(m, Word(m)) /\ Goto(m, AfterFirst(m)) /\ UNCHANGED <<discord, spoiled>>
           \/ /\ task[m] = "answered"
              /\ bar' = [bar EXCEPT ![m] = "gone"] /\ resolved' = resolved \cup {m}
              /\ Goto(m, "replying") /\ UNCHANGED <<told, discord, spoiled>>
           \/ /\ RateLimited
              /\ Goto(m, "discarding") /\ UNCHANGED <<told, bar, resolved, spoiled>>
           \/ /\ Fails(m) /\ bar' \in {bar, [bar EXCEPT ![m] = "final"]}
              /\ \E next \in {"replying", "discarding"} : Goto(m, next)
              /\ UNCHANGED <<told, resolved>>
  /\ UNCHANGED <<learning, requests, progress, cleanup>>

\* A reply of its own, when there is no bar to replace.
Reply(m) ==
  /\ pc[m] = "replying"
  /\ \/ Say(m, Word(m)) /\ Goto(m, AfterFirst(m)) /\ UNCHANGED <<discord, spoiled>>
     \/ Trouble(m) /\ Goto(m, "discarding") /\ UNCHANGED told
  /\ UNCHANGED <<learning, requests, progress, bars>>

\* The further messages of the answer; a complete one is learned from.
Rest(m) ==
  /\ pc[m] = "rest"
  /\ \/ Say(m, "answer") /\ learning' = learning \cup {m} /\ UNCHANGED <<discord, spoiled>>
     \/ blocked /\ UNCHANGED <<told, learning, discord, spoiled>>
     \/ ~ blocked /\ Trouble(m) /\ UNCHANGED <<told, learning>>
  /\ Goto(m, "discarding")
  /\ UNCHANGED <<requests, progress, bars>>

\* finally: discard, which leaves a bar alone that has become the answer.
Discard(m) ==
  /\ pc[m] = "discarding"
  /\ IF m \in resolved THEN Goto(m, "over") /\ UNCHANGED stopped
     ELSE Goto(m, "stopping") /\ stopped' = stopped \cup {m}
  /\ UNCHANGED <<told, learning, requests, worker, posted, bars, discord, spoiled>>

\* Mutant: what cannot be deleted now is left.
RemoveNow(m) ==
  /\ pc[m] = "stopping" /\ worker[m] = "ended"
  /\ IF m \in posted /\ ~ blocked THEN bar' = [bar EXCEPT ![m] = "gone"] ELSE UNCHANGED bar
  /\ Goto(m, "over")
  /\ UNCHANGED <<told, learning, requests, progress, resolved, cleanup, discord, spoiled>>

\* With the worker ended, the bar it posted is deleted, now or later.
Remove(m) ==
  /\ pc[m] = "stopping" /\ worker[m] = "ended"
  /\ \/ m \notin posted /\ UNCHANGED <<bar, cleanup, discord, spoiled>>
     \/ /\ m \in posted /\ blocked
        /\ cleanup' = cleanup \cup {m} /\ UNCHANGED <<bar, discord, spoiled>>
     \/ /\ m \in posted /\ ~ blocked
        /\ \/ bar' = [bar EXCEPT ![m] = "gone"] /\ UNCHANGED <<cleanup, discord, spoiled>>
           \/ RateLimited /\ cleanup' = cleanup \cup {m} /\ UNCHANGED <<bar, spoiled>>
           \/ Fails(m) /\ UNCHANGED <<bar, cleanup>>
  /\ Goto(m, "over")
  /\ UNCHANGED <<told, learning, requests, progress, resolved>>

\* _delete_after_cooldown
CleanUp(m) ==
  /\ m \in cleanup /\ ~ blocked
  /\ \/ /\ bar' = [bar EXCEPT ![m] = "gone"] /\ resolved' = resolved \cup {m}
        /\ cleanup' = cleanup \ {m} /\ UNCHANGED <<discord, spoiled>>
     \/ RateLimited /\ UNCHANGED <<bar, resolved, cleanup, spoiled>>
     \/ Fails(m) /\ cleanup' = cleanup \ {m} /\ UNCHANGED <<bar, resolved>>
  /\ UNCHANGED <<handlers, requests, progress>>

CoolDown ==
  /\ blocked /\ blocked' = FALSE
  /\ UNCHANGED <<handlers, requests, progress, bars, troubles, spoiled>>

------------------------------------------------------------------------------

Handle(m) == \/ Check(m) \/ Refuse(m) \/ Typing(m) \/ Register(m) \/ Resume(m)
             \/ Claim(m) \/ Replace(m) \/ Reply(m) \/ Rest(m) \/ Discard(m) \/ Remove(m)

Terminated == (\A m \in Messages : pc[m] = "over") /\ UNCHANGED vars

Next == \/ \E m \in Messages : Arrive(m) \/ Handle(m) \/ TaskEnds(m) \/ Work(m) \/ CleanUp(m)
        \/ \E k \in Keys : Cancel(k)
        \/ CancelAll \/ CoolDown \/ Terminated

Spec == Init /\ [][Next]_vars

\* The event loop runs what can run; an agent run ends (AgentRun!Terminates);
\* requests to Discord are answered or time out; the breaker cools down.
Fairness == /\ WF_vars(CoolDown)
            /\ \A m \in Messages : /\ WF_vars(Handle(m)) /\ WF_vars(TaskEnds(m))
                                   /\ WF_vars(Work(m)) /\ WF_vars(CleanUp(m))

FairSpec == Spec /\ Fairness

------------------------------------------------------------------------------
(* Properties                                                              *)

MessageTypes ==
  /\ pc \in [Messages -> Labels] /\ told \in [Messages -> Words]
  /\ task \in [Messages -> Tasks] /\ registry \in [Keys -> Messages \cup {None}]
  /\ worker \in [Messages -> Workers] /\ bar \in [Messages -> Bars]

SetTypes ==
  /\ stopped \subseteq Messages /\ resolved \subseteq Messages /\ posted \subseteq Messages
  /\ cleanup \subseteq Messages /\ promised \subseteq Messages /\ learning \subseteq Messages

DiscordTypes == blocked \in BOOLEAN /\ troubles \in Nat /\ spoiled \subseteq Messages

\* The worker has ended before anything is delivered; a bar it knows was posted,
\* a resolved one is no longer progress; a deferred deletion outlives its handler.
BarInOrder(m) ==
  /\ pc[m] \in {"delivering", "replying", "rest"} => worker[m] = "ended"
  /\ m \in posted => bar[m] # "none"
  /\ m \in resolved => bar[m] \in {"final", "gone"}
  /\ m \in cleanup => pc[m] = "over" /\ worker[m] = "ended"

\* Types, and every progress bar is in the state its handler takes it to be in.
TypeOK == /\ MessageTypes /\ SetTypes /\ DiscordTypes
          /\ \A m \in Messages : BarInOrder(m)

\* What runs can be cancelled: a running task is the one its key leads to, so
\* there is one per key, and no handler that ends late removes another's entry.
RunningIsRegistered ==
  \A m \in Messages : task[m] \in Live => registry[Key[m]] = m

\* A request whose author was told that it is being cancelled is not answered,
\* and nothing is learned from it.
CancelIsFinal ==
  \A m \in promised : told[m] \notin {"part", "answer"} /\ m \notin learning

\* A bar that has become the answer stays: no edit of the worker comes after
\* it, and neither discard nor a deferred deletion removes it.
AnswerStays ==
  [][\A m \in resolved : bar[m] = "final" => bar'[m] = "final"]_vars

\* What runs can be cancelled, what was cancelled is not answered, and what was
\* answered stays.
RequestsAreSafe == [](TypeOK /\ RunningIsRegistered /\ CancelIsFinal) /\ AnswerStays

\* While Discord works, a message is passed over in silence only if another
\* one of the same author and channel was being answered.
SilenceHasCause ==
  troubles = 0 => \A m \in Messages :
    pc[m] = "over" /\ told[m] = "nothing" =>
      \E n \in Messages \ {m} : Key[n] = Key[m] /\ task[n] # "none"

\* README: a slower request is acknowledged by a bar that "then becomes the
\* final reply", and a second one is told about the first: nobody is ignored.
NobodyIgnored ==
  troubles = 0 => \A m \in Messages : pc[m] = "over" => told[m] # "nothing"

\* Every handler ends: claim and discard never wait for ever for the worker.
HandlersEnd == \A m \in Messages : pc[m] # "new" ~> pc[m] = "over"

\* No bar is left behind, also when 429s interrupt the work, unless Discord
\* fails a request about it in another way.
BarsGo ==
  \A m \in Messages : bar[m] = "progress" ~> (bar[m] \in {"final", "gone"} \/ m \in spoiled)
==============================================================================
