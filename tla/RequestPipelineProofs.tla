------------------------- MODULE RequestPipelineProofs -------------------------
(***************************************************************************)
(* What a user of the bot may rely on, proved for any number of messages,  *)
(* authors and channels and any number of failures of Discord: a running   *)
(* request can be cancelled, a cancelled one is not answered, and an       *)
(* answer that is there is not overwritten or removed by its progress bar. *)
(***************************************************************************)
EXTENDS RequestPipeline, TLAPS

LEMMA LabelFacts ==
  /\ Labels = {"new", "observing", "refusing", "typing", "context", "generating", "claiming",
               "delivering", "replying", "rest", "discarding", "stopping", "over"}
  /\ Tasks = {"none", "running", "cancelling", "answered", "failed", "cancelled"}
  /\ Workers = {"none", "delay", "posting", "watching", "editing", "ended"}
  /\ Bars = {"none", "progress", "final", "gone"}
  /\ Words = {"nothing", "busy", "answer", "part", "error", "cancelled"}
  BY DEF Labels, Tasks, Workers, Bars, Words

\* Only the handler that replaces the bar, or the cleanup after it, resolves it;
\* from then on neither the worker nor the handler touches it.
Settled(m) ==
  m \in resolved => /\ worker[m] = "ended" /\ m \notin cleanup
                    /\ pc[m] \in {"replying", "rest", "discarding", "over"}

\* A request has no task before it is registered, an answer only from a task
\* that answered, and a cancellation that was promised is not undone.
Truthful(m) ==
  /\ pc[m] \in {"new", "observing", "typing", "context"} => task[m] = "none"
  /\ pc[m] = "rest" \/ told[m] \in {"part", "answer"} \/ m \in learning => task[m] = "answered"
  /\ m \in promised => task[m] \in {"cancelling", "cancelled"}

Local(m) == BarInOrder(m) /\ Settled(m) /\ Truthful(m)

Types == MessageTypes /\ SetTypes

Inv == Types /\ \A m \in Messages : Local(m)

LEMMA InvInit == Init => Inv /\ DiscordTypes
<1> SUFFICES ASSUME Init PROVE Inv /\ DiscordTypes
  OBVIOUS
<1>1. MessageTypes
  BY LabelFacts DEF Init, MessageTypes
<1>2. SetTypes /\ DiscordTypes
  BY DEF Init, SetTypes, DiscordTypes
<1>3. \A m \in Messages : Local(m)
  BY DEF Init, Local, BarInOrder, Settled, Truthful
<1> QED
  BY <1>1, <1>2, <1>3 DEF Inv, Types

------------------------------------------------------------------------------
(* Types                                                                   *)

LEMMA CancelTypes ==
  ASSUME Types, NEW ms \in SUBSET Messages, Cancelling(ms)
  PROVE  Types'
  BY LabelFacts DEF Types, MessageTypes, SetTypes, Cancelling, handlers, progress, bars

LEMMA HandlerTypes ==
  ASSUME Types, NEW m \in Messages, Arrive(m) \/ Handle(m)
  PROVE  Types'
<1> USE LabelFacts, KeyAssumption
    DEF Types, MessageTypes, SetTypes, handlers, requests, progress, bars, Goto, Say
<1>1. CASE Arrive(m) \/ Check(m) \/ Claim(m) \/ Discard(m)
  BY <1>1 DEF Arrive, Check, Claim, Discard
<1>2. CASE Refuse(m)
  BY <1>2 DEF Refuse
<1>3. CASE Typing(m)
  BY <1>3 DEF Typing
<1>4. CASE Register(m)
  BY <1>4 DEF Register
<1>5. CASE Resume(m)
  BY <1>5 DEF Resume, Clear
<1>6. CASE Replace(m)
  BY <1>6 DEF Replace, Word, AfterFirst
<1>7. CASE Reply(m)
  BY <1>7 DEF Reply, Word, AfterFirst
<1>8. CASE Rest(m)
  BY <1>8 DEF Rest
<1>9. CASE Remove(m)
  BY <1>9 DEF Remove
<1> QED
  BY <1>1, <1>2, <1>3, <1>4, <1>5, <1>6, <1>7, <1>8, <1>9 DEF Handle

LEMMA WorkerTypes ==
  ASSUME Types, NEW m \in Messages, Work(m) \/ CleanUp(m) \/ TaskEnds(m)
  PROVE  Types'
<1> USE LabelFacts DEF Types, MessageTypes, SetTypes, handlers, requests, progress, bars, Becomes
<1>1. CASE WakeUp(m) \/ Watch(m)
  BY <1>1 DEF WakeUp, Watch
<1>2. CASE Post(m)
  BY <1>2 DEF Post
<1>3. CASE Edit(m)
  BY <1>3 DEF Edit
<1>4. CASE CleanUp(m)
  BY <1>4 DEF CleanUp
<1>5. CASE TaskEnds(m)
  BY <1>5 DEF TaskEnds
<1> QED
  BY <1>1, <1>2, <1>3, <1>4, <1>5 DEF Work
LEMMA ActiveIsLive ==
  ASSUME Types, NEW k \in Keys, Active(k)
  PROVE  registry[k] \in Messages /\ task[registry[k]] \in Live
  BY DEF Types, MessageTypes, Active

LEMMA TypesStep ==
  ASSUME Types, [Next]_vars
  PROVE  Types'
<1>1. ASSUME NEW m \in Messages, Arrive(m) \/ Handle(m) \/ TaskEnds(m) \/ Work(m) \/ CleanUp(m)
      PROVE  Types'
  BY <1>1, HandlerTypes, WorkerTypes
<1>2. ASSUME NEW k \in Keys, Cancel(k) PROVE Types'
  BY <1>2, ActiveIsLive, CancelTypes DEF Cancel
<1>3. CASE CancelAll
  BY <1>3, ActiveIsLive, CancelTypes DEF CancelAll
<1>4. CASE CoolDown \/ Terminated \/ UNCHANGED vars
  BY <1>4 DEF CoolDown, Terminated, vars, handlers, requests, progress, bars,
              Types, MessageTypes, SetTypes
<1> QED
  BY <1>1, <1>2, <1>3, <1>4 DEF Next

\* A request to Discord fails, or nothing happens to it.
LEMMA TroubleTypes ==
  ASSUME DiscordTypes, NEW m \in Messages, Trouble(m) \/ UNCHANGED <<discord, spoiled>>
  PROVE  DiscordTypes'
<1> USE DEF DiscordTypes
<1>1. CASE Fails(m)
  BY <1>1 DEF Fails
<1>2. CASE RateLimited /\ UNCHANGED spoiled
  BY <1>2 DEF RateLimited
<1>3. CASE UNCHANGED <<discord, spoiled>>
  BY <1>3 DEF discord
<1> QED
  BY <1>1, <1>2, <1>3 DEF Trouble

LEMMA DiscordTypesStep ==
  ASSUME DiscordTypes, [Next]_vars
  PROVE  DiscordTypes'
<1>1. ASSUME NEW m \in Messages, Arrive(m) \/ Handle(m) \/ TaskEnds(m) \/ Work(m) \/ CleanUp(m)
      PROVE  Trouble(m) \/ UNCHANGED <<discord, spoiled>>
  <2>1. CASE Arrive(m) \/ TaskEnds(m) \/ Work(m) \/ CleanUp(m)
    BY <2>1 DEF Arrive, TaskEnds, Work, WakeUp, Post, Watch, Edit, CleanUp, Trouble, discord
  <2>2. CASE Handle(m)
    BY <2>2 DEF Handle, Check, Refuse, Typing, Register, Resume, Claim, Replace, Reply, Rest,
                Discard, Remove, Trouble, discord
  <2> QED
    BY <1>1, <2>1, <2>2
<1>2. ASSUME NEW ms, Cancelling(ms) PROVE UNCHANGED <<discord, spoiled>>
  BY <1>2 DEF Cancelling
<1>3. CASE CoolDown
  BY <1>3 DEF CoolDown, DiscordTypes
<1>4. CASE Cancelling({registry[k] : k \in {k \in Keys : Active(k)}}) \/ Terminated \/ UNCHANGED vars
  BY <1>2, <1>4 DEF Terminated, vars, discord, DiscordTypes
<1>5. ASSUME NEW k \in Keys, Cancel(k) PROVE DiscordTypes'
  BY <1>2, <1>5 DEF Cancel, discord, DiscordTypes
<1> QED
  BY <1>1, <1>3, <1>4, <1>5, TroubleTypes DEF Next, CancelAll

------------------------------------------------------------------------------
(* One message at a time                                                   *)

\* What a step of another message leaves as it is.
Same(n) ==
  /\ pc'[n] = pc[n] /\ told'[n] = told[n] /\ task'[n] = task[n]
  /\ worker'[n] = worker[n] /\ bar'[n] = bar[n]
  /\ n \in posted' <=> n \in posted
  /\ n \in resolved' <=> n \in resolved
  /\ n \in cleanup' <=> n \in cleanup
  /\ n \in learning' <=> n \in learning
  /\ n \in promised' <=> n \in promised

LEMMA SameIsLocal ==
  ASSUME NEW n \in Messages, Local(n), Same(n)
  PROVE  Local(n)'
  BY DEF Same, Local, BarInOrder, Settled, Truthful

LEMMA OthersStaySame ==
  ASSUME Types, NEW m \in Messages, NEW n \in Messages, n # m,
         Arrive(m) \/ Handle(m) \/ TaskEnds(m) \/ Work(m) \/ CleanUp(m)
  PROVE  Same(n)
<1> USE DEF Types, MessageTypes, SetTypes, Same, handlers, requests, progress, bars, Goto, Say, Becomes
<1>1. CASE Arrive(m) \/ TaskEnds(m) \/ CleanUp(m)
  BY <1>1 DEF Arrive, TaskEnds, CleanUp
<1>2. CASE Work(m)
  BY <1>2 DEF Work, WakeUp, Post, Watch, Edit
<1>3. CASE Check(m) \/ Refuse(m) \/ Typing(m) \/ Register(m) \/ Resume(m) \/ Claim(m)
  BY <1>3 DEF Check, Refuse, Typing, Register, Resume, Claim
<1>4. CASE Replace(m) \/ Reply(m)
  BY <1>4 DEF Replace, Reply
<1>5. CASE Rest(m) \/ Discard(m) \/ Remove(m)
  BY <1>5 DEF Rest, Discard, Remove
<1> QED
  BY <1>1, <1>2, <1>3, <1>4, <1>5 DEF Handle

LEMMA HandlerLocal ==
  ASSUME Types, NEW m \in Messages, Local(m), Arrive(m) \/ Handle(m)
  PROVE  Local(m)'
<1> USE LabelFacts
    DEF Types, MessageTypes, SetTypes, Local, BarInOrder, Settled, Truthful, Live,
        handlers, requests, progress, bars, Goto, Say
<1>1. CASE Arrive(m) \/ Check(m)
  BY <1>1 DEF Arrive, Check
<1>2. CASE Refuse(m)
  BY <1>2 DEF Refuse
<1>3. CASE Typing(m)
  BY <1>3 DEF Typing
<1>4. CASE Register(m)
  BY <1>4 DEF Register
<1>5. CASE Resume(m) \/ Claim(m)
  BY <1>5 DEF Resume, Claim
<1>6. CASE Replace(m)
  BY <1>6 DEF Replace, Word, AfterFirst
<1>7. CASE Reply(m)
  BY <1>7 DEF Reply, Word, AfterFirst
<1>8. CASE Rest(m)
  BY <1>8 DEF Rest
<1>9. CASE Discard(m) \/ Remove(m)
  BY <1>9 DEF Discard, Remove
<1> QED
  BY <1>1, <1>2, <1>3, <1>4, <1>5, <1>6, <1>7, <1>8, <1>9 DEF Handle

LEMMA WorkerLocal ==
  ASSUME Types, NEW m \in Messages, Local(m), TaskEnds(m) \/ Work(m) \/ CleanUp(m)
  PROVE  Local(m)'
<1> USE LabelFacts
    DEF Types, MessageTypes, SetTypes, Local, BarInOrder, Settled, Truthful, Live,
        handlers, requests, progress, bars, Becomes
<1>1. CASE TaskEnds(m)
  BY <1>1 DEF TaskEnds
<1>2. CASE WakeUp(m) \/ Watch(m)
  BY <1>2 DEF WakeUp, Watch
<1>3. CASE Post(m)
  BY <1>3 DEF Post
<1>4. CASE Edit(m)
  BY <1>4 DEF Edit
<1>5. CASE CleanUp(m)
  BY <1>5 DEF CleanUp
<1> QED
  BY <1>1, <1>2, <1>3, <1>4, <1>5 DEF Work

LEMMA CancelLocal ==
  ASSUME Types, NEW n \in Messages, Local(n), NEW ms \in SUBSET Messages, Cancelling(ms),
         \A m \in ms : task[m] \in Live
  PROVE  Local(n)'
  BY LabelFacts DEF Types, MessageTypes, SetTypes, Local, BarInOrder, Settled, Truthful, Live,
        Cancelling, handlers, progress, bars

LEMMA InvStep == Inv /\ [Next]_vars => Inv'
<1> SUFFICES ASSUME Inv, [Next]_vars PROVE Inv'
  OBVIOUS
<1>1. Types'
  BY TypesStep DEF Inv
<1>2. ASSUME NEW n \in Messages PROVE Local(n)'
  <2>1. Types /\ Local(n)
    BY DEF Inv
  <2>2. ASSUME NEW m \in Messages, Arrive(m) \/ Handle(m) \/ TaskEnds(m) \/ Work(m) \/ CleanUp(m)
        PROVE  Local(n)'
    <3>1. CASE n = m
      BY <2>1, <2>2, <3>1, HandlerLocal, WorkerLocal
    <3>2. CASE n # m
      BY <2>1, <2>2, <3>2, OthersStaySame, SameIsLocal
    <3> QED
      BY <3>1, <3>2
  <2>3. ASSUME NEW k \in Keys, Cancel(k) PROVE Local(n)'
    BY <2>1, <2>3, ActiveIsLive, CancelLocal DEF Cancel
  <2>4. CASE CancelAll
    BY <2>1, <2>4, ActiveIsLive, CancelLocal DEF CancelAll
  <2>5. CASE CoolDown \/ Terminated \/ UNCHANGED vars
    BY <2>1, <2>5, SameIsLocal
       DEF CoolDown, Terminated, vars, handlers, requests, progress, bars, Same
  <2> QED
    BY <2>2, <2>3, <2>4, <2>5 DEF Next
<1> QED
  BY <1>1, <1>2 DEF Inv

LEMMA InvHolds == Spec => []Inv
  BY InvInit, InvStep, PTL DEF Spec

LEMMA DiscordTypesHold == Spec => []DiscordTypes
  BY InvInit, DiscordTypesStep, PTL DEF Spec

------------------------------------------------------------------------------
(* The theorems                                                            *)

\* Types hold, and every progress bar is in the state its handler takes it to be in.
THEOREM PipelineTypes == Spec => []TypeOK
<1>1. Inv /\ DiscordTypes => TypeOK
  BY DEF Inv, Types, Local, TypeOK
<1> QED
  BY <1>1, InvHolds, DiscordTypesHold, PTL

\* A cancellation that was promised is carried out: the request is not answered.
THEOREM CancelledIsNotAnswered == Spec => []CancelIsFinal
<1>1. Inv => CancelIsFinal
  BY DEF Inv, Types, SetTypes, Local, Truthful, CancelIsFinal
<1> QED
  BY <1>1, InvHolds, PTL

\* The worker and the cleanup are done with a bar that has become the answer.
THEOREM AnswerIsKept == Spec => AnswerStays
<1>1. Inv /\ [Next]_vars => [\A m \in resolved : bar[m] = "final" => bar'[m] = "final"]_vars
  <2> SUFFICES ASSUME Inv, Next, NEW m \in resolved, bar[m] = "final"
               PROVE  bar'[m] = "final"
    OBVIOUS
  <2>1. m \in Messages /\ Types /\ Local(m)
    BY DEF Inv, Types, SetTypes
  <2>2. ASSUME NEW n \in Messages, Arrive(n) \/ Handle(n) \/ TaskEnds(n) \/ Work(n) \/ CleanUp(n)
        PROVE  bar'[m] = "final"
    <3>1. CASE n # m
      BY <2>1, <2>2, <3>1, OthersStaySame DEF Same
    <3>2. CASE n = m
      <4>1. ~ Work(m) /\ ~ CleanUp(m) /\ ~ Replace(m) /\ ~ Remove(m)
        BY <2>1 DEF Local, Settled, Work, WakeUp, Post, Watch, Edit, CleanUp, Replace, Remove
      <4> QED
        BY <2>1, <2>2, <3>2, <4>1
           DEF Handle, Arrive, Check, Refuse, Typing, Register, Resume, Claim, Reply, Rest,
               Discard, TaskEnds, bars
    <3> QED
      BY <3>1, <3>2
  <2>3. (\E k \in Keys : Cancel(k)) \/ CancelAll \/ CoolDown \/ Terminated => bar' = bar
    BY DEF Cancel, CancelAll, Cancelling, CoolDown, Terminated, vars, bars
  <2> QED
    BY <2>2, <2>3 DEF Next
<1> QED
  BY <1>1, InvHolds, PTL DEF AnswerStays, Spec

\* Only Register, Resume and the end of a task change what runs and what is registered.
LEMMA RegistryStep ==
  ASSUME Types, RunningIsRegistered, [Next]_vars
  PROVE  RunningIsRegistered'
<1> USE DEF Types, MessageTypes, RunningIsRegistered, Live
<1>1. ASSUME NEW m \in Messages, Register(m) PROVE RunningIsRegistered'
  BY <1>1, KeyAssumption, NoneAssumption DEF Register, Active
<1>2. ASSUME NEW m \in Messages, Resume(m) PROVE RunningIsRegistered'
  BY <1>2, KeyAssumption DEF Resume, Clear
<1>3. ASSUME NEW m \in Messages, TaskEnds(m) PROVE RunningIsRegistered'
  BY <1>3 DEF TaskEnds
<1>4. ASSUME NEW k \in Keys, Cancel(k) PROVE RunningIsRegistered'
  BY <1>4, ActiveIsLive DEF Cancel, Cancelling
<1>5. CASE CancelAll
  BY <1>5, ActiveIsLive DEF CancelAll, Cancelling
<1>6. ASSUME NEW m \in Messages, Arrive(m) \/ Work(m) \/ CleanUp(m) PROVE UNCHANGED requests
  BY <1>6 DEF Arrive, Work, WakeUp, Post, Watch, Edit, CleanUp
<1>7. ASSUME NEW m \in Messages, Handle(m), ~ Register(m), ~ Resume(m) PROVE UNCHANGED requests
  BY <1>7 DEF Handle, Check, Refuse, Typing, Claim, Replace, Reply, Rest, Discard, Remove
<1>8. CASE CoolDown \/ Terminated \/ UNCHANGED vars
  BY <1>8 DEF CoolDown, Terminated, vars, requests
<1>9. CASE UNCHANGED requests
  BY <1>9 DEF requests
<1> QED
  BY <1>1, <1>2, <1>3, <1>4, <1>5, <1>6, <1>7, <1>8, <1>9 DEF Next

\* What runs is what its key leads to, so that /cancel finds it.
THEOREM RunningCanBeCancelled == Spec => []RunningIsRegistered
<1>1. Init => RunningIsRegistered
  BY DEF Init, RunningIsRegistered, Live
<1>2. Inv => Types
  BY DEF Inv
<1> QED
  BY <1>1, <1>2, InvHolds, RegistryStep, PTL DEF Spec

\* Requests can be cancelled, stay cancelled, and answers stay
\* (request_control.py, discord/progress.py).
THEOREM RequestsStaySafe == Spec => RequestsAreSafe
  BY PipelineTypes, RunningCanBeCancelled, CancelledIsNotAnswered, AnswerIsKept, PTL
     DEF RequestsAreSafe

------------------------------------------------------------------------------
(* Nobody is passed over without a cause, as long as Discord works.  The    *)
(* breaker is closed then, so that a handler turns back only for a task of  *)
(* its key; and an entry of the registry is a message of that key.          *)

QuietInv == troubles = 0 => ~ blocked

KeysInv == \A k \in Keys : registry[k] # None => Key[registry[k]] = k

Cause(m) == \E n \in Messages \ {m} : Key[n] = Key[m] /\ task[n] # "none"

Silent(m) == \/ pc[m] = "refusing"
             \/ pc[m] \in {"discarding", "stopping", "over"} /\ told[m] = "nothing"

SilentInv == troubles = 0 => \A m \in Messages : Silent(m) => Cause(m)

\* What a step does to Discord, as far as the breaker is concerned.
LEMMA DiscordSteps ==
  ASSUME Next
  PROVE  \/ troubles' = troubles + 1 \/ UNCHANGED discord
         \/ blocked /\ UNCHANGED troubles
<1>1. ASSUME NEW m \in Messages, Arrive(m) \/ TaskEnds(m) \/ Work(m) \/ CleanUp(m)
      PROVE  troubles' = troubles + 1 \/ UNCHANGED discord
  BY <1>1 DEF Arrive, TaskEnds, Work, WakeUp, Post, Watch, Edit, CleanUp, Fails,
              RateLimited, discord
<1>2. ASSUME NEW m \in Messages, Handle(m)
      PROVE  troubles' = troubles + 1 \/ UNCHANGED discord
  BY <1>2 DEF Handle, Check, Refuse, Typing, Register, Resume, Claim, Replace, Reply, Rest,
              Discard, Remove, Trouble, Fails, RateLimited, discord
<1>3. (\E k \in Keys : Cancel(k)) \/ CancelAll \/ Terminated => UNCHANGED discord
  BY DEF Cancel, CancelAll, Cancelling, Terminated, vars
<1>4. CoolDown => blocked /\ UNCHANGED troubles
  BY DEF CoolDown
<1> QED
  BY <1>1, <1>2, <1>3, <1>4 DEF Next

\* No trouble afterwards: none before, and the breaker was and stays closed.
LEMMA QuietStep ==
  ASSUME DiscordTypes, QuietInv, [Next]_vars, troubles' = 0
  PROVE  troubles = 0 /\ ~ blocked /\ UNCHANGED discord
<1>1. troubles \in Nat
  BY DEF DiscordTypes
<1>2. CASE troubles' = troubles + 1
  BY <1>1, <1>2
<1>3. CASE UNCHANGED discord \/ (blocked /\ UNCHANGED troubles)
  BY <1>3 DEF QuietInv, discord
<1> QED
  BY <1>2, <1>3, DiscordSteps DEF vars, discord

LEMMA QuietHolds == Spec => []QuietInv
<1>1. Init => QuietInv
  BY DEF Init, QuietInv
<1>2. DiscordTypes /\ QuietInv /\ [Next]_vars => QuietInv'
  <2> SUFFICES ASSUME DiscordTypes, QuietInv, [Next]_vars, troubles' = 0 PROVE ~ blocked'
    BY DEF QuietInv
  <2> QED
    BY QuietStep DEF discord
<1> QED
  BY <1>1, <1>2, DiscordTypesHold, PTL DEF Spec

LEMMA KeysHold == Spec => []KeysInv
<1>1. Init => KeysInv
  BY DEF Init, KeysInv
<1>2. Types /\ KeysInv /\ [Next]_vars => KeysInv'
  <2> SUFFICES ASSUME Types, KeysInv, [Next]_vars PROVE KeysInv'
    OBVIOUS
  <2> USE DEF Types, MessageTypes, KeysInv
  <2>1. ASSUME NEW m \in Messages, Register(m) PROVE KeysInv'
    BY <2>1, KeyAssumption DEF Register
  <2>2. ASSUME NEW m \in Messages, Resume(m) PROVE KeysInv'
    BY <2>2, KeyAssumption DEF Resume, Clear
  <2>3. ASSUME NEW m \in Messages, Handle(m), ~ Register(m), ~ Resume(m)
        PROVE  registry' = registry
    BY <2>3 DEF Handle, Check, Refuse, Typing, Claim, Replace, Reply, Rest, Discard, Remove,
                requests
  <2>4. ASSUME NEW m \in Messages, Arrive(m) \/ Work(m) \/ CleanUp(m) \/ TaskEnds(m)
        PROVE  registry' = registry
    BY <2>4 DEF Arrive, Work, WakeUp, Post, Watch, Edit, CleanUp, TaskEnds, requests
  <2>5. (\E k \in Keys : Cancel(k)) \/ CancelAll \/ CoolDown \/ Terminated \/ UNCHANGED vars
          => registry' = registry
    BY DEF Cancel, CancelAll, Cancelling, CoolDown, Terminated, vars, requests
  <2> QED
    BY <2>1, <2>2, <2>3, <2>4, <2>5 DEF Next
<1>3. Inv => Types
  BY DEF Inv
<1> QED
  BY <1>1, <1>2, <1>3, InvHolds, PTL DEF Spec

\* The message a key leads to is another one of the same author and channel.
LEMMA ActiveIsCause ==
  ASSUME Inv, KeysInv, NEW m \in Messages, Active(Key[m]), task[m] = "none"
  PROVE  Cause(m)
<1>1. Key[m] \in Keys
  BY KeyAssumption
<1>2. /\ registry[Key[m]] \in Messages /\ task[registry[Key[m]]] \in Live
      /\ registry[Key[m]] # None
  BY <1>1, ActiveIsLive DEF Inv, Active
<1>3. Key[registry[Key[m]]] = Key[m]
  BY <1>1, <1>2 DEF KeysInv
<1> QED
  BY <1>2, <1>3 DEF Cause, Live

\* A registered task is never forgotten, so that a cause remains one.
LEMMA CauseStays ==
  ASSUME Types, NEW m \in Messages, Cause(m), [Next]_vars
  PROVE  Cause(m)'
<1>1. PICK n \in Messages \ {m} : Key[n] = Key[m] /\ task[n] # "none"
  BY DEF Cause
<1>2. task'[n] # "none"
  <2> USE DEF Types, MessageTypes
  <2>1. ASSUME NEW l \in Messages, Register(l) \/ TaskEnds(l) PROVE task'[n] # "none"
    BY <1>1, <2>1 DEF Register, TaskEnds
  <2>2. ASSUME NEW l \in Messages, Handle(l), ~ Register(l) PROVE task' = task
    BY <2>2 DEF Handle, Check, Refuse, Typing, Resume, Claim, Replace, Reply, Rest, Discard,
                Remove, requests
  <2>3. ASSUME NEW l \in Messages, Arrive(l) \/ Work(l) \/ CleanUp(l) PROVE task' = task
    BY <2>3 DEF Arrive, Work, WakeUp, Post, Watch, Edit, CleanUp, requests
  <2>4. ASSUME NEW ms, Cancelling(ms) PROVE task'[n] # "none"
    BY <1>1, <2>4 DEF Cancelling
  <2>5. CoolDown \/ Terminated \/ UNCHANGED vars => task' = task
    BY DEF CoolDown, Terminated, vars, requests
  <2> QED
    BY <1>1, <2>1, <2>2, <2>3, <2>4, <2>5 DEF Next, Cancel, CancelAll
<1> QED
  BY <1>1, <1>2 DEF Cause

\* A handler turns back in silence only for an active request of its key.
LEMMA HandlerSilent ==
  ASSUME Inv, KeysInv, NEW m \in Messages, Arrive(m) \/ Handle(m), ~ blocked,
         UNCHANGED discord, troubles \in Nat, Silent(m)', ~ Silent(m)
  PROVE  Cause(m)
<1>1. Types /\ Local(m)
  BY DEF Inv
<1>2. ~ blocked' /\ ~ Trouble(m) /\ ~ RateLimited /\ ~ Fails(m)
  <2>1. troubles' = troubles /\ blocked' = blocked
    BY DEF discord
  <2>2. troubles + 1 # troubles
    OBVIOUS
  <2> QED
    BY <2>1, <2>2 DEF Trouble, Fails, RateLimited
<1>3. pc \in [Messages -> Labels] /\ told \in [Messages -> Words]
  BY <1>1 DEF Types, MessageTypes
<1>4. CASE Check(m) \/ Register(m)
  <2>1. task[m] = "none"
    BY <1>1, <1>4 DEF Check, Register, Local, Truthful
  <2>2. Active(Key[m])
    BY <1>2, <1>3, <1>4 DEF Check, Register, Goto, Silent
  <2> QED
    BY <2>1, <2>2, ActiveIsCause
<1>5. CASE Arrive(m) \/ Refuse(m) \/ Typing(m) \/ Resume(m) \/ Claim(m)
  BY <1>2, <1>3, <1>5 DEF Arrive, Refuse, Typing, Resume, Claim, Goto, Say, Silent
<1>6. CASE Replace(m) \/ Reply(m)
  BY <1>2, <1>3, <1>6 DEF Replace, Reply, Goto, Say, Silent, Word, AfterFirst
<1>7. CASE Rest(m) \/ Discard(m) \/ Remove(m)
  BY <1>2, <1>3, <1>7 DEF Rest, Discard, Remove, Goto, Say, Silent
<1> QED
  BY <1>4, <1>5, <1>6, <1>7 DEF Handle

\* While Discord works, a message is passed over in silence only for another
\* one of the same author and channel that was being answered
\* (RequestPipeline.SilenceHasCause; discord/message_pipeline.py).
THEOREM SilenceIsExplained == Spec => []SilenceHasCause
<1>1. Init => SilentInv
  BY DEF Init, SilentInv, Silent
<1>2. Inv /\ DiscordTypes /\ QuietInv /\ KeysInv /\ SilentInv /\ [Next]_vars => SilentInv'
  <2> SUFFICES ASSUME Inv, DiscordTypes, QuietInv, KeysInv, SilentInv, [Next]_vars,
                      troubles' = 0, NEW m \in Messages, Silent(m)'
               PROVE  Cause(m)'
    BY DEF SilentInv
  <2>1. troubles = 0 /\ ~ blocked /\ UNCHANGED discord /\ troubles \in Nat
    BY QuietStep DEF DiscordTypes
  <2>2. Types
    BY DEF Inv
  <2>3. CASE Silent(m)
    BY <2>1, <2>2, <2>3, CauseStays DEF SilentInv
  <2>4. CASE ~ Silent(m)
    <3>1. ASSUME NEW n \in Messages, n # m,
                 Arrive(n) \/ Handle(n) \/ TaskEnds(n) \/ Work(n) \/ CleanUp(n)
          PROVE  FALSE
      BY <2>2, <2>4, <3>1, OthersStaySame DEF Same, Silent
    <3>2. TaskEnds(m) \/ Work(m) \/ CleanUp(m) => UNCHANGED handlers
      BY DEF TaskEnds, Work, WakeUp, Post, Watch, Edit, CleanUp
    <3>3. (\E k \in Keys : Cancel(k)) \/ CancelAll \/ CoolDown \/ Terminated \/ UNCHANGED vars
            => UNCHANGED handlers
      BY DEF Cancel, CancelAll, Cancelling, CoolDown, Terminated, vars
    <3>4. ~ UNCHANGED handlers
      BY <2>4 DEF handlers, Silent
    <3>5. Arrive(m) \/ Handle(m)
      BY <3>1, <3>2, <3>3, <3>4 DEF Next
    <3> QED
      BY <2>1, <2>2, <2>4, <3>5, HandlerSilent, CauseStays
  <2> QED
    BY <2>3, <2>4
<1>3. SilentInv => SilenceHasCause
  BY DEF SilentInv, SilenceHasCause, Silent, Cause
<1> QED
  BY <1>1, <1>2, <1>3, InvHolds, DiscordTypesHold, QuietHolds, KeysHold, PTL DEF Spec
==============================================================================
