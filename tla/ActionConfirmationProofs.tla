----------------------- MODULE ActionConfirmationProofs -----------------------
(***************************************************************************)
(* A confirmed action happens at most once: proved for any number of       *)
(* users, proposals, confirmations and crashes, and any timeouts.          *)
(***************************************************************************)
EXTENDS ActionConfirmation, FiniteSetTheorems, TLAPS

LEMMA LabelFacts ==
  /\ Labels = {"idle", "minted", "checking", "authorizing", "claiming", "sending",
               "creating", "refused", "stopped", "succeeded", "unknown", "lost"}
  /\ Busy = {"minted", "checking", "authorizing", "claiming", "sending", "creating"}
  BY DEF Labels, Busy, Over

\* What a step of the executor, or a timeout, does to the calls and effects.
LEMMA ExecuteShape ==
  ASSUME TypeOK, NEW k \in Confirms, Execute(k) \/ Timeout(k)
  PROVE  /\ pc[k] \in Busy /\ task' = task /\ card' = card
         /\ \E l \in Labels \ {"idle"} : pc' = [pc EXCEPT ![k] = l]
         /\ \/ effects' = effects
            \/ /\ effects' = [effects EXCEPT ![Proposal(k)] = @ + 1]
               /\ pc'[k] \in Labels \ Busy
<1> USE LabelFacts
<1>1. pc \in [Confirms -> Labels]
  BY DEF TypeOK, CallTypes
<1>2. CASE Consume(k)
  BY <1>1, <1>2 DEF Consume, Goto, done
<1>3. CASE Check(k)
  BY <1>1, <1>3 DEF Check, Goto, store, done
<1>4. CASE Authorize(k)
  BY <1>1, <1>4 DEF Authorize, Goto, store, done
<1>5. CASE Claim(k)
  BY <1>1, <1>5 DEF Claim, Goto, store
<1>6. CASE Send(k)
  BY <1>1, <1>6 DEF Send, Happens, Goto, store
<1>7. CASE CreateReminder(k)
  BY <1>1, <1>7 DEF CreateReminder, Happens, Goto, store
<1>8. CASE Timeout(k)
  BY <1>1, <1>8 DEF Timeout, Happens, Goto, store, done
<1> QED
  BY <1>2, <1>3, <1>4, <1>5, <1>6, <1>7, <1>8 DEF Execute

\* A busy /confirm works for a known proposal.
LEMMA BusyTask ==
  ASSUME TypeOK, NEW k \in Confirms, pc[k] \in Busy
  PROVE  task[k] # None /\ task[k] \in Tasks /\ Proposal(k) \in Proposals
  BY LabelFacts DEF TypeOK, CallTypes, Tasks, Proposal

\* A proposal cards are made of what the requester asked for.
LEMMA CardTypes ==
  ASSUME TypeOK, NEW u \in Users, NEW ch \in Channels, NEW kind \in Kinds, NEW d \in Delays
  PROVE  [user |-> u, channel |-> ch, kind |-> kind,
          due |-> IF kind = "create_reminder" THEN now + d ELSE 0,
          expires |-> now + ProposalTTL] \in Cards
  BY TimeAssumption, TTLAssumption DEF TypeOK, WorldTypes, Cards

\* Every variable keeps its type, and no key is in memory that is not durable.
THEOREM ConfirmationTypes == Spec => []TypeOK
<1> USE LabelFacts
<1>1. Init => TypeOK
  BY DEF Init, TypeOK, StoreTypes, CallTypes, DoneTypes, WorldTypes
<1>2. TypeOK /\ [Next]_vars => TypeOK'
  <2> SUFFICES ASSUME TypeOK, [Next]_vars PROVE TypeOK'
    OBVIOUS
  <2>1. StoreTypes /\ CallTypes /\ DoneTypes /\ WorldTypes
    BY DEF TypeOK
  <2>2. CASE ProposeAction
    <3>1. PICK p \in Proposals, c \in Cards : Propose(p, c)
      BY <2>2, <2>1, CardTypes DEF ProposeAction, WorldTypes
    <3>2. StoreTypes'
      BY <3>1, <2>1, NoneAssumption DEF Propose, StoreTypes, LivePending, LiveCapabilities
    <3> QED
      BY <3>1, <3>2, <2>1 DEF Propose, TypeOK, CallTypes, DoneTypes, WorldTypes, calls, done, perms
  <2>3. ASSUME NEW k \in Confirms, Confirm(k) PROVE TypeOK'
    <3>1. PICK t \in Tasks :
            \/ Mint(k, t)
            \/ /\ pending' = LivePending /\ capabilities' = LiveCapabilities
               /\ UNCHANGED <<task, pc, permitted>>
      BY <2>3, <2>1 DEF Confirm, Tasks, WorldTypes
    <3>2. UNCHANGED <<card, done, allowed, now, crashes>>
      BY <2>3 DEF Confirm
    <3>3. StoreTypes' /\ WorldTypes'
      BY <3>1, <3>2, <2>1 DEF Mint, StoreTypes, WorldTypes, LivePending, LiveCapabilities
    <3>4. CallTypes'
      BY <3>1, <2>1, NoneAssumption DEF Mint, CallTypes, Goto
    <3>5. DoneTypes'
      BY <3>2, <2>1 DEF DoneTypes, done
    <3> QED
      BY <3>3, <3>4, <3>5 DEF TypeOK
  <2>4. ASSUME NEW k \in Confirms, Execute(k) \/ Timeout(k) PROVE TypeOK'
    <3>1. Proposal(k) \in Proposals /\ task[k] # None
      BY <2>4, ExecuteShape, BusyTask
    <3>2. CallTypes'
      BY <2>4, <2>1, <3>1, ExecuteShape DEF CallTypes
    <3>3. StoreTypes'
      BY <2>4, <2>1 DEF Execute, Consume, Check, Authorize, Claim, Send, CreateReminder,
                        Timeout, store, StoreTypes, LivePending, LiveCapabilities
    <3>4. DoneTypes'
      <4>1. effects' \in [Proposals -> Nat]
        BY <2>4, <2>1, <3>1, ExecuteShape DEF DoneTypes
      <4>2. claimedKeys' \subseteq claims' /\ claims' \subseteq Proposals
        BY <2>4, <2>1, <3>1 DEF Execute, Consume, Check, Authorize, Claim, Send,
                        CreateReminder, Timeout, done, DoneTypes
      <4> QED
        BY <4>1, <4>2 DEF DoneTypes
    <3>5. WorldTypes'
      BY <2>4, <2>1 DEF Execute, Consume, Check, Authorize, Claim, Send, CreateReminder,
                        Timeout, perms, WorldTypes
    <3> QED
      BY <3>2, <3>3, <3>4, <3>5 DEF TypeOK
  <2>5. ASSUME NEW u \in Users, Revoke(u) \/ Restore(u) PROVE TypeOK'
    BY <2>5, <2>1 DEF Revoke, Restore, TypeOK, StoreTypes, CallTypes, DoneTypes, WorldTypes,
                      store, calls, done
  <2>6. CASE Tick
    BY <2>6, <2>1 DEF Tick, TypeOK, StoreTypes, CallTypes, DoneTypes, WorldTypes,
                      store, calls, done, perms
  <2>7. CASE Crash
    <3>1. PICK late \in SUBSET {k \in Confirms : pc[k] \in {"sending", "creating"}} :
            effects' = [p \in Proposals |->
                          effects[p] + Cardinality({k \in late : Proposal(k) = p})]
      BY <2>7 DEF Crash
    <3>2. \A p \in Proposals : Cardinality({k \in late : Proposal(k) = p}) \in Nat
      <4> TAKE p \in Proposals
      <4>1. {k \in late : Proposal(k) = p} \subseteq Confirms
        BY <3>1
      <4> QED
        BY <4>1, ConfirmsAssumption, FS_Subset, FS_CardinalityType
    <3>3. effects' \in [Proposals -> Nat]
      BY <3>1, <3>2, <2>1 DEF DoneTypes
    <3>4. DoneTypes' /\ WorldTypes'
      BY <2>7, <2>1, <3>3 DEF Crash, DoneTypes, WorldTypes, perms
    <3>5. StoreTypes' /\ CallTypes'
      BY <2>7, <2>1 DEF Crash, StoreTypes, CallTypes
    <3> QED
      BY <3>4, <3>5 DEF TypeOK
  <2>8. CASE UNCHANGED vars
    BY <2>8, <2>1 DEF vars, TypeOK, StoreTypes, CallTypes, DoneTypes, WorldTypes,
                      store, calls, done, perms
  <2> QED
    BY <2>2, <2>3, <2>4, <2>5, <2>6, <2>7, <2>8 DEF Next
<1> QED
  BY <1>1, <1>2, PTL DEF Spec

------------------------------------------------------------------------------
(* At most once.  The capability a proposal is traded for names one        *)
(* /confirm, and the proposal is gone from the table: so no proposal ever  *)
(* has two /confirms, and its one /confirm acts only while it is busy.     *)

OneConfirmEach ==
  \A j, k \in Confirms :
    task[j] # None /\ task[k] # None /\ Proposal(j) = Proposal(k) => j = k

ConfirmedLeavesTable ==
  \A k \in Confirms :
    task[k] # None => Proposal(k) \notin pending /\ card[Proposal(k)] # None

QuietUntilDone ==
  \A p \in Proposals :
    \/ effects[p] = 0
    \/ /\ effects[p] = 1
       /\ \E k \in Confirms : task[k] # None /\ Proposal(k) = p /\ pc[k] \notin Busy

OnceInv == OneConfirmEach /\ ConfirmedLeavesTable /\ QuietUntilDone

\* A busy /confirm has had no effect yet.
LEMMA BusyHasNoEffect ==
  ASSUME TypeOK, OnceInv, NEW k \in Confirms, pc[k] \in Busy
  PROVE  effects[Proposal(k)] = 0
  BY BusyTask DEF OnceInv, OneConfirmEach, QuietUntilDone

LEMMA ProposeKeepsOnce ==
  ASSUME TypeOK, OnceInv, ProposeAction
  PROVE  OnceInv'
<1>1. PICK p \in Proposals, c \in Cards : Propose(p, c)
  BY CardTypes DEF ProposeAction, TypeOK, WorldTypes
<1>2. UNCHANGED <<task, pc, effects>>
  BY <1>1 DEF Propose, calls, done
<1>3. \A k \in Confirms : task[k] # None => Proposal(k) \in Proposals
  BY DEF TypeOK, CallTypes, Tasks, Proposal
<1>4. \A q \in Proposals : card[q] # None => q # p /\ card'[q] = card[q]
  BY <1>1 DEF Propose, TypeOK, StoreTypes
<1>5. pending' \subseteq pending \cup {p}
  BY <1>1 DEF Propose, LivePending
<1>6. ConfirmedLeavesTable'
  BY <1>2, <1>3, <1>4, <1>5 DEF OnceInv, ConfirmedLeavesTable, Proposal
<1> QED
  BY <1>2, <1>6 DEF OnceInv, OneConfirmEach, QuietUntilDone, Proposal

LEMMA ConfirmKeepsOnce ==
  ASSUME TypeOK, OnceInv, NEW k \in Confirms, Confirm(k)
  PROVE  OnceInv'
<1>1. pc[k] = "idle" /\ task[k] = None /\ UNCHANGED <<card, effects>>
  BY LabelFacts DEF Confirm, TypeOK, CallTypes, done
<1>2. PICK t \in Tasks :
        \/ Mint(k, t) /\ t.proposal \in LivePending
        \/ pending' = LivePending /\ UNCHANGED <<task, pc>>
  BY DEF Confirm, Tasks, TypeOK, WorldTypes
<1>3. CASE pending' = LivePending /\ UNCHANGED <<task, pc>>
  BY <1>1, <1>3 DEF OnceInv, OneConfirmEach, ConfirmedLeavesTable, QuietUntilDone,
                    LivePending, Proposal
<1>4. CASE Mint(k, t) /\ t.proposal \in LivePending
  <2>1. /\ task' = [task EXCEPT ![k] = t] /\ pc' = [pc EXCEPT ![k] = "minted"]
        /\ pending' \subseteq pending \ {t.proposal}
        /\ t.proposal \in pending /\ card[t.proposal] # None
    BY <1>4 DEF Mint, Goto, LivePending, TypeOK, StoreTypes
  <2>2. task \in [Confirms -> Tasks \cup {None}] /\ pc \in [Confirms -> Labels]
    BY DEF TypeOK, CallTypes
  <2>3. \A j \in Confirms : j # k => task'[j] = task[j] /\ pc'[j] = pc[j]
    BY <2>1, <2>2
  <2>4. task'[k] = t
    BY <2>1, <2>2
  <2>5. \A j \in Confirms : j # k /\ task[j] # None => task[j].proposal # t.proposal
    BY <2>1 DEF OnceInv, ConfirmedLeavesTable, Proposal
  <2>6. OneConfirmEach'
    BY <2>3, <2>4, <2>5 DEF OnceInv, OneConfirmEach, Proposal
  <2>7. ConfirmedLeavesTable'
    BY <1>1, <2>1, <2>3, <2>4 DEF OnceInv, ConfirmedLeavesTable, Proposal
  <2>8. QuietUntilDone'
    BY <1>1, <2>3 DEF OnceInv, QuietUntilDone, Proposal
  <2> QED
    BY <2>6, <2>7, <2>8 DEF OnceInv
<1> QED
  BY <1>2, <1>3, <1>4

LEMMA ExecuteKeepsOnce ==
  ASSUME TypeOK, OnceInv, NEW k \in Confirms, Execute(k) \/ Timeout(k)
  PROVE  OnceInv'
<1>1. /\ pc[k] \in Busy /\ UNCHANGED <<task, card>> /\ pending' \subseteq pending
      /\ \A j \in Confirms : j # k => pc'[j] = pc[j]
  BY ExecuteShape DEF TypeOK, CallTypes, Execute, Consume, Check, Authorize, Claim, Send,
     CreateReminder, Timeout, store, LivePending
<1>2. OneConfirmEach' /\ ConfirmedLeavesTable'
  BY <1>1 DEF OnceInv, OneConfirmEach, ConfirmedLeavesTable, Proposal
<1>3. Proposal(k) \in Proposals /\ task[k] # None /\ effects[Proposal(k)] = 0
  BY <1>1, BusyTask, BusyHasNoEffect
<1>4. QuietUntilDone'
  <2> SUFFICES ASSUME NEW p \in Proposals
               PROVE  \/ effects'[p] = 0
                      \/ /\ effects'[p] = 1
                         /\ \E j \in Confirms :
                              task'[j] # None /\ task'[j].proposal = p /\ pc'[j] \notin Busy
    BY DEF QuietUntilDone, Proposal
  <2>1. effects \in [Proposals -> Nat]
    BY DEF TypeOK, DoneTypes
  <2>2. CASE p = Proposal(k)
    BY <1>1, <1>3, <2>1, <2>2, ExecuteShape DEF Proposal
  <2>3. CASE p # Proposal(k)
    <3>1. effects'[p] = effects[p]
      BY <2>1, <2>3, <1>3, ExecuteShape
    <3> QED
      BY <3>1, <1>1, <2>3 DEF OnceInv, QuietUntilDone, Proposal
  <2> QED
    BY <2>2, <2>3
<1> QED
  BY <1>2, <1>4 DEF OnceInv

LEMMA CrashKeepsOnce ==
  ASSUME TypeOK, OnceInv, Crash
  PROVE  OnceInv'
<1>1. /\ pending' = {} /\ UNCHANGED <<card, task>>
      /\ pc' = [k \in Confirms |-> IF pc[k] \in Busy THEN "lost" ELSE pc[k]]
  BY DEF Crash
<1>2. PICK late \in SUBSET {k \in Confirms : pc[k] \in {"sending", "creating"}} :
        effects' = [p \in Proposals |->
                      effects[p] + Cardinality({k \in late : Proposal(k) = p})]
  BY DEF Crash
<1>3. OneConfirmEach' /\ ConfirmedLeavesTable'
  BY <1>1 DEF OnceInv, OneConfirmEach, ConfirmedLeavesTable, Proposal
<1>4. QuietUntilDone'
  <2> SUFFICES ASSUME NEW p \in Proposals
               PROVE  \/ effects'[p] = 0
                      \/ /\ effects'[p] = 1
                         /\ \E j \in Confirms :
                              task'[j] # None /\ task'[j].proposal = p /\ pc'[j] \notin Busy
    BY DEF QuietUntilDone, Proposal
  <2> DEFINE hit == {k \in late : Proposal(k) = p}
  <2>1. effects[p] \in Nat /\ effects'[p] = effects[p] + Cardinality(hit)
    BY <1>2 DEF TypeOK, DoneTypes
  <2>2. CASE hit = {}
    <3>1. effects'[p] = effects[p]
      BY <2>1, <2>2, FS_EmptySet
    <3> QED
      BY <3>1, <1>1, LabelFacts DEF OnceInv, QuietUntilDone, Proposal
  <2>3. ASSUME NEW k \in hit PROVE effects'[p] = 1 /\ task[k] # None /\ pc'[k] \notin Busy
    <3>1. k \in Confirms /\ pc[k] \in Busy /\ Proposal(k) = p
      BY <1>2, LabelFacts
    <3>2. task[k] # None /\ effects[p] = 0
      BY <3>1, BusyTask, BusyHasNoEffect
    <3>3. hit = {k}
      BY <1>2, <3>1, <3>2, BusyTask, LabelFacts DEF OnceInv, OneConfirmEach
    <3>4. Cardinality(hit) = 1
      BY <3>3, FS_Singleton
    <3> QED
      BY <1>1, <2>1, <3>1, <3>2, <3>4, LabelFacts
  <2> QED
    BY <1>1, <1>2, <2>2, <2>3 DEF Proposal
<1> QED
  BY <1>3, <1>4 DEF OnceInv

\* A confirmed action happens at most once, whatever is confirmed concurrently,
\* times out, fails ambiguously or crashes.
THEOREM ActsAtMostOnce == Spec => []AtMostOnce
<1>1. Init => OnceInv
  BY DEF Init, OnceInv, OneConfirmEach, ConfirmedLeavesTable, QuietUntilDone
<1>2. TypeOK /\ OnceInv /\ [Next]_vars => OnceInv'
  <2> SUFFICES ASSUME TypeOK, OnceInv, [Next]_vars PROVE OnceInv'
    OBVIOUS
  <2>1. ASSUME NEW k \in Confirms, Execute(k) \/ Timeout(k) PROVE OnceInv'
    BY <2>1, ExecuteKeepsOnce
  <2>2. ASSUME NEW k \in Confirms, Confirm(k) PROVE OnceInv'
    BY <2>2, ConfirmKeepsOnce
  <2>3. CASE UNCHANGED <<store, calls, done>>
    BY <2>3 DEF store, calls, done, OnceInv, OneConfirmEach, ConfirmedLeavesTable,
                QuietUntilDone, Proposal
  <2> QED
    BY <2>1, <2>2, <2>3, ProposeKeepsOnce, CrashKeepsOnce DEF Next, Tick, Revoke, Restore, vars
<1>3. OnceInv => AtMostOnce
  BY DEF OnceInv, QuietUntilDone, AtMostOnce
<1> QED
  BY <1>1, <1>2, <1>3, ConfirmationTypes, PTL DEF Spec

\* Only the requester, in the channel of the request, can make an action happen:
\* a card never changes once issued, and confirm compared it with the caller.
THEOREM RequesterOnly == Spec => []BoundToRequester
<1>1. Init => BoundToRequester
  BY LabelFacts DEF Init, BoundToRequester
<1>2. TypeOK /\ BoundToRequester /\ [Next]_vars => BoundToRequester'
  <2> SUFFICES ASSUME TypeOK, BoundToRequester, [Next]_vars, NEW k \in Confirms, pc'[k] \in Busy
               PROVE  /\ card'[task'[k].proposal] # None
                      /\ card'[task'[k].proposal].user = task'[k].user
                      /\ card'[task'[k].proposal].channel = task'[k].channel
    BY DEF BoundToRequester, Proposal, Card
  <2> DEFINE Bound == /\ card[task[k].proposal] # None
                      /\ card[task[k].proposal].user = task[k].user
                      /\ card[task[k].proposal].channel = task[k].channel
  <2>1. pc[k] \in Busy => Bound /\ task[k].proposal \in Proposals
    BY BusyTask DEF BoundToRequester, Proposal, Card
  <2>2. CASE ProposeAction
    <3>1. PICK p \in Proposals, c \in Cards : Propose(p, c)
      BY <2>2, CardTypes DEF ProposeAction, TypeOK, WorldTypes
    <3> QED
      BY <3>1, <2>1 DEF Propose, calls, TypeOK, StoreTypes
  <2>3. ASSUME NEW j \in Confirms, Confirm(j)
        PROVE  /\ card'[task'[k].proposal] # None
               /\ card'[task'[k].proposal].user = task'[k].user
               /\ card'[task'[k].proposal].channel = task'[k].channel
    <3>1. PICK t \in Tasks :
            \/ Mint(j, t) /\ t.proposal \in LivePending /\ ValidIdentity(t, card[t.proposal])
            \/ UNCHANGED <<task, pc>>
      BY <2>3 DEF Confirm, Tasks, TypeOK, WorldTypes
    <3>2. UNCHANGED card
      BY <2>3 DEF Confirm
    <3>3. CASE UNCHANGED <<task, pc>>
      BY <3>2, <3>3, <2>1
    <3>4. CASE Mint(j, t) /\ t.proposal \in LivePending /\ ValidIdentity(t, card[t.proposal])
      <4>1. /\ task' = [task EXCEPT ![j] = t] /\ pc' = [pc EXCEPT ![j] = "minted"]
            /\ card[t.proposal] # None
            /\ card[t.proposal].user = t.user /\ card[t.proposal].channel = t.channel
        BY <3>4 DEF Mint, Goto, LivePending, ValidIdentity, TypeOK, StoreTypes
      <4>2. task \in [Confirms -> Tasks \cup {None}] /\ pc \in [Confirms -> Labels]
        BY DEF TypeOK, CallTypes
      <4>3. CASE k = j
        BY <4>1, <4>2, <4>3, <3>2
      <4>4. CASE k # j
        BY <4>1, <4>2, <4>4, <3>2, <2>1
      <4> QED
        BY <4>3, <4>4
    <3> QED
      BY <3>1, <3>3, <3>4
  <2>4. ASSUME NEW j \in Confirms, Execute(j) \/ Timeout(j)
        PROVE  Bound /\ UNCHANGED <<card, task>>
    BY <2>4, <2>1, ExecuteShape DEF TypeOK, CallTypes
  <2>5. CASE Crash
    BY <2>5, <2>1, LabelFacts DEF Crash
  <2>6. CASE UNCHANGED <<store, calls>>
    BY <2>6, <2>1 DEF store, calls
  <2> QED
    BY <2>2, <2>3, <2>4, <2>5, <2>6 DEF Next, Tick, Revoke, Restore, vars
<1> QED
  BY <1>1, <1>2, ConfirmationTypes, PTL DEF Spec

\* The store, the claims and the executor together: an action happens at most once,
\* on the word of its requester (action_confirmation.py, tools/actions.py).
THEOREM ConfirmationIsSafe == Spec => []ConfirmationInv
  BY ConfirmationTypes, ActsAtMostOnce, RequesterOnly, PTL DEF ConfirmationInv

------------------------------------------------------------------------------
(* When, and for whom.  A busy /confirm began before its proposal expired,  *)
(* is within its timeout, and past the permission check it is known that    *)
(* its user was allowed since it began.                                     *)

DueCall(k) ==
  pc[k] \in Busy =>
    /\ now <= task[k].started + ConfirmTimeout
    /\ task[k].started <= card[Proposal(k)].expires
    /\ task[k].user \in allowed => k \in permitted
    /\ pc[k] \in {"claiming", "sending", "creating"} => k \in permitted

DueInv == \A k \in Confirms : DueCall(k)

\* Whose clock, card and permission a step leaves alone.
LEMMA SameDue ==
  ASSUME NEW k \in Confirms, DueCall(k), pc'[k] = pc[k], task'[k] = task[k],
         card'[Proposal(k)] = card[Proposal(k)], UNCHANGED <<now, perms>>
  PROVE  DueCall(k)'
  BY DEF DueCall, Proposal, perms

LEMMA ProposeKeepsDue ==
  ASSUME TypeOK, BoundToRequester, DueInv, ProposeAction
  PROVE  DueInv'
<1>1. PICK p \in Proposals, c \in Cards : Propose(p, c)
  BY CardTypes DEF ProposeAction, TypeOK, WorldTypes
<1>2. UNCHANGED <<task, pc, now, perms>>
  BY <1>1 DEF Propose, calls
<1>3. ASSUME NEW k \in Confirms, pc[k] \in Busy PROVE card'[Proposal(k)] = card[Proposal(k)]
  <2>1. card[Proposal(k)] # None /\ Proposal(k) \in Proposals
    BY <1>3, BusyTask DEF BoundToRequester
  <2> QED
    BY <2>1, <1>1 DEF Propose, TypeOK, StoreTypes
<1>4. ASSUME NEW k \in Confirms PROVE DueCall(k)'
  <2>1. CASE pc[k] \in Busy
    BY <1>2, <1>3, <2>1, SameDue DEF DueInv
  <2>2. CASE pc[k] \notin Busy
    BY <1>2, <2>2 DEF DueCall
  <2> QED
    BY <2>1, <2>2
<1> QED
  BY <1>4 DEF DueInv

LEMMA ConfirmKeepsDue ==
  ASSUME TypeOK, BoundToRequester, DueInv, NEW j \in Confirms, Confirm(j)
  PROVE  DueInv'
<1>1. PICK t \in Tasks :
        /\ t.started = now
        /\ \/ Mint(j, t) /\ t.proposal \in LivePending
           \/ UNCHANGED <<task, pc, permitted>>
  BY DEF Confirm, Tasks, TypeOK, WorldTypes
<1>2. UNCHANGED <<card, allowed, now>>
  BY DEF Confirm
<1>3. ASSUME NEW k \in Confirms PROVE DueCall(k)'
  <2>1. CASE UNCHANGED <<task, pc, permitted>>
    BY <1>2, <2>1, SameDue DEF DueInv, perms
  <2>2. CASE Mint(j, t) /\ t.proposal \in LivePending
    <3>1. /\ task' = [task EXCEPT ![j] = t] /\ pc' = [pc EXCEPT ![j] = "minted"]
          /\ permitted \subseteq permitted' /\ (t.user \in allowed => j \in permitted')
      BY <2>2 DEF Mint, Goto
    <3>2. task \in [Confirms -> Tasks \cup {None}] /\ pc \in [Confirms -> Labels]
      BY DEF TypeOK, CallTypes
    <3>3. CASE k = j
      <4>1. task'[k] = t /\ pc'[k] = "minted"
        BY <3>1, <3>2, <3>3
      <4>2. card[t.proposal] \in Cards /\ card[t.proposal].expires > now
        BY <2>2 DEF LivePending, TypeOK, StoreTypes
      <4>3. now \in Nat /\ card[t.proposal].expires \in Nat
        BY <4>2 DEF TypeOK, WorldTypes, Cards
      <4> QED
        BY <1>1, <1>2, <3>1, <3>3, <4>1, <4>2, <4>3, TTLAssumption DEF DueCall, Proposal
    <3>4. CASE k # j
      <4>1. task'[k] = task[k] /\ pc'[k] = pc[k] /\ DueCall(k)
        BY <3>1, <3>2, <3>4 DEF DueInv
      <4> QED
        BY <1>2, <3>1, <4>1 DEF DueCall, Proposal
    <3> QED
      BY <3>3, <3>4
  <2> QED
    BY <1>1, <2>1, <2>2
<1> QED
  BY <1>3 DEF DueInv

LEMMA ExecuteKeepsDue ==
  ASSUME TypeOK, BoundToRequester, DueInv, NEW j \in Confirms, Execute(j) \/ Timeout(j)
  PROVE  DueInv'
<1>1. /\ pc[j] \in Busy /\ UNCHANGED <<task, card, perms, now>>
      /\ \A k \in Confirms : k # j => pc'[k] = pc[k]
  BY ExecuteShape DEF TypeOK, CallTypes, Execute, Consume, Check, Authorize, Claim, Send,
     CreateReminder, Timeout
<1>2. pc'[j] \in {"claiming", "sending", "creating"} => j \in permitted
  <2>1. pc \in [Confirms -> Labels]
    BY DEF TypeOK, CallTypes
  <2>2. CASE Authorize(j)
    BY <1>1, <2>1, <2>2 DEF Authorize, Goto, Card, Proposal, BoundToRequester, DueInv, DueCall
  <2>3. CASE Claim(j)
    BY <1>1, <2>1, <2>3 DEF Claim, DueInv, DueCall
  <2>4. CASE Consume(j) \/ Check(j) \/ Send(j) \/ CreateReminder(j) \/ Timeout(j)
    BY <2>1, <2>4 DEF Consume, Check, Send, CreateReminder, Timeout, Goto
  <2> QED
    BY <2>2, <2>3, <2>4 DEF Execute
<1>3. ASSUME NEW k \in Confirms PROVE DueCall(k)'
  <2>1. CASE k # j
    BY <1>1, <2>1, SameDue DEF DueInv
  <2>2. CASE k = j
    BY <1>1, <1>2, <2>2 DEF DueInv, DueCall, Proposal, perms
  <2> QED
    BY <2>1, <2>2
<1> QED
  BY <1>3 DEF DueInv

LEMMA WorldKeepsDue ==
  ASSUME TypeOK, DueInv,
         \/ Tick \/ Crash \/ UNCHANGED vars
         \/ \E u \in Users : Revoke(u) \/ Restore(u)
  PROVE  DueInv'
<1> SUFFICES ASSUME NEW k \in Confirms PROVE DueCall(k)'
  BY DEF DueInv
<1>1. DueCall(k)
  BY DEF DueInv
<1>2. CASE Tick
  <2>1. pc[k] \in Busy => task[k].started \in Nat /\ now \in Nat
    BY BusyTask DEF Tasks, TypeOK, WorldTypes
  <2> QED
    BY <1>1, <1>2, <2>1, TTLAssumption DEF Tick, DueCall, Proposal, store, calls, perms
<1>3. CASE Crash
  BY <1>1, <1>3, LabelFacts DEF Crash, DueCall, TypeOK, CallTypes
<1>4. ASSUME NEW u \in Users, Revoke(u) \/ Restore(u) PROVE DueCall(k)'
  BY <1>1, <1>4, LabelFacts DEF Revoke, Restore, DueCall, Proposal, store, calls
<1>5. CASE UNCHANGED vars
  BY <1>1, <1>5 DEF vars, store, calls, perms, DueCall, Proposal
<1> QED
  BY <1>2, <1>3, <1>4, <1>5

LEMMA DueHolds == Spec => []DueInv
<1>1. Init => DueInv
  BY LabelFacts DEF Init, DueInv, DueCall
<1>2. TypeOK /\ BoundToRequester /\ DueInv /\ [Next]_vars => DueInv'
  BY ProposeKeepsDue, ConfirmKeepsDue, ExecuteKeepsDue, WorldKeepsDue DEF Next
<1> QED
  BY <1>1, <1>2, ConfirmationTypes, RequesterOnly, PTL DEF Spec

\* An effect comes from one /confirm that is busy, past its permission check.
LEMMA EffectComesFrom ==
  ASSUME TypeOK, DueInv, Next, NEW p \in Proposals, effects'[p] # effects[p]
  PROVE  \E k \in Confirms : pc[k] \in Busy /\ Proposal(k) = p /\ k \in permitted
<1>1. ASSUME NEW k \in Confirms, Execute(k) \/ Timeout(k)
      PROVE  pc[k] \in Busy /\ Proposal(k) = p /\ k \in permitted
  <2>1. effects' = [effects EXCEPT ![Proposal(k)] = @ + 1]
    BY <1>1, ExecuteShape
  <2>2. Proposal(k) = p /\ pc[k] \in Busy
    BY <1>1, <2>1, ExecuteShape DEF TypeOK, DoneTypes
  <2>3. pc[k] \in {"claiming", "sending", "creating"}
    <3>1. ~ UNCHANGED effects
      OBVIOUS
    <3> QED
      BY <1>1, <3>1 DEF Execute, Consume, Check, Authorize, Claim, Send, CreateReminder,
                        Timeout, done
  <2> QED
    BY <2>2, <2>3 DEF DueInv, DueCall
<1>2. CASE Crash
  <2>1. PICK late \in SUBSET {k \in Confirms : pc[k] \in {"sending", "creating"}} :
          effects' = [q \in Proposals |->
                        effects[q] + Cardinality({k \in late : Proposal(k) = q})]
    BY <1>2 DEF Crash
  <2>2. {k \in late : Proposal(k) = p} # {}
    <3> SUFFICES ASSUME {k \in late : Proposal(k) = p} = {} PROVE FALSE
      OBVIOUS
    <3>1. effects'[p] = effects[p] + 0
      BY <2>1, FS_EmptySet
    <3> QED
      BY <3>1 DEF TypeOK, DoneTypes
  <2> QED
    BY <2>1, <2>2, LabelFacts DEF DueInv, DueCall
<1>3. CASE UNCHANGED effects
  BY <1>3
<1> QED
  BY <1>1, <1>2, <1>3 DEF Next, ProposeAction, Propose, Confirm, Tick, Revoke, Restore, done

\* Nothing a user confirms happens later than the proposal's expiry plus the
\* timeout of /confirm, nor without a time since /confirm at which the user was
\* allowed to do it (chat/tools/actions.py, discord/actions.py).
THEOREM EffectsComeDue == Spec => EffectsAreDue
<1>1. TypeOK /\ BoundToRequester /\ DueInv /\ [Next]_vars
        => [\A p \in Proposals :
              effects'[p] # effects[p] => now <= card[p].expires + ConfirmTimeout]_vars
  <2> SUFFICES ASSUME TypeOK, BoundToRequester, DueInv, Next,
                      NEW p \in Proposals, effects'[p] # effects[p]
               PROVE  now <= card[p].expires + ConfirmTimeout
    OBVIOUS
  <2>1. PICK k \in Confirms : pc[k] \in Busy /\ Proposal(k) = p
    BY EffectComesFrom
  <2>2. task[k].started \in Nat /\ card[p].expires \in Nat /\ now \in Nat
    BY <2>1, BusyTask DEF BoundToRequester, TypeOK, StoreTypes, WorldTypes, Tasks, Cards
  <2>3. now <= task[k].started + ConfirmTimeout /\ task[k].started <= card[p].expires
    BY <2>1 DEF DueInv, DueCall
  <2> QED
    BY <2>2, <2>3, TTLAssumption
<1>2. TypeOK /\ DueInv /\ [Next]_vars
        => [\A p \in Proposals :
              effects'[p] # effects[p] =>
                \E k \in permitted : pc[k] \in Busy /\ Proposal(k) = p]_vars
  BY EffectComesFrom DEF vars, done
<1> QED
  BY <1>1, <1>2, ConfirmationTypes, RequesterOnly, DueHolds, PTL
     DEF EffectsAreDue, NoLateEffect, PermissionRechecked, Spec

\* A card that is waiting for its confirmation is never evicted for another one
\* (action_confirmation.py, propose).
THEOREM CardsAreKept == Spec => NoEviction
<1>1. TypeOK /\ [Next]_vars
        => [\A p \in pending \ pending' :
              \/ card[p].expires <= now
              \/ \E k \in Confirms :
                    pc[k] = "idle" /\ pc'[k] = "minted" /\ task'[k].proposal = p
              \/ crashes' # crashes]_vars
  <2> SUFFICES ASSUME TypeOK, Next, NEW p \in pending \ pending',
                      ~ (card[p].expires <= now)
               PROVE  \/ \E k \in Confirms :
                            pc[k] = "idle" /\ pc'[k] = "minted" /\ task'[k].proposal = p
                      \/ crashes' # crashes
    OBVIOUS
  <2>1. p \in LivePending
    <3>1. card[p] \in Cards /\ now \in Nat
      BY DEF TypeOK, StoreTypes, WorldTypes
    <3>2. card[p].expires \in Nat
      BY <3>1 DEF Cards
    <3> QED
      BY <3>1, <3>2 DEF LivePending
  <2>2. ~ ProposeAction
    BY <2>1 DEF ProposeAction, Propose
  <2>3. ASSUME NEW k \in Confirms, Confirm(k)
        PROVE  pc[k] = "idle" /\ pc'[k] = "minted" /\ task'[k].proposal = p
    BY <2>1, <2>3 DEF Confirm, Mint, Goto, TypeOK, CallTypes
  <2>4. ASSUME NEW k \in Confirms, Execute(k) \/ Timeout(k) PROVE FALSE
    BY <2>1, <2>4 DEF Execute, Consume, Check, Authorize, Claim, Send, CreateReminder,
                      Timeout, store
  <2>5. CASE Crash
    BY <2>5 DEF Crash, TypeOK, WorldTypes
  <2>6. ~ Tick /\ \A u \in Users : ~ Revoke(u) /\ ~ Restore(u)
    BY DEF Tick, Revoke, Restore, store
  <2> QED
    BY <2>2, <2>3, <2>4, <2>5, <2>6 DEF Next
<1> QED
  BY <1>1, ConfirmationTypes, PTL DEF NoEviction, Spec
==============================================================================
