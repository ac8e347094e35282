-------------------------- MODULE ActionConfirmation --------------------------
(***************************************************************************)
(* Actions the model proposes and a person confirms:                       *)
(* ActionConfirmationStore (chat/action_confirmation.py), the executor     *)
(* (chat/tools/actions.py) and the /confirm command (discord/actions.py).  *)
(*                                                                         *)
(* The store's operations hold its lock and contain no await, so each is   *)
(* one step.  Between them, and at every await of the executor, other      *)
(* confirmations, the clock, permissions, the 15 s timeout and a process   *)
(* crash may intervene.  Reminders and channel messages are modelled; an   *)
(* emoji import shares everything up to `consume'.                         *)
(***************************************************************************)
EXTENDS Integers, FiniteSets

CONSTANTS Users, Channels,
          Proposals,       \* proposal ids (random, never reused)
          Confirms,        \* invocations of /confirm
          MaxPending,      \* max_pending, per principal
          ProposalTTL,     \* proposal_ttl
          CapabilityTTL,   \* capability_ttl
          ConfirmTimeout,  \* the wait_for around confirm_action
          Delays,          \* how far ahead reminders are asked for
          MaxTime,         \* the clock runs over 0 .. MaxTime
          MaxCrashes,
          None             \* no value

ASSUME ConfirmsAssumption == IsFiniteSet(Confirms)
ASSUME PendingAssumption == MaxPending \in Nat \ {0}
ASSUME TTLAssumption == /\ ProposalTTL \in Nat \ {0} /\ CapabilityTTL \in Nat \ {0}
                        /\ ConfirmTimeout \in Nat \ {0}
ASSUME TimeAssumption == MaxTime \in Nat /\ MaxCrashes \in Nat /\ Delays \subseteq Nat \ {0}

Kinds == {"create_reminder", "send_channel_message"}

\* ActionProposal: identity, kind, time of the reminder, expiry.
Cards == [user : Users, channel : Channels, kind : Kinds, due : Nat, expires : Nat]

\* A /confirm: who typed it, where, for which proposal, and when.
Tasks == [user : Users, channel : Channels, proposal : Proposals, started : Nat]

ASSUME NoneAssumption == None \notin Cards /\ None \notin Tasks

VARIABLES
  card,          \* every proposal ever created, None before
  pending,       \* keys of _proposals
  capabilities,  \* keys of _capabilities, named by the /confirm that minted them
  task,          \* the /confirm invocations, None before they begin
  pc,            \* how far each is
  claims,        \* durable send_once keys (AppState)
  claimedKeys,   \* _claimed_action_keys
  effects,       \* times a proposal's action happened: a row or a message
  allowed,       \* users who may view and send where their actions act
  permitted,     \* ghost: /confirms whose user was allowed at some time since
  now, crashes

store == <<card, pending, capabilities>>
calls == <<task, pc>>
done  == <<claims, claimedKeys, effects>>
perms == <<allowed, permitted>>
vars  == <<store, calls, done, perms, now, crashes>>

Busy == {"minted", "checking", "authorizing", "claiming", "sending", "creating"}
Over == {"refused", "stopped", "succeeded", "unknown", "lost"}
Labels == {"idle"} \cup Busy \cup Over

Init ==
  /\ card = [p \in Proposals |-> None] /\ pending = {} /\ capabilities = {}
  /\ task = [k \in Confirms |-> None] /\ pc = [k \in Confirms |-> "idle"]
  /\ claims = {} /\ claimedKeys = {} /\ effects = [p \in Proposals |-> 0]
  /\ allowed = Users /\ permitted = {}
  /\ now = 0 /\ crashes = 0

Goto(k, label) == pc' = [pc EXCEPT ![k] = label]

------------------------------------------------------------------------------
(* ActionConfirmationStore                                                 *)

\* Mutant: expired proposals are not swept.
LivePendingUnpruned == pending

\* _prune: what survives the sweep every operation starts with.
LivePending == {p \in pending : card[p].expires > now}
LiveCapabilities == {k \in capabilities : task[k].started + CapabilityTTL > now}

\* Mutant: at the limit the older cards make room.
ProposeEvicting(p, c) ==
  /\ card[p] = None
  /\ card' = [card EXCEPT ![p] = c]
  /\ pending' = IF Cardinality(LivePending) >= MaxPending
                  THEN {p} ELSE LivePending \cup {p}
  /\ capabilities' = LiveCapabilities
  /\ UNCHANGED <<calls, done, perms, now, crashes>>

\* propose: at the limit the new proposal is refused, nobody's card is evicted.
\* A refused proposal still prunes.
Propose(p, c) ==
  /\ card[p] = None
  /\ IF Cardinality({q \in LivePending : card[q].user = c.user}) < MaxPending
       THEN card' = [card EXCEPT ![p] = c] /\ pending' = LivePending \cup {p}
       ELSE UNCHANGED card /\ pending' = LivePending
  /\ capabilities' = LiveCapabilities
  /\ UNCHANGED <<calls, done, perms, now, crashes>>

\* The tools propose reminders for the future and messages to a channel the
\* requester may send to.
ProposeAction ==
  \E p \in Proposals, u \in allowed, ch \in Channels, kind \in Kinds, delay \in Delays :
    Propose(p, [user |-> u, channel |-> ch, kind |-> kind,
                due |-> IF kind = "create_reminder" THEN now + delay ELSE 0,
                expires |-> now + ProposalTTL])

\* _validate_identity: same user, same server and channel.
ValidIdentity(t, c) == c.user = t.user /\ c.channel = t.channel

\* Mutant: the proposal stays pending.
MintKeepingProposal(k, t) ==
  /\ capabilities' = LiveCapabilities \cup {k} /\ pending' = LivePending
  /\ task' = [task EXCEPT ![k] = t]
  /\ Goto(k, "minted")
  /\ permitted' = IF t.user \in allowed THEN permitted \cup {k} ELSE permitted

\* The exact proposal is traded for a single-use capability.
Mint(k, t) ==
  /\ capabilities' = LiveCapabilities \cup {k} /\ pending' = LivePending \ {t.proposal}
  /\ task' = [task EXCEPT ![k] = t]
  /\ Goto(k, "minted")
  /\ permitted' = IF t.user \in allowed THEN permitted \cup {k} ELSE permitted

\* confirm: an unknown or expired proposal, a wrong user or a wrong channel
\* changes nothing but what the sweep drops; a proposal stays pending.
Confirm(k) ==
  /\ pc[k] = "idle" /\ now < MaxTime
  /\ \E t \in [user : Users, channel : Channels, proposal : Proposals, started : {now}] :
       IF t.proposal \in LivePending /\ ValidIdentity(t, card[t.proposal])
         THEN Mint(k, t)
         ELSE /\ pending' = LivePending /\ capabilities' = LiveCapabilities
              /\ UNCHANGED <<task, pc, permitted>>
  /\ UNCHANGED <<card, done, allowed, now, crashes>>

\* consume: once, and before the capability expires.
Consume(k) ==
  /\ pc[k] = "minted"
  /\ capabilities' = LiveCapabilities \ {k}
  /\ Goto(k, IF k \in LiveCapabilities THEN "checking" ELSE "refused")
  /\ pending' = LivePending
  /\ UNCHANGED <<card, task, done, perms, now, crashes>>

------------------------------------------------------------------------------
(* The executor: confirm_action after consume                              *)

Proposal(k) == task[k].proposal
Card(k) == card[task[k].proposal]

\* A reminder whose time has passed is dropped; a message is held back while
\* Discord is rate-limiting the bot or the channel cannot be fetched.
Check(k) ==
  /\ pc[k] = "checking"
  /\ \/ Goto(k, "stopped") /\ (Card(k).kind = "create_reminder" => Card(k).due <= now)
     \/ Goto(k, "authorizing") /\ (Card(k).kind = "create_reminder" => Card(k).due > now)
  /\ UNCHANGED <<store, task, done, perms, now, crashes>>

\* _channel_send_is_authorized, asked again at execution.
Authorize(k) ==
  /\ pc[k] = "authorizing"
  /\ Goto(k, IF Card(k).user \notin allowed THEN "stopped"
             ELSE IF Card(k).kind = "create_reminder" THEN "creating" ELSE "claiming")
  /\ UNCHANGED <<store, task, done, perms, now, crashes>>

\* _claim_send_once: refused if the key is in memory or in the table; committed
\* before it is remembered.  A database error may come before or after the commit.
Claim(k) ==
  /\ pc[k] = "claiming"
  /\ \/ /\ Proposal(k) \in claimedKeys \cup claims
        /\ Goto(k, "stopped") /\ UNCHANGED <<claims, claimedKeys>>
     \/ /\ Proposal(k) \notin claimedKeys \cup claims
        /\ claims' = claims \cup {Proposal(k)}
        /\ claimedKeys' = claimedKeys \cup {Proposal(k)}
        /\ Goto(k, "sending")
     \/ /\ Proposal(k) \notin claimedKeys
        /\ \/ UNCHANGED claims
           \/ claims' = claims \cup {Proposal(k)}
        /\ Goto(k, "unknown") /\ UNCHANGED claimedKeys
  /\ UNCHANGED <<store, task, effects, perms, now, crashes>>

Happens(k) == effects' = [effects EXCEPT ![Proposal(k)] = @ + 1]

\* channel.send: an error does not tell whether Discord accepted the message;
\* the claim is kept and the user told that the status is unknown.
Send(k) ==
  /\ pc[k] = "sending"
  /\ \/ Happens(k) /\ Goto(k, "succeeded")
     \/ (Happens(k) \/ UNCHANGED effects) /\ Goto(k, "unknown")
  /\ UNCHANGED <<store, task, claims, claimedKeys, perms, now, crashes>>

\* create_reminder and its commit, which may raise after the row is in.
CreateReminder(k) ==
  /\ pc[k] = "creating"
  /\ \/ Happens(k) /\ Goto(k, "succeeded")
     \/ (Happens(k) \/ UNCHANGED effects) /\ Goto(k, "unknown")
  /\ UNCHANGED <<store, task, claims, claimedKeys, perms, now, crashes>>

\* wait_for cancels the executor at the await it has reached: a transaction or
\* a Discord request that was out may still have taken effect.
Timeout(k) ==
  /\ pc[k] \in Busy
  /\ now >= task[k].started + ConfirmTimeout
  /\ Goto(k, "unknown")
  /\ \/ UNCHANGED done
     \/ pc[k] \in {"sending", "creating"} /\ Happens(k) /\ UNCHANGED <<claims, claimedKeys>>
     \/ /\ pc[k] = "claiming" /\ claims' = claims \cup {Proposal(k)}
        /\ UNCHANGED <<claimedKeys, effects>>
  /\ UNCHANGED <<store, task, perms, now, crashes>>

------------------------------------------------------------------------------
(* The world                                                               *)

\* wait_for is on the same clock: no /confirm is still running past its timeout.
Tick ==
  /\ now < MaxTime
  /\ \A k \in Confirms : pc[k] \in Busy => now < task[k].started + ConfirmTimeout
  /\ now' = now + 1
  /\ UNCHANGED <<store, calls, done, perms, crashes>>

Revoke(u) ==
  /\ u \in allowed
  /\ allowed' = allowed \ {u}
  /\ UNCHANGED <<store, calls, done, permitted, now, crashes>>

Restore(u) ==
  /\ u \notin allowed
  /\ allowed' = allowed \cup {u}
  /\ permitted' = permitted \cup {k \in Confirms : pc[k] \in Busy /\ task[k].user = u}
  /\ UNCHANGED <<store, calls, done, now, crashes>>

\* Proposals and capabilities are in memory only; reminders, messages and
\* send_once claims survive.
Crash ==
  /\ crashes < MaxCrashes
  /\ crashes' = crashes + 1
  /\ pending' = {} /\ capabilities' = {} /\ claimedKeys' = {}
  /\ pc' = [k \in Confirms |-> IF pc[k] \in Busy THEN "lost" ELSE pc[k]]
  /\ \E late \in SUBSET {k \in Confirms : pc[k] \in {"sending", "creating"}} :
       effects' = [p \in Proposals |-> effects[p] + Cardinality({k \in late : Proposal(k) = p})]
  /\ UNCHANGED <<card, task, claims, perms, now>>

Execute(k) ==
  Consume(k) \/ Check(k) \/ Authorize(k) \/ Claim(k) \/ Send(k) \/ CreateReminder(k)

Next ==
  \/ ProposeAction \/ Tick \/ Crash
  \/ \E k \in Confirms : Confirm(k) \/ Execute(k) \/ Timeout(k)
  \/ \E u \in Users : Revoke(u) \/ Restore(u)

Spec == Init /\ [][Next]_vars

------------------------------------------------------------------------------
StoreTypes ==
  /\ card \in [Proposals -> Cards \cup {None}]
  /\ pending \subseteq {p \in Proposals : card[p] # None}
  /\ capabilities \subseteq Confirms

CallTypes ==
  /\ task \in [Confirms -> Tasks \cup {None}]
  /\ pc \in [Confirms -> Labels]
  /\ \A k \in Confirms : pc[k] # "idle" <=> task[k] # None

DoneTypes ==
  /\ claimedKeys \subseteq claims /\ claims \subseteq Proposals
  /\ effects \in [Proposals -> Nat]

WorldTypes ==
  /\ allowed \subseteq Users /\ permitted \subseteq Confirms
  /\ now \in Nat /\ crashes \in Nat

\* Every variable holds a value of the program's types; a key remembered in
\* memory is a committed one.
TypeOK == StoreTypes /\ CallTypes /\ DoneTypes /\ WorldTypes

\* An action proposed once happens at most once, however many /confirms name it,
\* time out, fail ambiguously or are cut off by a crash.
AtMostOnce == \A p \in Proposals : effects[p] <= 1

\* Only the requester, in the place of the request, can make it happen.
BoundToRequester ==
  \A k \in Confirms :
    pc[k] \in Busy => /\ card[Proposal(k)] # None
                      /\ Card(k).user = task[k].user /\ Card(k).channel = task[k].channel

\* Nothing happens later than the proposal's expiry plus the /confirm timeout.
NoLateEffect ==
  [][\A p \in Proposals :
       effects'[p] # effects[p] => now <= card[p].expires + ConfirmTimeout]_vars

\* "channel permissions and dynamic conditions are rechecked at execution": an
\* action of a user who was not allowed at any time since /confirm never happens.
PermissionRechecked ==
  [][\A p \in Proposals :
       effects'[p] # effects[p] =>
         \E k \in permitted : pc[k] \in Busy /\ Proposal(k) = p]_vars

\* An effect comes in time, and from an owner who still was allowed to cause it.
EffectsAreDue == NoLateEffect /\ PermissionRechecked

\* What the store and the claims guarantee together: well-formed state, at most one
\* effect per proposal, and only on the word of its requester.
ConfirmationInv == TypeOK /\ AtMostOnce /\ BoundToRequester

\* "rejects the new proposal instead of evicting": a pending card disappears
\* only by expiry, by its own confirmation, or with the process.
NoEviction ==
  [][\A p \in pending \ pending' :
       \/ card[p].expires <= now
       \/ \E k \in Confirms : pc[k] = "idle" /\ pc'[k] = "minted" /\ task'[k].proposal = p
       \/ crashes' # crashes]_vars

==============================================================================
