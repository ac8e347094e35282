------------------------------ MODULE ModelClient ------------------------------
(***************************************************************************)
(* The failover of OpenAIClient (llm/client.py): a call takes the models   *)
(* that are not in cooldown when it begins, asks them one after the other, *)
(* then a second provider, and marks in the table that all calls share     *)
(* which model not to ask for a while.                                     *)
(*                                                                         *)
(* The chat completions and the Responses API differ in the busy retry     *)
(* only.  Requests, answers and costs are left out; an error is its kind   *)
(* (provider_policy.py).                                                   *)
(***************************************************************************)
EXTENDS Integers, Sequences, FiniteSets, SequencesExt

CONSTANTS Inferences,          \* the calls
          Main, Backup, Other, \* openai_chat_model, its fallback, the second provider's
          Kinds,               \* the kinds of error that may happen
          CoolsFor,            \* failover_cooldown_seconds, by kind
          ClientHorizon        \* bound on the clock

FailsOver == {"deployment", "rate_limit", "access_denied", "transient"}

ASSUME ClientAssumption ==
  /\ CoolsFor \in [Kinds -> Nat] /\ ClientHorizon \in Nat
  /\ \A k \in Kinds : k \in FailsOver <=> CoolsFor[k] > 0
  /\ Cardinality({Main, Backup, Other}) = 3

VARIABLES
  time,
  until,    \* _unhealthy_chat_models_until of both clients, 0 without an entry
  call,     \* by call: where it is and what it did
  broken    \* by model: the last deployment error and who was under way then

clientVars == <<time, until, call, broken>>

Models == {Main, Backup, Other}
Unhealthy(m) == until[m] > time

\* again: it tries a busy model again, retries: not yet this one; crosses: it may
\* still ask the second provider.
NotCalled == [at |-> "idle", plan |-> <<>>, pos |-> 1, again |-> FALSE, retries |-> FALSE,
              crosses |-> FALSE, asked |-> <<>>, prior |-> <<>>, attempts |-> <<>>]
Ended == [NotCalled EXCEPT !.at = "over"]
Intact == [until |-> 0, racing |-> {}, lifted |-> FALSE]
Underway == {c \in Inferences : call[c].at \in {"asking", "pausing"}}

ClientInit ==
  /\ time = 0 /\ until = [m \in Models |-> 0] /\ call = [c \in Inferences |-> NotCalled]
  /\ broken = [m \in Models |-> Intact]

------------------------------------------------------------------------------
(* The shared table                                                        *)

\* c writes the entry of m: the last writer wins.  An error of the deployment
\* is noted with the calls that were under way and may not know of it.
Write(m, value, kind, c) ==
  /\ until' = [until EXCEPT ![m] = value]
  /\ broken' = [broken EXCEPT ![m] =
       IF kind = "deployment" THEN [until |-> value, racing |-> Underway \ {c}, lifted |-> FALSE]
       ELSE [broken[m] EXCEPT !.lifted = broken[m].lifted \/ c \in broken[m].racing]]

\* _mark_chat_model_unhealthy
Mark(m, kind, c) ==
  IF CoolsFor[kind] = 0 THEN UNCHANGED <<until, broken>>
  ELSE Write(m, time + CoolsFor[kind], kind, c)

\* _clear_chat_model_cooldown
Clear(m, c) == Write(m, 0, "none", c)

------------------------------------------------------------------------------
(* A call                                                                  *)

Asking(c) == call[c].plan[call[c].pos]

\* A model in cooldown is not asked.
IfHealthy(m) == IF Unhealthy(m) THEN <<>> ELSE <<m>>

\* _chat_model_candidates: an economy feature or a metered model has no fallback.
Candidates(m, feature, metered) ==
  IfHealthy(m) \o (IF m = Main /\ feature # "economy" /\ ~ metered THEN IfHealthy(Backup) ELSE <<>>)

\* The call asks the next model; what it asked is noted.
Ask1(r) == [r EXCEPT !.at = "asking", !.asked = Append(@, r.plan[r.pos])]

\* Mutant: the attempts of the second provider count from one again.
NumberedAnew(attempts, offset) == attempts

\* _offset_provider_attempts
Numbered(attempts, offset) == [i \in DOMAIN attempts |-> [attempts[i] EXCEPT !.number = @ + offset]]

\* What a call that ends reports: its attempts follow those of the first provider.
Reported(r) == r.prior \o Numbered(r.attempts, Len(r.prior))

GoesOn(c, r) == call' = [call EXCEPT ![c] = r]
EndCall(c) == GoesOn(c, Ended)

\* _complete_cross_provider_fallback, up to its request.  In cooldown the second
\* provider's client fails at once, as if it were unavailable.
Cross(c, r) ==
  LET second == [r EXCEPT !.crosses = FALSE, !.plan = <<Other>>, !.pos = 1, !.retries = r.again,
                          !.prior = r.attempts, !.attempts = <<>>]
  IN  IF Unhealthy(Other) THEN EndCall(c) ELSE GoesOn(c, Ask1(second))

\* foreground: a reply over the chat completions, the only call with a busy retry.
BeginCall(c, m, feature, metered, foreground) ==
  /\ call[c].at = "idle" /\ (foreground => feature = "reply")
  /\ LET plan == Candidates(m, feature, metered)
         r    == [NotCalled EXCEPT !.plan = plan, !.again = foreground, !.retries = foreground,
                                   !.crosses = feature # "economy"]
     IN  IF plan # <<>> THEN GoesOn(c, Ask1(r))
         ELSE IF r.crosses THEN Cross(c, r) ELSE EndCall(c)
  /\ UNCHANGED <<time, until, broken>>

\* The attempt is recorded with its number on this client.
Noted(r) == [r EXCEPT !.attempts = Append(@, [number |-> Len(@) + 1, model |-> r.plan[r.pos]])]

Answers(c) ==
  /\ call[c].at = "asking"
  /\ EndCall(c)
  /\ Clear(Asking(c), c)
  /\ UNCHANGED time

\* A busy model is given one more try, a second later.
Busy(c) ==
  /\ call[c].at = "asking" /\ call[c].retries /\ "rate_limit" \in Kinds
  /\ GoesOn(c, [Noted(call[c]) EXCEPT !.at = "pausing", !.retries = FALSE])
  /\ UNCHANGED <<time, until, broken>>

Retry(c) ==
  /\ call[c].at = "pausing"
  /\ GoesOn(c, Ask1(call[c]))
  /\ UNCHANGED <<time, until, broken>>

\* The error of a model: on to the next candidate, to the second provider, or up
\* to the caller.  The model is marked when the call goes on without it, and for
\* an error of its deployment in any case.
Fails(c, kind) ==
  /\ call[c].at = "asking" /\ ~ (kind = "rate_limit" /\ call[c].retries)
  /\ LET r     == Noted(call[c])
         more  == r.pos < Len(r.plan)
         leave == kind \in FailsOver /\ (more \/ r.crosses)
     IN  /\ CASE leave /\ more   -> GoesOn(c, Ask1([r EXCEPT !.pos = @ + 1, !.retries = r.again]))
              [] leave /\ ~ more -> Cross(c, r)
              [] OTHER           -> EndCall(c)
         /\ IF leave \/ kind = "deployment" THEN Mark(Asking(c), kind, c)
            ELSE UNCHANGED <<until, broken>>
  /\ UNCHANGED time

\* The caller's timeout or /cancel: nothing is recorded, nothing marked.
Abandon(c) ==
  /\ c \in Underway
  /\ EndCall(c)
  /\ UNCHANGED <<time, until, broken>>

\* An entry whose time has come counts as none (_is_chat_model_unhealthy).
ClientTick ==
  /\ time < ClientHorizon /\ time' = time + 1
  /\ until' = [m \in Models |-> IF until[m] > time' THEN until[m] ELSE 0]
  /\ broken' = [m \in Models |-> IF broken[m].until > time' THEN broken[m] ELSE Intact]
  /\ UNCHANGED call

ClientNext ==
  \/ \E c \in Inferences, m \in {Main, Backup}, feature \in {"reply", "economy"},
        metered, foreground \in BOOLEAN : BeginCall(c, m, feature, metered, foreground)
  \/ \E c \in Inferences : Answers(c) \/ Busy(c) \/ Retry(c) \/ Abandon(c)
  \/ \E c \in Inferences, kind \in Kinds : Fails(c, kind)
  \/ ClientTick

ClientSpec == ClientInit /\ [][ClientNext]_clientVars

------------------------------------------------------------------------------
(* Properties                                                              *)

ClientTypeOK ==
  /\ time \in 0 .. ClientHorizon /\ until \in [Models -> Nat]
  /\ \A c \in Inferences :
       /\ call[c].at \in {"idle", "asking", "pausing", "over"}
       /\ c \in Underway => call[c].pos \in DOMAIN call[c].plan

\* A model whose deployment is broken is left alone for its whole cooldown, unless
\* a call that was already under way when it broke has overwritten or cleared the
\* entry: the table keeps the last word (client.py:742-753).
CooldownKept ==
  \A m \in Models : time < broken[m].until /\ ~ Unhealthy(m) => broken[m].lifted

\* What a call reports, if it ends now, is what it asked, over both providers, in
\* order and numbered from one, but for the request that is still out: the verdict
\* on its reservation is read from that list (client.py:636-643,
\* quota_execution.py:144-157).
AttemptsTellAll ==
  \A c \in Underway :
    LET out == IF call[c].at = "asking" THEN 1 ELSE 0
    IN  Reported(call[c]) =
          [i \in 1 .. Len(call[c].asked) - out |-> [number |-> i, model |-> call[c].asked[i]]]

\* The client neither forgets a broken deployment nor an attempt it made.
ClientInv == ClientTypeOK /\ CooldownKept /\ AttemptsTellAll
==============================================================================
