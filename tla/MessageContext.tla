---------------------------- MODULE MessageContext ----------------------------
(***************************************************************************)
(* The channel messages shown to the model with a question                 *)
(* (message_context.py, message_context_source.py): the recent history and *)
(* the chain of replies, read at the same time; then the messages they     *)
(* link to, where the asker may look; then what was said right before and  *)
(* after each of these; and the few lines all of it is cut to.             *)
(*                                                                         *)
(* A message is its number, in the order of time.  Its text, attachments,  *)
(* images and receipts are left out, and so are two messages of the same   *)
(* words, which would be one line.  The bot has a cache of messages, which *)
(* Discord's events empty; reads of Discord can fail.  A reply carries a   *)
(* copy of its target, which outlives the target; it comes after it and in *)
(* the same channel, since what is forwarded from another is not looked up *)
(* there.                                                                  *)
(***************************************************************************)
EXTENDS Integers, Sequences, FiniteSets, SequencesExt, FiniteSetsExt

CONSTANTS
  Earlier, Question,   \* message numbers
  Home, PlaceOf,       \* the question's channel; by message: its channel
  Guildmates,          \* channels of the question's guild
  FreshMessages,       \* not older than a day
  ReplyTo,             \* by message: what it replies to, or 0
  LinksIn,             \* by message: the messages its links name
  CachedSets,          \* what the bot's cache may hold at first
  ContextLimit, MaxDepth, MaxLinks, PerSide,   \* limits of the collector
  MaxTurns             \* bound: deletions, evictions and permissions meanwhile

ASSUME CollectorAssumption ==
  /\ IsFiniteSet(Earlier) /\ Earlier \subseteq Nat \ {0}
  /\ Question \in Nat /\ \A m \in Earlier : m < Question
  /\ PlaceOf[Question] = Home /\ FreshMessages \subseteq Earlier
  /\ \A m \in Earlier \cup {Question} :
       /\ LinksIn[m] \in Seq(Earlier)
       /\ ReplyTo[m] # 0 => /\ ReplyTo[m] \in Earlier /\ ReplyTo[m] < m
                            /\ PlaceOf[ReplyTo[m]] = PlaceOf[m]
  /\ ContextLimit \in Nat /\ ContextLimit >= 3 /\ {MaxDepth, MaxLinks, PerSide} \subseteq Nat \ {0} /\ MaxTurns \in Nat

VARIABLES
  exists,    \* messages Discord still has
  cached,    \* bot.cached_messages
  viewable,  \* channels the asker may view
  collect,   \* the collection: what it has read and what it reads
  lines,     \* the messages it shows, as it shows them
  opened,    \* channels the asker could view at some time since it began
  unreached,      \* messages nobody had any more when it began
  turns      \* changes meanwhile so far

messageVars == <<exists, cached, viewable, collect, lines, opened, unreached, turns>>

AllPlaces == {PlaceOf[m] : m \in Earlier \cup {Question}}
In(S, c)     == {m \in S : PlaceOf[m] = c}
LatestOf(S, n) == {m \in S : Cardinality({k \in S : k > m}) < n}
Oldest(S, n) == {m \in S : Cardinality({k \in S : k < m}) < n}
\* The members of a set in an order: each stands behind as many as come before it.
Arranged(S, before) ==
  [n \in 1 .. Cardinality(S) |->
     CHOOSE m \in S : Cardinality({k \in S : <<k, m>> \in before}) = n - 1]
ByTime == {t \in Earlier \X Earlier : t[1] < t[2]}

NothingYet ==
  [at |-> "idle", history |-> "none", recent |-> {}, chain |-> <<>>, linked |-> <<>>,
   todo |-> <<>>, left |-> {}, known |-> [c \in AllPlaces |-> {}],
   reading |-> {}, heard |-> {}, around |-> [m \in Earlier |-> {}]]
NoLines == [direct |-> <<>>, near |-> <<>>, recent |-> <<>>]

MessagesInit ==
  /\ \E gone \in {{}} \cup {{m} : m \in Earlier} : exists = Earlier \ gone
  /\ (\E S \in CachedSets : cached = S \cap exists) /\ viewable \in {AllPlaces, {Home}}
  /\ collect = NothingYet /\ lines = NoLines /\ opened = {} /\ unreached = {} /\ turns = 0

\* A step of the collection, which only reads.
Reads(r) == collect' = r /\ UNCHANGED <<exists, cached, viewable, lines, opened, unreached, turns>>

\* The history and the chain of replies are read at the same time.
StartCollecting ==
  /\ collect.at = "idle"
  /\ collect' = [collect EXCEPT !.at = "chain", !.history = "look"]
  /\ opened' = viewable /\ unreached' = Earlier \ (exists \cup cached)
  /\ UNCHANGED <<exists, cached, viewable, lines, turns>>

------------------------------------------------------------------------------
(* The recent history                                                      *)

\* _cached_context_messages; a full cache is enough.
HistoryLook ==
  /\ collect.history = "look"
  /\ LET near == LatestOf(In(cached, Home) \cap FreshMessages, ContextLimit)
     IN  Reads([collect EXCEPT
                 !.recent = near,
                 !.history = IF Cardinality(near) >= ContextLimit THEN "done" ELSE "fetch"])

\* The history is read from its newest message on and may break off; what was in the
\* cache before counts too.
HistoryFetch(n) ==
  /\ collect.history = "fetch"
  /\ Reads([collect EXCEPT !.recent = LatestOf(@ \cup LatestOf(In(exists, Home), n), ContextLimit),
                           !.history = "done"])

------------------------------------------------------------------------------
(* Replies and links                                                       *)

Tip == IF collect.chain = <<>> THEN Question ELSE Last(collect.chain)

\* All that the question and its chain link to.
LinksOf(chain) ==
  LET Upto[n \in 0 .. Len(chain)] == IF n = 0 THEN <<>> ELSE Upto[n - 1] \o LinksIn[chain[n]]
  IN  Upto[Len(chain)]
ChainEnds == Reads([collect EXCEPT !.at = "links", !.todo = LinksOf(<<Question>> \o collect.chain)])

\* _resolve_referenced_message: the copy that came with the reply, the cache, Discord.
FollowReply(from) ==
  /\ collect.at = "chain"
  /\ LET target == ReplyTo[Tip]
     IN  IF Len(collect.chain) = MaxDepth \/ target = 0 THEN from = "nowhere" /\ ChainEnds
         ELSE CASE from = "copy" -> Reads([collect EXCEPT !.chain = Append(@, target)])
                [] from = "cache" -> /\ target \in cached
                                     /\ Reads([collect EXCEPT !.chain = Append(@, target)])
                [] from = "nowhere" -> /\ target \notin cached
                                       /\ Reads([collect EXCEPT !.at = "reply"])

ReadReply(ok) ==
  /\ collect.at = "reply"
  /\ IF ok /\ ReplyTo[Tip] \in exists
     THEN Reads([collect EXCEPT !.at = "chain", !.chain = Append(@, ReplyTo[Tip])])
     ELSE ChainEnds

\* Mutant: a link is followed wherever the bot may look.
MayFollowAnywhere(m) == PlaceOf[m] \in Guildmates

\* _fetch_linked_message: the channel is of this guild and the asker may view it.
MayFollow(m) == PlaceOf[m] \in Guildmates /\ PlaceOf[m] \in viewable

Linked(m) ==
  IF m = Question \/ m \in ToSet(collect.chain) \cup ToSet(collect.linked)
  THEN collect.linked ELSE Append(collect.linked, m)

\* The next link: skipped, found in the cache, or to be read.
FollowLink(known) ==
  /\ collect.at = "links" /\ collect.todo # <<>> /\ Len(collect.linked) < MaxLinks
  /\ LET m == Head(collect.todo)
         rest == [collect EXCEPT !.todo = Tail(@)]
     IN  IF ~ known \/ ~ MayFollow(m) THEN Reads(rest)
         ELSE IF m \in cached THEN Reads([rest EXCEPT !.linked = Linked(m)])
         ELSE Reads([collect EXCEPT !.at = "link"])

ReadLink(ok) ==
  /\ collect.at = "link"
  /\ LET m == Head(collect.todo)
     IN  Reads([collect EXCEPT !.at = "links", !.todo = Tail(@),
                               !.linked = IF ok /\ m \in exists THEN Linked(m) ELSE @])

------------------------------------------------------------------------------
(* What was said around them                                               *)

Anchors == collect.chain \o collect.linked

\* Both of the group's reads are done: what is known by now of each channel.
BeginAnchors ==
  /\ collect.at = "links" /\ (collect.todo = <<>> \/ Len(collect.linked) = MaxLinks)
  /\ collect.history = "done"
  /\ LET pool == collect.recent \cup cached
     IN  Reads([collect EXCEPT
                 !.at = "anchors",
                 !.left = DOMAIN Anchors,
                 !.known = [c \in AllPlaces |->
                              In(pool, c) \cup (IF c = Home THEN {Question} ELSE {})]])

Before(a, S) == LatestOf({m \in S : m < a}, PerSide)
After(a, S)  == Oldest({m \in S : m > a}, PerSide)
\* history(around=): one neighbour more on each side.
Window(a) ==
  LET there == In(exists, PlaceOf[a]) \cup (IF PlaceOf[a] = Home THEN {Question} ELSE {})
  IN  LatestOf({m \in there : m < a}, PerSide + 1) \cup Oldest({m \in there : m > a}, PerSide + 1)
        \cup (there \cap {a})

Enough(a, S) ==
  /\ a \in S /\ Cardinality(Before(a, S)) = PerSide /\ Cardinality(After(a, S)) = PerSide

\* Channels proceed side by side, the anchors of one in turn.
LeftIn(c)   == {i \in collect.left : PlaceOf[Anchors[i]] = c}
NextLeft(c) == CHOOSE i \in LeftIn(c) : \A j \in LeftIn(c) : i <= j

AnchorLook(c) ==
  /\ collect.at = "anchors" /\ c \notin collect.reading /\ LeftIn(c) # {}
  /\ LET a == Anchors[NextLeft(c)]
         S == collect.known[c]
     IN  IF Enough(a, S)
         THEN Reads([collect EXCEPT !.around[a] = Before(a, S) \cup After(a, S),
                                    !.left = @ \ {NextLeft(c)}])
         ELSE Reads([collect EXCEPT !.reading = @ \cup {c}])

\* What was read counts, and nothing else.
ReadAround(c, ok) ==
  /\ c \in collect.reading
  /\ LET a == Anchors[NextLeft(c)]
         read == IF ok THEN Window(a) ELSE {}
     IN  Reads([collect EXCEPT !.reading = @ \ {c}, !.left = @ \ {NextLeft(c)},
                               !.known[c] = @ \cup read,
                               !.heard = IF ok THEN @ \cup {a} ELSE @,
                               !.around[a] = Before(a, read) \cup After(a, read)])

\* By anchor and by time, each once, none that is shown already or came later.
NearAnchors ==
  {m \in Earlier \ ToSet(Anchors) : \E i \in DOMAIN Anchors : m \in collect.around[Anchors[i]]}
FirstAnchor(m) ==
  CHOOSE i \in DOMAIN Anchors :
    m \in collect.around[Anchors[i]] /\ \A j \in 1 .. i - 1 : m \notin collect.around[Anchors[j]]
ByAnchor ==
  {t \in NearAnchors \X NearAnchors :
     \/ FirstAnchor(t[1]) < FirstAnchor(t[2])
     \/ FirstAnchor(t[1]) = FirstAnchor(t[2]) /\ t[1] < t[2]}
Nearby == Arranged(NearAnchors, ByAnchor)

------------------------------------------------------------------------------
(* The lines                                                               *)

Take(s, n) == SubSeq(s, 1, Min({n, Len(s)}))
TakeLast(s, n) == SubSeq(s, Max({1, Len(s) - n + 1}), Len(s))

PinnedBudget(recent) == ContextLimit - (IF recent = <<>> THEN 0 ELSE 1)

\* _compose_context_lines: direct lines first, one less if there are nearby ones, then
\* these, then the most recent ones.
Composed(direct, near, recent) ==
  LET room == PinnedBudget(recent)
      d == Take(direct, IF near # <<>> /\ room > 1 THEN room - 1 ELSE room)
      n == Take(near, room - Len(d))
  IN  [direct |-> d, near |-> n, recent |-> TakeLast(recent, ContextLimit - Len(d) - Len(n))]

RecentLines == Append(Arranged(collect.recent \cap FreshMessages, ByTime), Question)

ComposeLines ==
  /\ collect.at = "anchors" /\ collect.left = {}
  /\ lines' = Composed(Anchors, Nearby, RecentLines)
  /\ collect' = [collect EXCEPT !.at = "composed"]
  /\ UNCHANGED <<exists, cached, viewable, opened, unreached, turns>>

------------------------------------------------------------------------------
(* Meanwhile                                                               *)

Meanwhile ==
  /\ collect.at \notin {"idle", "composed"} /\ turns < MaxTurns /\ turns' = turns + 1
  /\ UNCHANGED <<collect, lines, unreached>>

DeleteMessage(m) ==
  /\ Meanwhile /\ m \in exists /\ exists' = exists \ {m} /\ UNCHANGED <<cached, viewable, opened>>

\* The deletion is known to the bot, or the cache is full.
LeaveCache(m) ==
  /\ Meanwhile /\ m \in cached /\ cached' = cached \ {m} /\ UNCHANGED <<exists, viewable, opened>>

Permit(c, may) ==
  /\ Meanwhile /\ c # Home /\ (c \in viewable) # may
  /\ viewable' = IF may THEN viewable \cup {c} ELSE viewable \ {c}
  /\ opened' = opened \cup viewable' /\ UNCHANGED <<exists, cached>>

MessagesNext ==
  \/ StartCollecting \/ HistoryLook \/ \E n \in 0 .. ContextLimit : HistoryFetch(n)
  \/ (\E from \in {"copy", "cache", "nowhere"} : FollowReply(from))
  \/ (\E ok \in BOOLEAN : ReadReply(ok) \/ FollowLink(ok) \/ ReadLink(ok))
  \/ BeginAnchors
  \/ (\E c \in AllPlaces : AnchorLook(c) \/ \E ok \in BOOLEAN : ReadAround(c, ok))
  \/ ComposeLines
  \/ (\E m \in Earlier : DeleteMessage(m) \/ LeaveCache(m))
  \/ \E c \in AllPlaces, may \in BOOLEAN : Permit(c, may)

MessagesSpec == MessagesInit /\ [][MessagesNext]_messageVars

------------------------------------------------------------------------------
(* Properties                                                              *)

MessagesTypeOK ==
  /\ exists \subseteq Earlier /\ cached \subseteq Earlier /\ viewable \subseteq AllPlaces
  /\ collect.recent \subseteq Earlier /\ turns \in 0 .. MaxTurns

Shown == ToSet(lines.direct) \cup ToSet(lines.near) \cup ToSet(lines.recent)

\* Of another channel the model sees only what this guild's own channels hold that
\* the asker could view since the question: no link and no neighbour gets around it.
OnlyWhatTheAskerSees ==
  \A m \in Shown : PlaceOf[m] = Home \/ (PlaceOf[m] \in Guildmates /\ PlaceOf[m] \in opened)

\* A message deleted and forgotten before the question comes back in a reply only.
DeletedStaysOut == \A m \in unreached \cap Shown : m \in ToSet(collect.chain)

\* A failed read does not fall back on what the bot happens to know: what stands near
\* an anchor is there on both of its sides, or was read for it.
NoPartialCache ==
  \A a \in Earlier \ collect.heard : Cardinality(collect.around[a]) \in {0, 2 * PerSide}

\* The lines are few enough, the question is the last of them, and each kind that has
\* any has one of them.
LimitsKept ==
  collect.at = "composed" =>
    /\ Len(lines.direct) + Len(lines.near) + Len(lines.recent) <= ContextLimit
    /\ Last(lines.recent) = Question
    /\ ToSet(lines.near) \cap ToSet(Anchors) = {}
    /\ Anchors # <<>> => lines.direct # <<>>
    /\ Nearby # <<>> => lines.near # <<>>

\* Nothing is dropped that there is room for.
NothingDroppedNeedlessly ==
  /\ collect.at = "composed"
  /\ Len(lines.direct) + Len(lines.near) + Len(lines.recent) < ContextLimit
  => /\ lines.direct = Anchors /\ lines.near = Nearby /\ lines.recent = RecentLines

MessagesInv ==
  /\ MessagesTypeOK /\ OnlyWhatTheAskerSees /\ DeletedStaysOut /\ NoPartialCache
  /\ LimitsKept /\ NothingDroppedNeedlessly
==============================================================================
