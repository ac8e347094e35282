---------------------------- MODULE AnswerContext ----------------------------
(***************************************************************************)
(* What is remembered of people when one of them asks (chat/context.py,    *)
(* chat/context_session.py, memory/retriever.py, bot._generate_reply) and  *)
(* when the model searches the memory (chat/tools/memory.py).  A first     *)
(* short transaction decides whether an embedding of the question is worth *)
(* its price, the embedding is computed outside of any transaction, and a  *)
(* second one decides anew who may be quoted and reads the rows, statement *)
(* by statement, while owners opt out, hide and forget.                    *)
(*                                                                         *)
(* With one connection (SQLite) nobody writes while a transaction is open, *)
(* with a pool (PostgreSQL) anybody may.  The scores that rank the rows    *)
(* are left out, and so is whether a question is about the past or about   *)
(* some visibilities only: any order of any rows found may be the ranking. *)
(* The blocks of the asker's own settings, the snapshots, the watchlist,   *)
(* the procedures and the channel aliases are read in the same second      *)
(* transaction and are the business of their own modules.                  *)
(***************************************************************************)
EXTENDS Integers, Sequences, FiniteSets, SequencesExt

CONSTANTS
  Asker, OtherPeople,
  Notes,            \* memory rows
  NoteOwner, NoteHere, NoteKind, NoteKey,   \* by row: fixed; NoteHere: of the asker's guild
  KindCap,          \* by kind: rows of one answer
  ShownLimit,       \* memory_retrieval_limit
  MaxRelated,       \* MAX_RELATED_MEMORY_USERS
  MaxStirs          \* bound: what others change meanwhile

People == {Asker} \cup OtherPeople

ASSUME ContextAssumption ==
  /\ IsFiniteSet(OtherPeople) /\ Asker \notin OtherPeople /\ IsFiniteSet(Notes)
  /\ NoteOwner \in [Notes -> People] /\ NoteHere \in [Notes -> BOOLEAN]
  /\ DOMAIN NoteKind = Notes /\ DOMAIN NoteKey = Notes
  /\ \A n \in Notes : NoteKind[n] \in DOMAIN KindCap
  /\ \A k \in DOMAIN KindCap : KindCap[k] \in Nat
  /\ ShownLimit \in Nat \ {0} /\ MaxRelated \in Nat \ {0} /\ MaxStirs \in Nat

VARIABLES
  ask,        \* fixed: what is asked, where, and of which database
  remembers,  \* UserSettings.memory_enabled
  listed,     \* people who have a row of settings
  nicknames,  \* people an alias or a name in the text refers to
  note,       \* the rows: who sees them, or "gone"
  prep,       \* the preparation: where it is and what it has read
  lookAt,     \* the image analysis that runs beside it
  barred,     \* ghost: rows the asker could not read and people who were off at any time
              \* since the second transaction began
  stirs       \* changes by others so far

contextVars == <<ask, remembers, listed, nicknames, note, prep, lookAt, barred, stirs>>

Asks == [how : {"answer", "search"}, guild : BOOLEAN, pool : BOOLEAN,
         personal : BOOLEAN,      \* the text sounds personal
         mentioned : SUBSET OtherPeople]
Sights == {"owner", "guild", "gone"}
NoPrep == [at |-> "begin", on |-> FALSE, kin |-> {}, owners |-> {}, found |-> {},
           own |-> {}, ofKin |-> {}, embedded |-> FALSE, paid |-> FALSE]

\* Between these two the first or the second transaction is open.
FirstTransaction  == {"look", "create", "names", "allow"}
SecondTransaction == {"settings", "newSettings", "names2", "allow2", "usage", "owners", "private", "guild",
           "flush", "kin", "kinRows", "kinFlush"}
Over   == {"asked", "failed", "cancelled"}

Onto(r, stage) == prep' = [r EXCEPT !.at = stage]

------------------------------------------------------------------------------
(* Who may be quoted                                                       *)

\* can_read_memory
MayRead(sight, n) ==
  \/ sight = "owner" /\ NoteOwner[n] = Asker
  \/ sight = "guild" /\ ask.guild /\ NoteHere[n]

\* select_related_memory_user_ids: mentioned ones first, then those the text names,
\* never the asker; any of the sets that the lists may begin with.
Related(mentioned, named) ==
  LET enough(S) == Cardinality(S) <= MaxRelated
      others == named \ {Asker}
  IN  IF ~ enough(mentioned) THEN {S \in SUBSET mentioned : Cardinality(S) = MaxRelated}
      ELSE {S \in SUBSET (mentioned \cup others) :
              /\ mentioned \subseteq S /\ enough(S)
              /\ S # mentioned \cup others => Cardinality(S) = MaxRelated}

\* Mutant: nobody is asked whether they opted out.
EnabledUnasked(S) == S

\* get_enabled_user_ids
Enabled(S) == {p \in S : remembers[p]}

\* _select_diverse of a ranking: one row per key, not too many of a kind.
HasRoom(taken, n) ==
  /\ Cardinality(taken) < ShownLimit
  /\ Cardinality({m \in taken : NoteKind[m] = NoteKind[n]}) < KindCap[NoteKind[n]]
Diverse(ranking) ==
  LET pick[i \in 0 .. Len(ranking)] ==
        IF i = 0 THEN [seen |-> {}, taken |-> {}]
        ELSE LET n == ranking[i]
                 s == pick[i - 1]
             IN  [seen  |-> s.seen \cup {NoteKey[n]},
                  taken |-> IF NoteKey[n] \notin s.seen /\ HasRoom(s.taken, n)
                            THEN s.taken \cup {n} ELSE s.taken]
  IN  pick[Len(ranking)].taken
AnyRanking(S) == UNION {SetToSeqs(T) : T \in SUBSET S}

------------------------------------------------------------------------------

ContextInit ==
  /\ ask \in Asks
  /\ ask.how = "search" => ask.personal
  /\ remembers \in [People -> BOOLEAN]
  /\ listed \in {People, OtherPeople} /\ \A p \in People \ listed : ~ remembers[p]
  /\ nicknames \in SUBSET OtherPeople
  /\ note = [n \in Notes |-> IF NoteOwner[n] = Asker THEN "owner" ELSE "guild"]
  /\ prep = NoPrep /\ lookAt \in {"none", "running"} /\ (ask.how = "search" => lookAt = "none")
  /\ barred = [rows |-> {}, people |-> {}] /\ stirs = 0

KeepWorld == UNCHANGED <<ask, remembers, nicknames, note, stirs>>
Quiet == KeepWorld /\ UNCHANGED <<listed, lookAt, barred>>

(* The first transaction                                                   *)

Begin == prep.at = "begin" /\ Onto(prep, "look") /\ Quiet

\* is_enabled, in a first transaction and, of a search, in the second: a missing row
\* is about to be inserted.
LookUp(stage, creates, next) ==
  /\ prep.at = stage
  /\ IF Asker \in listed THEN Onto([prep EXCEPT !.on = remembers[Asker]], next)
     ELSE Onto([prep EXCEPT !.on = FALSE], creates)
  /\ Quiet

\* The insert; it fails, and all with it, if somebody else has inserted it meanwhile.
AddSettings(stage, next) ==
  /\ prep.at = stage
  /\ IF Asker \in listed THEN Onto(NoPrep, "failed") /\ UNCHANGED listed
     ELSE Onto(prep, next) /\ listed' = listed \cup {Asker}
  /\ KeepWorld /\ UNCHANGED <<lookAt, barred>>

\* A search asks for the embedding if the asker remembers.
FirstLook == LookUp("look", "create", "names")
FirstCreate == AddSettings("create", "names")

\* list_matching_references, none in a direct message.
Names ==
  /\ prep.at = "names" /\ ask.how = "answer"
  /\ \E S \in Related(ask.mentioned, IF ask.guild THEN nicknames ELSE {}) :
       Onto([prep EXCEPT !.kin = S], "allow")
  /\ Quiet

\* Worth an embedding: the transaction ends here.
Allow ==
  /\ \/ prep.at = "allow"
     \/ prep.at = "names" /\ ask.how = "search"
  /\ LET kin == Enabled(prep.kin)
         worth == (prep.on /\ ask.personal) \/ kin # {}
     IN  Onto([prep EXCEPT !.kin = kin], IF worth THEN "embed" ELSE "between")
  /\ Quiet

\* generate_retrieval_query_embedding: a failure is only logged.
Embed(ok) ==
  /\ prep.at = "embed" /\ Onto([prep EXCEPT !.embedded = ok], "between") /\ Quiet

------------------------------------------------------------------------------
(* The second transaction                                                  *)

\* What cannot be read when it begins stays barred until it can, and who is off until
\* they are on.
BeginAnew ==
  /\ prep.at = "between"
  /\ barred' = [rows   |-> {n \in Notes : ~ MayRead(note[n], n)},
                people |-> {p \in People : ~ remembers[p]}]
  /\ Onto(prep, IF ask.how = "answer" THEN "settings" ELSE "usage")
  /\ KeepWorld /\ UNCHANGED <<listed, lookAt>>

\* get_prompt_settings: what the rest of the transaction takes for granted.
Settings == LookUp("settings", "newSettings", "names2")
NewSettings == AddSettings("newSettings", "names2")

NamesAgain ==
  /\ prep.at = "names2"
  /\ \E S \in Related(ask.mentioned, IF ask.guild THEN nicknames ELSE {}) :
       Onto([prep EXCEPT !.kin = S], "allow2")
  /\ Quiet

AllowAgain ==
  /\ prep.at = "allow2" /\ Onto([prep EXCEPT !.kin = Enabled(prep.kin)], "usage") /\ Quiet

IsUsed(r) == ask.how = "search" \/ (r.on /\ ask.personal) \/ r.kin # {}

\* The embedding that will be used is put on the books; a search asks again whether
\* its asker remembers.
Usage ==
  /\ prep.at = "usage"
  /\ LET r == [prep EXCEPT !.paid = prep.embedded /\ IsUsed(prep)]
     IN  Onto(r, IF ask.how = "search" THEN "again"
                 ELSE IF prep.on THEN "owners" ELSE "kin")
  /\ Quiet

Again ==
  /\ prep.at = "again"
  /\ IF remembers[Asker] THEN Onto([prep EXCEPT !.on = TRUE], "owners")
     ELSE Onto([prep EXCEPT !.on = FALSE], "flush")
  /\ Quiet

\* Everybody who remembers, or, of a search for somebody's, these.
Owners ==
  /\ prep.at = "owners"
  /\ \E S \in IF ask.how = "search" THEN {People, {Asker}, OtherPeople} ELSE {People} :
       Onto([prep EXCEPT !.owners = Enabled(S)], "private")
  /\ Quiet

\* The statement of private rows, then that of the guild's.
PrivateRows ==
  /\ prep.at = "private"
  /\ Onto([prep EXCEPT !.found =
             {n \in Notes : note[n] = "owner" /\ NoteOwner[n] = Asker /\ Asker \in prep.owners}],
          "guild")
  /\ Quiet

SharedRows(owners) ==
  {n \in Notes : /\ ask.guild /\ NoteHere[n] /\ note[n] = "guild"
                 /\ NoteOwner[n] \in owners}

GuildRows ==
  /\ prep.at = "guild"
  /\ \E ranking \in AnyRanking(prep.found \cup SharedRows(prep.owners)) :
       Onto([prep EXCEPT !.own = Diverse(ranking), !.found = {}, !.owners = {}], "flush")
  /\ Quiet

\* The rows shown are counted; the update of one that is gone by now may fail, and
\* the preparation with it.
Flush(stage, S, next) ==
  /\ prep.at = stage
  /\ LET missing == {n \in S : note[n] = "gone"}
     IN  \/ Onto(prep, next)
         \/ missing # {} /\ Onto(NoPrep, "failed")
  /\ Quiet

FlushOwn == Flush("flush", prep.own, IF ask.how = "search" THEN "asked" ELSE "kin")

\* retrieve_relevant_for_users asks once more who remembers.
Kin ==
  /\ prep.at = "kin"
  /\ LET kin == Enabled(prep.kin)
     IN  Onto([prep EXCEPT !.kin = kin], IF kin = {} THEN "prepared" ELSE "kinRows")
  /\ Quiet

KinRows(p) ==
  /\ prep.at = "kinRows" /\ p \in prep.kin
  /\ \E ranking \in AnyRanking(SharedRows({p})) :
       Onto([prep EXCEPT !.ofKin = @ \cup Diverse(ranking), !.kin = @ \ {p}],
            IF prep.kin = {p} THEN "kinFlush" ELSE "kinRows")
  /\ Quiet

FlushKin == Flush("kinFlush", prep.ofKin, "prepared")

------------------------------------------------------------------------------
(* The request                                                             *)

\* The image analysis ends; whether it cost anything.
LookedAt(cost) ==
  /\ lookAt = "running" /\ lookAt' = IF cost THEN "unpaid" ELSE "none"
  /\ UNCHANGED <<ask, remembers, listed, nicknames, note, prep, barred, stirs>>

\* Its usage is recorded, the prompt is built and the model asked.
AskModel ==
  /\ prep.at = "prepared" /\ lookAt # "running"
  /\ lookAt' = "none" /\ Onto(prep, "asked")
  /\ KeepWorld /\ UNCHANGED <<listed, barred>>

\* /cancel, at any await; an image analysis goes on.
CancelAsk ==
  /\ prep.at \notin Over /\ Onto(NoPrep, "cancelled")
  /\ UNCHANGED <<ask, remembers, listed, nicknames, note, lookAt, barred, stirs>>

------------------------------------------------------------------------------
(* The others                                                              *)

\* Nobody writes beside the only connection, nobody matters after the end.
MayStir ==
  /\ stirs < MaxStirs /\ stirs' = stirs + 1
  /\ prep.at \notin Over \cup {"begin"}
  /\ ask.pool \/ prep.at \notin FirstTransaction \cup SecondTransaction \cup {"again"}

\* What can be read now is barred no longer, nor who is on.
Stirred(on, rows) ==
  /\ remembers' = on /\ note' = rows
  /\ barred' = [rows   |-> {n \in barred.rows : ~ MayRead(rows[n], n)},
                people |-> {p \in barred.people : ~ on[p]}]
  /\ UNCHANGED <<ask, prep, lookAt>>

SetMemory(p, on) ==
  /\ MayStir /\ remembers[p] # on /\ listed' = listed \cup {p}
  /\ Stirred([remembers EXCEPT ![p] = on], note) /\ UNCHANGED nicknames

FirstSettings(p) ==
  /\ MayStir /\ p \notin listed /\ listed' = listed \cup {p}
  /\ Stirred(remembers, note) /\ UNCHANGED nicknames

ChangeNote(n, sight) ==
  /\ MayStir /\ note[n] \notin {"gone", sight}
  /\ Stirred(remembers, [note EXCEPT ![n] = sight]) /\ UNCHANGED <<listed, nicknames>>

Rename(S) ==
  /\ MayStir /\ nicknames # S /\ nicknames' = S
  /\ Stirred(remembers, note) /\ UNCHANGED listed

Stir ==
  \/ \E p \in People : FirstSettings(p) \/ \E on \in BOOLEAN : SetMemory(p, on)
  \/ \E n \in Notes, sight \in Sights : ChangeNote(n, sight)
  \/ \E S \in SUBSET OtherPeople : Rename(S)

ContextNext ==
  \/ Begin \/ FirstLook \/ FirstCreate \/ Names \/ Allow
  \/ (\E ok \in BOOLEAN : Embed(ok))
  \/ BeginAnew \/ Settings \/ NewSettings \/ NamesAgain \/ AllowAgain
  \/ Usage \/ Again \/ Owners \/ PrivateRows \/ GuildRows \/ FlushOwn
  \/ Kin \/ (\E p \in OtherPeople : KinRows(p)) \/ FlushKin
  \/ (\E cost \in BOOLEAN : LookedAt(cost)) \/ AskModel \/ CancelAsk
  \/ Stir

ContextSpec == ContextInit /\ [][ContextNext]_contextVars

------------------------------------------------------------------------------
(* Properties                                                              *)

ContextTypeOK ==
  /\ ask \in Asks /\ remembers \in [People -> BOOLEAN] /\ listed \subseteq People
  /\ note \in [Notes -> Sights] /\ barred.rows \subseteq Notes /\ stirs \in 0 .. MaxStirs
  /\ prep.own \subseteq Notes /\ prep.ofKin \subseteq Notes /\ prep.kin \subseteq OtherPeople
  /\ lookAt \in {"none", "running", "unpaid"}

Quoted == prep.own \cup prep.ofKin

\* What its owner withdrew before the second transaction and has not given back since,
\* by opting out or by hiding or forgetting it, is not in the answer, though it was there
\* before the embedding.
NothingWithdrawn ==
  prep.at \in {"prepared", "asked"} =>
    \A n \in Quoted : n \notin barred.rows /\ NoteOwner[n] \notin barred.people

\* Whose memory is not the asker's has been shared with this guild.
OthersShared ==
  prep.at = "asked" => \A n \in Quoted : NoteOwner[n] # Asker => ask.guild /\ NoteHere[n]

\* Of one kind there is no more than its share, of one person at most the limit.
SharesOfKinds ==
  \A S \in {prep.own} \cup {{n \in prep.ofKin : NoteOwner[n] = p} : p \in OtherPeople} :
    /\ Cardinality(S) <= ShownLimit
    /\ \A k \in DOMAIN KindCap : Cardinality({n \in S : NoteKind[n] = k}) <= KindCap[k]

\* Those the text is about are few enough for all of them to be looked up.
AllFit == Cardinality(ask.mentioned \cup (IF ask.guild THEN nicknames ELSE {})) <= MaxRelated

\* Before the model is asked, what the preparation cost is on the books: the images,
\* and the embedding too unless those it was for have opted out meanwhile or the second
\* transaction, which asks for the names anew and in no order, has chosen others.
CostsAreBooked ==
  prep.at = "asked" => lookAt = "none" /\ (prep.embedded /\ stirs = 0 /\ AllFit => prep.paid)

\* An answer fails here only if somebody interfered with its transaction.
FailsOnlyWhenStirred == prep.at = "failed" => ask.pool /\ stirs > 0

ContextInv ==
  /\ ContextTypeOK /\ NothingWithdrawn /\ OthersShared /\ SharesOfKinds
  /\ CostsAreBooked /\ FailsOnlyWhenStirred
==============================================================================
