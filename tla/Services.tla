------------------------------- MODULE Services -------------------------------
(***************************************************************************)
(* The services that run beside an answer and share no state with each     *)
(* other.  Each is a module of its own; here one of them moves and the     *)
(* others stay where they begin, so that one run checks them all.          *)
(***************************************************************************)
EXTENDS DeepResearch, EmojiPool, ProcedureLearning, ModelClient, Feedback,
        BotLifecycle, BackupArchive, SchemaMigration, DatabaseTransfer,
        EmojiLearning, AnswerContext, MessageContext, MemberNames,
        MarketQuotes, Evidence, MemoryRepair, BenchmarkVerdict

VARIABLE moving   \* the service that moves

servicesVars == <<researchVars, poolVars, learningVars, clientVars,
                  feedbackVars, lifecycleVars, backupVars, migrationVars,
                  transferVars, emojiVars, contextVars, messageVars,
                  namesVars, marketVars, evidenceVars, repairVars, verdictVars,
                  moving>>

Parts == {"research", "emoji", "procedures", "client", "feedback", "lifecycle",
          "backup", "migration", "transfer", "learner", "context", "messages",
          "names", "market", "evidence", "repair", "verdict"}

\* The services that do not move begin in one of their states only.
ServicesInit ==
  /\ moving \in Parts
  /\ IF moving = "procedures" THEN TRUE ELSE connections = CHOOSE n \in PoolSizes : TRUE
  /\ IF moving = "migration" THEN TRUE ELSE appState = {} /\ columns = {} /\ snapshots = {}
  /\ IF moving = "transfer" THEN TRUE ELSE store = "sqlite"
  /\ IF moving = "context" THEN TRUE
     ELSE /\ ask = CHOOSE a \in Asks : a.how = "search" /\ a.personal
          /\ remembers = [p \in People |-> TRUE] /\ listed = People
          /\ nicknames = {} /\ lookAt = "none"
  /\ IF moving = "messages" THEN TRUE
     ELSE exists = Earlier /\ cached = {} /\ viewable = {Home}
  /\ IF moving = "names" THEN TRUE ELSE onePool = TRUE /\ recorded = NoName
  /\ IF moving = "market" THEN TRUE ELSE wanted = CHOOSE w \in Cases : TRUE
  /\ IF moving = "evidence" THEN TRUE ELSE style = CHOOSE s \in Styles : TRUE
  /\ IF moving = "repair" THEN TRUE ELSE memories = <<>>
  /\ ResearchInit /\ PoolInit /\ LearningInit /\ ClientInit
  /\ FeedbackInit /\ LifecycleInit /\ BackupInit /\ MigrationInit /\ TransferInit
  /\ EmojiInit /\ ContextInit /\ MessagesInit /\ NamesInit
  /\ MarketInit /\ EvidenceInit /\ RepairInit /\ VerdictInit
  /\ moving # "feedback" => world.single /\ world.persists

\* The part moves, the others do not.
Moves(part) ==
  /\ moving = part /\ UNCHANGED moving
  /\ IF part = "research" THEN ResearchNext ELSE UNCHANGED researchVars
  /\ IF part = "emoji" THEN PoolNext ELSE UNCHANGED poolVars
  /\ IF part = "procedures" THEN LearningNext ELSE UNCHANGED learningVars
  /\ IF part = "client" THEN ClientNext ELSE UNCHANGED clientVars
  /\ IF part = "feedback" THEN FeedbackNext ELSE UNCHANGED feedbackVars
  /\ IF part = "lifecycle" THEN LifecycleNext ELSE UNCHANGED lifecycleVars
  /\ IF part = "backup" THEN BackupNext ELSE UNCHANGED backupVars
  /\ IF part = "migration" THEN MigrationNext ELSE UNCHANGED migrationVars
  /\ IF part = "transfer" THEN TransferNext ELSE UNCHANGED transferVars
  /\ IF part = "learner" THEN EmojiNext ELSE UNCHANGED emojiVars
  /\ IF part = "context" THEN ContextNext ELSE UNCHANGED contextVars
  /\ IF part = "messages" THEN MessagesNext ELSE UNCHANGED messageVars
  /\ IF part = "names" THEN NamesNext ELSE UNCHANGED namesVars
  /\ IF part = "market" THEN MarketNext ELSE UNCHANGED marketVars
  /\ IF part = "evidence" THEN EvidenceNext ELSE UNCHANGED evidenceVars
  /\ IF part = "repair" THEN RepairNext ELSE UNCHANGED repairVars
  /\ IF part = "verdict" THEN VerdictNext ELSE UNCHANGED verdictVars

ServicesNext == \E part \in Parts : Moves(part)

ServicesSpec == ServicesInit /\ [][ServicesNext]_servicesVars

------------------------------------------------------------------------------

\* A part that does not move is in an initial state of its own, which is looked at when
\* it is its turn to move.
Of(part, inv) == moving = part => inv

\* The database is moved to a new schema or file, and to its backups, without loss.
DatabaseInv ==
  Of("backup", BackupInv) /\ Of("migration", MigrationInv) /\ Of("transfer", TransferInv)

\* An answer is given what its asker may know, as it is now: memories, messages, names
\* and prices.
AnswerInv ==
  /\ Of("context", ContextInv) /\ Of("messages", MessagesInv)
  /\ Of("names", NamesInv) /\ Of("market", MarketInv)

\* What is made of what was found loses nothing of it and adds nothing to it: the
\* references of an answer, the lists in the memories of earlier versions, and what a
\* benchmark says of an answer.
FindingsInv ==
  Of("evidence", EvidenceInv) /\ Of("repair", RepairInv) /\ Of("verdict", VerdictInv)

\* What was learnt of procedures and emojis has been seen, and is forgotten when it fails.
LearnersInv == Of("procedures", LearningInv) /\ Of("learner", EmojiInv)

\* What deep research reports rests on what it read, and it reports that it found nothing
\* only if no search of it failed.
SearchInv == Of("research", ResearchInv)

\* The model client forgets neither a deployment that is broken nor an attempt it made.
ModelInv == Of("client", ClientInv)

\* A complaint finds a recent answer, is archived and demotes it once.
ReportsInv == Of("feedback", FeedbackInv)

\* One bot runs at a time, closes what depends on it in order and without losing what it
\* recorded, and announces a change once.
BotInv == Of("lifecycle", LifecycleInv)
==============================================================================
