--------------------------- MODULE KnowledgeProofs ---------------------------
(***************************************************************************)
(* Proofs about what the bot learns and collects on its own and about what *)
(* an answer is given: the pool of emojis, the procedures, what it knows   *)
(* of an emoji; the names, the memories, the messages and the prices for   *)
(* an answer, and what it refers to. Each part is proved for any number of *)
(* sources, requests, reports, people, messages, instruments and failures. *)
(***************************************************************************)
EXTENDS EmojiPool, ProcedureLearning, EmojiLearning, MemberNames, AnswerContext,
        MessageContext, MarketQuotes, Evidence, FiniteSetTheorems, SequenceTheorems,
        NaturalsInduction, WellFoundedInduction, TLAPS

------------------------------------------------------------------------------
(* EmojiPool.  The pool stays within its limit, a source is twice on the   *)
(* server only after an upload whose id was lost, and no protected emoji   *)
(* is deleted.  The argument: every emoji of the pool is paid for by a     *)
(* slot of the ledger of its own, and an emoji whose id is in no ledger is *)
(* either in the hands of the task that uploaded it or lost.               *)

Places == {"idle", "download", "delete", "reserve", "create", "finish", "record",
           "upload", "upload as"}
Tasks == [at : Places, source : Sources \cup {"none"}, victim : Sources \cup {"none"},
          old : {NoEmoji} \cup Ids]

\* The counters and the two tasks.
TaskTypes ==
  /\ spent \in [Expenses -> Nat]
  /\ spent["uploads"] <= MaxUploads
  /\ pool \in Tasks /\ import \in Tasks
  /\ import.at \in {"idle", "upload", "upload as", "record"}
  /\ pool.at \notin {"upload", "upload as"}
  /\ pool.at = "idle" \/ import.at = "idle"

\* Ids are given once, and never ahead of the uploads.
IdsAreUnique ==
  /\ \A e1, e2 \in server : e1.id = e2.id => e1 = e2
  /\ \A e \in server : e.id <= spent["uploads"]
  /\ \A s \in Sources : managed[s] <= spent["uploads"] /\ imports[s] <= spent["uploads"]
  /\ \A e \in server, s \in Sources : managed[s] = e.id => e.source = s

OfPool == {e \in server : e.by = "pool"}

\* An emoji of the pool holds the slot of its source, and shares it with no other.
SlotsAreHeld ==
  /\ \A e \in OfPool : managed[e.source] \in {Pending, e.id}
  /\ \A e1, e2 \in OfPool : e1.source = e2.source => e1 = e2
  /\ IsFiniteSet(Owned) /\ Cardinality(Owned) <= Limit

\* Before the reservation the pool has room or a victim.
Unreserved ==
  /\ pool.source \in Sources \ Owned
  /\ pool.victim = "none" => Cardinality(Owned) < Limit
  /\ pool.victim # "none" => pool.old \in Ids /\ managed[pool.victim] = pool.old

\* What the pool's task may rely on, wherever it is.
PoolInStep ==
  /\ pool.at \in {"download", "delete", "reserve"} => Unreserved
  /\ pool.at = "delete" => pool.victim # "none" /\ pool.victim \in Evictable(controls)
  /\ (pool.at = "reserve" /\ pool.victim # "none") => \A e \in server : e.id # pool.old
  /\ pool.at = "create" =>
       /\ pool.source \in Sources /\ managed[pool.source] = Pending
       /\ \A e \in OfPool : e.source # pool.source
  /\ pool.at \in {"finish", "record"} =>
       /\ pool.source \in Sources /\ pool.old \in Ids /\ pool.old <= spent["uploads"]
       /\ \A e \in server : e.id = pool.old => e.source = pool.source
  /\ pool.at = "finish" =>
       /\ managed[pool.source] = Pending
       /\ \A e \in OfPool : e.source = pool.source => e.id = pool.old

InHands(t, e) == t.at \in {"finish", "record"} /\ e.id = t.old /\ e.source = t.source

ImportInStep ==
  /\ import.at # "idle" => import.source \in Sources
  /\ import.at = "record" => import.old \in Ids /\ import.old <= spent["uploads"]

\* Every emoji is recorded, in the hands of its task, or lost; and a task's
\* source has no other emoji that is not lost.
EmojisPaidFor ==
  /\ \A e \in server : \/ e.id \in lost \/ imports[e.source] = e.id
                       \/ InHands(pool, e) \/ InHands(import, e)
  /\ pool.at # "idle" =>
       \A e \in server : e.source = pool.source => e.id \in lost \/ InHands(pool, e)
  /\ import.at # "idle" =>
       \A e \in server : e.source = import.source => e.id \in lost \/ InHands(import, e)

PoolInv ==
  /\ PoolTypeOK /\ TaskTypes /\ IdsAreUnique /\ SlotsAreHeld /\ PoolInStep
  /\ ImportInStep /\ EmojisPaidFor

------------------------------------------------------------------------------
LEMMA LeftUploads == Left("uploads") => spent["uploads"] < MaxUploads
  BY DEF Left

LEMMA Counting ==
  ASSUME TaskTypes, NEW what \in Expenses, Spend(what)
  PROVE  /\ spent' \in [Expenses -> Nat]
         /\ what # "uploads" => spent'["uploads"] = spent["uploads"]
         /\ what = "uploads" => spent'["uploads"] = FreshId
<1>1. spent \in [Expenses -> Nat]
  BY DEF TaskTypes
<1>2. spent' = [spent EXCEPT ![what] = @ + 1]
  BY DEF Spend
<1>3. "uploads" \in Expenses
  BY DEF Expenses
<1> QED  BY <1>1, <1>2, <1>3 DEF FreshId

\* A new id is a new one, and there is room for it.
LEMMA Uploading ==
  ASSUME TaskTypes, Left("uploads"), Spend("uploads")
  PROVE  /\ spent' \in [Expenses -> Nat] /\ spent'["uploads"] = FreshId
         /\ spent["uploads"] \in Nat /\ FreshId \in Ids /\ FreshId > spent["uploads"]
<1>1. spent' \in [Expenses -> Nat] /\ spent'["uploads"] = FreshId
  BY Counting DEF Expenses
<1>2. spent["uploads"] \in Nat
  BY DEF TaskTypes, Expenses
<1>3. spent["uploads"] < MaxUploads /\ MaxUploads \in Nat
  BY LeftUploads, PoolAssumption
<1> QED  BY <1>1, <1>2, <1>3 DEF FreshId, Ids

\* Any other expense leaves the uploads alone.
LEMMA SpendingApart ==
  ASSUME TaskTypes, NEW what \in {"admin", "trouble", "imports"}, Spend(what)
  PROVE  spent' \in [Expenses -> Nat] /\ spent'["uploads"] = spent["uploads"]
  BY Counting DEF Expenses

LEMMA LostAreIds ==
  ASSUME NEW t, t.at \in {"finish", "record"} => t.old \in Ids
  PROVE  Unrecorded(t) \subseteq Ids
  BY DEF Unrecorded

\* What the types say of single things.
LEMMA Things ==
  ASSUME PoolTypeOK, TaskTypes
  PROVE  /\ \A e \in server : /\ e.id \in Nat /\ e.id \in Ids /\ e.source \in Sources
                             /\ e.renamed \in BOOLEAN /\ e.by \in {"pool", "import"}
         /\ \A s \in Sources : managed[s] \in Int /\ imports[s] \in Int
         /\ spent["uploads"] \in Nat
         /\ managed \in [Sources -> {NoEmoji, Pending} \cup Ids]
<1>1. \A e \in server : /\ e.id \in Ids /\ e.source \in Sources
                      /\ e.renamed \in BOOLEAN /\ e.by \in {"pool", "import"}
  BY DEF PoolTypeOK, Emojis
<1>2. Ids \subseteq Nat
  BY PoolAssumption DEF Ids
<1>3. spent["uploads"] \in Nat
  BY DEF TaskTypes, Expenses
<1>4. {NoEmoji, Pending} \cup Ids \subseteq Int
  BY <1>2 DEF NoEmoji, Pending
<1>5. \A s \in Sources : managed[s] \in Int /\ imports[s] \in Int
  BY <1>4 DEF PoolTypeOK
<1> QED  BY <1>1, <1>2, <1>3, <1>5 DEF PoolTypeOK

LEMMA PlacesThere ==
  /\ "download" \in Places /\ "delete" \in Places /\ "reserve" \in Places
  /\ "create" \in Places /\ "finish" \in Places /\ "record" \in Places
  /\ "upload" \in Places /\ "upload as" \in Places
  BY DEF Places

LEMMA IdleTask == Idle \in Tasks /\ Idle.at = "idle"
  BY DEF Idle, Tasks, Places

LEMMA MovedTask ==
  ASSUME NEW t \in Tasks, NEW at \in Places, NEW old \in {NoEmoji} \cup Ids
  PROVE  /\ [t EXCEPT !.at = at] \in Tasks
         /\ [t EXCEPT !.at = at].at = at
         /\ [t EXCEPT !.at = at].source = t.source
         /\ [t EXCEPT !.at = at].victim = t.victim
         /\ [t EXCEPT !.at = at].old = t.old
         /\ [t EXCEPT !.at = at, !.old = old] \in Tasks
         /\ [t EXCEPT !.at = at, !.old = old].at = at
         /\ [t EXCEPT !.at = at, !.old = old].source = t.source
         /\ [t EXCEPT !.at = at, !.old = old].old = old
  BY DEF Tasks

------------------------------------------------------------------------------
(* One step at a time                                                      *)

LEMMA ConsiderKeeps ==
  ASSUME PoolInv, NEW s \in Sources, Consider(s) PROVE PoolInv'
<1> USE DEF PoolInv
<1>1. pool.at = "idle" /\ import.at = "idle" /\ s \in Sources \ Owned
  BY DEF Consider, Locked
<1>2. PICK v \in Sources \cup {"none"}, old \in {NoEmoji} \cup Ids :
        /\ pool' = Task("download", s, v, old)
        /\ v = "none" => Cardinality(Owned) < Limit
        /\ v # "none" => old \in Ids /\ managed[v] = old
  <2>1. CASE /\ Cardinality(Owned) < Limit
             /\ pool' = Task("download", s, "none", NoEmoji)
    BY <2>1
  <2>2. CASE \E v \in Evictable(controls) : \E e \in server :
               e.id = managed[v] /\ pool' = Task("download", s, v, e.id)
    <3>1. PICK v \in Evictable(controls), e \in server :
            e.id = managed[v] /\ pool' = Task("download", s, v, e.id)
      BY <2>2
    <3>2. v \in Sources /\ v # "none" /\ e.id \in Ids
      BY <3>1, Things, PoolAssumption DEF Evictable, Owned
    <3> QED  BY <3>1, <3>2
  <2> QED  BY <2>1, <2>2 DEF Consider
<1>3. /\ pool' \in Tasks /\ pool'.at = "download" /\ pool'.source = s
      /\ pool'.victim = v /\ pool'.old = old
  BY <1>2, PlacesThere DEF Task, Tasks
<1>4. UNCHANGED <<server, managed, imports, controls, unused, rotated, import, spent, lost>>
  BY DEF Consider
<1>5. PoolTypeOK' /\ IdsAreUnique' /\ SlotsAreHeld' /\ ImportInStep'
  BY <1>4 DEF PoolTypeOK, IdsAreUnique, SlotsAreHeld, OfPool, Owned, ImportInStep
<1>6. TaskTypes'
  BY <1>1, <1>3, <1>4 DEF TaskTypes
<1>7. PoolInStep'
  BY <1>1, <1>2, <1>3, <1>4 DEF PoolInStep, Unreserved, Owned
<1>8. \A e \in server : e.source = s => e.id \in lost
  BY <1>1 DEF Consider, Known, EmojisPaidFor, InHands
<1>9. EmojisPaidFor'
  BY <1>1, <1>3, <1>4, <1>8 DEF EmojisPaidFor, InHands
<1> QED  BY <1>5, <1>6, <1>7, <1>9

LEMMA DownloadedKeeps ==
  ASSUME PoolInv, Downloaded PROVE PoolInv'
<1> USE DEF PoolInv
<1>1. UNCHANGED <<server, managed, imports, controls, unused, rotated, import, spent, lost>>
  BY DEF Downloaded
<1>2. pool.at = "download" /\ import.at = "idle" /\ pool \in Tasks
  BY DEF Downloaded, TaskTypes
<1>3. PoolTypeOK' /\ IdsAreUnique' /\ SlotsAreHeld' /\ ImportInStep'
  BY <1>1 DEF PoolTypeOK, IdsAreUnique, SlotsAreHeld, OfPool, Owned, ImportInStep
<1>4. CASE pool' = Idle
  BY <1>1, <1>2, <1>3, <1>4, IdleTask DEF TaskTypes, PoolInStep, EmojisPaidFor, InHands
<1>5. CASE StillFine /\ pool' = [pool EXCEPT !.at = IF pool.victim = "none" THEN "reserve"
                                                                          ELSE "delete"]
  <2>1. /\ pool' \in Tasks /\ pool'.source = pool.source /\ pool'.victim = pool.victim
        /\ pool'.old = pool.old
        /\ pool'.at = IF pool.victim = "none" THEN "reserve" ELSE "delete"
    BY <1>2, <1>5, PlacesThere DEF Tasks
  <2>2. TaskTypes'
    BY <1>1, <1>2, <2>1 DEF TaskTypes
  <2>3. PoolInStep'
    BY <1>1, <1>2, <1>5, <2>1 DEF PoolInStep, Unreserved, Owned, StillFine, Evictable
  <2>4. EmojisPaidFor'
    BY <1>1, <1>2, <2>1 DEF EmojisPaidFor, InHands
  <2> QED  BY <1>3, <2>2, <2>3, <2>4
<1> QED  BY <1>4, <1>5 DEF Downloaded

LEMMA DeleteKeeps ==
  ASSUME PoolInv, Delete PROVE PoolInv'
<1> USE DEF PoolInv
<1>1. UNCHANGED <<managed, imports, controls, unused, rotated, import, spent, lost>>
  BY DEF Delete
<1>2. pool.at = "delete" /\ import.at = "idle" /\ pool \in Tasks
  BY DEF Delete, TaskTypes
<1>3. server' \subseteq server /\ \A e \in server' : e.id # pool.old
  BY DEF Delete
<1>4. PoolTypeOK' /\ IdsAreUnique' /\ SlotsAreHeld' /\ ImportInStep'
  BY <1>1, <1>3 DEF PoolTypeOK, IdsAreUnique, SlotsAreHeld, OfPool, Owned, ImportInStep
<1>5. CASE pool' = Idle
  BY <1>1, <1>2, <1>3, <1>4, <1>5, IdleTask DEF TaskTypes, PoolInStep, EmojisPaidFor, InHands
<1>6. CASE pool' = [pool EXCEPT !.at = "reserve"]
  <2>1. /\ pool' \in Tasks /\ pool'.source = pool.source /\ pool'.victim = pool.victim
        /\ pool'.old = pool.old /\ pool'.at = "reserve"
    BY <1>2, <1>6, MovedTask, PlacesThere
  <2>2. TaskTypes'
    BY <1>1, <1>2, <2>1 DEF TaskTypes
  <2>3. PoolInStep'
    BY <1>1, <1>2, <1>3, <2>1 DEF PoolInStep, Unreserved, Owned
  <2>4. EmojisPaidFor'
    BY <1>1, <1>2, <1>3, <2>1 DEF EmojisPaidFor, InHands
  <2> QED  BY <1>4, <2>2, <2>3, <2>4
<1> QED  BY <1>5, <1>6 DEF Delete

\* The slot the pool takes is one it gave up, or one that was free.
LEMMA SlotsStayBounded ==
  ASSUME PoolInv, Reserve
  PROVE  IsFiniteSet(Owned') /\ Cardinality(Owned') <= Limit
<1> USE DEF PoolInv
<1>1. /\ pool.source \in Sources \ Owned /\ IsFiniteSet(Owned) /\ Cardinality(Owned) <= Limit
      /\ pool.victim = "none" => Cardinality(Owned) < Limit
  BY DEF Reserve, PoolInStep, Unreserved, SlotsAreHeld
<1>2. \A s \in Sources : managed'[s] = CASE s = pool.source -> Pending
                                         [] s = pool.victim -> NoEmoji
                                         [] OTHER -> managed[s]
  BY DEF Reserve, Reservation
<1>3. Limit \in Nat
  BY PoolAssumption
<1>4. CASE pool.victim = "none"
  <2>1. Owned' = Owned \cup {pool.source}
    BY <1>1, <1>2, <1>4, PoolAssumption DEF Owned, Pending, NoEmoji
  <2>2. IsFiniteSet(Owned') /\ Cardinality(Owned') = Cardinality(Owned) + 1
    BY <1>1, <2>1, FS_AddElement
  <2> QED  BY <1>1, <1>3, <1>4, <2>2, FS_CardinalityType
<1>5. CASE pool.victim # "none"
  <2>1. pool.victim \in Owned /\ pool.victim # pool.source
    <3>1. pool.victim \in Sources
      BY <1>5 DEF TaskTypes, Tasks
    <3>2. managed[pool.victim] = pool.old /\ pool.old \in Ids
      BY <1>5 DEF Reserve, PoolInStep, Unreserved
    <3> QED  BY <1>1, <3>1, <3>2, PoolAssumption DEF Owned, Ids, NoEmoji
  <2> DEFINE Rest == Owned \ {pool.victim}
  <2>2. IsFiniteSet(Rest) /\ Cardinality(Rest) = Cardinality(Owned) - 1
    BY <1>1, <2>1, FS_RemoveElement
  <2>3. Owned' = Rest \cup {pool.source}
    BY <1>1, <1>2, <2>1 DEF Owned, Pending, NoEmoji
  <2>4. pool.source \notin Rest
    BY <1>1
  <2> HIDE DEF Rest
  <2>5. IsFiniteSet(Owned') /\ Cardinality(Owned') = Cardinality(Rest) + 1
    BY <2>2, <2>3, <2>4, FS_AddElement
  <2> QED  BY <1>1, <1>3, <2>2, <2>5, FS_CardinalityType
<1> QED  BY <1>4, <1>5

LEMMA ReserveKeeps ==
  ASSUME PoolInv, Reserve PROVE PoolInv'
<1> USE DEF PoolInv
<1>1. UNCHANGED <<server, imports, controls, unused, import, spent, lost>>
  BY DEF Reserve
<1>2. pool.at = "reserve" /\ import.at = "idle" /\ pool \in Tasks /\ pool.source \in Sources
  BY DEF Reserve, TaskTypes, PoolInStep, Unreserved
<1>3. /\ pool' \in Tasks /\ pool'.source = pool.source /\ pool'.at = "create"
  BY <1>2, PlacesThere DEF Reserve, Tasks
<1>4. /\ \A s \in Sources : managed'[s] = CASE s = pool.source -> Pending
                                            [] s = pool.victim -> NoEmoji
                                            [] OTHER -> managed[s]
      /\ managed' \in [Sources -> {NoEmoji, Pending} \cup Ids]
  BY Things DEF Reserve, Reservation
\* Nothing on the server belongs to the pool's source or to its victim.
<1>5. \A e \in OfPool : e.source # pool.source /\ e.source # pool.victim
  <2>1. SUFFICES ASSUME NEW e \in OfPool
                 PROVE  e.source # pool.source /\ e.source # pool.victim
    OBVIOUS
  <2>2. managed[e.source] \in {Pending, e.id} /\ e \in server /\ e.source \in Sources /\ e.id \in Ids
    BY Things DEF SlotsAreHeld, OfPool
  <2>3. managed[e.source] # NoEmoji
    BY <2>2, PoolAssumption DEF Ids, Pending, NoEmoji
  <2>4. e.source # pool.source
    BY <1>2, <2>3, <2>2 DEF PoolInStep, Unreserved, Owned
  <2>5. CASE e.source = pool.victim
    <3>1. pool.victim # "none" /\ e.id # pool.old
      BY <1>2, <2>2, <2>5, PoolAssumption DEF PoolInStep
    <3>2. managed[pool.victim] = pool.old /\ pool.old \in Ids
      BY <1>2, <3>1 DEF PoolInStep, Unreserved
    <3> QED  BY <2>2, <2>5, <3>1, <3>2, PoolAssumption DEF Ids, Pending
  <2> QED  BY <2>4, <2>5
<1>6. PoolTypeOK' /\ ImportInStep'
  BY <1>1, <1>4 DEF PoolTypeOK, ImportInStep
<1>7. TaskTypes'
  BY <1>1, <1>2, <1>3 DEF TaskTypes
<1>8. IdsAreUnique'
  <2>1. \A s \in Sources : managed'[s] = managed[s] \/ managed'[s] \in {NoEmoji, Pending}
    BY <1>4
  <2>2. \A s \in Sources : managed'[s] <= spent["uploads"]
    BY <2>1, Things DEF IdsAreUnique, NoEmoji, Pending
  <2>3. \A e \in server : e.id \notin {NoEmoji, Pending}
    BY Things, PoolAssumption DEF Ids, NoEmoji, Pending
  <2> QED  BY <1>1, <2>1, <2>2, <2>3 DEF IdsAreUnique
<1>9. SlotsAreHeld'
  <2>1. \A e \in OfPool : managed'[e.source] = managed[e.source]
    BY <1>4, <1>5, Things DEF OfPool
  <2>2. OfPool' = OfPool
    BY <1>1 DEF OfPool
  <2> QED  BY <2>1, <2>2, SlotsStayBounded DEF SlotsAreHeld
<1>10. PoolInStep'
  <2>1. managed'[pool'.source] = Pending
    <3>1. managed[pool.source] = NoEmoji
      BY <1>2 DEF PoolInStep, Unreserved, Owned
    <3>2. pool.victim = "none" \/ managed[pool.victim] \in Ids
      BY <1>2 DEF PoolInStep, Unreserved
    <3>3. pool.source # pool.victim
      BY <1>2, <3>1, <3>2, PoolAssumption DEF Ids, NoEmoji
    <3>4. managed'[pool.source] = Pending
      BY <1>2, <1>4, <3>3
    <3> QED  BY <1>3, <3>4
  <2>2. \A e \in OfPool' : e.source # pool'.source
    BY <1>1, <1>3, <1>5 DEF OfPool
  <2> QED  BY <1>2, <1>3, <2>1, <2>2 DEF PoolInStep
<1>11. EmojisPaidFor'
  BY <1>1, <1>2, <1>3 DEF EmojisPaidFor, InHands
<1> QED  BY <1>6, <1>7, <1>8, <1>9, <1>10, <1>11

\* What an upload brings, whoever makes it.
LEMMA UploadIsNew ==
  ASSUME PoolInv, NEW x, x.id = FreshId, x.source \in Sources,
         server' = server \cup {x}, UNCHANGED <<managed, imports>>,
         Left("uploads"), Spend("uploads")
  PROVE  /\ IdsAreUnique'
         /\ \A e \in server : e.id # FreshId
<1> USE DEF PoolInv
<1>1. /\ spent["uploads"] \in Nat /\ FreshId = spent["uploads"] + 1
      /\ spent'["uploads"] = FreshId
  BY Uploading DEF FreshId
<1>2. \A e \in server : e.id \in Nat /\ e.id < FreshId
  BY <1>1, Things DEF IdsAreUnique
<1>3. \A s \in Sources : /\ managed[s] \in Int /\ managed[s] < FreshId
                         /\ imports[s] \in Int /\ imports[s] < FreshId
  BY <1>1, Things DEF IdsAreUnique
<1>4. \A e1, e2 \in server' : e1.id = e2.id => e1 = e2
  BY <1>1, <1>2 DEF IdsAreUnique
<1>5. \A e \in server' : e.id <= spent'["uploads"]
  BY <1>1, <1>2
<1>6. \A e \in server', s \in Sources : managed[s] = e.id => e.source = s
  BY <1>1, <1>2, <1>3 DEF IdsAreUnique
<1>7. \A s \in Sources : managed'[s] <= spent'["uploads"] /\ imports'[s] <= spent'["uploads"]
  BY <1>1, <1>3
<1>8. \A e \in server', s \in Sources : managed'[s] = e.id => e.source = s
  BY <1>6
<1>9. IdsAreUnique'
  BY <1>4, <1>5, <1>7, <1>8 DEF IdsAreUnique
<1> QED  BY <1>1, <1>2, <1>9

LEMMA CreateKeeps ==
  ASSUME PoolInv, Create PROVE PoolInv'
<1> USE DEF PoolInv
<1> DEFINE x == New(pool.source, "pool")
<1>1. /\ UNCHANGED <<managed, imports, controls, unused, rotated, import, lost>>
      /\ server' = server \cup {x} /\ Left("uploads") /\ Spend("uploads")
  BY DEF Create
<1>2. /\ pool.at = "create" /\ import.at = "idle" /\ pool \in Tasks /\ pool.source \in Sources
      /\ managed[pool.source] = Pending /\ \A e \in OfPool : e.source # pool.source
  BY DEF Create, TaskTypes, PoolInStep
<1>3. /\ spent' \in [Expenses -> Nat] /\ spent'["uploads"] = FreshId /\ FreshId \in Ids
      /\ FreshId > spent["uploads"] /\ spent["uploads"] \in Nat
  BY <1>1, Uploading
<1>4. /\ pool' \in Tasks /\ pool'.source = pool.source /\ pool'.at = "finish"
      /\ pool'.old = FreshId
  BY <1>2, <1>3, PlacesThere DEF Create, Tasks
<1>5. /\ x \in Emojis /\ x.id = FreshId /\ x.source = pool.source /\ x.by = "pool"
  BY <1>2, <1>3 DEF New, Emojis
<1> HIDE DEF x
<1>6. IdsAreUnique' /\ \A e \in server : e.id # FreshId
  BY <1>1, <1>2, <1>5, UploadIsNew
<1>7. PoolTypeOK'
  BY <1>1, <1>5 DEF PoolTypeOK
<1>8. TaskTypes'
  <2>1. spent'["uploads"] <= MaxUploads
    BY <1>3, PoolAssumption DEF Ids
  <2> QED  BY <1>1, <1>2, <1>3, <1>4, <2>1 DEF TaskTypes
<1>9. OfPool' = OfPool \cup {x}
  BY <1>1, <1>5 DEF OfPool
<1>10. SlotsAreHeld'
  <2>1. \A e \in OfPool' : managed'[e.source] \in {Pending, e.id}
    BY <1>1, <1>2, <1>5, <1>9 DEF SlotsAreHeld
  <2>2. \A e1, e2 \in OfPool' : e1.source = e2.source => e1 = e2
    BY <1>2, <1>5, <1>9 DEF SlotsAreHeld
  <2> QED  BY <1>1, <2>1, <2>2 DEF SlotsAreHeld, Owned
<1>11. PoolInStep'
  <2>1. \A e \in server' : e.id = pool'.old => e.source = pool'.source
    BY <1>1, <1>4, <1>5, <1>6
  <2>2. \A e \in OfPool' : e.source = pool'.source => e.id = pool'.old
    BY <1>2, <1>4, <1>5, <1>9
  <2>3. pool'.old <= spent'["uploads"]
    BY <1>3, <1>4 DEF FreshId
  <2> QED  BY <1>1, <1>2, <1>3, <1>4, <2>1, <2>2, <2>3 DEF PoolInStep
<1>12. ImportInStep'
  BY <1>1, <1>2 DEF ImportInStep
<1>13. EmojisPaidFor'
  BY <1>1, <1>2, <1>4, <1>5 DEF EmojisPaidFor, InHands
<1> QED  BY <1>6, <1>7, <1>8, <1>10, <1>11, <1>12, <1>13

LEMMA FinishKeeps ==
  ASSUME PoolInv, Finish PROVE PoolInv'
<1> USE DEF PoolInv
<1>1. UNCHANGED <<server, imports, controls, unused, rotated, import, spent, lost>>
  BY DEF Finish
<1>2. /\ pool.at = "finish" /\ import.at = "idle" /\ pool \in Tasks /\ pool.source \in Sources
      /\ pool.old \in Ids /\ managed[pool.source] = Pending
  BY DEF Finish, TaskTypes, PoolInStep
<1>3. /\ pool' \in Tasks /\ pool'.source = pool.source /\ pool'.at = "record"
      /\ pool'.old = pool.old
  BY <1>2, PlacesThere DEF Finish, Tasks
<1>4. /\ managed' \in [Sources -> {NoEmoji, Pending} \cup Ids]
      /\ \A s \in Sources : managed'[s] = IF s = pool.source THEN pool.old ELSE managed[s]
  BY <1>2, Things DEF Finish
<1>5. PoolTypeOK' /\ ImportInStep'
  BY <1>1, <1>4 DEF PoolTypeOK, ImportInStep
<1>6. TaskTypes'
  BY <1>1, <1>2, <1>3 DEF TaskTypes
<1>7. IdsAreUnique'
  <2>1. \A s \in Sources : managed'[s] <= spent["uploads"]
    BY <1>2, <1>4 DEF IdsAreUnique, PoolInStep
  <2>2. \A e \in server, s \in Sources : managed'[s] = e.id => e.source = s
    BY <1>2, <1>4 DEF IdsAreUnique, PoolInStep
  <2> QED  BY <1>1, <2>1, <2>2 DEF IdsAreUnique
<1>8. SlotsAreHeld'
  <2>1. OfPool' = OfPool
    BY <1>1 DEF OfPool
  <2>2. \A e \in OfPool : managed'[e.source] \in {Pending, e.id}
    BY <1>2, <1>4, Things DEF SlotsAreHeld, PoolInStep, OfPool
  <2>3. Owned' = Owned
    <3>1. pool.old # NoEmoji /\ Pending # NoEmoji
      BY <1>2, PoolAssumption DEF Ids, NoEmoji, Pending
    <3> QED  BY <1>2, <1>4, <3>1 DEF Owned
  <2> QED  BY <2>1, <2>2, <2>3 DEF SlotsAreHeld
<1>9. PoolInStep'
  BY <1>1, <1>2, <1>3 DEF PoolInStep
<1>10. EmojisPaidFor'
  BY <1>1, <1>2, <1>3 DEF EmojisPaidFor, InHands
<1> QED  BY <1>5, <1>6, <1>7, <1>8, <1>9, <1>10

\* An id goes into the ledger of uploads and out of its task's hands; the source
\* has no other emoji that is not lost.
LEMMA RecordingKeeps ==
  ASSUME PoolInv, NEW t, NEW other,
         {t, other} = {pool, import}, t.at = "record", other.at = "idle", other # t,
         t.source \in Sources, t.old \in Ids, t.old <= spent["uploads"],
         \A e \in server : e.source = t.source => e.id \in lost \/ InHands(t, e),
         imports' = [imports EXCEPT ![t.source] = t.old],
         pool' \in Tasks, import' \in Tasks, pool'.at = "idle", import'.at = "idle",
         UNCHANGED <<server, managed, controls, unused, rotated, spent, lost>>
  PROVE  PoolInv'
<1> USE DEF PoolInv
<1>1. /\ imports' \in [Sources -> Ids \cup {NoEmoji}]
      /\ \A s \in Sources : imports'[s] = IF s = t.source THEN t.old ELSE imports[s]
  BY DEF PoolTypeOK
<1>2. PoolTypeOK' /\ TaskTypes' /\ PoolInStep' /\ ImportInStep'
  BY <1>1 DEF PoolTypeOK, TaskTypes, PoolInStep, ImportInStep
<1>3. IdsAreUnique'
  BY <1>1 DEF IdsAreUnique
<1>4. SlotsAreHeld'
  BY DEF SlotsAreHeld, OfPool, Owned
<1>5. EmojisPaidFor'
  <2>1. SUFFICES ASSUME NEW e \in server PROVE e.id \in lost \/ imports'[e.source] = e.id
    BY DEF EmojisPaidFor
  <2>2. e.source \in Sources
    BY Things
  <2>3. e.id \in lost \/ imports[e.source] = e.id \/ InHands(t, e)
    BY DEF EmojisPaidFor, InHands
  <2>4. CASE e.source = t.source
    BY <1>1, <2>2, <2>4 DEF InHands
  <2>5. CASE e.source # t.source
    BY <1>1, <2>2, <2>3, <2>5 DEF InHands
  <2> QED  BY <2>4, <2>5
<1> QED  BY <1>2, <1>3, <1>4, <1>5

LEMMA RecordKeeps ==
  ASSUME PoolInv, Record PROVE PoolInv'
<1>1. /\ pool.at = "record" /\ import.at = "idle" /\ pool.source \in Sources /\ pool.old \in Ids
      /\ pool.old <= spent["uploads"] /\ import \in Tasks
      /\ \A e \in server : e.source = pool.source => e.id \in lost \/ InHands(pool, e)
  BY DEF Record, PoolInv, TaskTypes, PoolInStep, EmojisPaidFor
<1>2. pool' \in Tasks /\ pool'.at = "idle"
  BY IdleTask DEF Record
<1> QED  BY <1>1, <1>2, RecordingKeeps DEF Record

LEMMA RecordImportKeeps ==
  ASSUME PoolInv, RecordImport PROVE PoolInv'
<1>1. /\ import.at = "record" /\ pool.at = "idle" /\ import.source \in Sources /\ import.old \in Ids
      /\ import.old <= spent["uploads"] /\ pool \in Tasks
      /\ \A e \in server : e.source = import.source => e.id \in lost \/ InHands(import, e)
  BY DEF RecordImport, PoolInv, TaskTypes, ImportInStep, EmojisPaidFor
<1>2. import' \in Tasks /\ import'.at = "idle"
  BY IdleTask DEF RecordImport
<1> QED  BY <1>1, <1>2, RecordingKeeps DEF RecordImport

LEMMA BeginImportKeeps ==
  ASSUME PoolInv, NEW s \in Sources, NEW aliased \in BOOLEAN, BeginImport(s, aliased)
  PROVE  PoolInv'
<1> USE DEF PoolInv
<1>1. /\ UNCHANGED <<server, managed, imports, controls, unused, rotated, pool, lost>>
      /\ pool.at = "idle" /\ import.at = "idle"
  BY DEF BeginImport, MayImport, Locked
<1>2. spent' \in [Expenses -> Nat] /\ spent'["uploads"] = spent["uploads"]
  BY SpendingApart DEF BeginImport
<1>3. /\ import' \in Tasks /\ import'.at \in {"upload", "upload as"} /\ import'.source = s
  BY PlacesThere DEF BeginImport, Task, Tasks
<1>4. \A e \in server : e.source = s => e.id \in lost
  BY <1>1 DEF BeginImport, Known, EmojisPaidFor, InHands
<1>5. PoolTypeOK' /\ SlotsAreHeld' /\ ImportInStep'
  BY <1>1, <1>3 DEF PoolTypeOK, SlotsAreHeld, OfPool, Owned, ImportInStep
<1>6. TaskTypes'
  BY <1>1, <1>2, <1>3 DEF TaskTypes
<1>7. IdsAreUnique' /\ PoolInStep'
  BY <1>1, <1>2 DEF IdsAreUnique, PoolInStep
<1>8. EmojisPaidFor'
  BY <1>1, <1>3, <1>4 DEF EmojisPaidFor, InHands
<1> QED  BY <1>5, <1>6, <1>7, <1>8

LEMMA UploadKeeps ==
  ASSUME PoolInv, Upload PROVE PoolInv'
<1> USE DEF PoolInv
<1> DEFINE x == [New(import.source, "import") EXCEPT !.renamed = (import.at = "upload as")]
<1>1. /\ UNCHANGED <<managed, imports, controls, unused, rotated, pool, lost>>
      /\ server' = server \cup {x} /\ Left("uploads") /\ Spend("uploads")
  BY DEF Upload
<1>2. /\ import.at \in {"upload", "upload as"} /\ pool.at = "idle" /\ import \in Tasks
      /\ import.source \in Sources
  BY DEF Upload, TaskTypes, ImportInStep
<1>3. /\ spent' \in [Expenses -> Nat] /\ spent'["uploads"] = FreshId /\ FreshId \in Ids
      /\ FreshId > spent["uploads"] /\ spent["uploads"] \in Nat
  BY <1>1, Uploading
<1>4. /\ import' \in Tasks /\ import'.source = import.source /\ import'.at = "record"
      /\ import'.old = FreshId
  BY <1>2, <1>3, PlacesThere DEF Upload, Tasks
<1>5. /\ x \in Emojis /\ x.id = FreshId /\ x.source = import.source /\ x.by = "import"
  <2>1. (import.at = "upload as") \in BOOLEAN
    OBVIOUS
  <2> QED  BY <1>2, <1>3, <2>1 DEF New, Emojis
<1> HIDE DEF x
<1>6. IdsAreUnique'
  BY <1>1, <1>2, <1>5, UploadIsNew
<1>7. PoolTypeOK'
  BY <1>1, <1>5 DEF PoolTypeOK
<1>8. TaskTypes'
  <2>1. spent'["uploads"] <= MaxUploads
    BY <1>3, PoolAssumption DEF Ids
  <2> QED  BY <1>1, <1>2, <1>3, <1>4, <2>1 DEF TaskTypes
<1>9. OfPool' = OfPool
  BY <1>1, <1>5 DEF OfPool
<1>10. SlotsAreHeld' /\ PoolInStep'
  BY <1>1, <1>2, <1>9 DEF SlotsAreHeld, Owned, PoolInStep
<1>11. ImportInStep'
  <2>1. import'.old <= spent'["uploads"]
    BY <1>3, <1>4 DEF FreshId
  <2> QED  BY <1>2, <1>3, <1>4, <2>1 DEF ImportInStep
<1>12. EmojisPaidFor'
  BY <1>1, <1>2, <1>4, <1>5 DEF EmojisPaidFor, InHands
<1> QED  BY <1>6, <1>7, <1>8, <1>10, <1>11, <1>12

\* A task that is given up leaves its upload among the lost ones.
LEMMA GivingUpKeeps ==
  ASSUME PoolInv, NEW givenUp \in SUBSET {"pool", "import"}, Spend("trouble"),
         pool' = IF "pool" \in givenUp THEN Idle ELSE pool,
         import' = IF "import" \in givenUp THEN Idle ELSE import,
         lost' = lost \cup (IF "pool" \in givenUp THEN Unrecorded(pool) ELSE {})
                      \cup (IF "import" \in givenUp THEN Unrecorded(import) ELSE {}),
         UNCHANGED <<server, managed, imports, controls, unused, rotated>>
  PROVE  PoolInv'
<1> USE DEF PoolInv
<1>1. spent' \in [Expenses -> Nat] /\ spent'["uploads"] = spent["uploads"]
  BY SpendingApart
<1>2. lost' \subseteq Ids /\ lost \subseteq lost'
  <2>1. Unrecorded(pool) \subseteq Ids /\ Unrecorded(import) \subseteq Ids
    BY LostAreIds DEF PoolInStep, ImportInStep, TaskTypes
  <2> QED  BY <2>1 DEF PoolTypeOK
<1>3. /\ pool' \in Tasks /\ import' \in Tasks
      /\ pool' = pool \/ pool'.at = "idle"
      /\ import' = import \/ import'.at = "idle"
  BY IdleTask DEF TaskTypes
<1>4. \A e \in server : /\ InHands(pool, e) => e.id \in lost' \/ pool' = pool
                        /\ InHands(import, e) => e.id \in lost' \/ import' = import
  BY DEF InHands, Unrecorded
<1>5. PoolTypeOK'
  BY <1>2 DEF PoolTypeOK
<1>6. TaskTypes'
  BY <1>1, <1>3 DEF TaskTypes
<1>7. IdsAreUnique' /\ SlotsAreHeld'
  BY <1>1 DEF IdsAreUnique, SlotsAreHeld, OfPool, Owned
<1>8. PoolInStep'
  <2>1. CASE pool' = pool
    BY <1>1, <2>1 DEF PoolInStep, Unreserved, Owned, OfPool, Evictable
  <2>2. CASE pool'.at = "idle"
    BY <2>2 DEF PoolInStep
  <2> QED  BY <1>3, <2>1, <2>2
<1>9. ImportInStep'
  BY <1>1, <1>3 DEF ImportInStep
<1>10. EmojisPaidFor'
  BY <1>2, <1>3, <1>4 DEF EmojisPaidFor, InHands
<1> QED  BY <1>5, <1>6, <1>7, <1>8, <1>9, <1>10

LEMMA TroubleKeeps ==
  ASSUME PoolInv, PoolFails \/ ImportFails \/ Crash PROVE PoolInv'
<1>1. CASE PoolFails
  BY <1>1, GivingUpKeeps, {"pool"} \in SUBSET {"pool", "import"} DEF PoolFails
<1>2. CASE ImportFails
  BY <1>2, GivingUpKeeps, {"import"} \in SUBSET {"pool", "import"} DEF ImportFails
<1>3. CASE Crash
  BY <1>3, GivingUpKeeps, {"pool", "import"} \in SUBSET {"pool", "import"} DEF Crash
<1> QED  BY <1>1, <1>2, <1>3

LEMMA ControlKeeps ==
  ASSUME PoolInv, NEW s \in Sources, Control(s) PROVE PoolInv'
<1> USE DEF PoolInv
<1>1. /\ UNCHANGED <<server, managed, imports, unused, rotated, pool, import, lost>>
      /\ pool.at \notin {"delete", "reserve"}
  BY DEF Control, CatalogLocked
<1>2. spent' \in [Expenses -> Nat] /\ spent'["uploads"] = spent["uploads"]
  BY SpendingApart DEF Control, Admin
<1>3. PoolTypeOK' /\ SlotsAreHeld' /\ EmojisPaidFor'
  BY <1>1 DEF PoolTypeOK, SlotsAreHeld, OfPool, Owned, EmojisPaidFor, InHands
<1>4. TaskTypes' /\ IdsAreUnique' /\ ImportInStep'
  BY <1>1, <1>2 DEF TaskTypes, IdsAreUnique, ImportInStep
<1>5. PoolInStep'
  BY <1>1, <1>2 DEF PoolInStep, Unreserved, Owned, OfPool
<1> QED  BY <1>3, <1>4, <1>5

\* A rename keeps the id, the source and the uploader.
LEMMA ModerateKeeps ==
  ASSUME PoolInv, NEW x \in server, Moderate(x) PROVE PoolInv'
<1> USE DEF PoolInv
<1> DEFINE y == [x EXCEPT !.renamed = TRUE]
<1>1. /\ UNCHANGED <<managed, imports, controls, unused, rotated, pool, import, lost>>
      /\ server' = server \ {x} \/ server' = (server \ {x}) \cup {y}
  BY DEF Moderate
<1>2. spent' \in [Expenses -> Nat] /\ spent'["uploads"] = spent["uploads"]
  BY SpendingApart DEF Moderate, Admin
<1>3. y \in Emojis /\ y.id = x.id /\ y.source = x.source /\ y.by = x.by
  BY DEF PoolTypeOK, Emojis
<1> HIDE DEF y
<1>4. PoolTypeOK'
  BY <1>1, <1>3 DEF PoolTypeOK
\* Every emoji of now was one, the renamed one included.
<1>5. \A e \in server' : \E d \in server :
        e.id = d.id /\ e.source = d.source /\ e.by = d.by /\ (e = d \/ (d = x /\ e = y))
  BY <1>1, <1>3
<1>6. \A e1, e2 \in server' : e1.id = e2.id => e1 = e2
  BY <1>1, <1>3 DEF IdsAreUnique
<1>7. IdsAreUnique'
  BY <1>1, <1>2, <1>5, <1>6 DEF IdsAreUnique
<1>8. SlotsAreHeld'
  <2>1. \A e \in OfPool' : \E d \in OfPool : e.id = d.id /\ e.source = d.source
    BY <1>5 DEF OfPool
  <2>2. \A e \in OfPool' : managed[e.source] \in {Pending, e.id}
    BY <2>1 DEF SlotsAreHeld
  <2>3. \A e1, e2 \in OfPool' : e1.source = e2.source => e1.id = e2.id
    BY <2>1 DEF SlotsAreHeld
  <2>4. \A e1, e2 \in OfPool' : e1.source = e2.source => e1 = e2
    BY <1>6, <2>3 DEF OfPool
  <2> QED  BY <1>1, <2>2, <2>4 DEF SlotsAreHeld, Owned
<1>9. TaskTypes' /\ ImportInStep'
  BY <1>1, <1>2 DEF TaskTypes, ImportInStep
<1>10. PoolInStep'
  <2>1. /\ (\A e \in server : e.id # pool.old) => (\A e \in server' : e.id # pool.old)
        /\ (\A e \in server : e.id = pool.old => e.source = pool.source)
             => (\A e \in server' : e.id = pool.old => e.source = pool.source)
    BY <1>5
  <2>2. /\ (\A e \in OfPool : e.source # pool.source) => (\A e \in OfPool' : e.source # pool.source)
        /\ (\A e \in OfPool : e.source = pool.source => e.id = pool.old)
             => (\A e \in OfPool' : e.source = pool.source => e.id = pool.old)
    BY <1>5 DEF OfPool
  <2>3. Owned' = Owned /\ Evictable(controls)' = Evictable(controls)
    BY <1>1 DEF Owned, Evictable
  <2> QED  BY <1>1, <1>2, <2>1, <2>2, <2>3 DEF PoolInStep, Unreserved
<1>11. EmojisPaidFor'
  BY <1>1, <1>5 DEF EmojisPaidFor, InHands
<1> QED  BY <1>4, <1>7, <1>8, <1>9, <1>10, <1>11

LEMMA PopularityKeeps ==
  ASSUME PoolInv, NEW s \in Sources, Week(s) \/ Use(s) PROVE PoolInv'
<1> USE DEF PoolInv
<1>1. UNCHANGED <<server, managed, imports, controls, pool, import, spent, lost>>
  BY DEF Week, Use
<1>2. unused' \subseteq Sources /\ (pool.at = "delete" => unused \subseteq unused')
  BY DEF Week, Use, CatalogLocked, PoolTypeOK
<1>3. PoolTypeOK'
  BY <1>1, <1>2 DEF PoolTypeOK
<1>4. TaskTypes' /\ IdsAreUnique' /\ SlotsAreHeld' /\ ImportInStep' /\ EmojisPaidFor'
  BY <1>1 DEF TaskTypes, IdsAreUnique, SlotsAreHeld, OfPool, Owned, ImportInStep, EmojisPaidFor, InHands
<1>5. PoolInStep'
  <2>1. pool.at = "delete" => Evictable(controls) \subseteq Evictable(controls)'
    BY <1>1, <1>2 DEF Evictable, Owned
  <2> QED  BY <1>1, <2>1 DEF PoolInStep, Unreserved, Owned, OfPool
<1> QED  BY <1>3, <1>4, <1>5

------------------------------------------------------------------------------
LEMMA PoolInitiates == PoolInit => PoolInv
<1> SUFFICES ASSUME PoolInit PROVE PoolInv
  OBVIOUS
<1> USE DEF PoolInit
<1>1. PoolTypeOK /\ Owned = {}
  BY DEF PoolTypeOK, Owned
<1>2. TaskTypes
  <2>1. spent \in [Expenses -> Nat] /\ spent["uploads"] = 0
    BY DEF Expenses
  <2> QED  BY <2>1, IdleTask, PoolAssumption DEF TaskTypes
<1>3. IdsAreUnique
  <2>1. spent["uploads"] = 0
    BY DEF Expenses
  <2> QED  BY <2>1 DEF IdsAreUnique, NoEmoji
<1>4. SlotsAreHeld
  <2>1. IsFiniteSet(Owned) /\ Cardinality(Owned) = 0
    BY <1>1, FS_EmptySet
  <2> QED  BY <2>1, PoolAssumption DEF SlotsAreHeld, OfPool
<1>5. PoolInStep /\ ImportInStep /\ EmojisPaidFor
  BY IdleTask DEF PoolInStep, ImportInStep, EmojisPaidFor
<1> QED  BY <1>1, <1>2, <1>3, <1>4, <1>5 DEF PoolInv

LEMMA PoolInductive == PoolInv /\ [PoolNext]_poolVars => PoolInv'
<1> SUFFICES ASSUME PoolInv, [PoolNext]_poolVars PROVE PoolInv'
  OBVIOUS
<1>1. CASE \E s \in Sources : Consider(s) \/ Control(s) \/ Week(s) \/ Use(s)
  BY <1>1, ConsiderKeeps, ControlKeeps, PopularityKeeps
<1>2. CASE Downloaded \/ Delete \/ Reserve \/ Create \/ Finish \/ Record
  BY <1>2, DownloadedKeeps, DeleteKeeps, ReserveKeeps, CreateKeeps, FinishKeeps, RecordKeeps
<1>3. CASE \/ \E s \in Sources, aliased \in BOOLEAN : BeginImport(s, aliased)
           \/ Upload \/ RecordImport
  BY <1>3, BeginImportKeeps, UploadKeeps, RecordImportKeeps
<1>4. CASE PoolFails \/ ImportFails \/ Crash
  BY <1>4, TroubleKeeps
<1>5. CASE \E e \in server : Moderate(e)
  BY <1>5, ModerateKeeps
<1>6. CASE UNCHANGED poolVars
  BY <1>6 DEF poolVars, PoolInv, PoolTypeOK, TaskTypes, IdsAreUnique, SlotsAreHeld, OfPool, Owned,
              PoolInStep, Unreserved, Evictable, ImportInStep, EmojisPaidFor, InHands
<1> QED  BY <1>1, <1>2, <1>3, <1>4, <1>5, <1>6 DEF PoolNext

LEMMA PoolInvHolds == PoolSpec => []PoolInv
  BY PoolInitiates, PoolInductive, PTL DEF PoolSpec

\* The emojis of the pool are no more than the slots that are taken.
LEMMA SlotsLimitEmojis == PoolInv => PoolWithinLimit
<1> SUFFICES ASSUME PoolInv PROVE Cardinality(OfPool) <= Limit
  BY DEF PoolWithinLimit, OfPool
<1> DEFINE slot == [e \in OfPool |-> e.source]
<1>1. \A e \in OfPool : e.source \in Owned
  <2>1. SUFFICES ASSUME NEW e \in OfPool PROVE e.source \in Owned
    OBVIOUS
  <2>2. managed[e.source] \in {Pending, e.id} /\ e.source \in Sources /\ e.id \in Ids
    BY Things DEF PoolInv, SlotsAreHeld, OfPool
  <2> QED  BY <2>2, PoolAssumption DEF Owned, Ids, Pending, NoEmoji
<1>2. slot \in Injection(OfPool, Owned)
  BY <1>1 DEF PoolInv, SlotsAreHeld, Injection, IsInjective
<1>3. IsFiniteSet(Owned) /\ Cardinality(Owned) <= Limit /\ Limit \in Nat
  BY PoolAssumption DEF PoolInv, SlotsAreHeld
<1>4. IsFiniteSet(OfPool) /\ Cardinality(OfPool) <= Cardinality(Owned)
  BY <1>2, <1>3, FS_Injection
<1> QED  BY <1>3, <1>4, FS_CardinalityType

LEMMA CopiesAreExplained == PoolInv => CopiesExplained
<1> SUFFICES ASSUME PoolInv, NEW e1 \in server, NEW e2 \in server,
                    e1.source = e2.source, e1.id \notin lost, e2.id \notin lost
             PROVE  e1 = e2
  BY DEF CopiesExplained
<1>1. e1.id = e2.id
  BY DEF PoolInv, EmojisPaidFor, InHands
<1> QED  BY <1>1 DEF PoolInv, IdsAreUnique

LEMMA DeletesAreSparing ==
  ASSUME PoolInv, [PoolNext]_poolVars, NEW e \in server, e \notin server',
         pool.at = "delete", pool'.at = "reserve"
  PROVE  e.source \notin Protected /\ e.source \in unused
<1>1. Delete
  <2>1. import.at = "idle"
    BY DEF PoolInv, TaskTypes
  <2> QED  BY <2>1, IdleTask DEF PoolNext, poolVars, Consider, Control, Week, Use, Downloaded, Reserve,
             Create, Finish, Record, BeginImport, Upload, RecordImport, PoolFails, ImportFails, Crash,
             Moderate, Locked, MayImport, Unrecorded, CatalogLocked
<1>2. e.id = pool.old
  BY <1>1 DEF Delete
<1>3. managed[pool.victim] = pool.old /\ pool.victim \in Evictable(controls)
  BY DEF PoolInv, PoolInStep, Unreserved
<1>4. e.source = pool.victim
  BY <1>2, <1>3 DEF PoolInv, IdsAreUnique, Evictable, Owned
<1> QED  BY <1>3, <1>4 DEF Evictable, Protected

\* For any number of sources, uploads, failures and moves of administrators and
\* moderators: the pool keeps to its limit, copies come of lost uploads only, and
\* what is protected or used again is spared (emoji_pool.py, emoji_import.py).
THEOREM PoolKeepsItsPromises == PoolSpec => PoolIsKept
<1>1. PoolInv => PoolTypeOK /\ PoolWithinLimit /\ CopiesExplained
  BY SlotsLimitEmojis, CopiesAreExplained DEF PoolInv
<1>2. PoolInv /\ [PoolNext]_poolVars =>
        [\A e \in server : (e \notin server' /\ pool.at = "delete" /\ pool'.at = "reserve")
            => e.source \notin Protected /\ e.source \in unused]_poolVars
  BY DeletesAreSparing
<1> QED
  BY <1>1, <1>2, PoolInvHolds, PTL DEF PoolSpec, PoolIsKept, SparedWhenPinned

------------------------------------------------------------------------------
(* ProcedureLearning.  Retrievals, demotions and the learner share a pool  *)
(* of connections.  With one connection nobody demotes while a retrieval   *)
(* reads; what a retrieval holds, and what is cached, was not demoted      *)
(* before it was asked for (HeldInv), so a demoted procedure fades out.    *)

RetrievalRows == [at : {"idle", "reading", "served"}, asked : Nat, held : SUBSET Procedures]
DemotionRows == [at : {"idle", "commit", "clear", "done"}, procedure : Procedures \cup {"none"}, row : Row]
JobRows == [at : {"idle", "generate", "commit", "invalidate"}, procedure : Procedures \cup {"none"}, row : Row]

ProceduresTyped ==
  /\ connections \in PoolSizes /\ clock \in 0 .. LearningHorizon
  /\ rows \in [Procedures -> Row] /\ cache \in [until : Nat, held : SUBSET Procedures]
  /\ request \in [Requests -> RetrievalRows] /\ report \in [Reports -> DemotionRows]
  /\ learner \in JobRows /\ demotedAt \in [Procedures -> Nat \cup {Never}]

\* What is under way belongs to a row, and nothing is of later than now.
UnderWayInv ==
  /\ \A d \in Reports : report[d].at = "commit" =>
       report[d].procedure \in Procedures /\ report[d].row.status \in {"candidate", "retired"}
  /\ learner.at = "commit" => learner.procedure \in Procedures
  /\ \A r \in Requests : request[r].asked <= clock
  /\ cache.until <= clock + ProcedureTtl

ConnectionsInv == InUse <= connections

\* A demoted procedure is validated again by a reviewer only.
ReviewedInv == \A p \in Procedures : rows[p].status = "validated" => demotedAt[p] = Never

\* p was not demoted before the time t, and with one connection not at all.
NotDemotedBy(p, t) == demotedAt[p] = Never \/ (connections > 1 /\ t <= demotedAt[p])

HeldInv ==
  /\ \A r \in Requests : request[r].at = "reading" =>
       \A p \in request[r].held : NotDemotedBy(p, request[r].asked)
  /\ \A p \in cache.held : NotDemotedBy(p, cache.until - ProcedureTtl)
  /\ connections = 1 => \A d \in Reports : report[d].at = "commit" => cache.held = {}

LearningIInv ==
  /\ ProceduresTyped /\ UnderWayInv /\ ConnectionsInv /\ ReviewedInv /\ HeldInv /\ DemotedFadesOut

LEMMA LearningFacts ==
  /\ IsFiniteSet(Requests) /\ IsFiniteSet(Reports) /\ ProcedureTtl \in Nat /\ ProcedureTtl > 0
  /\ LearningHorizon \in Nat /\ PoolSizes \subseteq Nat
  /\ NoRow \in Row /\ Learned \in Row /\ NoRow.status = "none" /\ Learned.status = "candidate"
  BY LearningAssumption DEF NoRow, Learned, Row

\* The connections in use are those of retrievals, demotions and the learner.
ReadingOnes == {r \in Requests : request[r].at = "reading"}
DemotingOnes == {d \in Reports : report[d].at \in {"commit", "clear"}}
LearnerHolds == IF learner.at \in {"commit", "invalidate"} THEN 1 ELSE 0

LEMMA InUseIs ==
  /\ InUse = Cardinality(ReadingOnes) + Cardinality(DemotingOnes) + LearnerHolds
  /\ IsFiniteSet(ReadingOnes) /\ Cardinality(ReadingOnes) \in Nat
  /\ IsFiniteSet(DemotingOnes) /\ Cardinality(DemotingOnes) \in Nat
  /\ LearnerHolds \in {0, 1}
<1>1. ReadingOnes \subseteq Requests /\ DemotingOnes \subseteq Reports
  BY DEF ReadingOnes, DemotingOnes
<1>2. InUse = Cardinality(ReadingOnes) + Cardinality(DemotingOnes) + LearnerHolds
  BY DEF InUse, ReadingOnes, DemotingOnes, LearnerHolds
<1> QED
  BY <1>1, <1>2, LearningFacts, FS_Subset, FS_CardinalityType DEF LearnerHolds

LEMMA LearningBegins == LearningInit => LearningIInv
<1> SUFFICES ASSUME LearningInit PROVE LearningIInv
  OBVIOUS
<1>1. ProceduresTyped
  BY LearningFacts DEF LearningInit, ProceduresTyped, RetrievalRows, DemotionRows, JobRows, NoCache, Never
<1>2. UnderWayInv
  BY LearningFacts DEF LearningInit, UnderWayInv, NoCache
<1>3. ConnectionsInv
  <2>1. ReadingOnes = {} /\ DemotingOnes = {} /\ LearnerHolds = 0
    BY DEF LearningInit, ReadingOnes, DemotingOnes, LearnerHolds
  <2>2. InUse = 0
    BY <2>1, InUseIs, FS_EmptySet
  <2>3. connections \in Nat
    BY LearningFacts DEF LearningInit
  <2> QED
    BY <2>2, <2>3 DEF ConnectionsInv
<1>4. ReviewedInv
  BY LearningFacts DEF LearningInit, ReviewedInv
<1>5. HeldInv /\ DemotedFadesOut
  BY DEF LearningInit, HeldInv, DemotedFadesOut, NoCache
<1> QED
  BY <1>1, <1>2, <1>3, <1>4, <1>5 DEF LearningIInv

LEMMA Changes ==
  /\ \A row \in Row : /\ Demoted(row) \in Row /\ Demoted(row).status \in {"candidate", "retired"}
                      /\ Reinforced(row) \in Row /\ Reinforced(row).status = row.status
                      /\ Dropped(row) \in Row /\ Dropped(row).status # "validated"
<1> SUFFICES ASSUME NEW row \in Row
             PROVE  /\ Demoted(row) \in Row /\ Demoted(row).status \in {"candidate", "retired"}
                    /\ Reinforced(row) \in Row /\ Reinforced(row).status = row.status
                    /\ Dropped(row) \in Row /\ Dropped(row).status # "validated"
  OBVIOUS
<1>1. Demoted(row) \in Row /\ Demoted(row).status \in {"candidate", "retired"}
  BY DEF Demoted, Row
<1>2. Reinforced(row) \in Row /\ Reinforced(row).status = row.status
  BY DEF Reinforced, Row
<1>3. Dropped(row) \in Row /\ Dropped(row).status # "validated"
  <2>1. PICK s : s = "retired"
    OBVIOUS
  <2>2. [row EXCEPT !.status = s] \in Row /\ [row EXCEPT !.status = s].status = s
    BY <2>1 DEF Row
  <2> QED
    BY <2>1, <2>2, LearningFacts DEF Dropped
<1> QED
  BY <1>1, <1>2, <1>3

\* With one connection nobody demotes while a retrieval reads.
LEMMA OnlyOne ==
  ASSUME ConnectionsInv, connections = 1, NEW r \in ReadingOnes
  PROVE  DemotingOnes = {}
<1>1. PICK a \in Nat, b \in Nat, c \in {0, 1} :
        a = Cardinality(ReadingOnes) /\ b = Cardinality(DemotingOnes) /\ c = LearnerHolds
  BY InUseIs
<1>2. a # 0
  BY <1>1, InUseIs, FS_EmptySet
<1>3. a + b + c <= 1
  BY <1>1, InUseIs DEF ConnectionsInv
<1>4. b = 0
  BY <1>2, <1>3
<1> QED
  BY <1>1, <1>4, InUseIs, FS_EmptySet

\* What a step does to the connections in use: it takes none, or a free one.
TakesNone ==
  ReadingOnes' \subseteq ReadingOnes /\ DemotingOnes' \subseteq DemotingOnes /\ LearnerHolds' <= LearnerHolds
TakesOne ==
  /\ Free
  /\ \/ /\ \E r \in Requests : ReadingOnes' = ReadingOnes \cup {r}
        /\ DemotingOnes' = DemotingOnes /\ LearnerHolds' = LearnerHolds
     \/ /\ \E d \in Reports : DemotingOnes' = DemotingOnes \cup {d}
        /\ ReadingOnes' = ReadingOnes /\ LearnerHolds' = LearnerHolds
     \/ ReadingOnes' = ReadingOnes /\ DemotingOnes' = DemotingOnes

LEMMA PoolKept ==
  ASSUME connections \in Nat, ConnectionsInv, UNCHANGED connections, TakesNone \/ TakesOne
  PROVE  ConnectionsInv'
<1>1. PICK a \in Nat, b \in Nat, c \in {0, 1} :
        a = Cardinality(ReadingOnes) /\ b = Cardinality(DemotingOnes) /\ c = LearnerHolds
  BY InUseIs
<1>2. PICK n \in Nat : n = connections
  OBVIOUS
<1>3. a + b + c <= n /\ (Free => a + b + c < n)
  BY <1>1, <1>2, InUseIs DEF ConnectionsInv, Free
<1>4. IsFiniteSet(ReadingOnes) /\ IsFiniteSet(DemotingOnes)
  BY InUseIs
<1>5. PICK c2 \in {0, 1} : c2 = LearnerHolds'
  BY DEF LearnerHolds
<1>6. InUse' = Cardinality(ReadingOnes') + Cardinality(DemotingOnes') + c2
  BY <1>5 DEF InUse, ReadingOnes, DemotingOnes, LearnerHolds
<1>7. CASE TakesNone
  <2>1. /\ Cardinality(ReadingOnes') \in Nat /\ Cardinality(ReadingOnes') <= a
        /\ Cardinality(DemotingOnes') \in Nat /\ Cardinality(DemotingOnes') <= b
    BY <1>1, <1>4, <1>7, FS_Subset, FS_CardinalityType DEF TakesNone
  <2>2. c2 <= c
    BY <1>1, <1>5, <1>7 DEF TakesNone
  <2>3. InUse' <= n
    BY <1>3, <1>6, <2>1, <2>2
  <2> QED
    BY <1>2, <2>3 DEF ConnectionsInv
<1>8. CASE TakesOne
  <2>1. a + b + c < n
    BY <1>3, <1>8 DEF TakesOne
  <2>2. CASE /\ \E r \in Requests : ReadingOnes' = ReadingOnes \cup {r}
             /\ DemotingOnes' = DemotingOnes /\ LearnerHolds' = LearnerHolds
    <3>1. Cardinality(ReadingOnes') \in {a, a + 1}
      BY <1>1, <1>4, <2>2, FS_AddElement
    <3>2. InUse' <= n
      BY <1>1, <1>5, <1>6, <2>1, <2>2, <3>1
    <3> QED
      BY <1>2, <3>2 DEF ConnectionsInv
  <2>3. CASE /\ \E d \in Reports : DemotingOnes' = DemotingOnes \cup {d}
             /\ ReadingOnes' = ReadingOnes /\ LearnerHolds' = LearnerHolds
    <3>1. Cardinality(DemotingOnes') \in {b, b + 1}
      BY <1>1, <1>4, <2>3, FS_AddElement
    <3>2. InUse' <= n
      BY <1>1, <1>5, <1>6, <2>1, <2>3, <3>1
    <3> QED
      BY <1>2, <3>2 DEF ConnectionsInv
  <2>4. CASE ReadingOnes' = ReadingOnes /\ DemotingOnes' = DemotingOnes
    <3>1. InUse' = a + b + c2
      BY <1>1, <1>6, <2>4
    <3>2. InUse' <= n
      BY <2>1, <3>1
    <3> QED
      BY <1>2, <3>2 DEF ConnectionsInv
  <2> QED
    BY <1>8, <2>2, <2>3, <2>4 DEF TakesOne
<1> QED
  BY <1>7, <1>8

\* A step of the learner, of the retention, or of none: it validates nothing.
Lesson ==
  /\ UNCHANGED <<connections, clock, request, report, demotedAt>>
  /\ cache' = cache \/ cache' = NoCache
  /\ rows' \in [Procedures -> Row] /\ learner' \in JobRows
  /\ learner'.at = "commit" => learner'.procedure \in Procedures
  /\ \A p \in Procedures : rows'[p].status = "validated" => rows[p].status = "validated"
  /\ TakesNone \/ Free

LEMMA LessonKeeps == ASSUME LearningIInv, Lesson PROVE LearningIInv'
<1>1. /\ ProceduresTyped /\ UnderWayInv /\ ConnectionsInv /\ ReviewedInv /\ HeldInv /\ DemotedFadesOut
      /\ UNCHANGED <<connections, clock, request, report, demotedAt>>
      /\ cache' = cache \/ cache' = NoCache
  BY DEF LearningIInv, Lesson
<1>2. clock \in Nat /\ connections \in Nat
  BY <1>1, LearningFacts DEF ProceduresTyped
<1>3. ProceduresTyped'
  <2>1. cache' \in [until : Nat, held : SUBSET Procedures]
    BY <1>1 DEF ProceduresTyped, NoCache
  <2> QED
    BY <1>1, <2>1 DEF ProceduresTyped, Lesson
<1>4. UnderWayInv'
  <2>1. cache'.until <= clock + ProcedureTtl
    BY <1>1, <1>2, LearningFacts DEF UnderWayInv, NoCache
  <2> QED
    BY <1>1, <2>1 DEF UnderWayInv, Lesson
<1>5. ConnectionsInv'
  <2>1. ReadingOnes' = ReadingOnes /\ DemotingOnes' = DemotingOnes
    BY <1>1 DEF ReadingOnes, DemotingOnes
  <2> QED
    BY <1>1, <1>2, <2>1, PoolKept DEF TakesOne, Lesson
<1>6. ReviewedInv'
  BY <1>1 DEF ReviewedInv, Lesson
<1>7. HeldInv'
  <2>1. CASE cache' = cache
    BY <1>1, <2>1 DEF HeldInv, NotDemotedBy
  <2>2. CASE cache' = NoCache
    <3>1. cache'.held = {}
      BY <2>2 DEF NoCache
    <3> QED
      BY <1>1, <3>1 DEF HeldInv, NotDemotedBy
  <2> QED
    BY <1>1, <2>1, <2>2
<1>8. DemotedFadesOut'
  BY <1>1 DEF DemotedFadesOut
<1> QED
  BY <1>3, <1>4, <1>5, <1>6, <1>7, <1>8 DEF LearningIInv

LEMMA LearnerHolding ==
  /\ learner.at \notin {"commit", "invalidate"} => LearnerHolds = 0
  /\ learner'.at \in {"commit", "invalidate"} => LearnerHolds' = 1
  /\ learner'.at \notin {"commit", "invalidate"} => LearnerHolds' = 0
  /\ LearnerHolds \in {0, 1}
  BY DEF LearnerHolds

LEMMA SameOthers ==
  ASSUME UNCHANGED <<request, report>>, LearnerHolds' <= LearnerHolds
  PROVE  TakesNone
  BY DEF TakesNone, ReadingOnes, DemotingOnes

LEMMA ReinforceIsLesson ==
  ASSUME LearningIInv, NEW p \in Procedures, NEW selected, Reinforce(p, selected)
  PROVE  Lesson
<1>1. rows[p] \in Row
  BY DEF LearningIInv, ProceduresTyped
<1>2. Reinforced(rows[p]) \in Row
  BY <1>1, Changes
<1>3. learner' = [at |-> "commit", procedure |-> p, row |-> Reinforced(rows[p])]
  BY DEF Reinforce
<1>4. learner' \in JobRows /\ learner'.procedure = p
  BY <1>2, <1>3 DEF JobRows
<1>5. UNCHANGED <<connections, clock, rows, request, report, demotedAt>> /\ Free /\ cache' = NoCache
  BY DEF Reinforce, Invalidated
<1>6. rows' \in [Procedures -> Row]
  BY <1>5 DEF LearningIInv, ProceduresTyped
<1> QED
  BY <1>4, <1>5, <1>6 DEF Lesson

LEMMA GeneralizeIsLesson ==
  ASSUME LearningIInv, Generalize
  PROVE  Lesson
<1>1. UNCHANGED <<connections, clock, rows, cache, request, report, demotedAt>> /\ Free
  BY DEF Generalize
<1>2. learner \in JobRows /\ rows \in [Procedures -> Row]
  BY DEF LearningIInv, ProceduresTyped
<1>3. PICK s : s = "generate"
  OBVIOUS
<1>4. learner' = [learner EXCEPT !.at = s]
  BY <1>3, Zenon DEF Generalize
<1>5. learner' \in JobRows /\ learner'.at # "commit"
  BY <1>2, <1>3, <1>4 DEF JobRows
<1> QED
  BY <1>1, <1>2, <1>5 DEF Lesson

LEMMA NothingIsLesson ==
  ASSUME LearningIInv, NothingLearned
  PROVE  Lesson
<1>1. UNCHANGED <<connections, clock, rows, cache, request, report, demotedAt>>
  BY DEF NothingLearned
<1>2. learner \in JobRows /\ rows \in [Procedures -> Row]
  BY DEF LearningIInv, ProceduresTyped
<1>3. PICK s : s = "idle"
  OBVIOUS
<1>4. learner' = [learner EXCEPT !.at = s]
  BY <1>3, Zenon DEF NothingLearned
<1>5. learner' \in JobRows /\ learner'.at = "idle"
  BY <1>2, <1>3, <1>4 DEF JobRows
<1>6. LearnerHolds' <= LearnerHolds
  BY <1>5, LearnerHolding
<1>7. TakesNone
  BY <1>1, <1>6, SameOthers
<1> QED
  BY <1>1, <1>2, <1>5, <1>7 DEF Lesson

LEMMA StoreIsLesson ==
  ASSUME LearningIInv, NEW p \in Procedures, NEW key \in Procedures, StoreCandidate(p, key)
  PROVE  Lesson
<1>1. PICK new : new = IF rows[p] = NoRow THEN Learned ELSE Reinforced(rows[p])
  OBVIOUS
<1>2. rows[p] \in Row
  BY DEF LearningIInv, ProceduresTyped
<1>3. new \in Row
  BY <1>1, <1>2, Changes, LearningFacts
<1>4. learner' = [at |-> "commit", procedure |-> p, row |-> new]
  BY <1>1, Zenon DEF StoreCandidate
<1>5. learner' \in JobRows /\ learner'.procedure = p
  BY <1>3, <1>4 DEF JobRows
<1>6. UNCHANGED <<connections, clock, rows, request, report, demotedAt>> /\ Free /\ cache' = NoCache
  BY DEF StoreCandidate, Invalidated
<1>7. rows' \in [Procedures -> Row]
  BY <1>6 DEF LearningIInv, ProceduresTyped
<1> QED
  BY <1>5, <1>6, <1>7 DEF Lesson

LEMMA LearnerCommitIsLesson ==
  ASSUME LearningIInv, LearnerCommit
  PROVE  Lesson
<1>1. UNCHANGED <<connections, clock, cache, request, report, demotedAt>> /\ learner.at = "commit"
  BY DEF LearnerCommit
<1>2. learner \in JobRows /\ rows \in [Procedures -> Row]
  BY DEF LearningIInv, ProceduresTyped
<1>3. PICK s : s = "invalidate"
  OBVIOUS
<1>4. learner' = [learner EXCEPT !.at = s]
  BY <1>3, Zenon DEF LearnerCommit
<1>5. learner' \in JobRows /\ learner'.at = "invalidate"
  BY <1>2, <1>3, <1>4 DEF JobRows
<1>6. LearnerHolds' <= LearnerHolds
  BY <1>1, <1>5, LearnerHolding DEF LearnerHolds
<1>7. TakesNone
  BY <1>1, <1>6, SameOthers
<1>8. PICK p \in Procedures : p = learner.procedure
  BY <1>1 DEF LearningIInv, UnderWayInv
<1>9. \/ rows' = rows \/ rows' = [rows EXCEPT ![p] = Learned]
      \/ rows' = [rows EXCEPT ![p].successes = learner.row.successes]
  BY <1>8 DEF LearnerCommit
<1>10. learner.row.successes \in Nat
  BY <1>2 DEF JobRows, Row
<1>11. /\ rows' \in [Procedures -> Row]
       /\ \A q \in Procedures : rows'[q].status = "validated" => rows[q].status = "validated"
  <2>1. CASE rows' = [rows EXCEPT ![p] = Learned]
    BY <1>2, <2>1, LearningFacts
  <2>2. CASE rows' = [rows EXCEPT ![p].successes = learner.row.successes]
    BY <1>2, <1>10, <2>2 DEF Row
  <2> QED
    BY <1>2, <1>9, <2>1, <2>2
<1> QED
  BY <1>1, <1>5, <1>7, <1>11 DEF Lesson

LEMMA LearnerReturnsIsLesson ==
  ASSUME LearningIInv, LearnerReturns
  PROVE  Lesson
<1>1. UNCHANGED <<connections, clock, rows, request, report, demotedAt>> /\ cache' = NoCache
  BY DEF LearnerReturns, Invalidated
<1>2. rows \in [Procedures -> Row]
  BY DEF LearningIInv, ProceduresTyped
<1>3. learner' = [at |-> "idle", procedure |-> "none", row |-> NoRow]
  BY DEF LearnerReturns
<1>4. learner' \in JobRows /\ learner'.at = "idle"
  BY <1>3, LearningFacts DEF JobRows
<1>5. LearnerHolds' <= LearnerHolds
  BY <1>4, LearnerHolding
<1>6. TakesNone
  BY <1>1, <1>5, SameOthers
<1> QED
  BY <1>1, <1>2, <1>4, <1>6 DEF Lesson

LEMMA PruneIsLesson ==
  ASSUME LearningIInv, NEW p \in Procedures, Prune(p)
  PROVE  Lesson
<1>1. UNCHANGED <<connections, clock, request, report, learner, demotedAt>> /\ Free /\ cache' = NoCache
  BY DEF Prune, Invalidated
<1>2. learner \in JobRows /\ rows \in [Procedures -> Row]
  BY DEF LearningIInv, ProceduresTyped
<1>3. Dropped(rows[p]) \in Row /\ Dropped(rows[p]).status # "validated"
  BY <1>2, Changes
<1>4. rows' = [rows EXCEPT ![p] = Dropped(rows[p])]
  BY DEF Prune
<1>5. /\ rows' \in [Procedures -> Row]
      /\ \A q \in Procedures : rows'[q].status = "validated" => rows[q].status = "validated"
  BY <1>2, <1>3, <1>4
<1>6. learner'.at = "commit" => learner'.procedure \in Procedures
  BY <1>1 DEF LearningIInv, UnderWayInv
<1> QED
  BY <1>1, <1>2, <1>5, <1>6 DEF Lesson

LEMMA RetrieveKeeps ==
  ASSUME LearningIInv, NEW r \in Requests, RetrieveCached(r)
  PROVE  LearningIInv'
<1>1. /\ ProceduresTyped /\ UnderWayInv /\ ConnectionsInv /\ ReviewedInv /\ HeldInv /\ DemotedFadesOut
      /\ UNCHANGED <<connections, clock, rows, cache, report, learner, demotedAt>>
      /\ cache.until > clock
  BY DEF LearningIInv, RetrieveCached
<1>2. /\ clock \in Nat /\ connections \in Nat /\ cache.until \in Nat /\ cache.held \in SUBSET Procedures
      /\ demotedAt \in [Procedures -> Nat \cup {Never}] /\ request \in [Requests -> RetrievalRows]
  BY <1>1, LearningFacts DEF ProceduresTyped
<1>3. PICK new : new = [at |-> "served", asked |-> clock, held |-> cache.held]
  OBVIOUS
<1>4. request' = [request EXCEPT ![r] = new]
  BY <1>3, Zenon DEF RetrieveCached
<1>5. new \in RetrievalRows /\ new.at = "served" /\ new.asked = clock /\ new.held = cache.held
  BY <1>2, <1>3 DEF RetrievalRows
<1>6. /\ request'[r] = new /\ \A q \in Requests \ {r} : request'[q] = request[q]
      /\ request' \in [Requests -> RetrievalRows]
  BY <1>2, <1>4, <1>5
<1>7. ProceduresTyped'
  BY <1>1, <1>6 DEF ProceduresTyped
<1>8. UnderWayInv'
  BY <1>1, <1>2, <1>5, <1>6 DEF UnderWayInv
<1>9. ConnectionsInv'
  <2>1. ReadingOnes' \subseteq ReadingOnes /\ DemotingOnes' = DemotingOnes /\ LearnerHolds' = LearnerHolds
    BY <1>1, <1>5, <1>6 DEF ReadingOnes, DemotingOnes, LearnerHolds
  <2>2. TakesNone
    BY <2>1, LearnerHolding DEF TakesNone
  <2> QED
    BY <1>1, <1>2, <2>2, PoolKept
<1>10. ReviewedInv'
  BY <1>1 DEF ReviewedInv
<1>11. HeldInv'
  BY <1>1, <1>5, <1>6 DEF HeldInv, NotDemotedBy
<1>12. DemotedFadesOut'
  <2> SUFFICES ASSUME NEW p \in cache.held, demotedAt[p] # Never, demotedAt[p] < clock
               PROVE  connections > 1 /\ clock < demotedAt[p] + ProcedureTtl
    BY <1>1, <1>5, <1>6 DEF DemotedFadesOut
  <2>1. connections > 1 /\ cache.until - ProcedureTtl <= demotedAt[p]
    BY <1>1 DEF HeldInv, NotDemotedBy
  <2>2. demotedAt[p] \in Nat
    BY <1>2
  <2> QED
    BY <1>1, <1>2, <2>1, <2>2, LearningFacts
<1> QED
  BY <1>7, <1>8, <1>9, <1>10, <1>11, <1>12 DEF LearningIInv

LEMMA SelectKeeps ==
  ASSUME LearningIInv, NEW r \in Requests, Select(r)
  PROVE  LearningIInv'
<1>1. /\ ProceduresTyped /\ UnderWayInv /\ ConnectionsInv /\ ReviewedInv /\ HeldInv /\ DemotedFadesOut
      /\ UNCHANGED <<connections, clock, rows, cache, report, learner, demotedAt>> /\ Free
  BY DEF LearningIInv, Select
<1>2. /\ clock \in Nat /\ connections \in Nat /\ request \in [Requests -> RetrievalRows]
  BY <1>1, LearningFacts DEF ProceduresTyped
<1>3. PICK new : new = [at |-> "reading", asked |-> clock, held |-> Validated]
  OBVIOUS
<1>4. request' = [request EXCEPT ![r] = new]
  BY <1>3, Zenon DEF Select
<1>5. new \in RetrievalRows /\ new.at = "reading" /\ new.asked = clock /\ new.held = Validated
  BY <1>2, <1>3 DEF RetrievalRows, Validated
<1>6. /\ request'[r] = new /\ \A q \in Requests \ {r} : request'[q] = request[q]
      /\ request' \in [Requests -> RetrievalRows]
  BY <1>2, <1>4, <1>5
<1>7. ProceduresTyped'
  BY <1>1, <1>6 DEF ProceduresTyped
<1>8. UnderWayInv'
  BY <1>1, <1>2, <1>5, <1>6 DEF UnderWayInv
<1>9. ConnectionsInv'
  <2>1. ReadingOnes' = ReadingOnes \cup {r} /\ DemotingOnes' = DemotingOnes /\ LearnerHolds' = LearnerHolds
    BY <1>1, <1>5, <1>6 DEF ReadingOnes, DemotingOnes, LearnerHolds
  <2>2. TakesOne
    BY <1>1, <2>1 DEF TakesOne
  <2> QED
    BY <1>1, <1>2, <2>2, PoolKept
<1>10. ReviewedInv'
  BY <1>1 DEF ReviewedInv
<1>11. HeldInv'
  <2>1. \A p \in Validated : demotedAt[p] = Never
    BY <1>1 DEF ReviewedInv, Validated
  <2> QED
    BY <1>1, <1>5, <1>6, <2>1 DEF HeldInv, NotDemotedBy
<1>12. DemotedFadesOut'
  BY <1>1, <1>5, <1>6 DEF DemotedFadesOut
<1> QED
  BY <1>7, <1>8, <1>9, <1>10, <1>11, <1>12 DEF LearningIInv

LEMMA FillKeeps ==
  ASSUME LearningIInv, NEW r \in Requests, Fill(r)
  PROVE  LearningIInv'
<1>1. /\ ProceduresTyped /\ UnderWayInv /\ ConnectionsInv /\ ReviewedInv /\ HeldInv /\ DemotedFadesOut
      /\ UNCHANGED <<connections, clock, rows, report, learner, demotedAt>>
      /\ request[r].at = "reading"
  BY DEF LearningIInv, Fill
<1>2. /\ clock \in Nat /\ connections \in Nat /\ request \in [Requests -> RetrievalRows]
      /\ demotedAt \in [Procedures -> Nat \cup {Never}]
  BY <1>1, LearningFacts DEF ProceduresTyped
<1>3. PICK s : s = "served"
  OBVIOUS
<1>4. request' = [request EXCEPT ![r].at = s]
  BY <1>3, Zenon DEF Fill
<1>5. /\ request[r].asked \in Nat /\ request[r].held \in SUBSET Procedures /\ request[r].asked <= clock
      /\ \A p \in request[r].held : NotDemotedBy(p, request[r].asked)
  BY <1>1, <1>2 DEF RetrievalRows, UnderWayInv, HeldInv
<1>6. /\ request'[r].at = "served" /\ request'[r].asked = request[r].asked
      /\ request'[r].held = request[r].held
      /\ \A q \in Requests \ {r} : request'[q] = request[q]
      /\ request' \in [Requests -> RetrievalRows]
  BY <1>2, <1>3, <1>4 DEF RetrievalRows
<1>7. cache' = [until |-> request[r].asked + ProcedureTtl, held |-> request[r].held]
  BY DEF Fill
<1>8. /\ cache' \in [until : Nat, held : SUBSET Procedures]
      /\ cache'.until = request[r].asked + ProcedureTtl /\ cache'.held = request[r].held
      /\ cache'.until - ProcedureTtl = request[r].asked
  BY <1>5, <1>7, LearningFacts
<1>9. ProceduresTyped'
  BY <1>1, <1>6, <1>8 DEF ProceduresTyped
<1>10. UnderWayInv'
  <2>1. cache'.until <= clock' + ProcedureTtl
    BY <1>1, <1>2, <1>5, <1>8, LearningFacts
  <2>2. \A q \in Requests : request'[q].asked <= clock'
    BY <1>1, <1>6 DEF UnderWayInv
  <2> QED
    BY <1>1, <2>1, <2>2 DEF UnderWayInv
<1>11. ConnectionsInv'
  <2>1. ReadingOnes' \subseteq ReadingOnes /\ DemotingOnes' = DemotingOnes /\ LearnerHolds' = LearnerHolds
    BY <1>1, <1>6 DEF ReadingOnes, DemotingOnes, LearnerHolds
  <2>2. TakesNone
    BY <2>1, LearnerHolding DEF TakesNone
  <2> QED
    BY <1>1, <1>2, <2>2, PoolKept
<1>12. ReviewedInv'
  BY <1>1 DEF ReviewedInv
<1>13. HeldInv'
  <2>1. \A q \in Requests : request'[q].at = "reading" =>
          \A p \in request'[q].held : NotDemotedBy(p, request'[q].asked)
    BY <1>1, <1>6 DEF HeldInv, NotDemotedBy
  <2>2. \A p \in cache'.held : NotDemotedBy(p, cache'.until - ProcedureTtl)
    BY <1>1, <1>5, <1>8 DEF NotDemotedBy
  <2>3. connections' = 1 => \A d \in Reports : report'[d].at = "commit" => cache'.held = {}
    <3> SUFFICES ASSUME connections = 1, NEW d \in Reports, report[d].at = "commit"
                 PROVE  FALSE
      BY <1>1
    <3>1. r \in ReadingOnes /\ d \in DemotingOnes
      BY <1>1 DEF ReadingOnes, DemotingOnes
    <3> QED
      BY <1>1, <3>1, OnlyOne
  <2> QED
    BY <1>1, <2>1, <2>2, <2>3 DEF HeldInv, NotDemotedBy
<1>14. DemotedFadesOut'
  <2>1. \A p \in request[r].held : ~ (demotedAt[p] # Never /\ demotedAt[p] < request[r].asked)
    BY <1>2, <1>5 DEF NotDemotedBy
  <2> QED
    BY <1>1, <1>6, <2>1 DEF DemotedFadesOut
<1> QED
  BY <1>9, <1>10, <1>11, <1>12, <1>13, <1>14 DEF LearningIInv

LEMMA DemoteKeeps ==
  ASSUME LearningIInv, NEW d \in Reports, NEW p \in Procedures, Demote(d, p)
  PROVE  LearningIInv'
<1>1. /\ ProceduresTyped /\ UnderWayInv /\ ConnectionsInv /\ ReviewedInv /\ HeldInv /\ DemotedFadesOut
      /\ UNCHANGED <<connections, clock, rows, request, learner, demotedAt>> /\ Free
      /\ cache' = NoCache
  BY DEF LearningIInv, Demote, Invalidated
<1>2. /\ clock \in Nat /\ connections \in Nat /\ report \in [Reports -> DemotionRows] /\ rows[p] \in Row
  BY <1>1, LearningFacts DEF ProceduresTyped
<1>3. PICK new : new = [at |-> "commit", procedure |-> p, row |-> Demoted(rows[p])]
  OBVIOUS
<1>4. report' = [report EXCEPT ![d] = new]
  BY <1>3, Zenon DEF Demote
<1>5. Demoted(rows[p]) \in Row /\ Demoted(rows[p]).status \in {"candidate", "retired"}
  BY <1>2, Changes
<1>6. /\ new \in DemotionRows /\ new.at = "commit" /\ new.procedure = p
      /\ new.row.status \in {"candidate", "retired"}
  BY <1>3, <1>5 DEF DemotionRows
<1>7. /\ report'[d] = new /\ \A e \in Reports \ {d} : report'[e] = report[e]
      /\ report' \in [Reports -> DemotionRows]
  BY <1>2, <1>4, <1>6
<1>8. cache' \in [until : Nat, held : SUBSET Procedures] /\ cache'.held = {} /\ cache'.until = 0
  BY <1>1 DEF NoCache
<1>9. ProceduresTyped'
  BY <1>1, <1>7, <1>8 DEF ProceduresTyped
<1>10. UnderWayInv'
  <2>1. cache'.until <= clock' + ProcedureTtl
    BY <1>1, <1>2, <1>8, LearningFacts
  <2>2. \A e \in Reports : report'[e].at = "commit" =>
          report'[e].procedure \in Procedures /\ report'[e].row.status \in {"candidate", "retired"}
    BY <1>1, <1>6, <1>7 DEF UnderWayInv
  <2> QED
    BY <1>1, <2>1, <2>2 DEF UnderWayInv
<1>11. ConnectionsInv'
  <2>1. DemotingOnes' = DemotingOnes \cup {d} /\ ReadingOnes' = ReadingOnes /\ LearnerHolds' = LearnerHolds
    BY <1>1, <1>6, <1>7 DEF ReadingOnes, DemotingOnes, LearnerHolds
  <2>2. TakesOne
    BY <1>1, <2>1 DEF TakesOne
  <2> QED
    BY <1>1, <1>2, <2>2, PoolKept
<1>12. ReviewedInv' /\ DemotedFadesOut'
  BY <1>1 DEF ReviewedInv, DemotedFadesOut
<1>13. HeldInv'
  BY <1>1, <1>8 DEF HeldInv, NotDemotedBy
<1> QED
  BY <1>9, <1>10, <1>11, <1>12, <1>13 DEF LearningIInv

LEMMA DemoteCommitKeeps ==
  ASSUME LearningIInv, NEW d \in Reports, DemoteCommit(d)
  PROVE  LearningIInv'
<1>1. /\ ProceduresTyped /\ UnderWayInv /\ ConnectionsInv /\ ReviewedInv /\ HeldInv /\ DemotedFadesOut
      /\ UNCHANGED <<connections, clock, cache, request, learner>>
      /\ report[d].at = "commit"
  BY DEF LearningIInv, DemoteCommit
<1>2. /\ clock \in Nat /\ connections \in Nat /\ report \in [Reports -> DemotionRows]
      /\ rows \in [Procedures -> Row] /\ demotedAt \in [Procedures -> Nat \cup {Never}]
      /\ cache.until \in Nat /\ request \in [Requests -> RetrievalRows]
  BY <1>1, LearningFacts DEF ProceduresTyped
<1>3. PICK p \in Procedures, new \in Row : /\ p = report[d].procedure /\ new = report[d].row
                                          /\ new.status \in {"candidate", "retired"}
  BY <1>1, <1>2 DEF UnderWayInv, DemotionRows
<1>4. PICK row : row = [status |-> new.status, successes |-> rows[p].successes, failures |-> new.failures]
  OBVIOUS
<1>5. row \in Row /\ row.status # "validated"
  BY <1>2, <1>3, <1>4 DEF Row
<1>6. rows' = rows \/ rows' = [rows EXCEPT ![p] = row]
  BY <1>3, <1>4 DEF DemoteCommit
<1>6a. rows[p] = NoRow \/ rows'[p] = row
  BY <1>2, <1>3, <1>4 DEF DemoteCommit
<1>7. /\ rows' \in [Procedures -> Row] /\ rows'[p].status # "validated"
      /\ \A q \in Procedures \ {p} : rows'[q] = rows[q]
  BY <1>2, <1>5, <1>6, <1>6a, LearningFacts
<1>8. PICK s : s = "clear"
  OBVIOUS
<1>9. report' = [report EXCEPT ![d].at = s]
  BY <1>8, Zenon DEF DemoteCommit
<1>10. /\ report'[d].at = "clear" /\ \A e \in Reports \ {d} : report'[e] = report[e]
       /\ report' \in [Reports -> DemotionRows]
  BY <1>2, <1>8, <1>9 DEF DemotionRows
<1>11. demotedAt' = [demotedAt EXCEPT ![p] = clock]
  BY <1>3 DEF DemoteCommit
<1>12. /\ demotedAt'[p] = clock /\ \A q \in Procedures \ {p} : demotedAt'[q] = demotedAt[q]
       /\ demotedAt' \in [Procedures -> Nat \cup {Never}]
  BY <1>2, <1>11
<1>13. ProceduresTyped'
  BY <1>1, <1>7, <1>10, <1>12 DEF ProceduresTyped
<1>14. UnderWayInv'
  BY <1>1, <1>10 DEF UnderWayInv
<1>15. ConnectionsInv'
  <2>1. ReadingOnes' = ReadingOnes /\ DemotingOnes' \subseteq DemotingOnes /\ LearnerHolds' = LearnerHolds
    BY <1>1, <1>10 DEF ReadingOnes, DemotingOnes, LearnerHolds
  <2>2. TakesNone
    BY <2>1, LearnerHolding DEF TakesNone
  <2> QED
    BY <1>1, <1>2, <2>2, PoolKept
<1>16. ReviewedInv'
  BY <1>1, <1>7, <1>12 DEF ReviewedInv
<1>17. HeldInv'
  <2>1. \A r \in Requests : request[r].at = "reading" => connections # 1
    <3> SUFFICES ASSUME NEW r \in Requests, request[r].at = "reading", connections = 1 PROVE FALSE
      OBVIOUS
    <3>1. r \in ReadingOnes /\ d \in DemotingOnes
      BY <1>1 DEF ReadingOnes, DemotingOnes
    <3> QED
      BY <1>1, <3>1, OnlyOne
  <2>2. connections # 0
    <3>1. PICK a \in Nat, b \in Nat, c \in {0, 1} :
            a = Cardinality(ReadingOnes) /\ b = Cardinality(DemotingOnes) /\ c = LearnerHolds
      BY InUseIs
    <3>2. b # 0
      BY <1>1, <3>1, InUseIs, FS_EmptySet DEF DemotingOnes
    <3>3. a + b + c <= connections
      BY <1>1, <3>1, InUseIs DEF ConnectionsInv
    <3> QED
      BY <1>2, <3>1, <3>2, <3>3
  <2>3. \A r \in Requests : request[r].at = "reading" => connections > 1 /\ request[r].asked <= clock
    BY <1>1, <1>2, <2>1, <2>2 DEF UnderWayInv
  <2>4. cache.held # {} => connections > 1
    BY <1>1, <1>2, <2>2 DEF HeldInv
  <2>5. cache.until - ProcedureTtl <= clock
    BY <1>1, <1>2, LearningFacts DEF UnderWayInv
  <2>6. \A r \in Requests : request'[r].at = "reading" =>
          \A q \in request'[r].held : demotedAt'[q] = Never \/ (connections' > 1 /\ request'[r].asked <= demotedAt'[q])
    <3> SUFFICES ASSUME NEW r \in Requests, request[r].at = "reading", NEW q \in request[r].held
                 PROVE  demotedAt'[q] = Never \/ (connections > 1 /\ request[r].asked <= demotedAt'[q])
      BY <1>1
    <3>1. q \in Procedures
      BY <1>2 DEF RetrievalRows
    <3>2. CASE q = p
      BY <1>12, <2>3, <3>2
    <3>3. CASE q # p
      BY <1>1, <1>12, <3>1, <3>3 DEF HeldInv, NotDemotedBy
    <3> QED
      BY <3>2, <3>3
  <2>7. \A q \in cache'.held : demotedAt'[q] = Never \/ (connections' > 1 /\ cache'.until - ProcedureTtl <= demotedAt'[q])
    <3> SUFFICES ASSUME NEW q \in cache.held
                 PROVE  demotedAt'[q] = Never \/ (connections > 1 /\ cache.until - ProcedureTtl <= demotedAt'[q])
      BY <1>1
    <3>1. q \in Procedures
      BY <1>1 DEF ProceduresTyped
    <3>2. CASE q = p
      BY <1>12, <2>4, <2>5, <3>2
    <3>3. CASE q # p
      BY <1>1, <1>12, <3>1, <3>3 DEF HeldInv, NotDemotedBy
    <3> QED
      BY <3>2, <3>3
  <2>8. connections' = 1 => \A e \in Reports : report'[e].at = "commit" => cache'.held = {}
    BY <1>1, <1>10 DEF HeldInv
  <2> QED
    BY <2>6, <2>7, <2>8 DEF HeldInv, NotDemotedBy
<1>18. DemotedFadesOut'
  <2> SUFFICES ASSUME NEW r \in Requests, request[r].at = "served", NEW q \in request[r].held,
                      demotedAt'[q] # Never, demotedAt'[q] < request[r].asked
               PROVE  connections > 1 /\ request[r].asked < demotedAt'[q] + ProcedureTtl
    BY <1>1 DEF DemotedFadesOut
  <2>1. q \in Procedures /\ request[r].asked \in Nat /\ request[r].asked <= clock
    BY <1>1, <1>2 DEF RetrievalRows, UnderWayInv
  <2>2. q # p
    BY <1>2, <1>12, <2>1
  <2> QED
    BY <1>1, <1>12, <2>1, <2>2 DEF DemotedFadesOut
<1> QED
  BY <1>13, <1>14, <1>15, <1>16, <1>17, <1>18 DEF LearningIInv

LEMMA DemoteReturnsKeeps ==
  ASSUME LearningIInv, NEW d \in Reports, DemoteReturns(d)
  PROVE  LearningIInv'
<1>1. /\ ProceduresTyped /\ UnderWayInv /\ ConnectionsInv /\ ReviewedInv /\ HeldInv /\ DemotedFadesOut
      /\ UNCHANGED <<connections, clock, rows, request, learner, demotedAt>>
      /\ cache' = NoCache
  BY DEF LearningIInv, DemoteReturns, Invalidated
<1>2. /\ clock \in Nat /\ connections \in Nat /\ report \in [Reports -> DemotionRows]
  BY <1>1, LearningFacts DEF ProceduresTyped
<1>3. PICK s : s = "done"
  OBVIOUS
<1>4. report' = [report EXCEPT ![d].at = s]
  BY <1>3, Zenon DEF DemoteReturns
<1>5. /\ report'[d].at = "done" /\ \A e \in Reports \ {d} : report'[e] = report[e]
      /\ report' \in [Reports -> DemotionRows]
  BY <1>2, <1>3, <1>4 DEF DemotionRows
<1>6. cache' \in [until : Nat, held : SUBSET Procedures] /\ cache'.held = {} /\ cache'.until = 0
  BY <1>1 DEF NoCache
<1>7. ProceduresTyped'
  BY <1>1, <1>5, <1>6 DEF ProceduresTyped
<1>8. UnderWayInv'
  <2>1. cache'.until <= clock' + ProcedureTtl
    BY <1>1, <1>2, <1>6, LearningFacts
  <2> QED
    BY <1>1, <1>5, <2>1 DEF UnderWayInv
<1>9. ConnectionsInv'
  <2>1. ReadingOnes' = ReadingOnes /\ DemotingOnes' \subseteq DemotingOnes /\ LearnerHolds' = LearnerHolds
    BY <1>1, <1>5 DEF ReadingOnes, DemotingOnes, LearnerHolds
  <2>2. TakesNone
    BY <2>1, LearnerHolding DEF TakesNone
  <2> QED
    BY <1>1, <1>2, <2>2, PoolKept
<1>10. ReviewedInv' /\ DemotedFadesOut'
  BY <1>1 DEF ReviewedInv, DemotedFadesOut
<1>11. HeldInv'
  BY <1>1, <1>6 DEF HeldInv, NotDemotedBy
<1> QED
  BY <1>7, <1>8, <1>9, <1>10, <1>11 DEF LearningIInv

LEMMA ReviewKeeps ==
  ASSUME LearningIInv, NEW p \in Procedures, Review(p)
  PROVE  LearningIInv'
<1>1. /\ ProceduresTyped /\ UnderWayInv /\ ConnectionsInv /\ ReviewedInv /\ HeldInv /\ DemotedFadesOut
      /\ UNCHANGED <<connections, clock, cache, request, report, learner>>
      /\ demotedAt' = [demotedAt EXCEPT ![p] = Never]
  BY DEF LearningIInv, Review
<1>2. /\ connections \in Nat /\ rows \in [Procedures -> Row] /\ demotedAt \in [Procedures -> Nat \cup {Never}]
      /\ cache.held \subseteq Procedures /\ request \in [Requests -> RetrievalRows]
  BY <1>1, LearningFacts DEF ProceduresTyped
<1>3. PICK s : s = "validated"
  OBVIOUS
<1>4. rows' = [rows EXCEPT ![p].status = s]
  BY <1>3, Zenon DEF Review
<1>5. rows' \in [Procedures -> Row] /\ \A q \in Procedures \ {p} : rows'[q] = rows[q]
  BY <1>2, <1>3, <1>4 DEF Row
<1>6. /\ demotedAt'[p] = Never /\ \A q \in Procedures \ {p} : demotedAt'[q] = demotedAt[q]
      /\ demotedAt' \in [Procedures -> Nat \cup {Never}]
  BY <1>1, <1>2
<1>7. \A q \in Procedures : demotedAt'[q] # Never => demotedAt'[q] = demotedAt[q]
  BY <1>6
<1>8. ProceduresTyped' /\ UnderWayInv'
  BY <1>1, <1>5, <1>6 DEF ProceduresTyped, UnderWayInv
<1>9. ConnectionsInv'
  <2>1. ReadingOnes' = ReadingOnes /\ DemotingOnes' = DemotingOnes /\ LearnerHolds' = LearnerHolds
    BY <1>1 DEF ReadingOnes, DemotingOnes, LearnerHolds
  <2>2. TakesNone
    BY <2>1, LearnerHolding DEF TakesNone
  <2> QED
    BY <1>1, <1>2, <2>2, PoolKept
<1>10. ReviewedInv'
  BY <1>1, <1>5, <1>6 DEF ReviewedInv
<1>11. \A r \in Requests : request[r].held \subseteq Procedures
  BY <1>2 DEF RetrievalRows
<1>12. HeldInv'
  BY <1>1, <1>2, <1>7, <1>11 DEF HeldInv, NotDemotedBy
<1>13. DemotedFadesOut'
  BY <1>1, <1>7, <1>11 DEF DemotedFadesOut
<1> QED
  BY <1>8, <1>9, <1>10, <1>12, <1>13 DEF LearningIInv

\* Time passes, or some other part moves.
LEMMA RestKeeps ==
  ASSUME LearningIInv, UNCHANGED <<connections, rows, cache, request, report, learner, demotedAt>>,
         clock' \in 0 .. LearningHorizon, clock <= clock'
  PROVE  LearningIInv'
<1>1. /\ ProceduresTyped /\ UnderWayInv /\ ConnectionsInv /\ ReviewedInv /\ HeldInv /\ DemotedFadesOut
  BY DEF LearningIInv
<1>2. /\ clock \in Nat /\ clock' \in Nat /\ cache.until \in Nat /\ connections \in Nat
      /\ request \in [Requests -> RetrievalRows]
  BY <1>1, LearningFacts DEF ProceduresTyped
<1>3. ProceduresTyped'
  BY <1>1 DEF ProceduresTyped
<1>4. UnderWayInv'
  <2>1. cache'.until <= clock' + ProcedureTtl
    BY <1>1, <1>2, LearningFacts DEF UnderWayInv
  <2>2. \A r \in Requests : request'[r].asked <= clock'
    <3> SUFFICES ASSUME NEW r \in Requests PROVE request[r].asked <= clock'
      OBVIOUS
    <3>1. request[r].asked \in Nat /\ request[r].asked <= clock
      BY <1>1, <1>2 DEF UnderWayInv, RetrievalRows
    <3> QED
      BY <1>2, <3>1
  <2> QED
    BY <1>1, <2>1, <2>2 DEF UnderWayInv
<1>5. ConnectionsInv'
  <2>1. ReadingOnes' = ReadingOnes /\ DemotingOnes' = DemotingOnes /\ LearnerHolds' = LearnerHolds
    BY DEF ReadingOnes, DemotingOnes, LearnerHolds
  <2>2. TakesNone
    BY <2>1, LearnerHolding DEF TakesNone
  <2> QED
    BY <1>1, <1>2, <2>2, PoolKept
<1>6. ReviewedInv' /\ HeldInv' /\ DemotedFadesOut'
  BY <1>1 DEF ReviewedInv, HeldInv, NotDemotedBy, DemotedFadesOut
<1> QED
  BY <1>3, <1>4, <1>5, <1>6 DEF LearningIInv

LEMMA LearningKept == LearningIInv /\ [LearningNext]_learningVars => LearningIInv'
<1> SUFFICES ASSUME LearningIInv, [LearningNext]_learningVars PROVE LearningIInv'
  OBVIOUS
<1>1. CASE \E r \in Requests : RetrieveCached(r) \/ Select(r) \/ Fill(r)
  BY <1>1, RetrieveKeeps, SelectKeeps, FillKeeps
<1>2. CASE \E d \in Reports : DemoteCommit(d) \/ DemoteReturns(d) \/ \E p \in Procedures : Demote(d, p)
  BY <1>2, DemoteKeeps, DemoteCommitKeeps, DemoteReturnsKeeps
<1>3. CASE \/ \E p \in Procedures, selected \in BOOLEAN : Reinforce(p, selected)
           \/ Generalize \/ NothingLearned \/ LearnerCommit \/ LearnerReturns
           \/ \E p, key \in Procedures : StoreCandidate(p, key)
           \/ \E p \in Procedures : Prune(p)
  BY <1>3, LessonKeeps, ReinforceIsLesson, GeneralizeIsLesson, NothingIsLesson, StoreIsLesson,
     LearnerCommitIsLesson, LearnerReturnsIsLesson, PruneIsLesson
<1>4. CASE \E p \in Procedures : Review(p)
  BY <1>4, ReviewKeeps
<1>5. clock \in 0 .. LearningHorizon
  BY DEF LearningIInv, ProceduresTyped
<1>6. CASE Tick
  <2>1. clock' \in 0 .. LearningHorizon /\ clock <= clock'
    BY <1>5, <1>6, LearningFacts DEF Tick
  <2> QED
    BY <1>6, <2>1, RestKeeps DEF Tick
<1>7. CASE UNCHANGED learningVars
  <2>1. /\ UNCHANGED <<connections, rows, cache, request, report, learner, demotedAt>>
        /\ clock' = clock
    BY <1>7 DEF learningVars
  <2>2. clock' \in 0 .. LearningHorizon /\ clock <= clock'
    BY <1>5, <2>1, LearningFacts
  <2> QED
    BY <2>1, <2>2, RestKeeps
<1> QED
  BY <1>1, <1>2, <1>3, <1>4, <1>6, <1>7 DEF LearningNext

LEMMA LearningSound == LearningIInv => LearningInv
  BY DEF LearningIInv, ProceduresTyped, ConnectionsInv, LearningInv, LearningTypeOK

\* For any requests, reports, pools of connections and prunings: learning takes no more
\* connections than there are, and who asks after a demotion is not given the procedure,
\* or, with more than one connection, for no longer than a cache entry lives (service.py).
THEOREM LearningIsSafe == LearningSpec => []LearningInv
<1> QED
  BY LearningBegins, LearningKept, LearningSound, PTL DEF LearningSpec

------------------------------------------------------------------------------
(* EmojiLearning.  Both copies of the document fit what has happened: its  *)
(* messages are distinct ones up to the last it counted, its reactions     *)
(* those it has seen, and once more those that a merge has struck          *)
(* (CountsFit); and it knows of every call that was made (CallsFit).       *)

Progress == {"none", "running", "complete", "partial", "failed"}
Documents ==
  [uses : Nat, messages : Nat, reactions : Nat, recent : SUBSET Uses, history : SUBSET Uses,
   last : Nat, day : Nat, assessed : Nat, safetyAt : Int, meaningAt : Int, meaningUses : Nat,
   approved : BOOLEAN, approvedAt : Int, managed : BOOLEAN, blocked : BOOLEAN,
   disabled : BOOLEAN, meaning : {"none", "inferred", "manual"},
   backfill : Progress, attemptedAt : Int]

\* Of an emoji's counts, of the calls made for it and of its meaning, d and e say the same.
SameCounts(d, e) ==
  /\ e.uses = d.uses /\ e.messages = d.messages /\ e.reactions = d.reactions
  /\ e.recent = d.recent /\ e.history = d.history /\ e.last = d.last
SameCalls(d, e) ==
  /\ e.day = d.day /\ e.assessed = d.assessed /\ e.safetyAt = d.safetyAt
  /\ e.meaningAt = d.meaningAt /\ e.meaningUses = d.meaningUses
SameMeaning(d, e) == e.disabled = d.disabled /\ e.meaning = d.meaning

Same(d, e) == e \in Documents /\ SameCounts(d, e) /\ SameCalls(d, e) /\ SameMeaning(d, e)

\* Updates that neither count nor call.
LEMMA SameNotes ==
  ASSUME NEW d \in Documents
  PROVE  /\ Same(d, d)
         /\ \A b \in BOOLEAN : Same(d, [d EXCEPT !.managed = b]) /\ Same(d, [d EXCEPT !.blocked = b])
         /\ \A b \in BOOLEAN, t \in Int : Same(d, [d EXCEPT !.approved = b, !.approvedAt = t])
         /\ \A s \in Progress : Same(d, [d EXCEPT !.backfill = s])
         /\ \A s \in Progress, t \in Int : Same(d, [d EXCEPT !.backfill = s, !.attemptedAt = t])
<1>1. Same(d, d)
  BY DEF Same, SameCounts, SameCalls, SameMeaning
<1>2. ASSUME NEW b \in BOOLEAN PROVE Same(d, [d EXCEPT !.managed = b])
  BY DEF Same, SameCounts, SameCalls, SameMeaning, Documents
<1>3. ASSUME NEW b \in BOOLEAN PROVE Same(d, [d EXCEPT !.blocked = b])
  BY DEF Same, SameCounts, SameCalls, SameMeaning, Documents
<1>4. ASSUME NEW s \in Progress PROVE Same(d, [d EXCEPT !.backfill = s])
  BY DEF Same, SameCounts, SameCalls, SameMeaning, Documents
<1>5. ASSUME NEW b \in BOOLEAN, NEW t \in Int PROVE Same(d, [d EXCEPT !.approved = b, !.approvedAt = t])
  BY DEF Same, SameCounts, SameCalls, SameMeaning, Documents
<1>6. ASSUME NEW s \in Progress, NEW t \in Int PROVE Same(d, [d EXCEPT !.backfill = s, !.attemptedAt = t])
  BY DEF Same, SameCounts, SameCalls, SameMeaning, Documents
<1> QED
  BY <1>1, <1>2, <1>3, <1>4, <1>5, <1>6

\* A use is counted; what the history showed is merged.
CountsAre(d, e, a, m, r, n, R, H) ==
  /\ e \in Documents /\ SameCalls(d, e) /\ SameMeaning(d, e)
  /\ e.uses = a /\ e.messages = m /\ e.reactions = r /\ e.last = n /\ e.recent = R /\ e.history = H

LEMMA UseChanges ==
  ASSUME NEW d \in Documents, NEW a \in Nat, NEW m \in Nat, NEW r \in Nat, NEW n \in Nat,
         NEW S \in SUBSET Uses
  PROVE  CountsAre(d, [d EXCEPT !.uses = a, !.recent = S, !.messages = m, !.reactions = r, !.last = n],
                   a, m, r, n, S, d.history)
  BY DEF CountsAre, SameCalls, SameMeaning, Documents

LEMMA MergeChanges ==
  ASSUME NEW d \in Documents, NEW a \in Nat, NEW m \in Nat, NEW r \in Nat, NEW n \in Nat,
         NEW S \in SUBSET Uses
  PROVE  CountsAre(d, [d EXCEPT !.messages = m, !.reactions = r, !.uses = a, !.last = n, !.history = S],
                   a, m, r, n, d.recent, S)
  BY DEF CountsAre, SameCalls, SameMeaning, Documents

\* A call is reserved.
CallsAre(d, e, day, n, s, m) ==
  /\ e \in Documents /\ SameCounts(d, e) /\ SameMeaning(d, e)
  /\ e.day = day /\ e.assessed = n /\ e.safetyAt = s /\ e.meaningAt = m

LEMMA CallChanges ==
  ASSUME NEW d \in Documents, NEW y \in Nat, NEW n \in Nat, NEW t \in Int, NEW u \in Nat
  PROVE  /\ CallsAre(d, [d EXCEPT !.day = y, !.assessed = n], y, n, d.safetyAt, d.meaningAt)
         /\ CallsAre(d, [[d EXCEPT !.day = y, !.assessed = n] EXCEPT !.safetyAt = t],
                     y, n, t, d.meaningAt)
         /\ CallsAre(d, [[d EXCEPT !.day = y, !.assessed = n] EXCEPT !.meaningAt = t, !.meaningUses = u],
                     y, n, d.safetyAt, t)
<1>1. PICK c : c = [d EXCEPT !.day = y, !.assessed = n]
  OBVIOUS
<1>2. /\ c \in Documents /\ SameCounts(d, c) /\ SameMeaning(d, c)
      /\ c.day = y /\ c.assessed = n /\ c.safetyAt = d.safetyAt /\ c.meaningAt = d.meaningAt
  BY <1>1 DEF SameCounts, SameMeaning, Documents
<1>3. CallsAre(d, [c EXCEPT !.safetyAt = t], y, n, t, d.meaningAt)
  BY <1>2 DEF CallsAre, SameCounts, SameMeaning, Documents
<1>4. CallsAre(d, [c EXCEPT !.meaningAt = t, !.meaningUses = u], y, n, d.safetyAt, t)
  BY <1>2 DEF CallsAre, SameCounts, SameMeaning, Documents
<1>5. CallsAre(d, c, y, n, d.safetyAt, d.meaningAt)
  BY <1>2 DEF CallsAre
<1> QED
  BY <1>1, <1>3, <1>4, <1>5, Zenon

\* The meaning is changed.
Says(d, e, b, m) ==
  e \in Documents /\ SameCounts(d, e) /\ SameCalls(d, e) /\ e.disabled = b /\ e.meaning = m

LEMMA MeaningChanges ==
  ASSUME NEW d \in Documents, NEW b \in BOOLEAN, NEW m \in {"none", "inferred", "manual"}
  PROVE  /\ Says(d, [d EXCEPT !.meaning = m], d.disabled, m)
         /\ Says(d, [d EXCEPT !.meaning = m, !.disabled = b], b, m)
<1>1. Says(d, [d EXCEPT !.meaning = m], d.disabled, m)
  BY DEF Says, SameCounts, SameCalls, Documents
<1>2. Says(d, [d EXCEPT !.meaning = m, !.disabled = b], b, m)
  BY DEF Says, SameCounts, SameCalls, Documents
<1> QED
  BY <1>1, <1>2

\* A bounded set of natural numbers has a greatest one.
LEMMA LargestOf ==
  ASSUME NEW n \in Nat, NEW A, \A i \in A : i \in Nat /\ i <= n, A # {}
  PROVE  Max(A) \in A /\ Max(A) \in Nat /\ \A y \in A : Max(A) >= y
<1> DEFINE T == {n - i : i \in A}
           Below == OpToRel(<, Nat)
<1>1. T \subseteq Nat /\ T # {}
  <2>1. \A i \in A : n - i \in Nat
    OBVIOUS
  <2> QED
    BY <2>1
<1>2. \A x, y \in Nat : <<x, y>> \in Below <=> x < y
  BY DEF OpToRel
<1>3. IsWellFoundedOn(Below, Nat)
  BY NatLessThanWellFounded
<1> HIDE DEF Below, T
<1>4. PICK t \in T : \A u \in T : ~ (<<u, t>> \in Below)
  BY <1>1, <1>3, WFMin
<1>5. \A u \in T : t <= u
  <2>1. \A u \in T : u \in Nat /\ t \in Nat /\ ~ (u < t)
    BY <1>1, <1>2, <1>4, Zenon
  <2> QED
    BY <2>1
<1>6. PICK i \in A : t = n - i
  BY DEF T
<1>7. \A j \in A : n - i <= n - j /\ j \in Nat /\ i \in Nat
  <2> SUFFICES ASSUME NEW j \in A PROVE n - i <= n - j /\ j \in Nat /\ i \in Nat
    OBVIOUS
  <2>1. n - j \in T
    BY DEF T
  <2> QED
    BY <1>5, <1>6, <2>1
<1>8. \A j \in A : i >= j
  BY <1>7
<1>9. Max(A) \in A /\ \A y \in A : Max(A) >= y
  BY <1>8 DEF Max
<1> QED
  BY <1>9

LEMMA LargerOf ==
  ASSUME NEW a \in Nat, NEW b \in Nat
  PROVE  Max({a, b}) \in Nat /\ Max({a, b}) \in {a, b} /\ Max({a, b}) >= a /\ Max({a, b}) >= b
<1>1. (\A i \in {a, b} : i \in Nat /\ i <= a + b) /\ a + b \in Nat /\ {a, b} # {}
  OBVIOUS
<1> QED
  BY <1>1, LargestOf

------------------------------------------------------------------------------
(* The counts.                                                             *)

MessagesTo(H, n) == {u \in H : u.kind = "message" /\ u.post <= n}
Reactions(S) == OfKind("reaction", S)
Seen(d, D) == Reactions(d.recent \cup d.history \cup D)
CountedAgain(d, D) == Reactions(d.recent \cap D)

\* What d counts, happened; what was struck from the history may have been counted again.
CountsFit(d, H, D) ==
  /\ d.recent \cup d.history \subseteq H
  /\ d.messages <= Cardinality(MessagesTo(H, d.last))
  /\ d.reactions <= Cardinality(Seen(d, D)) + Cardinality(CountedAgain(d, D))
  /\ d.uses <= d.messages + d.reactions

\* The uses and, of them, the reactions that were struck.
Happenings(H, D) == IsFiniteSet(H) /\ H \subseteq Uses /\ D \subseteq Reactions(H)

LEMMA SomeOfThem ==
  ASSUME NEW H, NEW D, Happenings(H, D), NEW d, d.recent \cup d.history \subseteq H
  PROVE  /\ \A S : S \subseteq H => IsFiniteSet(S) /\ Cardinality(S) \in Nat /\ Cardinality(S) <= Cardinality(H)
         /\ \A n : MessagesTo(H, n) \subseteq H
         /\ Seen(d, D) \subseteq H /\ CountedAgain(d, D) \subseteq D /\ D \subseteq H
<1>1. \A S : S \subseteq H => IsFiniteSet(S) /\ Cardinality(S) \in Nat /\ Cardinality(S) <= Cardinality(H)
  BY FS_Subset, FS_CardinalityType DEF Happenings
<1>2. /\ \A n : MessagesTo(H, n) \subseteq H
      /\ Seen(d, D) \subseteq H /\ CountedAgain(d, D) \subseteq D /\ D \subseteq H
  BY DEF Happenings, MessagesTo, Seen, CountedAgain, Reactions, OfKind
<1> QED
  BY <1>1, <1>2

LEMMA CountsGrow ==
  ASSUME NEW H, NEW D, Happenings(H, D), NEW H2, NEW D2, Happenings(H2, D2), H \subseteq H2, D \subseteq D2,
         NEW d \in Documents, CountsFit(d, H, D)
  PROVE  CountsFit(d, H2, D2)
<1>1. d.recent \cup d.history \subseteq H /\ d.recent \cup d.history \subseteq H2
  BY DEF CountsFit
<1>2. /\ MessagesTo(H, d.last) \subseteq MessagesTo(H2, d.last) /\ Seen(d, D) \subseteq Seen(d, D2)
      /\ CountedAgain(d, D) \subseteq CountedAgain(d, D2)
  BY DEF MessagesTo, Seen, CountedAgain, Reactions, OfKind
<1>3. /\ IsFiniteSet(MessagesTo(H2, d.last)) /\ IsFiniteSet(Seen(d, D2)) /\ IsFiniteSet(CountedAgain(d, D2))
  <2>1. CountedAgain(d, D2) \subseteq H2 /\ Seen(d, D2) \subseteq H2 /\ MessagesTo(H2, d.last) \subseteq H2
    BY <1>1, SomeOfThem
  <2> QED
    BY <1>1, <2>1, SomeOfThem
<1>4. PICK a \in Nat, b \in Nat, c \in Nat :
        /\ a = Cardinality(MessagesTo(H2, d.last)) /\ b = Cardinality(Seen(d, D2))
        /\ c = Cardinality(CountedAgain(d, D2))
  BY <1>3, FS_CardinalityType
<1>5. PICK a0 \in Nat, b0 \in Nat, c0 \in Nat :
        /\ a0 = Cardinality(MessagesTo(H, d.last)) /\ b0 = Cardinality(Seen(d, D))
        /\ c0 = Cardinality(CountedAgain(d, D)) /\ a0 <= a /\ b0 <= b /\ c0 <= c
  BY <1>2, <1>3, <1>4, FS_Subset, FS_CardinalityType
<1>6. d.messages \in Nat /\ d.reactions \in Nat /\ d.messages <= a0 /\ d.reactions <= b0 + c0
  BY <1>5 DEF CountsFit, Documents
<1>7. d.messages <= a /\ d.reactions <= b + c
  BY <1>5, <1>6
<1> QED
  BY <1>1, <1>4, <1>7 DEF CountsFit

LEMMA CountsAreReal ==
  ASSUME NEW H, NEW D, Happenings(H, D), NEW d \in Documents, CountsFit(d, H, D)
  PROVE  d.uses <= Cardinality(H) + Cardinality(D)
<1>1. d.recent \cup d.history \subseteq H
  BY DEF CountsFit
<1> DEFINE M == OfKind("message", H)
           R == Reactions(H)
<1>2. /\ MessagesTo(H, d.last) \subseteq M /\ Seen(d, D) \subseteq R /\ CountedAgain(d, D) \subseteq D
      /\ M \subseteq H /\ R \subseteq H /\ M \cap R = {} /\ D \subseteq H
  BY <1>1 DEF MessagesTo, Seen, CountedAgain, Reactions, OfKind, Happenings
<1> HIDE DEF M, R
<1>3. IsFiniteSet(H) /\ IsFiniteSet(M) /\ IsFiniteSet(R) /\ IsFiniteSet(D)
  BY <1>2, FS_Subset DEF Happenings
<1>4. PICK h \in Nat, m \in Nat, r \in Nat, k \in Nat :
        h = Cardinality(H) /\ m = Cardinality(M) /\ r = Cardinality(R) /\ k = Cardinality(D)
  BY <1>3, FS_CardinalityType
<1>5. m + r <= h
  <2>1. Cardinality(M \cap R) = 0
    BY <1>2, FS_EmptySet
  <2>2. Cardinality(M \cup R) = m + r - 0
    BY <1>3, <1>4, <2>1, FS_Union
  <2>3. Cardinality(M \cup R) <= h
    BY <1>2, <1>3, <1>4, FS_Subset
  <2> QED
    BY <1>4, <2>2, <2>3
<1>6. PICK a \in Nat, b \in Nat, c \in Nat :
        /\ a = Cardinality(MessagesTo(H, d.last)) /\ b = Cardinality(Seen(d, D))
        /\ c = Cardinality(CountedAgain(d, D)) /\ a <= m /\ b <= r /\ c <= k
  BY <1>2, <1>3, <1>4, FS_Subset, FS_CardinalityType
<1>7. /\ d.messages \in Nat /\ d.reactions \in Nat /\ d.uses \in Nat
      /\ d.messages <= a /\ d.reactions <= b + c /\ d.uses <= d.messages + d.reactions
  BY <1>6 DEF CountsFit, Documents
<1>8. d.uses <= h + k
  BY <1>4, <1>5, <1>6, <1>7
<1> QED
  BY <1>4, <1>8

LEMMA AddedOne ==
  ASSUME NEW S, NEW T, IsFiniteSet(T), NEW u, u \notin S, S \cup {u} \subseteq T
  PROVE  Cardinality(S) \in Nat /\ Cardinality(T) \in Nat /\ Cardinality(S) + 1 <= Cardinality(T)
<1>1. IsFiniteSet(S) /\ IsFiniteSet(S \cup {u})
  BY FS_Subset
<1>2. PICK s \in Nat, t \in Nat : s = Cardinality(S) /\ t = Cardinality(T)
  BY <1>1, FS_CardinalityType
<1>3. Cardinality(S \cup {u}) = s + 1
  BY <1>1, <1>2, FS_AddElement
<1>4. Cardinality(S \cup {u}) <= t
  BY <1>2, FS_Subset
<1> QED
  BY <1>2, <1>3, <1>4

\* A use that has not been counted and is counted now.
LEMMA UseFits ==
  ASSUME NEW H, NEW D, Happenings(H, D), NEW d \in Documents, CountsFit(d, H, D),
         NEW u \in H, ~ Counted(d, u)
  PROVE  LET e == WithUse(d, u)
         IN  /\ e \in Documents /\ CountsFit(e, H, D) /\ d.uses <= e.uses
             /\ SameCalls(d, e) /\ SameMeaning(d, e)
<1>1. u \in Uses /\ u.kind \in {"message", "reaction"} /\ u.post \in Nat /\ d.last \in Nat
  BY EmojiAssumption DEF Happenings, Uses, Documents
<1>2. PICK a, m, r, n, S :
        /\ a = d.uses + 1 /\ S = d.recent \cup {u}
        /\ m = (IF u.kind = "message" THEN d.messages + 1 ELSE d.messages)
        /\ r = (IF u.kind = "message" THEN d.reactions ELSE d.reactions + 1)
        /\ n = (IF u.kind = "message" THEN Max({d.last, u.post}) ELSE d.last)
  OBVIOUS
<1>3. /\ d.uses \in Nat /\ d.messages \in Nat /\ d.reactions \in Nat /\ d.recent \in SUBSET Uses
      /\ d.history \in SUBSET Uses
  BY DEF Documents
<1>4. Max({d.last, u.post}) \in Nat /\ Max({d.last, u.post}) >= d.last /\ Max({d.last, u.post}) >= u.post
  BY <1>1, LargerOf
<1>5. /\ a \in Nat /\ m \in Nat /\ r \in Nat /\ n \in Nat /\ S \in SUBSET Uses
  BY <1>1, <1>2, <1>3, <1>4
<1>6. PICK e : e = [d EXCEPT !.uses = a, !.recent = S, !.messages = m, !.reactions = r, !.last = n]
  OBVIOUS
<1>7. CountsAre(d, e, a, m, r, n, S, d.history)
  BY <1>5, <1>6, UseChanges
<1>8. WithUse(d, u) = e
  BY <1>2, <1>6 DEF WithUse
<1>9. /\ e.recent = S /\ e.history = d.history /\ e.uses = a /\ e.messages = m /\ e.reactions = r
      /\ e.last = n /\ e \in Documents /\ SameCalls(d, e) /\ SameMeaning(d, e)
  BY <1>7 DEF CountsAre
<1>10. /\ d.recent \cup d.history \subseteq H /\ d.messages <= Cardinality(MessagesTo(H, d.last))
       /\ d.reactions <= Cardinality(Seen(d, D)) + Cardinality(CountedAgain(d, D))
       /\ d.uses <= d.messages + d.reactions
  BY DEF CountsFit
<1>11. e.recent \cup e.history \subseteq H
  BY <1>2, <1>9, <1>10
<1>12. /\ IsFiniteSet(MessagesTo(H, n)) /\ IsFiniteSet(MessagesTo(H, d.last)) /\ IsFiniteSet(D)
       /\ IsFiniteSet(Seen(d, D)) /\ IsFiniteSet(CountedAgain(d, D))
       /\ IsFiniteSet(Seen(e, D)) /\ IsFiniteSet(CountedAgain(e, D))
  <2>1. MessagesTo(H, n) \subseteq H /\ MessagesTo(H, d.last) \subseteq H /\ D \subseteq H
    BY <1>10, SomeOfThem
  <2>2. Seen(d, D) \subseteq H /\ CountedAgain(d, D) \subseteq D
    BY <1>10, SomeOfThem
  <2>3. Seen(e, D) \subseteq H /\ CountedAgain(e, D) \subseteq D
    BY <1>11, SomeOfThem
  <2>4. IsFiniteSet(H)
    BY DEF Happenings
  <2> QED
    BY <2>1, <2>2, <2>3, <2>4, FS_Subset
<1>13. PICK b \in Nat, b2 \in Nat, c \in Nat, c2 \in Nat, k \in Nat, k2 \in Nat :
        /\ b = Cardinality(Seen(d, D)) /\ c = Cardinality(CountedAgain(d, D))
        /\ b2 = Cardinality(Seen(e, D)) /\ c2 = Cardinality(CountedAgain(e, D))
        /\ k = Cardinality(MessagesTo(H, d.last)) /\ k2 = Cardinality(MessagesTo(H, n))
  BY <1>12, FS_CardinalityType
<1>14. b <= b2 /\ c <= c2
  <2>1. Seen(d, D) \subseteq Seen(e, D) /\ CountedAgain(d, D) \subseteq CountedAgain(e, D)
    BY <1>2, <1>9 DEF Seen, CountedAgain, Reactions, OfKind
  <2> QED
    BY <1>12, <1>13, <2>1, FS_Subset
<1>15. CASE u.kind = "message"
  <2>1. m = d.messages + 1 /\ r = d.reactions /\ n >= d.last /\ n >= u.post /\ ~ (d.last >= u.post)
    BY <1>2, <1>4, <1>15 DEF Counted
  <2>2. u \notin MessagesTo(H, d.last) /\ u \in MessagesTo(H, n)
    BY <1>1, <1>15, <2>1 DEF MessagesTo
  <2>3. MessagesTo(H, d.last) \subseteq MessagesTo(H, n)
    <3> SUFFICES ASSUME NEW v \in H, v.kind = "message", v.post <= d.last PROVE v.post <= n
      BY DEF MessagesTo
    <3>1. v.post \in Nat
      BY EmojiAssumption DEF Happenings, Uses
    <3> QED
      BY <1>1, <1>5, <2>1, <3>1
  <2>4. k + 1 <= k2
    BY <1>12, <1>13, <2>2, <2>3, AddedOne
  <2>5. m <= k2 /\ r <= b2 + c2 /\ a <= m + r
    BY <1>2, <1>3, <1>10, <1>13, <1>14, <2>1, <2>4
  <2> QED
    BY <1>8, <1>9, <1>11, <1>13, <1>2, <1>3, <2>5 DEF CountsFit
<1>16. CASE u.kind = "reaction"
  <2>1. m = d.messages /\ r = d.reactions + 1 /\ n = d.last /\ u \notin d.recent \cup d.history
    BY <1>2, <1>16 DEF Counted
  <2>2. b2 + c2 >= b + c + 1
    <3>1. CASE u \in D
      <4>1. u \notin CountedAgain(d, D) /\ CountedAgain(d, D) \cup {u} \subseteq CountedAgain(e, D)
        BY <1>2, <1>9, <1>16, <2>1, <3>1 DEF CountedAgain, Reactions, OfKind
      <4>2. c + 1 <= c2
        BY <1>12, <1>13, <4>1, AddedOne
      <4> QED
        BY <1>13, <1>14, <4>2
    <3>2. CASE u \notin D
      <4>1. u \notin Seen(d, D) /\ Seen(d, D) \cup {u} \subseteq Seen(e, D)
        BY <1>2, <1>9, <1>16, <2>1, <3>2 DEF Seen, Reactions, OfKind
      <4>2. b + 1 <= b2
        BY <1>12, <1>13, <4>1, AddedOne
      <4> QED
        BY <1>13, <1>14, <4>2
    <3> QED
      BY <3>1, <3>2
  <2>3. m <= k2 /\ r <= b2 + c2 /\ a <= m + r
    BY <1>2, <1>3, <1>10, <1>13, <1>14, <2>1, <2>2
  <2> QED
    BY <1>8, <1>9, <1>11, <1>13, <1>2, <1>3, <2>3 DEF CountsFit
<1> QED
  BY <1>1, <1>15, <1>16

\* What a scan found is merged; reactions it did not find again are struck.
LEMMA MergeFits ==
  ASSUME NEW H, NEW D, Happenings(H, D), NEW d \in Documents, CountsFit(d, H, D),
         NEW F \in SUBSET H, F # {},
         NEW D2, D2 = D \cup OfKind("reaction", d.history \ (F \cup d.recent))
  PROVE  LET e == Merged(d, F)
         IN  /\ e \in Documents /\ CountsFit(e, H, D2) /\ d.uses <= e.uses
             /\ SameCalls(d, e) /\ SameMeaning(d, e) /\ Happenings(H, D2)
<1> DEFINE fm == OfKind("message", F)
           fr == OfKind("reaction", F)
           posts == {d.last} \cup {u.post : u \in fm}
<1>1. /\ d.recent \cup d.history \subseteq H /\ d.messages <= Cardinality(MessagesTo(H, d.last))
      /\ d.reactions <= Cardinality(Seen(d, D)) + Cardinality(CountedAgain(d, D))
      /\ d.uses <= d.messages + d.reactions
  BY DEF CountsFit
<1>2. Happenings(H, D2)
  BY <1>1 DEF Happenings, Reactions, OfKind
<1>3. /\ d.uses \in Nat /\ d.messages \in Nat /\ d.reactions \in Nat /\ d.recent \in SUBSET Uses
      /\ d.history \in SUBSET Uses /\ d.last \in Nat
  BY DEF Documents
<1>4. fm \subseteq H /\ fr \subseteq H /\ F \subseteq Uses
  BY DEF OfKind, Happenings
<1>5. PICK mc \in Nat, rc \in Nat : mc = Cardinality(fm) /\ rc = Cardinality(fr)
  BY <1>4, FS_Subset, FS_CardinalityType DEF Happenings
<1>6. PICK n \in Nat : n = Max(posts) /\ n >= d.last /\ \A u \in fm : u.post <= n
  <2>1. \A u \in fm : u.post \in Nat /\ u.post <= Posts
    BY <1>4, EmojiAssumption DEF OfKind, Uses
  <2>2. Posts \in Nat /\ d.last + Posts \in Nat
    BY <1>3, EmojiAssumption
  <2>3. \A i \in posts : i \in Nat /\ i <= d.last + Posts
    BY <1>3, <2>1, <2>2
  <2>4. posts # {} /\ d.last \in posts /\ \A u \in fm : u.post \in posts
    OBVIOUS
  <2> HIDE DEF posts
  <2>5. Max(posts) \in Nat /\ \A y \in posts : Max(posts) >= y
    BY <2>2, <2>3, <2>4, LargestOf
  <2> QED
    BY <2>1, <2>4, <2>5
<1>7. PICK m \in Nat : m = Max({d.messages, mc}) /\ m >= d.messages /\ m \in {d.messages, mc}
  BY <1>3, LargerOf
<1>8. PICK r \in Nat : r = Max({d.reactions, rc}) /\ r >= d.reactions /\ r \in {d.reactions, rc}
  BY <1>3, LargerOf
<1>9. PICK a \in Nat : a = Max({d.uses, m + r}) /\ a >= d.uses /\ a \in {d.uses, m + r}
  BY <1>3, LargerOf
<1>10. PICK e : e = [d EXCEPT !.messages = m, !.reactions = r, !.uses = a, !.last = n, !.history = F]
  OBVIOUS
<1>11. CountsAre(d, e, a, m, r, n, d.recent, F)
  BY <1>4, <1>10, MergeChanges
<1>12. Merged(d, F) = e
  BY <1>5, <1>6, <1>7, <1>8, <1>9, <1>10 DEF Merged
<1>13. /\ e.recent = d.recent /\ e.history = F /\ e.uses = a /\ e.messages = m /\ e.reactions = r
       /\ e.last = n /\ e \in Documents /\ SameCalls(d, e) /\ SameMeaning(d, e)
  BY <1>11 DEF CountsAre
<1>14. e.recent \cup e.history \subseteq H
  BY <1>1, <1>13
<1>15. /\ IsFiniteSet(MessagesTo(H, n)) /\ IsFiniteSet(Seen(e, D2)) /\ IsFiniteSet(CountedAgain(e, D2))
  <2>1. (\A k : MessagesTo(H, k) \subseteq H) /\ Seen(e, D2) \subseteq H /\ CountedAgain(e, D2) \subseteq D2 /\ D2 \subseteq H
    BY <1>2, <1>14 DEF MessagesTo, Seen, CountedAgain, Reactions, OfKind, Happenings
  <2>2. MessagesTo(H, n) \subseteq H /\ CountedAgain(e, D2) \subseteq H
    BY <2>1
  <2> QED
    BY <2>1, <2>2, FS_Subset DEF Happenings
<1> HIDE DEF fm, fr, posts
<1>16. PICK b2 \in Nat, c2 \in Nat, k2 \in Nat :
        b2 = Cardinality(Seen(e, D2)) /\ c2 = Cardinality(CountedAgain(e, D2)) /\ k2 = Cardinality(MessagesTo(H, n))
  BY <1>15, FS_CardinalityType
<1>17. d.messages <= k2 /\ mc <= k2
  <2>1. MessagesTo(H, d.last) \subseteq MessagesTo(H, n)
    <3> SUFFICES ASSUME NEW v \in H, v.kind = "message", v.post <= d.last PROVE v.post <= n
      BY DEF MessagesTo
    <3>1. v.post \in Nat
      BY EmojiAssumption DEF Happenings, Uses
    <3> QED
      BY <1>3, <1>6, <3>1
  <2>2. fm \subseteq MessagesTo(H, n)
    BY <1>4, <1>6 DEF fm, OfKind, MessagesTo
  <2>3. PICK k \in Nat : k = Cardinality(MessagesTo(H, d.last)) /\ k <= k2
    BY <1>15, <1>16, <2>1, FS_Subset, FS_CardinalityType
  <2>4. mc <= k2
    BY <1>5, <1>15, <1>16, <2>2, FS_Subset
  <2> QED
    BY <1>1, <1>3, <2>3, <2>4
<1>18. d.reactions <= b2 + c2 /\ rc <= b2
  <2>1. Seen(d, D) \subseteq Seen(e, D2) /\ CountedAgain(d, D) \subseteq CountedAgain(e, D2) /\ fr \subseteq Seen(e, D2)
    BY <1>13 DEF Seen, CountedAgain, Reactions, OfKind, fr
  <2>2. PICK b \in Nat, c \in Nat : /\ b = Cardinality(Seen(d, D)) /\ c = Cardinality(CountedAgain(d, D))
                                   /\ b <= b2 /\ c <= c2
    BY <1>15, <1>16, <2>1, FS_Subset, FS_CardinalityType
  <2>3. rc <= b2
    BY <1>5, <1>15, <1>16, <2>1, FS_Subset
  <2> QED
    BY <1>1, <1>3, <2>2, <2>3
<1>19. m <= k2 /\ r <= b2 + c2 /\ a <= m + r
  BY <1>1, <1>3, <1>5, <1>7, <1>8, <1>9, <1>16, <1>17, <1>18
<1>20. CountsFit(e, H, D2)
  BY <1>13, <1>14, <1>16, <1>19 DEF CountsFit
<1> QED
  BY <1>2, <1>9, <1>12, <1>13, <1>20

------------------------------------------------------------------------------
(* The calls of the vision model.                                          *)

DayOf(h) == h \div DayHours
AskedRows == [reason : {"safety", "meaning", "manual"}, at : Nat]
CallsOn(A, y) == {i \in DOMAIN A : DayOf(A[i].at) = y}

Apart(A, reason, gap) ==
  \A i \in DOMAIN A : \A j \in 1 .. i - 1 :
    A[i].reason = reason /\ A[j].reason = reason => A[i].at - A[j].at >= gap

\* The calls until the hour h keep to their limits.
AskedFits(A, h) ==
  /\ A \in Seq(AskedRows) /\ \A i \in DOMAIN A : A[i].at <= h
  /\ \A y : Cardinality(CallsOn(A, y)) <= Assessments
  /\ Apart(A, "safety", DayHours) /\ Apart(A, "meaning", WeekHours)

\* d knows of them.
CallsFit(d, A, h) ==
  /\ d.day <= DayOf(h) /\ d.safetyAt <= h /\ d.meaningAt <= h
  /\ Cardinality(CallsOn(A, DayOf(h))) <= (IF d.day = DayOf(h) THEN d.assessed ELSE 0)
  /\ \A i \in DOMAIN A : A[i].reason = "safety" => A[i].at <= d.safetyAt
  /\ \A i \in DOMAIN A : A[i].reason = "meaning" => A[i].at <= d.meaningAt

LEMMA DaysGrow ==
  ASSUME NEW a \in Nat, NEW b \in Nat, a <= b
  PROVE  DayOf(a) \in Nat /\ DayOf(b) \in Nat /\ DayOf(a) <= DayOf(b)
<1>1. PICK k \in Nat : k = DayHours /\ k > 0
  BY EmojiAssumption
<1>2. PICK p \in Nat, q \in Nat : p = a \div k /\ q = b \div k
  BY <1>1
<1>3. k * p <= a /\ a < k * p + k /\ k * q <= b /\ b < k * q + k
  BY <1>1, <1>2
<1>4. p <= q
  <2> SUFFICES ASSUME p >= q + 1 PROVE FALSE
    BY <1>2
  <2>1. k * p >= k * (q + 1)
    BY <1>1
  <2>2. k * (q + 1) = k * q + k
    BY <1>1
  <2> QED
    BY <1>1, <1>3, <2>1, <2>2
<1> QED
  BY <1>1, <1>2, <1>4 DEF DayOf

LEMMA CallsAreRows ==
  ASSUME NEW A \in Seq(AskedRows)
  PROVE  DOMAIN A = 1 .. Len(A) /\ Len(A) \in Nat /\ \A i \in DOMAIN A : A[i] \in AskedRows /\ A[i].at \in Nat
<1>1. DOMAIN A = 1 .. Len(A) /\ Len(A) \in Nat /\ \A i \in DOMAIN A : A[i] \in AskedRows
  OBVIOUS
<1> QED
  BY <1>1 DEF AskedRows

LEMMA CallsAreCounted ==
  ASSUME NEW A \in Seq(AskedRows), NEW y
  PROVE  IsFiniteSet(CallsOn(A, y)) /\ Cardinality(CallsOn(A, y)) \in Nat
<1>1. IsFiniteSet(1 .. Len(A)) /\ CallsOn(A, y) \subseteq 1 .. Len(A)
  BY FS_Interval DEF CallsOn
<1> QED
  BY <1>1, FS_Subset, FS_CardinalityType

\* B is A with the call c.
OneMore(A, c, B) == A \in Seq(AskedRows) /\ c \in AskedRows /\ B = Append(A, c)

LEMMA OneMoreCall ==
  ASSUME NEW A \in Seq(AskedRows), NEW c \in AskedRows, NEW B, B = Append(A, c)
  PROVE  /\ B \in Seq(AskedRows) /\ DOMAIN B = 1 .. Len(A) + 1 /\ DOMAIN A = 1 .. Len(A)
         /\ Len(A) \in Nat /\ B[Len(A) + 1] = c /\ \A i \in DOMAIN A : B[i] = A[i]
  OBVIOUS

LEMMA OneMoreCounted ==
  ASSUME NEW A, NEW c, NEW B, OneMore(A, c, B), NEW y
  PROVE  /\ y = DayOf(c.at) => Cardinality(CallsOn(B, y)) = Cardinality(CallsOn(A, y)) + 1
         /\ y # DayOf(c.at) => Cardinality(CallsOn(B, y)) = Cardinality(CallsOn(A, y))
<1>1. /\ DOMAIN B = 1 .. Len(A) + 1 /\ DOMAIN A = 1 .. Len(A) /\ A \in Seq(AskedRows)
      /\ Len(A) \in Nat /\ B[Len(A) + 1] = c /\ \A i \in DOMAIN A : B[i] = A[i]
  BY OneMoreCall DEF OneMore
<1>2. PICK n \in Nat : n = Cardinality(CallsOn(A, y)) /\ IsFiniteSet(CallsOn(A, y))
  BY <1>1, CallsAreCounted
<1>3. CASE y = DayOf(c.at)
  <2>1. CallsOn(B, y) = CallsOn(A, y) \cup {Len(A) + 1} /\ Len(A) + 1 \notin CallsOn(A, y)
    BY <1>1, <1>3 DEF CallsOn
  <2>2. Cardinality(CallsOn(B, y)) = n + 1
    BY <1>2, <2>1, FS_AddElement
  <2> QED
    BY <1>2, <1>3, <2>2
<1>4. CASE y # DayOf(c.at)
  <2>1. CallsOn(B, y) = CallsOn(A, y)
    BY <1>1, <1>4 DEF CallsOn
  <2> QED
    BY <1>2, <1>4, <2>1
<1> QED
  BY <1>3, <1>4

LEMMA StillApart ==
  ASSUME NEW A \in Seq(AskedRows), NEW c \in AskedRows, NEW B, B = Append(A, c), NEW reason, NEW gap \in Nat,
         Apart(A, reason, gap),
         c.reason = reason => \A i \in DOMAIN A : A[i].reason = reason => c.at - A[i].at >= gap
  PROVE  Apart(B, reason, gap)
<1>1. /\ DOMAIN B = 1 .. Len(A) + 1 /\ DOMAIN A = 1 .. Len(A)
      /\ Len(A) \in Nat /\ B[Len(A) + 1] = c /\ \A i \in DOMAIN A : B[i] = A[i]
  BY OneMoreCall
<1> SUFFICES ASSUME NEW i \in DOMAIN B, NEW j \in 1 .. i - 1, B[i].reason = reason, B[j].reason = reason
             PROVE  B[i].at - B[j].at >= gap
  BY DEF Apart
<1>2. PICK n \in Nat : n = Len(A)
  BY <1>1
<1>3. i \in 1 .. n + 1 /\ j \in 1 .. n /\ j \in DOMAIN A /\ B[j] = A[j]
  BY <1>1, <1>2
<1>4. CASE i = n + 1
  <2>1. B[i] = c
    BY <1>1, <1>2, <1>4
  <2> QED
    BY <1>3, <2>1
<1>5. CASE i # n + 1
  <2>1. i \in DOMAIN A /\ B[i] = A[i]
    BY <1>1, <1>2, <1>3, <1>5
  <2> QED
    BY <1>3, <2>1 DEF Apart
<1> QED
  BY <1>4, <1>5

\* A call that is reserved, before it has begun and then.
LEMMA CallFits ==
  ASSUME NEW d \in Documents, NEW h \in Nat, NEW A, AskedFits(A, h), CallsFit(d, A, h),
         NEW paid \in Nat, paid = (IF d.day = DayOf(h) THEN d.assessed ELSE 0), paid < Assessments,
         NEW reason \in {"safety", "meaning", "manual"},
         reason = "safety" => h - d.safetyAt >= DayHours,
         reason = "meaning" => h - d.meaningAt >= WeekHours,
         NEW e, NEW s, NEW m, CallsAre(d, e, DayOf(h), paid + 1, s, m),
         s \in {d.safetyAt, h}, m \in {d.meaningAt, h},
         reason = "safety" => s = h, reason = "meaning" => m = h
  PROVE  LET B == Append(A, [reason |-> reason, at |-> h])
         IN  AskedFits(B, h) /\ CallsFit(e, B, h) /\ CallsFit(e, A, h)
<1>0. PICK c : c = [reason |-> reason, at |-> h]
  OBVIOUS
<1>1. c = [reason |-> reason, at |-> h] /\ c.reason = reason /\ c.at = h
  BY <1>0
<1>2. c \in AskedRows /\ A \in Seq(AskedRows)
  BY <1>1 DEF AskedRows, AskedFits
<1>3. PICK B : B = Append(A, c)
  OBVIOUS
<1>4. /\ B \in Seq(AskedRows) /\ DOMAIN B = 1 .. Len(A) + 1 /\ DOMAIN A = 1 .. Len(A)
      /\ Len(A) \in Nat /\ B[Len(A) + 1] = c /\ \A i \in DOMAIN A : B[i] = A[i]
  BY <1>2, <1>3, OneMoreCall
<1>5. ASSUME NEW y
      PROVE  /\ y = DayOf(h) => Cardinality(CallsOn(B, y)) = Cardinality(CallsOn(A, y)) + 1
             /\ y # DayOf(h) => Cardinality(CallsOn(B, y)) = Cardinality(CallsOn(A, y))
  <2>1. /\ y = DayOf(c.at) => Cardinality(CallsOn(B, y)) = Cardinality(CallsOn(A, y)) + 1
        /\ y # DayOf(c.at) => Cardinality(CallsOn(B, y)) = Cardinality(CallsOn(A, y))
    <3>1. OneMore(A, c, B)
      BY <1>2, <1>3 DEF OneMore
    <3> QED
      BY <3>1, OneMoreCounted
  <2>2. c.at = h
    BY <1>1
  <2> QED
    BY <2>1, <2>2
<1>6. \A y : Cardinality(CallsOn(A, y)) \in Nat
  BY <1>2, CallsAreCounted
<1>7. Cardinality(CallsOn(A, DayOf(h))) <= paid
  BY DEF CallsFit
<1>8. /\ d.safetyAt \in Int /\ d.meaningAt \in Int /\ d.safetyAt <= h /\ d.meaningAt <= h
      /\ DayOf(h) \in Nat /\ Assessments \in Nat /\ DayHours \in Nat /\ WeekHours \in Nat
  BY DaysGrow, EmojiAssumption DEF Documents, CallsFit
<1>9. \A i \in DOMAIN A : A[i] \in AskedRows /\ A[i].at \in Nat
  BY <1>2, CallsAreRows
<1>10. /\ \A i \in DOMAIN A : A[i].at <= h
       /\ \A i \in DOMAIN A : A[i].reason = "safety" => A[i].at <= d.safetyAt
       /\ \A i \in DOMAIN A : A[i].reason = "meaning" => A[i].at <= d.meaningAt
  BY DEF AskedFits, CallsFit
<1>11. \A i \in DOMAIN B : i \in DOMAIN A \/ B[i] = c
  BY <1>4
<1>12. AskedFits(B, h)
  <2>1. \A i \in DOMAIN B : B[i].at <= h
    BY <1>1, <1>4, <1>10, <1>11
  <2>2. ASSUME NEW y PROVE Cardinality(CallsOn(B, y)) <= Assessments
    <3>1. Cardinality(CallsOn(A, y)) <= Assessments
      BY DEF AskedFits
    <3> QED
      BY <1>5, <1>6, <1>7, <1>8, <3>1
  <2>3. Apart(B, "safety", DayHours)
    <3>1. c.reason = "safety" => \A i \in DOMAIN A : A[i].reason = "safety" => c.at - A[i].at >= DayHours
      BY <1>1, <1>8, <1>9, <1>10
    <3> QED
      BY <1>2, <1>3, <1>8, <3>1, StillApart DEF AskedFits
  <2>4. Apart(B, "meaning", WeekHours)
    <3>1. c.reason = "meaning" => \A i \in DOMAIN A : A[i].reason = "meaning" => c.at - A[i].at >= WeekHours
      BY <1>1, <1>8, <1>9, <1>10
    <3> QED
      BY <1>2, <1>3, <1>8, <3>1, StillApart DEF AskedFits
  <2> QED
    BY <1>4, <2>1, <2>2, <2>3, <2>4 DEF AskedFits
<1>13. /\ e.day = DayOf(h) /\ e.assessed = paid + 1 /\ e.safetyAt = s /\ e.meaningAt = m
       /\ d.safetyAt <= s /\ s <= h /\ d.meaningAt <= m /\ m <= h /\ s \in Int /\ m \in Int
  BY <1>8 DEF CallsAre
<1>14. /\ \A i \in DOMAIN A : A[i].reason = "safety" => A[i].at <= s
       /\ \A i \in DOMAIN A : A[i].reason = "meaning" => A[i].at <= m
  BY <1>8, <1>9, <1>10, <1>13
<1>15. CallsFit(e, A, h)
  <2>1. Cardinality(CallsOn(A, DayOf(h))) <= e.assessed
    BY <1>6, <1>7, <1>13
  <2> QED
    BY <1>8, <1>13, <1>14, <2>1 DEF CallsFit
<1>16. CallsFit(e, B, h)
  <2>1. Cardinality(CallsOn(B, DayOf(h))) <= e.assessed
    BY <1>5, <1>6, <1>7, <1>13
  <2>2. /\ \A i \in DOMAIN B : B[i].reason = "safety" => B[i].at <= s
        /\ \A i \in DOMAIN B : B[i].reason = "meaning" => B[i].at <= m
    BY <1>1, <1>4, <1>11, <1>13, <1>14
  <2> QED
    BY <1>8, <1>13, <2>1, <2>2 DEF CallsFit
<1> QED
  BY <1>1, <1>3, <1>12, <1>15, <1>16

\* An hour later.
LEMMA CallsStand ==
  ASSUME NEW d \in Documents, NEW h \in Nat, NEW A, AskedFits(A, h), CallsFit(d, A, h)
  PROVE  AskedFits(A, h + 1) /\ CallsFit(d, A, h + 1)
<1>0. A \in Seq(AskedRows) /\ \A i \in DOMAIN A : A[i].at <= h
  BY DEF AskedFits
<1>1. DOMAIN A = 1 .. Len(A) /\ \A i \in DOMAIN A : A[i].at \in Nat /\ A[i].at <= h
  BY <1>0, CallsAreRows
<1>2. AskedFits(A, h + 1)
  BY <1>0, <1>1 DEF AskedFits
<1>3. PICK y \in Nat, z \in Nat : y = DayOf(h) /\ z = DayOf(h + 1) /\ y <= z
  BY DaysGrow
<1>4. \A i \in DOMAIN A : DayOf(A[i].at) \in Nat /\ DayOf(A[i].at) <= y
  BY <1>1, <1>3, DaysGrow
<1>5. /\ d.day \in Nat /\ d.safetyAt \in Int /\ d.meaningAt \in Int
      /\ d.day <= y /\ d.safetyAt <= h /\ d.meaningAt <= h
  BY <1>3 DEF Documents, CallsFit
<1>6. Cardinality(CallsOn(A, z)) <= (IF d.day = z THEN d.assessed ELSE 0)
  <2>1. CASE y = z
    BY <1>3, <2>1 DEF CallsFit
  <2>2. CASE y # z
    <3>1. CallsOn(A, z) = {}
      BY <1>3, <1>4, <2>2 DEF CallsOn
    <3>2. Cardinality(CallsOn(A, z)) = 0
      BY <3>1, FS_EmptySet
    <3>3. d.day # z
      BY <1>3, <1>5, <2>2
    <3> QED
      BY <3>2, <3>3
  <2> QED
    BY <2>1, <2>2
<1>7. CallsFit(d, A, h + 1)
  BY <1>3, <1>5, <1>6 DEF CallsFit
<1> QED
  BY <1>2, <1>7

------------------------------------------------------------------------------
(* The processes.                                                          *)

\* Where a process may be, but for the live worker that records a use.
OffRecord == {"idle", "read", "import", "safety", "pool", "meaning", "assess", "validate", "scan",
              "merge", "note", "failed"}
DoingRows ==
  [at : OffRecord \cup {"record"}, use : Uses \cup {NoUse},
   seen : [wanted : BOOLEAN, approvedAt : Int, spoken : BOOLEAN], found : SUBSET Uses]

\* What a process has at hand has happened; a document it wants to import still says so.
RowFits(r, H, n) ==
  r.found \subseteq H /\ (r.at = "record" => r.use \in H) /\ (r.seen.wanted => n >= UsesNeeded)

DoingFits(f, H, n) == f \in [Processes -> DoingRows] /\ \A p \in Processes : RowFits(f[p], H, n)

LEMMA SightOf ==
  ASSUME NEW d \in Documents
  PROVE  /\ Sight(d) \in [wanted : BOOLEAN, approvedAt : Int, spoken : BOOLEAN]
         /\ Sight(d).wanted => d.uses >= UsesNeeded
<1>1. LongAgo \in Int /\ d.approvedAt \in Int
  BY EmojiAssumption DEF LongAgo, Documents
<1>2. PICK t \in Int : t = IF d.approved THEN d.approvedAt ELSE LongAgo
  BY <1>1
<1>3. PICK w, k : w = (d.uses >= UsesNeeded /\ ~ d.managed) /\ k = (d.disabled \/ d.meaning = "manual")
                  /\ w \in BOOLEAN /\ k \in BOOLEAN
  BY Zenon
<1>4. Sight(d) = [wanted |-> w, approvedAt |-> t, spoken |-> k]
  BY <1>2, <1>3, Zenon DEF Sight
<1>5. Sight(d) \in [wanted : BOOLEAN, approvedAt : Int, spoken : BOOLEAN] /\ Sight(d).wanted = w
  BY <1>2, <1>3, <1>4
<1>6. w => d.uses >= UsesNeeded
  BY <1>3, Zenon
<1> QED
  BY <1>5, <1>6

LEMMA EmptyFits ==
  /\ EmptyDocument \in Documents /\ EmptyDocument.uses = 0
  /\ CountsFit(EmptyDocument, {}, {})
  /\ CallsFit(EmptyDocument, <<>>, 0) /\ ~ EmptyDocument.disabled
<1>1. PICK t \in Int : t = LongAgo /\ t <= 0
  BY EmojiAssumption DEF LongAgo
<1>2. PICK no : no = FALSE
  OBVIOUS
<1>3. EmptyDocument =
        [uses |-> 0, messages |-> 0, reactions |-> 0, recent |-> {}, history |-> {}, last |-> 0,
         day |-> 0, assessed |-> 0, safetyAt |-> t, meaningAt |-> t, meaningUses |-> 0,
         approved |-> no, approvedAt |-> t, managed |-> no,
         blocked |-> no, disabled |-> no, meaning |-> "none",
         backfill |-> "none", attemptedAt |-> t]
  BY <1>1, <1>2, Zenon DEF EmptyDocument
<1>4. EmptyDocument \in Documents
  BY <1>1, <1>2, <1>3 DEF Documents, Progress
<1>5. /\ EmptyDocument.uses = 0 /\ EmptyDocument.messages = 0 /\ EmptyDocument.reactions = 0
      /\ EmptyDocument.recent = {} /\ EmptyDocument.history = {} /\ EmptyDocument.last = 0
      /\ EmptyDocument.day = 0 /\ EmptyDocument.assessed = 0 /\ EmptyDocument.safetyAt = t
      /\ EmptyDocument.meaningAt = t
  BY <1>3
<1>6. ~ EmptyDocument.disabled
  BY <1>2, <1>3
<1>7. CountsFit(EmptyDocument, {}, {})
  <2>1. MessagesTo({}, 0) = {} /\ Seen(EmptyDocument, {}) = {} /\ CountedAgain(EmptyDocument, {}) = {}
    BY <1>5 DEF MessagesTo, Seen, CountedAgain, Reactions, OfKind
  <2>2. /\ Cardinality(MessagesTo({}, 0)) = 0 /\ Cardinality(Seen(EmptyDocument, {})) = 0
        /\ Cardinality(CountedAgain(EmptyDocument, {})) = 0
    BY <2>1, FS_EmptySet
  <2> QED
    BY <1>5, <2>2 DEF CountsFit
<1>8. CallsFit(EmptyDocument, <<>>, 0)
  <2>1. DayOf(0) = 0
    BY EmojiAssumption DEF DayOf
  <2>2. CallsOn(<<>>, 0) = {} /\ DOMAIN <<>> = {}
    BY DEF CallsOn
  <2>3. Cardinality(CallsOn(<<>>, 0)) = 0
    BY <2>2, FS_EmptySet
  <2> QED
    BY <1>1, <1>5, <2>1, <2>2, <2>3 DEF CallsFit
<1> QED
  BY <1>4, <1>5, <1>6, <1>7, <1>8

LEMMA RestingFits ==
  Resting \in DoingRows /\ Resting.at = "idle" /\ \A H, n : RowFits(Resting, H, n)
<1>1. PICK s : s = Sight(EmptyDocument)
  OBVIOUS
<1>2. s \in [wanted : BOOLEAN, approvedAt : Int, spoken : BOOLEAN] /\ ~ s.wanted
  <2>1. ~ (0 >= UsesNeeded)
    BY EmojiAssumption
  <2>2. s.wanted => 0 >= UsesNeeded
    BY <1>1, EmptyFits, SightOf
  <2> QED
    BY <1>1, <2>1, <2>2, EmptyFits, SightOf
<1>3. Resting = [at |-> "idle", use |-> NoUse, seen |-> s, found |-> {}]
  BY <1>1 DEF Resting
<1>4. Resting \in DoingRows
  BY <1>2, <1>3 DEF DoingRows, OffRecord
<1>5. Resting.at = "idle" /\ Resting.seen = s /\ Resting.found = {}
  BY <1>3
<1> QED
  BY <1>2, <1>4, <1>5 DEF RowFits

LEMMA RowsGrow ==
  ASSUME NEW f, NEW H, NEW H2, NEW n \in Nat, NEW n2 \in Nat, DoingFits(f, H, n), H \subseteq H2, n <= n2
  PROVE  DoingFits(f, H2, n2)
<1>1. UsesNeeded \in Nat
  BY EmojiAssumption
<1>2. \A p \in Processes : RowFits(f[p], H2, n2)
  <2> SUFFICES ASSUME NEW p \in Processes PROVE RowFits(f[p], H2, n2)
    OBVIOUS
  <2>1. RowFits(f[p], H, n)
    BY DEF DoingFits
  <2>2. n >= UsesNeeded => n2 >= UsesNeeded
    BY <1>1
  <2> QED
    BY <2>1, <2>2 DEF RowFits
<1> QED
  BY <1>2 DEF DoingFits

\* One process changes.
LEMMA ProcessChanges ==
  ASSUME NEW f, NEW H, NEW n, DoingFits(f, H, n), NEW p \in Processes, NEW r \in DoingRows, RowFits(r, H, n)
  PROVE  DoingFits([f EXCEPT ![p] = r], H, n)
  BY DEF DoingFits

\* It goes somewhere else, or rests.
LEMMA LeavesFits ==
  ASSUME NEW H, NEW n, DoingFits(doing, H, n), NEW p \in Processes, NEW l \in OffRecord,
         Goes(p, l) \/ Rests(p) \/ Leaves(p, l)
  PROVE  DoingFits(doing', H, n)
<1>1. CASE doing' = [doing EXCEPT ![p] = Resting]
  BY <1>1, RestingFits, ProcessChanges
<1>2. CASE doing' = [doing EXCEPT ![p].at = l]
  <2>1. doing[p] \in DoingRows /\ RowFits(doing[p], H, n) /\ doing \in [Processes -> DoingRows]
    BY DEF DoingFits
  <2>2. PICK r : r = [doing[p] EXCEPT !.at = l]
    OBVIOUS
  <2>3. r \in DoingRows /\ r.at = l /\ r.found = doing[p].found /\ r.seen = doing[p].seen
    BY <2>1, <2>2 DEF DoingRows
  <2>4. l # "record"
    BY DEF OffRecord
  <2>5. RowFits(r, H, n)
    BY <2>1, <2>3, <2>4 DEF RowFits
  <2>6. doing' = [doing EXCEPT ![p] = r]
    BY <1>2, <2>1, <2>2
  <2> QED
    BY <2>3, <2>5, <2>6, ProcessChanges
<1> QED
  BY <1>1, <1>2 DEF Goes, Rests, Leaves

------------------------------------------------------------------------------
(* The invariant.                                                          *)

DocFits(d, H, D, A, h) ==
  d \in Documents /\ CountsFit(d, H, D) /\ CallsFit(d, A, h) /\ (d.disabled => d.meaning = "none")

EmojiIInv ==
  /\ hours \in Nat /\ surprises \in Nat /\ hours <= surprises
  /\ Happenings(happened, dropped) /\ usesQueue \in Seq(happened)
  /\ DoingFits(doing, happened, learned.uses) /\ AskedFits(asked, hours)
  /\ DocFits(learned, happened, dropped, asked, hours)
  /\ DocFits(written, happened, dropped, asked, hours)

LEMMA EmojiSound == EmojiIInv => EmojiInv
<1> SUFFICES ASSUME EmojiIInv PROVE EmojiInv
  OBVIOUS
<1>1. ASSUME NEW d \in {learned, written}
      PROVE  /\ d \in Documents /\ CountsFit(d, happened, dropped) /\ (d.disabled => d.meaning = "none")
  BY DEF EmojiIInv, DocFits
<1>2. EmojiTypeOK
  <2>1. hours \in 0 .. surprises /\ happened \subseteq Uses
    BY DEF EmojiIInv, Happenings
  <2>2. ASSUME NEW d \in {learned, written}
        PROVE  /\ d.recent \cup d.history \subseteq happened /\ d.uses \in Nat
               /\ d.meaning \in {"none", "inferred", "manual"}
    BY <1>1 DEF CountsFit, Documents
  <2> QED
    BY <2>1, <2>2 DEF EmojiTypeOK
<1>3. UsesAreReal
  BY <1>1, CountsAreReal DEF UsesAreReal, EmojiIInv
<1>4. AssessmentsAreBounded
  <2>1. AskedFits(asked, hours)
    BY DEF EmojiIInv
  <2>2. \A y : Cardinality({i \in DOMAIN asked : asked[i].at \div DayHours = y}) <= Assessments
    BY <2>1 DEF AskedFits, CallsOn, DayOf
  <2> QED
    BY <2>1, <2>2 DEF AssessmentsAreBounded, AskedFits, Apart
<1>5. ForgottenIsGone
  BY <1>1 DEF ForgottenIsGone
<1> QED
  BY <1>2, <1>3, <1>4, <1>5 DEF EmojiInv

LEMMA EmojiBegins == EmojiInit => EmojiIInv
<1> SUFFICES ASSUME EmojiInit PROVE EmojiIInv
  OBVIOUS
<1>1. /\ hours = 0 /\ happened = {} /\ dropped = {} /\ learned = EmptyDocument /\ written = EmptyDocument
      /\ usesQueue = <<>> /\ doing = [p \in Processes |-> Resting] /\ asked = <<>> /\ surprises = 0
  BY DEF EmojiInit
<1>2. Happenings({}, {})
  BY FS_EmptySet DEF Happenings, Reactions, OfKind
<1>3. DoingFits(doing, happened, 0)
  BY <1>1, RestingFits DEF DoingFits
<1>4. AskedFits(<<>>, 0)
  <2>1. \A y : CallsOn(<<>>, y) = {}
    BY DEF CallsOn
  <2>2. \A y : Cardinality(CallsOn(<<>>, y)) = 0
    BY <2>1, FS_EmptySet
  <2>3. Assessments \in Nat
    BY EmojiAssumption
  <2> QED
    BY <2>2, <2>3 DEF AskedFits, Apart
<1>5. DocFits(EmptyDocument, {}, {}, <<>>, 0)
  BY EmptyFits DEF DocFits
<1>6. usesQueue \in Seq(happened)
  BY <1>1
<1> QED
  BY <1>1, <1>2, <1>3, <1>4, <1>5, <1>6, EmptyFits DEF EmojiIInv

\* A document e that fits takes the place of the one that was learned, or only of the one
\* that was written; what a merge strikes is struck in any case.
LEMMA DocumentsFit ==
  ASSUME EmojiIInv, NEW e, Happenings(happened, dropped'), dropped \subseteq dropped',
         DocFits(e, happened, dropped', asked, hours), e.uses >= learned.uses,
         UNCHANGED <<hours, happened, usesQueue, asked>>,
         surprises' \in Nat, surprises <= surprises',
         learned' \in {learned, e}, written' \in {written, e},
         DoingFits(doing', happened, learned.uses)
  PROVE  EmojiIInv'
<1>1. /\ hours \in Nat /\ surprises \in Nat /\ hours <= surprises /\ Happenings(happened, dropped)
      /\ usesQueue \in Seq(happened) /\ AskedFits(asked, hours)
      /\ DocFits(learned, happened, dropped, asked, hours)
      /\ DocFits(written, happened, dropped, asked, hours)
  BY DEF EmojiIInv
<1>2. /\ DocFits(learned, happened, dropped', asked, hours)
      /\ DocFits(written, happened, dropped', asked, hours)
  BY <1>1, CountsGrow DEF DocFits
<1>3. learned.uses \in Nat /\ e.uses \in Nat
  BY <1>1 DEF DocFits, Documents
<1>4. learned'.uses \in Nat /\ learned.uses <= learned'.uses
  BY <1>3
<1>5. DoingFits(doing', happened', learned'.uses)
  BY <1>3, <1>4, RowsGrow
<1>6. DocFits(learned', happened', dropped', asked', hours') /\ DocFits(written', happened', dropped', asked', hours')
  BY <1>2
<1>7. hours' \in Nat /\ hours' <= surprises'
  BY <1>1
<1> QED
  BY <1>1, <1>5, <1>6, <1>7 DEF EmojiIInv

\* An update of a process that does not go on to record a use.
UpdateTo(p, e) == \E l \in OffRecord, onError \in OffRecord : Update(p, e, l, onError)

LEMMA UpdateKeeps ==
  ASSUME EmojiIInv, NEW p \in Processes, NEW e, UpdateTo(p, e),
         Happenings(happened, dropped'), dropped \subseteq dropped',
         DocFits(e, happened, dropped', asked, hours), e.uses >= learned.uses,
         UNCHANGED <<hours, happened, usesQueue, asked>>
  PROVE  EmojiIInv'
<1>1. PICK l \in OffRecord, x \in OffRecord : Update(p, e, l, x)
  BY DEF UpdateTo
<1>2. surprises \in Nat /\ DoingFits(doing, happened, learned.uses)
  BY DEF EmojiIInv
<1>3. /\ learned' \in {learned, e} /\ written' \in {written, e}
      /\ surprises' \in {surprises, surprises + 1}
      /\ Leaves(p, l) \/ Leaves(p, x)
  BY <1>1 DEF Update, Surprise
<1>4. DoingFits(doing', happened, learned.uses)
  BY <1>2, <1>3, LeavesFits
<1>5. surprises' \in Nat /\ surprises <= surprises'
  BY <1>2, <1>3
<1> QED
  BY <1>3, <1>4, <1>5, DocumentsFit

\* The document that was learned fits, and so does one that counts and calls as it does.
LEMMA SameFits ==
  ASSUME EmojiIInv, NEW e, Same(learned, e)
  PROVE  DocFits(e, happened, dropped, asked, hours) /\ e.uses >= learned.uses
<1>1. DocFits(learned, happened, dropped, asked, hours)
  BY DEF EmojiIInv
<1>2. e.uses \in Nat
  BY DEF Same, Documents
<1>3. CountsFit(e, happened, dropped)
  BY <1>1 DEF Same, SameCounts, DocFits, CountsFit, Seen, CountedAgain
<1>4. CallsFit(e, asked, hours)
  BY <1>1 DEF Same, SameCalls, DocFits, CallsFit
<1>5. e.disabled => e.meaning = "none"
  BY <1>1 DEF Same, SameMeaning, DocFits
<1> QED
  BY <1>2, <1>3, <1>4, <1>5 DEF Same, SameCounts, DocFits

LEMMA SaysFits ==
  ASSUME EmojiIInv, NEW e, NEW b, NEW m, Says(learned, e, b, m), b => m = "none"
  PROVE  DocFits(e, happened, dropped, asked, hours) /\ e.uses >= learned.uses
<1>1. DocFits(learned, happened, dropped, asked, hours)
  BY DEF EmojiIInv
<1>2. e.uses \in Nat
  BY DEF Says, Documents
<1>3. CountsFit(e, happened, dropped)
  BY <1>1 DEF Says, SameCounts, DocFits, CountsFit, Seen, CountedAgain
<1>4. CallsFit(e, asked, hours)
  BY <1>1 DEF Says, SameCalls, DocFits, CallsFit
<1>5. e.disabled => e.meaning = "none"
  BY DEF Says
<1> QED
  BY <1>2, <1>3, <1>4, <1>5 DEF Says, SameCounts, DocFits

\* What counts as e counts and otherwise says what was learned.
LEMMA CountedFits ==
  ASSUME EmojiIInv, NEW e \in Documents, NEW D, CountsFit(e, happened, D), SameCalls(learned, e),
         SameMeaning(learned, e)
  PROVE  DocFits(e, happened, D, asked, hours)
<1>1. DocFits(learned, happened, dropped, asked, hours)
  BY DEF EmojiIInv
<1>2. CallsFit(e, asked, hours)
  BY <1>1 DEF SameCalls, DocFits, CallsFit
<1>3. e.disabled => e.meaning = "none"
  BY <1>1 DEF SameMeaning, DocFits
<1> QED
  BY <1>2, <1>3 DEF DocFits

LEMMA LearnedFits ==
  ASSUME EmojiIInv
  PROVE  /\ learned \in Documents /\ CountsFit(learned, happened, dropped)
         /\ CallsFit(learned, asked, hours) /\ (learned.disabled => learned.meaning = "none")
         /\ Happenings(happened, dropped) /\ AskedFits(asked, hours) /\ hours \in Nat
         /\ DoingFits(doing, happened, learned.uses) /\ learned.uses \in Nat
  BY DEF EmojiIInv, DocFits, Documents

\* The labels of updates.
LEMMA Labels ==
  /\ "idle" \in OffRecord /\ "read" \in OffRecord /\ "pool" \in OffRecord /\ "meaning" \in OffRecord
  /\ "note" \in OffRecord /\ "failed" \in OffRecord /\ "scan" \in OffRecord /\ "import" \in OffRecord
  /\ "safety" \in OffRecord /\ "assess" \in OffRecord /\ "validate" \in OffRecord /\ "merge" \in OffRecord
  /\ \A p : AfterImport(p) \in OffRecord
  /\ Importers \subseteq Processes /\ "live" \in Processes /\ "backfill" \in Processes /\ "admin" \in Processes
  BY DEF OffRecord, AfterImport, Importers, Processes

LEMMA CountingKeeps == ASSUME EmojiIInv, RecordUse PROVE EmojiIInv'
<1>1. At("live", "record") /\ UNCHANGED <<hours, happened, dropped, usesQueue, asked>>
  BY DEF RecordUse, Others
<1>2. PICK u \in happened : u = doing["live"].use
  BY <1>1, LearnedFits, Labels DEF At, DoingFits, RowFits
<1>3. CASE Counted(learned, u)
  <2>1. UpdateTo("live", learned)
    BY <1>2, <1>3, Labels DEF RecordUse, UpdateTo
  <2>2. Same(learned, learned)
    BY LearnedFits DEF Same, SameCounts, SameCalls, SameMeaning
  <2>3. DocFits(learned, happened, dropped, asked, hours) /\ learned.uses >= learned.uses
    BY <2>2, SameFits
  <2> QED
    BY <1>1, <2>1, <2>3, UpdateKeeps, LearnedFits, Labels
<1>4. CASE ~ Counted(learned, u)
  <2>1. PICK e : e = WithUse(learned, u)
    OBVIOUS
  <2>2. UpdateTo("live", e)
    BY <1>2, <1>4, <2>1, Labels DEF RecordUse, UpdateTo
  <2>3. /\ e \in Documents /\ CountsFit(e, happened, dropped) /\ learned.uses <= e.uses
        /\ SameCalls(learned, e) /\ SameMeaning(learned, e)
    BY <1>4, <2>1, LearnedFits, UseFits
  <2>4. DocFits(e, happened, dropped, asked, hours)
    BY <2>3, CountedFits
  <2>5. e.uses >= learned.uses
    BY <2>3, LearnedFits DEF Documents
  <2> QED
    BY <1>1, <2>2, <2>4, <2>5, UpdateKeeps, LearnedFits, Labels
<1> QED
  BY <1>3, <1>4

\* The documents stay; a process goes on, or the queue moves.
LEMMA RowsKeep ==
  ASSUME EmojiIInv, UNCHANGED <<hours, happened, dropped, learned, written, asked>>,
         usesQueue' \in Seq(happened), surprises' \in Nat, surprises <= surprises',
         DoingFits(doing', happened, learned.uses)
  PROVE  EmojiIInv'
<1>1. hours' \in Nat /\ hours' <= surprises'
  BY DEF EmojiIInv
<1> QED
  BY <1>1 DEF EmojiIInv

\* What becomes of a row that goes to l with a use, with a look at the document, or with
\* what a scan found.
LEMMA RowThen ==
  ASSUME NEW f \in [Processes -> DoingRows], NEW p \in Processes, NEW l \in OffRecord \cup {"record"}
  PROVE  /\ \A v \in Uses : [f EXCEPT ![p].at = l, ![p].use = v] = [f EXCEPT ![p] = [f[p] EXCEPT !.at = l, !.use = v]]
         /\ \A v \in [wanted : BOOLEAN, approvedAt : Int, spoken : BOOLEAN] :
              [f EXCEPT ![p].at = l, ![p].seen = v] = [f EXCEPT ![p] = [f[p] EXCEPT !.at = l, !.seen = v]]
         /\ \A v \in SUBSET Uses : [f EXCEPT ![p].at = l, ![p].found = v] = [f EXCEPT ![p] = [f[p] EXCEPT !.at = l, !.found = v]]
<1>1. ASSUME NEW v \in Uses
      PROVE  [f EXCEPT ![p].at = l, ![p].use = v] = [f EXCEPT ![p] = [f[p] EXCEPT !.at = l, !.use = v]]
  BY DEF DoingRows
<1>2. ASSUME NEW v \in [wanted : BOOLEAN, approvedAt : Int, spoken : BOOLEAN]
      PROVE  [f EXCEPT ![p].at = l, ![p].seen = v] = [f EXCEPT ![p] = [f[p] EXCEPT !.at = l, !.seen = v]]
  BY DEF DoingRows
<1>3. ASSUME NEW v \in SUBSET Uses
      PROVE  [f EXCEPT ![p].at = l, ![p].found = v] = [f EXCEPT ![p] = [f[p] EXCEPT !.at = l, !.found = v]]
  BY DEF DoingRows
<1> QED
  BY <1>1, <1>2, <1>3

LEMMA UsesHappen == ASSUME EmojiIInv, NEW u \in Uses, UseEmoji(u) PROVE EmojiIInv'
<1>1. PICK H : H = happened \cup {u}
  OBVIOUS
<1>2. /\ happened' = H /\ UNCHANGED <<hours, dropped, learned, written, doing, asked>>
      /\ surprises' \in {surprises, surprises + 1} /\ usesQueue' \in {usesQueue, Append(usesQueue, u)}
  BY <1>1 DEF UseEmoji, Surprise
<1>3. /\ hours \in Nat /\ surprises \in Nat /\ hours <= surprises /\ usesQueue \in Seq(happened)
      /\ AskedFits(asked, hours) /\ Happenings(happened, dropped)
      /\ DoingFits(doing, happened, learned.uses) /\ learned.uses \in Nat
      /\ DocFits(learned, happened, dropped, asked, hours)
      /\ DocFits(written, happened, dropped, asked, hours)
  BY LearnedFits DEF EmojiIInv
<1>4. Happenings(H, dropped) /\ happened \subseteq H
  <2>1. IsFiniteSet(H)
    BY <1>1, <1>3, FS_AddElement DEF Happenings
  <2> QED
    BY <1>1, <1>3, <2>1 DEF Happenings, Reactions, OfKind
<1>5. DocFits(learned, H, dropped, asked, hours) /\ DocFits(written, H, dropped, asked, hours)
  BY <1>3, <1>4, CountsGrow DEF DocFits
<1>6. DoingFits(doing, H, learned.uses)
  BY <1>3, <1>4, RowsGrow
<1>7. usesQueue' \in Seq(H)
  <2>1. usesQueue \in Seq(H) /\ u \in H
    BY <1>1, <1>3
  <2>2. Append(usesQueue, u) \in Seq(H)
    BY <2>1
  <2> QED
    BY <1>2, <2>1, <2>2
<1>8. surprises' \in Nat /\ hours <= surprises'
  BY <1>2, <1>3
<1> QED
  BY <1>2, <1>3, <1>4, <1>5, <1>6, <1>7, <1>8 DEF EmojiIInv

LEMMA TakeKeeps == ASSUME EmojiIInv, TakeUse PROVE EmojiIInv'
<1>1. /\ UNCHANGED <<hours, happened, dropped, learned, written, asked, surprises>>
      /\ usesQueue # <<>> /\ usesQueue' = Tail(usesQueue)
  BY DEF TakeUse, Others
<1>2. /\ usesQueue \in Seq(happened) /\ surprises \in Nat /\ happened \subseteq Uses
      /\ DoingFits(doing, happened, learned.uses)
  BY DEF EmojiIInv, Happenings
<1>3. usesQueue' \in Seq(happened) /\ Head(usesQueue) \in happened
  BY <1>1, <1>2
<1>4. PICK u \in happened : u = Head(usesQueue)
  BY <1>3
<1>5. CASE doing' = doing
  BY <1>1, <1>2, <1>3, <1>5, RowsKeep
<1>6. CASE doing' = [doing EXCEPT !["live"].at = "record", !["live"].use = Head(usesQueue)]
  <2>0. PICK l \in OffRecord \cup {"record"} : l = "record"
    OBVIOUS
  <2>1. doing["live"] \in DoingRows /\ RowFits(doing["live"], happened, learned.uses) /\ doing \in [Processes -> DoingRows]
    BY <1>2, Labels DEF DoingFits
  <2>2. PICK r : r = [doing["live"] EXCEPT !.at = l, !.use = u]
    OBVIOUS
  <2>3. r \in DoingRows /\ r.use = u /\ r.found = doing["live"].found /\ r.seen = doing["live"].seen
    BY <1>2, <2>1, <2>2 DEF DoingRows
  <2>4. RowFits(r, happened, learned.uses)
    BY <2>1, <2>3 DEF RowFits
  <2>5. [doing EXCEPT !["live"].at = l, !["live"].use = u] = [doing EXCEPT !["live"] = r]
    BY <1>2, <2>1, <2>2, Labels, RowThen
  <2>6. doing' = [doing EXCEPT !["live"] = r]
    BY <1>4, <1>6, <2>0, <2>5, Zenon
  <2>7. DoingFits(doing', happened, learned.uses)
    BY <1>2, <2>3, <2>4, <2>6, ProcessChanges, Labels
  <2> QED
    BY <1>1, <1>2, <1>3, <2>7, RowsKeep
<1> QED
  BY <1>5, <1>6 DEF TakeUse

LEMMA ReadKeeps == ASSUME EmojiIInv, NEW p \in Importers, ReadDocument(p) PROVE EmojiIInv'
<1>1. UNCHANGED <<hours, happened, dropped, learned, written, asked, surprises, usesQueue>> /\ p \in Processes
  BY Labels DEF ReadDocument, Others
<1>2. /\ usesQueue' \in Seq(happened) /\ surprises \in Nat
      /\ DoingFits(doing, happened, learned.uses)
  BY <1>1 DEF EmojiIInv
<1>3. CASE Rests(p)
  <2>1. DoingFits(doing', happened, learned.uses)
    BY <1>1, <1>2, <1>3, LeavesFits, Labels
  <2> QED
    BY <1>1, <1>2, <2>1, RowsKeep
<1>4. CASE doing' = [doing EXCEPT ![p].at = "import", ![p].seen = Sight(learned)]
  <2>0. PICK l \in OffRecord : l = "import"
    BY Labels
  <2>1. doing[p] \in DoingRows /\ RowFits(doing[p], happened, learned.uses) /\ doing \in [Processes -> DoingRows]
    BY <1>1, <1>2 DEF DoingFits
  <2>2. PICK s \in [wanted : BOOLEAN, approvedAt : Int, spoken : BOOLEAN] :
          s = Sight(learned) /\ (s.wanted => learned.uses >= UsesNeeded)
    BY SightOf, LearnedFits
  <2>3. PICK r : r = [doing[p] EXCEPT !.at = l, !.seen = s]
    OBVIOUS
  <2>4. r \in DoingRows /\ r.at = l /\ r.found = doing[p].found /\ r.seen = s
    BY <2>1, <2>3 DEF DoingRows
  <2>5. RowFits(r, happened, learned.uses)
    <3>1. l # "record"
      BY DEF OffRecord
    <3> QED
      BY <2>1, <2>2, <2>4, <3>1 DEF RowFits
  <2>6. [doing EXCEPT ![p].at = l, ![p].seen = s] = [doing EXCEPT ![p] = r]
    BY <1>1, <2>1, <2>3, RowThen
  <2>7. doing' = [doing EXCEPT ![p] = r]
    BY <1>4, <2>0, <2>2, <2>6, Zenon
  <2>8. DoingFits(doing', happened, learned.uses)
    BY <1>1, <1>2, <2>4, <2>5, <2>7, ProcessChanges
  <2> QED
    BY <1>1, <1>2, <2>8, RowsKeep
<1> QED
  BY <1>3, <1>4 DEF ReadDocument

LEMMA ScanKeeps == ASSUME EmojiIInv, ScanHistory PROVE EmojiIInv'
<1>1. UNCHANGED <<hours, happened, dropped, learned, written, asked, surprises, usesQueue>>
  BY DEF ScanHistory, Others
<1>2. /\ usesQueue' \in Seq(happened) /\ surprises \in Nat /\ happened \subseteq Uses
      /\ DoingFits(doing, happened, learned.uses)
  BY <1>1 DEF EmojiIInv, Happenings
<1>3. PICK found \in SUBSET happened :
        doing' = [doing EXCEPT !["backfill"].at = "merge", !["backfill"].found = found]
  BY DEF ScanHistory
<1>4. PICK l \in OffRecord : l = "merge"
  BY Labels
<1>5. /\ doing["backfill"] \in DoingRows /\ RowFits(doing["backfill"], happened, learned.uses)
      /\ doing \in [Processes -> DoingRows]
  BY <1>2, Labels DEF DoingFits
<1>6. PICK r : r = [doing["backfill"] EXCEPT !.at = l, !.found = found]
  OBVIOUS
<1>7. r \in DoingRows /\ r.at = l /\ r.found = found /\ r.seen = doing["backfill"].seen
  BY <1>2, <1>5, <1>6 DEF DoingRows
<1>8. RowFits(r, happened, learned.uses)
  <2>1. l # "record"
    BY DEF OffRecord
  <2> QED
    BY <1>5, <1>7, <2>1 DEF RowFits
<1>9. [doing EXCEPT !["backfill"].at = l, !["backfill"].found = found] = [doing EXCEPT !["backfill"] = r]
  BY <1>2, <1>5, <1>6, RowThen, Labels
<1>10. doing' = [doing EXCEPT !["backfill"] = r]
  BY <1>3, <1>4, <1>9, Zenon
<1>11. DoingFits(doing', happened, learned.uses)
  BY <1>2, <1>7, <1>8, <1>10, ProcessChanges, Labels
<1> QED
  BY <1>1, <1>2, <1>11, RowsKeep

Reasons == {"safety", "meaning", "manual"}

\* A call that may be made, and what is saved of it before it begins.
LEMMA ReservedFits ==
  ASSUME EmojiIInv, NEW reason \in Reasons, MayAssess(reason),
         reason = "safety" => learned.uses >= UsesNeeded
  PROVE  LET e == Reserved(reason)
             B == Append(asked, [reason |-> reason, at |-> hours])
         IN  /\ DocFits(e, happened, dropped, asked, hours) /\ DocFits(e, happened, dropped, B, hours)
             /\ AskedFits(B, hours) /\ e.uses = learned.uses
<1>1. /\ learned \in Documents /\ CountsFit(learned, happened, dropped) /\ CallsFit(learned, asked, hours)
      /\ (learned.disabled => learned.meaning = "none") /\ AskedFits(asked, hours) /\ hours \in Nat
  BY LearnedFits
<1>2. PICK paid \in Nat, y \in Nat :
        /\ paid = (IF learned.day = DayOf(hours) THEN learned.assessed ELSE 0) /\ y = DayOf(hours)
        /\ Spent = paid /\ Today = y
  BY <1>1, DaysGrow DEF DayOf, Spent, Today, Documents
<1>3. /\ paid < Assessments
      /\ reason = "safety" => hours - learned.safetyAt >= DayHours
      /\ reason = "meaning" => hours - learned.meaningAt >= WeekHours
                               /\ learned.uses - learned.meaningUses >= UsesNeeded
  BY <1>2 DEF MayAssess
<1>4. PICK e : e = Reserved(reason)
  OBVIOUS
<1>5. PICK c : c = [learned EXCEPT !.day = y, !.assessed = paid + 1]
  OBVIOUS
<1>6. learned.uses \in Nat /\ learned.meaningUses \in Nat /\ UsesNeeded \in Nat \ {0} /\ c.uses = learned.uses
  BY <1>1, <1>5, EmojiAssumption DEF Documents
<1>7. \/ e = c /\ learned.uses = 0
      \/ e = [c EXCEPT !.safetyAt = hours] /\ reason = "safety"
      \/ e = [c EXCEPT !.meaningAt = hours, !.meaningUses = learned.uses] /\ reason # "safety"
  <2>1. CASE learned.uses = 0
    <3>1. reason # "safety"
      BY <1>6, <2>1
    <3> QED
      BY <1>2, <1>4, <1>5, <2>1, <3>1 DEF Reserved
  <2>2. CASE learned.uses # 0 /\ reason = "safety"
    BY <1>2, <1>4, <1>5, <2>2 DEF Reserved
  <2>3. CASE learned.uses # 0 /\ reason # "safety"
    BY <1>2, <1>4, <1>5, <1>6, <2>3 DEF Reserved
  <2> QED
    BY <2>1, <2>2, <2>3
<1>8. learned.uses = 0 => reason = "manual"
  BY <1>3, <1>6 DEF Reasons
<1>81. PICK n \in Nat, t \in Int : n = paid + 1 /\ t = hours
  BY <1>1
<1>82. /\ CallsAre(learned, [learned EXCEPT !.day = y, !.assessed = n], y, n, learned.safetyAt, learned.meaningAt)
       /\ CallsAre(learned, [[learned EXCEPT !.day = y, !.assessed = n] EXCEPT !.safetyAt = t],
                   y, n, t, learned.meaningAt)
       /\ CallsAre(learned, [[learned EXCEPT !.day = y, !.assessed = n]
                            EXCEPT !.meaningAt = t, !.meaningUses = learned.uses],
                   y, n, learned.safetyAt, t)
  BY <1>1, <1>6, CallChanges
<1>83. c = [learned EXCEPT !.day = y, !.assessed = n]
  BY <1>5, <1>81
<1>9. PICK s, m :
        /\ CallsAre(learned, e, y, paid + 1, s, m)
        /\ s \in {learned.safetyAt, hours} /\ m \in {learned.meaningAt, hours}
        /\ reason = "safety" => s = hours
        /\ reason = "meaning" => m = hours
  <2>1. CASE e = c /\ learned.uses = 0
    <3>1. CallsAre(learned, e, y, paid + 1, learned.safetyAt, learned.meaningAt)
      BY <1>81, <1>82, <1>83, <2>1, Zenon
    <3> QED
      BY <1>8, <2>1, <3>1
  <2>2. CASE e = [c EXCEPT !.safetyAt = hours] /\ reason = "safety"
    <3>1. CallsAre(learned, e, y, paid + 1, hours, learned.meaningAt)
      BY <1>81, <1>82, <1>83, <2>2, Zenon
    <3> QED
      BY <2>2, <3>1
  <2>3. CASE e = [c EXCEPT !.meaningAt = hours, !.meaningUses = learned.uses] /\ reason # "safety"
    <3>1. CallsAre(learned, e, y, paid + 1, learned.safetyAt, hours)
      BY <1>81, <1>82, <1>83, <2>3, Zenon
    <3> QED
      BY <2>3, <3>1
  <2> QED
    BY <1>7, <2>1, <2>2, <2>3
<1>10. PICK B : B = Append(asked, [reason |-> reason, at |-> hours])
  OBVIOUS
<1>11. AskedFits(B, hours) /\ CallsFit(e, B, hours) /\ CallsFit(e, asked, hours)
  BY <1>1, <1>2, <1>3, <1>9, <1>10, CallFits DEF Reasons
<1>12. e \in Documents /\ SameCounts(learned, e) /\ SameMeaning(learned, e)
  BY <1>9 DEF CallsAre
<1>13. CountsFit(e, happened, dropped) /\ e.uses = learned.uses /\ (e.disabled => e.meaning = "none")
  BY <1>1, <1>12 DEF SameCounts, SameMeaning, CountsFit, Seen, CountedAgain
<1>14. DocFits(e, happened, dropped, asked, hours) /\ DocFits(e, happened, dropped, B, hours)
  BY <1>11, <1>12, <1>13 DEF DocFits
<1> QED
  BY <1>4, <1>10, <1>11, <1>13, <1>14

\* The call begins.
LEMMA CallKeeps ==
  ASSUME EmojiIInv, NEW reason \in Reasons, MayAssess(reason),
         reason = "safety" => learned.uses >= UsesNeeded,
         NEW p \in Processes, NEW l \in OffRecord, Goes(p, l),
         learned' = Reserved(reason), written' = learned',
         asked' = Append(asked, [reason |-> reason, at |-> hours]),
         UNCHANGED <<hours, happened, dropped, usesQueue>>,
         surprises' \in Nat, surprises <= surprises'
  PROVE  EmojiIInv'
<1>1. /\ DocFits(learned', happened, dropped, asked', hours) /\ AskedFits(asked', hours)
      /\ learned'.uses = learned.uses
  BY ReservedFits
<1>2. DoingFits(doing', happened, learned.uses)
  BY LearnedFits, LeavesFits
<1>3. /\ hours \in Nat /\ hours <= surprises' /\ Happenings(happened, dropped) /\ usesQueue \in Seq(happened)
  BY DEF EmojiIInv
<1>4. DoingFits(doing', happened, learned'.uses)
  BY <1>1, <1>2
<1> QED
  BY <1>1, <1>3, <1>4 DEF EmojiIInv

LEMMA CallOrNotKeeps ==
  ASSUME EmojiIInv, NEW reason \in Reasons, reason = "safety" => learned.uses >= UsesNeeded,
         NEW p \in Processes, NEW l \in OffRecord, NEW x \in OffRecord, NEW y \in OffRecord,
         ReserveCall(p, reason, l, x, y), UNCHANGED <<hours, happened, dropped, usesQueue>>
  PROVE  EmojiIInv'
<1>1. surprises \in Nat /\ Happenings(happened, dropped)
  BY DEF EmojiIInv
<1>2. CASE MayAssess(reason) /\ learned' = Reserved(reason) /\ written' = learned' /\ Goes(p, l)
           /\ asked' = Append(asked, [reason |-> reason, at |-> hours]) /\ UNCHANGED surprises
  BY <1>1, <1>2, CallKeeps
<1>3. CASE /\ MayAssess(reason) /\ Surprise /\ written' \in {written, Reserved(reason)} /\ Leaves(p, y)
           /\ UNCHANGED <<learned, asked>>
  <2>1. PICK e : e = Reserved(reason)
    OBVIOUS
  <2>2. DocFits(e, happened, dropped, asked, hours) /\ e.uses = learned.uses /\ learned.uses \in Nat
    BY <1>3, <2>1, ReservedFits, LearnedFits
  <2>3. DoingFits(doing', happened, learned.uses)
    BY <1>3, LearnedFits, LeavesFits
  <2>4. surprises' \in Nat /\ surprises <= surprises' /\ e.uses >= learned.uses
    BY <1>1, <1>3, <2>2 DEF Surprise
  <2>5. learned' \in {learned, e} /\ written' \in {written, e}
    BY <1>3, <2>1
  <2> QED
    BY <1>1, <1>3, <2>2, <2>3, <2>4, <2>5, DocumentsFit
<1>4. CASE ~ MayAssess(reason) /\ Update(p, learned, x, y) /\ UNCHANGED asked
  <2>1. DocFits(learned, happened, dropped, asked, hours) /\ learned.uses >= learned.uses
    BY LearnedFits DEF DocFits
  <2>2. UpdateTo(p, learned)
    BY <1>4 DEF UpdateTo
  <2> QED
    BY <1>1, <1>4, <2>1, <2>2, UpdateKeeps
<1> QED
  BY <1>2, <1>3, <1>4 DEF ReserveCall

LEMMA TryKeeps == ASSUME EmojiIInv, NEW p \in Importers, TryImport(p) PROVE EmojiIInv'
<1>1. UNCHANGED <<hours, happened, dropped, usesQueue>> /\ p \in Processes /\ AfterImport(p) \in OffRecord
  BY Labels DEF TryImport, Others
<1>2. CASE doing[p].seen.wanted /\ ReserveCall(p, "safety", "safety", AfterImport(p), AfterImport(p))
  <2>1. RowFits(doing[p], happened, learned.uses)
    BY <1>1, LearnedFits DEF DoingFits
  <2>2. learned.uses >= UsesNeeded
    BY <1>2, <2>1 DEF RowFits
  <2>3. PICK reason \in Reasons : reason = "safety"
    BY DEF Reasons
  <2> QED
    BY <1>1, <1>2, <2>2, <2>3, CallOrNotKeeps, Labels
<1>3. CASE /\ Leaves(p, IF doing[p].seen.wanted THEN "pool" ELSE AfterImport(p))
           /\ UNCHANGED <<learned, written, asked, surprises>>
  <2>1. PICK l \in OffRecord : l = IF doing[p].seen.wanted THEN "pool" ELSE AfterImport(p)
    BY <1>1, Labels
  <2>2. DoingFits(doing', happened, learned.uses)
    BY <1>1, <1>3, <2>1, LearnedFits, LeavesFits
  <2>3. surprises \in Nat /\ usesQueue \in Seq(happened)
    BY DEF EmojiIInv
  <2> QED
    BY <1>1, <1>3, <2>2, <2>3, RowsKeep
<1> QED
  BY <1>2, <1>3 DEF TryImport

LEMMA InferKeeps == ASSUME EmojiIInv, InferMeaning PROVE EmojiIInv'
<1>1. UNCHANGED <<hours, happened, dropped, usesQueue>>
  BY DEF InferMeaning, Others
<1>2. CASE Rests("live") /\ UNCHANGED <<learned, written, asked, surprises>>
  <2>1. DoingFits(doing', happened, learned.uses)
    BY <1>2, LearnedFits, LeavesFits, Labels
  <2>2. surprises \in Nat /\ usesQueue \in Seq(happened)
    BY DEF EmojiIInv
  <2> QED
    BY <1>1, <1>2, <2>1, <2>2, RowsKeep
<1>3. CASE ReserveCall("live", "meaning", "assess", "idle", "idle")
  <2>1. PICK reason \in Reasons : reason = "meaning"
    BY DEF Reasons
  <2>2. reason # "safety"
    BY <2>1
  <2> QED
    BY <1>1, <1>3, <2>1, <2>2, CallOrNotKeeps, Labels
<1> QED
  BY <1>2, <1>3 DEF InferMeaning

LEMMA SetKeeps == ASSUME EmojiIInv, SetMeaning PROVE EmojiIInv'
<1>1. PICK reason \in Reasons : reason = "manual"
  BY DEF Reasons
<1>2. /\ MayAssess(reason) /\ learned' = Reserved(reason) /\ written' = learned' /\ Goes("admin", "validate")
      /\ asked' = Append(asked, [reason |-> reason, at |-> hours])
      /\ UNCHANGED <<hours, happened, dropped, usesQueue>> /\ surprises' = surprises + 1
  BY <1>1 DEF SetMeaning, Surprise
<1>3. surprises' \in Nat /\ surprises <= surprises'
  BY <1>2 DEF EmojiIInv
<1>4. reason # "safety"
  BY <1>1
<1> QED
  BY <1>2, <1>3, <1>4, CallKeeps, Labels

\* An update that counts and calls as before.
LEMMA SameKeeps ==
  ASSUME EmojiIInv, NEW p \in Processes, NEW e, UpdateTo(p, e), Same(learned, e),
         UNCHANGED <<hours, happened, dropped, usesQueue, asked>>
  PROVE  EmojiIInv'
<1>1. DocFits(e, happened, dropped, asked, hours) /\ e.uses >= learned.uses /\ Happenings(happened, dropped)
  BY SameFits, LearnedFits
<1> QED
  BY <1>1, UpdateKeeps

LEMMA SaysKeeps ==
  ASSUME EmojiIInv, NEW p \in Processes, NEW e, UpdateTo(p, e), NEW b, NEW m, Says(learned, e, b, m),
         b => m = "none", UNCHANGED <<hours, happened, dropped, usesQueue, asked>>
  PROVE  EmojiIInv'
<1>1. DocFits(e, happened, dropped, asked, hours) /\ e.uses >= learned.uses /\ Happenings(happened, dropped)
  BY SaysFits, LearnedFits
<1> QED
  BY <1>1, UpdateKeeps

LEMMA SafetyKeeps == ASSUME EmojiIInv, NEW p \in Importers, StoreSafety(p) PROVE EmojiIInv'
<1>1. UNCHANGED <<hours, happened, dropped, usesQueue, asked>> /\ p \in Processes
  BY Labels DEF StoreSafety, Others
<1>2. PICK approved \in BOOLEAN :
        Update(p, [learned EXCEPT !.approved = approved, !.approvedAt = hours],
               IF approved THEN "pool" ELSE AfterImport(p), AfterImport(p))
  BY DEF StoreSafety
<1>31. PICK t \in Int : t = hours
  BY LearnedFits
<1>3. PICK e : e = [learned EXCEPT !.approved = approved, !.approvedAt = t]
  OBVIOUS
<1>4. Same(learned, e)
  BY <1>3, LearnedFits, SameNotes
<1>5. PICK l \in OffRecord : l = IF approved THEN "pool" ELSE AfterImport(p)
  BY Labels
<1>6. Update(p, e, l, AfterImport(p))
  BY <1>2, <1>3, <1>31, <1>5, Zenon
<1>7. UpdateTo(p, e)
  BY <1>6, Labels DEF UpdateTo
<1> QED
  BY <1>1, <1>4, <1>7, SameKeeps

LEMMA ImportKeeps == ASSUME EmojiIInv, NEW p \in Importers, ImportIt(p) PROVE EmojiIInv'
<1>1. UNCHANGED <<hours, happened, dropped, usesQueue, asked>> /\ p \in Processes
  BY Labels DEF ImportIt, Others
<1>2. PICK now \in BOOLEAN :
        Update(p, [learned EXCEPT !.managed = now \/ learned.managed], AfterImport(p), AfterImport(p))
  BY DEF ImportIt
<1>31. PICK b \in BOOLEAN : b = (now \/ learned.managed)
  OBVIOUS
<1>3. PICK e : e = [learned EXCEPT !.managed = b]
  OBVIOUS
<1>4. Same(learned, e)
  BY <1>3, LearnedFits, SameNotes
<1>5. Update(p, e, AfterImport(p), AfterImport(p))
  BY <1>2, <1>3, <1>31, Zenon
<1>6. UpdateTo(p, e)
  BY <1>5, Labels DEF UpdateTo
<1> QED
  BY <1>1, <1>4, <1>6, SameKeeps

LEMMA MeaningKeeps == ASSUME EmojiIInv, StoreMeaning PROVE EmojiIInv'
<1>1. UNCHANGED <<hours, happened, dropped, usesQueue, asked>>
  BY DEF StoreMeaning, Others
<1>2. PICK answer \in {"none", "inferred", "manual"} :
        Update("live", IF AdminHasSpoken("live") THEN learned
                       ELSE [learned EXCEPT !.meaning = answer], "idle", "idle")
  BY DEF StoreMeaning
<1>3. CASE AdminHasSpoken("live")
  <2>1. UpdateTo("live", learned)
    BY <1>2, <1>3, Labels DEF UpdateTo
  <2>2. Same(learned, learned)
    BY LearnedFits DEF Same, SameCounts, SameCalls, SameMeaning
  <2> QED
    BY <1>1, <2>1, <2>2, SameKeeps, Labels
<1>4. CASE ~ AdminHasSpoken("live")
  <2>1. PICK e : e = [learned EXCEPT !.meaning = answer]
    OBVIOUS
  <2>2. Says(learned, e, learned.disabled, answer)
    BY <2>1, LearnedFits, MeaningChanges
  <2>3. UpdateTo("live", e)
    BY <1>2, <1>4, <2>1, Labels DEF UpdateTo
  <2>4. ~ learned.disabled
    BY <1>4 DEF AdminHasSpoken
  <2> QED
    BY <1>1, <2>2, <2>3, <2>4, SaysKeeps, Labels
<1> QED
  BY <1>3, <1>4

LEMMA ManualKeeps == ASSUME EmojiIInv, StoreManual PROVE EmojiIInv'
<1>1. UNCHANGED <<hours, happened, dropped, usesQueue, asked>>
  BY DEF StoreManual, Others
<1>2. CASE Update("admin", [learned EXCEPT !.meaning = "manual", !.disabled = FALSE], "idle", "idle")
  <2>0. PICK b \in BOOLEAN, m \in {"none", "inferred", "manual"} : b = FALSE /\ m = "manual"
    OBVIOUS
  <2>1. PICK e : e = [learned EXCEPT !.meaning = m, !.disabled = b]
    OBVIOUS
  <2>2. Says(learned, e, b, m)
    BY <2>1, LearnedFits, MeaningChanges
  <2>3. Update("admin", e, "idle", "idle")
    BY <1>2, <2>0, <2>1, Zenon
  <2>4. UpdateTo("admin", e)
    BY <2>3, Labels DEF UpdateTo
  <2>5. ~ b
    BY <2>0
  <2> QED
    BY <1>1, <2>2, <2>4, <2>5, SaysKeeps, Labels
<1>3. CASE Rests("admin") /\ UNCHANGED <<learned, written, surprises>>
  <2>1. DoingFits(doing', happened, learned.uses)
    BY <1>3, LearnedFits, LeavesFits, Labels
  <2>2. surprises \in Nat /\ usesQueue \in Seq(happened)
    BY DEF EmojiIInv
  <2> QED
    BY <1>1, <1>3, <2>1, <2>2, RowsKeep
<1> QED
  BY <1>2, <1>3 DEF StoreManual

LEMMA CommandKeeps ==
  ASSUME EmojiIInv, NEW action \in {"block", "unblock", "forget_meaning"}, ControlMeaning(action)
  PROVE  EmojiIInv'
<1>1. UNCHANGED <<hours, happened, dropped, usesQueue, doing, asked>> /\ surprises' = surprises + 1
  BY DEF ControlMeaning, Surprise
<1>2. PICK e : /\ learned' \in {learned, e} /\ written' = e
               /\ DocFits(e, happened, dropped, asked, hours) /\ e.uses >= learned.uses
  <2>1. CASE action = "forget_meaning"
    <3>0. PICK b \in BOOLEAN, m \in {"none", "inferred", "manual"} : b = TRUE /\ m = "none"
      OBVIOUS
    <3>1. PICK e : e = [learned EXCEPT !.meaning = m, !.disabled = b]
      OBVIOUS
    <3>2. learned' \in {learned, e} /\ written' = e
      BY <2>1, <3>0, <3>1 DEF ControlMeaning
    <3>3. Says(learned, e, b, m)
      BY <3>1, LearnedFits, MeaningChanges
    <3>4. b => m = "none"
      BY <3>0
    <3> QED
      BY <3>2, <3>3, <3>4, SaysFits
  <2>2. CASE action # "forget_meaning"
    <3>0. PICK b \in BOOLEAN : b = (action = "block")
      OBVIOUS
    <3>1. PICK e : e = [learned EXCEPT !.blocked = b]
      OBVIOUS
    <3>2. learned' \in {learned, e} /\ written' = e
      BY <2>2, <3>0, <3>1 DEF ControlMeaning
    <3>3. Same(learned, e)
      BY <3>1, LearnedFits, SameNotes
    <3> QED
      BY <3>2, <3>3, SameFits
  <2> QED
    BY <2>1, <2>2
<1>3. surprises \in Nat /\ Happenings(happened, dropped) /\ DoingFits(doing, happened, learned.uses)
  BY DEF EmojiIInv
<1>4. surprises' \in Nat /\ surprises <= surprises'
  BY <1>1, <1>3
<1>5. DoingFits(doing', happened, learned.uses) /\ learned' \in {learned, e} /\ written' \in {written, e}
  BY <1>1, <1>2, <1>3
<1> QED
  BY <1>1, <1>2, <1>3, <1>4, <1>5, DocumentsFit

LEMMA BeginKeeps == ASSUME EmojiIInv, NEW force, BeginBackfill(force) PROVE EmojiIInv'
<1>1. UNCHANGED <<hours, happened, dropped, usesQueue, asked>>
  BY DEF BeginBackfill, Others
<1>20. PICK s \in Progress, t \in Int : s = "running" /\ t = hours
  BY LearnedFits DEF Progress
<1>2. PICK e : e = [learned EXCEPT !.backfill = s, !.attemptedAt = t]
  OBVIOUS
<1>3. Same(learned, e)
  BY <1>2, LearnedFits, SameNotes
<1>4. Update("backfill", e, "scan", "idle")
  BY <1>2, <1>20, Zenon DEF BeginBackfill
<1>5. UpdateTo("backfill", e)
  BY <1>4, Labels DEF UpdateTo
<1> QED
  BY <1>1, <1>3, <1>5, SameKeeps, Labels

LEMMA NoteKeeps == ASSUME EmojiIInv, NoteBackfill \/ NoteFailure PROVE EmojiIInv'
<1>1. UNCHANGED <<hours, happened, dropped, usesQueue, asked>>
  BY DEF NoteBackfill, NoteFailure, Others
<1>2. PICK s \in Progress, l \in OffRecord, x \in OffRecord :
        Update("backfill", [learned EXCEPT !.backfill = s], l, x)
  <2>1. CASE NoteBackfill
    <3>1. PICK l \in OffRecord : l = IF doing["backfill"].found = {} THEN "idle" ELSE "read"
      BY Labels
    <3> QED
      BY <2>1, <3>1, Labels DEF NoteBackfill, Progress
  <2>2. CASE NoteFailure
    BY <2>2, Labels DEF NoteFailure, Progress
  <2> QED
    BY <2>1, <2>2
<1>3. PICK e : e = [learned EXCEPT !.backfill = s]
  OBVIOUS
<1>4. Same(learned, e)
  BY <1>3, LearnedFits, SameNotes
<1>5. UpdateTo("backfill", e)
  BY <1>2, <1>3, Zenon DEF UpdateTo
<1> QED
  BY <1>1, <1>4, <1>5, SameKeeps, Labels

LEMMA FailsKeeps == ASSUME EmojiIInv, ScanFails PROVE EmojiIInv'
<1>1. /\ UNCHANGED <<hours, happened, dropped, learned, written, usesQueue, asked>>
      /\ surprises' = surprises + 1 /\ Goes("backfill", "failed")
  BY DEF ScanFails, Others, Surprise
<1>2. surprises \in Nat /\ usesQueue \in Seq(happened)
  BY DEF EmojiIInv
<1>3. DoingFits(doing', happened, learned.uses)
  BY <1>1, LearnedFits, LeavesFits, Labels
<1>4. surprises' \in Nat /\ surprises <= surprises' /\ usesQueue' \in Seq(happened)
  BY <1>1, <1>2
<1> QED
  BY <1>1, <1>3, <1>4, RowsKeep

LEMMA MergeKeeps == ASSUME EmojiIInv, MergeHistory PROVE EmojiIInv'
<1>1. UNCHANGED <<hours, happened, usesQueue, asked>>
  BY DEF MergeHistory
<1>2. PICK F \in SUBSET happened : F = doing["backfill"].found
  BY LearnedFits, Labels DEF DoingFits, RowFits
<1>3. PICK e : e = Merged(learned, F)
  OBVIOUS
<1>4. Update("backfill", e, "note", "failed")
  BY <1>2, <1>3 DEF MergeHistory
<1>5. UpdateTo("backfill", e)
  BY <1>4, Labels DEF UpdateTo
<1>6. CASE F = {}
  <2>1. e = learned /\ dropped' = dropped
    BY <1>2, <1>3, <1>6 DEF Merged, MergeHistory
  <2>2. Same(learned, learned)
    BY LearnedFits DEF Same, SameCounts, SameCalls, SameMeaning
  <2> QED
    BY <1>1, <1>5, <2>1, <2>2, SameKeeps, Labels
<1>7. CASE F # {}
  <2>1. PICK D2 : D2 = dropped \cup OfKind("reaction", learned.history \ (F \cup learned.recent))
    OBVIOUS
  <2>2. dropped' = D2
    BY <1>2, <1>7, <2>1 DEF MergeHistory
  <2>3. /\ e \in Documents /\ CountsFit(e, happened, D2) /\ learned.uses <= e.uses
        /\ SameCalls(learned, e) /\ SameMeaning(learned, e) /\ Happenings(happened, D2)
    BY <1>3, <1>7, <2>1, LearnedFits, MergeFits
  <2>4. DocFits(e, happened, D2, asked, hours)
    BY <2>3, CountedFits
  <2>5. e.uses >= learned.uses
    BY <2>3, LearnedFits DEF Documents
  <2>6. dropped \subseteq D2
    BY <2>1
  <2> QED
    BY <1>1, <1>5, <2>2, <2>3, <2>4, <2>5, <2>6, UpdateKeeps, Labels
<1> QED
  BY <1>6, <1>7

LEMMA EndingKeeps == ASSUME EmojiIInv, LearnerRestarts PROVE EmojiIInv'
<1>1. /\ surprises' = surprises + 1 /\ learned' = written /\ usesQueue' = <<>>
      /\ doing' = [p \in Processes |-> Resting]
      /\ UNCHANGED <<hours, happened, dropped, written, asked>>
  BY DEF LearnerRestarts, Surprise, Others
<1>2. /\ hours \in Nat /\ surprises \in Nat /\ hours <= surprises /\ Happenings(happened, dropped)
      /\ AskedFits(asked, hours) /\ DocFits(written, happened, dropped, asked, hours)
  BY DEF EmojiIInv
<1>3. DoingFits(doing', happened, written.uses)
  BY <1>1, RestingFits DEF DoingFits
<1>4. usesQueue' \in Seq(happened)
  BY <1>1
<1>5. surprises' \in Nat /\ hours <= surprises'
  BY <1>1, <1>2
<1> QED
  BY <1>1, <1>2, <1>3, <1>4, <1>5 DEF EmojiIInv

LEMMA HourKeeps == ASSUME EmojiIInv, HourGoes PROVE EmojiIInv'
<1>1. /\ surprises' = surprises + 1 /\ hours' = hours + 1
      /\ UNCHANGED <<happened, dropped, learned, written, usesQueue, doing, asked>>
  BY DEF HourGoes, Surprise
<1>2. /\ hours \in Nat /\ surprises \in Nat /\ hours <= surprises /\ Happenings(happened, dropped)
      /\ usesQueue \in Seq(happened) /\ DoingFits(doing, happened, learned.uses)
      /\ AskedFits(asked, hours) /\ DocFits(learned, happened, dropped, asked, hours)
      /\ DocFits(written, happened, dropped, asked, hours)
  BY DEF EmojiIInv
<1>3. PICK h \in Nat : h = hours + 1
  BY <1>2
<1>4. /\ AskedFits(asked, h) /\ DocFits(learned, happened, dropped, asked, h)
      /\ DocFits(written, happened, dropped, asked, h)
  BY <1>2, <1>3, CallsStand DEF DocFits
<1>5. h <= surprises' /\ surprises' \in Nat
  BY <1>1, <1>2, <1>3
<1> QED
  BY <1>1, <1>2, <1>3, <1>4, <1>5 DEF EmojiIInv

LEMMA EmojiKept == EmojiIInv /\ [EmojiNext]_emojiVars => EmojiIInv'
<1> SUFFICES ASSUME EmojiIInv, [EmojiNext]_emojiVars PROVE EmojiIInv'
  OBVIOUS
<1>1. CASE \E u \in Uses : UseEmoji(u)
  BY <1>1, UsesHappen
<1>2. CASE TakeUse \/ RecordUse \/ InferMeaning \/ StoreMeaning \/ SetMeaning \/ StoreManual
  BY <1>2, TakeKeeps, CountingKeeps, InferKeeps, MeaningKeeps, SetKeeps, ManualKeeps
<1>3. CASE \E p \in Importers : ReadDocument(p) \/ TryImport(p) \/ StoreSafety(p) \/ ImportIt(p)
  BY <1>3, ReadKeeps, TryKeeps, SafetyKeeps, ImportKeeps
<1>4. CASE \E action \in {"block", "unblock", "forget_meaning"} : ControlMeaning(action)
  BY <1>4, CommandKeeps
<1>5. CASE \E force \in BOOLEAN : BeginBackfill(force)
  BY <1>5, BeginKeeps
<1>6. CASE ScanHistory \/ MergeHistory \/ NoteBackfill \/ ScanFails \/ NoteFailure
  BY <1>6, ScanKeeps, MergeKeeps, NoteKeeps, FailsKeeps
<1>7. CASE LearnerRestarts \/ HourGoes
  BY <1>7, EndingKeeps, HourKeeps
<1>8. CASE UNCHANGED emojiVars
  <2>1. UNCHANGED <<hours, happened, dropped, learned, written, usesQueue, doing, asked, surprises>>
    BY <1>8 DEF emojiVars
  <2> QED
    BY <2>1 DEF EmojiIInv
<1> QED
  BY <1>1, <1>2, <1>3, <1>4, <1>5, <1>6, <1>7, <1>8 DEF EmojiNext

\* Whatever the live worker, the backfill and the administrators do to one document, and
\* whatever is lost of it: it counts no use that was not made, the vision model is asked no
\* more than its limits allow, and a forgotten meaning stays forgotten.
THEOREM EmojiIsSafe == EmojiSpec => []EmojiInv
<1>1. EmojiInit => EmojiIInv
  BY EmojiBegins
<1>2. EmojiIInv /\ [EmojiNext]_emojiVars => EmojiIInv'
  BY EmojiKept
<1>3. EmojiIInv => EmojiInv
  BY EmojiSound
<1> QED
  BY <1>1, <1>2, <1>3, PTL DEF EmojiSpec

------------------------------------------------------------------------------
(* Numbers and loops: the least of some numbers, what holds of all up to a *)
(* bound, and the states a loop goes through, on which all rests that is   *)
(* known of a recursive function.                                          *)

\* A set of natural numbers has a least one.
LEMMA LeastOf ==
  ASSUME NEW S, S \subseteq Nat, S # {}
  PROVE  \E n \in S : \A m \in S : n <= m
<1> DEFINE Below == OpToRel(<, Nat)
<1>1. \A x, y \in Nat : <<x, y>> \in Below <=> x < y
  BY DEF OpToRel
<1>2. IsWellFoundedOn(Below, Nat)
  BY NatLessThanWellFounded
<1> HIDE DEF Below
<1>3. PICK n \in S : \A m \in S : ~ (<<m, n>> \in Below)
  BY <1>2, WFMin
<1>4. \A m \in S : m \in Nat /\ n \in Nat /\ ~ (m < n)
  BY <1>1, <1>3, Zenon
<1> QED
  BY <1>4

\* What holds of zero and of a number after the one before it holds of all up to a bound:
\* T is the set of the numbers of which it holds.
LEMMA UpTo ==
  ASSUME NEW k \in Nat, NEW T, 0 \in T, \A n \in 1 .. k : n - 1 \in T => n \in T
  PROVE  \A n \in 0 .. k : n \in T
<1> DEFINE Bad == {n \in 0 .. k : n \notin T}
<1>1. SUFFICES ASSUME Bad # {} PROVE FALSE
  OBVIOUS
<1>2. Bad \subseteq Nat
  OBVIOUS
<1>3. PICK n \in Bad : \A m \in Bad : n <= m
  BY <1>1, <1>2, LeastOf
<1>4. n \in 1 .. k
  BY <1>3
<1>5. n - 1 \in 0 .. k /\ n - 1 \notin Bad
  BY <1>3, <1>4
<1> QED
  BY <1>3, <1>4, <1>5

\* The states of a loop of k steps that goes from s0 by G.
IsLoop(f, k, S, s0, G) ==
  f \in [0 .. k -> S] /\ f[0] = s0 /\ \A n \in 1 .. k : f[n] = G[n][f[n - 1]]

LEMMA LoopOf ==
  ASSUME NEW k \in Nat, NEW S, NEW s0 \in S, NEW G,
         \A n \in 1 .. k : \A x \in S : G[n][x] \in S
  PROVE  \E f : IsLoop(f, k, S, s0, G)
<1> DEFINE Ok(n, f) == f[0] = s0 /\ \A m \in 1 .. n : f[m] = G[m][f[m - 1]]
           Runs(n) == \E f \in [0 .. n -> S] : Ok(n, f)
           T == {n \in 0 .. k : Runs(n)}
<1>1. Runs(0)
  <2>1. [m \in 0 .. 0 |-> s0] \in [0 .. 0 -> S] /\ Ok(0, [m \in 0 .. 0 |-> s0])
    OBVIOUS
  <2> HIDE DEF Ok
  <2> QED
    BY <2>1, Zenon
<1>2. ASSUME NEW n \in 1 .. k, Runs(n - 1) PROVE Runs(n)
  <2>1. PICK f \in [0 .. n - 1 -> S] : Ok(n - 1, f)
    BY <1>2
  <2> DEFINE h == [m \in 0 .. n |-> IF m = n THEN G[n][f[n - 1]] ELSE f[m]]
  <2>2. G[n][f[n - 1]] \in S
    OBVIOUS
  <2>3. h \in [0 .. n -> S]
    BY <2>2
  <2>4. h[0] = s0 /\ h[n] = G[n][f[n - 1]] /\ \A m \in 0 .. n - 1 : h[m] = f[m]
    BY <2>1
  <2> HIDE DEF h
  <2>5. ASSUME NEW m \in 1 .. n PROVE h[m] = G[m][h[m - 1]]
    <3>1. m - 1 \in 0 .. n - 1 /\ (m # n => m \in 0 .. n - 1 /\ m \in 1 .. n - 1)
      OBVIOUS
    <3> QED
      BY <2>1, <2>4, <3>1
  <2>6. Ok(n, h)
    BY <2>4, <2>5
  <2> HIDE DEF Ok
  <2> QED
    BY <2>3, <2>6, Zenon
<1> HIDE DEF Runs
<1>3. 0 \in T /\ \A n \in 1 .. k : n - 1 \in T => n \in T
  BY <1>1, <1>2
<1> HIDE DEF T
<1>4. \A n \in 0 .. k : n \in T
  BY <1>3, UpTo
<1>5. Runs(k)
  BY <1>4 DEF T
<1> QED
  BY <1>5 DEF Runs, IsLoop

------------------------------------------------------------------------------
(* MemberNames. As long as no handler has overtaken another, or all share  *)
(* one connection, only one writes at a time, and what the process recalls *)
(* is what that one saw or, when none writes, what is written (InTurn).    *)

WatcherRows == [at : {"idle", "select", "write", "done"}, saw : 0 .. LastName, isNew : BOOLEAN]

\* Handlers of which only one writes at a time: what the process recalls is what the one
\* that writes saw, or, when none does, what is written.
InTurn ==
  /\ \A v, w \in Watchers : watcher[v].at = "write" /\ watcher[w].at = "write" => v = w
  /\ \A w \in Watchers : watcher[w].at = "write" => recalled = watcher[w].saw
  /\ (\A w \in Watchers : watcher[w].at # "write") => recalled \in {NoName, recorded}

NamesIInv ==
  /\ watcher \in [Watchers -> WatcherRows]
  /\ called \in 0 .. LastName /\ recalled \in 0 .. LastName /\ recorded \in 0 .. LastName
  /\ losses \in 0 .. MaxLosses
  /\ onePool \/ ~ overtaken => InTurn
  /\ ~ overtaken => \A v, w \in Watchers : Writing(v) /\ Writing(w) => v = w

LEMMA UnseenFits == Unseen \in WatcherRows /\ Unseen.at = "idle" /\ Unseen.saw = NoName
<1>1. 0 \in 0 .. LastName
  BY NamesAssumption
<1> QED
  BY <1>1 DEF Unseen, WatcherRows, NoName

LEMMA NamesBegin == NamesInit => NamesIInv
<1> SUFFICES ASSUME NamesInit PROVE NamesIInv
  OBVIOUS
<1>1. \A w \in Watchers : watcher[w].at = "idle"
  BY UnseenFits DEF NamesInit
<1>2. InTurn
  BY <1>1 DEF NamesInit, InTurn
<1>3. called \in 0 .. LastName /\ recalled \in 0 .. LastName /\ recorded \in 0 .. LastName
      /\ losses \in 0 .. MaxLosses
  BY NamesAssumption DEF NamesInit, NoName
<1>4. watcher \in [Watchers -> WatcherRows]
  BY UnseenFits DEF NamesInit
<1>5. \A w \in Watchers : ~ Writing(w)
  BY <1>1 DEF Writing
<1> QED
  BY <1>2, <1>3, <1>4, <1>5 DEF NamesIInv

\* A handler that notices a new name: nobody else writes, or it is overtaken.
LEMMA NoticeKeeps ==
  ASSUME NamesIInv, NEW w \in Watchers, Notice(w)
  PROVE  NamesIInv'
<1>1. UNCHANGED <<onePool, called, recalled, recorded, losses>> /\ watcher[w].at = "idle"
  BY DEF Notice
<1>2. CASE recalled = called
  <2>1. PICK r \in WatcherRows : r.at = "done" /\ watcher' = [watcher EXCEPT ![w] = r]
    <3>1. [Unseen EXCEPT !.at = "done"] \in WatcherRows /\ [Unseen EXCEPT !.at = "done"].at = "done"
      BY UnseenFits DEF WatcherRows
    <3> QED
      BY <1>2, <3>1 DEF Notice, Turn
  <2>2. UNCHANGED overtaken
    BY <1>2 DEF Notice
  <2> QED
    BY <1>1, <2>1, <2>2 DEF NamesIInv, InTurn, Writing
<1>3. CASE recalled # called
  <2>1. PICK r \in WatcherRows : r.at = "select" /\ watcher' = [watcher EXCEPT ![w] = r]
    <3>1. [Unseen EXCEPT !.at = "select", !.saw = called] \in WatcherRows
          /\ [Unseen EXCEPT !.at = "select", !.saw = called].at = "select"
      BY UnseenFits DEF WatcherRows, NamesIInv
    <3> QED
      BY <1>3, <3>1 DEF Notice, Turn
  <2>2. ~ overtaken' => ~ overtaken /\ \A v \in Watchers : ~ Writing(v)
    BY <1>3 DEF Notice
  <2>3. \A v \in Watchers : watcher'[v].at = "write" => v # w /\ watcher'[v] = watcher[v]
    BY <2>1 DEF NamesIInv
  <2>4. watcher' \in [Watchers -> WatcherRows]
    BY <2>1 DEF NamesIInv
  <2>5. InTurn => InTurn'
    BY <1>1, <2>1, <2>3 DEF InTurn, NamesIInv
  <2>6. ~ overtaken' => \A u, v \in Watchers : Writing(u)' /\ Writing(v)' => u = v
    BY <2>1, <2>2 DEF NamesIInv, Writing
  <2> QED
    BY <1>1, <2>2, <2>4, <2>5, <2>6 DEF NamesIInv
<1> QED
  BY <1>2, <1>3

LEMMA FindKeeps ==
  ASSUME NamesIInv, NEW w \in Watchers, FindRow(w)
  PROVE  NamesIInv'
<1>1. UNCHANGED <<onePool, called, recorded, overtaken, losses>> /\ watcher[w].at = "select"
      /\ recalled' = watcher[w].saw
  BY DEF FindRow
<1>2. PICK r \in WatcherRows : /\ r.at = "write" /\ r.saw = watcher[w].saw
                               /\ watcher' = [watcher EXCEPT ![w] = r]
  <2> DEFINE r == [watcher[w] EXCEPT !.at = "write", !.isNew = recorded = NoName]
  <2>1. (recorded = NoName) \in BOOLEAN
    OBVIOUS
  <2>2. r \in WatcherRows /\ r.at = "write" /\ r.saw = watcher[w].saw
    BY <2>1 DEF NamesIInv, WatcherRows
  <2> QED
    BY <2>2 DEF FindRow, Turn
<1>3. onePool \/ ~ overtaken => \A v \in Watchers : watcher[v].at # "write"
  BY <1>1 DEF FindRow, NamesIInv, Writing
<1>4. onePool \/ ~ overtaken => InTurn'
  BY <1>1, <1>2, <1>3 DEF InTurn, NamesIInv
<1>5. \A v \in Watchers : Writing(v)' => Writing(v)
  BY <1>1, <1>2 DEF NamesIInv, Writing
<1>6. watcher[w].saw \in 0 .. LastName /\ watcher' \in [Watchers -> WatcherRows]
  BY <1>2 DEF NamesIInv, WatcherRows
<1> QED
  BY <1>1, <1>4, <1>5, <1>6 DEF NamesIInv

LEMMA NameRecordKeeps ==
  ASSUME NamesIInv, NEW w \in Watchers, NEW ok \in BOOLEAN, RecordNames(w, ok)
  PROVE  NamesIInv'
<1>1. UNCHANGED <<onePool, called, overtaken>> /\ watcher[w].at = "write"
  BY DEF RecordNames
<1>2. PICK r \in WatcherRows : r.at = "done" /\ watcher' = [watcher EXCEPT ![w] = r]
  <2>1. [watcher[w] EXCEPT !.at = "done"] \in WatcherRows /\ [watcher[w] EXCEPT !.at = "done"].at = "done"
    BY DEF NamesIInv, WatcherRows
  <2> QED
    BY <2>1 DEF RecordNames, RecordFails, Turn
<1>3. \/ recalled' = NoName /\ recorded' = recorded
      \/ recalled' = recalled /\ recorded' = watcher[w].saw
  BY DEF RecordNames, RecordFails, Forgotten
<1>4. losses' \in 0 .. MaxLosses
  BY NamesAssumption DEF RecordNames, RecordFails, NamesIInv
<1>5. onePool \/ ~ overtaken => InTurn'
  BY <1>1, <1>2, <1>3 DEF InTurn, NamesIInv
<1>6. \A v \in Watchers : Writing(v)' => Writing(v)
  BY <1>1, <1>2 DEF NamesIInv, Writing
<1>7. recalled' \in 0 .. LastName /\ recorded' \in 0 .. LastName /\ watcher' \in [Watchers -> WatcherRows]
  BY <1>2, <1>3, NamesAssumption DEF NamesIInv, WatcherRows, NoName
<1> QED
  BY <1>1, <1>4, <1>5, <1>6, <1>7 DEF NamesIInv

LEMMA OtherNamesKeep ==
  ASSUME NamesIInv, (\E w \in Watchers : CallsAgain(w)) \/ IsRenamed \/ ProcessRestarts
  PROVE  NamesIInv'
<1>1. CASE \E w \in Watchers : CallsAgain(w)
  <2>1. PICK w \in Watchers : CallsAgain(w)
    BY <1>1
  <2>2. watcher' \in [Watchers -> WatcherRows]
        /\ \A v \in Watchers : watcher'[v].at \in {"write", "select"} => watcher'[v] = watcher[v]
    BY <2>1, UnseenFits DEF CallsAgain, Turn, NamesIInv
  <2>3. \A v \in Watchers : watcher[v].at = "write" => watcher'[v] = watcher[v]
    BY <2>1 DEF CallsAgain, Turn, NamesIInv
  <2>4. \A v \in Watchers : Writing(v)' => Writing(v)
    BY <2>2 DEF Writing, NamesIInv, WatcherRows
  <2>5. InTurn => InTurn'
    BY <2>1, <2>2, <2>3 DEF CallsAgain, InTurn
  <2> QED
    BY <2>1, <2>2, <2>4, <2>5 DEF CallsAgain, NamesIInv
<1>2. CASE IsRenamed
  BY <1>2, NamesAssumption DEF IsRenamed, NamesIInv, InTurn, Writing
<1>3. CASE ProcessRestarts
  <2>1. \A w \in Watchers : watcher'[w].at = "idle"
    BY <1>3, UnseenFits DEF ProcessRestarts
  <2>2. InTurn'
    BY <1>3, <2>1 DEF ProcessRestarts, InTurn
  <2>3. watcher' \in [Watchers -> WatcherRows] /\ recalled' \in 0 .. LastName /\ losses' \in 0 .. MaxLosses
    BY <1>3, UnseenFits, NamesAssumption DEF ProcessRestarts, NamesIInv, NoName
  <2> QED
    BY <1>3, <2>1, <2>2, <2>3 DEF ProcessRestarts, NamesIInv, Writing
<1> QED
  BY <1>1, <1>2, <1>3

LEMMA NamesKept == NamesIInv /\ [NamesNext]_namesVars => NamesIInv'
<1> SUFFICES ASSUME NamesIInv, [NamesNext]_namesVars PROVE NamesIInv'
  OBVIOUS
<1>1. CASE UNCHANGED namesVars
  BY <1>1 DEF namesVars, NamesIInv, InTurn, Writing
<1> QED
  BY <1>1, NoticeKeeps, FindKeeps, NameRecordKeeps, OtherNamesKeep DEF NamesNext

LEMMA NamesSound == NamesIInv => NamesInv
<1> SUFFICES ASSUME NamesIInv PROVE NamesInv
  OBVIOUS
<1>1. NamesTypeOK
  BY DEF NamesIInv, NamesTypeOK, WatcherRows
<1>2. RecalledIsRecorded
  BY DEF NamesIInv, InTurn, RecalledIsRecorded, Writing
<1> QED
  BY <1>1, <1>2 DEF NamesInv

\* For any number of handlers, renamings and failures: a name that the process takes for
\* written is written, unless handlers overtook each other on several connections, so
\* that no new name is passed over (member_aliases.py).
THEOREM NamesAreSafe == NamesSpec => []NamesInv
  BY NamesBegin, NamesKept, NamesSound, PTL DEF NamesSpec

------------------------------------------------------------------------------
(* AnswerContext. By the step the preparation is at: what it has read was  *)
(* readable at some time since the question and is not barred (CtxBarred,  *)
(* CtxUnbarred), each person's rows were chosen once and within the limits *)
(* (CtxShares), and if nobody interferes the second transaction finds what *)
(* the first found, so that its costs are booked (CtxCosts).               *)

\* What one person's part of an answer may be.
Capped(S) ==
  /\ Cardinality(S) <= ShownLimit
  /\ \A k \in DOMAIN KindCap : Cardinality({n \in S : NoteKind[n] = k}) <= KindCap[k]

LEMMA CappedMore ==
  ASSUME NEW S \in SUBSET Notes, Capped(S), NEW n \in Notes, HasRoom(S, n)
  PROVE  Capped(S \cup {n})
<1>1. IsFiniteSet(S)
  BY FS_Subset, ContextAssumption
<1>2. ASSUME NEW R \in SUBSET S PROVE Cardinality(R) \in Nat /\ Cardinality(R \cup {n}) <= Cardinality(R) + 1
  <2>1. IsFiniteSet(R)
    BY <1>1, FS_Subset
  <2>2. Cardinality(R) \in Nat /\ Cardinality(R \cup {n}) = IF n \in R THEN Cardinality(R) ELSE Cardinality(R) + 1
    BY <2>1, FS_CardinalityType, FS_AddElement
  <2> QED
    BY <2>2
<1>3. Cardinality(S \cup {n}) <= ShownLimit
  <2>1. Cardinality(S) < ShownLimit /\ ShownLimit \in Nat
    BY ContextAssumption DEF HasRoom
  <2>2. Cardinality(S) \in Nat /\ Cardinality(S \cup {n}) <= Cardinality(S) + 1
    BY <1>2
  <2>3. Cardinality(S \cup {n}) \in Nat
    BY <1>1, FS_AddElement, FS_CardinalityType
  <2> QED
    BY <2>1, <2>2, <2>3
<1>4. ASSUME NEW k \in DOMAIN KindCap
      PROVE  Cardinality({m \in S \cup {n} : NoteKind[m] = k}) <= KindCap[k]
  <2> DEFINE R == {m \in S : NoteKind[m] = k}
  <2>1. KindCap[k] \in Nat /\ Cardinality(R) <= KindCap[k]
    BY ContextAssumption DEF Capped
  <2>2. R \in SUBSET S /\ IsFiniteSet(R)
    BY <1>1, FS_Subset
  <2>3. CASE NoteKind[n] = k
    <3>1. {m \in S \cup {n} : NoteKind[m] = k} = R \cup {n}
      BY <2>3
    <3>2. Cardinality(R) < KindCap[k]
      BY <2>3 DEF HasRoom
    <3>3. Cardinality(R) \in Nat /\ Cardinality(R \cup {n}) <= Cardinality(R) + 1
      BY <1>2, <2>2
    <3>4. Cardinality(R \cup {n}) \in Nat
      BY <2>2, FS_AddElement, FS_CardinalityType
    <3> HIDE DEF R
    <3> QED
      BY <2>1, <3>1, <3>2, <3>3, <3>4
  <2>4. CASE NoteKind[n] # k
    <3>1. {m \in S \cup {n} : NoteKind[m] = k} = R
      BY <2>4
    <3> QED
      BY <2>1, <3>1
  <2> QED
    BY <2>3, <2>4
<1> QED
  BY <1>3, <1>4 DEF Capped

LEMMA CappedNone ==
  Capped({})
<1>1. \A k \in DOMAIN KindCap : {n \in {} : NoteKind[n] = k} = {} /\ KindCap[k] \in Nat
  BY ContextAssumption
<1> QED
  BY <1>1, FS_EmptySet, ContextAssumption DEF Capped

\* Whatever the ranking, what is chosen is of it and within the limits.
LEMMA DiverseOf ==
  ASSUME NEW Q \in SUBSET Notes, NEW ranking \in AnyRanking(Q)
  PROVE  Diverse(ranking) \subseteq Q /\ Capped(Diverse(ranking))
<1>1. PICK T \in SUBSET Q : ranking \in SetToSeqs(T)
  BY DEF AnyRanking
<1> DEFINE k == Cardinality(T)
<1>2. k \in Nat
  BY FS_Subset, FS_CardinalityType, ContextAssumption
<1>3. ranking \in [1 .. k -> T]
  BY <1>1 DEF SetToSeqs
<1> HIDE DEF k
<1>4. Len(ranking) = k
  BY <1>2, <1>3
<1> DEFINE
  first == [seen |-> {}, taken |-> {}]
  S == {s \in [seen : SUBSET {NoteKey[n] : n \in Notes}, taken : SUBSET Q] : Capped(s.taken)}
  More(s, n) == [seen  |-> s.seen \cup {NoteKey[n]},
                 taken |-> IF NoteKey[n] \notin s.seen /\ HasRoom(s.taken, n)
                           THEN s.taken \cup {n} ELSE s.taken]
  G == [i \in 1 .. k |-> [s \in S |-> More(s, ranking[i])]]
  Eq(f) == f = [i \in 0 .. k |-> IF i = 0 THEN first ELSE More(f[i - 1], ranking[i])]
<1>5. ASSUME NEW s \in S, NEW n \in Q PROVE More(s, n) \in S
  <2>1. s.seen \subseteq {NoteKey[m] : m \in Notes} /\ s.taken \in SUBSET Q /\ s.taken \in SUBSET Notes
        /\ Capped(s.taken) /\ n \in Notes
    OBVIOUS
  <2>2. HasRoom(s.taken, n) => Capped(s.taken \cup {n})
    BY <2>1, CappedMore
  <2> QED
    BY <2>1, <2>2
<1>6. first \in S
  BY CappedNone
<1> HIDE DEF S, first, More
<1>7. \A i \in 1 .. k : \A s \in S : G[i][s] = More(s, ranking[i]) /\ G[i][s] \in S
  BY <1>2, <1>3, <1>5
<1> HIDE DEF G
<1>8. PICK h : IsLoop(h, k, S, first, G)
  BY <1>2, <1>6, <1>7, LoopOf
<1>9. Eq(h)
  BY <1>2, <1>7, <1>8 DEF IsLoop
<1>10. Eq(CHOOSE g : Eq(g))
  BY <1>9
<1>11. PICK g : Eq(g) /\ Diverse(ranking) = g[k].taken
  BY <1>4, <1>10 DEF Diverse, More, first
<1>12. g[0] = first /\ \A i \in 1 .. k : g[i] = More(g[i - 1], ranking[i])
  BY <1>2, <1>11
<1>13. \A i \in 0 .. k : g[i] \in S
  <2> DEFINE W == {i \in 0 .. k : g[i] \in S}
  <2>1. 0 \in W
    BY <1>2, <1>6, <1>12
  <2>2. ASSUME NEW i \in 1 .. k, i - 1 \in W PROVE i \in W
    <3>1. g[i - 1] \in S /\ ranking[i] \in Q /\ g[i] = More(g[i - 1], ranking[i])
      BY <1>3, <1>12, <2>2
    <3>2. g[i] \in S
      BY <1>5, <3>1
    <3> QED
      BY <1>2, <3>2
  <2> HIDE DEF W
  <2>3. \A i \in 0 .. k : i \in W
    BY <1>2, <2>1, <2>2, UpTo
  <2> QED
    BY <2>3 DEF W
<1>14. g[k] \in S
  BY <1>2, <1>13
<1> QED
  BY <1>11, <1>14 DEF S

\* ---- the invariant
PrepStages == {"begin", "look", "create", "names", "allow", "embed", "between", "settings",
               "newSettings", "names2", "allow2", "usage", "again", "owners", "private", "guild",
               "flush", "kin", "kinRows", "kinFlush", "prepared", "asked", "failed", "cancelled"}
Preparation == [at : PrepStages, on : BOOLEAN, kin : SUBSET OtherPeople, owners : SUBSET People,
                found : SUBSET Notes, own : SUBSET Notes, ofKin : SUBSET Notes,
                embedded : BOOLEAN, paid : BOOLEAN]

\* Whom the text is about.
AboutWhom == ask.mentioned \cup (IF ask.guild THEN nicknames ELSE {})

\* Somebody has written while a transaction of the pool was open.
Disturbed == ask.pool /\ stirs > 0

CtxTypes ==
  /\ ask \in Asks /\ remembers \in [People -> BOOLEAN] /\ listed \subseteq People
  /\ nicknames \subseteq OtherPeople /\ note \in [Notes -> Sights] /\ prep \in Preparation
  /\ lookAt \in {"none", "running", "unpaid"}
  /\ barred \in [rows : SUBSET Notes, people : SUBSET People]
  /\ stirs \in Nat /\ stirs <= MaxStirs
  /\ \A p \in People \ listed : ~ remembers[p]
  /\ ask.how = "search" => ask.personal /\ lookAt = "none"
  /\ prep.at = "asked" => lookAt = "none"

\* What is filled when.
CtxFilled ==
  /\ prep.owners # {} => prep.at \in {"private", "guild"}
  /\ prep.found # {} => prep.at = "guild"
  /\ prep.own # {} => prep.at \in {"flush", "kin", "kinRows", "kinFlush", "prepared", "asked"}
  /\ prep.ofKin # {} => prep.at \in {"kinRows", "kinFlush", "prepared", "asked"}

\* What is barred cannot be read now.
CtxBarred ==
  /\ \A n \in barred.rows : ~ MayRead(note[n], n)
  /\ \A p \in barred.people : ~ remembers[p]

\* Nothing that is barred has been read.
CtxUnbarred ==
  /\ \A n \in prep.found : n \notin barred.rows /\ NoteOwner[n] \notin barred.people
  /\ \A n \in prep.own : n \notin barred.rows /\ NoteOwner[n] \notin barred.people
  /\ \A n \in prep.ofKin : n \notin barred.rows /\ NoteOwner[n] \notin barred.people
  /\ \A p \in prep.owners : p \notin barred.people
  /\ prep.at = "kinRows" => \A p \in prep.kin : p \notin barred.people

CtxShared ==
  /\ \A n \in prep.found : NoteOwner[n] # Asker => ask.guild /\ NoteHere[n]
  /\ \A n \in prep.own : NoteOwner[n] # Asker => ask.guild /\ NoteHere[n]
  /\ \A n \in prep.ofKin : NoteOwner[n] # Asker => ask.guild /\ NoteHere[n]

\* Each person's rows are chosen once.
CtxShares ==
  /\ Capped(prep.own)
  /\ \A p \in OtherPeople : Capped({n \in prep.ofKin : NoteOwner[n] = p})
  /\ prep.at = "kinRows" => \A p \in prep.kin : {n \in prep.ofKin : NoteOwner[n] = p} = {}

\* What would make a statement fail is the work of others.
CtxFailure ==
  /\ prep.at \in {"create", "newSettings"} /\ Asker \in listed => Disturbed
  /\ prep.at = "guild" => \A n \in prep.found : note[n] = "gone" => Disturbed
  /\ prep.at = "flush" => \A n \in prep.own : note[n] = "gone" => Disturbed
  /\ prep.at \in {"kinRows", "kinFlush"} => \A n \in prep.ofKin : note[n] = "gone" => Disturbed
  /\ prep.at = "failed" => Disturbed

\* If nobody interferes, the second transaction finds what the first found.
CtxCosts ==
  stirs = 0 /\ AllFit =>
    /\ ask.how = "answer" /\ prep.at \in {"create", "names", "allow", "newSettings", "names2",
                                             "allow2", "usage"} =>
         prep.on = remembers[Asker]
    /\ ask.how = "answer" /\ prep.at \in {"allow", "allow2"} => prep.kin = AboutWhom
    /\ ask.how = "answer" /\ prep.at = "usage" => prep.kin = Enabled(AboutWhom)
    /\ ask.how = "answer" /\ (prep.embedded \/ prep.at = "embed") =>
         (remembers[Asker] /\ ask.personal) \/ Enabled(AboutWhom) # {}
    /\ prep.embedded /\ prep.at \in {"again", "owners", "private", "guild", "flush", "kin",
                                     "kinRows", "kinFlush", "prepared", "asked"} => prep.paid

CtxIInv ==
  CtxTypes /\ CtxBarred /\ CtxFilled /\ CtxUnbarred /\ CtxShared /\ CtxShares /\ CtxFailure /\ CtxCosts

LEMMA Persons ==
  /\ Asker \in People /\ OtherPeople \subseteq People /\ Asker \notin OtherPeople
  /\ NoteOwner \in [Notes -> People] /\ MaxStirs \in Nat
  /\ \A p \in People : p = Asker \/ p \in OtherPeople
BY ContextAssumption DEF People

LEMMA CtxBegins ==
  ASSUME ContextInit
  PROVE  CtxIInv
<1>1. /\ NoPrep \in Preparation /\ NoPrep.at = "begin" /\ NoPrep.found = {} /\ NoPrep.own = {}
      /\ NoPrep.ofKin = {} /\ NoPrep.kin = {} /\ NoPrep.owners = {} /\ ~ NoPrep.embedded
  BY DEF NoPrep, Preparation, PrepStages
<1>2. prep = NoPrep /\ barred = [rows |-> {}, people |-> {}] /\ stirs = 0
  BY DEF ContextInit
<1>3. note \in [Notes -> Sights]
  BY DEF ContextInit, Sights
<1>4. CtxTypes
  BY <1>1, <1>2, <1>3, Persons DEF ContextInit, CtxTypes, People
<1>5. CtxBarred /\ CtxFilled /\ CtxUnbarred /\ CtxShared
  BY <1>1, <1>2 DEF CtxBarred, CtxFilled, CtxUnbarred, CtxShared
<1>6. CtxShares
  BY <1>1, <1>2, CappedNone DEF CtxShares
<1>7. CtxFailure /\ CtxCosts
  BY <1>1, <1>2 DEF CtxFailure, CtxCosts
<1> QED
  BY <1>4, <1>5, <1>6, <1>7 DEF CtxIInv

LEMMA PrepIs ==
  ASSUME CtxIInv
  PROVE  /\ prep \in Preparation /\ prep.at \in PrepStages /\ prep.on \in BOOLEAN
         /\ prep.kin \subseteq OtherPeople /\ prep.owners \subseteq People
         /\ prep.found \subseteq Notes /\ prep.own \subseteq Notes /\ prep.ofKin \subseteq Notes
         /\ prep.embedded \in BOOLEAN /\ prep.paid \in BOOLEAN
BY DEF CtxIInv, CtxTypes, Preparation

\* A step of the preparation that leaves the world alone keeps what is known of both.
LEMMA QuietTypes ==
  ASSUME CtxIInv, KeepWorld, UNCHANGED <<lookAt, barred>>, listed' = listed \/ listed' = listed \cup {Asker},
         prep' \in Preparation, prep'.at = "asked" => lookAt = "none"
  PROVE  CtxTypes' /\ CtxBarred'
<1>1. listed' \subseteq People
  BY Persons DEF CtxIInv, CtxTypes
<1>2. CtxTypes'
  BY <1>1 DEF CtxIInv, CtxTypes, KeepWorld
<1>3. CtxBarred'
  BY DEF CtxIInv, CtxBarred, KeepWorld, MayRead
<1> QED
  BY <1>2, <1>3

LEMMA ContextBeginKeeps ==
  ASSUME CtxIInv, Begin
  PROVE  CtxIInv'
<1>1. prep' \in Preparation
  BY PrepIs DEF Begin, Onto, Preparation, PrepStages
<1>2. /\ prep.at = "begin"
      /\ prep'.at = "look"
      /\ prep'.on = prep.on
      /\ prep'.kin = prep.kin
      /\ prep'.owners = prep.owners
      /\ prep'.found = prep.found
      /\ prep'.own = prep.own
      /\ prep'.ofKin = prep.ofKin
      /\ prep'.embedded = prep.embedded
      /\ prep'.paid = prep.paid
      /\ KeepWorld /\ UNCHANGED <<lookAt, barred>> /\ listed' = listed
  BY PrepIs DEF Begin, Onto, Quiet, Preparation, PrepStages
<1>3. CtxTypes' /\ CtxBarred'
  BY <1>1, <1>2, QuietTypes DEF CtxIInv, CtxTypes
<1>4. CtxFilled'
  BY <1>2, PrepIs DEF CtxIInv, CtxFilled
<1>5. CtxUnbarred'
  BY <1>2, PrepIs DEF CtxIInv, CtxUnbarred
<1>6. CtxShared'
  BY <1>2, PrepIs DEF CtxIInv, CtxShared, KeepWorld
<1>7. CtxShares'
  BY <1>2, PrepIs DEF CtxIInv, CtxShares
<1>8. CtxFailure'
  BY <1>2, PrepIs DEF CtxIInv, CtxFailure, Disturbed, KeepWorld
<1>9. CtxCosts'
  BY <1>2, PrepIs DEF CtxIInv, CtxCosts, AllFit, AboutWhom, Enabled, KeepWorld
<1> QED
  BY <1>3, <1>4, <1>5, <1>6, <1>7, <1>8, <1>9 DEF CtxIInv

LEMMA FirstLookKeeps ==
  ASSUME CtxIInv, FirstLook
  PROVE  CtxIInv'
<1>a. remembers[Asker] \in BOOLEAN /\ Asker \in People
  BY Persons DEF CtxIInv, CtxTypes
<1>1. prep' \in Preparation
  <2>1. CASE Asker \in listed
    <3>1. /\ prep' = [[prep EXCEPT !.on = remembers[Asker]] EXCEPT !.at = "names"] /\ KeepWorld
          /\ UNCHANGED <<lookAt, barred>> /\ listed' = listed /\ prep.at = "look"
      BY <2>1 DEF FirstLook, LookUp, Onto, Quiet
    <3>2. /\ prep' \in Preparation /\ prep'.at = "names" /\ prep'.on = remembers[Asker]
          /\ prep'.kin = prep.kin
          /\ prep'.owners = prep.owners
          /\ prep'.found = prep.found
          /\ prep'.own = prep.own
          /\ prep'.ofKin = prep.ofKin
          /\ prep'.embedded = prep.embedded
          /\ prep'.paid = prep.paid
      BY <1>a, <3>1, PrepIs DEF Preparation, PrepStages
    <3> QED
      BY <2>1, <3>1, <3>2
  <2>2. CASE Asker \notin listed
    <3>1. /\ prep' = [[prep EXCEPT !.on = FALSE] EXCEPT !.at = "create"] /\ KeepWorld
          /\ UNCHANGED <<lookAt, barred>> /\ listed' = listed /\ prep.at = "look"
      BY <2>2 DEF FirstLook, LookUp, Onto, Quiet
    <3>2. /\ prep' \in Preparation /\ prep'.at = "create" /\ prep'.on = FALSE
          /\ prep'.kin = prep.kin
          /\ prep'.owners = prep.owners
          /\ prep'.found = prep.found
          /\ prep'.own = prep.own
          /\ prep'.ofKin = prep.ofKin
          /\ prep'.embedded = prep.embedded
          /\ prep'.paid = prep.paid
      BY <1>a, <3>1, PrepIs DEF Preparation, PrepStages
    <3> QED
      BY <2>2, <3>1, <3>2
  <2> QED
    BY <2>1, <2>2
<1>2. /\ prep.at = "look"
      /\ prep'.at = IF Asker \in listed THEN "names" ELSE "create"
      /\ prep'.on = IF Asker \in listed THEN remembers[Asker] ELSE FALSE
      /\ prep'.kin = prep.kin
      /\ prep'.owners = prep.owners
      /\ prep'.found = prep.found
      /\ prep'.own = prep.own
      /\ prep'.ofKin = prep.ofKin
      /\ prep'.embedded = prep.embedded
      /\ prep'.paid = prep.paid
      /\ KeepWorld /\ UNCHANGED <<lookAt, barred>> /\ listed' = listed
  <2>1. CASE Asker \in listed
    <3>1. /\ prep' = [[prep EXCEPT !.on = remembers[Asker]] EXCEPT !.at = "names"] /\ KeepWorld
          /\ UNCHANGED <<lookAt, barred>> /\ listed' = listed /\ prep.at = "look"
      BY <2>1 DEF FirstLook, LookUp, Onto, Quiet
    <3>2. /\ prep' \in Preparation /\ prep'.at = "names" /\ prep'.on = remembers[Asker]
          /\ prep'.kin = prep.kin
          /\ prep'.owners = prep.owners
          /\ prep'.found = prep.found
          /\ prep'.own = prep.own
          /\ prep'.ofKin = prep.ofKin
          /\ prep'.embedded = prep.embedded
          /\ prep'.paid = prep.paid
      BY <1>a, <3>1, PrepIs DEF Preparation, PrepStages
    <3> QED
      BY <2>1, <3>1, <3>2
  <2>2. CASE Asker \notin listed
    <3>1. /\ prep' = [[prep EXCEPT !.on = FALSE] EXCEPT !.at = "create"] /\ KeepWorld
          /\ UNCHANGED <<lookAt, barred>> /\ listed' = listed /\ prep.at = "look"
      BY <2>2 DEF FirstLook, LookUp, Onto, Quiet
    <3>2. /\ prep' \in Preparation /\ prep'.at = "create" /\ prep'.on = FALSE
          /\ prep'.kin = prep.kin
          /\ prep'.owners = prep.owners
          /\ prep'.found = prep.found
          /\ prep'.own = prep.own
          /\ prep'.ofKin = prep.ofKin
          /\ prep'.embedded = prep.embedded
          /\ prep'.paid = prep.paid
      BY <1>a, <3>1, PrepIs DEF Preparation, PrepStages
    <3> QED
      BY <2>2, <3>1, <3>2
  <2> QED
    BY <2>1, <2>2
<1>3. CtxTypes' /\ CtxBarred'
  BY <1>1, <1>2, QuietTypes DEF CtxIInv, CtxTypes
<1>4. CtxFilled'
  BY <1>2, PrepIs DEF CtxIInv, CtxFilled
<1>5. CtxUnbarred'
  BY <1>2, PrepIs DEF CtxIInv, CtxUnbarred
<1>6. CtxShared'
  BY <1>2, PrepIs DEF CtxIInv, CtxShared, KeepWorld
<1>7. CtxShares'
  BY <1>2, PrepIs DEF CtxIInv, CtxShares
<1>8. CtxFailure'
  BY <1>2, PrepIs DEF CtxIInv, CtxFailure, Disturbed, KeepWorld
<1>9. CtxCosts'
  BY <1>a, <1>2, PrepIs DEF CtxIInv, CtxTypes, CtxCosts, AllFit, AboutWhom, Enabled, KeepWorld
<1> QED
  BY <1>3, <1>4, <1>5, <1>6, <1>7, <1>8, <1>9 DEF CtxIInv

LEMMA SettingsKeeps ==
  ASSUME CtxIInv, Settings
  PROVE  CtxIInv'
<1>a. remembers[Asker] \in BOOLEAN /\ Asker \in People
  BY Persons DEF CtxIInv, CtxTypes
<1>1. prep' \in Preparation
  <2>1. CASE Asker \in listed
    <3>1. /\ prep' = [[prep EXCEPT !.on = remembers[Asker]] EXCEPT !.at = "names2"] /\ KeepWorld
          /\ UNCHANGED <<lookAt, barred>> /\ listed' = listed /\ prep.at = "settings"
      BY <2>1 DEF Settings, LookUp, Onto, Quiet
    <3>2. /\ prep' \in Preparation /\ prep'.at = "names2" /\ prep'.on = remembers[Asker]
          /\ prep'.kin = prep.kin
          /\ prep'.owners = prep.owners
          /\ prep'.found = prep.found
          /\ prep'.own = prep.own
          /\ prep'.ofKin = prep.ofKin
          /\ prep'.embedded = prep.embedded
          /\ prep'.paid = prep.paid
      BY <1>a, <3>1, PrepIs DEF Preparation, PrepStages
    <3> QED
      BY <2>1, <3>1, <3>2
  <2>2. CASE Asker \notin listed
    <3>1. /\ prep' = [[prep EXCEPT !.on = FALSE] EXCEPT !.at = "newSettings"] /\ KeepWorld
          /\ UNCHANGED <<lookAt, barred>> /\ listed' = listed /\ prep.at = "settings"
      BY <2>2 DEF Settings, LookUp, Onto, Quiet
    <3>2. /\ prep' \in Preparation /\ prep'.at = "newSettings" /\ prep'.on = FALSE
          /\ prep'.kin = prep.kin
          /\ prep'.owners = prep.owners
          /\ prep'.found = prep.found
          /\ prep'.own = prep.own
          /\ prep'.ofKin = prep.ofKin
          /\ prep'.embedded = prep.embedded
          /\ prep'.paid = prep.paid
      BY <1>a, <3>1, PrepIs DEF Preparation, PrepStages
    <3> QED
      BY <2>2, <3>1, <3>2
  <2> QED
    BY <2>1, <2>2
<1>2. /\ prep.at = "settings"
      /\ prep'.at = IF Asker \in listed THEN "names2" ELSE "newSettings"
      /\ prep'.on = IF Asker \in listed THEN remembers[Asker] ELSE FALSE
      /\ prep'.kin = prep.kin
      /\ prep'.owners = prep.owners
      /\ prep'.found = prep.found
      /\ prep'.own = prep.own
      /\ prep'.ofKin = prep.ofKin
      /\ prep'.embedded = prep.embedded
      /\ prep'.paid = prep.paid
      /\ KeepWorld /\ UNCHANGED <<lookAt, barred>> /\ listed' = listed
  <2>1. CASE Asker \in listed
    <3>1. /\ prep' = [[prep EXCEPT !.on = remembers[Asker]] EXCEPT !.at = "names2"] /\ KeepWorld
          /\ UNCHANGED <<lookAt, barred>> /\ listed' = listed /\ prep.at = "settings"
      BY <2>1 DEF Settings, LookUp, Onto, Quiet
    <3>2. /\ prep' \in Preparation /\ prep'.at = "names2" /\ prep'.on = remembers[Asker]
          /\ prep'.kin = prep.kin
          /\ prep'.owners = prep.owners
          /\ prep'.found = prep.found
          /\ prep'.own = prep.own
          /\ prep'.ofKin = prep.ofKin
          /\ prep'.embedded = prep.embedded
          /\ prep'.paid = prep.paid
      BY <1>a, <3>1, PrepIs DEF Preparation, PrepStages
    <3> QED
      BY <2>1, <3>1, <3>2
  <2>2. CASE Asker \notin listed
    <3>1. /\ prep' = [[prep EXCEPT !.on = FALSE] EXCEPT !.at = "newSettings"] /\ KeepWorld
          /\ UNCHANGED <<lookAt, barred>> /\ listed' = listed /\ prep.at = "settings"
      BY <2>2 DEF Settings, LookUp, Onto, Quiet
    <3>2. /\ prep' \in Preparation /\ prep'.at = "newSettings" /\ prep'.on = FALSE
          /\ prep'.kin = prep.kin
          /\ prep'.owners = prep.owners
          /\ prep'.found = prep.found
          /\ prep'.own = prep.own
          /\ prep'.ofKin = prep.ofKin
          /\ prep'.embedded = prep.embedded
          /\ prep'.paid = prep.paid
      BY <1>a, <3>1, PrepIs DEF Preparation, PrepStages
    <3> QED
      BY <2>2, <3>1, <3>2
  <2> QED
    BY <2>1, <2>2
<1>3. CtxTypes' /\ CtxBarred'
  BY <1>1, <1>2, QuietTypes DEF CtxIInv, CtxTypes
<1>4. CtxFilled'
  BY <1>2, PrepIs DEF CtxIInv, CtxFilled
<1>5. CtxUnbarred'
  BY <1>2, PrepIs DEF CtxIInv, CtxUnbarred
<1>6. CtxShared'
  BY <1>2, PrepIs DEF CtxIInv, CtxShared, KeepWorld
<1>7. CtxShares'
  BY <1>2, PrepIs DEF CtxIInv, CtxShares
<1>8. CtxFailure'
  BY <1>2, PrepIs DEF CtxIInv, CtxFailure, Disturbed, KeepWorld
<1>9. CtxCosts'
  BY <1>a, <1>2, PrepIs DEF CtxIInv, CtxTypes, CtxCosts, AllFit, AboutWhom, Enabled, KeepWorld
<1> QED
  BY <1>3, <1>4, <1>5, <1>6, <1>7, <1>8, <1>9 DEF CtxIInv

\* The end of a preparation that comes to nothing.
LEMMA OverKeeps ==
  ASSUME CtxIInv, NEW label \in {"failed", "cancelled"}, label = "failed" => Disturbed,
         prep' = [NoPrep EXCEPT !.at = label], KeepWorld, UNCHANGED <<listed, lookAt, barred>>
  PROVE  CtxIInv'
<1>1. /\ prep' \in Preparation /\ prep'.at = label /\ prep'.kin = {} /\ prep'.owners = {}
      /\ prep'.found = {} /\ prep'.own = {} /\ prep'.ofKin = {} /\ prep'.embedded = FALSE
  BY DEF NoPrep, Preparation, PrepStages
<1>2. CtxTypes' /\ CtxBarred'
  BY <1>1, QuietTypes
<1>3. CtxFilled' /\ CtxUnbarred' /\ CtxShared'
  BY <1>1 DEF CtxFilled, CtxUnbarred, CtxShared
<1>4. CtxShares'
  <2>1. \A p \in OtherPeople : {n \in prep'.ofKin : NoteOwner[n] = p} = {}
    BY <1>1
  <2> QED
    BY <1>1, <2>1, CappedNone DEF CtxShares
<1>5. CtxFailure' /\ CtxCosts'
  BY <1>1 DEF CtxFailure, CtxCosts, Disturbed, KeepWorld
<1> QED
  BY <1>2, <1>3, <1>4, <1>5 DEF CtxIInv

LEMMA RelatedOf ==
  ASSUME CtxIInv, NEW S \in Related(ask.mentioned, IF ask.guild THEN nicknames ELSE {})
  PROVE  S \subseteq OtherPeople /\ (AllFit => S = AboutWhom)
<1> DEFINE M == ask.mentioned
           others == (IF ask.guild THEN nicknames ELSE {}) \ {Asker}
<1>1. M \subseteq OtherPeople /\ others \subseteq OtherPeople /\ Asker \notin OtherPeople
      /\ nicknames \subseteq OtherPeople /\ IsFiniteSet(OtherPeople)
  BY ContextAssumption DEF CtxIInv, CtxTypes, Asks
<1>2. M \cup others = AboutWhom /\ AboutWhom \subseteq OtherPeople
  BY <1>1 DEF AboutWhom
<1>3. IsFiniteSet(AboutWhom)
  BY <1>1, <1>2, FS_Subset
<1>4. Cardinality(M) <= Cardinality(AboutWhom) /\ Cardinality(M) \in Nat /\ Cardinality(AboutWhom) \in Nat
  BY <1>2, <1>3, FS_Subset, FS_CardinalityType
<1>5. S \subseteq AboutWhom
  BY <1>2 DEF Related
<1>6. ASSUME AllFit PROVE S = AboutWhom
  <2>1. Cardinality(AboutWhom) <= MaxRelated /\ MaxRelated \in Nat
    BY <1>6, ContextAssumption DEF AllFit, AboutWhom
  <2>2. Cardinality(M) <= MaxRelated
    BY <1>4, <2>1
  <2>3. S # M \cup others => Cardinality(S) = MaxRelated
    BY <2>2 DEF Related
  <2>4. Cardinality(S) \in Nat
    BY <1>3, <1>5, FS_Subset, FS_CardinalityType
  <2>5. S # AboutWhom => Cardinality(S) < Cardinality(AboutWhom)
    BY <1>3, <1>4, <1>5, <2>4, FS_Subset
  <2> HIDE DEF M, others
  <2> QED
    BY <1>2, <1>4, <2>1, <2>3, <2>4, <2>5
<1> QED
  BY <1>2, <1>5, <1>6

LEMMA FirstCreateGoesKeeps ==
  ASSUME CtxIInv, FirstCreate, Asker \notin listed
  PROVE  CtxIInv'
<1>1. prep' \in Preparation
  BY PrepIs DEF FirstCreate, AddSettings, Onto, Preparation, PrepStages
<1>2. /\ prep.at = "create"
      /\ prep'.at = "names"
      /\ prep'.on = prep.on
      /\ prep'.kin = prep.kin
      /\ prep'.owners = prep.owners
      /\ prep'.found = prep.found
      /\ prep'.own = prep.own
      /\ prep'.ofKin = prep.ofKin
      /\ prep'.embedded = prep.embedded
      /\ prep'.paid = prep.paid
      /\ KeepWorld /\ UNCHANGED <<lookAt, barred>> /\ listed' = listed \cup {Asker}
  BY PrepIs DEF FirstCreate, AddSettings, Onto, Quiet, Preparation, PrepStages
<1>3. CtxTypes' /\ CtxBarred'
  BY <1>1, <1>2, QuietTypes DEF CtxIInv, CtxTypes
<1>4. CtxFilled'
  BY <1>2, PrepIs DEF CtxIInv, CtxFilled
<1>5. CtxUnbarred'
  BY <1>2, PrepIs DEF CtxIInv, CtxUnbarred
<1>6. CtxShared'
  BY <1>2, PrepIs DEF CtxIInv, CtxShared, KeepWorld
<1>7. CtxShares'
  BY <1>2, PrepIs DEF CtxIInv, CtxShares
<1>8. CtxFailure'
  BY <1>2, PrepIs DEF CtxIInv, CtxFailure, Disturbed, KeepWorld
<1>9. CtxCosts'
  BY <1>2, PrepIs DEF CtxIInv, CtxCosts, AllFit, AboutWhom, Enabled, KeepWorld
<1> QED
  BY <1>3, <1>4, <1>5, <1>6, <1>7, <1>8, <1>9 DEF CtxIInv

LEMMA FirstCreateKeeps ==
  ASSUME CtxIInv, FirstCreate
  PROVE  CtxIInv'
<1>1. CASE Asker \notin listed
  BY <1>1, FirstCreateGoesKeeps
<1>2. CASE Asker \in listed
  <2>1. Disturbed
    BY <1>2 DEF CtxIInv, CtxFailure, FirstCreate, AddSettings
  <2>2. prep' = [NoPrep EXCEPT !.at = "failed"] /\ KeepWorld /\ UNCHANGED <<listed, lookAt, barred>>
    BY <1>2 DEF FirstCreate, AddSettings, Onto
  <2> QED
    BY <2>1, <2>2, OverKeeps
<1> QED
  BY <1>1, <1>2

LEMMA NewSettingsGoesKeeps ==
  ASSUME CtxIInv, NewSettings, Asker \notin listed
  PROVE  CtxIInv'
<1>1. prep' \in Preparation
  BY PrepIs DEF NewSettings, AddSettings, Onto, Preparation, PrepStages
<1>2. /\ prep.at = "newSettings"
      /\ prep'.at = "names2"
      /\ prep'.on = prep.on
      /\ prep'.kin = prep.kin
      /\ prep'.owners = prep.owners
      /\ prep'.found = prep.found
      /\ prep'.own = prep.own
      /\ prep'.ofKin = prep.ofKin
      /\ prep'.embedded = prep.embedded
      /\ prep'.paid = prep.paid
      /\ KeepWorld /\ UNCHANGED <<lookAt, barred>> /\ listed' = listed \cup {Asker}
  BY PrepIs DEF NewSettings, AddSettings, Onto, Quiet, Preparation, PrepStages
<1>3. CtxTypes' /\ CtxBarred'
  BY <1>1, <1>2, QuietTypes DEF CtxIInv, CtxTypes
<1>4. CtxFilled'
  BY <1>2, PrepIs DEF CtxIInv, CtxFilled
<1>5. CtxUnbarred'
  BY <1>2, PrepIs DEF CtxIInv, CtxUnbarred
<1>6. CtxShared'
  BY <1>2, PrepIs DEF CtxIInv, CtxShared, KeepWorld
<1>7. CtxShares'
  BY <1>2, PrepIs DEF CtxIInv, CtxShares
<1>8. CtxFailure'
  BY <1>2, PrepIs DEF CtxIInv, CtxFailure, Disturbed, KeepWorld
<1>9. CtxCosts'
  BY <1>2, PrepIs DEF CtxIInv, CtxCosts, AllFit, AboutWhom, Enabled, KeepWorld
<1> QED
  BY <1>3, <1>4, <1>5, <1>6, <1>7, <1>8, <1>9 DEF CtxIInv

LEMMA NewSettingsKeeps ==
  ASSUME CtxIInv, NewSettings
  PROVE  CtxIInv'
<1>1. CASE Asker \notin listed
  BY <1>1, NewSettingsGoesKeeps
<1>2. CASE Asker \in listed
  <2>1. Disturbed
    BY <1>2 DEF CtxIInv, CtxFailure, NewSettings, AddSettings
  <2>2. prep' = [NoPrep EXCEPT !.at = "failed"] /\ KeepWorld /\ UNCHANGED <<listed, lookAt, barred>>
    BY <1>2 DEF NewSettings, AddSettings, Onto
  <2> QED
    BY <2>1, <2>2, OverKeeps
<1> QED
  BY <1>1, <1>2

LEMMA NamesOfKeeps ==
  ASSUME CtxIInv, prep.at = "names",
         NEW S \in Related(ask.mentioned, IF ask.guild THEN nicknames ELSE {}),
         Onto([prep EXCEPT !.kin = S], "allow"), Quiet
  PROVE  CtxIInv'
<1>a. S \subseteq OtherPeople /\ (AllFit => S = AboutWhom)
  BY RelatedOf
<1>1. prep' \in Preparation
  BY PrepIs, <1>a DEF Quiet, Onto, Preparation, PrepStages
<1>2. /\ prep.at = "names"
      /\ prep'.at = "allow"
      /\ prep'.on = prep.on
      /\ prep'.kin = S
      /\ prep'.owners = prep.owners
      /\ prep'.found = prep.found
      /\ prep'.own = prep.own
      /\ prep'.ofKin = prep.ofKin
      /\ prep'.embedded = prep.embedded
      /\ prep'.paid = prep.paid
      /\ KeepWorld /\ UNCHANGED <<lookAt, barred>> /\ listed' = listed
  BY PrepIs, <1>a DEF Quiet, Onto, Quiet, Preparation, PrepStages
<1>3. CtxTypes' /\ CtxBarred'
  BY <1>1, <1>2, QuietTypes DEF CtxIInv, CtxTypes
<1>4. CtxFilled'
  BY <1>2, PrepIs DEF CtxIInv, CtxFilled
<1>5. CtxUnbarred'
  BY <1>2, PrepIs DEF CtxIInv, CtxUnbarred
<1>6. CtxShared'
  BY <1>2, PrepIs DEF CtxIInv, CtxShared, KeepWorld
<1>7. CtxShares'
  BY <1>2, PrepIs DEF CtxIInv, CtxShares
<1>8. CtxFailure'
  BY <1>2, PrepIs DEF CtxIInv, CtxFailure, Disturbed, KeepWorld
<1>9. CtxCosts'
  BY <1>a, <1>2, PrepIs DEF CtxIInv, CtxCosts, AllFit, AboutWhom, Enabled, KeepWorld
<1> QED
  BY <1>3, <1>4, <1>5, <1>6, <1>7, <1>8, <1>9 DEF CtxIInv

LEMMA NamesKeeps ==
  ASSUME CtxIInv, Names
  PROVE  CtxIInv'
BY NamesOfKeeps DEF Names

LEMMA NamesAgainOfKeeps ==
  ASSUME CtxIInv, prep.at = "names2",
         NEW S \in Related(ask.mentioned, IF ask.guild THEN nicknames ELSE {}),
         Onto([prep EXCEPT !.kin = S], "allow2"), Quiet
  PROVE  CtxIInv'
<1>a. S \subseteq OtherPeople /\ (AllFit => S = AboutWhom)
  BY RelatedOf
<1>1. prep' \in Preparation
  BY PrepIs, <1>a DEF Quiet, Onto, Preparation, PrepStages
<1>2. /\ prep.at = "names2"
      /\ prep'.at = "allow2"
      /\ prep'.on = prep.on
      /\ prep'.kin = S
      /\ prep'.owners = prep.owners
      /\ prep'.found = prep.found
      /\ prep'.own = prep.own
      /\ prep'.ofKin = prep.ofKin
      /\ prep'.embedded = prep.embedded
      /\ prep'.paid = prep.paid
      /\ KeepWorld /\ UNCHANGED <<lookAt, barred>> /\ listed' = listed
  BY PrepIs, <1>a DEF Quiet, Onto, Quiet, Preparation, PrepStages
<1>3. CtxTypes' /\ CtxBarred'
  BY <1>1, <1>2, QuietTypes DEF CtxIInv, CtxTypes
<1>4. CtxFilled'
  BY <1>2, PrepIs DEF CtxIInv, CtxFilled
<1>5. CtxUnbarred'
  BY <1>2, PrepIs DEF CtxIInv, CtxUnbarred
<1>6. CtxShared'
  BY <1>2, PrepIs DEF CtxIInv, CtxShared, KeepWorld
<1>7. CtxShares'
  BY <1>2, PrepIs DEF CtxIInv, CtxShares
<1>8. CtxFailure'
  BY <1>2, PrepIs DEF CtxIInv, CtxFailure, Disturbed, KeepWorld
<1>9. CtxCosts'
  BY <1>a, <1>2, PrepIs DEF CtxIInv, CtxCosts, AllFit, AboutWhom, Enabled, KeepWorld
<1> QED
  BY <1>3, <1>4, <1>5, <1>6, <1>7, <1>8, <1>9 DEF CtxIInv

LEMMA NamesAgainKeeps ==
  ASSUME CtxIInv, NamesAgain
  PROVE  CtxIInv'
BY NamesAgainOfKeeps DEF NamesAgain

LEMMA AllowKeeps ==
  ASSUME CtxIInv, Allow
  PROVE  CtxIInv'
<1>a. Enabled(prep.kin) \subseteq OtherPeople
  BY PrepIs DEF Enabled
<1>1. prep' \in Preparation
  BY PrepIs, <1>a DEF Allow, Onto, Preparation, PrepStages
<1>2. /\ prep.at = "allow" \/ (prep.at = "names" /\ ask.how = "search")
      /\ prep'.at = IF (prep.on /\ ask.personal) \/ Enabled(prep.kin) # {} THEN "embed" ELSE "between"
      /\ prep'.on = prep.on
      /\ prep'.kin = Enabled(prep.kin)
      /\ prep'.owners = prep.owners
      /\ prep'.found = prep.found
      /\ prep'.own = prep.own
      /\ prep'.ofKin = prep.ofKin
      /\ prep'.embedded = prep.embedded
      /\ prep'.paid = prep.paid
      /\ KeepWorld /\ UNCHANGED <<lookAt, barred>> /\ listed' = listed
  BY PrepIs, <1>a DEF Allow, Onto, Quiet, Preparation, PrepStages
<1>3. CtxTypes' /\ CtxBarred'
  BY <1>1, <1>2, QuietTypes DEF CtxIInv, CtxTypes
<1>4. CtxFilled'
  BY <1>2, PrepIs DEF CtxIInv, CtxFilled
<1>5. CtxUnbarred'
  BY <1>2, PrepIs DEF CtxIInv, CtxUnbarred
<1>6. CtxShared'
  BY <1>2, PrepIs DEF CtxIInv, CtxShared, KeepWorld
<1>7. CtxShares'
  BY <1>2, PrepIs DEF CtxIInv, CtxShares
<1>8. CtxFailure'
  BY <1>2, PrepIs DEF CtxIInv, CtxFailure, Disturbed, KeepWorld
<1>9. CtxCosts'
  BY <1>2, PrepIs DEF CtxIInv, CtxCosts, AllFit, AboutWhom, Enabled, KeepWorld
<1> QED
  BY <1>3, <1>4, <1>5, <1>6, <1>7, <1>8, <1>9 DEF CtxIInv

LEMMA EmbedKeeps ==
  ASSUME CtxIInv, NEW ok \in BOOLEAN, Embed(ok)
  PROVE  CtxIInv'
<1>1. prep' \in Preparation
  BY PrepIs DEF Embed, Onto, Preparation, PrepStages
<1>2. /\ prep.at = "embed"
      /\ prep'.at = "between"
      /\ prep'.on = prep.on
      /\ prep'.kin = prep.kin
      /\ prep'.owners = prep.owners
      /\ prep'.found = prep.found
      /\ prep'.own = prep.own
      /\ prep'.ofKin = prep.ofKin
      /\ prep'.embedded = ok
      /\ prep'.paid = prep.paid
      /\ KeepWorld /\ UNCHANGED <<lookAt, barred>> /\ listed' = listed
  BY PrepIs DEF Embed, Onto, Quiet, Preparation, PrepStages
<1>3. CtxTypes' /\ CtxBarred'
  BY <1>1, <1>2, QuietTypes DEF CtxIInv, CtxTypes
<1>4. CtxFilled'
  BY <1>2, PrepIs DEF CtxIInv, CtxFilled
<1>5. CtxUnbarred'
  BY <1>2, PrepIs DEF CtxIInv, CtxUnbarred
<1>6. CtxShared'
  BY <1>2, PrepIs DEF CtxIInv, CtxShared, KeepWorld
<1>7. CtxShares'
  BY <1>2, PrepIs DEF CtxIInv, CtxShares
<1>8. CtxFailure'
  BY <1>2, PrepIs DEF CtxIInv, CtxFailure, Disturbed, KeepWorld
<1>9. CtxCosts'
  BY <1>2, PrepIs DEF CtxIInv, CtxCosts, AllFit, AboutWhom, Enabled, KeepWorld
<1> QED
  BY <1>3, <1>4, <1>5, <1>6, <1>7, <1>8, <1>9 DEF CtxIInv

LEMMA AllowAgainKeeps ==
  ASSUME CtxIInv, AllowAgain
  PROVE  CtxIInv'
<1>a. Enabled(prep.kin) \subseteq OtherPeople
  BY PrepIs DEF Enabled
<1>1. prep' \in Preparation
  BY PrepIs, <1>a DEF AllowAgain, Onto, Preparation, PrepStages
<1>2. /\ prep.at = "allow2"
      /\ prep'.at = "usage"
      /\ prep'.on = prep.on
      /\ prep'.kin = Enabled(prep.kin)
      /\ prep'.owners = prep.owners
      /\ prep'.found = prep.found
      /\ prep'.own = prep.own
      /\ prep'.ofKin = prep.ofKin
      /\ prep'.embedded = prep.embedded
      /\ prep'.paid = prep.paid
      /\ KeepWorld /\ UNCHANGED <<lookAt, barred>> /\ listed' = listed
  BY PrepIs, <1>a DEF AllowAgain, Onto, Quiet, Preparation, PrepStages
<1>3. CtxTypes' /\ CtxBarred'
  BY <1>1, <1>2, QuietTypes DEF CtxIInv, CtxTypes
<1>4. CtxFilled'
  BY <1>2, PrepIs DEF CtxIInv, CtxFilled
<1>5. CtxUnbarred'
  BY <1>2, PrepIs DEF CtxIInv, CtxUnbarred
<1>6. CtxShared'
  BY <1>2, PrepIs DEF CtxIInv, CtxShared, KeepWorld
<1>7. CtxShares'
  BY <1>2, PrepIs DEF CtxIInv, CtxShares
<1>8. CtxFailure'
  BY <1>2, PrepIs DEF CtxIInv, CtxFailure, Disturbed, KeepWorld
<1>9. CtxCosts'
  BY <1>2, PrepIs DEF CtxIInv, CtxCosts, AllFit, AboutWhom, Enabled, KeepWorld
<1> QED
  BY <1>3, <1>4, <1>5, <1>6, <1>7, <1>8, <1>9 DEF CtxIInv

LEMMA UsageKeeps ==
  ASSUME CtxIInv, Usage
  PROVE  CtxIInv'
<1>1. prep' \in Preparation
  BY PrepIs DEF Usage, Onto, Preparation, PrepStages
<1>2. /\ prep.at = "usage"
      /\ prep'.at = IF ask.how = "search" THEN "again" ELSE IF prep.on THEN "owners" ELSE "kin"
      /\ prep'.on = prep.on
      /\ prep'.kin = prep.kin
      /\ prep'.owners = prep.owners
      /\ prep'.found = prep.found
      /\ prep'.own = prep.own
      /\ prep'.ofKin = prep.ofKin
      /\ prep'.embedded = prep.embedded
      /\ prep'.paid = (prep.embedded /\ IsUsed(prep))
      /\ KeepWorld /\ UNCHANGED <<lookAt, barred>> /\ listed' = listed
  BY PrepIs DEF Usage, Onto, Quiet, Preparation, PrepStages
<1>3. CtxTypes' /\ CtxBarred'
  BY <1>1, <1>2, QuietTypes DEF CtxIInv, CtxTypes
<1>4. CtxFilled'
  BY <1>2, PrepIs DEF CtxIInv, CtxFilled
<1>5. CtxUnbarred'
  BY <1>2, PrepIs DEF CtxIInv, CtxUnbarred
<1>6. CtxShared'
  BY <1>2, PrepIs DEF CtxIInv, CtxShared, KeepWorld
<1>7. CtxShares'
  BY <1>2, PrepIs DEF CtxIInv, CtxShares
<1>8. CtxFailure'
  BY <1>2, PrepIs DEF CtxIInv, CtxFailure, Disturbed, KeepWorld
<1>9. CtxCosts'
  BY <1>2, PrepIs DEF CtxIInv, CtxTypes, Asks, IsUsed, CtxCosts, AllFit, AboutWhom, Enabled, KeepWorld
<1> QED
  BY <1>3, <1>4, <1>5, <1>6, <1>7, <1>8, <1>9 DEF CtxIInv

LEMMA AgainKeeps ==
  ASSUME CtxIInv, Again
  PROVE  CtxIInv'
<1>a. remembers[Asker] \in BOOLEAN
  BY Persons DEF CtxIInv, CtxTypes
<1>1. prep' \in Preparation
  <2>1. CASE remembers[Asker]
    <3>1. prep' = [[prep EXCEPT !.on = TRUE] EXCEPT !.at = "owners"]
      BY <2>1 DEF Again, Onto
    <3> QED
      BY <3>1, PrepIs DEF Preparation, PrepStages
  <2>2. CASE ~ remembers[Asker]
    <3>1. prep' = [[prep EXCEPT !.on = FALSE] EXCEPT !.at = "flush"]
      BY <2>2 DEF Again, Onto
    <3> QED
      BY <3>1, PrepIs DEF Preparation, PrepStages
  <2> QED
    BY <2>1, <2>2
<1>2. /\ prep.at = "again"
      /\ prep'.at = IF remembers[Asker] THEN "owners" ELSE "flush"
      /\ prep'.on = remembers[Asker]
      /\ prep'.kin = prep.kin
      /\ prep'.owners = prep.owners
      /\ prep'.found = prep.found
      /\ prep'.own = prep.own
      /\ prep'.ofKin = prep.ofKin
      /\ prep'.embedded = prep.embedded
      /\ prep'.paid = prep.paid
      /\ KeepWorld /\ UNCHANGED <<lookAt, barred>> /\ listed' = listed
  BY PrepIs, <1>a DEF Again, Onto, Quiet, Preparation, PrepStages
<1>3. CtxTypes' /\ CtxBarred'
  BY <1>1, <1>2, QuietTypes DEF CtxIInv, CtxTypes
<1>4. CtxFilled'
  BY <1>2, PrepIs DEF CtxIInv, CtxFilled
<1>5. CtxUnbarred'
  BY <1>2, PrepIs DEF CtxIInv, CtxUnbarred
<1>6. CtxShared'
  BY <1>2, PrepIs DEF CtxIInv, CtxShared, KeepWorld
<1>7. CtxShares'
  BY <1>2, PrepIs DEF CtxIInv, CtxShares
<1>8. CtxFailure'
  BY <1>2, PrepIs DEF CtxIInv, CtxFilled, CtxFailure, Disturbed, KeepWorld
<1>9. CtxCosts'
  BY <1>2, PrepIs DEF CtxIInv, CtxCosts, AllFit, AboutWhom, Enabled, KeepWorld
<1> QED
  BY <1>3, <1>4, <1>5, <1>6, <1>7, <1>8, <1>9 DEF CtxIInv

LEMMA OwnersOfKeeps ==
  ASSUME CtxIInv, prep.at = "owners", NEW S \in SUBSET People,
         Onto([prep EXCEPT !.owners = Enabled(S)], "private"), Quiet
  PROVE  CtxIInv'
<1>a. Enabled(S) \subseteq People /\ \A p \in Enabled(S) : p \notin barred.people
  BY DEF Enabled, CtxIInv, CtxBarred
<1>1. prep' \in Preparation
  BY PrepIs, <1>a DEF Quiet, Onto, Preparation, PrepStages
<1>2. /\ prep.at = "owners"
      /\ prep'.at = "private"
      /\ prep'.on = prep.on
      /\ prep'.kin = prep.kin
      /\ prep'.owners = Enabled(S)
      /\ prep'.found = prep.found
      /\ prep'.own = prep.own
      /\ prep'.ofKin = prep.ofKin
      /\ prep'.embedded = prep.embedded
      /\ prep'.paid = prep.paid
      /\ KeepWorld /\ UNCHANGED <<lookAt, barred>> /\ listed' = listed
  BY PrepIs, <1>a DEF Quiet, Onto, Quiet, Preparation, PrepStages
<1>3. CtxTypes' /\ CtxBarred'
  BY <1>1, <1>2, QuietTypes DEF CtxIInv, CtxTypes
<1>4. CtxFilled'
  BY <1>2, PrepIs DEF CtxIInv, CtxFilled
<1>5. CtxUnbarred'
  BY <1>a, <1>2, PrepIs DEF CtxIInv, CtxUnbarred
<1>6. CtxShared'
  BY <1>2, PrepIs DEF CtxIInv, CtxShared, KeepWorld
<1>7. CtxShares'
  BY <1>2, PrepIs DEF CtxIInv, CtxShares
<1>8. CtxFailure'
  BY <1>2, PrepIs DEF CtxIInv, CtxFailure, Disturbed, KeepWorld
<1>9. CtxCosts'
  BY <1>2, PrepIs DEF CtxIInv, CtxCosts, AllFit, AboutWhom, Enabled, KeepWorld
<1> QED
  BY <1>3, <1>4, <1>5, <1>6, <1>7, <1>8, <1>9 DEF CtxIInv

LEMMA OwnersKeeps ==
  ASSUME CtxIInv, Owners
  PROVE  CtxIInv'
BY OwnersOfKeeps, Persons DEF Owners

LEMMA PrivateRowsKeeps ==
  ASSUME CtxIInv, PrivateRows
  PROVE  CtxIInv'
<1>1. prep' \in Preparation
  BY PrepIs DEF PrivateRows, Onto, Preparation, PrepStages
<1>2. /\ prep.at = "private"
      /\ prep'.at = "guild"
      /\ prep'.on = prep.on
      /\ prep'.kin = prep.kin
      /\ prep'.owners = prep.owners
      /\ prep'.found = {n \in Notes : note[n] = "owner" /\ NoteOwner[n] = Asker /\ Asker \in prep.owners}
      /\ prep'.own = prep.own
      /\ prep'.ofKin = prep.ofKin
      /\ prep'.embedded = prep.embedded
      /\ prep'.paid = prep.paid
      /\ KeepWorld /\ UNCHANGED <<lookAt, barred>> /\ listed' = listed
  BY PrepIs DEF PrivateRows, Onto, Quiet, Preparation, PrepStages
<1>3. CtxTypes' /\ CtxBarred'
  BY <1>1, <1>2, QuietTypes DEF CtxIInv, CtxTypes
<1>4. CtxFilled'
  BY <1>2, PrepIs DEF CtxIInv, CtxFilled
<1>5. CtxUnbarred'
  BY <1>2, PrepIs DEF CtxIInv, CtxUnbarred, CtxBarred, MayRead
<1>6. CtxShared'
  BY <1>2, PrepIs DEF CtxIInv, CtxShared, KeepWorld
<1>7. CtxShares'
  BY <1>2, PrepIs DEF CtxIInv, CtxShares
<1>8. CtxFailure'
  BY <1>2, PrepIs DEF CtxIInv, CtxFailure, Disturbed, KeepWorld
<1>9. CtxCosts'
  BY <1>2, PrepIs DEF CtxIInv, CtxCosts, AllFit, AboutWhom, Enabled, KeepWorld
<1> QED
  BY <1>3, <1>4, <1>5, <1>6, <1>7, <1>8, <1>9 DEF CtxIInv

\* What a guild shows can be read by all its members.
LEMMA SharedRowsOf ==
  ASSUME CtxIInv, NEW owners \in SUBSET People, NEW n \in SharedRows(owners)
  PROVE  /\ n \in Notes /\ NoteOwner[n] \in owners /\ ask.guild /\ NoteHere[n] /\ note[n] # "gone"
         /\ n \notin barred.rows
BY DEF SharedRows, CtxIInv, CtxBarred, MayRead

LEMMA GuildRowsOfKeeps ==
  ASSUME CtxIInv, prep.at = "guild", NEW ranking \in AnyRanking(prep.found \cup SharedRows(prep.owners)),
         Onto([prep EXCEPT !.own = Diverse(ranking), !.found = {}, !.owners = {}], "flush"), Quiet
  PROVE  CtxIInv'
<1>a. /\ Diverse(ranking) \subseteq (prep.found \cup SharedRows(prep.owners)) /\ (prep.found \cup SharedRows(prep.owners)) \subseteq Notes
      /\ Capped(Diverse(ranking))
  <2>1. (prep.found \cup SharedRows(prep.owners)) \in SUBSET Notes
    BY PrepIs DEF SharedRows
  <2> QED
    BY <2>1, DiverseOf
<1>b. \A n \in Diverse(ranking) : n \in prep.found \/ n \in SharedRows(prep.owners)
  BY <1>a
<1>c. \A n \in SharedRows(prep.owners) :
        /\ n \in Notes /\ NoteOwner[n] \in prep.owners /\ ask.guild /\ NoteHere[n]
        /\ note[n] # "gone" /\ n \notin barred.rows
  BY SharedRowsOf, PrepIs
<1>1. prep' \in Preparation
  BY PrepIs, <1>a DEF Quiet, Onto, Preparation, PrepStages
<1>2. /\ prep.at = "guild"
      /\ prep'.at = "flush"
      /\ prep'.on = prep.on
      /\ prep'.kin = prep.kin
      /\ prep'.owners = {}
      /\ prep'.found = {}
      /\ prep'.own = Diverse(ranking)
      /\ prep'.ofKin = prep.ofKin
      /\ prep'.embedded = prep.embedded
      /\ prep'.paid = prep.paid
      /\ KeepWorld /\ UNCHANGED <<lookAt, barred>> /\ listed' = listed
  BY PrepIs, <1>a DEF Quiet, Onto, Quiet, Preparation, PrepStages
<1>3. CtxTypes' /\ CtxBarred'
  BY <1>1, <1>2, QuietTypes DEF CtxIInv, CtxTypes
<1>4. CtxFilled'
  BY <1>2, PrepIs DEF CtxIInv, CtxFilled
<1>5. CtxUnbarred'
  BY <1>a, <1>b, <1>c, <1>2, PrepIs DEF CtxIInv, CtxUnbarred
<1>6. CtxShared'
  BY <1>a, <1>b, <1>c, <1>2, PrepIs DEF CtxIInv, CtxShared, KeepWorld
<1>7. CtxShares'
  BY <1>a, <1>b, <1>c, <1>2, PrepIs DEF CtxIInv, CtxShares
<1>8. CtxFailure'
  BY <1>a, <1>b, <1>c, <1>2, PrepIs DEF CtxIInv, CtxFailure, Disturbed, KeepWorld
<1>9. CtxCosts'
  BY <1>2, PrepIs DEF CtxIInv, CtxCosts, AllFit, AboutWhom, Enabled, KeepWorld
<1> QED
  BY <1>3, <1>4, <1>5, <1>6, <1>7, <1>8, <1>9 DEF CtxIInv

LEMMA GuildRowsKeeps ==
  ASSUME CtxIInv, GuildRows
  PROVE  CtxIInv'
BY GuildRowsOfKeeps DEF GuildRows

LEMMA FlushOwnGoesKeeps ==
  ASSUME CtxIInv, prep.at = "flush", Onto(prep, (IF ask.how = "search" THEN "asked" ELSE "kin")), Quiet
  PROVE  CtxIInv'
<1>1. prep' \in Preparation
  BY PrepIs DEF Quiet, Onto, Preparation, PrepStages
<1>2. /\ prep.at = "flush"
      /\ prep'.at = (IF ask.how = "search" THEN "asked" ELSE "kin")
      /\ prep'.on = prep.on
      /\ prep'.kin = prep.kin
      /\ prep'.owners = prep.owners
      /\ prep'.found = prep.found
      /\ prep'.own = prep.own
      /\ prep'.ofKin = prep.ofKin
      /\ prep'.embedded = prep.embedded
      /\ prep'.paid = prep.paid
      /\ KeepWorld /\ UNCHANGED <<lookAt, barred>> /\ listed' = listed
  BY PrepIs DEF Quiet, Onto, Quiet, Preparation, PrepStages
<1>3. CtxTypes' /\ CtxBarred'
  BY <1>1, <1>2, QuietTypes DEF CtxIInv, CtxTypes
<1>4. CtxFilled'
  BY <1>2, PrepIs DEF CtxIInv, CtxFilled
<1>5. CtxUnbarred'
  BY <1>2, PrepIs DEF CtxIInv, CtxUnbarred
<1>6. CtxShared'
  BY <1>2, PrepIs DEF CtxIInv, CtxShared, KeepWorld
<1>7. CtxShares'
  BY <1>2, PrepIs DEF CtxIInv, CtxShares
<1>8. CtxFailure'
  BY <1>2, PrepIs DEF CtxIInv, CtxFilled, CtxFailure, Disturbed, KeepWorld
<1>9. CtxCosts'
  BY <1>2, PrepIs DEF CtxIInv, CtxTypes, Asks, CtxCosts, AllFit, AboutWhom, Enabled, KeepWorld
<1> QED
  BY <1>3, <1>4, <1>5, <1>6, <1>7, <1>8, <1>9 DEF CtxIInv

LEMMA FlushOwnKeeps ==
  ASSUME CtxIInv, FlushOwn
  PROVE  CtxIInv'
<1>1. CASE Onto(prep, (IF ask.how = "search" THEN "asked" ELSE "kin"))
  BY <1>1, FlushOwnGoesKeeps DEF FlushOwn, Flush
<1>2. CASE Onto(NoPrep, "failed") /\ {n \in prep.own : note[n] = "gone"} # {}
  <2>1. Disturbed
    BY <1>2 DEF CtxIInv, CtxFailure, FlushOwn, Flush
  <2> QED
    BY <1>2, <2>1, OverKeeps DEF FlushOwn, Flush, Onto, Quiet
<1> QED
  BY <1>1, <1>2 DEF FlushOwn, Flush

LEMMA FlushKinGoesKeeps ==
  ASSUME CtxIInv, prep.at = "kinFlush", Onto(prep, "prepared"), Quiet
  PROVE  CtxIInv'
<1>1. prep' \in Preparation
  BY PrepIs DEF Quiet, Onto, Preparation, PrepStages
<1>2. /\ prep.at = "kinFlush"
      /\ prep'.at = "prepared"
      /\ prep'.on = prep.on
      /\ prep'.kin = prep.kin
      /\ prep'.owners = prep.owners
      /\ prep'.found = prep.found
      /\ prep'.own = prep.own
      /\ prep'.ofKin = prep.ofKin
      /\ prep'.embedded = prep.embedded
      /\ prep'.paid = prep.paid
      /\ KeepWorld /\ UNCHANGED <<lookAt, barred>> /\ listed' = listed
  BY PrepIs DEF Quiet, Onto, Quiet, Preparation, PrepStages
<1>3. CtxTypes' /\ CtxBarred'
  BY <1>1, <1>2, QuietTypes DEF CtxIInv, CtxTypes
<1>4. CtxFilled'
  BY <1>2, PrepIs DEF CtxIInv, CtxFilled
<1>5. CtxUnbarred'
  BY <1>2, PrepIs DEF CtxIInv, CtxUnbarred
<1>6. CtxShared'
  BY <1>2, PrepIs DEF CtxIInv, CtxShared, KeepWorld
<1>7. CtxShares'
  BY <1>2, PrepIs DEF CtxIInv, CtxShares
<1>8. CtxFailure'
  BY <1>2, PrepIs DEF CtxIInv, CtxFilled, CtxFailure, Disturbed, KeepWorld
<1>9. CtxCosts'
  BY <1>2, PrepIs DEF CtxIInv, CtxTypes, Asks, CtxCosts, AllFit, AboutWhom, Enabled, KeepWorld
<1> QED
  BY <1>3, <1>4, <1>5, <1>6, <1>7, <1>8, <1>9 DEF CtxIInv

LEMMA FlushKinKeeps ==
  ASSUME CtxIInv, FlushKin
  PROVE  CtxIInv'
<1>1. CASE Onto(prep, "prepared")
  BY <1>1, FlushKinGoesKeeps DEF FlushKin, Flush
<1>2. CASE Onto(NoPrep, "failed") /\ {n \in prep.ofKin : note[n] = "gone"} # {}
  <2>1. Disturbed
    BY <1>2 DEF CtxIInv, CtxFailure, FlushKin, Flush
  <2> QED
    BY <1>2, <2>1, OverKeeps DEF FlushKin, Flush, Onto, Quiet
<1> QED
  BY <1>1, <1>2 DEF FlushKin, Flush

LEMMA KinKeeps ==
  ASSUME CtxIInv, Kin
  PROVE  CtxIInv'
<1>a. Enabled(prep.kin) \subseteq OtherPeople /\ \A p \in Enabled(prep.kin) : p \notin barred.people
  BY PrepIs DEF Enabled, CtxIInv, CtxBarred
<1>1. prep' \in Preparation
  BY PrepIs, <1>a DEF Kin, Onto, Preparation, PrepStages
<1>2. /\ prep.at = "kin"
      /\ prep'.at = IF Enabled(prep.kin) = {} THEN "prepared" ELSE "kinRows"
      /\ prep'.on = prep.on
      /\ prep'.kin = Enabled(prep.kin)
      /\ prep'.owners = prep.owners
      /\ prep'.found = prep.found
      /\ prep'.own = prep.own
      /\ prep'.ofKin = prep.ofKin
      /\ prep'.embedded = prep.embedded
      /\ prep'.paid = prep.paid
      /\ KeepWorld /\ UNCHANGED <<lookAt, barred>> /\ listed' = listed
  BY PrepIs, <1>a DEF Kin, Onto, Quiet, Preparation, PrepStages
<1>3. CtxTypes' /\ CtxBarred'
  BY <1>1, <1>2, QuietTypes DEF CtxIInv, CtxTypes
<1>4. CtxFilled'
  BY <1>2, PrepIs DEF CtxIInv, CtxFilled
<1>5. CtxUnbarred'
  BY <1>a, <1>2, PrepIs DEF CtxIInv, CtxUnbarred
<1>6. CtxShared'
  BY <1>2, PrepIs DEF CtxIInv, CtxShared, KeepWorld
<1>7. CtxShares'
  BY <1>2, PrepIs DEF CtxIInv, CtxShares, CtxFilled
<1>8. CtxFailure'
  BY <1>2, PrepIs DEF CtxIInv, CtxFilled, CtxFailure, Disturbed, KeepWorld
<1>9. CtxCosts'
  BY <1>2, PrepIs DEF CtxIInv, CtxCosts, AllFit, AboutWhom, Enabled, KeepWorld
<1> QED
  BY <1>3, <1>4, <1>5, <1>6, <1>7, <1>8, <1>9 DEF CtxIInv

LEMMA KinRowsOfKeeps ==
  ASSUME CtxIInv, prep.at = "kinRows", NEW p \in prep.kin, p \in OtherPeople,
         NEW ranking \in AnyRanking(SharedRows({p})),
         Onto([prep EXCEPT !.ofKin = @ \cup Diverse(ranking), !.kin = @ \ {p}],
              IF prep.kin = {p} THEN "kinFlush" ELSE "kinRows"), Quiet
  PROVE  CtxIInv'
<1>a. /\ Diverse(ranking) \subseteq SharedRows({p}) /\ SharedRows({p}) \subseteq Notes
      /\ Capped(Diverse(ranking))
  <2>1. SharedRows({p}) \in SUBSET Notes
    BY PrepIs DEF SharedRows
  <2> QED
    BY <2>1, DiverseOf
<1>b. \A n \in Diverse(ranking) :
        /\ n \in Notes /\ NoteOwner[n] = p /\ ask.guild /\ NoteHere[n]
        /\ note[n] # "gone" /\ n \notin barred.rows
  <2>1. p \in People
    BY Persons
  <2> QED
    BY <1>a, <2>1, SharedRowsOf
<1>1. prep' \in Preparation
  BY PrepIs, <1>a DEF Quiet, Onto, Preparation, PrepStages
<1>2. /\ prep.at = "kinRows"
      /\ prep'.at = IF prep.kin = {p} THEN "kinFlush" ELSE "kinRows"
      /\ prep'.on = prep.on
      /\ prep'.kin = prep.kin \ {p}
      /\ prep'.owners = prep.owners
      /\ prep'.found = prep.found
      /\ prep'.own = prep.own
      /\ prep'.ofKin = prep.ofKin \cup Diverse(ranking)
      /\ prep'.embedded = prep.embedded
      /\ prep'.paid = prep.paid
      /\ KeepWorld /\ UNCHANGED <<lookAt, barred>> /\ listed' = listed
  BY PrepIs, <1>a DEF Quiet, Onto, Quiet, Preparation, PrepStages
<1>3. CtxTypes' /\ CtxBarred'
  BY <1>1, <1>2, QuietTypes DEF CtxIInv, CtxTypes
<1>4. CtxFilled'
  BY <1>2, PrepIs DEF CtxIInv, CtxFilled
<1>5. CtxUnbarred'
  BY <1>a, <1>b, <1>2, PrepIs DEF CtxIInv, CtxUnbarred
<1>6. CtxShared'
  BY <1>a, <1>b, <1>2, PrepIs DEF CtxIInv, CtxShared, KeepWorld
<1>7. CtxShares'
  <2>1. \A q \in OtherPeople : q # p =>
          {n \in prep'.ofKin : NoteOwner[n] = q} = {n \in prep.ofKin : NoteOwner[n] = q}
    BY <1>b, <1>2
  <2>2. {n \in prep'.ofKin : NoteOwner[n] = p} = Diverse(ranking)
    BY <1>b, <1>2 DEF CtxIInv, CtxShares
  <2>3. \A q \in OtherPeople : Capped({n \in prep'.ofKin : NoteOwner[n] = q})
    BY <1>a, <2>1, <2>2 DEF CtxIInv, CtxShares
  <2>4. \A q \in prep'.kin : {n \in prep'.ofKin : NoteOwner[n] = q} = {}
    BY <1>2, <2>1, PrepIs DEF CtxIInv, CtxShares
  <2> QED
    BY <1>2, <2>3, <2>4 DEF CtxIInv, CtxShares
<1>8. CtxFailure'
  BY <1>a, <1>b, <1>2, PrepIs DEF CtxIInv, CtxFailure, Disturbed, KeepWorld
<1>9. CtxCosts'
  BY <1>2, PrepIs DEF CtxIInv, CtxCosts, AllFit, AboutWhom, Enabled, KeepWorld
<1> QED
  BY <1>3, <1>4, <1>5, <1>6, <1>7, <1>8, <1>9 DEF CtxIInv

LEMMA KinRowsKeeps ==
  ASSUME CtxIInv, NEW p \in OtherPeople, KinRows(p)
  PROVE  CtxIInv'
BY KinRowsOfKeeps DEF KinRows

\* When the second transaction begins nothing has been read.
LEMMA BeginAnewKeeps ==
  ASSUME CtxIInv, BeginAnew
  PROVE  CtxIInv'
<1>1. /\ prep.at = "between" /\ KeepWorld /\ UNCHANGED <<listed, lookAt>>
      /\ prep' = [prep EXCEPT !.at = IF ask.how = "answer" THEN "settings" ELSE "usage"]
      /\ barred'.rows = {n \in Notes : ~ MayRead(note[n], n)}
      /\ barred'.people = {p \in People : ~ remembers[p]}
      /\ barred' = [rows |-> {n \in Notes : ~ MayRead(note[n], n)},
                    people |-> {p \in People : ~ remembers[p]}]
  BY DEF BeginAnew, Onto
<1>2. /\ prep' \in Preparation /\ prep'.at \in {"settings", "usage"}
      /\ prep'.at = "usage" => ask.how # "answer"
      /\ prep'.kin = prep.kin /\ prep'.owners = {} /\ prep'.found = {} /\ prep'.own = {}
      /\ prep'.ofKin = {} /\ prep'.embedded = prep.embedded /\ prep'.paid = prep.paid
  BY <1>1, PrepIs DEF CtxIInv, CtxFilled, Preparation, PrepStages
<1>3. barred' \in [rows : SUBSET Notes, people : SUBSET People]
  BY <1>1
<1>4. CtxTypes'
  BY <1>1, <1>2, <1>3 DEF CtxIInv, CtxTypes, KeepWorld
<1>5. CtxBarred'
  BY <1>1 DEF CtxBarred, KeepWorld, MayRead
<1>6. CtxFilled' /\ CtxUnbarred' /\ CtxShared'
  BY <1>2 DEF CtxFilled, CtxUnbarred, CtxShared
<1>7. CtxShares'
  <2>1. \A p \in OtherPeople : {n \in prep'.ofKin : NoteOwner[n] = p} = {}
    BY <1>2
  <2> QED
    BY <1>2, <2>1, CappedNone DEF CtxShares
<1>8. CtxFailure' /\ CtxCosts'
  BY <1>1, <1>2 DEF CtxIInv, CtxFailure, CtxCosts, AllFit, AboutWhom, Enabled, KeepWorld
<1> QED
  BY <1>4, <1>5, <1>6, <1>7, <1>8 DEF CtxIInv

\* Only the image analysis goes on, or its cost is recorded.
LEMMA LookedAtKeeps ==
  ASSUME CtxIInv, NEW cost \in BOOLEAN, LookedAt(cost)
  PROVE  CtxIInv'
<1>1. /\ UNCHANGED <<ask, remembers, listed, nicknames, note, prep, barred, stirs>>
      /\ lookAt = "running" /\ lookAt' \in {"none", "running", "unpaid"}
  BY DEF LookedAt
<1>2. CtxTypes'
  BY <1>1 DEF CtxIInv, CtxTypes
<1>3. CtxBarred' /\ CtxFilled' /\ CtxUnbarred' /\ CtxShared'
  BY <1>1 DEF CtxIInv, CtxBarred, CtxFilled, CtxUnbarred, CtxShared, MayRead
<1>4. CtxShares' /\ CtxFailure' /\ CtxCosts'
  BY <1>1 DEF CtxIInv, CtxShares, CtxFailure, Disturbed, CtxCosts, AllFit, AboutWhom, Enabled
<1> QED
  BY <1>2, <1>3, <1>4 DEF CtxIInv

LEMMA AskModelKeeps ==
  ASSUME CtxIInv, AskModel
  PROVE  CtxIInv'
<1>1. /\ prep.at = "prepared" /\ prep' = [prep EXCEPT !.at = "asked"] /\ KeepWorld
      /\ UNCHANGED <<listed, barred>> /\ lookAt' = "none"
  BY DEF AskModel, Onto
<1>2. /\ prep' \in Preparation /\ prep'.at = "asked" /\ prep'.kin = prep.kin
      /\ prep'.owners = prep.owners /\ prep'.found = prep.found /\ prep'.own = prep.own
      /\ prep'.ofKin = prep.ofKin /\ prep'.embedded = prep.embedded /\ prep'.paid = prep.paid
  BY <1>1, PrepIs DEF Preparation, PrepStages
<1>3. CtxTypes'
  BY <1>1, <1>2 DEF CtxIInv, CtxTypes, KeepWorld
<1>4. CtxBarred'
  BY <1>1 DEF CtxIInv, CtxBarred, KeepWorld, MayRead
<1>5. CtxFilled' /\ CtxUnbarred' /\ CtxShared'
  BY <1>1, <1>2 DEF CtxIInv, CtxFilled, CtxUnbarred, CtxShared, KeepWorld
<1>6. CtxShares' /\ CtxFailure'
  BY <1>1, <1>2 DEF CtxIInv, CtxShares, CtxFailure
<1>7. CtxCosts'
  BY <1>1, <1>2 DEF CtxIInv, CtxCosts, AllFit, AboutWhom, Enabled, KeepWorld
<1> QED
  BY <1>3, <1>4, <1>5, <1>6, <1>7 DEF CtxIInv

LEMMA CancelAskKeeps ==
  ASSUME CtxIInv, CancelAsk
  PROVE  CtxIInv'
BY OverKeeps DEF CancelAsk, Onto, KeepWorld

\* The work of others: what it bars it does not bar anew, and in a transaction it is the
\* work of a pool.
LEMMA StirredKeeps ==
  ASSUME CtxIInv, MayStir, NEW on \in [People -> BOOLEAN], NEW sights \in [Notes -> Sights],
         Stirred(on, sights), listed' \in SUBSET People, listed \subseteq listed',
         nicknames' \in SUBSET OtherPeople, \A p \in People \ listed' : ~ on[p]
  PROVE  CtxIInv'
<1>1. /\ UNCHANGED <<ask, prep, lookAt>> /\ remembers' = on /\ note' = sights
      /\ barred'.rows = {n \in barred.rows : ~ MayRead(sights[n], n)}
      /\ barred'.people = {p \in barred.people : ~ on[p]}
      /\ barred' = [rows |-> {n \in barred.rows : ~ MayRead(sights[n], n)},
                    people |-> {p \in barred.people : ~ on[p]}]
  BY DEF Stirred
<1>2. stirs' \in Nat /\ stirs' <= MaxStirs /\ stirs' > 0
  BY Persons DEF CtxIInv, CtxTypes, MayStir
<1>3. barred.rows \subseteq Notes /\ barred.people \subseteq People
  BY DEF CtxIInv, CtxTypes
<1>4. barred' \in [rows : SUBSET Notes, people : SUBSET People]
  BY <1>1, <1>3
<1>5. CtxTypes'
  BY <1>1, <1>2, <1>4 DEF CtxIInv, CtxTypes
<1>6. CtxBarred'
  BY <1>1 DEF CtxBarred, MayRead
<1>7. CtxFilled' /\ CtxShared' /\ CtxShares'
  BY <1>1 DEF CtxIInv, CtxFilled, CtxShared, CtxShares
<1>8. CtxUnbarred'
  BY <1>1 DEF CtxIInv, CtxUnbarred
<1>9. CtxFailure'
  <2>1. prep.at \in FirstTransaction \cup SecondTransaction => Disturbed'
    BY <1>1, <1>2 DEF MayStir, Disturbed
  <2>2. prep.at # "failed"
    BY DEF MayStir, Over
  <2> QED
    BY <1>1, <2>1, <2>2 DEF CtxFailure, FirstTransaction, SecondTransaction
<1>10. CtxCosts'
  BY <1>2 DEF CtxCosts
<1> QED
  BY <1>5, <1>6, <1>7, <1>8, <1>9, <1>10 DEF CtxIInv

LEMMA StirKeeps ==
  ASSUME CtxIInv, Stir
  PROVE  CtxIInv'
<1>1. /\ remembers \in [People -> BOOLEAN] /\ note \in [Notes -> Sights]
      /\ listed \in SUBSET People /\ nicknames \in SUBSET OtherPeople
      /\ \A p \in People \ listed : ~ remembers[p]
  BY DEF CtxIInv, CtxTypes
<1>2. ASSUME NEW p \in People, FirstSettings(p) PROVE CtxIInv'
  BY <1>1, <1>2, StirredKeeps DEF FirstSettings
<1>3. ASSUME NEW p \in People, NEW on \in BOOLEAN, SetMemory(p, on) PROVE CtxIInv'
  <2>1. [remembers EXCEPT ![p] = on] \in [People -> BOOLEAN]
    BY <1>1
  <2>2. \A q \in People \ (listed \cup {p}) : ~ [remembers EXCEPT ![p] = on][q]
    BY <1>1
  <2> QED
    BY <1>1, <1>3, <2>1, <2>2, StirredKeeps DEF SetMemory
<1>4. ASSUME NEW n \in Notes, NEW sight \in Sights, ChangeNote(n, sight) PROVE CtxIInv'
  <2>1. [note EXCEPT ![n] = sight] \in [Notes -> Sights]
    BY <1>1
  <2> QED
    BY <1>1, <1>4, <2>1, StirredKeeps DEF ChangeNote
<1>5. ASSUME NEW S \in SUBSET OtherPeople, Rename(S) PROVE CtxIInv'
  BY <1>1, <1>5, StirredKeeps DEF Rename
<1> QED
  BY <1>2, <1>3, <1>4, <1>5 DEF Stir

LEMMA ContextKept ==
  ASSUME CtxIInv, [ContextNext]_contextVars
  PROVE  CtxIInv'
<1>1. CASE UNCHANGED contextVars
  <2>1. CtxTypes' /\ CtxBarred' /\ CtxFilled' /\ CtxUnbarred' /\ CtxShared'
    BY <1>1 DEF contextVars, CtxIInv, CtxTypes, CtxBarred, CtxFilled, CtxUnbarred, CtxShared,
                MayRead
  <2>2. CtxShares' /\ CtxFailure' /\ CtxCosts'
    BY <1>1 DEF contextVars, CtxIInv, CtxShares, CtxFailure, Disturbed, CtxCosts, AllFit,
                AboutWhom, Enabled
  <2> QED
    BY <2>1, <2>2 DEF CtxIInv
<1>2. CASE Begin \/ FirstLook \/ FirstCreate \/ Names \/ Allow \/ \E ok \in BOOLEAN : Embed(ok)
  BY <1>2, ContextBeginKeeps, FirstLookKeeps, FirstCreateKeeps, NamesKeeps, AllowKeeps, EmbedKeeps
<1>3. CASE BeginAnew \/ Settings \/ NewSettings \/ NamesAgain \/ AllowAgain \/ Usage \/ Again
  BY <1>3, BeginAnewKeeps, SettingsKeeps, NewSettingsKeeps, NamesAgainKeeps, AllowAgainKeeps,
     UsageKeeps, AgainKeeps
<1>4. CASE \/ Owners \/ PrivateRows \/ GuildRows \/ FlushOwn \/ Kin
           \/ (\E p \in OtherPeople : KinRows(p)) \/ FlushKin
  BY <1>4, OwnersKeeps, PrivateRowsKeeps, GuildRowsKeeps, FlushOwnKeeps, KinKeeps, KinRowsKeeps,
     FlushKinKeeps
<1>5. CASE (\E cost \in BOOLEAN : LookedAt(cost)) \/ AskModel \/ CancelAsk \/ Stir
  BY <1>5, LookedAtKeeps, AskModelKeeps, CancelAskKeeps, StirKeeps
<1> QED
  BY <1>1, <1>2, <1>3, <1>4, <1>5 DEF ContextNext

LEMMA ContextSound ==
  ASSUME CtxIInv
  PROVE  ContextInv
<1>1. ContextTypeOK
  BY PrepIs, Persons DEF CtxIInv, CtxTypes, ContextTypeOK
<1>2. NothingWithdrawn
  BY DEF CtxIInv, CtxUnbarred, NothingWithdrawn, Quoted
<1>3. OthersShared
  BY DEF CtxIInv, CtxShared, OthersShared, Quoted
<1>4. SharesOfKinds
  BY DEF CtxIInv, CtxShares, SharesOfKinds, Capped
<1>5. CostsAreBooked
  BY DEF CtxIInv, CtxTypes, CtxCosts, CostsAreBooked
<1>6. FailsOnlyWhenStirred
  BY DEF CtxIInv, CtxFailure, FailsOnlyWhenStirred, Disturbed
<1> QED
  BY <1>1, <1>2, <1>3, <1>4, <1>5, <1>6 DEF ContextInv

\* For any people, notes, limits and disturbances: an answer is given nothing that its owner
\* withdrew before the second transaction or has not shared with the guild, no more of a
\* kind than its share, and what it cost is booked (chat/context.py).
THEOREM ContextIsSafe == ContextSpec => []ContextInv
<1>1. ContextInit => CtxIInv
  BY CtxBegins
<1>2. CtxIInv /\ [ContextNext]_contextVars => CtxIInv'
  BY ContextKept
<1>3. CtxIInv => ContextInv
  BY ContextSound
<1> QED
  BY <1>1, <1>2, <1>3, PTL DEF ContextSpec

------------------------------------------------------------------------------
(* MessageContext. What was collected stands where the asker may look and  *)
(* was there since the question (SeenOK), the anchors that are left are in *)
(* their channels (StageOK), and the lines are put together from all of it *)
(* at once (ComposedIs).                                                   *)

Times == Earlier \cup {Question}
Collections ==
  [at : {"idle", "chain", "reply", "links", "link", "anchors", "composed"},
   history : {"none", "look", "fetch", "done"}, recent : SUBSET Earlier,
   chain : Seq(Earlier), linked : Seq(Earlier), todo : Seq(Earlier), left : SUBSET Nat,
   known : [AllPlaces -> SUBSET Times], reading : SUBSET AllPlaces, heard : SUBSET Earlier,
   around : [Earlier -> SUBSET Times]]

MsgTypes ==
  /\ exists \subseteq Earlier /\ cached \subseteq Earlier /\ viewable \subseteq AllPlaces
  /\ unreached \subseteq Earlier /\ turns \in 0 .. MaxTurns /\ collect \in Collections

\* What was collected stands where the asker may look, and was there since the question.
MayShow(m, open) == PlaceOf[m] = Home \/ (PlaceOf[m] \in Guildmates /\ PlaceOf[m] \in open)
SeenOK(r, gone, open) ==
  /\ \A m \in r.recent : PlaceOf[m] = Home /\ m \notin gone
  /\ \A n \in DOMAIN r.chain : PlaceOf[r.chain[n]] = Home
  /\ \A n \in DOMAIN r.linked : MayShow(r.linked[n], open) /\ r.linked[n] \notin gone
  /\ r.at = "link" => r.todo # <<>> /\ MayShow(Head(r.todo), open)
  /\ \A c \in AllPlaces : \A m \in r.known[c] : PlaceOf[m] = c /\ m \notin gone
  /\ \A a \in Earlier : \A m \in r.around[a] : PlaceOf[m] = PlaceOf[a] /\ m \notin gone

AnchorsOf(r) == r.chain \o r.linked
TipOf(r) == IF r.chain = <<>> THEN Question ELSE Last(r.chain)
StageOK(r) ==
  /\ r.at = "idle" => r = NothingYet
  /\ r.at = "reply" => ReplyTo[TipOf(r)] # 0
  /\ r.at \in {"anchors", "composed"} => r.history = "done"
  /\ r.at # "anchors" => r.left = {}
  /\ r.left \subseteq DOMAIN AnchorsOf(r)
  /\ \A c \in r.reading : \E i \in r.left : PlaceOf[AnchorsOf(r)[i]] = c
WholeSides(r) == \A a \in Earlier \ r.heard : Cardinality(r.around[a]) \in {0, 2 * PerSide}

\* Nothing that was gone when the collection began comes back.
GoneStays ==
  collect.at # "idle" => unreached \cap (exists \cup cached) = {} /\ viewable \subseteq opened

LinesOK ==
  /\ collect.at # "composed" => lines = NoLines
  /\ collect.at = "composed" => lines = Composed(Anchors, Nearby, RecentLines)

MessagesIInv ==
  /\ MsgTypes /\ SeenOK(collect, unreached, opened) /\ StageOK(collect) /\ WholeSides(collect)
  /\ GoneStays /\ LinesOK

------------------------------------------------------------------------------
(* Members of a set in an order                                            *)

\* In a strict order of a finite set there is a member behind any number of others that
\* is less than its size.
LEMMA OneBehind ==
  ASSUME NEW S, IsFiniteSet(S), NEW R, \A x \in S : <<x, x>> \notin R,
         \A x, y \in S : x # y => <<x, y>> \in R \/ <<y, x>> \in R,
         \A x, y, z \in S : <<x, y>> \in R /\ <<y, z>> \in R => <<x, z>> \in R,
         NEW n \in 1 .. Cardinality(S)
  PROVE  \E m \in S : Cardinality({k \in S : <<k, m>> \in R}) = n - 1
<1> DEFINE Ahead(m) == {k \in S : <<k, m>> \in R}
           N == Cardinality(S)
           f == [m \in S |-> Cardinality(Ahead(m))]
<1>1. N \in Nat
  BY FS_CardinalityType
<1>2. ASSUME NEW m \in S
      PROVE  IsFiniteSet(Ahead(m)) /\ Cardinality(Ahead(m)) \in 0 .. N - 1
  <2>1. Ahead(m) \subseteq S /\ m \notin Ahead(m)
    OBVIOUS
  <2>2. IsFiniteSet(Ahead(m)) /\ Cardinality(Ahead(m)) <= N /\ (Cardinality(Ahead(m)) = N => Ahead(m) = S)
    BY <2>1, FS_Subset
  <2>3. Cardinality(Ahead(m)) \in Nat
    BY <2>2, FS_CardinalityType
  <2> HIDE DEF Ahead, N
  <2> QED
    BY <1>1, <2>1, <2>2, <2>3
<1>3. ASSUME NEW x \in S, NEW y \in S, <<x, y>> \in R PROVE Cardinality(Ahead(x)) < Cardinality(Ahead(y))
  <2>1. Ahead(x) \subseteq Ahead(y) /\ x \in Ahead(y) /\ x \notin Ahead(x)
    BY <1>3
  <2> HIDE DEF Ahead, N
  <2>2. IsFiniteSet(Ahead(y)) /\ Cardinality(Ahead(x)) \in Nat /\ Cardinality(Ahead(y)) \in Nat
    <3>1. \A i \in 0 .. N - 1 : i \in Nat
      BY <1>1
    <3> QED
      BY <1>2, <3>1
  <2>3. Cardinality(Ahead(x)) <= Cardinality(Ahead(y)) /\ (Cardinality(Ahead(x)) = Cardinality(Ahead(y)) => Ahead(x) = Ahead(y))
    BY <2>1, <2>2, FS_Subset
  <2> QED
    BY <2>1, <2>2, <2>3
<1>4. IsFiniteSet(0 .. N - 1) /\ Cardinality(0 .. N - 1) = N
  <2> HIDE DEF N
  <2>1. 0 \in Int /\ N - 1 \in Int
    BY <1>1
  <2>2. IsFiniteSet(0 .. N - 1) /\ Cardinality(0 .. N - 1) = IF 0 > N - 1 THEN 0 ELSE (N - 1) - 0 + 1
    BY <2>1, FS_Interval
  <2> QED
    BY <1>1, <2>2
<1>5. f \in [S -> 0 .. N - 1]
  BY <1>2
<1>6. f \in Injection(S, 0 .. N - 1)
  <2>1. ASSUME NEW x \in S, NEW y \in S, f[x] = f[y] PROVE x = y
    <3> SUFFICES ASSUME x # y PROVE FALSE
      OBVIOUS
    <3>1. f[x] = Cardinality(Ahead(x)) /\ f[y] = Cardinality(Ahead(y))
      OBVIOUS
    <3>2. Cardinality(Ahead(x)) = Cardinality(Ahead(y)) /\ Cardinality(Ahead(x)) \in Int
      <4>1. f[x] \in Int
        BY <1>5
      <4> HIDE DEF f, Ahead
      <4> QED
        BY <2>1, <3>1, <4>1
    <3> HIDE DEF f, Ahead, N
    <3>3. CASE <<x, y>> \in R
      <4>1. Cardinality(Ahead(x)) < Cardinality(Ahead(y))
        BY <1>3, <3>3
      <4> QED
        BY <3>2, <4>1
    <3>4. CASE <<y, x>> \in R
      <4>1. Cardinality(Ahead(y)) < Cardinality(Ahead(x))
        BY <1>3, <3>4
      <4> QED
        BY <3>2, <4>1
    <3> QED
      BY <3>3, <3>4
  <2> HIDE DEF f
  <2> QED
    BY <1>5, <2>1 DEF Injection, IsInjective
<1>7. f \in Surjection(S, 0 .. N - 1)
  BY <1>4, <1>6, FS_Injection, FS_Surjection
<1>8. n - 1 \in 0 .. N - 1
  BY <1>1
<1> HIDE DEF f
<1>9. PICK m \in S : f[m] = n - 1
  BY <1>7, <1>8 DEF Surjection
<1> QED
  BY <1>9 DEF f

Orders(R, S) ==
  /\ \A x \in S : <<x, x>> \notin R
  /\ \A x, y \in S : x # y => <<x, y>> \in R \/ <<y, x>> \in R
  /\ \A x, y, z \in S : <<x, y>> \in R /\ <<y, z>> \in R => <<x, z>> \in R

LEMMA ArrangedIs ==
  ASSUME NEW S, IsFiniteSet(S), NEW R, Orders(R, S)
  PROVE  Arranged(S, R) \in Seq(S) /\ Len(Arranged(S, R)) = Cardinality(S)
<1>1. Cardinality(S) \in Nat
  BY FS_CardinalityType
<1> DEFINE Has(n, m) == Cardinality({k \in S : <<k, m>> \in R}) = n - 1
           Held(n) == CHOOSE m \in S : Has(n, m)
<1>2. ASSUME NEW n \in 1 .. Cardinality(S) PROVE Held(n) \in S
  <2>1. \E m \in S : Has(n, m)
    BY OneBehind DEF Orders
  <2> HIDE DEF Has
  <2> QED
    BY <2>1
<1>3. Arranged(S, R) = [n \in 1 .. Cardinality(S) |-> Held(n)]
  BY DEF Arranged
<1> HIDE DEF Held
<1>4. Arranged(S, R) \in [1 .. Cardinality(S) -> S]
  BY <1>2, <1>3
<1> QED
  BY <1>1, <1>4

LEMMA MessagesFinite ==
  ASSUME NEW S, S \subseteq Times
  PROVE  IsFiniteSet(S) /\ Cardinality(S) \in Nat
<1>1. IsFiniteSet(Times)
  BY CollectorAssumption, FS_AddElement DEF Times
<1> QED
  BY <1>1, FS_Subset, FS_CardinalityType

LEMMA RecentIs ==
  ASSUME collect \in Collections
  PROVE  /\ RecentLines \in Seq(Times) /\ RecentLines # <<>> /\ RecentLines[Len(RecentLines)] = Question
         /\ ToSet(RecentLines) \subseteq collect.recent \cup {Question}
<1> DEFINE S == collect.recent \cap FreshMessages
           s == Arranged(S, ByTime)
<1>1. S \subseteq Earlier /\ IsFiniteSet(S) /\ S \subseteq collect.recent
  BY MessagesFinite DEF Collections, Times
<1>2. Orders(ByTime, S)
  <2>1. \A x, y \in S : <<x, y>> \in ByTime <=> x < y
    BY <1>1 DEF ByTime
  <2>2. \A x \in S : x \in Nat
    BY <1>1, CollectorAssumption
  <2> HIDE DEF S
  <2> QED
    BY <2>1, <2>2 DEF Orders
<1> HIDE DEF S
<1>3. s \in Seq(S)
  BY <1>1, <1>2, ArrangedIs
<1>4. RecentLines = Append(s, Question)
  BY DEF RecentLines, S
<1> HIDE DEF s
<1>5. RecentLines \in Seq(S \cup {Question}) /\ Len(RecentLines) = Len(s) + 1 /\ Len(s) \in Nat
      /\ RecentLines[Len(s) + 1] = Question
  BY <1>3, <1>4
<1>6. ToSet(RecentLines) \subseteq S \cup {Question}
  BY <1>5 DEF ToSet
<1>7. RecentLines \in Seq(Times)
  BY <1>1, <1>5 DEF Times
<1> QED
  BY <1>1, <1>5, <1>6, <1>7

LEMMA JoinedIs ==
  ASSUME NEW S, NEW s \in Seq(S), NEW t \in Seq(S)
  PROVE  /\ s \o t \in Seq(S) /\ Len(s \o t) \in Nat /\ DOMAIN (s \o t) = 1 .. Len(s \o t)
         /\ \A i \in DOMAIN (s \o t) : (\E n \in DOMAIN s : (s \o t)[i] = s[n]) \/ (\E n \in DOMAIN t : (s \o t)[i] = t[n])
         /\ \A n \in DOMAIN s : n \in DOMAIN (s \o t) /\ (s \o t)[n] = s[n]
<1> DEFINE j == s \o t
           k == Len(s)
           l == Len(t)
<1>1. k \in Nat /\ l \in Nat /\ DOMAIN s = 1 .. k /\ DOMAIN t = 1 .. l
  OBVIOUS
<1>2. j \in Seq(S) /\ Len(j) = k + l /\ DOMAIN j = 1 .. k + l
  OBVIOUS
<1>3. \A i \in 1 .. k + l : j[i] = IF i <= k THEN s[i] ELSE t[i - k]
  OBVIOUS
<1> HIDE DEF j, k, l
<1>4. ASSUME NEW i \in DOMAIN j
      PROVE  (\E n \in DOMAIN s : j[i] = s[n]) \/ (\E n \in DOMAIN t : j[i] = t[n])
  <2>1. CASE i <= k
    BY <1>1, <1>2, <1>3, <2>1
  <2>2. CASE ~ (i <= k)
    <3>1. i - k \in DOMAIN t /\ j[i] = t[i - k]
      BY <1>1, <1>2, <1>3, <2>2
    <3> QED
      BY <3>1
  <2> QED
    BY <2>1, <2>2
<1>5. \A n \in DOMAIN s : n \in DOMAIN j /\ j[n] = s[n]
  BY <1>1, <1>2, <1>3
<1>6. Len(j) \in Nat /\ DOMAIN j = 1 .. Len(j)
  BY <1>1, <1>2
<1> QED
  BY <1>2, <1>4, <1>5, <1>6 DEF j

LEMMA AnchorsIn ==
  ASSUME collect \in Collections
  PROVE  /\ Anchors \in Seq(Earlier) /\ Len(Anchors) \in Nat /\ DOMAIN Anchors = 1 .. Len(Anchors)
         /\ \A i \in DOMAIN Anchors : \/ \E n \in DOMAIN collect.chain : Anchors[i] = collect.chain[n]
                                      \/ \E n \in DOMAIN collect.linked : Anchors[i] = collect.linked[n]
         /\ \A n \in DOMAIN collect.chain : n \in DOMAIN Anchors /\ Anchors[n] = collect.chain[n]
<1>1. collect.chain \in Seq(Earlier) /\ collect.linked \in Seq(Earlier)
  BY DEF Collections
<1> QED
  BY <1>1, JoinedIs DEF Anchors

LEMMA NearbyIs ==
  ASSUME collect \in Collections
  PROVE  /\ Nearby \in Seq(Times)
         /\ \A m \in ToSet(Nearby) : /\ m \in Earlier \ ToSet(Anchors)
                                     /\ \E i \in DOMAIN Anchors : m \in collect.around[Anchors[i]]
<1> DEFINE S == NearAnchors
           Held(m) == {i \in DOMAIN Anchors : m \in collect.around[Anchors[i]]}
<1>1. S \subseteq Earlier /\ IsFiniteSet(S)
  BY MessagesFinite DEF NearAnchors, Times
<1>2. ASSUME NEW m \in S PROVE FirstAnchor(m) \in Nat
  <2>1. Held(m) # {} /\ Held(m) \subseteq Nat
    BY AnchorsIn DEF NearAnchors
  <2>2. PICK i \in Held(m) : \A j \in Held(m) : i <= j
    <3> HIDE DEF Held
    <3> QED
      BY <2>1, LeastOf
  <2>3. i \in DOMAIN Anchors /\ m \in collect.around[Anchors[i]] /\ \A j \in 1 .. i - 1 : m \notin collect.around[Anchors[j]]
    <3>1. ASSUME NEW j \in 1 .. i - 1, m \in collect.around[Anchors[j]] PROVE FALSE
      <4>1. j \in DOMAIN Anchors /\ i \in Nat /\ j < i
        BY AnchorsIn
      <4>2. j \in Held(m)
        BY <3>1, <4>1
      <4> QED
        BY <2>2, <4>1, <4>2
    <3> QED
      BY <3>1
  <2>4. FirstAnchor(m) \in DOMAIN Anchors
    BY <2>3 DEF FirstAnchor
  <2> QED
    BY <2>4, AnchorsIn
<1>3. Orders(ByAnchor, S)
  <2>1. \A x, y \in S : <<x, y>> \in ByAnchor <=>
          FirstAnchor(x) < FirstAnchor(y) \/ (FirstAnchor(x) = FirstAnchor(y) /\ x < y)
    BY DEF ByAnchor
  <2>2. \A x \in S : x \in Nat /\ FirstAnchor(x) \in Nat
    BY <1>1, <1>2, CollectorAssumption
  <2> HIDE DEF S
  <2> QED
    BY <2>1, <2>2 DEF Orders
<1>4. Nearby \in Seq(S)
  BY <1>1, <1>3, ArrangedIs DEF Nearby
<1>5. ToSet(Nearby) \subseteq S
  BY <1>4 DEF ToSet
<1>6. Nearby \in Seq(Times)
  BY <1>1, <1>4 DEF Times
<1> QED
  BY <1>5, <1>6 DEF NearAnchors

------------------------------------------------------------------------------
(* The lines                                                               *)

LEMMA MinMax ==
  ASSUME NEW a \in Int, NEW b \in Int
  PROVE  Min({a, b}) = (IF a <= b THEN a ELSE b) /\ Max({a, b}) = (IF a <= b THEN b ELSE a)
<1>1. Min({a, b}) = IF a <= b THEN a ELSE b
  BY DEF Min
<1>2. Max({a, b}) = IF a <= b THEN b ELSE a
  BY DEF Max
<1> QED
  BY <1>1, <1>2

LEMMA TakeIs ==
  ASSUME NEW S, NEW s \in Seq(S), NEW n \in Nat
  PROVE  /\ Take(s, n) \in Seq(S) /\ Len(Take(s, n)) = (IF n <= Len(s) THEN n ELSE Len(s))
         /\ Len(s) <= n => Take(s, n) = s
         /\ ToSet(Take(s, n)) \subseteq ToSet(s)
<1> DEFINE k == IF n <= Len(s) THEN n ELSE Len(s)
<1>1. Take(s, n) = SubSeq(s, 1, k) /\ k \in 0 .. Len(s)
  BY MinMax DEF Take
<1>2. Take(s, n) \in Seq(S) /\ Len(Take(s, n)) = k /\ \A i \in 1 .. k : Take(s, n)[i] = s[i]
  BY <1>1
<1>3. Len(s) <= n => Take(s, n) = s
  BY <1>2
<1>4. ToSet(Take(s, n)) \subseteq ToSet(s)
  BY <1>1, <1>2 DEF ToSet
<1> QED
  BY <1>2, <1>3, <1>4

LEMMA TakeLastIs ==
  ASSUME NEW S, NEW s \in Seq(S), NEW n \in Nat
  PROVE  /\ TakeLast(s, n) \in Seq(S) /\ Len(TakeLast(s, n)) = (IF n <= Len(s) THEN n ELSE Len(s))
         /\ Len(s) <= n => TakeLast(s, n) = s
         /\ ToSet(TakeLast(s, n)) \subseteq ToSet(s)
         /\ s # <<>> /\ n >= 1 => TakeLast(s, n)[Len(TakeLast(s, n))] = s[Len(s)]
<1> DEFINE l == Len(s)
           t == TakeLast(s, n)
           k == IF n <= l THEN n ELSE l
           j == l - k
<1>1. l \in Nat /\ DOMAIN s = 1 .. l /\ s \in [1 .. l -> S]
  OBVIOUS
<1> HIDE DEF l
<1>2. k \in 0 .. l /\ j \in 0 .. l /\ k + j = l /\ (l <= n => j = 0)
  BY <1>1
<1>3. Max({1, l - n + 1}) = j + 1
  <2>1. 1 \in Int /\ l - n + 1 \in Int
    BY <1>1
  <2>2. Max({1, l - n + 1}) = IF 1 <= l - n + 1 THEN l - n + 1 ELSE 1
    BY <2>1, MinMax
  <2> QED
    BY <1>1, <2>2
<1>4. t = SubSeq(s, j + 1, l)
  BY <1>3 DEF TakeLast, l
<1> HIDE DEF k, j
<1>5. /\ t \in Seq(S) /\ Len(t) = k /\ DOMAIN t = 1 .. k
      /\ \A i \in 1 .. k : t[i] = s[j + i]
  <2>1. t = SubSeq(s, j + 1, j + k)
    BY <1>1, <1>2, <1>4
  <2>2. j \in Nat /\ k \in Nat /\ j + k <= l
    BY <1>1, <1>2
  <2> HIDE DEF t
  <2>3. t = [i \in 1 .. k |-> s[j + i]]
    BY <1>1, <2>1, <2>2
  <2>4. \A i \in 1 .. k : j + i \in 1 .. l
    BY <1>1, <2>2
  <2>5. t \in [1 .. k -> S]
    BY <1>1, <2>3, <2>4
  <2>6. t \in Seq(S) /\ DOMAIN t = 1 .. k
    BY <2>2, <2>5
  <2>7. Len(t) = k
    BY <2>2, <2>5
  <2> QED
    BY <2>3, <2>6, <2>7
<1> HIDE DEF t
<1>6. l <= n => t = s
  <2> SUFFICES ASSUME l <= n PROVE t = s
    OBVIOUS
  <2>1. j = 0 /\ k = l
    BY <1>1, <1>2
  <2>2. \A i \in 1 .. l : t[i] = s[i]
    BY <1>5, <2>1
  <2>3. t \in Seq(S) /\ Len(t) = Len(s)
    BY <1>5, <2>1 DEF l
  <2> QED
    BY <2>2, <2>3 DEF l
<1>7. ToSet(t) \subseteq ToSet(s)
  <2>1. \A i \in 1 .. k : j + i \in DOMAIN s
    BY <1>1, <1>2
  <2> QED
    BY <1>5, <2>1 DEF ToSet
<1>8. s # <<>> /\ n >= 1 => t[Len(t)] = s[Len(s)]
  <2> SUFFICES ASSUME s # <<>>, n >= 1 PROVE t[Len(t)] = s[Len(s)]
    OBVIOUS
  <2>1. l >= 1
    BY <1>1 DEF l
  <2>2. k \in 1 .. k /\ j + k = l
    BY <1>1, <1>2, <2>1 DEF k
  <2> QED
    BY <1>5, <2>2 DEF l
<1>9. Len(t) = IF n <= Len(s) THEN n ELSE Len(s)
  BY <1>5 DEF k, l
<1> QED
  BY <1>5, <1>6, <1>7, <1>8, <1>9 DEF t, l

ComposedWell(c, direct, near, recent) ==
  /\ ToSet(c.direct) \subseteq ToSet(direct) /\ ToSet(c.near) \subseteq ToSet(near)
  /\ ToSet(c.recent) \subseteq ToSet(recent)
  /\ Len(c.direct) + Len(c.near) + Len(c.recent) <= ContextLimit
  /\ c.recent[Len(c.recent)] = recent[Len(recent)]
  /\ direct # <<>> => c.direct # <<>>
  /\ near # <<>> => c.near # <<>>
  /\ Len(c.direct) + Len(c.near) + Len(c.recent) < ContextLimit
       => c.direct = direct /\ c.near = near /\ c.recent = recent

LEMMA ComposedIs ==
  ASSUME NEW S, NEW direct \in Seq(S), NEW near \in Seq(S), NEW recent \in Seq(S), recent # <<>>,
         NEW c, c = Composed(direct, near, recent)
  PROVE  ComposedWell(c, direct, near, recent)
<1> DEFINE room == ContextLimit - 1
           cut == IF near # <<>> /\ room > 1 THEN room - 1 ELSE room
           d == Take(direct, cut)
           n == Take(near, room - Len(d))
           r == TakeLast(recent, ContextLimit - Len(d) - Len(n))
           ld == Len(direct)
           ln == Len(near)
           lr == Len(recent)
<1>1. ContextLimit \in Nat /\ ContextLimit >= 3
  BY CollectorAssumption
<1>2. room \in Nat /\ room >= 2 /\ cut \in Nat /\ cut >= 1 /\ cut <= room
      /\ (near # <<>> => cut = room - 1) /\ (near = <<>> => cut = room)
  BY <1>1
<1>3. ld \in Nat /\ ln \in Nat /\ lr \in Nat /\ lr >= 1 /\ (direct # <<>> => ld >= 1) /\ (near # <<>> <=> ln >= 1)
  OBVIOUS
<1>4. PinnedBudget(recent) = room
  BY DEF PinnedBudget
<1>5. c = [direct |-> d, near |-> n, recent |-> r]
  BY <1>4 DEF Composed
<1> HIDE DEF room, cut
<1>6. /\ d \in Seq(S) /\ Len(d) = (IF cut <= ld THEN cut ELSE ld) /\ (ld <= cut => d = direct)
      /\ ToSet(d) \subseteq ToSet(direct)
  BY <1>2, TakeIs
<1> HIDE DEF d, ld
<1>7. Len(d) \in Nat /\ Len(d) <= cut /\ room - Len(d) \in Nat
  BY <1>2, <1>3, <1>6
<1>8. /\ n \in Seq(S) /\ Len(n) = (IF room - Len(d) <= ln THEN room - Len(d) ELSE ln)
      /\ (ln <= room - Len(d) => n = near) /\ ToSet(n) \subseteq ToSet(near)
  BY <1>7, TakeIs
<1> HIDE DEF n, ln
<1> DEFINE left == ContextLimit - Len(d) - Len(n)
<1>9. Len(n) \in Nat /\ Len(d) + Len(n) <= room /\ left \in Nat /\ left >= 1
  BY <1>1, <1>2, <1>3, <1>7, <1>8 DEF room
<1> HIDE DEF left
<1>10. /\ r \in Seq(S) /\ Len(r) = (IF left <= lr THEN left ELSE lr) /\ (lr <= left => r = recent)
       /\ ToSet(r) \subseteq ToSet(recent) /\ r[Len(r)] = recent[Len(recent)]
  <2>1. r = TakeLast(recent, left)
    BY DEF left
  <2> HIDE DEF r
  <2> QED
    BY <1>9, <2>1, TakeLastIs
<1> HIDE DEF r, lr
<1>11. Len(d) + Len(n) + left = ContextLimit
  BY <1>1, <1>7, <1>9 DEF left
<1>12. Len(d) + Len(n) + Len(r) <= ContextLimit
  BY <1>1, <1>3, <1>7, <1>9, <1>10, <1>11
<1>13. direct # <<>> => d # <<>>
  <2> SUFFICES ASSUME direct # <<>> PROVE Len(d) >= 1
    BY <1>6
  <2> QED
    BY <1>2, <1>3, <1>6
<1>14. near # <<>> => n # <<>>
  <2> SUFFICES ASSUME near # <<>> PROVE Len(n) >= 1
    BY <1>8
  <2> QED
    BY <1>2, <1>3, <1>7, <1>8
<1>15. ASSUME Len(d) + Len(n) + Len(r) < ContextLimit PROVE d = direct /\ n = near /\ r = recent
  <2>1. lr < left /\ r = recent
    BY <1>3, <1>7, <1>9, <1>10, <1>11, <1>15
  <2>2. Len(d) + Len(n) < room
    BY <1>1, <1>3, <1>7, <1>9, <1>11, <2>1 DEF room
  <2>3. ln < room - Len(d) /\ n = near
    BY <1>2, <1>3, <1>7, <1>8, <1>9, <2>2
  <2>4. d = direct
    <3>1. CASE near = <<>>
      BY <1>2, <1>3, <1>6, <1>7, <1>9, <2>2, <3>1
    <3>2. CASE near # <<>>
      <4>1. Len(n) >= 1
        BY <1>3, <2>3, <3>2 DEF ln
      <4> QED
        BY <1>2, <1>3, <1>6, <1>7, <1>9, <2>2, <3>2, <4>1
    <3> QED
      BY <3>1, <3>2
  <2> QED
    BY <2>1, <2>3, <2>4
<1>16. c.direct = d /\ c.near = n /\ c.recent = r
  BY <1>5
<1> QED
  BY <1>6, <1>8, <1>10, <1>12, <1>13, <1>14, <1>15, <1>16 DEF ComposedWell

\* All that a chain links to are earlier messages.
LEMMA LinksAre ==
  ASSUME NEW s \in Seq(Times)
  PROVE  LinksOf(s) \in Seq(Earlier)
<1> DEFINE k == Len(s)
           St == Seq(Earlier)
           Go == [n \in 1 .. k |-> [x \in St |-> x \o LinksIn[s[n]]]]
<1>1. k \in Nat /\ \A n \in 1 .. k : s[n] \in Times
  OBVIOUS
<1>2. ASSUME NEW n \in 1 .. k, NEW x \in St PROVE x \o LinksIn[s[n]] \in St
  <2>1. LinksIn[s[n]] \in Seq(Earlier)
    BY <1>1, CollectorAssumption DEF Times
  <2> QED
    BY <2>1
<1>3. <<>> \in St
  OBVIOUS
<1> HIDE DEF k, St
<1>4. \A n \in 1 .. k : \A x \in St : Go[n][x] \in St /\ Go[n][x] = x \o LinksIn[s[n]]
  BY <1>2
<1> HIDE DEF Go
<1>5. PICK f : IsLoop(f, k, St, <<>>, Go)
  BY <1>1, <1>3, <1>4, LoopOf
<1>6. f \in [0 .. k -> St] /\ f[0] = <<>> /\ \A n \in 1 .. k : f[n] = Go[n][f[n - 1]]
  BY <1>5 DEF IsLoop
<1>7. \A n \in 1 .. k : f[n - 1] \in St /\ f[n] = f[n - 1] \o LinksIn[s[n]]
  <2> TAKE n \in 1 .. k
  <2>1. n - 1 \in 0 .. k
    BY <1>1
  <2> QED
    BY <1>4, <1>6, <2>1
<1> DEFINE Def(g) == g = [n \in 0 .. k |-> IF n = 0 THEN <<>> ELSE g[n - 1] \o LinksIn[s[n]]]
           g == CHOOSE h : Def(h)
<1>8. Def(f)
  <2>1. \A n \in 0 .. k : f[n] = IF n = 0 THEN <<>> ELSE f[n - 1] \o LinksIn[s[n]]
    <3> TAKE n \in 0 .. k
    <3>1. n # 0 => n \in 1 .. k
      BY <1>1
    <3> QED
      BY <1>6, <1>7, <3>1
  <2> QED
    BY <1>6, <2>1
<1>9. Def(g)
  <2> HIDE DEF Def
  <2> QED
    BY <1>8, Zenon
<1>10. LinksOf(s) = g[k]
  BY DEF LinksOf, k
<1>11. \A n \in 0 .. k : g[n] = IF n = 0 THEN <<>> ELSE g[n - 1] \o LinksIn[s[n]]
  <2> HIDE DEF g
  <2> QED
    BY <1>9
<1> HIDE DEF g, Def
<1> DEFINE U == {n \in 0 .. k : g[n] = f[n]}
<1>12. 0 \in U
  BY <1>1, <1>6, <1>11
<1>13. ASSUME NEW n \in 1 .. k, n - 1 \in U PROVE n \in U
  <2>1. n \in 0 .. k /\ n # 0 /\ g[n - 1] = f[n - 1]
    BY <1>1, <1>13
  <2> QED
    BY <1>7, <1>11, <2>1
<1> HIDE DEF U
<1>14. \A n \in 0 .. k : n \in U
  BY <1>1, <1>12, <1>13, UpTo
<1>15. k \in 0 .. k /\ k \in U
  BY <1>1, <1>14
<1>16. f[k] \in St /\ g[k] = f[k]
  BY <1>6, <1>15 DEF U
<1> QED
  BY <1>10, <1>16 DEF St

------------------------------------------------------------------------------
(* The steps                                                               *)

Early == {"chain", "reply", "links", "link"}

LEMMA NothingIs ==
  /\ NothingYet \in Collections /\ SeenOK(NothingYet, {}, {}) /\ StageOK(NothingYet)
  /\ WholeSides(NothingYet)
<1>1. Cardinality({}) = 0
  BY FS_EmptySet
<1>2. <<>> \in Seq(Earlier) /\ DOMAIN <<>> = {}
  OBVIOUS
<1>3. NothingYet \in Collections
  BY <1>2 DEF NothingYet, Collections
<1>4. /\ NothingYet.at = "idle" /\ NothingYet.recent = {} /\ NothingYet.chain = <<>>
      /\ NothingYet.linked = <<>> /\ NothingYet.left = {} /\ NothingYet.reading = {}
      /\ \A c \in AllPlaces : NothingYet.known[c] = {}
      /\ \A a \in Earlier : NothingYet.around[a] = {}
  BY DEF NothingYet
<1>5. SeenOK(NothingYet, {}, {})
  BY <1>2, <1>4 DEF SeenOK
<1>6. StageOK(NothingYet)
  BY <1>4 DEF StageOK
<1>7. WholeSides(NothingYet)
  BY <1>1, <1>4 DEF WholeSides
<1> QED
  BY <1>3, <1>5, <1>6, <1>7

LEMMA MessagesBegins == MessagesInit => MessagesIInv
<1> SUFFICES ASSUME MessagesInit PROVE MessagesIInv
  OBVIOUS
<1>1. /\ collect = NothingYet /\ lines = NoLines /\ opened = {} /\ unreached = {} /\ turns = 0
      /\ exists \subseteq Earlier /\ cached \subseteq Earlier
  BY DEF MessagesInit
<1>2. viewable \subseteq AllPlaces
  BY CollectorAssumption DEF MessagesInit, AllPlaces
<1>3. MsgTypes
  BY <1>1, <1>2, NothingIs, CollectorAssumption DEF MsgTypes
<1>4. collect.at = "idle"
  BY <1>1 DEF NothingYet
<1> QED
  BY <1>1, <1>3, <1>4, NothingIs DEF MessagesIInv, GoneStays, LinesOK

\* A step that only reads keeps the invariant if what was read does.
LEMMA ReadsKeep ==
  ASSUME MessagesIInv, NEW r, Reads(r), r \in Collections, r.at \notin {"idle", "composed"},
         collect.at \notin {"idle", "composed"}, SeenOK(r, unreached, opened), StageOK(r), WholeSides(r)
  PROVE  MessagesIInv'
<1>1. /\ collect' = r /\ exists' = exists /\ cached' = cached /\ viewable' = viewable /\ lines' = lines
      /\ opened' = opened /\ unreached' = unreached /\ turns' = turns
  BY DEF Reads
<1>2. MsgTypes'
  BY <1>1 DEF MessagesIInv, MsgTypes
<1>3. SeenOK(collect, unreached, opened)'
  BY <1>1 DEF SeenOK, MayShow
<1>4. StageOK(collect)' /\ WholeSides(collect)'
  BY <1>1 DEF StageOK, WholeSides, AnchorsOf, TipOf, Last
<1>5. GoneStays'
  BY <1>1 DEF MessagesIInv, GoneStays
<1>6. LinesOK'
  BY <1>1 DEF MessagesIInv, LinesOK
<1> QED
  BY <1>2, <1>3, <1>4, <1>5, <1>6 DEF MessagesIInv

\* Before the anchors are known.
LEMMA EarlyKeeps ==
  ASSUME MessagesIInv, NEW r \in Collections, Reads(r), collect.at \in Early, r.at \in Early,
         r.left = collect.left, r.known = collect.known, r.reading = collect.reading,
         r.heard = collect.heard, r.around = collect.around,
         \A m \in r.recent : PlaceOf[m] = Home /\ m \notin unreached,
         \A n \in DOMAIN r.chain : PlaceOf[r.chain[n]] = Home,
         \A n \in DOMAIN r.linked : MayShow(r.linked[n], opened) /\ r.linked[n] \notin unreached,
         r.at = "link" => r.todo # <<>> /\ MayShow(Head(r.todo), opened),
         r.at = "reply" => ReplyTo[TipOf(r)] # 0
  PROVE  MessagesIInv'
<1>1. SeenOK(collect, unreached, opened) /\ StageOK(collect) /\ WholeSides(collect)
  BY DEF MessagesIInv
<1>2. r.at \notin {"idle", "anchors", "composed"} /\ collect.at \notin {"idle", "anchors", "composed"}
  BY DEF Early
<1>3. SeenOK(r, unreached, opened)
  BY <1>1 DEF SeenOK
<1>4. r.left = {} /\ r.reading = {}
  BY <1>1, <1>2 DEF StageOK
<1>5. StageOK(r)
  BY <1>2, <1>4 DEF StageOK
<1>6. WholeSides(r)
  BY <1>1 DEF WholeSides
<1> QED
  BY <1>2, <1>3, <1>5, <1>6, ReadsKeep

LEMMA StartKeeps ==
  ASSUME MessagesIInv, StartCollecting
  PROVE  MessagesIInv'
<1>1. collect = NothingYet
  BY DEF MessagesIInv, StageOK, StartCollecting
<1> DEFINE r == [collect EXCEPT !.at = "chain", !.history = "look"]
<1>2. /\ collect' = r /\ opened' = viewable /\ unreached' = Earlier \ (exists \cup cached)
      /\ exists' = exists /\ cached' = cached /\ viewable' = viewable /\ lines' = lines /\ turns' = turns
  BY DEF StartCollecting
<1>3. NothingYet \in Collections
  BY NothingIs
<1>4. /\ r \in Collections /\ r.at = "chain" /\ r.recent = {} /\ r.chain = <<>> /\ r.linked = <<>>
      /\ r.left = {} /\ r.reading = {} /\ r.known = NothingYet.known /\ r.around = NothingYet.around
  BY <1>1, <1>3 DEF NothingYet, Collections
<1> HIDE DEF r
<1>5. /\ \A c \in AllPlaces : r.known[c] = {}
      /\ \A a \in Earlier : r.around[a] = {}
  BY <1>4 DEF NothingYet
<1>6. Cardinality({}) = 0 /\ DOMAIN <<>> = {}
  BY FS_EmptySet
<1>7. MsgTypes'
  BY <1>2, <1>4 DEF MessagesIInv, MsgTypes
<1>8. SeenOK(r, unreached', opened')
  BY <1>4, <1>5, <1>6 DEF SeenOK
<1>9. StageOK(r) /\ WholeSides(r)
  BY <1>4, <1>5, <1>6 DEF StageOK, WholeSides
<1>10. GoneStays'
  BY <1>2 DEF GoneStays
<1>11. LinesOK'
  <2>1. lines = NoLines
    BY <1>1 DEF MessagesIInv, LinesOK, NothingYet
  <2> QED
    BY <1>2, <1>4, <2>1 DEF LinesOK
<1>12. SeenOK(collect, unreached, opened)'
  BY <1>2, <1>8 DEF SeenOK, MayShow
<1>13. StageOK(collect)' /\ WholeSides(collect)'
  BY <1>2, <1>9 DEF StageOK, WholeSides, AnchorsOf, TipOf, Last
<1> QED
  BY <1>7, <1>10, <1>11, <1>12, <1>13 DEF MessagesIInv

LEMMA EarlyIs ==
  ASSUME MessagesIInv, collect.at \in Early
  PROVE  /\ collect \in Collections /\ SeenOK(collect, unreached, opened)
         /\ unreached \cap (exists \cup cached) = {} /\ viewable \subseteq opened
         /\ exists \subseteq Earlier /\ cached \subseteq Earlier
BY DEF MessagesIInv, MsgTypes, GoneStays, Early

LEMMA HistoryKeeps ==
  ASSUME MessagesIInv, collect.history \in {"look", "fetch"}, NEW S \in SUBSET Earlier, NEW h \in {"fetch", "done"},
         \A m \in S : PlaceOf[m] = Home /\ m \notin unreached,
         Reads([collect EXCEPT !.recent = S, !.history = h])
  PROVE  MessagesIInv'
<1> DEFINE r == [collect EXCEPT !.recent = S, !.history = h]
<1>1. collect \in Collections /\ StageOK(collect)
  BY DEF MessagesIInv, MsgTypes
<1>2. collect.at \in Early
  <2>1. NothingYet.history = "none"
    BY DEF NothingYet
  <2>2. collect.at \notin {"idle", "anchors", "composed"}
    BY <1>1, <2>1 DEF StageOK
  <2> QED
    BY <1>1, <2>2 DEF Collections, Early
<1>3. SeenOK(collect, unreached, opened)
  BY DEF MessagesIInv
<1>4. /\ r \in Collections /\ r.at = collect.at /\ r.recent = S /\ r.chain = collect.chain
      /\ r.linked = collect.linked /\ r.todo = collect.todo /\ r.left = collect.left
      /\ r.known = collect.known /\ r.reading = collect.reading /\ r.heard = collect.heard
      /\ r.around = collect.around
  BY <1>1 DEF Collections
<1> HIDE DEF r
<1>5. Reads(r)
  BY DEF r
<1>6. r.at = "reply" => ReplyTo[TipOf(r)] # 0
  BY <1>1, <1>4 DEF StageOK, TipOf
<1>7. \A n \in DOMAIN r.chain : PlaceOf[r.chain[n]] = Home
  BY <1>3, <1>4 DEF SeenOK
<1>8. \A n \in DOMAIN r.linked : MayShow(r.linked[n], opened) /\ r.linked[n] \notin unreached
  BY <1>3, <1>4 DEF SeenOK
<1>9. r.at = "link" => r.todo # <<>> /\ MayShow(Head(r.todo), opened)
  BY <1>3, <1>4 DEF SeenOK
<1>10. \A m \in r.recent : PlaceOf[m] = Home /\ m \notin unreached
  BY <1>4
<1> QED
  BY <1>2, <1>4, <1>5, <1>6, <1>7, <1>8, <1>9, <1>10, EarlyKeeps

LEMMA HistoryLookKeeps ==
  ASSUME MessagesIInv, HistoryLook
  PROVE  MessagesIInv'
<1> DEFINE near == LatestOf(In(cached, Home) \cap FreshMessages, ContextLimit)
           h == IF Cardinality(near) >= ContextLimit THEN "done" ELSE "fetch"
<1>1. collect.history = "look" /\ Reads([collect EXCEPT !.recent = near, !.history = h])
  BY DEF HistoryLook
<1>2. collect.at # "idle"
  BY <1>1 DEF MessagesIInv, StageOK, NothingYet
<1>3. unreached \cap (exists \cup cached) = {} /\ cached \subseteq Earlier
  BY <1>2 DEF MessagesIInv, GoneStays, MsgTypes
<1>4. near \subseteq Earlier /\ \A m \in near : PlaceOf[m] = Home /\ m \notin unreached
  BY <1>3 DEF LatestOf, In
<1>5. h \in {"fetch", "done"}
  OBVIOUS
<1> HIDE DEF near, h
<1> QED
  BY <1>1, <1>4, <1>5, HistoryKeeps

LEMMA HistoryFetchKeeps ==
  ASSUME MessagesIInv, NEW n, HistoryFetch(n)
  PROVE  MessagesIInv'
<1> DEFINE S == LatestOf(collect.recent \cup LatestOf(In(exists, Home), n), ContextLimit)
<1>1. collect.history = "fetch" /\ Reads([collect EXCEPT !.recent = S, !.history = "done"])
  BY DEF HistoryFetch
<1>2. collect.at # "idle"
  BY <1>1 DEF MessagesIInv, StageOK, NothingYet
<1>3. unreached \cap (exists \cup cached) = {} /\ exists \subseteq Earlier
  BY <1>2 DEF MessagesIInv, GoneStays, MsgTypes
<1>4. collect.recent \subseteq Earlier /\ \A m \in collect.recent : PlaceOf[m] = Home /\ m \notin unreached
  BY DEF MessagesIInv, MsgTypes, Collections, SeenOK
<1>5. S \subseteq Earlier /\ \A m \in S : PlaceOf[m] = Home /\ m \notin unreached
  BY <1>3, <1>4 DEF LatestOf, In
<1> HIDE DEF S
<1> QED
  BY <1>1, <1>5, HistoryKeeps

------------------------------------------------------------------------------
(* Replies and links                                                       *)

LEMMA TipIs ==
  ASSUME MessagesIInv, collect.at \in Early
  PROVE  /\ TipOf(collect) = Tip /\ Tip \in Times /\ PlaceOf[Tip] = Home
         /\ ReplyTo[Tip] # 0 => ReplyTo[Tip] \in Earlier /\ PlaceOf[ReplyTo[Tip]] = Home
<1>1. collect.chain \in Seq(Earlier) /\ \A n \in DOMAIN collect.chain : PlaceOf[collect.chain[n]] = Home
  BY EarlyIs DEF Collections, SeenOK
<1>2. Tip \in Times /\ PlaceOf[Tip] = Home
  <2>1. CASE collect.chain = <<>>
    BY <2>1, CollectorAssumption DEF Tip, Times
  <2>2. CASE collect.chain # <<>>
    <3>1. Len(collect.chain) \in DOMAIN collect.chain
      BY <1>1, <2>2
    <3> QED
      BY <1>1, <2>2, <3>1 DEF Tip, Times, Last
  <2> QED
    BY <2>1, <2>2
<1>3. TipOf(collect) = Tip
  BY DEF TipOf, Tip
<1>4. ReplyTo[Tip] # 0 => ReplyTo[Tip] \in Earlier /\ PlaceOf[ReplyTo[Tip]] = Home
  BY <1>2, CollectorAssumption DEF Times
<1> QED
  BY <1>2, <1>3, <1>4

\* One more message in the chain.
LEMMA LongerKeeps ==
  ASSUME MessagesIInv, collect.at \in Early, ReplyTo[Tip] # 0, NEW r,
         r = [collect EXCEPT !.at = "chain", !.chain = Append(collect.chain, ReplyTo[Tip])], Reads(r)
  PROVE  MessagesIInv'
<1>1. collect \in Collections /\ SeenOK(collect, unreached, opened)
  BY EarlyIs
<1>2. ReplyTo[Tip] \in Earlier /\ PlaceOf[ReplyTo[Tip]] = Home
  BY TipIs
<1>3. collect.chain \in Seq(Earlier) /\ \A n \in DOMAIN collect.chain : PlaceOf[collect.chain[n]] = Home
  BY <1>1 DEF Collections, SeenOK
<1>4. /\ Append(collect.chain, ReplyTo[Tip]) \in Seq(Earlier)
      /\ \A n \in DOMAIN Append(collect.chain, ReplyTo[Tip]) :
           PlaceOf[Append(collect.chain, ReplyTo[Tip])[n]] = Home
  BY <1>2, <1>3
<1>5. /\ r \in Collections /\ r.at = "chain" /\ r.recent = collect.recent
      /\ r.chain = Append(collect.chain, ReplyTo[Tip])
      /\ r.linked = collect.linked /\ r.left = collect.left
      /\ r.known = collect.known /\ r.reading = collect.reading /\ r.heard = collect.heard
      /\ r.around = collect.around
  BY <1>1, <1>4 DEF Collections
<1>6. \A m \in r.recent : PlaceOf[m] = Home /\ m \notin unreached
  BY <1>1, <1>5 DEF SeenOK
<1>7. \A n \in DOMAIN r.linked : MayShow(r.linked[n], opened) /\ r.linked[n] \notin unreached
  BY <1>1, <1>5 DEF SeenOK
<1>8. r.at \in Early
  BY <1>5 DEF Early
<1>9. \A n \in DOMAIN r.chain : PlaceOf[r.chain[n]] = Home
  BY <1>4, <1>5
<1> QED
  BY <1>5, <1>6, <1>7, <1>8, <1>9, EarlyKeeps

\* The chain is read to its end.
LEMMA ChainEndKeeps ==
  ASSUME MessagesIInv, collect.at \in Early, ChainEnds
  PROVE  MessagesIInv'
<1> DEFINE l == LinksOf(<<Question>> \o collect.chain)
           r == [collect EXCEPT !.at = "links", !.todo = l]
<1>1. collect \in Collections /\ SeenOK(collect, unreached, opened)
  BY EarlyIs
<1>2. <<Question>> \o collect.chain \in Seq(Times)
  <2>1. collect.chain \in Seq(Times) /\ <<Question>> \in Seq(Times)
    BY <1>1 DEF Collections, Times
  <2> QED
    BY <2>1
<1>3. l \in Seq(Earlier)
  BY <1>2, LinksAre
<1> HIDE DEF l
<1>4. /\ r \in Collections /\ r.at = "links" /\ r.recent = collect.recent /\ r.chain = collect.chain
      /\ r.linked = collect.linked /\ r.left = collect.left
      /\ r.known = collect.known /\ r.reading = collect.reading /\ r.heard = collect.heard
      /\ r.around = collect.around
  BY <1>1, <1>3 DEF Collections
<1>5. Reads(r)
  BY DEF ChainEnds, l
<1> HIDE DEF r
<1>6. \A m \in r.recent : PlaceOf[m] = Home /\ m \notin unreached
  BY <1>1, <1>4 DEF SeenOK
<1>7. \A n \in DOMAIN r.linked : MayShow(r.linked[n], opened) /\ r.linked[n] \notin unreached
  BY <1>1, <1>4 DEF SeenOK
<1>8. r.at \in Early
  BY <1>4 DEF Early
<1>9. \A n \in DOMAIN r.chain : PlaceOf[r.chain[n]] = Home
  BY <1>1, <1>4 DEF SeenOK
<1> QED
  BY <1>4, <1>5, <1>6, <1>7, <1>8, <1>9, EarlyKeeps

LEMMA FollowReplyKeeps ==
  ASSUME MessagesIInv, NEW from \in {"copy", "cache", "nowhere"}, FollowReply(from)
  PROVE  MessagesIInv'
<1>1. collect.at = "chain" /\ collect.at \in Early
  BY DEF FollowReply, Early
<1>2. collect \in Collections /\ SeenOK(collect, unreached, opened)
  BY <1>1, EarlyIs
<1>3. CASE Len(collect.chain) = MaxDepth \/ ReplyTo[Tip] = 0
  BY <1>1, <1>3, ChainEndKeeps DEF FollowReply
<1>4. CASE ~ (Len(collect.chain) = MaxDepth \/ ReplyTo[Tip] = 0)
  <2>1. CASE from # "nowhere"
    <3>1. Reads([collect EXCEPT !.chain = Append(collect.chain, ReplyTo[Tip])])
      BY <1>4, <2>1 DEF FollowReply
    <3>2. [collect EXCEPT !.chain = Append(collect.chain, ReplyTo[Tip])]
            = [collect EXCEPT !.at = "chain", !.chain = Append(collect.chain, ReplyTo[Tip])]
      BY <1>1, <1>2 DEF Collections
    <3> QED
      BY <1>1, <1>4, <3>1, <3>2, LongerKeeps
  <2>2. CASE from = "nowhere"
    <3> DEFINE r == [collect EXCEPT !.at = "reply"]
    <3>1. Reads(r)
      BY <1>4, <2>2 DEF FollowReply
    <3>2. /\ r \in Collections /\ r.at = "reply" /\ r.recent = collect.recent /\ r.chain = collect.chain
          /\ r.linked = collect.linked /\ r.left = collect.left
          /\ r.known = collect.known /\ r.reading = collect.reading /\ r.heard = collect.heard
          /\ r.around = collect.around
      BY <1>2 DEF Collections
    <3> HIDE DEF r
    <3>3. \A m \in r.recent : PlaceOf[m] = Home /\ m \notin unreached
      BY <1>2, <3>2 DEF SeenOK
    <3>4. \A n \in DOMAIN r.linked : MayShow(r.linked[n], opened) /\ r.linked[n] \notin unreached
      BY <1>2, <3>2 DEF SeenOK
    <3>5. \A n \in DOMAIN r.chain : PlaceOf[r.chain[n]] = Home
      BY <1>2, <3>2 DEF SeenOK
    <3>6. ReplyTo[TipOf(r)] # 0
      BY <1>1, <1>4, <3>2, TipIs DEF TipOf
    <3>7. r.at \in Early
      BY <3>2 DEF Early
    <3> QED
      BY <1>1, <3>1, <3>2, <3>3, <3>4, <3>5, <3>6, <3>7, EarlyKeeps
  <2> QED
    BY <2>1, <2>2
<1> QED
  BY <1>3, <1>4

LEMMA ReadReplyKeeps ==
  ASSUME MessagesIInv, NEW ok, ReadReply(ok)
  PROVE  MessagesIInv'
<1>1. collect.at = "reply" /\ collect.at \in Early
  BY DEF ReadReply, Early
<1>2. ReplyTo[Tip] # 0
  BY <1>1, TipIs DEF MessagesIInv, StageOK
<1>3. CASE ok /\ ReplyTo[Tip] \in exists
  <2>1. Reads([collect EXCEPT !.at = "chain", !.chain = Append(collect.chain, ReplyTo[Tip])])
    BY <1>3 DEF ReadReply
  <2> QED
    BY <1>1, <1>2, <2>1, LongerKeeps
<1>4. CASE ~ (ok /\ ReplyTo[Tip] \in exists)
  BY <1>1, <1>4, ChainEndKeeps DEF ReadReply
<1> QED
  BY <1>3, <1>4

\* One link is done with.
LEMMA LinkDoneKeeps ==
  ASSUME MessagesIInv, collect.at \in {"links", "link"}, collect.todo # <<>>, NEW s, s \in {collect.linked, Linked(Head(collect.todo))},
         s = collect.linked \/ (MayShow(Head(collect.todo), opened) /\ Head(collect.todo) \notin unreached),
         Reads([collect EXCEPT !.at = "links", !.todo = Tail(collect.todo), !.linked = s])
  PROVE  MessagesIInv'
<1> DEFINE m == Head(collect.todo)
           r == [collect EXCEPT !.at = "links", !.todo = Tail(collect.todo), !.linked = s]
<1>1. collect.at \in Early
  BY DEF Early
<1>2. collect \in Collections /\ SeenOK(collect, unreached, opened)
  BY <1>1, EarlyIs
<1>3. collect.todo \in Seq(Earlier) /\ collect.linked \in Seq(Earlier)
  BY <1>2 DEF Collections
<1>4. m \in Earlier /\ Tail(collect.todo) \in Seq(Earlier)
  BY <1>3
<1>5. s = collect.linked \/ (s = Append(collect.linked, m) /\ MayShow(m, opened) /\ m \notin unreached)
  BY DEF Linked
<1>6. \A n \in DOMAIN collect.linked : MayShow(collect.linked[n], opened) /\ collect.linked[n] \notin unreached
  BY <1>2 DEF SeenOK
<1> HIDE DEF m
<1>7. s \in Seq(Earlier) /\ \A n \in DOMAIN s : MayShow(s[n], opened) /\ s[n] \notin unreached
  <2>1. CASE s = collect.linked
    BY <1>3, <1>6, <2>1
  <2>2. CASE s = Append(collect.linked, m) /\ MayShow(m, opened) /\ m \notin unreached
    <3>1. s \in Seq(Earlier) /\ \A n \in DOMAIN s : s[n] = m \/ (n \in DOMAIN collect.linked /\ s[n] = collect.linked[n])
      BY <1>3, <1>4, <2>2
    <3> QED
      BY <1>6, <2>2, <3>1
  <2> QED
    BY <1>5, <2>1, <2>2
<1>8. /\ r \in Collections /\ r.at = "links" /\ r.recent = collect.recent /\ r.chain = collect.chain
      /\ r.linked = s /\ r.left = collect.left
      /\ r.known = collect.known /\ r.reading = collect.reading /\ r.heard = collect.heard
      /\ r.around = collect.around
  BY <1>2, <1>4, <1>7 DEF Collections
<1>9. Reads(r)
  OBVIOUS
<1> HIDE DEF r
<1>10. \A k \in r.recent : PlaceOf[k] = Home /\ k \notin unreached
  BY <1>2, <1>8 DEF SeenOK
<1>11. r.at \in Early
  BY <1>8 DEF Early
<1>12. \A n \in DOMAIN r.chain : PlaceOf[r.chain[n]] = Home
  BY <1>2, <1>8 DEF SeenOK
<1>13. \A n \in DOMAIN r.linked : MayShow(r.linked[n], opened) /\ r.linked[n] \notin unreached
  BY <1>7, <1>8
<1> QED
  BY <1>1, <1>8, <1>9, <1>10, <1>11, <1>12, <1>13, EarlyKeeps

LEMMA FollowLinkKeeps ==
  ASSUME MessagesIInv, NEW known, FollowLink(known)
  PROVE  MessagesIInv'
<1> DEFINE m == Head(collect.todo)
<1>1. collect.at = "links" /\ collect.todo # <<>> /\ collect.at \in Early
  BY DEF FollowLink, Early
<1>2. /\ collect \in Collections /\ SeenOK(collect, unreached, opened)
      /\ unreached \cap (exists \cup cached) = {} /\ viewable \subseteq opened
  BY <1>1, EarlyIs
<1>3. MayFollow(m) => MayShow(m, opened)
  BY <1>2 DEF MayFollow, MayShow
<1>4. CASE ~ known \/ ~ MayFollow(m)
  <2>1. Reads([collect EXCEPT !.todo = Tail(collect.todo)])
    BY <1>4 DEF FollowLink
  <2>2. [collect EXCEPT !.todo = Tail(collect.todo)]
          = [collect EXCEPT !.at = "links", !.todo = Tail(collect.todo), !.linked = collect.linked]
    BY <1>1, <1>2 DEF Collections
  <2> QED
    BY <1>1, <2>1, <2>2, LinkDoneKeeps
<1>5. CASE ~ (~ known \/ ~ MayFollow(m)) /\ m \in cached
  <2>1. Reads([[collect EXCEPT !.todo = Tail(collect.todo)] EXCEPT !.linked = Linked(m)])
    BY <1>5 DEF FollowLink
  <2>2. [[collect EXCEPT !.todo = Tail(collect.todo)] EXCEPT !.linked = Linked(m)]
          = [collect EXCEPT !.at = "links", !.todo = Tail(collect.todo), !.linked = Linked(m)]
    BY <1>1, <1>2 DEF Collections
  <2>3. MayShow(m, opened) /\ m \notin unreached
    BY <1>2, <1>3, <1>5
  <2> QED
    BY <1>1, <2>1, <2>2, <2>3, LinkDoneKeeps
<1>6. CASE ~ (~ known \/ ~ MayFollow(m)) /\ m \notin cached
  <2> DEFINE r == [collect EXCEPT !.at = "link"]
  <2>1. Reads(r)
    BY <1>6 DEF FollowLink
  <2>2. /\ r \in Collections /\ r.at = "link" /\ r.recent = collect.recent /\ r.chain = collect.chain
        /\ r.linked = collect.linked /\ r.left = collect.left /\ r.todo = collect.todo
        /\ r.known = collect.known /\ r.reading = collect.reading /\ r.heard = collect.heard
        /\ r.around = collect.around
    BY <1>2 DEF Collections
  <2> HIDE DEF r
  <2>3. \A k \in r.recent : PlaceOf[k] = Home /\ k \notin unreached
    BY <1>2, <2>2 DEF SeenOK
  <2>4. \A n \in DOMAIN r.linked : MayShow(r.linked[n], opened) /\ r.linked[n] \notin unreached
    BY <1>2, <2>2 DEF SeenOK
  <2>5. \A n \in DOMAIN r.chain : PlaceOf[r.chain[n]] = Home
    BY <1>2, <2>2 DEF SeenOK
  <2>6. r.todo # <<>> /\ MayShow(Head(r.todo), opened)
    BY <1>1, <1>3, <1>6, <2>2
  <2>7. r.at \in Early
    BY <2>2 DEF Early
  <2> QED
    BY <1>1, <2>1, <2>2, <2>3, <2>4, <2>5, <2>6, <2>7, EarlyKeeps
<1> QED
  BY <1>4, <1>5, <1>6

LEMMA ReadLinkKeeps ==
  ASSUME MessagesIInv, NEW ok, ReadLink(ok)
  PROVE  MessagesIInv'
<1> DEFINE m == Head(collect.todo)
           s == IF ok /\ m \in exists THEN Linked(m) ELSE collect.linked
<1>1. collect.at = "link" /\ collect.at \in Early
  BY DEF ReadLink, Early
<1>2. SeenOK(collect, unreached, opened) /\ unreached \cap (exists \cup cached) = {}
  BY <1>1, EarlyIs
<1>3. collect.todo # <<>> /\ MayShow(m, opened)
  BY <1>1, <1>2 DEF SeenOK
<1>4. Reads([collect EXCEPT !.at = "links", !.todo = Tail(collect.todo), !.linked = s])
  BY DEF ReadLink
<1>5. s \in {collect.linked, Linked(m)} /\ (s = collect.linked \/ (MayShow(m, opened) /\ m \notin unreached))
  BY <1>2, <1>3
<1> HIDE DEF s
<1> QED
  BY <1>1, <1>3, <1>4, <1>5, LinkDoneKeeps

------------------------------------------------------------------------------
(* What was said around them                                               *)

LEMMA BeginAnchorsKeeps ==
  ASSUME MessagesIInv, BeginAnchors
  PROVE  MessagesIInv'
<1> DEFINE seen == collect.recent \cup cached
           k == [c \in AllPlaces |-> In(seen, c) \cup (IF c = Home THEN {Question} ELSE {})]
           r == [collect EXCEPT !.at = "anchors", !.left = DOMAIN Anchors, !.known = k]
<1>1. collect.at = "links" /\ collect.history = "done" /\ collect.at \in Early /\ Reads(r)
  BY DEF BeginAnchors, Early
<1>2. /\ collect \in Collections /\ SeenOK(collect, unreached, opened)
      /\ unreached \cap (exists \cup cached) = {} /\ cached \subseteq Earlier
  BY <1>1, EarlyIs
<1>3. unreached \subseteq Earlier /\ Question \notin Earlier
  <2>1. ASSUME Question \in Earlier PROVE FALSE
    <3>1. Question < Question /\ Question \in Nat
      BY <2>1, CollectorAssumption
    <3> QED
      BY <3>1
  <2> QED
    BY <2>1 DEF MessagesIInv, MsgTypes
<1>4. DOMAIN Anchors \in SUBSET Nat
  <2>1. DOMAIN Anchors = 1 .. Len(Anchors) /\ Len(Anchors) \in Nat
    BY <1>2, AnchorsIn
  <2> HIDE DEF r, k
  <2> QED
    BY <2>1
<1>5. seen \subseteq Earlier /\ \A m \in seen : m \notin unreached
  BY <1>2 DEF Collections, SeenOK
<1> HIDE DEF seen
<1>6. /\ k \in [AllPlaces -> SUBSET Times]
      /\ \A c \in AllPlaces : \A m \in k[c] : PlaceOf[m] = c /\ m \notin unreached
  BY <1>3, <1>5, CollectorAssumption DEF In, Times
<1> HIDE DEF k
<1>7. /\ r \in Collections /\ r.at = "anchors" /\ r.recent = collect.recent /\ r.chain = collect.chain
      /\ r.linked = collect.linked /\ r.left = DOMAIN Anchors /\ r.history = collect.history
      /\ r.known = k /\ r.reading = collect.reading /\ r.heard = collect.heard
      /\ r.around = collect.around
  BY <1>2, <1>4, <1>6 DEF Collections
<1> HIDE DEF r
<1>8. SeenOK(r, unreached, opened)
  BY <1>2, <1>6, <1>7 DEF SeenOK
<1>9. AnchorsOf(r) = Anchors
  BY <1>7 DEF AnchorsOf, Anchors
<1>10. collect.reading = {}
  BY <1>1 DEF MessagesIInv, StageOK
<1>11. StageOK(r)
  BY <1>1, <1>7, <1>9, <1>10 DEF StageOK
<1>12. WholeSides(r)
  BY <1>7 DEF MessagesIInv, WholeSides
<1> QED
  BY <1>1, <1>7, <1>8, <1>11, <1>12, ReadsKeep

LEMMA NextIs ==
  ASSUME MessagesIInv, NEW c, LeftIn(c) # {}
  PROVE  /\ collect.at = "anchors" /\ NextLeft(c) \in collect.left
         /\ Anchors[NextLeft(c)] \in Earlier /\ PlaceOf[Anchors[NextLeft(c)]] = c
<1>1. collect \in Collections /\ StageOK(collect)
  BY DEF MessagesIInv, MsgTypes
<1>2. LeftIn(c) \subseteq collect.left /\ collect.left \subseteq DOMAIN Anchors /\ collect.left \subseteq Nat
  BY <1>1 DEF StageOK, LeftIn, AnchorsOf, Anchors, Collections
<1>3. PICK i \in LeftIn(c) : \A j \in LeftIn(c) : i <= j
  BY <1>2, LeastOf
<1>4. NextLeft(c) \in LeftIn(c)
  BY <1>3 DEF NextLeft
<1>5. collect.at = "anchors"
  BY <1>1, <1>2, <1>4 DEF StageOK
<1>6. Anchors \in Seq(Earlier)
  BY <1>1, AnchorsIn
<1>7. NextLeft(c) \in DOMAIN Anchors /\ PlaceOf[Anchors[NextLeft(c)]] = c
  BY <1>2, <1>4 DEF LeftIn
<1> QED
  BY <1>2, <1>4, <1>5, <1>6, <1>7

LEMMA SidesIn ==
  ASSUME NEW S, NEW a
  PROVE  Before(a, S) \cup After(a, S) \subseteq S
BY DEF Before, After, LatestOf, Oldest

\* A look or a read at one anchor, and all else as it was.
AroundStep(c, a, S, K, H, r) ==
  /\ LeftIn(c) # {} /\ a = Anchors[NextLeft(c)]
  /\ S \in SUBSET Times /\ \A m \in S : PlaceOf[m] = c /\ m \notin unreached
  /\ K \in SUBSET Times /\ \A m \in K : PlaceOf[m] = c /\ m \notin unreached
  /\ H \in SUBSET Earlier /\ collect.heard \subseteq H
  /\ a \notin H => Cardinality(S) \in {0, 2 * PerSide}
  /\ Reads(r) /\ r \in Collections /\ r.at = collect.at /\ r.history = collect.history
  /\ r.recent = collect.recent /\ r.chain = collect.chain /\ r.linked = collect.linked
  /\ r.left = collect.left \ {NextLeft(c)}
  /\ r.known = [collect.known EXCEPT ![c] = K] /\ r.reading = collect.reading \ {c}
  /\ r.heard = H /\ r.around = [collect.around EXCEPT ![a] = S]

LEMMA AroundKeeps ==
  ASSUME MessagesIInv, NEW c \in AllPlaces, NEW a, NEW S, NEW K, NEW H, NEW r,
         AroundStep(c, a, S, K, H, r)
  PROVE  MessagesIInv'
<1>0. /\ LeftIn(c) # {} /\ a = Anchors[NextLeft(c)]
      /\ S \in SUBSET Times /\ \A m \in S : PlaceOf[m] = c /\ m \notin unreached
      /\ \A m \in K : PlaceOf[m] = c /\ m \notin unreached
      /\ collect.heard \subseteq H /\ (a \notin H => Cardinality(S) \in {0, 2 * PerSide})
      /\ Reads(r) /\ r \in Collections /\ r.at = collect.at /\ r.history = collect.history
      /\ r.recent = collect.recent /\ r.chain = collect.chain /\ r.linked = collect.linked
      /\ r.left = collect.left \ {NextLeft(c)}
      /\ r.known = [collect.known EXCEPT ![c] = K] /\ r.reading = collect.reading \ {c}
      /\ r.heard = H /\ r.around = [collect.around EXCEPT ![a] = S]
  BY DEF AroundStep
<1>1. collect \in Collections /\ SeenOK(collect, unreached, opened) /\ StageOK(collect) /\ WholeSides(collect)
  BY DEF MessagesIInv, MsgTypes
<1>2. collect.at = "anchors" /\ NextLeft(c) \in collect.left /\ a \in Earlier /\ PlaceOf[a] = c
  BY <1>0, NextIs
<1>3. collect.known \in [AllPlaces -> SUBSET Times] /\ collect.around \in [Earlier -> SUBSET Times]
  BY <1>1 DEF Collections
<1>4. \A d \in AllPlaces : r.known[d] = IF d = c THEN K ELSE collect.known[d]
  BY <1>0, <1>3
<1>5. \A b \in Earlier : r.around[b] = IF b = a THEN S ELSE collect.around[b]
  BY <1>0, <1>3
<1>6. SeenOK(r, unreached, opened)
  <2>1. \A d \in AllPlaces : \A m \in r.known[d] : PlaceOf[m] = d /\ m \notin unreached
    BY <1>0, <1>1, <1>4 DEF SeenOK
  <2>2. \A b \in Earlier : \A m \in r.around[b] : PlaceOf[m] = PlaceOf[b] /\ m \notin unreached
    BY <1>0, <1>1, <1>2, <1>5 DEF SeenOK
  <2>3. r.at # "link"
    BY <1>0, <1>2
  <2> QED
    BY <1>0, <1>1, <2>1, <2>2, <2>3 DEF SeenOK
<1>7. AnchorsOf(r) = AnchorsOf(collect) /\ AnchorsOf(collect) = Anchors
  BY <1>0 DEF AnchorsOf, Anchors
<1>8. \A d \in r.reading : \E i \in r.left : PlaceOf[AnchorsOf(r)[i]] = d
  <2> TAKE d \in r.reading
  <2>1. d # c /\ d \in collect.reading
    BY <1>0
  <2>2. PICK i \in collect.left : PlaceOf[Anchors[i]] = d
    BY <1>1, <1>7, <2>1 DEF StageOK
  <2>3. i \in r.left
    BY <1>0, <1>2, <2>1, <2>2
  <2> QED
    BY <1>7, <2>2, <2>3
<1>9. StageOK(r)
  BY <1>0, <1>1, <1>2, <1>7, <1>8 DEF StageOK
<1>10. WholeSides(r)
  BY <1>0, <1>1, <1>5 DEF WholeSides
<1> QED
  BY <1>0, <1>2, <1>6, <1>9, <1>10, ReadsKeep

LEMMA WholeIs ==
  ASSUME NEW a \in Earlier, NEW S \in SUBSET Times, Enough(a, S)
  PROVE  Cardinality(Before(a, S) \cup After(a, S)) = 2 * PerSide
<1>1. IsFiniteSet(Before(a, S)) /\ IsFiniteSet(After(a, S))
  BY SidesIn, MessagesFinite
<1>2. \A m \in Times : m \in Nat
  BY CollectorAssumption DEF Times
<1>3. Before(a, S) \cap After(a, S) = {}
  <2>1. a \in Nat
    BY <1>2 DEF Times
  <2>2. \A m \in Before(a, S) : m < a /\ m \in Nat
    BY <1>2 DEF Before, LatestOf
  <2>3. \A m \in After(a, S) : m > a
    BY DEF After, Oldest
  <2> QED
    BY <2>1, <2>2, <2>3
<1>4. Cardinality(Before(a, S)) = PerSide /\ Cardinality(After(a, S)) = PerSide /\ PerSide \in Nat
  BY CollectorAssumption DEF Enough
<1>5. Cardinality(Before(a, S) \cup After(a, S))
        = Cardinality(Before(a, S)) + Cardinality(After(a, S)) - Cardinality(Before(a, S) \cap After(a, S))
  BY <1>1, FS_Union
<1>6. Cardinality(Before(a, S) \cap After(a, S)) = 0
  BY <1>3, FS_EmptySet
<1> QED
  BY <1>4, <1>5, <1>6

LEMMA AnchorLookKeeps ==
  ASSUME MessagesIInv, NEW c \in AllPlaces, AnchorLook(c)
  PROVE  MessagesIInv'
<1> DEFINE a == Anchors[NextLeft(c)]
           S == collect.known[c]
           B == Before(a, S) \cup After(a, S)
<1>1. collect.at = "anchors" /\ c \notin collect.reading /\ LeftIn(c) # {}
  BY DEF AnchorLook
<1>2. /\ collect \in Collections /\ SeenOK(collect, unreached, opened) /\ StageOK(collect)
      /\ WholeSides(collect)
  BY DEF MessagesIInv, MsgTypes
<1>3. NextLeft(c) \in collect.left /\ a \in Earlier /\ PlaceOf[a] = c
  BY <1>1, NextIs
<1>4. S \in SUBSET Times /\ \A m \in S : PlaceOf[m] = c /\ m \notin unreached
  BY <1>2 DEF Collections, SeenOK
<1>5. CASE Enough(a, S)
  <2> DEFINE r == [[collect EXCEPT !.around = [collect.around EXCEPT ![a] = B]]
                     EXCEPT !.left = collect.left \ {NextLeft(c)}]
  <2>1. Reads([collect EXCEPT !.around[a] = B, !.left = @ \ {NextLeft(c)}])
    BY <1>5 DEF AnchorLook
  <2>2. [collect EXCEPT !.around[a] = B, !.left = @ \ {NextLeft(c)}] = r
    BY <1>2 DEF Collections
  <2>3. B \subseteq S
    BY SidesIn
  <2>4. Cardinality(B) = 2 * PerSide
    BY <1>3, <1>4, <1>5, WholeIs
  <2> HIDE DEF a, S, B
  <2>5. [collect.around EXCEPT ![a] = B] \in [Earlier -> SUBSET Times]
    BY <1>2, <1>3, <1>4, <2>3 DEF Collections
  <2>6. collect.known = [collect.known EXCEPT ![c] = S] /\ collect.reading = collect.reading \ {c}
    BY <1>1, <1>2 DEF Collections, S
  <2>7. /\ r \in Collections /\ r.at = collect.at /\ r.history = collect.history
        /\ r.recent = collect.recent /\ r.chain = collect.chain /\ r.linked = collect.linked
        /\ r.todo = collect.todo /\ r.left = collect.left \ {NextLeft(c)}
        /\ r.known = collect.known /\ r.reading = collect.reading
        /\ r.heard = collect.heard /\ r.around = [collect.around EXCEPT ![a] = B]
    BY <1>2, <2>5 DEF Collections
  <2> HIDE DEF r
  <2>8. Reads(r)
    BY <2>1, <2>2
  <2>9. B \in SUBSET Times /\ \A m \in B : PlaceOf[m] = c /\ m \notin unreached
    BY <1>4, <2>3
  <2>10. collect.heard \in SUBSET Earlier
    BY <1>2 DEF Collections
  <2>11. a = Anchors[NextLeft(c)]
    BY DEF a
  <2>12. AroundStep(c, a, B, S, collect.heard, r)
    BY <1>1, <1>4, <2>4, <2>6, <2>7, <2>8, <2>9, <2>10, <2>11 DEF AroundStep
  <2> QED
    BY <2>12, AroundKeeps
<1>6. CASE ~ Enough(a, S)
  <2> DEFINE r == [collect EXCEPT !.reading = collect.reading \cup {c}]
  <2>1. Reads(r)
    BY <1>6 DEF AnchorLook
  <2>2. /\ r \in Collections /\ r.at = "anchors" /\ r.history = collect.history
        /\ r.recent = collect.recent /\ r.chain = collect.chain /\ r.linked = collect.linked
        /\ r.left = collect.left /\ r.known = collect.known /\ r.reading = collect.reading \cup {c}
        /\ r.heard = collect.heard /\ r.around = collect.around
    BY <1>1, <1>2 DEF Collections
  <2> HIDE DEF r
  <2>3. SeenOK(r, unreached, opened)
    BY <1>2, <2>2 DEF SeenOK
  <2>4. AnchorsOf(r) = AnchorsOf(collect) /\ AnchorsOf(collect) = Anchors
    BY <2>2 DEF AnchorsOf, Anchors
  <2>5. StageOK(r)
    BY <1>1, <1>2, <1>3, <2>2, <2>4 DEF StageOK
  <2>6. WholeSides(r)
    BY <1>2, <2>2 DEF WholeSides
  <2> QED
    BY <1>1, <2>1, <2>2, <2>3, <2>5, <2>6, ReadsKeep
<1> QED
  BY <1>5, <1>6

LEMMA ReadAroundKeeps ==
  ASSUME MessagesIInv, NEW c \in AllPlaces, NEW ok \in BOOLEAN, ReadAround(c, ok)
  PROVE  MessagesIInv'
<1> DEFINE a == Anchors[NextLeft(c)]
           read == IF ok THEN Window(a) ELSE {}
           K == collect.known[c] \cup read
           H == IF ok THEN collect.heard \cup {a} ELSE collect.heard
           B == Before(a, read) \cup After(a, read)
           r == [collect EXCEPT !.reading = @ \ {c}, !.left = @ \ {NextLeft(c)},
                                !.known[c] = @ \cup read,
                                !.heard = IF ok THEN @ \cup {a} ELSE @,
                                !.around[a] = B]
<1>1. c \in collect.reading /\ Reads(r)
  BY DEF ReadAround
<1>2. /\ collect \in Collections /\ SeenOK(collect, unreached, opened) /\ StageOK(collect)
      /\ unreached \subseteq Earlier
  BY DEF MessagesIInv, MsgTypes
<1>3. LeftIn(c) # {}
  BY <1>1, <1>2 DEF StageOK, LeftIn, AnchorsOf, Anchors
<1>4. collect.at = "anchors" /\ NextLeft(c) \in collect.left /\ a \in Earlier /\ PlaceOf[a] = c
  BY <1>3, NextIs
<1>5. unreached \cap (exists \cup cached) = {} /\ exists \subseteq Earlier
  BY <1>4 DEF MessagesIInv, GoneStays, MsgTypes
<1>6. Question \notin Earlier
  <2>1. ASSUME Question \in Earlier PROVE FALSE
    <3>1. Question < Question /\ Question \in Nat
      BY <2>1, CollectorAssumption
    <3> QED
      BY <3>1
  <2> QED
    BY <2>1
<1> DEFINE there == In(exists, PlaceOf[a]) \cup (IF PlaceOf[a] = Home THEN {Question} ELSE {})
<1>7. there \subseteq Times /\ \A m \in there : PlaceOf[m] = c /\ m \notin unreached
  BY <1>2, <1>4, <1>5, <1>6, CollectorAssumption DEF In, Times
<1>8. Window(a) \subseteq there
  <2> HIDE DEF r, K, B, H, read, a
  <2> QED
    BY DEF Window, LatestOf, Oldest
<1> HIDE DEF there
<1>9. read \in SUBSET Times /\ \A m \in read : PlaceOf[m] = c /\ m \notin unreached
  BY <1>7, <1>8
<1>10. ~ ok => read = {}
  OBVIOUS
<1>11. B \subseteq read
  BY SidesIn
<1>12. ~ ok => Cardinality(B) = 0
  BY <1>10, <1>11, FS_EmptySet
<1>13. /\ collect.known \in [AllPlaces -> SUBSET Times] /\ collect.around \in [Earlier -> SUBSET Times]
       /\ collect.heard \in SUBSET Earlier
  BY <1>2 DEF Collections
<1>14. \A m \in collect.known[c] : PlaceOf[m] = c /\ m \notin unreached
  BY <1>2 DEF SeenOK
<1>15. H \in SUBSET Earlier /\ collect.heard \subseteq H /\ (ok => a \in H)
  BY <1>4, <1>13
<1>16. r = [[[[[collect EXCEPT !.reading = collect.reading \ {c}] EXCEPT !.left = collect.left \ {NextLeft(c)}]
                 EXCEPT !.known = [collect.known EXCEPT ![c] = K]] EXCEPT !.heard = H]
              EXCEPT !.around = [collect.around EXCEPT ![a] = B]]
  <2> HIDE DEF a, read, B
  <2> QED
    BY <1>2 DEF Collections
<1> HIDE DEF a, read, H, B
<1>17. K \in SUBSET Times /\ \A m \in K : PlaceOf[m] = c /\ m \notin unreached
  BY <1>9, <1>13, <1>14
<1>18. B \in SUBSET Times /\ \A m \in B : PlaceOf[m] = c /\ m \notin unreached
  BY <1>9, <1>11
<1> HIDE DEF K
<1>19. /\ [collect.known EXCEPT ![c] = K] \in [AllPlaces -> SUBSET Times]
       /\ [collect.around EXCEPT ![a] = B] \in [Earlier -> SUBSET Times]
  BY <1>4, <1>13, <1>17, <1>18
<1> HIDE DEF r
<1>20. /\ r \in Collections /\ r.at = collect.at /\ r.history = collect.history
       /\ r.recent = collect.recent /\ r.chain = collect.chain /\ r.linked = collect.linked
       /\ r.todo = collect.todo /\ r.left = collect.left \ {NextLeft(c)}
       /\ r.known = [collect.known EXCEPT ![c] = K] /\ r.reading = collect.reading \ {c}
       /\ r.heard = H /\ r.around = [collect.around EXCEPT ![a] = B]
  BY <1>2, <1>15, <1>16, <1>19 DEF Collections
<1>21. a \notin H => Cardinality(B) \in {0, 2 * PerSide}
  BY <1>12, <1>15
<1>22. a = Anchors[NextLeft(c)]
  BY DEF a
<1>23. AroundStep(c, a, B, K, H, r)
  BY <1>1, <1>3, <1>15, <1>17, <1>18, <1>20, <1>21, <1>22 DEF AroundStep
<1> QED
  BY <1>23, AroundKeeps

------------------------------------------------------------------------------
(* The lines, and what goes on meanwhile                                   *)

LEMMA SameLines ==
  ASSUME collect'.chain = collect.chain, collect'.linked = collect.linked,
         collect'.around = collect.around, collect'.recent = collect.recent
  PROVE  Composed(Anchors, Nearby, RecentLines)' = Composed(Anchors, Nearby, RecentLines)
<1>1. Anchors' = Anchors
  BY DEF Anchors
<1>2. NearAnchors' = NearAnchors
  BY <1>1 DEF NearAnchors
<1>3. ASSUME NEW m PROVE FirstAnchor(m)' = FirstAnchor(m)
  BY <1>1 DEF FirstAnchor
<1>4. ByAnchor' = ByAnchor
  BY <1>2, <1>3 DEF ByAnchor
<1>5. Nearby' = Nearby
  BY <1>2, <1>4 DEF Nearby, Arranged
<1>6. RecentLines' = RecentLines
  BY DEF RecentLines, Arranged
<1> QED
  BY <1>1, <1>5, <1>6 DEF Composed, PinnedBudget, Take, TakeLast

LEMMA ComposeKeeps ==
  ASSUME MessagesIInv, ComposeLines
  PROVE  MessagesIInv'
<1> DEFINE r == [collect EXCEPT !.at = "composed"]
<1>1. /\ collect.at = "anchors" /\ collect.left = {} /\ collect' = r
      /\ lines' = Composed(Anchors, Nearby, RecentLines)
      /\ exists' = exists /\ cached' = cached /\ viewable' = viewable
      /\ opened' = opened /\ unreached' = unreached /\ turns' = turns
  BY DEF ComposeLines
<1>2. /\ collect \in Collections /\ SeenOK(collect, unreached, opened) /\ StageOK(collect)
      /\ WholeSides(collect)
  BY DEF MessagesIInv, MsgTypes
<1>3. /\ r \in Collections /\ r.at = "composed" /\ r.history = collect.history
      /\ r.recent = collect.recent /\ r.chain = collect.chain /\ r.linked = collect.linked
      /\ r.left = collect.left /\ r.known = collect.known /\ r.reading = collect.reading
      /\ r.heard = collect.heard /\ r.around = collect.around
  BY <1>2 DEF Collections
<1> HIDE DEF r
<1>4. MsgTypes'
  BY <1>1, <1>3 DEF MessagesIInv, MsgTypes
<1>5. SeenOK(r, unreached, opened)
  BY <1>2, <1>3 DEF SeenOK
<1>6. SeenOK(collect, unreached, opened)'
  BY <1>1, <1>5 DEF SeenOK, MayShow
<1>7. AnchorsOf(r) = AnchorsOf(collect)
  BY <1>3 DEF AnchorsOf
<1>8. StageOK(r) /\ WholeSides(r)
  BY <1>1, <1>2, <1>3, <1>7 DEF StageOK, WholeSides
<1>9. StageOK(collect)' /\ WholeSides(collect)'
  BY <1>1, <1>8 DEF StageOK, WholeSides, AnchorsOf, TipOf, Last
<1>10. GoneStays'
  BY <1>1 DEF MessagesIInv, GoneStays
<1>11. LinesOK'
  <2>1. Composed(Anchors, Nearby, RecentLines)' = Composed(Anchors, Nearby, RecentLines)
    BY <1>1, <1>3, SameLines
  <2> QED
    BY <1>1, <1>3, <2>1 DEF LinesOK
<1> QED
  BY <1>4, <1>6, <1>9, <1>10, <1>11 DEF MessagesIInv

\* A step that leaves the collection and its lines alone.
LEMMA ApartKeeps ==
  ASSUME MessagesIInv, collect' = collect, lines' = lines, unreached' = unreached,
         exists' \subseteq exists, cached' \subseteq cached, viewable' \subseteq AllPlaces,
         viewable' \subseteq opened' \/ (viewable' = viewable /\ opened' = opened),
         opened \subseteq opened', turns' \in 0 .. MaxTurns
  PROVE  MessagesIInv'
<1>1. SeenOK(collect, unreached, opened) /\ StageOK(collect) /\ WholeSides(collect) /\ MsgTypes /\ GoneStays /\ LinesOK
  BY DEF MessagesIInv
<1>2. MsgTypes'
  BY <1>1 DEF MsgTypes
<1>3. SeenOK(collect, unreached, opened)'
  BY <1>1 DEF SeenOK, MayShow
<1>4. StageOK(collect)' /\ WholeSides(collect)'
  BY <1>1 DEF StageOK, WholeSides, AnchorsOf, TipOf, Last
<1>5. GoneStays'
  BY <1>1 DEF GoneStays
<1>6. LinesOK'
  BY <1>1, SameLines DEF LinesOK
<1> QED
  BY <1>2, <1>3, <1>4, <1>5, <1>6 DEF MessagesIInv

LEMMA MeanwhileKeeps ==
  ASSUME MessagesIInv,
         \/ \E m \in Earlier : DeleteMessage(m) \/ LeaveCache(m)
         \/ \E c \in AllPlaces, may \in BOOLEAN : Permit(c, may)
  PROVE  MessagesIInv'
<1>1. /\ collect' = collect /\ lines' = lines /\ unreached' = unreached
      /\ turns < MaxTurns /\ turns' = turns + 1
  BY DEF DeleteMessage, LeaveCache, Permit, Meanwhile
<1>2. MsgTypes
  BY DEF MessagesIInv
<1>3. turns' \in 0 .. MaxTurns
  BY <1>1, <1>2, CollectorAssumption DEF MsgTypes
<1>4. CASE \E m \in Earlier : DeleteMessage(m) \/ LeaveCache(m)
  <2>1. /\ exists' \subseteq exists /\ cached' \subseteq cached /\ viewable' = viewable /\ opened' = opened
    BY <1>4 DEF DeleteMessage, LeaveCache
  <2> QED
    BY <1>1, <1>2, <1>3, <2>1, ApartKeeps DEF MsgTypes
<1>5. CASE \E c \in AllPlaces, may \in BOOLEAN : Permit(c, may)
  <2>1. /\ exists' = exists /\ cached' = cached /\ opened' = opened \cup viewable'
        /\ viewable' \subseteq AllPlaces
    BY <1>2, <1>5 DEF Permit, MsgTypes
  <2> QED
    BY <1>1, <1>3, <2>1, ApartKeeps
<1> QED
  BY <1>4, <1>5

LEMMA MessagesKept == MessagesIInv /\ [MessagesNext]_messageVars => MessagesIInv'
<1> SUFFICES ASSUME MessagesIInv, [MessagesNext]_messageVars PROVE MessagesIInv'
  OBVIOUS
<1>1. CASE UNCHANGED messageVars
  BY <1>1, ApartKeeps DEF messageVars, MessagesIInv, MsgTypes
<1>2. CASE StartCollecting
  BY <1>2, StartKeeps
<1>3. CASE HistoryLook
  BY <1>3, HistoryLookKeeps
<1>4. CASE \E n \in 0 .. ContextLimit : HistoryFetch(n)
  BY <1>4, HistoryFetchKeeps
<1>5. CASE \E from \in {"copy", "cache", "nowhere"} : FollowReply(from)
  BY <1>5, FollowReplyKeeps
<1>6. CASE \E ok \in BOOLEAN : ReadReply(ok) \/ FollowLink(ok) \/ ReadLink(ok)
  BY <1>6, ReadReplyKeeps, FollowLinkKeeps, ReadLinkKeeps
<1>7. CASE BeginAnchors
  BY <1>7, BeginAnchorsKeeps
<1>8. CASE \E c \in AllPlaces : AnchorLook(c) \/ \E ok \in BOOLEAN : ReadAround(c, ok)
  BY <1>8, AnchorLookKeeps, ReadAroundKeeps
<1>9. CASE ComposeLines
  BY <1>9, ComposeKeeps
<1>10. CASE \/ \E m \in Earlier : DeleteMessage(m) \/ LeaveCache(m)
            \/ \E c \in AllPlaces, may \in BOOLEAN : Permit(c, may)
  BY <1>10, MeanwhileKeeps
<1> QED
  BY <1>1, <1>2, <1>3, <1>4, <1>5, <1>6, <1>7, <1>8, <1>9, <1>10 DEF MessagesNext

LEMMA MessagesRests == MessagesIInv /\ UNCHANGED messageVars => MessagesIInv'
BY MessagesKept

LEMMA MessagesSound == MessagesIInv => MessagesInv
<1> SUFFICES ASSUME MessagesIInv PROVE MessagesInv
  OBVIOUS
<1>1. /\ MsgTypes /\ SeenOK(collect, unreached, opened) /\ WholeSides(collect) /\ LinesOK
      /\ collect \in Collections /\ unreached \subseteq Earlier
  BY DEF MessagesIInv, MsgTypes
<1>2. MessagesTypeOK /\ NoPartialCache
  BY <1>1 DEF MessagesTypeOK, NoPartialCache, WholeSides, MsgTypes, Collections
<1>3. CASE collect.at # "composed"
  <2>1. lines.direct = <<>> /\ lines.near = <<>> /\ lines.recent = <<>>
    BY <1>1, <1>3 DEF LinesOK, NoLines
  <2>2. Shown = {}
    BY <2>1 DEF Shown, ToSet
  <2> QED
    BY <1>2, <1>3, <2>2 DEF MessagesInv, OnlyWhatTheAskerSees, DeletedStaysOut, LimitsKept, NothingDroppedNeedlessly
<1>4. CASE collect.at = "composed"
  <2>1. lines = Composed(Anchors, Nearby, RecentLines)
    BY <1>1, <1>4 DEF LinesOK
  <2>2. Anchors \in Seq(Times) /\ Nearby \in Seq(Times) /\ RecentLines \in Seq(Times) /\ RecentLines # <<>>
    <3>1. Anchors \in Seq(Earlier) /\ Earlier \subseteq Times
      BY <1>1, AnchorsIn DEF Times
    <3>2. Anchors \in Seq(Times)
      BY <3>1
    <3> QED
      BY <1>1, <3>2, NearbyIs, RecentIs
  <2>3. /\ ToSet(lines.direct) \subseteq ToSet(Anchors) /\ ToSet(lines.near) \subseteq ToSet(Nearby)
        /\ ToSet(lines.recent) \subseteq ToSet(RecentLines)
        /\ Len(lines.direct) + Len(lines.near) + Len(lines.recent) <= ContextLimit
        /\ lines.recent[Len(lines.recent)] = RecentLines[Len(RecentLines)]
        /\ Anchors # <<>> => lines.direct # <<>>
        /\ Nearby # <<>> => lines.near # <<>>
        /\ Len(lines.direct) + Len(lines.near) + Len(lines.recent) < ContextLimit
             => lines.direct = Anchors /\ lines.near = Nearby /\ lines.recent = RecentLines
    <3>1. ComposedWell(lines, Anchors, Nearby, RecentLines)
      BY <2>1, <2>2, ComposedIs
    <3> QED
      BY <3>1 DEF ComposedWell
  <2>4. /\ ToSet(RecentLines) \subseteq collect.recent \cup {Question}
        /\ RecentLines[Len(RecentLines)] = Question
    BY <1>1, RecentIs
  <2>5. \A m \in ToSet(Anchors) : MayShow(m, opened) /\ (m \in unreached => m \in ToSet(collect.chain))
    <3> TAKE m \in ToSet(Anchors)
    <3>1. PICK i \in DOMAIN Anchors : Anchors[i] = m
      BY <1>1, AnchorsIn DEF ToSet
    <3>2. \/ \E n \in DOMAIN collect.chain : m = collect.chain[n]
          \/ \E n \in DOMAIN collect.linked : m = collect.linked[n]
      BY <1>1, <3>1, AnchorsIn
    <3>3. CASE \E n \in DOMAIN collect.chain : m = collect.chain[n]
      BY <1>1, <3>3 DEF SeenOK, MayShow, ToSet
    <3>4. CASE \E n \in DOMAIN collect.linked : m = collect.linked[n]
      BY <1>1, <3>4 DEF SeenOK
    <3> QED
      BY <3>2, <3>3, <3>4
  <2>6. \A m \in ToSet(Nearby) : MayShow(m, opened) /\ m \notin unreached /\ m \notin ToSet(Anchors)
    <3> TAKE m \in ToSet(Nearby)
    <3>1. m \notin ToSet(Anchors)
      BY <1>1, NearbyIs
    <3>2. PICK i \in DOMAIN Anchors : m \in collect.around[Anchors[i]]
      BY <1>1, NearbyIs
    <3>3. Anchors[i] \in ToSet(Anchors) /\ Anchors[i] \in Earlier
      <4>1. Anchors \in Seq(Earlier)
        BY <1>1, AnchorsIn
      <4> QED
        BY <4>1 DEF ToSet
    <3>4. PlaceOf[m] = PlaceOf[Anchors[i]] /\ m \notin unreached
      BY <1>1, <3>2, <3>3 DEF SeenOK
    <3> QED
      BY <2>5, <3>1, <3>3, <3>4 DEF MayShow
  <2>7. \A m \in ToSet(lines.recent) : PlaceOf[m] = Home /\ m \notin unreached
    <3>1. PlaceOf[Question] = Home /\ Question \notin Earlier
      <4>1. ASSUME Question \in Earlier PROVE FALSE
        <5>1. Question < Question /\ Question \in Nat
          BY <4>1, CollectorAssumption
        <5> QED
          BY <5>1
      <4> QED
        BY <4>1, CollectorAssumption
    <3>2. \A m \in collect.recent : PlaceOf[m] = Home /\ m \notin unreached
      BY <1>1 DEF SeenOK
    <3> QED
      BY <1>1, <2>3, <2>4, <3>1, <3>2
  <2>8. OnlyWhatTheAskerSees
    BY <2>3, <2>5, <2>6, <2>7 DEF OnlyWhatTheAskerSees, Shown, MayShow
  <2>9. DeletedStaysOut
    BY <2>3, <2>5, <2>6, <2>7 DEF DeletedStaysOut, Shown
  <2>10. ToSet(lines.near) \cap ToSet(Anchors) = {}
    BY <2>3, <2>6
  <2>11. LimitsKept
    BY <2>3, <2>4, <2>10 DEF LimitsKept, Last
  <2>12. NothingDroppedNeedlessly
    BY <2>3 DEF NothingDroppedNeedlessly
  <2> QED
    BY <1>2, <2>8, <2>9, <2>11, <2>12 DEF MessagesInv
<1> QED
  BY <1>3, <1>4

\* For any messages, replies, links and limits: the lines show of another channel only what
\* the asker may view, of what was gone before only what came with a reply, and nothing is
\* left out that there is room for (message_context.py).
THEOREM MessagesAreSafe == MessagesSpec => []MessagesInv
<1>1. MessagesInit => MessagesIInv
  BY MessagesBegins
<1>2. MessagesIInv /\ [MessagesNext]_messageVars => MessagesIInv'
  BY MessagesKept
<1>3. MessagesIInv => MessagesInv
  BY MessagesSound
<1> QED
  BY <1>1, <1>2, <1>3, PTL DEF MessagesSpec

------------------------------------------------------------------------------
(* MarketQuotes. The line is exactly who waits for the client, each once   *)
(* (IsLine); what a lookup has heard is what a provider told it            *)
(* (LookupOK); and the client's rest covers every refusal that was heard   *)
(* (LineRests), so that two are heard a rest apart.                        *)

Askers == Instruments \cup {ChartJob}
Prices == {"none", "primary", "session", "regular"}
LookupReasons == {"waiting", "price", "error", "suggested", "raised", "cut"}
PageShapes == [got : {"page", "none", "broken"}, ext : BOOLEAN, regular : BOOLEAN]
Lookups ==
  [at : {"new", "asking", "heard", "searching", "matched", "more", "done"},
   primary : ProviderAnswers \cup {"none"}, page : PageShapes, closed : BOOLEAN,
   out : [price : Prices, why : LookupReasons]]
Charts ==
  [at : {"new", "page", "asking", "yahoo", "reported", "done"}, pages : Nat,
   from : {"none", "primary", "yahoo", "reported"}, complete : BOOLEAN]

\* Somebody knows a price of the session that is asked for.
KnownTo(d, w) ==
  \/ d.primary = "ok" /\ w.session # "post"
  \/ d.page.ext /\ w.session # "regular"
  \/ d.page.regular /\ w.session # "post"

EndOK(d, w) ==
  /\ d.out.why # "waiting"
  /\ d.out.why = "price" <=> d.out.price # "none"
  /\ d.out.why = "error" => ~ KnownTo(d, w)
  /\ d.out.why = "suggested" => d.primary = "unknown"
  /\ d.page.ext /\ w.session = "latest" /\ (w.how = "report" \/ d.closed)
       => d.out.price \in {"session", "none"}

\* One lookup: what it has heard of by the time it is somewhere.
LookupOK(d, w) ==
  /\ d.at # "done" => d.out = NoPrice
  /\ d.at = "searching" => w.how = "quote"
  /\ d.at \in {"searching", "matched"} => d.primary = "unknown"
  /\ d.at = "more" => w.how = "quote" /\ ~ d.page.ext /\ (d.primary = "ok" \/ ~ d.page.regular)
  /\ d.at = "done" => EndOK(d, w)

\* The tool and its lookups.
ToolOK(t, d, w) ==
  /\ t = "running" => \A i \in Instruments : d[i].out.why \notin {"raised", "cut"}
  /\ t \in {"ok", "mixed", "empty", "error"} =>
       \A i \in Instruments : d[i].at = "done" /\ d[i].out.why \notin {"raised", "cut"}
  /\ t = "ok" => \A i \in Instruments : d[i].out.price # "none"
  /\ t \in {"empty", "error"} => \A i \in Instruments : d[i].out.price = "none"
  /\ t = "raised" => /\ w.how = "quote"
                     /\ \E i \in Instruments : d[i].at = "done" /\ d[i].out.why = "raised"

\* The history: nothing is complete before it is done.
ChartOK(c, w) ==
  /\ c.at # "done" => ~ c.complete
  /\ c.complete /\ w.chart = "extrema" => c.from = "primary" /\ c.pages >= 1

\* Who waits for the first provider's client.
Waits(r) == r.at \in {"asking", "searching"}
WaitingIn(d, c) ==
  {i \in Instruments : Waits(d[i])}
    \cup {x \in {ChartJob} : c.at = "asking"}

IsLine(line, W) ==
  /\ line \in Seq(Askers)
  /\ \A m, n \in DOMAIN line : line[m] = line[n] => m = n
  /\ {line[n] : n \in DOMAIN line} = W

\* The client's rest: it covers every refusal that was heard.
LineRests ==
  /\ restsUntil \in Nat /\ refusals \in Seq(Nat)
  /\ \A n \in DOMAIN refusals : refusals[n] + CreditRest <= restsUntil
  /\ RefusalsApart
  /\ sent => restsUntil <= moment /\ inLine # <<>>

MarketShape ==
  /\ wanted \in Cases
  /\ tool \in {"running", "raised", "cut", "ok", "mixed", "empty", "error"}
  /\ sent \in BOOLEAN /\ abandoned \in 0 .. MaxAbandoned /\ moment \in 0 .. MarketHorizon
  /\ desk \in [Instruments -> Lookups] /\ chart \in Charts

MarketIInv ==
  /\ MarketShape /\ LineRests
  /\ \A i \in Instruments : LookupOK(desk[i], wanted)
  /\ ToolOK(tool, desk, wanted) /\ ChartOK(chart, wanted)
  /\ IsLine(inLine, WaitingIn(desk, chart))

------------------------------------------------------------------------------
(* The line                                                                *)

LEMMA LineJoined ==
  ASSUME NEW line, NEW W, IsLine(line, W), NEW x \in Askers, x \notin W
  PROVE  IsLine(Append(line, x), W \cup {x})
<1> DEFINE l == Append(line, x)
<1>1. line \in Seq(Askers) /\ Len(line) \in Nat /\ DOMAIN line = 1 .. Len(line)
  BY DEF IsLine
<1>2. l \in Seq(Askers) /\ DOMAIN l = 1 .. Len(line) + 1 /\ l[Len(line) + 1] = x
      /\ \A n \in 1 .. Len(line) : l[n] = line[n]
  BY <1>1
<1>3. \A n \in 1 .. Len(line) : line[n] \in W
  BY <1>1 DEF IsLine
<1> HIDE DEF l
<1>4. ASSUME NEW m \in DOMAIN l, NEW n \in DOMAIN l, l[m] = l[n] PROVE m = n
  BY <1>1, <1>2, <1>3, <1>4 DEF IsLine
<1>5. {l[n] : n \in DOMAIN l} = {line[n] : n \in 1 .. Len(line)} \cup {x}
  BY <1>1, <1>2
<1> QED
  BY <1>1, <1>2, <1>4, <1>5 DEF IsLine, l

LEMMA LineServed ==
  ASSUME NEW line, NEW W, IsLine(line, W), line # <<>>
  PROVE  Head(line) \in W /\ Head(line) \in Askers /\ IsLine(Tail(line), W \ {Head(line)})
<1> DEFINE l == Tail(line)
<1>1. line \in Seq(Askers) /\ Len(line) \in Nat \ {0} /\ DOMAIN line = 1 .. Len(line)
      /\ Head(line) = line[1]
  BY DEF IsLine
<1>2. l \in Seq(Askers) /\ DOMAIN l = 1 .. Len(line) - 1
      /\ \A n \in 1 .. Len(line) - 1 : l[n] = line[n + 1]
  BY <1>1
<1>3. Head(line) \in W /\ Head(line) \in Askers
  BY <1>1 DEF IsLine
<1> HIDE DEF l
<1>4. ASSUME NEW m \in DOMAIN l, NEW n \in DOMAIN l, l[m] = l[n] PROVE m = n
  <2>1. m \in Int /\ n \in Int /\ m + 1 \in DOMAIN line /\ n + 1 \in DOMAIN line /\ line[m + 1] = line[n + 1]
    BY <1>1, <1>2, <1>4
  <2>2. m + 1 = n + 1
    BY <2>1 DEF IsLine
  <2> QED
    BY <2>1, <2>2
<1>5. \A n \in DOMAIN l : l[n] \in W \ {line[1]}
  <2> TAKE n \in DOMAIN l
  <2>1. n \in Int /\ n >= 1 /\ n + 1 \in DOMAIN line /\ l[n] = line[n + 1] /\ 1 \in DOMAIN line
    BY <1>1, <1>2
  <2> QED
    BY <2>1 DEF IsLine
<1>6. ASSUME NEW w \in W, w # line[1] PROVE \E n \in DOMAIN l : l[n] = w
  <2>1. PICK k \in DOMAIN line : line[k] = w
    BY DEF IsLine
  <2>2. k - 1 \in DOMAIN l /\ l[k - 1] = w
    BY <1>1, <1>2, <1>6, <2>1
  <2> QED
    BY <2>2
<1>7. {l[n] : n \in DOMAIN l} = W \ {line[1]}
  BY <1>5, <1>6
<1> QED
  BY <1>1, <1>2, <1>3, <1>4, <1>7 DEF IsLine, l

\* Those who leave are gone, the others stay in their order.
LEMMA LineLeft ==
  ASSUME NEW line, NEW W, IsLine(line, W), NEW S
  PROVE  IsLine(LineWithout(line, S), W \ S)
<1> DEFINE k == Len(line)
           St == Seq(Askers)
           Go == [n \in 1 .. k |-> [x \in St |-> IF line[n] \in S THEN x ELSE Append(x, line[n])]]
           First(n) == {line[m] : m \in 1 .. n}
<1>1. line \in Seq(Askers) /\ k \in Nat /\ DOMAIN line = 1 .. k /\ \A n \in 1 .. k : line[n] \in Askers
  BY DEF IsLine
<1>2. \A n \in 1 .. k : \A x \in St : Go[n][x] \in St
  BY <1>1
<1>3. <<>> \in St
  OBVIOUS
<1> HIDE DEF Go, St, k
<1>4. PICK f : IsLoop(f, k, St, <<>>, Go)
  BY <1>1, <1>2, <1>3, LoopOf
<1>5. f \in [0 .. k -> St] /\ f[0] = <<>>
      /\ \A n \in 1 .. k : f[n] = IF line[n] \in S THEN f[n - 1] ELSE Append(f[n - 1], line[n])
  <2>1. f \in [0 .. k -> St] /\ f[0] = <<>> /\ \A n \in 1 .. k : f[n] = Go[n][f[n - 1]]
    BY <1>4 DEF IsLoop
  <2>2. \A n \in 1 .. k : f[n - 1] \in St
    <3> TAKE n \in 1 .. k
    <3>1. n - 1 \in 0 .. k
      BY <1>1
    <3> QED
      BY <2>1, <3>1
  <2> QED
    BY <2>1, <2>2 DEF Go
<1> DEFINE Rest == [n \in 0 .. k |-> IF n = 0 THEN <<>> ELSE IF line[n] \in S THEN f[n - 1] ELSE Append(f[n - 1], line[n])]
<1>6. f = [n \in 0 .. k |-> IF n = 0 THEN <<>> ELSE IF line[n] \in S THEN f[n - 1] ELSE Append(f[n - 1], line[n])]
  <2>1. \A n \in 0 .. k : f[n] = Rest[n]
    <3> TAKE n \in 0 .. k
    <3>1. CASE n = 0
      BY <1>5, <3>1
    <3>2. CASE n # 0
      <4>1. n \in 1 .. k
        BY <1>1, <3>2
      <4> QED
        BY <1>5, <3>2, <4>1
    <3> QED
      BY <3>1, <3>2
  <2> QED
    BY <1>5, <2>1
<1> DEFINE T == {n \in 0 .. k : IsLine(f[n], First(n) \ S)}
<1>7. 0 \in T
  <2>1. First(0) = {}
    OBVIOUS
  <2>2. IsLine(<<>>, {} \ S)
    BY DEF IsLine
  <2> QED
    BY <1>1, <1>5, <2>1, <2>2
<1>8. ASSUME NEW n \in 1 .. k, n - 1 \in T PROVE n \in T
  <2>1. IsLine(f[n - 1], First(n - 1) \ S) /\ n \in 0 .. k
    BY <1>1, <1>8
  <2>2. First(n) = First(n - 1) \cup {line[n]}
    BY <1>1
  <2>3. CASE line[n] \in S
    <3>1. First(n) \ S = First(n - 1) \ S /\ f[n] = f[n - 1]
      BY <1>5, <2>2, <2>3
    <3> QED
      BY <2>1, <3>1
  <2>4. CASE line[n] \notin S
    <3>1. First(n) \ S = (First(n - 1) \ S) \cup {line[n]} /\ f[n] = Append(f[n - 1], line[n])
      BY <1>5, <2>2, <2>4
    <3>2. line[n] \notin First(n - 1)
      BY <1>1 DEF IsLine
    <3>3. IsLine(Append(f[n - 1], line[n]), (First(n - 1) \ S) \cup {line[n]})
      BY <1>1, <2>1, <3>2, LineJoined
    <3> QED
      BY <2>1, <3>1, <3>3
  <2> QED
    BY <2>3, <2>4
<1> HIDE DEF T
<1>9. k \in T
  <2>1. \A n \in 0 .. k : n \in T
    BY <1>1, <1>7, <1>8, UpTo
  <2> QED
    BY <1>1, <2>1
<1>10. First(k) = W
  BY <1>1 DEF IsLine
<1>11. LineWithout(line, S) = f[k]
  <2> DEFINE Def(g) == g = [n \in 0 .. k |-> IF n = 0 THEN <<>> ELSE IF line[n] \in S THEN g[n - 1] ELSE Append(g[n - 1], line[n])]
             g == CHOOSE h : Def(h)
  <2>1. Def(f)
    BY <1>6
  <2>2. Def(g)
    <3> HIDE DEF Def
    <3> QED
      BY <2>1, Zenon
  <2> DEFINE U == {n \in 0 .. k : g[n] = f[n]}
  <2>3. \A n \in 0 .. k : g[n] = IF n = 0 THEN <<>> ELSE IF line[n] \in S THEN g[n - 1] ELSE Append(g[n - 1], line[n])
    <3> HIDE DEF g
    <3> QED
      BY <2>2
  <2>4. LineWithout(line, S) = g[k]
    BY DEF LineWithout, k
  <2> HIDE DEF g
  <2>5. 0 \in U
    BY <1>1, <1>5, <2>3
  <2>6. ASSUME NEW n \in 1 .. k, n - 1 \in U PROVE n \in U
    <3>1. n \in 0 .. k /\ n # 0 /\ g[n - 1] = f[n - 1]
      BY <1>1, <2>6
    <3> QED
      BY <1>5, <2>3, <3>1
  <2> HIDE DEF U
  <2>7. \A n \in 0 .. k : n \in U
    BY <1>1, <2>5, <2>6, UpTo
  <2>8. k \in U
    BY <1>1, <2>7
  <2> QED
    BY <2>4, <2>8 DEF U
<1> QED
  BY <1>9, <1>10, <1>11 DEF T

LEMMA LineCounts ==
  ASSUME NEW line, NEW W, IsLine(line, W)
  PROVE  Cardinality(W) = Len(line) /\ IsFiniteSet(W)
<1>1. line \in Seq(Askers) /\ Len(line) \in Nat /\ DOMAIN line = 1 .. Len(line)
  BY DEF IsLine
<1>2. line \in Bijection(1 .. Len(line), W)
  <2>1. line \in [1 .. Len(line) -> W]
    BY <1>1 DEF IsLine
  <2> QED
    BY <1>1, <2>1 DEF IsLine, Bijection, Injection, Surjection, IsInjective
<1>3. ExistsBijection(1 .. Len(line), W)
  BY <1>2 DEF ExistsBijection
<1>4. Cardinality(W) = Len(line)
  BY <1>1, <1>3, FS_CountingElements
<1>5. IsFiniteSet(W)
  BY <1>1, <1>3, FS_NatBijection
<1> QED
  BY <1>4, <1>5

------------------------------------------------------------------------------
(* The steps                                                               *)

LEMMA PutWaits ==
  ASSUME NEW d, NEW e, NEW c, NEW k \in Instruments,
         \A j \in Instruments \ {k} : e[j] = d[j], Waits(e[k])
  PROVE  WaitingIn(e, c) = WaitingIn(d, c) \cup {k}
  BY MarketAssumption DEF WaitingIn

LEMMA PutRests ==
  ASSUME NEW d, NEW e, NEW c, NEW k \in Instruments,
         \A j \in Instruments \ {k} : e[j] = d[j], ~ Waits(e[k])
  PROVE  WaitingIn(e, c) = WaitingIn(d, c) \ {k}
<1>1. ChartJob # k
  BY MarketAssumption
<1> QED
  BY <1>1 DEF WaitingIn

LEMMA ChartWaits ==
  ASSUME NEW d, NEW c, NEW e
  PROVE  WaitingIn(d, e) =
           IF e.at = "asking" THEN WaitingIn(d, c) \cup {ChartJob} ELSE WaitingIn(d, c) \ {ChartJob}
  BY MarketAssumption DEF WaitingIn, Waits

\* One of the lookups goes on.
LEMMA LookupGoes ==
  ASSUME NEW t, NEW d \in [Instruments -> Lookups], NEW w, NEW i \in Instruments, NEW r \in Lookups,
         \A j \in Instruments : LookupOK(d[j], w), ToolOK(t, d, w),
         LookupOK(r, w), d[i].at # "done", r.out.why \notin {"raised", "cut"}
  PROVE  /\ [d EXCEPT ![i] = r] \in [Instruments -> Lookups]
         /\ \A j \in Instruments : LookupOK([d EXCEPT ![i] = r][j], w)
         /\ ToolOK(t, [d EXCEPT ![i] = r], w)
<1> DEFINE e == [d EXCEPT ![i] = r]
<1>1. e[i] = r /\ (\A j \in Instruments : j # i => e[j] = d[j]) /\ e \in [Instruments -> Lookups]
  OBVIOUS
<1> HIDE DEF e
<1>2. \A j \in Instruments : LookupOK(e[j], w)
  BY <1>1
<1>3. ToolOK(t, e, w)
  BY <1>1 DEF ToolOK
<1> QED
  BY <1>1, <1>2, <1>3 DEF e

\* One of them ends the tool.
LEMMA LookupRaises ==
  ASSUME NEW t, NEW d \in [Instruments -> Lookups], NEW w, NEW i \in Instruments,
         \A j \in Instruments : LookupOK(d[j], w), ToolOK(t, d, w), d[i].at # "done", w.how = "quote",
         NEW r, r = [d[i] EXCEPT !.at = "done", !.out = [price |-> "none", why |-> "raised"]]
  PROVE  /\ [d EXCEPT ![i] = r] \in [Instruments -> Lookups]
         /\ \A j \in Instruments : LookupOK([d EXCEPT ![i] = r][j], w)
         /\ ToolOK(IF t = "running" THEN "raised" ELSE t, [d EXCEPT ![i] = r], w)
<1> DEFINE e == [d EXCEPT ![i] = r]
<1>1. r \in Lookups /\ r.at = "done" /\ r.out.why = "raised" /\ r.out.price = "none"
  BY DEF Lookups, Prices, LookupReasons
<1>2. e[i] = r /\ (\A j \in Instruments : j # i => e[j] = d[j]) /\ e \in [Instruments -> Lookups]
  BY <1>1
<1>3. LookupOK(r, w)
  BY <1>1 DEF LookupOK, EndOK
<1> HIDE DEF e
<1>4. \A j \in Instruments : LookupOK(e[j], w)
  BY <1>2, <1>3
<1>5. ToolOK(IF t = "running" THEN "raised" ELSE t, e, w)
  BY <1>1, <1>2 DEF ToolOK
<1> QED
  BY <1>2, <1>4, <1>5 DEF e

\* What an answer of the first provider does to those who wait.
LEMMA Heard ==
  ASSUME MarketIInv, NEW x \in WaitingIn(desk, chart), NEW a \in ProviderAnswers, Hears(x, a)
  PROVE  /\ desk' \in [Instruments -> Lookups] /\ chart' \in Charts
         /\ tool' \in {"running", "raised", "cut", "ok", "mixed", "empty", "error"}
         /\ \A i \in Instruments : LookupOK(desk'[i], wanted)
         /\ ToolOK(tool', desk', wanted) /\ ChartOK(chart', wanted)
         /\ WaitingIn(desk', chart') = WaitingIn(desk, chart) \ {x}
<1> USE DEF MarketIInv, MarketShape
<1>1. CASE x = ChartJob
  <2>1. UNCHANGED <<desk, tool>>
    BY <1>1 DEF Hears
  <2>2. chart.at = "asking" /\ ~ chart.complete /\ chart.pages \in Nat /\ wanted.chart \in {"none", "series", "extrema"}
    BY <1>1, MarketAssumption DEF WaitingIn, ChartOK, Charts, Wants
  <2>3. /\ chart' \in Charts /\ chart'.at # "asking"
        /\ ChartOK(chart', wanted)
    <3>1. CASE a = "broken"
      <4>1. chart' = [chart EXCEPT !.at = "done"]
        BY <1>1, <3>1 DEF Hears
      <4> QED
        BY <2>2, <4>1 DEF Charts, ChartOK
    <3>2. CASE a \notin {"broken", "ok"}
      <4>1. chart' = [chart EXCEPT !.at = "yahoo"]
        BY <1>1, <3>2 DEF Hears
      <4> QED
        BY <2>2, <4>1 DEF Charts, ChartOK
    <3>3. CASE a = "ok" /\ wanted.chart = "extrema" /\ chart.pages + 1 < MaxChartPages
      <4>1. chart' = [[chart EXCEPT !.at = "page"] EXCEPT !.pages = chart.pages + 1]
        BY <1>1, <3>3 DEF Hears
      <4>2. chart.pages + 1 \in Nat /\ [chart EXCEPT !.at = "page"] \in Charts
        BY <2>2 DEF Charts
      <4>3. chart' \in Charts /\ chart'.at = "page" /\ ~ chart'.complete
        BY <2>2, <4>1, <4>2 DEF Charts
      <4> QED
        BY <4>3 DEF ChartOK
    <3>4. CASE a = "ok" /\ ~ (wanted.chart = "extrema" /\ chart.pages + 1 < MaxChartPages)
      <4>1. chart' = [chart EXCEPT !.at = "done", !.pages = chart.pages + 1, !.from = "primary",
                                   !.complete = wanted.chart = "series"]
        BY <1>1, <3>4 DEF Hears
      <4>2. chart.pages + 1 \in Nat /\ chart.pages + 1 >= 1
        BY <2>2
      <4>3. chart' = [at |-> "done", pages |-> chart.pages + 1, from |-> "primary",
                      complete |-> wanted.chart = "series"]
        BY <4>1 DEF Charts
      <4>4. chart' \in Charts /\ chart'.at = "done"
        BY <4>2, <4>3 DEF Charts
      <4>5. ChartOK(chart', wanted)
        BY <2>2, <4>2, <4>3 DEF ChartOK
      <4> QED
        BY <4>4, <4>5
    <3> QED
      BY <3>1, <3>2, <3>3, <3>4
  <2>4. WaitingIn(desk', chart') = WaitingIn(desk, chart) \ {x}
    BY <1>1, <2>1, <2>3, ChartWaits
  <2> QED
    BY <2>1, <2>3, <2>4
<1>2. CASE x # ChartJob
  <2>1. x \in Instruments /\ desk[x].at \in {"asking", "searching"} /\ desk[x] \in Lookups
        /\ LookupOK(desk[x], wanted) /\ desk[x].at # "done" /\ desk[x].out = NoPrice
    BY <1>2 DEF WaitingIn, Waits, LookupOK
  <2>2. UNCHANGED chart
    BY <1>2 DEF Hears
  <2>3. CASE desk[x].at = "searching" /\ a = "broken"
    <3> DEFINE r == [desk[x] EXCEPT !.at = "done", !.out = [price |-> "none", why |-> "raised"]]
    <3>1. desk' = [desk EXCEPT ![x] = r] /\ tool' = IF tool = "running" THEN "raised" ELSE tool
      BY <1>2, <2>3 DEF Hears, Raise, PutDesk, Outcome
    <3>2. r.at = "done" /\ wanted.how = "quote"
      BY <2>1, <2>3 DEF LookupOK, Lookups
    <3> HIDE DEF r
    <3>3. WaitingIn(desk', chart') = WaitingIn(desk, chart) \ {x}
      <4>1. desk'[x] = r /\ \A j \in Instruments \ {x} : desk'[j] = desk[j]
        BY <2>1, <3>1
      <4>2. ~ Waits(desk'[x])
        BY <3>2, <4>1 DEF Waits
      <4>3. WaitingIn(desk', chart) = WaitingIn(desk, chart) \ {x}
        BY <2>1, <4>1, <4>2, PutRests
      <4> QED
        BY <2>2, <4>3
    <3>4. /\ [desk EXCEPT ![x] = r] \in [Instruments -> Lookups]
          /\ \A i \in Instruments : LookupOK([desk EXCEPT ![x] = r][i], wanted)
          /\ ToolOK(IF tool = "running" THEN "raised" ELSE tool, [desk EXCEPT ![x] = r], wanted)
      BY <2>1, <3>2, LookupRaises DEF r
    <3> QED
      BY <2>2, <3>1, <3>3, <3>4
  <2>4. CASE ~ (desk[x].at = "searching" /\ a = "broken")
    <3>1. \E r \in Lookups : /\ r.at \notin {"asking", "searching"} /\ LookupOK(r, wanted)
                             /\ r.out.why \notin {"raised", "cut"}
                             /\ desk' = [desk EXCEPT ![x] = r] /\ tool' = tool
      <4>1. CASE desk[x].at = "searching" /\ a = "ok"
        <5> DEFINE r == [desk[x] EXCEPT !.at = "done", !.out = [price |-> "none", why |-> "suggested"]]
        <5>1. desk' = [desk EXCEPT ![x] = r] /\ tool' = tool
          BY <1>2, <4>1 DEF Hears, PutDesk, Outcome
        <5>2. r \in Lookups /\ r.at = "done" /\ r.out.why = "suggested" /\ r.out.price = "none"
              /\ r.primary = desk[x].primary
          BY <2>1 DEF Lookups, Prices, LookupReasons
        <5>3. LookupOK(r, wanted)
          BY <2>1, <4>1, <5>2 DEF LookupOK, EndOK
        <5> QED
          BY <5>1, <5>2, <5>3
      <4>2. CASE desk[x].at = "searching" /\ a # "ok"
        <5> DEFINE r == [desk[x] EXCEPT !.at = "matched"]
        <5>1. desk' = [desk EXCEPT ![x] = r] /\ tool' = tool
          BY <1>2, <2>4, <4>2 DEF Hears, PutDesk
        <5>2. r \in Lookups /\ r.at = "matched" /\ r.out = NoPrice /\ r.primary = desk[x].primary
          BY <2>1 DEF Lookups
        <5> HIDE DEF r
        <5>3. LookupOK(r, wanted)
          BY <2>1, <4>2, <5>2 DEF LookupOK
        <5> QED
          BY <5>1, <5>2, <5>3, NoPrice.why = "waiting" DEF NoPrice
      <4>3. CASE desk[x].at = "asking"
        <5> DEFINE r == [desk[x] EXCEPT !.at = "heard", !.primary = a]
        <5>1. desk' = [desk EXCEPT ![x] = r] /\ tool' = tool
          BY <1>2, <2>4, <4>3 DEF Hears, PutDesk
        <5>2. r \in Lookups /\ r.at = "heard" /\ r.out = NoPrice
          BY <2>1 DEF Lookups
        <5> HIDE DEF r
        <5>3. LookupOK(r, wanted)
          BY <5>2 DEF LookupOK
        <5> QED
          BY <5>1, <5>2, <5>3, NoPrice.why = "waiting" DEF NoPrice
      <4> QED
        BY <2>1, <4>1, <4>2, <4>3
    <3>2. PICK r \in Lookups : /\ r.at \notin {"asking", "searching"} /\ LookupOK(r, wanted)
                               /\ r.out.why \notin {"raised", "cut"}
                               /\ desk' = [desk EXCEPT ![x] = r] /\ tool' = tool
      BY <3>1
    <3>3. WaitingIn(desk', chart') = WaitingIn(desk, chart) \ {x}
      <4>1. desk'[x] = r /\ \A j \in Instruments \ {x} : desk'[j] = desk[j]
        BY <2>1, <3>2
      <4>2. ~ Waits(desk'[x])
        BY <3>2, <4>1 DEF Waits
      <4>3. WaitingIn(desk', chart) = WaitingIn(desk, chart) \ {x}
        BY <2>1, <4>1, <4>2, PutRests
      <4> QED
        BY <2>2, <4>3
    <3>4. /\ desk' \in [Instruments -> Lookups] /\ ToolOK(tool', desk', wanted)
          /\ \A i \in Instruments : LookupOK(desk'[i], wanted)
      BY <2>1, <3>2, LookupGoes
    <3> QED
      BY <2>2, <3>2, <3>3, <3>4
  <2> QED
    BY <2>3, <2>4
<1> QED
  BY <1>1, <1>2

\* A lookup that does not wait for the client goes on: the line stays as it is.
LEMMA DeskStep ==
  ASSUME MarketIInv, NEW i \in Instruments, ~ Waits(desk[i]), ~ Waits(desk'[i]),
         \A j \in Instruments \ {i} : desk'[j] = desk[j],
         desk' \in [Instruments -> Lookups], ToolOK(tool', desk', wanted),
         \A j \in Instruments : LookupOK(desk'[j], wanted),
         tool' \in {"running", "raised", "cut", "ok", "mixed", "empty", "error"},
         KeepClient, UNCHANGED <<wanted, chart, moment>>
  PROVE  MarketIInv'
<1>1. i \notin WaitingIn(desk, chart)
  BY MarketAssumption DEF WaitingIn
<1>2. WaitingIn(desk', chart) = WaitingIn(desk, chart) \ {i}
  BY PutRests
<1>3. WaitingIn(desk', chart') = WaitingIn(desk, chart)
  BY <1>1, <1>2
<1>5. inLine' = inLine /\ sent' = sent /\ abandoned' = abandoned /\ restsUntil' = restsUntil
      /\ refusals' = refusals
  BY DEF KeepClient
<1>6. LineRests'
  BY <1>5 DEF LineRests, RefusalsApart, MarketIInv
<1>7. ChartOK(chart', wanted') /\ IsLine(inLine', WaitingIn(desk', chart'))
  BY <1>3, <1>5 DEF MarketIInv
<1>8. MarketShape'
  BY <1>5 DEF MarketIInv, MarketShape
<1> QED
  BY <1>6, <1>7, <1>8 DEF MarketIInv

LEMMA QuietStep ==
  ASSUME MarketIInv, NEW i \in Instruments, desk[i].at \notin {"asking", "searching", "done"},
         NEW r \in Lookups, LookupOK(r, wanted), r.at \notin {"asking", "searching"},
         r.out.why \notin {"raised", "cut"}, PutDesk(i, r), KeepClient,
         UNCHANGED <<wanted, tool, chart, moment>>
  PROVE  MarketIInv'
<1>1. desk' = [desk EXCEPT ![i] = r] /\ desk \in [Instruments -> Lookups]
  BY DEF PutDesk, MarketIInv, MarketShape
<1>2. /\ desk' \in [Instruments -> Lookups] /\ ToolOK(tool', desk', wanted)
      /\ \A j \in Instruments : LookupOK(desk'[j], wanted)
  BY <1>1, LookupGoes DEF MarketIInv
<1>3. ~ Waits(desk[i]) /\ ~ Waits(desk'[i]) /\ \A j \in Instruments \ {i} : desk'[j] = desk[j]
  BY <1>1 DEF Waits
<1> QED
  BY <1>2, <1>3, DeskStep DEF MarketIInv, MarketShape

LEMMA RaiseStep ==
  ASSUME MarketIInv, NEW i \in Instruments, desk[i].at \notin {"asking", "searching", "done"},
         wanted.how = "quote", Raise(i), KeepClient, UNCHANGED <<wanted, chart, moment>>
  PROVE  MarketIInv'
<1> DEFINE r == [desk[i] EXCEPT !.at = "done", !.out = [price |-> "none", why |-> "raised"]]
<1>1. /\ desk' = [desk EXCEPT ![i] = r] /\ tool' = IF tool = "running" THEN "raised" ELSE tool
      /\ desk \in [Instruments -> Lookups]
  BY DEF Raise, PutDesk, Outcome, MarketIInv, MarketShape
<1>2. r.at = "done"
  BY <1>1 DEF Lookups
<1> HIDE DEF r
<1>3. /\ [desk EXCEPT ![i] = r] \in [Instruments -> Lookups]
      /\ \A j \in Instruments : LookupOK([desk EXCEPT ![i] = r][j], wanted)
      /\ ToolOK(IF tool = "running" THEN "raised" ELSE tool, [desk EXCEPT ![i] = r], wanted)
  BY <1>1, LookupRaises DEF r, MarketIInv
<1>4. ~ Waits(desk[i]) /\ ~ Waits(desk'[i]) /\ \A j \in Instruments \ {i} : desk'[j] = desk[j]
  BY <1>1, <1>2 DEF Waits
<1>5. tool' \in {"running", "raised", "cut", "ok", "mixed", "empty", "error"}
  BY <1>1 DEF MarketIInv, MarketShape
<1>6. /\ desk' \in [Instruments -> Lookups] /\ ToolOK(tool', desk', wanted)
      /\ \A j \in Instruments : LookupOK(desk'[j], wanted)
  BY <1>1, <1>3
<1> QED
  BY <1>4, <1>5, <1>6, DeskStep

\* A lookup that does not wait joins the line.
LEMMA JoinStep ==
  ASSUME MarketIInv, NEW i \in Instruments, desk[i].at \notin {"asking", "searching", "done"},
         NEW r \in Lookups, LookupOK(r, wanted), r.at \in {"asking", "searching"}, r.out = NoPrice,
         PutDesk(i, r), Enqueue(i), UNCHANGED <<wanted, tool, chart, moment>>
  PROVE  MarketIInv'
<1>1. desk' = [desk EXCEPT ![i] = r] /\ desk \in [Instruments -> Lookups]
  BY DEF PutDesk, MarketIInv, MarketShape
<1>2. inLine' = Append(inLine, i) /\ UNCHANGED <<sent, abandoned, restsUntil, refusals>>
  BY DEF Enqueue
<1>3. r.out.why \notin {"raised", "cut"}
  BY NoPrice.why = "waiting" DEF NoPrice
<1>4. /\ desk' \in [Instruments -> Lookups] /\ ToolOK(tool', desk', wanted)
      /\ \A j \in Instruments : LookupOK(desk'[j], wanted)
  BY <1>1, <1>3, LookupGoes DEF MarketIInv
<1>5. Waits(desk'[i]) /\ i \notin WaitingIn(desk, chart) /\ \A j \in Instruments \ {i} : desk'[j] = desk[j]
  BY <1>1, MarketAssumption DEF Waits, WaitingIn
<1>6. WaitingIn(desk', chart) = WaitingIn(desk, chart) \cup {i}
  <2>1. Waits(desk'[i])
    BY <1>5
  <2>2. \A j \in Instruments \ {i} : desk'[j] = desk[j]
    BY <1>5
  <2> QED
    BY <2>1, <2>2, PutWaits
<1>7. i \in Askers /\ IsLine(inLine, WaitingIn(desk, chart))
  BY DEF Askers, MarketIInv
<1>8. IsLine(inLine', WaitingIn(desk, chart) \cup {i})
  BY <1>2, <1>5, <1>7, LineJoined
<1>9. IsLine(inLine', WaitingIn(desk', chart'))
  BY <1>6, <1>8
<1>10. inLine' # <<>>
  BY <1>2, <1>7 DEF IsLine
<1>11. LineRests'
  BY <1>2, <1>10 DEF LineRests, RefusalsApart, MarketIInv
<1>12. MarketShape'
  BY <1>2, <1>4 DEF MarketIInv, MarketShape
<1> QED
  BY <1>4, <1>9, <1>11, <1>12 DEF MarketIInv

LEMMA MarketBegins ==
  ASSUME MarketInit
  PROVE  MarketIInv
<1>1. MarketShape
  <2>1. NewLookup \in Lookups
    BY DEF NewLookup, NoPage, NoPrice, Lookups, PageShapes, Prices, LookupReasons
  <2>2. chart \in Charts
    <3>1. NewChart \in Charts /\ [NewChart EXCEPT !.at = "done"] \in Charts
      BY DEF NewChart, Charts
    <3> QED
      BY <3>1 DEF MarketInit
  <2>3. desk \in [Instruments -> Lookups]
    BY <2>1 DEF MarketInit
  <2>4. wanted \in Cases /\ tool = "running" /\ sent = FALSE /\ abandoned = 0 /\ moment = 0
    BY DEF MarketInit
  <2>5. 0 \in 0 .. MaxAbandoned /\ 0 \in 0 .. MarketHorizon
    BY MarketAssumption
  <2> QED
    BY <2>2, <2>3, <2>4, <2>5 DEF MarketShape
<1>2. LineRests
  BY DEF MarketInit, LineRests, RefusalsApart
<1>3. \A i \in Instruments : desk[i] = NewLookup
  BY DEF MarketInit
<1>4. \A i \in Instruments : LookupOK(desk[i], wanted)
  BY <1>3 DEF LookupOK, NewLookup
<1>5. ToolOK(tool, desk, wanted)
  <2>1. NewLookup.out.why = "waiting" /\ tool = "running"
    BY DEF NewLookup, NoPrice, MarketInit
  <2> QED
    BY <1>3, <2>1 DEF ToolOK
<1>6. ChartOK(chart, wanted)
  BY DEF MarketInit, ChartOK, NewChart
<1>7. WaitingIn(desk, chart) = {} /\ inLine = <<>>
  BY <1>3 DEF WaitingIn, Waits, NewLookup, NewChart, MarketInit
<1>8. IsLine(<<>>, {})
  BY DEF IsLine
<1> QED
  BY <1>1, <1>2, <1>4, <1>5, <1>6, <1>7, <1>8 DEF MarketIInv

\* The head of the line leaves it, and its lookup hears something.
LEMMA ServedKeeps ==
  ASSUME MarketIInv, inLine # <<>>, NEW a \in ProviderAnswers, Hears(Holder, a), inLine' = Tail(inLine),
         LineRests', UNCHANGED <<wanted, abandoned, moment>>, sent' \in BOOLEAN
  PROVE  MarketIInv'
<1> DEFINE W == WaitingIn(desk, chart)
<1>1. Holder \in W /\ IsLine(inLine', W \ {Holder})
  BY LineServed DEF Holder, MarketIInv
<1>2. /\ desk' \in [Instruments -> Lookups] /\ chart' \in Charts
      /\ tool' \in {"running", "raised", "cut", "ok", "mixed", "empty", "error"}
      /\ \A i \in Instruments : LookupOK(desk'[i], wanted)
      /\ ToolOK(tool', desk', wanted) /\ ChartOK(chart', wanted)
      /\ WaitingIn(desk', chart') = W \ {Holder}
  BY <1>1, Heard
<1>3. MarketShape'
  BY <1>2 DEF MarketIInv, MarketShape
<1> QED
  BY <1>1, <1>2, <1>3 DEF MarketIInv

LEMMA SendOrRefuseKeeps ==
  ASSUME MarketIInv, SendOrRefuse
  PROVE  MarketIInv'
<1>1. inLine # <<>> /\ ~ sent /\ UNCHANGED <<wanted, abandoned, restsUntil, refusals, moment>>
      /\ moment \in Nat
  BY MarketAssumption DEF SendOrRefuse, MarketIInv, MarketShape
<1>2. CASE CreditRests
  <2>1. Hears(Holder, "rate") /\ inLine' = Tail(inLine) /\ sent' = sent
    BY <1>2 DEF SendOrRefuse
  <2>2. LineRests' /\ sent' \in BOOLEAN /\ "rate" \in ProviderAnswers
    BY <1>1, <2>1 DEF LineRests, RefusalsApart, MarketIInv, MarketShape, ProviderAnswers
  <2> QED
    BY <1>1, <2>1, <2>2, ServedKeeps
<1>3. CASE ~ CreditRests
  <2>1. sent' = TRUE /\ UNCHANGED <<inLine, desk, chart, tool>>
    BY <1>3 DEF SendOrRefuse
  <2>2. restsUntil <= moment
    BY <1>1, <1>3 DEF CreditRests, MarketIInv, LineRests
  <2>3. LineRests'
    BY <1>1, <2>1, <2>2 DEF LineRests, RefusalsApart, MarketIInv
  <2>4. MarketShape'
    BY <1>1, <2>1 DEF MarketIInv, MarketShape
  <2> QED
    BY <1>1, <2>1, <2>3, <2>4 DEF MarketIInv
<1> QED
  BY <1>2, <1>3

LEMMA HearAnswerKeeps ==
  ASSUME MarketIInv, NEW a \in ProviderAnswers, HearAnswer(a)
  PROVE  MarketIInv'
<1>1. sent /\ sent' = FALSE /\ inLine' = Tail(inLine) /\ Hears(Holder, a)
      /\ UNCHANGED <<wanted, abandoned, moment>>
  BY DEF HearAnswer
<1>2. inLine # <<>> /\ restsUntil <= moment /\ moment \in Nat /\ CreditRest \in Nat /\ restsUntil \in Nat
      /\ refusals \in Seq(Nat) /\ (\A n \in DOMAIN refusals : refusals[n] + CreditRest <= restsUntil)
      /\ RefusalsApart
  BY <1>1, MarketAssumption DEF MarketIInv, LineRests, MarketShape
<1>3. LineRests'
  <2>1. CASE a = "rate"
    <3>1. restsUntil' = moment + CreditRest /\ refusals' = Append(refusals, moment)
      BY <2>1 DEF HearAnswer
    <3>2. /\ refusals' \in Seq(Nat) /\ DOMAIN refusals = 1 .. Len(refusals) /\ Len(refusals) \in Nat
          /\ DOMAIN refusals' = 1 .. Len(refusals) + 1 /\ refusals'[Len(refusals) + 1] = moment
          /\ \A n \in 1 .. Len(refusals) : refusals'[n] = refusals[n] /\ refusals[n] \in Nat
      BY <1>2, <3>1
    <3>3. restsUntil' \in Nat /\ restsUntil <= restsUntil' /\ restsUntil <= moment
      BY <1>2, <3>1
    <3>4. \A n \in DOMAIN refusals' : refusals'[n] + CreditRest <= restsUntil'
      <4> TAKE n \in DOMAIN refusals'
      <4>1. CASE n = Len(refusals) + 1
        BY <1>2, <3>1, <3>2, <4>1
      <4>2. CASE n \in 1 .. Len(refusals)
        BY <1>2, <3>2, <3>3, <4>2
      <4> QED
        BY <3>2, <4>1, <4>2
    <3>5. RefusalsApart'
      <4> SUFFICES ASSUME NEW m \in DOMAIN refusals', NEW n \in DOMAIN refusals', m < n
                   PROVE  refusals'[n] >= refusals'[m] + CreditRest
        BY DEF RefusalsApart
      <4>1. m \in 1 .. Len(refusals) /\ refusals'[m] = refusals[m] /\ refusals[m] \in Nat
        BY <3>2
      <4>2. CASE n = Len(refusals) + 1
        BY <1>2, <3>2, <4>1, <4>2
      <4>3. CASE n \in 1 .. Len(refusals)
        BY <1>2, <3>2, <4>1, <4>3 DEF RefusalsApart
      <4> QED
        BY <3>2, <4>2, <4>3
    <3> QED
      BY <1>1, <3>2, <3>3, <3>4, <3>5 DEF LineRests
  <2>2. CASE a # "rate"
    <3>1. UNCHANGED <<restsUntil, refusals>>
      BY <2>2 DEF HearAnswer
    <3> QED
      BY <1>1, <1>2, <3>1 DEF LineRests, RefusalsApart
  <2> QED
    BY <2>1, <2>2
<1> QED
  BY <1>1, <1>2, <1>3, ServedKeeps

LEMMA HearLastPageKeeps ==
  ASSUME MarketIInv, HearLastPage
  PROVE  MarketIInv'
<1>1. sent /\ Holder = ChartJob /\ sent' = FALSE /\ inLine' = Tail(inLine)
      /\ chart' = [chart EXCEPT !.at = "done", !.pages = chart.pages + 1, !.from = "primary", !.complete = TRUE]
      /\ UNCHANGED <<wanted, tool, desk, abandoned, restsUntil, refusals, moment>>
  BY DEF HearLastPage
<1>2. chart \in Charts /\ inLine # <<>> /\ chart.pages + 1 \in Nat /\ chart.pages + 1 >= 1
  BY <1>1 DEF MarketIInv, MarketShape, LineRests, Charts
<1>3. chart' = [at |-> "done", pages |-> chart.pages + 1, from |-> "primary", complete |-> TRUE]
  BY <1>1, <1>2 DEF Charts
<1>4. chart' \in Charts /\ chart'.at = "done" /\ ChartOK(chart', wanted)
  BY <1>2, <1>3 DEF Charts, ChartOK
<1>5. IsLine(inLine', WaitingIn(desk, chart) \ {ChartJob})
  BY <1>1, <1>2, LineServed DEF Holder, MarketIInv
<1>6. WaitingIn(desk', chart') = WaitingIn(desk, chart) \ {ChartJob}
  BY <1>1, <1>4, ChartWaits
<1>7. LineRests'
  BY <1>1 DEF LineRests, RefusalsApart, MarketIInv
<1>8. MarketShape'
  BY <1>1, <1>4 DEF MarketIInv, MarketShape
<1> QED
  BY <1>1, <1>4, <1>5, <1>6, <1>7, <1>8 DEF MarketIInv

LEMMA AbandonedEndsKeeps ==
  ASSUME MarketIInv, AbandonedEnds
  PROVE  MarketIInv'
<1>1. UNCHANGED <<wanted, tool, desk, chart, inLine, sent, restsUntil, refusals, moment>>
      /\ abandoned' = abandoned - 1 /\ abandoned > 0
  BY DEF AbandonedEnds
<1>2. LineRests'
  BY <1>1 DEF LineRests, RefusalsApart, MarketIInv
<1>3. MarketShape'
  BY <1>1, MarketAssumption DEF MarketIInv, MarketShape
<1> QED
  BY <1>1, <1>2, <1>3 DEF MarketIInv

LEMMA MinuteKeeps ==
  ASSUME MarketIInv, MinuteGoes
  PROVE  MarketIInv'
<1>1. UNCHANGED <<wanted, tool, desk, chart, inLine, sent, abandoned, restsUntil, refusals>>
      /\ moment' = moment + 1 /\ moment < MarketHorizon /\ moment \in Nat
  BY MarketAssumption DEF MinuteGoes, KeepClient, MarketIInv, MarketShape
<1>2. LineRests'
  BY <1>1 DEF LineRests, RefusalsApart, MarketIInv
<1>3. MarketShape'
  BY <1>1, MarketAssumption DEF MarketIInv, MarketShape
<1> QED
  BY <1>1, <1>2, <1>3 DEF MarketIInv

\* Those who give up are no longer in the line.
LEMMA GivenUp ==
  ASSUME MarketIInv, NEW S, GiveUp(S)
  PROVE  /\ IsLine(inLine', WaitingIn(desk, chart) \ S)
         /\ sent' \in BOOLEAN /\ abandoned' \in 0 .. MaxAbandoned
         /\ moment' = moment => LineRests'
<1>1. inLine' = LineWithout(inLine, S) /\ UNCHANGED <<restsUntil, refusals>>
  BY DEF GiveUp
<1>2. IsLine(inLine', WaitingIn(desk, chart) \ S)
  BY <1>1, LineLeft DEF MarketIInv
<1>3. sent \in BOOLEAN /\ abandoned \in 0 .. MaxAbandoned
  BY DEF MarketIInv, MarketShape
<1>4. sent' \in BOOLEAN /\ abandoned' \in 0 .. MaxAbandoned /\ (sent' => sent /\ Holder \notin S)
  <2>1. CASE sent /\ Holder \in S
    <3>1. sent' = FALSE /\ abandoned < MaxAbandoned /\ abandoned' = abandoned + 1
      BY <2>1 DEF GiveUp
    <3>2. abandoned' \in 0 .. MaxAbandoned
      BY <1>3, <3>1, MarketAssumption
    <3> QED
      BY <3>1, <3>2
  <2>2. CASE ~ (sent /\ Holder \in S)
    BY <1>3, <2>2 DEF GiveUp
  <2> QED
    BY <2>1, <2>2
<1>5. ASSUME sent' PROVE inLine' # <<>> /\ sent
  <2>1. sent /\ Holder \notin S /\ inLine # <<>>
    BY <1>4, <1>5 DEF MarketIInv, LineRests
  <2>2. Holder \in WaitingIn(desk, chart)
    BY <2>1, LineServed DEF Holder, MarketIInv
  <2>3. \E n \in DOMAIN inLine' : inLine'[n] = Holder
    BY <1>2, <2>1, <2>2 DEF IsLine
  <2> QED
    BY <2>1, <2>3
<1>6. moment' = moment => LineRests'
  BY <1>1, <1>5 DEF LineRests, RefusalsApart, MarketIInv
<1> QED
  BY <1>2, <1>4, <1>6

LEMMA BeginLookupKeeps ==
  ASSUME MarketIInv, NEW i \in Instruments, BeginLookup(i)
  PROVE  MarketIInv'
<1>1. desk \in [Instruments -> Lookups] /\ desk[i] \in Lookups /\ desk[i].at = "new"
      /\ UNCHANGED <<wanted, tool, chart, moment>> /\ desk[i].out = NoPrice
  BY DEF BeginLookup, MarketIInv, MarketShape, LookupOK
<1>2. CASE ~ wanted.keyed
  <2> DEFINE r == [desk[i] EXCEPT !.at = "heard", !.primary = "down"]
  <2>1. PutDesk(i, r) /\ KeepClient
    BY <1>2 DEF BeginLookup
  <2>2. r \in Lookups /\ r.at = "heard" /\ r.out = NoPrice /\ NoPrice.why = "waiting"
    BY <1>1 DEF Lookups, ProviderAnswers, NoPrice
  <2> HIDE DEF r
  <2>3. LookupOK(r, wanted)
    BY <2>2 DEF LookupOK
  <2> QED
    BY <1>1, <2>1, <2>2, <2>3, QuietStep
<1>3. CASE wanted.keyed
  <2> DEFINE r == [desk[i] EXCEPT !.at = "asking"]
  <2>1. PutDesk(i, r) /\ Enqueue(i)
    BY <1>3 DEF BeginLookup
  <2>2. r \in Lookups /\ r.at = "asking" /\ r.out = NoPrice
    BY <1>1 DEF Lookups
  <2> HIDE DEF r
  <2>3. LookupOK(r, wanted)
    BY <2>2 DEF LookupOK
  <2> QED
    BY <1>1, <2>1, <2>2, <2>3, JoinStep
<1> QED
  BY <1>2, <1>3

LEMMA SearchMatchesKeeps ==
  ASSUME MarketIInv, NEW i \in Instruments, NEW p \in PagesSeen, SearchMatches(i, p)
  PROVE  MarketIInv'
<1>1. desk \in [Instruments -> Lookups] /\ desk[i] \in Lookups /\ desk[i].at = "heard"
      /\ UNCHANGED <<wanted, tool, chart, moment>> /\ desk[i].out = NoPrice /\ wanted.how = "quote"
      /\ desk[i].primary = "unknown" /\ p \in PageShapes
  BY MarketAssumption DEF SearchMatches, MarketIInv, MarketShape, LookupOK, PageShapes
<1> DEFINE r == [desk[i] EXCEPT !.at = "searching", !.page = p]
<1>2. PutDesk(i, r) /\ Enqueue(i)
  BY DEF SearchMatches
<1>3. r \in Lookups /\ r.at = "searching" /\ r.out = NoPrice /\ r.primary = "unknown"
  BY <1>1 DEF Lookups
<1> HIDE DEF r
<1>4. LookupOK(r, wanted)
  BY <1>1, <1>3 DEF LookupOK
<1> QED
  BY <1>1, <1>2, <1>3, <1>4, JoinStep

LEMMA ReportImpatientKeeps ==
  ASSUME MarketIInv, NEW i \in Instruments, ReportImpatient(i)
  PROVE  MarketIInv'
<1>1. desk \in [Instruments -> Lookups] /\ desk[i] \in Lookups /\ desk[i].at = "asking"
      /\ UNCHANGED <<wanted, tool, chart, moment>> /\ desk[i].out = NoPrice /\ GiveUp({i})
  BY DEF ReportImpatient, MarketIInv, MarketShape, LookupOK
<1> DEFINE r == [desk[i] EXCEPT !.at = "heard", !.primary = "down"]
<1>2. desk' = [desk EXCEPT ![i] = r]
  BY DEF ReportImpatient, PutDesk
<1>3. r \in Lookups /\ r.at = "heard" /\ r.out = NoPrice
  BY <1>1 DEF Lookups, ProviderAnswers
<1> HIDE DEF r
<1>4. LookupOK(r, wanted) /\ r.out.why \notin {"raised", "cut"}
  BY <1>3, NoPrice.why = "waiting" DEF LookupOK, NoPrice
<1>5. /\ desk' \in [Instruments -> Lookups] /\ ToolOK(tool, desk', wanted)
      /\ \A j \in Instruments : LookupOK(desk'[j], wanted)
  BY <1>1, <1>2, <1>3, <1>4, LookupGoes DEF MarketIInv
<1>6. WaitingIn(desk', chart) = WaitingIn(desk, chart) \ {i}
  <2>1. ~ Waits(desk'[i])
    BY <1>1, <1>2, <1>3 DEF Waits
  <2>2. \A j \in Instruments \ {i} : desk'[j] = desk[j]
    BY <1>1, <1>2
  <2>3. ChartJob # i
    BY MarketAssumption
  <2> QED
    BY <2>1, <2>2, <2>3 DEF WaitingIn
<1>7. IsLine(inLine', WaitingIn(desk, chart) \ {i}) /\ LineRests' /\ sent' \in BOOLEAN
      /\ abandoned' \in 0 .. MaxAbandoned
  BY <1>1, GivenUp
<1>8. IsLine(inLine', WaitingIn(desk', chart'))
  BY <1>1, <1>6, <1>7
<1>9. MarketShape'
  BY <1>1, <1>5, <1>7 DEF MarketIInv, MarketShape
<1> QED
  BY <1>1, <1>5, <1>7, <1>8, <1>9 DEF MarketIInv

\* What may be wanted, and what a page may say.
LEMMA WantsAre ==
  ASSUME MarketIInv
  PROVE  /\ wanted.how \in {"quote", "report"} /\ wanted.session \in {"latest", "regular", "post"}
         /\ wanted.how = "quote" => wanted.session = "latest"
         /\ wanted.chart \in {"none", "series", "extrema"}
<1>1. wanted \in Wants /\ (wanted.how = "quote" => wanted.session = "latest")
  BY MarketAssumption DEF MarketIInv, MarketShape
<1> QED
  BY <1>1 DEF Wants

LEMMA PagesAre ==
  ASSUME NEW p \in PagesSeen
  PROVE  p \in PageShapes /\ p.ext \in BOOLEAN /\ p.regular \in BOOLEAN
<1>1. p \in PageShapes
  BY MarketAssumption DEF PageShapes
<1> QED
  BY <1>1 DEF PageShapes

LEMMA ReportRowKeeps ==
  ASSUME MarketIInv, NEW i \in Instruments, NEW p \in PagesSeen, NEW yes \in BOOLEAN, ReportRow(i, p, yes)
  PROVE  MarketIInv'
<1>1. desk \in [Instruments -> Lookups] /\ desk[i] \in Lookups /\ desk[i].at = "heard"
      /\ UNCHANGED <<wanted, tool, chart, moment>> /\ wanted.how = "report" /\ KeepClient
  BY DEF ReportRow, MarketIInv, MarketShape
<1> DEFINE row == RowOf(i, p, yes)
           why == IF row = "none" THEN "error" ELSE "price"
           r   == [[[desk[i] EXCEPT !.at = "done"] EXCEPT !.out = [price |-> row, why |-> why]]
                     EXCEPT !.page = p]
<1>2. PutDesk(i, r)
  BY DEF ReportRow, Outcome
<1>3. row \in {"session", "regular", "primary", "none"}
  BY DEF RowOf
<1>4. p \in PageShapes
  BY PagesAre
<1>5. [price |-> row, why |-> why] \in [price : Prices, why : LookupReasons]
  BY <1>3 DEF Prices, LookupReasons
<1>6. r \in Lookups /\ r.at = "done" /\ r.page = p /\ r.primary = desk[i].primary
      /\ r.out = [price |-> row, why |-> why]
  <2> HIDE DEF row, why
  <2> QED
    BY <1>1, <1>4, <1>5 DEF Lookups
<1>7. row = "none" => ~ KnownTo(r, wanted)
  BY <1>6, WantsAre DEF RowOf, KnownTo, Succeeded
<1>8. p.ext /\ wanted.session = "latest" => row = "session"
  BY DEF RowOf
<1> HIDE DEF r, row
<1>9. LookupOK(r, wanted)
  BY <1>3, <1>6, <1>7, <1>8 DEF LookupOK, EndOK
<1>10. r.out.why \notin {"raised", "cut"}
  BY <1>6
<1> QED
  BY <1>1, <1>2, <1>6, <1>9, <1>10, QuietStep

\* A lookup comes to an end without the tool.
LEMMA EndStep ==
  ASSUME MarketIInv, NEW i \in Instruments, desk[i].at \notin {"asking", "searching", "done"},
         NEW p \in PageShapes, NEW closed \in BOOLEAN, NEW price \in Prices, NEW why \in {"price", "error"},
         NEW r, r = [desk[i] EXCEPT !.page = p, !.closed = closed, !.at = "done",
                                    !.out = [price |-> price, why |-> why]],
         EndOK(r, wanted), PutDesk(i, r), KeepClient, UNCHANGED <<wanted, tool, chart, moment>>
  PROVE  MarketIInv'
<1>1. desk[i] \in Lookups
  BY DEF MarketIInv, MarketShape
<1>2. [price |-> price, why |-> why] \in [price : Prices, why : LookupReasons]
  BY DEF LookupReasons
<1>3. r = [at |-> "done", primary |-> desk[i].primary, page |-> p, closed |-> closed,
           out |-> [price |-> price, why |-> why]]
  BY <1>1 DEF Lookups
<1>4. r \in Lookups /\ r.at = "done" /\ r.out.why = why
  <2>1. desk[i].primary \in ProviderAnswers \cup {"none"}
    BY <1>1 DEF Lookups
  <2>2. r \in Lookups
    BY <1>2, <1>3, <2>1 DEF Lookups
  <2> QED
    BY <1>3, <2>2
<1>5. LookupOK(r, wanted)
  BY <1>4 DEF LookupOK
<1> QED
  BY <1>4, <1>5, QuietStep

LEMMA QuoteProceedsKeeps ==
  ASSUME MarketIInv, NEW i \in Instruments, NEW p \in PagesSeen, NEW closed \in BOOLEAN,
         QuoteProceeds(i, p, closed)
  PROVE  MarketIInv'
<1>1. /\ desk \in [Instruments -> Lookups] /\ desk[i] \in Lookups /\ desk[i].at \in {"heard", "matched"}
      /\ UNCHANGED <<wanted, chart, moment>> /\ wanted.how = "quote" /\ KeepClient
      /\ wanted.session = "latest" /\ Proceed(i, p, closed) /\ desk[i].out = NoPrice
  BY WantsAre DEF QuoteProceeds, MarketIInv, MarketShape, LookupOK
<1>2. p \in PageShapes /\ p.ext \in BOOLEAN /\ p.regular \in BOOLEAN
  BY PagesAre
<1> DEFINE now == [desk[i] EXCEPT !.page = p, !.closed = closed]
           Ends(price, why) == [desk[i] EXCEPT !.page = p, !.closed = closed, !.at = "done",
                                               !.out = [price |-> price, why |-> why]]
           good == ~ (p.got = "broken" \/ desk[i].primary = "broken")
<1>3. CASE ~ good
  <2>1. Raise(i)
    BY <1>1, <1>3 DEF Proceed
  <2> QED
    BY <1>1, <2>1, RaiseStep
<1>4. CASE good
  <2>1. tool' = tool
    BY <1>1, <1>4 DEF Proceed
  <2>2. ASSUME NEW price, NEW why,
               desk' = [desk EXCEPT ![i] = [now EXCEPT !.at = "done", !.out = [price |-> price, why |-> why]]]
        PROVE  PutDesk(i, Ends(price, why))
    BY <1>1, <2>2 DEF PutDesk, Lookups
  <2>3. /\ Succeeded(i) /\ ~ closed => PutDesk(i, Ends("primary", "price"))
        /\ Succeeded(i) /\ closed /\ p.ext => PutDesk(i, Ends("session", "price"))
        /\ Succeeded(i) /\ closed /\ ~ p.ext /\ ~ wanted.yahoo => PutDesk(i, Ends("primary", "price"))
        /\ ~ Succeeded(i) /\ p.ext => PutDesk(i, Ends("session", "price"))
        /\ ~ Succeeded(i) /\ ~ p.ext /\ p.regular => PutDesk(i, Ends("regular", "price"))
        /\ ~ Succeeded(i) /\ ~ p.ext /\ ~ p.regular /\ ~ wanted.yahoo => PutDesk(i, Ends("none", "error"))
        /\ wanted.yahoo /\ ~ p.ext /\ (IF Succeeded(i) THEN closed ELSE ~ p.regular)
             => PutDesk(i, [now EXCEPT !.at = "more"])
    <3> HIDE DEF Ends
    <3> QED
      BY <1>1, <1>4, <2>2 DEF Proceed
  <2>4. ASSUME NEW price, NEW why
        PROVE  /\ Ends(price, why).primary = desk[i].primary /\ Ends(price, why).page = p
               /\ Ends(price, why).closed = closed
               /\ Ends(price, why).out.price = price /\ Ends(price, why).out.why = why
    BY <1>1 DEF Lookups
  <2>5. CASE wanted.yahoo /\ ~ p.ext /\ (IF Succeeded(i) THEN closed ELSE ~ p.regular)
    <3> DEFINE r == [[[desk[i] EXCEPT !.page = p] EXCEPT !.closed = closed] EXCEPT !.at = "more"]
    <3>1. PutDesk(i, r)
      BY <2>3, <2>5
    <3>2. r \in Lookups /\ r.at = "more" /\ r.page = p /\ r.out = NoPrice /\ r.primary = desk[i].primary
      BY <1>1, <1>2 DEF Lookups
    <3> HIDE DEF r
    <3>3. LookupOK(r, wanted)
      BY <1>1, <2>5, <3>2 DEF LookupOK, Succeeded
    <3>4. r.out.why \notin {"raised", "cut"}
      BY <3>2, NoPrice.why = "waiting" DEF NoPrice
    <3> QED
      BY <1>1, <2>1, <3>1, <3>2, <3>3, <3>4, QuietStep
  <2> DEFINE Fine(price, why) == PutDesk(i, Ends(price, why)) /\ EndOK(Ends(price, why), wanted)
  <2>6. ASSUME NEW price \in Prices, NEW why \in {"price", "error"}, Fine(price, why) PROVE MarketIInv'
    BY <1>1, <1>2, <2>1, <2>6, EndStep
  <2> HIDE DEF Ends
  <2>7. CASE Succeeded(i) /\ ~ closed
    <3>1. PutDesk(i, Ends("primary", "price"))
      BY <2>3, <2>7
    <3>2. EndOK(Ends("primary", "price"), wanted)
      BY <1>1, <2>4, <2>7 DEF EndOK
    <3>3. Fine("primary", "price")
      BY <3>1, <3>2
    <3> QED
      BY <2>6, <3>3 DEF Prices
  <2>8. CASE p.ext /\ (Succeeded(i) => closed)
    <3>1. PutDesk(i, Ends("session", "price"))
      BY <2>3, <2>8
    <3>2. EndOK(Ends("session", "price"), wanted)
      BY <1>1, <2>4, <2>8 DEF EndOK
    <3>3. Fine("session", "price")
      BY <3>1, <3>2
    <3> QED
      BY <2>6, <3>3 DEF Prices
  <2>9. CASE Succeeded(i) /\ closed /\ ~ p.ext /\ ~ wanted.yahoo
    <3>1. PutDesk(i, Ends("primary", "price"))
      BY <2>3, <2>9
    <3>2. EndOK(Ends("primary", "price"), wanted)
      <4>1. /\ Ends("primary", "price").page = p /\ Ends("primary", "price").out.price = "primary"
            /\ Ends("primary", "price").out.why = "price"
        BY <2>4
      <4> QED
        BY <2>9, <4>1 DEF EndOK
    <3>3. Fine("primary", "price")
      BY <3>1, <3>2
    <3> QED
      BY <2>6, <3>3 DEF Prices
  <2>10. CASE ~ Succeeded(i) /\ ~ p.ext /\ p.regular
    <3>1. PutDesk(i, Ends("regular", "price"))
      BY <2>3, <2>10
    <3>2. EndOK(Ends("regular", "price"), wanted)
      BY <1>1, <2>4, <2>10 DEF EndOK
    <3>3. Fine("regular", "price")
      BY <3>1, <3>2
    <3> QED
      BY <2>6, <3>3 DEF Prices
  <2>11. CASE ~ Succeeded(i) /\ ~ p.ext /\ ~ p.regular /\ ~ wanted.yahoo
    <3>1. PutDesk(i, Ends("none", "error"))
      BY <2>3, <2>11
    <3>2. EndOK(Ends("none", "error"), wanted)
      BY <1>1, <2>4, <2>11 DEF EndOK, KnownTo, Succeeded
    <3>3. Fine("none", "error")
      BY <3>1, <3>2
    <3> QED
      BY <2>6, <3>3 DEF Prices
  <2> QED
    BY <2>5, <2>7, <2>8, <2>9, <2>10, <2>11
<1> QED
  BY <1>3, <1>4

LEMMA MoreArrivesKeeps ==
  ASSUME MarketIInv, NEW i \in Instruments, NEW more \in {"session", "nothing", "broken"}, MoreArrives(i, more)
  PROVE  MarketIInv'
<1>1. /\ desk \in [Instruments -> Lookups] /\ desk[i] \in Lookups /\ desk[i].at = "more"
      /\ UNCHANGED <<wanted, chart, moment>> /\ wanted.how = "quote" /\ KeepClient
      /\ wanted.session = "latest" /\ ~ desk[i].page.ext /\ (desk[i].primary = "ok" \/ ~ desk[i].page.regular)
      /\ desk[i].page \in PageShapes /\ desk[i].closed \in BOOLEAN
  BY WantsAre DEF MoreArrives, MarketIInv, MarketShape, LookupOK, Lookups
<1> DEFINE Ends(price, why) == [desk[i] EXCEPT !.page = desk[i].page, !.closed = desk[i].closed, !.at = "done",
                                               !.out = [price |-> price, why |-> why]]
<1>2. ASSUME NEW price, NEW why
      PROVE  /\ Ends(price, why).primary = desk[i].primary /\ Ends(price, why).page = desk[i].page
             /\ Ends(price, why).closed = desk[i].closed
             /\ Ends(price, why).out.price = price /\ Ends(price, why).out.why = why
             /\ Outcome(i, price, why) = Ends(price, why)
  BY <1>1 DEF Lookups, Outcome
<1> DEFINE Fine(price, why) == PutDesk(i, Ends(price, why)) /\ EndOK(Ends(price, why), wanted) /\ tool' = tool
<1>3. ASSUME NEW price \in Prices, NEW why \in {"price", "error"}, Fine(price, why) PROVE MarketIInv'
  BY <1>1, <1>3, EndStep
<1> HIDE DEF Ends
<1>4. CASE more = "broken"
  <2>1. Raise(i)
    BY <1>4 DEF MoreArrives
  <2> QED
    BY <1>1, <2>1, RaiseStep
<1>5. CASE more = "session"
  <2>0. PutDesk(i, Ends("session", "price")) /\ tool' = tool
    BY <1>2, <1>5 DEF MoreArrives
  <2>1. Fine("session", "price")
    BY <1>1, <1>2, <1>5, <2>0 DEF EndOK
  <2> QED
    BY <1>3, <2>1 DEF Prices
<1>6. CASE more = "nothing" /\ Succeeded(i)
  <2>0. PutDesk(i, Ends("primary", "price")) /\ tool' = tool
    BY <1>2, <1>6 DEF MoreArrives
  <2>1. Fine("primary", "price")
    BY <1>1, <1>2, <1>6, <2>0 DEF EndOK
  <2> QED
    BY <1>3, <2>1 DEF Prices
<1>7. CASE more = "nothing" /\ ~ Succeeded(i)
  <2>0. PutDesk(i, Ends("none", "error")) /\ tool' = tool
    BY <1>2, <1>7 DEF MoreArrives
  <2>1. Fine("none", "error")
    BY <1>1, <1>2, <1>7, <2>0 DEF EndOK, KnownTo, Succeeded
  <2> QED
    BY <1>3, <2>1 DEF Prices
<1> QED
  BY <1>4, <1>5, <1>6, <1>7

LEMMA ToolAnswersKeeps ==
  ASSUME MarketIInv, ToolAnswers
  PROVE  MarketIInv'
<1>1. /\ tool = "running" /\ \A i \in Instruments : desk[i].at = "done"
      /\ tool' = QuoteStatus /\ UNCHANGED <<wanted, desk, chart, moment>>
      /\ UNCHANGED <<inLine, sent, abandoned, restsUntil, refusals>>
  BY DEF ToolAnswers, KeepClient
<1>2. \A i \in Instruments : desk[i].out.why \notin {"raised", "cut"}
  BY <1>1 DEF MarketIInv, ToolOK
<1>3. /\ QuoteStatus \in {"ok", "mixed", "empty", "error"}
      /\ QuoteStatus = "ok" => \A i \in Instruments : desk[i].out.price # "none"
      /\ QuoteStatus \in {"empty", "error"} => \A i \in Instruments : desk[i].out.price = "none"
  <2> DEFINE found == {i \in Instruments : Priced(i)}
  <2>1. CASE found = Instruments
    BY <2>1 DEF QuoteStatus, Priced
  <2>2. CASE found # Instruments /\ found # {}
    BY <2>2 DEF QuoteStatus
  <2>3. CASE found # Instruments /\ found = {}
    <3>1. QuoteStatus \in {"empty", "error"}
      BY <2>3 DEF QuoteStatus
    <3> QED
      BY <2>3, <3>1 DEF Priced
  <2> QED
    BY <2>1, <2>2, <2>3
<1>4. ToolOK(tool', desk', wanted')
  BY <1>1, <1>2, <1>3 DEF ToolOK
<1>5. LineRests'
  BY <1>1 DEF LineRests, RefusalsApart, MarketIInv
<1>6. MarketShape'
  BY <1>1, <1>3 DEF MarketIInv, MarketShape
<1> QED
  BY <1>1, <1>4, <1>5, <1>6 DEF MarketIInv

LEMMA ToolIsCutKeeps ==
  ASSUME MarketIInv, ToolIsCut
  PROVE  MarketIInv'
<1> DEFINE cut(i) == [desk[i] EXCEPT !.at = "done", !.out = [price |-> "none", why |-> "cut"]]
<1>1. /\ tool' = "cut" /\ UNCHANGED <<wanted, chart, moment>> /\ GiveUp(Instruments)
      /\ desk' = [i \in Instruments |-> IF desk[i].at = "done" THEN desk[i] ELSE cut(i)]
      /\ desk \in [Instruments -> Lookups]
  BY DEF ToolIsCut, Outcome, MarketIInv, MarketShape
<1>2. ASSUME NEW i \in Instruments
      PROVE  desk'[i] \in Lookups /\ desk'[i].at = "done" /\ LookupOK(desk'[i], wanted)
  <2>1. CASE desk[i].at = "done"
    BY <1>1, <2>1 DEF MarketIInv
  <2>2. CASE desk[i].at # "done"
    <3>1. cut(i) \in Lookups /\ cut(i).at = "done" /\ cut(i).out.price = "none" /\ cut(i).out.why = "cut"
      BY <1>1 DEF Lookups, Prices, LookupReasons
    <3>2. LookupOK(cut(i), wanted)
      BY <3>1 DEF LookupOK, EndOK
    <3> HIDE DEF cut
    <3> QED
      BY <1>1, <2>2, <3>1, <3>2
  <2> QED
    BY <2>1, <2>2
<1>3. desk' \in [Instruments -> Lookups]
  <2> HIDE DEF cut
  <2>1. desk' = [i \in Instruments |-> desk'[i]]
    BY <1>1
  <2> QED
    BY <1>2, <2>1
<1>4. WaitingIn(desk', chart') = WaitingIn(desk, chart) \ Instruments
  <2>1. \A i \in Instruments : ~ Waits(desk'[i])
    BY <1>2 DEF Waits
  <2> QED
    BY <1>1, <2>1, MarketAssumption DEF WaitingIn
<1>5. IsLine(inLine', WaitingIn(desk, chart) \ Instruments) /\ LineRests' /\ sent' \in BOOLEAN
      /\ abandoned' \in 0 .. MaxAbandoned
  BY <1>1, GivenUp
<1>6. ToolOK(tool', desk', wanted')
  BY <1>1 DEF ToolOK
<1>7. MarketShape'
  BY <1>1, <1>3, <1>5 DEF MarketIInv, MarketShape
<1> QED
  BY <1>1, <1>2, <1>4, <1>5, <1>6, <1>7 DEF MarketIInv

\* The reader of a history goes on without the first provider's client.
LEMMA ChartStep ==
  ASSUME MarketIInv, chart.at # "asking", NEW at \in {"done", "yahoo", "reported"},
         NEW from \in {"none", "primary", "yahoo", "reported"}, NEW whole \in BOOLEAN,
         whole => at = "done" /\ wanted.chart # "extrema",
         chart' = [[[chart EXCEPT !.at = at] EXCEPT !.from = from] EXCEPT !.complete = whole],
         KeepClient, UNCHANGED <<wanted, tool, desk, moment>>
  PROVE  MarketIInv'
<1>1. chart \in Charts /\ UNCHANGED <<inLine, sent, abandoned, restsUntil, refusals>>
  BY DEF MarketIInv, MarketShape, KeepClient
<1>2. chart' \in Charts /\ chart'.at = at /\ chart'.complete = whole
  BY <1>1 DEF Charts
<1>3. ChartOK(chart', wanted)
  BY <1>2 DEF ChartOK
<1>4. WaitingIn(desk', chart') = WaitingIn(desk, chart)
  BY <1>2 DEF WaitingIn
<1>5. LineRests'
  BY <1>1 DEF LineRests, RefusalsApart, MarketIInv
<1>6. MarketShape'
  BY <1>1, <1>2 DEF MarketIInv, MarketShape
<1> QED
  BY <1>1, <1>3, <1>4, <1>5, <1>6 DEF MarketIInv

LEMMA ChartPageKeeps ==
  ASSUME MarketIInv, ChartPage
  PROVE  MarketIInv'
<1>1. /\ chart \in Charts /\ chart.at \in {"new", "page"} /\ ~ chart.complete
      /\ UNCHANGED <<wanted, tool, desk, moment>>
      /\ chart.from \in {"none", "primary", "yahoo", "reported"}
  BY DEF ChartPage, MarketIInv, MarketShape, ChartOK, Charts
<1>2. CASE ~ wanted.keyed
  <2>1. chart' = [chart EXCEPT !.at = "yahoo"] /\ KeepClient
    BY <1>2 DEF ChartPage
  <2>2. chart' = [[[chart EXCEPT !.at = "yahoo"] EXCEPT !.from = chart.from] EXCEPT !.complete = FALSE]
    BY <1>1, <2>1 DEF Charts
  <2> QED
    BY <1>1, <2>1, <2>2, ChartStep
<1>3. CASE wanted.keyed
  <2>1. chart' = [chart EXCEPT !.at = "asking"] /\ inLine' = Append(inLine, ChartJob)
        /\ UNCHANGED <<sent, abandoned, restsUntil, refusals>>
    BY <1>3 DEF ChartPage, Enqueue
  <2>2. chart' \in Charts /\ chart'.at = "asking" /\ ~ chart'.complete
    BY <1>1, <2>1 DEF Charts
  <2>3. ChartOK(chart', wanted)
    BY <2>2 DEF ChartOK
  <2>4. ChartJob \notin WaitingIn(desk, chart) /\ ChartJob \in Askers
        /\ IsLine(inLine, WaitingIn(desk, chart))
    BY <1>1, MarketAssumption DEF WaitingIn, Askers, MarketIInv
  <2>5. WaitingIn(desk', chart') = WaitingIn(desk, chart) \cup {ChartJob}
    BY <1>1, <2>2 DEF WaitingIn
  <2>6. IsLine(inLine', WaitingIn(desk', chart'))
    BY <2>1, <2>4, <2>5, LineJoined
  <2>7. inLine' # <<>>
    BY <2>1, <2>4 DEF IsLine
  <2>8. LineRests'
    BY <1>1, <2>1, <2>7 DEF LineRests, RefusalsApart, MarketIInv
  <2>9. MarketShape'
    BY <1>1, <2>1, <2>2 DEF MarketIInv, MarketShape
  <2> QED
    BY <1>1, <2>3, <2>6, <2>8, <2>9 DEF MarketIInv
<1> QED
  BY <1>2, <1>3

LEMMA ChartRecoversKeeps ==
  ASSUME MarketIInv, NEW found \in BOOLEAN, ChartRecovers(found)
  PROVE  MarketIInv'
<1>1. /\ chart \in Charts /\ chart.at = "yahoo" /\ ~ chart.complete /\ KeepClient
      /\ UNCHANGED <<wanted, tool, desk, moment>>
      /\ chart.from \in {"none", "primary", "yahoo", "reported"}
  BY DEF ChartRecovers, MarketIInv, MarketShape, ChartOK, Charts
<1>2. CASE found /\ wanted.yahoo
  <2>1. CASE wanted.chart = "series"
    <3>1. chart' = [chart EXCEPT !.at = "done", !.from = "yahoo", !.complete = TRUE]
      BY <1>2, <2>1 DEF ChartRecovers
    <3>2. chart' = [[[chart EXCEPT !.at = "done"] EXCEPT !.from = "yahoo"] EXCEPT !.complete = TRUE]
      BY <3>1
    <3> QED
      BY <1>1, <2>1, <3>2, ChartStep
  <2>2. CASE wanted.chart # "series"
    <3>1. chart' = [chart EXCEPT !.at = "done", !.from = "yahoo", !.complete = FALSE]
      BY <1>2, <2>2 DEF ChartRecovers
    <3>2. chart' = [[[chart EXCEPT !.at = "done"] EXCEPT !.from = "yahoo"] EXCEPT !.complete = FALSE]
      BY <3>1
    <3> QED
      BY <1>1, <3>2, ChartStep
  <2> QED
    BY <2>1, <2>2
<1>3. CASE ~ (found /\ wanted.yahoo)
  <2> DEFINE at == IF wanted.chart = "extrema" THEN "reported" ELSE "done"
  <2>1. chart' = [chart EXCEPT !.at = at]
    BY <1>3 DEF ChartRecovers
  <2>2. at \in {"done", "reported"}
    OBVIOUS
  <2> HIDE DEF at
  <2>3. chart' = [[[chart EXCEPT !.at = at] EXCEPT !.from = chart.from] EXCEPT !.complete = FALSE]
    BY <1>1, <2>1 DEF Charts
  <2> QED
    BY <1>1, <2>2, <2>3, ChartStep
<1> QED
  BY <1>2, <1>3

LEMMA ChartReportedKeeps ==
  ASSUME MarketIInv, NEW found \in BOOLEAN, ChartReported(found)
  PROVE  MarketIInv'
<1>1. /\ chart \in Charts /\ chart.at = "reported" /\ ~ chart.complete /\ KeepClient
      /\ UNCHANGED <<wanted, tool, desk, moment>>
  BY DEF ChartReported, MarketIInv, MarketShape, ChartOK
<1> DEFINE from == IF found THEN "reported" ELSE "none"
<1>2. chart' = [chart EXCEPT !.at = "done", !.from = from] /\ from \in {"none", "reported"}
  BY DEF ChartReported
<1> HIDE DEF from
<1>3. chart' = [[[chart EXCEPT !.at = "done"] EXCEPT !.from = from] EXCEPT !.complete = FALSE]
  BY <1>1, <1>2 DEF Charts
<1> QED
  BY <1>1, <1>2, <1>3, ChartStep

LEMMA ChartIsCutKeeps ==
  ASSUME MarketIInv, ChartIsCut
  PROVE  MarketIInv'
<1>1. /\ chart \in Charts /\ chart.at # "done" /\ ~ chart.complete /\ GiveUp({ChartJob})
      /\ UNCHANGED <<wanted, tool, desk, moment>> /\ chart' = [chart EXCEPT !.at = "done"]
  BY DEF ChartIsCut, MarketIInv, MarketShape, ChartOK
<1>2. chart' \in Charts /\ chart'.at = "done" /\ ~ chart'.complete
  BY <1>1 DEF Charts
<1>3. ChartOK(chart', wanted)
  BY <1>2 DEF ChartOK
<1>4. WaitingIn(desk', chart') = WaitingIn(desk, chart) \ {ChartJob}
  BY <1>1, <1>2, MarketAssumption DEF WaitingIn
<1>5. IsLine(inLine', WaitingIn(desk, chart) \ {ChartJob}) /\ LineRests' /\ sent' \in BOOLEAN
      /\ abandoned' \in 0 .. MaxAbandoned
  BY <1>1, GivenUp
<1>6. MarketShape'
  BY <1>1, <1>2, <1>5 DEF MarketIInv, MarketShape
<1> QED
  BY <1>1, <1>3, <1>4, <1>5, <1>6 DEF MarketIInv

LEMMA MarketRests ==
  ASSUME MarketIInv, UNCHANGED marketVars
  PROVE  MarketIInv'
<1>1. UNCHANGED <<wanted, tool, desk, chart, inLine, sent, abandoned, restsUntil, refusals, moment>>
  BY DEF marketVars
<1>2. LineRests'
  BY <1>1 DEF LineRests, RefusalsApart, MarketIInv
<1>3. MarketShape'
  BY <1>1 DEF MarketShape, MarketIInv
<1> QED
  BY <1>1, <1>2, <1>3 DEF MarketIInv

LEMMA MarketKept ==
  ASSUME MarketIInv, [MarketNext]_marketVars
  PROVE  MarketIInv'
<1>1. CASE SendOrRefuse
  BY <1>1, SendOrRefuseKeeps
<1>2. CASE \E a \in ProviderAnswers : HearAnswer(a)
  BY <1>2, HearAnswerKeeps
<1>3. CASE HearLastPage \/ AbandonedEnds \/ MinuteGoes
  BY <1>3, HearLastPageKeeps, AbandonedEndsKeeps, MinuteKeeps
<1>4. CASE \E i \in Instruments : BeginLookup(i) \/ ReportImpatient(i)
  BY <1>4, BeginLookupKeeps, ReportImpatientKeeps
<1>5. CASE \E i \in Instruments, p \in PagesSeen, yes \in BOOLEAN : ReportRow(i, p, yes) \/ QuoteProceeds(i, p, yes)
  BY <1>5, ReportRowKeeps, QuoteProceedsKeeps
<1>6. CASE \E i \in Instruments, p \in PagesSeen : SearchMatches(i, p)
  BY <1>6, SearchMatchesKeeps
<1>7. CASE \E i \in Instruments, m \in {"session", "nothing", "broken"} : MoreArrives(i, m)
  BY <1>7, MoreArrivesKeeps
<1>8. CASE ToolAnswers \/ ToolIsCut
  BY <1>8, ToolAnswersKeeps, ToolIsCutKeeps
<1>9. CASE ChartPage \/ ChartIsCut
  BY <1>9, ChartPageKeeps, ChartIsCutKeeps
<1>10. CASE \E yes \in BOOLEAN : ChartRecovers(yes) \/ ChartReported(yes)
  BY <1>10, ChartRecoversKeeps, ChartReportedKeeps
<1>11. CASE UNCHANGED marketVars
  BY <1>11, MarketRests
<1> QED
  BY <1>1, <1>2, <1>3, <1>4, <1>5, <1>6, <1>7, <1>8, <1>9, <1>10, <1>11 DEF MarketNext

LEMMA MarketSound ==
  ASSUME MarketIInv
  PROVE  MarketInv
<1>1. QueueIsExact
  <2> DEFINE W == WaitingIn(desk, chart)
  <2>1. {inLine[n] : n \in DOMAIN inLine} = W /\ Cardinality(W) = Len(inLine)
    BY LineCounts DEF MarketIInv, IsLine
  <2> QED
    BY <2>1 DEF QueueIsExact, WaitingIn, Waits
<1>2. MarketTypeOK
  <2> DEFINE W == WaitingIn(desk, chart)
  <2>1. inLine \in Seq(Askers) /\ Cardinality(W) = Len(inLine) /\ W \subseteq Askers
    BY LineCounts DEF MarketIInv, IsLine, WaitingIn, Askers
  <2>2. IsFiniteSet(Askers) /\ Cardinality(Askers) = Cardinality(Instruments) + 1
        /\ Cardinality(Instruments) \in Nat
    <3>1. IsFiniteSet(Instruments) /\ ChartJob \notin Instruments
      BY MarketAssumption
    <3> QED
      BY <3>1, FS_AddElement, FS_CardinalityType DEF Askers
  <2>3. Len(inLine) <= Cardinality(Instruments) + 1
    BY <2>1, <2>2, FS_Subset
  <2>4. Len(inLine) \in 0 .. Cardinality(Instruments) + 1 /\ inLine \in [1 .. Len(inLine) -> Askers]
    BY <2>1, <2>2, <2>3
  <2>5. inLine \in UNION {[1 .. n -> Askers] : n \in 0 .. Cardinality(Instruments) + 1}
    BY <2>4
  <2> QED
    BY <2>5 DEF MarketTypeOK, MarketIInv, MarketShape, LineRests, Askers
<1>3. RefusalsApart
  BY DEF MarketIInv, LineRests
<1>4. ASSUME Answered, NEW i \in Instruments
      PROVE  desk[i].at = "done" /\ desk[i].out.why \notin {"raised", "cut"} /\ EndOK(desk[i], wanted)
             /\ desk[i].out.why \in LookupReasons
  <2>1. desk[i].at = "done" /\ desk[i].out.why \notin {"raised", "cut"}
    BY <1>4 DEF MarketIInv, ToolOK, Answered
  <2>2. desk[i] \in Lookups
    BY DEF MarketIInv, MarketShape
  <2> QED
    BY <2>1, <2>2 DEF MarketIInv, LookupOK, Lookups
<1>5. AnyPriceIsTold
  <2> SUFFICES ASSUME Answered, NEW i \in Instruments, KnownTo(desk[i], wanted)
               PROVE  desk[i].out.price # "none" \/ (desk[i].out.why = "suggested" /\ desk[i].primary = "unknown")
    BY DEF AnyPriceIsTold, KnownTo
  <2> QED
    BY <1>4 DEF EndOK, LookupReasons
<1>6. LatestSessionLeads
  BY <1>4 DEF LatestSessionLeads, EndOK
<1>7. StatusIsTrue
  BY DEF StatusIsTrue, MarketIInv, ToolOK
<1>8. PeakIsProven
  BY DEF PeakIsProven, MarketIInv, ChartOK
<1> QED
  BY <1>1, <1>2, <1>3, <1>5, <1>6, <1>7, <1>8 DEF MarketInv

\* Prices for an answer, for any instruments, pages and limits: two refusals for lack of
\* credits are heard a rest apart, the line is exactly who waits, a price that either
\* provider had is told, and a peak is called verified only of pages that reached the
\* beginning (market.py, history.py, twelvedata/client.py).
THEOREM MarketIsSafe == MarketSpec => []MarketInv
<1>1. MarketInit => MarketIInv
  BY MarketBegins
<1>2. MarketIInv /\ [MarketNext]_marketVars => MarketIInv'
  BY MarketKept
<1>3. MarketIInv => MarketInv
  BY MarketSound
<1> QED
  BY <1>1, <1>2, <1>3, PTL DEF MarketSpec

------------------------------------------------------------------------------
(* Evidence.  The ledger is what the best result says of each source, an   *)
(* answer refers to nothing else, and the model is told of a source no     *)
(* more often than results named it.  The argument: while there is more to *)
(* be told of a source than was told, it was told of it less often than it *)
(* was named; and what is delivered is the draft prepared, which is never  *)
(* touched again.                                                          *)

AllResults == UNION {ToSet(b) : b \in ToolBatches}

Sourced(r) == r.ok /\ ~ r.card
\* The results among the first n that name p.
Naming(os, n, p) == {m \in 1 .. n : Sourced(os[m]) /\ p \in ToSet(NamedBy(os[m]))}
SizeOf(os, n) == Len(NamedBy(os[n]))

\* What the ledger is to say of p after the first n results.
IsBestOf(e, os, n, p) ==
  /\ e.page = p /\ e.from \in Naming(os, n, p)
  /\ e.count = SizeOf(os, e.from) /\ e.precise = os[e.from].precise
  /\ \A m \in Naming(os, n, p) :
       /\ SizeOf(os, e.from) <= SizeOf(os, m)
       /\ SizeOf(os, m) = SizeOf(os, e.from) => m <= e.from
  /\ e.first = <<e.first[1], e.first[2]>> /\ e.first[1] \in 1 .. n
  /\ e.first[2] \in DOMAIN NamedBy(os[e.first[1]]) /\ NamedBy(os[e.first[1]])[e.first[2]] = p

IsBest(best, os, n) ==
  /\ best = [p \in DOMAIN best |-> best[p]] /\ IsFiniteSet(DOMAIN best)
  /\ DOMAIN best = {p \in DOMAIN best \cup UNION {ToSet(NamedBy(os[m])) : m \in 1 .. n} :
                      Naming(os, n, p) # {}}
  /\ \A p \in DOMAIN best : IsBestOf(best[p], os, n, p)

\* What a function makes of a finite set.
LEMMA ImageOf ==
  ASSUME NEW S, IsFiniteSet(S), NEW f, NEW T, T = {f[x] : x \in S}
  PROVE  IsFiniteSet(T) /\ Cardinality(T) <= Cardinality(S)
<1> DEFINE g == [x \in S |-> f[x]]
<1>1. g \in [S -> T]
  OBVIOUS
<1>2. \A y \in T : \E x \in S : g[x] = y
  OBVIOUS
<1>3. g \in Surjection(S, T)
  BY <1>1, <1>2 DEF Surjection
<1> QED
  BY <1>3, FS_Surjection

LEMMA ResultTypes ==
  ASSUME NEW r \in AllResults
  PROVE  /\ r.pages \in Seq(Pages) /\ NamedBy(r) \in Seq(Pages \cup {r.tool}) /\ NamedBy(r) # <<>>
         /\ Len(NamedBy(r)) \in Nat /\ IsFiniteSet(ToSet(NamedBy(r)))
<1>1. PICK b \in ToolBatches : r \in ToSet(b)
  BY DEF AllResults
<1>2. PICK n \in DOMAIN b : r = b[n]
  BY <1>1 DEF ToSet
<1>3. r.pages \in Seq(Pages)
  BY <1>2, EvidenceAssumption
<1>4. NamedBy(r) \in Seq(Pages \cup {r.tool}) /\ NamedBy(r) # <<>>
  BY <1>3 DEF NamedBy
<1>5. Len(NamedBy(r)) \in Nat /\ DOMAIN NamedBy(r) = 1 .. Len(NamedBy(r))
  BY <1>4
<1>6. IsFiniteSet(ToSet(NamedBy(r)))
  <2>1. IsFiniteSet(1 .. Len(NamedBy(r)))
    BY <1>5, FS_Interval
  <2>2. ToSet(NamedBy(r)) = {NamedBy(r)[k] : k \in 1 .. Len(NamedBy(r))}
    BY <1>5 DEF ToSet
  <2> QED
    BY <2>1, <2>2, ImageOf
<1> QED
  BY <1>3, <1>4, <1>5, <1>6

IsBestAfter(f, os, k) ==
  f = [n \in 0 .. k |->
         IF n = 0 THEN [p \in {} |-> Unguided]
         ELSE IF os[n].ok /\ ~ os[n].card THEN Kept(f[n - 1], os[n], n) ELSE f[n - 1]]

LEMMA BestAfterExists ==
  ASSUME NEW os, NEW k \in Nat
  PROVE  \E f : IsBestAfter(f, os, k)
<1> DEFINE T == {n \in 0 .. k : \E f : IsBestAfter(f, os, n)}
<1>1. 0 \in T
  <2>1. IsBestAfter([m \in 0 .. 0 |-> [p \in {} |-> Unguided]], os, 0)
    BY DEF IsBestAfter
  <2> QED
    BY <2>1
<1>2. ASSUME NEW n \in 1 .. k, n - 1 \in T PROVE n \in T
  <2>1. PICK f : IsBestAfter(f, os, n - 1)
    BY <1>2
  <2> DEFINE top == IF os[n].ok /\ ~ os[n].card THEN Kept(f[n - 1], os[n], n) ELSE f[n - 1]
             h == [m \in 0 .. n |-> IF m = n THEN top ELSE f[m]]
  <2>2. ASSUME NEW m \in 0 .. n
        PROVE  h[m] = IF m = 0 THEN [p \in {} |-> Unguided]
                      ELSE IF os[m].ok /\ ~ os[m].card THEN Kept(h[m - 1], os[m], m) ELSE h[m - 1]
    <3>1. CASE m = n
      <4>1. m # 0 /\ h[m - 1] = f[n - 1] /\ h[m] = top
        BY <3>1
      <4> HIDE DEF h
      <4> QED
        BY <3>1, <4>1
    <3>2. CASE m # n
      <4>1. m \in 0 .. n - 1
        BY <3>2
      <4>2. f[m] = IF m = 0 THEN [p \in {} |-> Unguided]
                   ELSE IF os[m].ok /\ ~ os[m].card THEN Kept(f[m - 1], os[m], m) ELSE f[m - 1]
        BY <2>1, <4>1, Zenon DEF IsBestAfter
      <4>3. m # 0 => h[m - 1] = f[m - 1]
        BY <4>1
      <4>4. h[m] = f[m]
        BY <3>2
      <4> HIDE DEF h
      <4> QED
        BY <4>2, <4>3, <4>4
    <3> QED
      BY <3>1, <3>2
  <2> HIDE DEF h
  <2>3. h = [m \in 0 .. n |-> h[m]]
    BY DEF h
  <2>4. IsBestAfter(h, os, n)
    BY <2>2, <2>3, Zenon DEF IsBestAfter
  <2> QED
    BY <2>4
<1> HIDE DEF T
<1>3. k \in T
  BY <1>1, <1>2, UpTo
<1> QED
  BY <1>3 DEF T

LEMMA BestAfterIs ==
  ASSUME NEW os, Len(os) \in Nat
  PROVE  IsBestAfter(BestAfter(os), os, Len(os))
<1>1. PICK f : IsBestAfter(f, os, Len(os))
  BY BestAfterExists
<1> QED
  BY <1>1 DEF BestAfter, IsBestAfter

\* A result that names no source of its own leaves what the others say.
LEMMA NothingNamed ==
  ASSUME NEW os, NEW n \in Nat, n # 0, NEW best, IsBest(best, os, n - 1), ~ Sourced(os[n])
  PROVE  IsBest(best, os, n)
<1>1. ASSUME NEW p PROVE Naming(os, n, p) = Naming(os, n - 1, p)
  BY DEF Naming
<1>2. ASSUME NEW p \in DOMAIN best PROVE IsBestOf(best[p], os, n, p)
  <2>1. IsBestOf(best[p], os, n - 1, p)
    BY DEF IsBest
  <2>2. \A m \in 1 .. (n - 1) : m \in 1 .. n
    OBVIOUS
  <2> QED
    BY <1>1, <2>1, <2>2 DEF IsBestOf
<1>3. \A p \in DOMAIN best : Naming(os, n, p) # {}
  BY <1>2 DEF IsBestOf
<1>4. ASSUME NEW p, Naming(os, n, p) # {} PROVE p \in DOMAIN best
  <2>1. PICK m \in 1 .. (n - 1) : Sourced(os[m]) /\ p \in ToSet(NamedBy(os[m]))
    BY <1>1, <1>4 DEF Naming
  <2> QED
    BY <1>1, <1>4, <2>1 DEF IsBest
<1>5. DOMAIN best = {p \in DOMAIN best \cup UNION {ToSet(NamedBy(os[m])) : m \in 1 .. n} :
                       Naming(os, n, p) # {}}
  BY <1>3, <1>4
<1> QED
  BY <1>2, <1>5 DEF IsBest

\* A result that names sources.
LEMMA SourcesNamed ==
  ASSUME NEW os \in Seq(AllResults), NEW n \in 1 .. Len(os), NEW best,
         IsBest(best, os, n - 1), Sourced(os[n])
  PROVE  IsBest(Kept(best, os[n], n), os, n)
<1> DEFINE r == os[n]
           names == NamedBy(r)
           those == ToSet(names)
           place(p) == CHOOSE k \in DOMAIN names : names[k] = p
           new(p) == [page |-> p, count |-> Len(names), from |-> n, precise |-> r.precise,
                      first |-> <<n, place(p)>>]
           after == Kept(best, r, n)
<1>1. n \in Nat /\ n - 1 \in Nat /\ \A m \in 1 .. n : m \in 1 .. Len(os) /\ os[m] \in AllResults
  OBVIOUS
<1>2. \A m \in 1 .. n : SizeOf(os, m) \in Nat
  BY <1>1, ResultTypes DEF SizeOf
<1>3. after = [p \in DOMAIN best \cup those |->
                 IF p \notin those THEN best[p]
                 ELSE IF p \notin DOMAIN best THEN new(p)
                 ELSE IF MorePrecise(new(p), best[p]) THEN [new(p) EXCEPT !.first = best[p].first]
                 ELSE best[p]]
  BY DEF Kept
<1>4. DOMAIN after = DOMAIN best \cup those /\ after = [p \in DOMAIN after |-> after[p]]
  BY <1>3
<1>5. IsFiniteSet(DOMAIN after)
  <2>0. os[n] \in AllResults
    OBVIOUS
  <2>1. IsFiniteSet(those)
    BY <2>0, ResultTypes
  <2>2. IsFiniteSet(DOMAIN best)
    BY DEF IsBest
  <2> QED
    BY <1>4, <2>1, <2>2, FS_Union
<1>6. ASSUME NEW p
      PROVE  Naming(os, n, p) = Naming(os, n - 1, p) \cup (IF p \in those THEN {n} ELSE {})
  BY <1>1 DEF Naming
<1>7. ASSUME NEW p, p \notin DOMAIN best PROVE Naming(os, n - 1, p) = {}
  <2>1. SUFFICES ASSUME NEW m \in Naming(os, n - 1, p) PROVE FALSE
    OBVIOUS
  <2>2. p \in UNION {ToSet(NamedBy(os[k])) : k \in 1 .. (n - 1)}
    BY <2>1 DEF Naming
  <2> QED
    BY <1>7, <2>1, <2>2 DEF IsBest
<1>8. ASSUME NEW p \in those
      PROVE  place(p) \in DOMAIN names /\ names[place(p)] = p
  BY DEF ToSet
<1>9. ASSUME NEW p \in DOMAIN after PROVE IsBestOf(after[p], os, n, p)
  <2>1. CASE p \notin those
    <3>1. after[p] = best[p] /\ p \in DOMAIN best
      BY <1>3, <1>4, <2>1
    <3>2. IsBestOf(best[p], os, n - 1, p) /\ Naming(os, n, p) = Naming(os, n - 1, p)
      BY <1>6, <2>1, <3>1 DEF IsBest
    <3>3. \A m \in 1 .. (n - 1) : m \in 1 .. n
      OBVIOUS
    <3> QED
      BY <3>1, <3>2, <3>3 DEF IsBestOf
  <2>2. CASE p \in those /\ p \notin DOMAIN best
    <3>1. after[p] = new(p) /\ Naming(os, n, p) = {n}
      BY <1>3, <1>4, <1>6, <1>7, <2>2
    <3>2. new(p).page = p /\ new(p).from = n /\ new(p).count = SizeOf(os, n) /\ new(p).precise = os[n].precise
          /\ new(p).first = <<n, place(p)>>
      BY DEF SizeOf
    <3> HIDE DEF new, after, place
    <3> QED
      BY <1>1, <1>2, <1>8, <2>2, <3>1, <3>2 DEF IsBestOf
  <2>3. CASE p \in those /\ p \in DOMAIN best
    <3>1. IsBestOf(best[p], os, n - 1, p) /\ Naming(os, n, p) = Naming(os, n - 1, p) \cup {n}
      BY <1>6, <2>3 DEF IsBest
    <3>2. new(p).page = p /\ new(p).from = n /\ new(p).count = SizeOf(os, n) /\ new(p).precise = os[n].precise
      BY DEF SizeOf
    <3>3. best[p].from \in 1 .. (n - 1) /\ best[p].count = SizeOf(os, best[p].from)
      BY <3>1 DEF IsBestOf, Naming
    <3>4. MorePrecise(new(p), best[p]) <=> SizeOf(os, n) <= SizeOf(os, best[p].from)
      <4> HIDE DEF new
      <4> QED
        BY <1>1, <1>2, <3>2, <3>3 DEF MorePrecise
    <3>5. /\ best[p].first = <<best[p].first[1], best[p].first[2]>> /\ best[p].first[1] \in 1 .. n
          /\ best[p].first[2] \in DOMAIN NamedBy(os[best[p].first[1]])
          /\ NamedBy(os[best[p].first[1]])[best[p].first[2]] = p
      BY <1>1, <3>1 DEF IsBestOf
    <3>6. Naming(os, n - 1, p) \subseteq 1 .. (n - 1)
      BY DEF Naming
    <3>7. CASE MorePrecise(new(p), best[p])
      <4> DEFINE e == [new(p) EXCEPT !.first = best[p].first]
      <4>1. after[p] = e
        BY <1>3, <1>4, <2>3, <3>7
      <4>2. e.page = p /\ e.from = n /\ e.count = SizeOf(os, n) /\ e.precise = os[n].precise
            /\ e.first = best[p].first
        BY DEF SizeOf
      <4>3. \A m \in Naming(os, n, p) : SizeOf(os, n) <= SizeOf(os, m) /\ m <= n
        <5>1. \A m \in Naming(os, n - 1, p) : SizeOf(os, best[p].from) <= SizeOf(os, m) /\ m \in 1 .. n /\ m <= n
          BY <3>1, <3>6 DEF IsBestOf
        <5>2. best[p].from \in 1 .. n /\ n \in 1 .. n
          BY <3>3
        <5> QED
          BY <1>2, <3>1, <3>4, <3>7, <5>1, <5>2
      <4> HIDE DEF e, new, after
      <4> QED
        BY <1>1, <3>1, <3>5, <4>1, <4>2, <4>3 DEF IsBestOf
    <3>8. CASE ~ MorePrecise(new(p), best[p])
      <4>1. after[p] = best[p]
        BY <1>3, <1>4, <2>3, <3>8
      <4>2. SizeOf(os, best[p].from) < SizeOf(os, n)
        BY <1>1, <1>2, <3>3, <3>4, <3>8
      <4>3. \A m \in Naming(os, n - 1, p) :
               /\ SizeOf(os, best[p].from) <= SizeOf(os, m)
               /\ SizeOf(os, m) = SizeOf(os, best[p].from) => m <= best[p].from
        BY <3>1 DEF IsBestOf
      <4>4. \A m \in Naming(os, n, p) :
               /\ SizeOf(os, best[p].from) <= SizeOf(os, m)
               /\ SizeOf(os, m) = SizeOf(os, best[p].from) => m <= best[p].from
        <5>1. best[p].from \in 1 .. n /\ n \in 1 .. n
          BY <3>3
        <5> QED
          BY <1>2, <3>1, <4>2, <4>3, <5>1
      <4> HIDE DEF new, after
      <4> QED
        BY <3>1, <3>5, <4>1, <4>4 DEF IsBestOf
    <3> QED
      BY <3>7, <3>8
  <2> QED
    BY <2>1, <2>2, <2>3
<1>10. DOMAIN after = {p \in DOMAIN after \cup UNION {ToSet(NamedBy(os[m])) : m \in 1 .. n} :
                         Naming(os, n, p) # {}}
  <2>1. \A p \in DOMAIN after : Naming(os, n, p) # {}
    BY <1>9 DEF IsBestOf
  <2>2. ASSUME NEW p, Naming(os, n, p) # {} PROVE p \in DOMAIN after
    BY <1>4, <1>6, <1>7, <2>2
  <2> HIDE DEF after
  <2> QED
    BY <2>1, <2>2
<1> HIDE DEF after
<1>11. IsBest(after, os, n)
  BY <1>4, <1>5, <1>9, <1>10 DEF IsBest
<1> QED
  BY <1>11 DEF after

\* The ledger's candidates.
LEMMA BestNamedIs ==
  ASSUME NEW os \in Seq(AllResults)
  PROVE  IsBest(BestNamed(os), os, Len(os))
<1> DEFINE f == BestAfter(os)
           T == {n \in 0 .. Len(os) : IsBest(f[n], os, n)}
<1>1. f = [n \in 0 .. Len(os) |->
             IF n = 0 THEN [p \in {} |-> Unguided]
             ELSE IF os[n].ok /\ ~ os[n].card THEN Kept(f[n - 1], os[n], n) ELSE f[n - 1]]
  BY BestAfterIs DEF IsBestAfter
<1> HIDE DEF f
<1>2. 0 \in T
  <2> DEFINE none == [p \in {} |-> Unguided]
  <2>1. f[0] = none
    BY <1>1
  <2>2. DOMAIN none = {} /\ none = [p \in DOMAIN none |-> none[p]]
    OBVIOUS
  <2>3. \A p : Naming(os, 0, p) = {}
    BY DEF Naming
  <2> HIDE DEF none
  <2>4. IsBest(none, os, 0)
    BY <2>2, <2>3, FS_EmptySet DEF IsBest
  <2> QED
    BY <2>1, <2>4
<1>3. ASSUME NEW n \in 1 .. Len(os), n - 1 \in T PROVE n \in T
  <2>1. IsBest(f[n - 1], os, n - 1)
    BY <1>3
  <2>2. f[n] = IF os[n].ok /\ ~ os[n].card THEN Kept(f[n - 1], os[n], n) ELSE f[n - 1]
    BY <1>1
  <2>3. CASE Sourced(os[n])
    <3>1. IsBest(Kept(f[n - 1], os[n], n), os, n)
      BY <2>1, <2>3, SourcesNamed
    <3> QED
      BY <2>2, <2>3, <3>1 DEF Sourced
  <2>4. CASE ~ Sourced(os[n])
    <3>1. IsBest(f[n - 1], os, n)
      BY <2>1, <2>4, NothingNamed
    <3> QED
      BY <2>2, <2>4, <3>1 DEF Sourced
  <2> QED
    BY <2>3, <2>4
<1> HIDE DEF T
<1>4. Len(os) \in Nat
  OBVIOUS
<1>5. \A n \in 0 .. Len(os) : n \in T
  BY <1>2, <1>3, <1>4, UpTo
<1>6. Len(os) \in T
  BY <1>4, <1>5
<1> QED
  BY <1>6 DEF T, f, BestNamed

------------------------------------------------------------------------------
(* The order of the ledger.                                                *)

LedgerEntries(os) == {BestNamed(os)[p] : p \in DOMAIN BestNamed(os)}

LEMMA EntriesAre ==
  ASSUME NEW os \in Seq(AllResults)
  PROVE  /\ IsFiniteSet(LedgerEntries(os)) /\ Cardinality(LedgerEntries(os)) <= Cardinality(DOMAIN BestNamed(os))
         /\ IsFiniteSet(DOMAIN BestNamed(os))
         /\ \A c \in LedgerEntries(os) : /\ c.page \in DOMAIN BestNamed(os) /\ c = BestNamed(os)[c.page]
                                  /\ c.count \in Nat /\ c.first = <<c.first[1], c.first[2]>>
                                  /\ c.first[1] \in Nat /\ c.first[2] \in Nat
         /\ \A c, e \in LedgerEntries(os) : c.first = e.first => c = e
         /\ \A p \in DOMAIN BestNamed(os) : BestNamed(os)[p] \in LedgerEntries(os) /\ BestNamed(os)[p].page = p
<1> DEFINE best == BestNamed(os)
<1>1. IsBest(best, os, Len(os))
  BY BestNamedIs
<1>2. \A p \in DOMAIN best : IsBestOf(best[p], os, Len(os), p)
  BY <1>1 DEF IsBest
<1>3. IsFiniteSet(DOMAIN best)
  BY <1>1 DEF IsBest
<1>4. LedgerEntries(os) = {best[p] : p \in DOMAIN best}
  BY DEF LedgerEntries
<1> HIDE DEF best
<1>5. IsFiniteSet(LedgerEntries(os)) /\ Cardinality(LedgerEntries(os)) <= Cardinality(DOMAIN best)
  BY <1>3, <1>4, ImageOf
<1>6. ASSUME NEW n \in 1 .. Len(os)
      PROVE  SizeOf(os, n) \in Nat /\ DOMAIN NamedBy(os[n]) = 1 .. SizeOf(os, n)
  <2>1. os[n] \in AllResults
    OBVIOUS
  <2>2. NamedBy(os[n]) \in Seq(Pages \cup {os[n].tool}) /\ Len(NamedBy(os[n])) \in Nat
    BY <2>1, ResultTypes
  <2> QED
    BY <2>2 DEF SizeOf
<1>7. ASSUME NEW p \in DOMAIN best
      PROVE  /\ best[p].page = p /\ best[p].count \in Nat /\ best[p].first = <<best[p].first[1], best[p].first[2]>>
             /\ best[p].first[1] \in Nat /\ best[p].first[2] \in Nat
             /\ NamedBy(os[best[p].first[1]])[best[p].first[2]] = p
  <2>1. IsBestOf(best[p], os, Len(os), p)
    BY <1>2
  <2>2. best[p].from \in 1 .. Len(os) /\ best[p].first[1] \in 1 .. Len(os)
    BY <2>1 DEF IsBestOf, Naming
  <2> QED
    BY <1>6, <2>1, <2>2 DEF IsBestOf
<1>8. \A c, e \in LedgerEntries(os) : c.first = e.first => c = e
  <2> SUFFICES ASSUME NEW c \in LedgerEntries(os), NEW e \in LedgerEntries(os), c.first = e.first PROVE c = e
    OBVIOUS
  <2>1. PICK p \in DOMAIN best : c = best[p]
    BY <1>4
  <2>2. PICK q \in DOMAIN best : e = best[q]
    BY <1>4
  <2>3. NamedBy(os[c.first[1]])[c.first[2]] = p /\ NamedBy(os[e.first[1]])[e.first[2]] = q
    BY <1>7, <2>1, <2>2
  <2> QED
    BY <2>1, <2>2, <2>3
<1>9. ASSUME NEW c \in LedgerEntries(os)
      PROVE  /\ c.page \in DOMAIN best /\ c = best[c.page]
             /\ c.count \in Nat /\ c.first = <<c.first[1], c.first[2]>>
             /\ c.first[1] \in Nat /\ c.first[2] \in Nat
  <2>1. PICK p \in DOMAIN best : c = best[p]
    BY <1>4
  <2> QED
    BY <1>7, <2>1
<1>10. \A p \in DOMAIN best : best[p] \in LedgerEntries(os) /\ best[p].page = p
  BY <1>4, <1>7
<1> QED
  BY <1>3, <1>5, <1>8, <1>9, <1>10 DEF best

\* What is compared when a ledger is put in order: any two of it differ.
Sortable(S) ==
  /\ IsFiniteSet(S)
  /\ \A c \in S : /\ c.count \in Nat /\ c.first = <<c.first[1], c.first[2]>>
                  /\ c.first[1] \in Nat /\ c.first[2] \in Nat
  /\ \A c, e \in S : c.first = e.first => c = e

LEMMA PrecedesOrders ==
  ASSUME NEW S, Sortable(S), NEW c \in S, NEW e \in S
  PROVE  /\ ~ Precedes(c, c)
         /\ c = e \/ Precedes(c, e) \/ Precedes(e, c)
         /\ Precedes(c, e) => \A x \in S : Precedes(x, c) => Precedes(x, e)
<1>1. \A x \in S : x.count \in Nat /\ x.first[1] \in Nat /\ x.first[2] \in Nat
  BY DEF Sortable
<1>2. ~ Precedes(c, c)
  BY <1>1 DEF Precedes
<1>3. c = e \/ Precedes(c, e) \/ Precedes(e, c)
  <2>1. SUFFICES ASSUME c # e PROVE Precedes(c, e) \/ Precedes(e, c)
    OBVIOUS
  <2>2. c.first[1] # e.first[1] \/ c.first[2] # e.first[2]
    BY <2>1 DEF Sortable
  <2> QED
    BY <1>1, <2>2 DEF Precedes
<1>4. ASSUME Precedes(c, e), NEW x \in S, Precedes(x, c) PROVE Precedes(x, e)
  BY <1>1, <1>4 DEF Precedes
<1> QED
  BY <1>2, <1>3, <1>4

\* So many are the first so many at most, and all of them if there are no more.
LEMMA FirstFewAre ==
  ASSUME NEW S, Sortable(S), NEW k \in Nat
  PROVE  /\ FirstFew(S, k) \subseteq S /\ IsFiniteSet(FirstFew(S, k)) /\ Cardinality(FirstFew(S, k)) <= k
         /\ Cardinality(S) <= k => FirstFew(S, k) = S
<1> DEFINE before(c) == {e \in S : Precedes(e, c)}
           few == FirstFew(S, k)
           rank == [c \in few |-> Cardinality(before(c))]
<1>1. few = {c \in S : Cardinality(before(c)) < k} /\ few \subseteq S /\ IsFiniteSet(S)
  BY DEF FirstFew, Sortable
<1>2. IsFiniteSet(few)
  BY <1>1, FS_Subset
<1>3. ASSUME NEW c \in S
      PROVE  IsFiniteSet(before(c)) /\ Cardinality(before(c)) \in Nat /\ Cardinality(before(c)) < Cardinality(S)
  <2>1. before(c) \subseteq S \ {c}
    BY PrecedesOrders
  <2>2. IsFiniteSet(S \ {c}) /\ Cardinality(S \ {c}) = Cardinality(S) - 1 /\ Cardinality(S) \in Nat
    BY <1>1, FS_RemoveElement, FS_CardinalityType
  <2>3. IsFiniteSet(before(c)) /\ Cardinality(before(c)) <= Cardinality(S \ {c})
    BY <2>1, <2>2, FS_Subset
  <2>4. Cardinality(before(c)) \in Nat
    BY <2>3, FS_CardinalityType
  <2> HIDE DEF before
  <2> QED
    BY <2>2, <2>3, <2>4
<1>4. ASSUME NEW c \in S, NEW e \in S, Precedes(c, e)
      PROVE  Cardinality(before(c)) < Cardinality(before(e))
  <2>1. before(c) \subseteq before(e) /\ c \in before(e) /\ c \notin before(c)
    BY <1>4, PrecedesOrders
  <2>2. IsFiniteSet(before(e)) /\ Cardinality(before(c)) \in Nat /\ Cardinality(before(e)) \in Nat
    BY <1>3
  <2> HIDE DEF before
  <2>3. Cardinality(before(c)) <= Cardinality(before(e))
    BY <2>1, <2>2, FS_Subset
  <2>4. Cardinality(before(e)) # Cardinality(before(c))
    BY <2>1, <2>2, FS_Subset
  <2> QED
    BY <2>2, <2>3, <2>4
<1>5. rank \in Injection(few, 0 .. k - 1)
  <2>1. ASSUME NEW c \in few PROVE Cardinality(before(c)) \in 0 .. k - 1
    <3>1. Cardinality(before(c)) \in Nat /\ Cardinality(before(c)) < k
      BY <1>1, <1>3
    <3> HIDE DEF before
    <3> QED
      BY <3>1
  <2>2. ASSUME NEW c \in few, NEW e \in few, Cardinality(before(c)) = Cardinality(before(e)) PROVE c = e
    <3>1. c \in S /\ e \in S
      BY <1>1
    <3>2. Cardinality(before(c)) \in Nat /\ Cardinality(before(e)) \in Nat
      BY <1>3, <3>1
    <3> HIDE DEF before
    <3>3. ~ Precedes(c, e) /\ ~ Precedes(e, c)
      BY <1>4, <2>2, <3>1, <3>2
    <3> QED
      BY <3>1, <3>3, PrecedesOrders
  <2> HIDE DEF before, few
  <2> QED
    BY <2>1, <2>2 DEF Injection, IsInjective
<1>6. IsFiniteSet(0 .. k - 1) /\ Cardinality(0 .. k - 1) = k
  BY FS_Interval
<1>7. Cardinality(few) <= k
  <2> HIDE DEF rank, few
  <2> QED
    BY <1>5, <1>6, FS_Injection
<1>8. ASSUME Cardinality(S) <= k PROVE few = S
  <2>1. ASSUME NEW c \in S PROVE Cardinality(before(c)) < k
    <3>1. Cardinality(before(c)) \in Nat /\ Cardinality(before(c)) < Cardinality(S) /\ Cardinality(S) \in Nat
      BY <1>1, <1>3, FS_CardinalityType
    <3> HIDE DEF before
    <3> QED
      BY <1>8, <3>1
  <2> QED
    BY <1>1, <2>1
<1> QED
  BY <1>1, <1>2, <1>7, <1>8

LEMMA LedgerIs ==
  ASSUME NEW os \in Seq(AllResults)
  PROVE  /\ Cardinality(LedgerOf(os)) <= LedgerLimit
         /\ \A c \in LedgerOf(os) : c.page \in DOMAIN BestNamed(os) /\ c = BestNamed(os)[c.page]
         /\ Cardinality(DOMAIN BestNamed(os)) <= LedgerLimit
              => {c.page : c \in LedgerOf(os)} = DOMAIN BestNamed(os)
<1>1. LedgerOf(os) = FirstFew(LedgerEntries(os), LedgerLimit)
  BY DEF LedgerOf, LedgerEntries
<1>2. Sortable(LedgerEntries(os))
  BY EntriesAre DEF Sortable
<1>3. LedgerLimit \in Nat
  BY EvidenceAssumption
<1>4. /\ LedgerOf(os) \subseteq LedgerEntries(os) /\ Cardinality(LedgerOf(os)) <= LedgerLimit
      /\ Cardinality(LedgerEntries(os)) <= LedgerLimit => LedgerOf(os) = LedgerEntries(os)
  BY <1>1, <1>2, <1>3, FirstFewAre
<1>5. \A c \in LedgerOf(os) : c.page \in DOMAIN BestNamed(os) /\ c = BestNamed(os)[c.page]
  BY <1>4, EntriesAre
<1>6. ASSUME Cardinality(DOMAIN BestNamed(os)) <= LedgerLimit
      PROVE  {c.page : c \in LedgerOf(os)} = DOMAIN BestNamed(os)
  <2>1. Cardinality(LedgerEntries(os)) <= Cardinality(DOMAIN BestNamed(os)) /\ IsFiniteSet(LedgerEntries(os))
        /\ IsFiniteSet(DOMAIN BestNamed(os))
    BY EntriesAre
  <2>2. Cardinality(LedgerEntries(os)) \in Nat /\ Cardinality(DOMAIN BestNamed(os)) \in Nat
    BY <2>1, FS_CardinalityType
  <2>3. Cardinality(LedgerEntries(os)) <= LedgerLimit
    BY <1>3, <1>6, <2>1, <2>2
  <2>4. LedgerOf(os) = LedgerEntries(os)
    BY <1>4, <2>3
  <2>5. \A p \in DOMAIN BestNamed(os) : BestNamed(os)[p] \in LedgerEntries(os) /\ BestNamed(os)[p].page = p
    BY EntriesAre
  <2>6. \A c \in LedgerEntries(os) : c.page \in DOMAIN BestNamed(os)
    BY EntriesAre
  <2> QED
    BY <2>4, <2>5, <2>6
<1> QED
  BY <1>4, <1>5, <1>6

\* Results of a later turn say the same of a source, or one more names it.
LEMMA NamedAgain ==
  ASSUME NEW os \in Seq(AllResults), NEW more \in Seq(AllResults), NEW p \in DOMAIN BestNamed(os)
  PROVE  LET os2 == os \o more
             was == Cardinality(Naming(os, Len(os), p))
             is  == Cardinality(Naming(os2, Len(os2), p))
         IN  /\ p \in DOMAIN BestNamed(os2) /\ was \in Nat /\ is \in Nat /\ was <= is
             /\ Quality(BestNamed(os2)[p]) = Quality(BestNamed(os)[p]) \/ was + 1 <= is
<1> DEFINE os2 == os \o more
           N1 == Naming(os, Len(os), p)
           N2 == Naming(os2, Len(os2), p)
           e1 == BestNamed(os)[p]
           e2 == BestNamed(os2)[p]
<1>1. /\ os2 \in Seq(AllResults) /\ Len(os) \in Nat /\ Len(os2) \in Nat /\ Len(os) <= Len(os2)
      /\ \A m \in 1 .. Len(os) : m \in 1 .. Len(os2) /\ os2[m] = os[m]
  OBVIOUS
<1>2. IsBest(BestNamed(os), os, Len(os)) /\ IsBest(BestNamed(os2), os2, Len(os2))
  BY <1>1, BestNamedIs
<1>3. IsBestOf(e1, os, Len(os), p)
  BY <1>2 DEF IsBest
<1>4. N1 \subseteq N2 /\ N2 \subseteq 1 .. Len(os2) /\ N1 \subseteq 1 .. Len(os)
  BY <1>1 DEF Naming
<1>5. p \in DOMAIN BestNamed(os2)
  <2>1. N1 # {}
    BY <1>3 DEF IsBestOf
  <2>2. PICK m \in 1 .. Len(os2) : m \in N2 /\ p \in ToSet(NamedBy(os2[m]))
    BY <1>4, <2>1 DEF Naming
  <2>3. p \in UNION {ToSet(NamedBy(os2[k])) : k \in 1 .. Len(os2)}
    BY <2>2
  <2> QED
    BY <1>2, <2>2, <2>3 DEF IsBest
<1>6. IsBestOf(e2, os2, Len(os2), p)
  BY <1>2, <1>5 DEF IsBest
<1>7. IsFiniteSet(N2) /\ IsFiniteSet(N1) /\ Cardinality(N1) <= Cardinality(N2)
      /\ (Cardinality(N1) = Cardinality(N2) => N1 = N2)
  <2>1. IsFiniteSet(1 .. Len(os2))
    BY <1>1, FS_Interval
  <2>2. IsFiniteSet(N2)
    BY <1>4, <2>1, FS_Subset
  <2> QED
    BY <1>4, <2>2, FS_Subset
<1>8. Cardinality(N1) \in Nat /\ Cardinality(N2) \in Nat
  BY <1>7, FS_CardinalityType
<1>9. ASSUME N1 = N2 PROVE Quality(e2) = Quality(e1)
  <2>1. e1.from \in N1 /\ e2.from \in N1
    BY <1>3, <1>6, <1>9 DEF IsBestOf
  <2>2. \A m \in N1 : SizeOf(os2, m) = SizeOf(os, m) /\ SizeOf(os, m) \in Nat /\ m \in Nat
    <3> SUFFICES ASSUME NEW m \in N1 PROVE SizeOf(os2, m) = SizeOf(os, m) /\ SizeOf(os, m) \in Nat /\ m \in Nat
      OBVIOUS
    <3>1. m \in 1 .. Len(os) /\ os2[m] = os[m]
      BY <1>1, <1>4
    <3>2. os[m] \in AllResults
      BY <3>1
    <3> QED
      BY <3>1, <3>2, ResultTypes DEF SizeOf
  <2>3. SizeOf(os, e1.from) <= SizeOf(os, e2.from)
        /\ (SizeOf(os, e2.from) = SizeOf(os, e1.from) => e2.from <= e1.from)
    BY <1>3, <2>1 DEF IsBestOf
  <2>4. SizeOf(os2, e2.from) <= SizeOf(os2, e1.from)
        /\ (SizeOf(os2, e1.from) = SizeOf(os2, e2.from) => e1.from <= e2.from)
    BY <1>6, <1>9, <2>1 DEF IsBestOf
  <2> HIDE DEF e1, e2, N1, N2
  <2>5. e1.from = e2.from
    BY <2>1, <2>2, <2>3, <2>4
  <2>6. e1.count = SizeOf(os, e1.from) /\ e1.precise = os[e1.from].precise
    BY <1>3 DEF IsBestOf
  <2>7. e2.count = SizeOf(os2, e2.from) /\ e2.precise = os2[e2.from].precise
    BY <1>6 DEF IsBestOf
  <2>8. e1.count = e2.count /\ e1.precise = e2.precise
    BY <1>1, <1>4, <2>1, <2>2, <2>5, <2>6, <2>7
  <2> QED
    BY <2>8 DEF Quality
<1> HIDE DEF N1, N2, e1, e2
<1>10. Quality(e2) = Quality(e1) \/ Cardinality(N1) + 1 <= Cardinality(N2)
  BY <1>7, <1>8, <1>9
<1> QED
  BY <1>5, <1>7, <1>8, <1>10 DEF N1, N2, e1, e2

------------------------------------------------------------------------------
(* What is delivered.                                                      *)

DraftFields == {"cites", "links", "variants", "tail", "mentions"}

\* What an answer may be made of a draft.
IsSound(r) ==
  /\ r.blocks = Blocks(results) /\ (r.cards = Cards \/ r.rendered)
  /\ InLedger # {} => r.cites \cup r.links \cup r.listed \subseteq InLedger
  /\ ~ style.cited => r.cites = {} /\ r.listed = {}
  /\ r.text /\ style.cited /\ InLedger # {} =>
       /\ \A p \in r.cites \cap Pages :
            p \in r.links \cup r.listed \/ \E v \in r.links : <<p, v>> \in Begins
       /\ PagesInLedger # {} /\ r.cites \subseteq Pages => r.links \cup r.listed # {}

LEMMA PreparedIs ==
  ASSUME NEW d, DOMAIN d = DraftFields
  PROVE  IsSound(Prepared(d))
<1> DEFINE bad == Unprovenanced(d)
           shown == Displayed(d)
           safe == IF InLedger = {} THEN shown ELSE Trusted(shown, bad)
           cited == d.cites \cap InLedger
           list == IF InLedger # {} /\ style.cited THEN SourceList(safe, cited) ELSE {}
           r == Prepared(d)
<1>1. CASE Cards # {}
  <2>1. r = [NoReply EXCEPT !.cards = Cards, !.blocks = Blocks(results)]
    BY <1>1 DEF Prepared
  <2>2. r.cards = Cards /\ r.blocks = Blocks(results) /\ r.cites = {} /\ r.links = {} /\ r.listed = {} /\ r.text = FALSE
    BY <2>1 DEF NoReply
  <2> HIDE DEF r
  <2>3. IsSound(r)
    BY <2>2 DEF IsSound
  <2> QED
    BY <2>3 DEF r
<1>2. CASE Cards = {}
  <2>1. r = [NoReply EXCEPT !.cites = safe.cites, !.links = References(safe), !.listed = list,
                            !.blocks = Blocks(results), !.text = TRUE]
    BY <1>2 DEF Prepared
  <2>2. /\ r.cards = Cards /\ r.blocks = Blocks(results) /\ r.cites = safe.cites /\ r.links = References(safe)
        /\ r.listed = list
    BY <1>2, <2>1 DEF NoReply
  <2>3. shown.cites = (IF style.cited THEN d.cites ELSE {}) /\ DOMAIN shown = DraftFields
        /\ References(shown) \subseteq References(d)
    BY DEF Displayed, DraftFields, References
  <2>4. ASSUME InLedger # {}
        PROVE  /\ safe.cites = shown.cites \cap InLedger
               /\ References(safe) \subseteq InLedger
    <3> DEFINE hit == {v \in Pages : \E u \in bad : u = v \/ <<u, v>> \in Begins}
    <3>1. safe = [shown EXCEPT !.cites = @ \cap InLedger, !.links = (@ \ bad) \ hit,
                               !.variants = (@ \ bad) \ hit, !.tail = (@ \ bad) \ hit]
      BY <2>4 DEF Trusted
    <3> HIDE DEF shown, bad, hit
    <3>2. /\ safe.cites = shown.cites \cap InLedger /\ safe.links \subseteq shown.links \ bad
          /\ safe.variants \subseteq shown.variants \ bad /\ safe.tail \subseteq shown.tail \ bad
      BY <2>3, <3>1 DEF DraftFields
    <3>3. References(safe) \subseteq References(d) \ bad
      BY <2>3, <3>2 DEF References
    <3> QED
      BY <3>2, <3>3 DEF bad, Unprovenanced
  <2>5. ASSUME InLedger # {}, style.cited
        PROVE  /\ list \subseteq InLedger /\ safe.cites = cited
               /\ \A p \in cited \cap Pages : p \in References(safe) \cup list
                                           \/ \E v \in References(safe) : <<p, v>> \in Begins
               /\ PagesInLedger # {} /\ cited \subseteq Pages => References(safe) \cup list # {}
    <3> DEFINE chosen == IF cited = {} THEN InLedger ELSE cited
               pages == chosen \cap Pages
    <3>1. safe.cites = cited
      BY <2>3, <2>4, <2>5
    <3>2. list = IF pages # {} /\ \A p \in pages : InText(p, safe) THEN {}
                 ELSE IF PagesInLedger = {} /\ NeedsCitations THEN chosen ELSE pages
      BY <2>5 DEF SourceList
    <3>3. safe.links \cup safe.tail \subseteq References(safe)
      BY DEF References
    <3>4. \A p : InText(p, safe) => p \in References(safe) \/ \E v \in References(safe) : <<p, v>> \in Begins
      BY <3>3 DEF InText
    <3> HIDE DEF safe, list
    <3>5. PagesInLedger # {} /\ cited \subseteq Pages => pages # {}
      BY DEF PagesInLedger
    <3>6. PagesInLedger # {} /\ cited \subseteq Pages => References(safe) \cup list # {}
      BY <3>2, <3>4, <3>5
    <3>7. \A p \in cited \cap Pages : p \in pages /\ p \in chosen
      OBVIOUS
    <3>8. \A p \in cited \cap Pages : p \in References(safe) \cup list
                                   \/ \E v \in References(safe) : <<p, v>> \in Begins
      BY <3>2, <3>4, <3>7
    <3>9. list \subseteq InLedger
      BY <3>2
    <3> QED
      BY <3>1, <3>6, <3>8, <3>9
  <2>6. ~ style.cited => safe.cites = {} /\ list = {}
    <3>1. CASE InLedger = {}
      BY <2>3, <3>1
    <3>2. CASE InLedger # {}
      BY <2>3, <2>4, <3>2
    <3> QED
      BY <3>1, <3>2
  <2>7. InLedger # {} => list \subseteq InLedger
    BY <2>5
  <2> HIDE DEF r, safe, list, shown
  <2>8. IsSound(r)
    BY <2>2, <2>4, <2>5, <2>6, <2>7 DEF IsSound
  <2> QED
    BY <2>8 DEF r
<1> QED
  BY <1>1, <1>2

RenderedReply == [NoReply EXCEPT !.blocks = Blocks(results), !.rendered = TRUE]

LEMMA RenderedIs == IsSound(RenderedReply)
<1>1. /\ RenderedReply.blocks = Blocks(results) /\ RenderedReply.rendered = TRUE /\ RenderedReply.text = FALSE
      /\ RenderedReply.cites = {} /\ RenderedReply.links = {} /\ RenderedReply.listed = {}
  BY DEF RenderedReply, NoReply
<1> QED
  BY <1>1 DEF IsSound

------------------------------------------------------------------------------
(* The inductive invariant.                                                *)

EvidenceTypes ==
  /\ style \in Styles /\ batches \in 0 .. MaxBatches /\ repairs \in {0, 1}
  /\ writing \in {"working", "accepted", "continued", "delivered"}
  /\ results \in Seq(AllResults) /\ DOMAIN draft = DraftFields

\* Whether there is more to be told of p than was told: it is then named once more than it was told of.
Toldness(os, guides, counts, p) ==
  /\ p \in DOMAIN BestNamed(os) /\ counts[p] \in Nat
  /\ guides[p].count \in Nat /\ guides[p].precise \in {0, 1}
  /\ counts[p] <= Cardinality(Naming(os, Len(os), p))
  /\ Finer(Quality(BestNamed(os)[p]), guides[p]) => counts[p] + 1 <= Cardinality(Naming(os, Len(os), p))

ToldInStep ==
  /\ DOMAIN guided = DOMAIN told
  /\ \A p \in DOMAIN told : Toldness(results, guided, told, p)

ReplyInStep ==
  /\ writing # "delivered" => reply = NoReply
  /\ writing = "delivered" => reply = Prepared(draft) \/ reply = RenderedReply

EvidenceIInv == EvidenceTypes /\ ToldInStep /\ ReplyInStep

LEMMA EvidenceSound ==
  ASSUME EvidenceIInv
  PROVE  EvidenceInv
<1>1. results \in Seq(AllResults) /\ Len(results) \in Nat
  BY DEF EvidenceIInv, EvidenceTypes
<1>2. IsBest(BestNamed(results), results, Len(results))
  BY <1>1, BestNamedIs
<1>3. EvidenceTypeOK
  BY <1>1, LedgerIs DEF EvidenceIInv, EvidenceTypes, ToldInStep, EvidenceTypeOK, Ledger
<1>4. DOMAIN results = 1 .. Len(results)
  BY <1>1
<1> DEFINE naming(p) == {n \in DOMAIN results : /\ results[n].ok /\ ~ results[n].card
                                               /\ p \in ToSet(NamedBy(results[n]))}
           all == {p \in Pages \cup {results[n].tool : n \in DOMAIN results} : naming(p) # {}}
           size(n) == Len(NamedBy(results[n]))
<1>5. ASSUME NEW p PROVE naming(p) = Naming(results, Len(results), p)
  BY <1>4 DEF Naming, Sourced
<1>6. \A c \in Ledger :
           /\ c.from \in naming(c.page)
           /\ \A n \in naming(c.page) : size(c.from) <= size(n)
           /\ \A n \in naming(c.page) : size(n) = size(c.from) => n <= c.from
  <2> SUFFICES ASSUME NEW c \in Ledger
               PROVE  /\ c.from \in naming(c.page)
                      /\ \A n \in naming(c.page) : size(c.from) <= size(n)
                      /\ \A n \in naming(c.page) : size(n) = size(c.from) => n <= c.from
    OBVIOUS
  <2>1. c.page \in DOMAIN BestNamed(results) /\ c = BestNamed(results)[c.page]
    BY <1>1, LedgerIs DEF Ledger
  <2>2. IsBestOf(c, results, Len(results), c.page)
    BY <1>2, <2>1 DEF IsBest
  <2>3. naming(c.page) = Naming(results, Len(results), c.page)
    BY <1>5
  <2> HIDE DEF naming
  <2> QED
    BY <2>2, <2>3 DEF IsBestOf, SizeOf
<1>7. DOMAIN BestNamed(results) = all
  <2>1. ASSUME NEW p \in DOMAIN BestNamed(results) PROVE p \in all
    <3>1. Naming(results, Len(results), p) # {}
      BY <1>2, <2>1 DEF IsBest
    <3>2. PICK n \in 1 .. Len(results) : p \in ToSet(NamedBy(results[n]))
      BY <3>1 DEF Naming
    <3>3. results[n] \in AllResults
      BY <1>1
    <3>4. NamedBy(results[n]) \in Seq(Pages \cup {results[n].tool})
      BY <3>3, ResultTypes
    <3>5. p \in Pages \cup {results[n].tool}
      BY <3>2, <3>4 DEF ToSet
    <3> QED
      BY <1>4, <1>5, <3>1, <3>2, <3>5
  <2>2. ASSUME NEW p \in all PROVE p \in DOMAIN BestNamed(results)
    <3>1. Naming(results, Len(results), p) # {}
      BY <1>5
    <3>2. PICK n \in 1 .. Len(results) : p \in ToSet(NamedBy(results[n]))
      BY <3>1 DEF Naming
    <3>3. p \in UNION {ToSet(NamedBy(results[m])) : m \in 1 .. Len(results)}
      BY <3>2
    <3> QED
      BY <1>2, <3>1, <3>3 DEF IsBest
  <2> QED
    BY <2>1, <2>2
<1>8. Cardinality(all) <= LedgerLimit => InLedger = all
  BY <1>1, <1>7, LedgerIs DEF InLedger, Ledger
<1>9. LedgerIsBest
  BY <1>6, <1>8 DEF LedgerIsBest
<1>10. GuidanceStands
  <2>1. Cardinality(DOMAIN BestNamed(results)) <= LedgerLimit => DOMAIN guided \subseteq InLedger
    <3>1. DOMAIN guided \subseteq DOMAIN BestNamed(results)
      BY DEF EvidenceIInv, ToldInStep, Toldness
    <3> QED
      BY <1>1, <3>1, LedgerIs DEF InLedger, Ledger
  <2>2. ASSUME NEW p \in DOMAIN told
        PROVE  told[p] <= Cardinality({n \in DOMAIN results : p \in ToSet(NamedBy(results[n]))})
    <3> DEFINE few == Naming(results, Len(results), p)
               many == {n \in DOMAIN results : p \in ToSet(NamedBy(results[n]))}
    <3>1. few \subseteq many /\ many \subseteq 1 .. Len(results)
      BY <1>4 DEF Naming
    <3>2. IsFiniteSet(many)
      <4>1. IsFiniteSet(1 .. Len(results))
        BY <1>1, FS_Interval
      <4> QED
        BY <3>1, <4>1, FS_Subset
    <3>3. Cardinality(few) <= Cardinality(many) /\ IsFiniteSet(few)
      BY <3>1, <3>2, FS_Subset
    <3>4. Cardinality(few) \in Nat /\ Cardinality(many) \in Nat
      BY <3>2, <3>3, FS_CardinalityType
    <3>5. told[p] \in Nat /\ told[p] <= Cardinality(few)
      BY <2>2 DEF EvidenceIInv, ToldInStep, Toldness
    <3> HIDE DEF few, many
    <3>6. told[p] <= Cardinality(many)
      BY <3>3, <3>4, <3>5
    <3> QED
      BY <3>6 DEF many
  <2> QED
    BY <2>1, <2>2 DEF GuidanceStands
<1>11. CASE writing = "delivered"
  <2>1. IsSound(reply)
    BY <1>11, PreparedIs, RenderedIs DEF EvidenceIInv, EvidenceTypes, ReplyInStep
  <2>2. NothingInvented /\ CitationsAreSourced /\ InternalStaysInternal /\ NothingWithheld
    BY <2>1 DEF IsSound, NothingInvented, CitationsAreSourced, InternalStaysInternal, NothingWithheld
  <2> QED
    BY <1>3, <1>9, <1>10, <2>2 DEF EvidenceInv
<1>12. CASE writing # "delivered"
  <2>1. reply.text = FALSE /\ reply.cites = {} /\ reply.listed = {}
    BY <1>12 DEF EvidenceIInv, ReplyInStep, NoReply
  <2>2. NothingInvented /\ CitationsAreSourced /\ InternalStaysInternal /\ NothingWithheld
    BY <1>12, <2>1 DEF NothingInvented, CitationsAreSourced, InternalStaysInternal, NothingWithheld
  <2> QED
    BY <1>3, <1>9, <1>10, <2>2 DEF EvidenceInv
<1> QED
  BY <1>11, <1>12

LEMMA EvidenceBegins ==
  ASSUME EvidenceInit
  PROVE  EvidenceIInv
<1>1. EvidenceTypes
  BY EvidenceAssumption DEF EvidenceInit, EvidenceTypes, NoDraft, DraftFields
<1>2. DOMAIN told = {} /\ guided = told
  BY DEF EvidenceInit
<1> QED
  BY <1>1, <1>2 DEF EvidenceInit, EvidenceIInv, ToldInStep, ReplyInStep

LEMMA TakeBatchKeeps ==
  ASSUME EvidenceIInv, NEW b \in ToolBatches, NEW whole \in BOOLEAN, TakeBatch(b, whole)
  PROVE  EvidenceIInv'
<1> DEFINE shown == GuideOf(LedgerOf(results'))
           pages == {c.page : c \in shown}
           best == BestNamed(results)
           best2 == BestNamed(results')
<1>1. b \in Seq(AllResults)
  <2>1. b \in Seq(ToSet(b)) /\ ToSet(b) \subseteq AllResults
    BY EvidenceAssumption DEF AllResults
  <2> QED
    BY <2>1
<1>2. results \in Seq(AllResults) /\ results' = results \o b /\ results' \in Seq(AllResults)
  BY <1>1 DEF EvidenceIInv, EvidenceTypes, TakeBatch
<1>3. /\ writing = "working" /\ reply = NoReply
      /\ (writing' = "delivered" /\ reply' = RenderedReply') \/ (writing' = writing /\ reply' = reply)
  BY DEF TakeBatch, EvidenceIInv, ReplyInStep, RenderedReply
<1>4. EvidenceTypes'
  <2>1. batches' \in 0 .. MaxBatches
    BY EvidenceAssumption DEF TakeBatch, EvidenceIInv, EvidenceTypes
  <2>2. UNCHANGED <<style, draft, repairs>>
    BY DEF TakeBatch
  <2> QED
    BY <1>2, <1>3, <2>1, <2>2 DEF EvidenceIInv, EvidenceTypes
<1>5. ReplyInStep'
  BY <1>3 DEF ReplyInStep
<1>6. \A c \in shown : /\ c.page \in DOMAIN best2 /\ c = best2[c.page]
                      /\ Finer(Quality(c), GuidedAs(c.page))
  <2>1. shown \subseteq {c \in LedgerOf(results') : Finer(Quality(c), GuidedAs(c.page))}
    BY DEF GuideOf, FirstFew
  <2>2. \A c \in LedgerOf(results') : c.page \in DOMAIN best2 /\ c = best2[c.page]
    BY <1>2, LedgerIs
  <2> QED
    BY <2>1, <2>2
<1>7. /\ guided' = [p \in DOMAIN guided \cup pages |->
                     IF p \in pages THEN Quality(CHOOSE c \in shown : c.page = p) ELSE guided[p]]
      /\ told' = [p \in DOMAIN told \cup pages |->
                   (IF p \in DOMAIN told THEN told[p] ELSE 0) + (IF p \in pages THEN 1 ELSE 0)]
  BY DEF TakeBatch
<1>8. ASSUME NEW p \in pages
      PROVE  /\ p \in DOMAIN best2 /\ Quality(CHOOSE c \in shown : c.page = p) = Quality(best2[p])
             /\ Finer(Quality(best2[p]), GuidedAs(p))
  <2>1. PICK c \in shown : c.page = p
    OBVIOUS
  <2>2. (CHOOSE e \in shown : e.page = p) = best2[p]
    BY <1>6, <2>1
  <2> QED
    BY <1>6, <2>1, <2>2
<1>9. \A n \in 1 .. Len(results') : results'[n] \in AllResults
  BY <1>2
<1>10. ASSUME NEW p \in DOMAIN best2
       PROVE  /\ Quality(best2[p]).count \in Nat /\ Quality(best2[p]).precise \in {0, 1}
              /\ 1 <= Cardinality(Naming(results', Len(results'), p))
              /\ Cardinality(Naming(results', Len(results'), p)) \in Nat
  <2>0. IsBest(BestNamed(results'), results', Len(results'))
    BY <1>2, BestNamedIs
  <2>1. IsBest(best2, results', Len(results')) /\ Len(results') \in Nat
    BY <1>2, <2>0
  <2>2. IsBestOf(best2[p], results', Len(results'), p)
    BY <2>1 DEF IsBest
  <2>3. best2[p].from \in Naming(results', Len(results'), p) /\ best2[p].count = SizeOf(results', best2[p].from)
    BY <2>2 DEF IsBestOf
  <2>4. SizeOf(results', best2[p].from) \in Nat
    BY <1>9, <2>3, ResultTypes DEF Naming, SizeOf
  <2>5. Naming(results', Len(results'), p) \subseteq 1 .. Len(results') /\ IsFiniteSet(1 .. Len(results'))
    BY <2>1, FS_Interval DEF Naming
  <2>6. IsFiniteSet(Naming(results', Len(results'), p))
    BY <2>5, FS_Subset
  <2>7. Cardinality(Naming(results', Len(results'), p)) \in Nat
        /\ Cardinality(Naming(results', Len(results'), p)) # 0
    BY <2>3, <2>6, FS_CardinalityType, FS_EmptySet
  <2>8. Quality(best2[p]).count \in Nat /\ Quality(best2[p]).precise \in {0, 1}
    BY <2>3, <2>4 DEF Quality
  <2> QED
    BY <2>7, <2>8
<1>11. DOMAIN guided = DOMAIN told /\ \A p \in DOMAIN told : Toldness(results, guided, told, p)
  BY DEF EvidenceIInv, ToldInStep
<1>12. DOMAIN guided' = DOMAIN told \cup pages /\ DOMAIN told' = DOMAIN told \cup pages
  BY <1>7, <1>11
<1> HIDE DEF best, best2, pages, shown
<1>13. ASSUME NEW p \in DOMAIN told' PROVE Toldness(results', guided', told', p)
  <2> DEFINE was == Cardinality(Naming(results, Len(results), p))
             is  == Cardinality(Naming(results', Len(results'), p))
  <2>1. ASSUME p \in DOMAIN told
        PROVE  /\ p \in DOMAIN best2 /\ was \in Nat /\ is \in Nat /\ was <= is
               /\ Quality(best2[p]) = Quality(best[p]) \/ was + 1 <= is
               /\ told[p] \in Nat /\ told[p] <= was /\ guided[p].count \in Nat /\ guided[p].precise \in {0, 1}
               /\ Finer(Quality(best[p]), guided[p]) => told[p] + 1 <= was
    <3>1. Toldness(results, guided, told, p)
      BY <1>11, <2>1
    <3> QED
      BY <1>1, <1>2, <3>1, NamedAgain DEF Toldness, best, best2
  <2>2. p \in DOMAIN best2
    BY <1>8, <1>12, <1>13, <2>1
  <2>3. is \in Nat /\ 1 <= is /\ Quality(best2[p]).count \in Nat /\ Quality(best2[p]).precise \in {0, 1}
    BY <1>10, <2>2
  <2> HIDE DEF was, is
  <2>4. CASE p \in pages
    <3>1. guided'[p] = Quality(best2[p]) /\ Finer(Quality(best2[p]), GuidedAs(p))
      BY <1>7, <1>8, <2>4
    <3>2. ~ Finer(Quality(best2[p]), guided'[p])
      <4>1. Quality(best2[p]) # Unguided
        BY <2>3 DEF Unguided
      <4> QED
        BY <2>3, <3>1, <4>1 DEF Finer
    <3>3. CASE p \in DOMAIN told
      <4>1. told'[p] = told[p] + 1
        BY <1>7, <2>4, <3>3
      <4>2. GuidedAs(p) = guided[p]
        BY <1>11, <3>3 DEF GuidedAs
      <4>3. told[p] + 1 <= is
        BY <2>1, <3>1, <3>3, <4>2
      <4> QED
        BY <2>1, <2>2, <2>3, <3>1, <3>2, <3>3, <4>1, <4>3 DEF Toldness, is, best2
    <3>4. CASE p \notin DOMAIN told
      <4>1. told'[p] = 1
        BY <1>7, <2>4, <3>4
      <4> QED
        BY <2>2, <2>3, <3>1, <3>2, <4>1 DEF Toldness, is, best2
    <3> QED
      BY <3>3, <3>4
  <2>5. CASE p \notin pages
    <3>1. p \in DOMAIN told
      BY <1>12, <1>13, <2>5
    <3>2. told'[p] = told[p] /\ guided'[p] = guided[p]
      <4>1. told'[p] = told[p] + 0
        BY <1>7, <2>5, <3>1
      <4>2. guided'[p] = guided[p]
        BY <1>7, <1>11, <2>5, <3>1
      <4> QED
        BY <2>1, <3>1, <4>1, <4>2
    <3>3. told[p] <= is /\ (Finer(Quality(best2[p]), guided[p]) => told[p] + 1 <= is)
      BY <2>1, <3>1
    <3> QED
      BY <2>1, <2>2, <3>1, <3>2, <3>3 DEF Toldness, is, best2
  <2> QED
    BY <2>4, <2>5
<1>14. ToldInStep'
  BY <1>12, <1>13 DEF ToldInStep
<1> QED
  BY <1>4, <1>5, <1>14 DEF EvidenceIInv

\* A draft does not change what is known.
LEMMA DraftKeeps ==
  ASSUME EvidenceIInv, UNCHANGED <<style, results, guided, told, batches, reply>>,
         writing # "delivered", writing' \in {"working", "accepted", "continued"},
         repairs' \in {0, 1}, DOMAIN draft' = DraftFields
  PROVE  EvidenceIInv'
<1>1. EvidenceTypes' /\ ReplyInStep'
  BY DEF EvidenceIInv, EvidenceTypes, ReplyInStep
<1>2. ToldInStep'
  BY DEF EvidenceIInv, ToldInStep
<1> QED
  BY <1>1, <1>2 DEF EvidenceIInv

LEMMA DeliverKeeps ==
  ASSUME EvidenceIInv, DeliverAnswer
  PROVE  EvidenceIInv'
<1>1. EvidenceTypes' /\ ToldInStep'
  BY DEF DeliverAnswer, EvidenceIInv, EvidenceTypes, ToldInStep
<1>2. Prepared(draft)' = Prepared(draft)
  BY DEF DeliverAnswer, Prepared, Unprovenanced, References, Displayed, Trusted, SourceList, NeedsCitations,
         PagesInLedger, InLedger, Ledger, Cards, InText
<1>3. reply' = Prepared(draft)' /\ writing' = "delivered"
  BY <1>2 DEF DeliverAnswer
<1>4. ReplyInStep'
  BY <1>3 DEF ReplyInStep
<1> QED
  BY <1>1, <1>4 DEF EvidenceIInv

LEMMA EvidenceRests ==
  ASSUME EvidenceIInv, UNCHANGED evidenceVars
  PROVE  EvidenceIInv'
<1>1. EvidenceTypes' /\ ToldInStep'
  BY DEF evidenceVars, EvidenceIInv, EvidenceTypes, ToldInStep
<1>2. Prepared(draft)' = Prepared(draft) /\ RenderedReply' = RenderedReply
  BY DEF evidenceVars, Prepared, Unprovenanced, References, Displayed, Trusted, SourceList, NeedsCitations,
         PagesInLedger, InLedger, Ledger, Cards, InText, RenderedReply
<1>3. ReplyInStep'
  BY <1>2 DEF evidenceVars, EvidenceIInv, ReplyInStep
<1> QED
  BY <1>1, <1>3 DEF EvidenceIInv

LEMMA EvidenceKept ==
  ASSUME EvidenceIInv, [EvidenceNext]_evidenceVars
  PROVE  EvidenceIInv'
<1>1. ASSUME NEW b \in ToolBatches, NEW whole \in BOOLEAN, TakeBatch(b, whole) PROVE EvidenceIInv'
  BY <1>1, TakeBatchKeeps
<1>2. \A d \in Drafts : DOMAIN d = DraftFields
  BY EvidenceAssumption DEF DraftFields
<1>3. repairs \in {0, 1} /\ DOMAIN draft = DraftFields
  BY DEF EvidenceIInv, EvidenceTypes
<1>4. ASSUME NEW d \in Drafts, NEW tools \in SUBSET {"quote", "web"}, WriteDraft(d, tools) PROVE EvidenceIInv'
  BY <1>2, <1>3, <1>4, DraftKeeps DEF WriteDraft
<1>5. ASSUME NEW d \in Drafts, WriteFinal(d) PROVE EvidenceIInv'
  BY <1>2, <1>3, <1>5, DraftKeeps DEF WriteFinal
<1>6. ASSUME NEW d \in Drafts, Continue(d) PROVE EvidenceIInv'
  <2>1. DOMAIN draft' = DraftFields
    BY <1>2, <1>6 DEF Continue
  <2> QED
    BY <1>3, <1>6, <2>1, DraftKeeps DEF Continue
<1>7. CASE DeliverAnswer
  BY <1>7, DeliverKeeps
<1>8. CASE UNCHANGED evidenceVars
  BY <1>8, EvidenceRests
<1> QED
  BY <1>1, <1>4, <1>5, <1>6, <1>7, <1>8 DEF EvidenceNext

\* What an answer refers to was found, what is cited has its source, and what the model
\* left out is delivered (chat/evidence.py, chat/evidence_enforcement.py).
THEOREM EvidenceIsSafe == EvidenceSpec => []EvidenceInv
<1>1. EvidenceInit => EvidenceIInv
  BY EvidenceBegins
<1>2. EvidenceIInv /\ [EvidenceNext]_evidenceVars => EvidenceIInv'
  BY EvidenceKept
<1>3. EvidenceIInv => EvidenceInv
  BY EvidenceSound
<1> QED
  BY <1>1, <1>2, <1>3, PTL DEF EvidenceSpec
==============================================================================
