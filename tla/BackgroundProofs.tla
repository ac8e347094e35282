--------------------------- MODULE BackgroundProofs ---------------------------
(***************************************************************************)
(* Proofs about the background work: the memory writer, for any number of  *)
(* users, guilds, rows and jobs and whatever the models answer; and, in    *)
(* the sections at the end, the benchmark suites and the quote pages.      *)
(*                                                                         *)
(* What is a loop of the code is a recursive function here: over the       *)
(* candidates of a transaction (AfterCandidates), over the values of a     *)
(* cache (FirstAmong).  What it does is proved with a minimal              *)
(* counterexample of the order of the natural numbers.                     *)
(***************************************************************************)
EXTENDS Background, FiniteSetTheorems, WellFoundedInduction, TLAPS

(***************************************************************************)
(* The inductive invariant.                                                *)
(***************************************************************************)

Target == [id : Ids, summary : Texts]
Decision == [summary : OverviewTexts, sources : SUBSET Ids]

\* What the running job has read, as far as it still holds.
StepInv ==
  /\ step = Step(step.at, step.cands, step.targets, step.plan, step.decision)
  /\ step.at = "store" =>
       step.cands \in Seq(Candidates) /\ created + Len(step.cands) <= MaxRows
  /\ step.at \in {"target", "embed", "attach"} =>
       step.targets \in Seq(Target) /\ step.targets # <<>>
  /\ step.at \in {"embed", "attach"} =>
       rows[Head(step.targets).id].summary = Head(step.targets).summary
  /\ step.at = "decide" => step.decision = NoDecision /\ DOMAIN step.plan \subseteq Ids
  /\ step.at = "apply" /\ step.decision # NoDecision =>
       step.decision \in Decision /\ created < MaxRows

\* Ids that were not handed out stand for no row.
Fresh(rs, n) == \A i \in Ids : Present(rs, i) => i <= n

\* Row i belongs into scope s, by its owner, its guild and its visibility.
Rightful(rs, on, s, i) ==
  IF s.type = "user"
  THEN rs[i].owner = s.user /\ rs[i].guild \in {DM, s.guild} /\ rs[i].visibility = "private"
  ELSE /\ on[rs[i].owner] /\ rs[i].guild = s.guild
       /\ rs[i].visibility \in {"guild_shared", "lore"} /\ Present(rs, i)

RightIn(rs, on, n, s, S) == \A i \in S : i \in Ids /\ i <= n /\ Rightful(rs, on, s, i)

\* Every snapshot shows rows of its scope, a guild's only rows that are still there.
SnapshotInv == \A s \in Scopes : RightIn(rows, enabled, created, s, snapshot[s])

MemoryInv == TypeOK /\ StepInv /\ Fresh(rows, created) /\ SnapshotInv

(***************************************************************************)
(* The loop over the candidates of a transaction.                          *)
(***************************************************************************)

LEMMA BoundTypes == MaxRows \in Nat /\ Ids = 1 .. MaxRows
  BY RowsAssumption DEF Ids

\* A set of natural numbers has a least one.
LEMMA LeastOf ==
  ASSUME NEW S, S \subseteq Nat, S # {}
  PROVE  \E n \in S : \A m \in S : n <= m
<1> DEFINE Below == OpToRel(<, Nat)
<1>1. \A x, y \in Nat : <<x, y>> \in Below <=> x < y
  BY DEF OpToRel
<1>2. IsWellFoundedOn(Below, Nat)
  BY NatLessThanWellFounded
<1> HIDE DEF Below
<1>3. PICK n \in S : \A m \in S : ~ (<<m, n>> \in Below)
  BY <1>2, WFMin
<1>4. \A m \in S : m \in Nat /\ n \in Nat /\ ~ (m < n)
  BY <1>1, <1>3, Zenon
<1> QED
  BY <1>4

Before == Outcome(rows, created, FALSE, <<>>)

\* f says how the transaction may stand after each of the first k candidates.
IsLoop(f, u, g, cs, k) ==
  f = [n \in 0 .. k |-> IF n = 0 THEN {Before} ELSE StoreEach(f[n - 1], u, g, cs[n])]

\* There is such a function, however many candidates there are.
LEMMA LoopExists ==
  ASSUME NEW u, NEW g, NEW cs, NEW k \in Nat
  PROVE  \E f : IsLoop(f, u, g, cs, k)
<1> DEFINE Bad == {n \in Nat : ~ \E f : IsLoop(f, u, g, cs, n)}
<1>1. SUFFICES ASSUME Bad # {} PROVE FALSE
  OBVIOUS
<1>2. PICK n \in Bad : \A m \in Bad : n <= m
  BY <1>1, LeastOf
<1>3. CASE n = 0
  <2>1. IsLoop([m \in 0 .. 0 |-> {Before}], u, g, cs, 0)
    BY DEF IsLoop
  <2> QED
    BY <1>3, <2>1
<1>4. CASE n # 0
  <2>1. n - 1 \in Nat /\ n - 1 \notin Bad
    BY <1>2, <1>4
  <2>2. PICK f : IsLoop(f, u, g, cs, n - 1)
    BY <2>1
  <2> DEFINE h == [m \in 0 .. n |-> IF m = n THEN StoreEach(f[n - 1], u, g, cs[n]) ELSE f[m]]
  <2>3. \A m \in 0 .. n :
          h[m] = IF m = 0 THEN {Before} ELSE StoreEach(h[m - 1], u, g, cs[m])
    <3> SUFFICES ASSUME NEW m \in 0 .. n
                 PROVE  h[m] = IF m = 0 THEN {Before} ELSE StoreEach(h[m - 1], u, g, cs[m])
      OBVIOUS
    <3>1. CASE m = n
      BY <1>4, <3>1
    <3>2. CASE m # n
      <4>1. m \in 0 .. n - 1
        BY <3>2
      <4>2. f[m] = IF m = 0 THEN {Before} ELSE StoreEach(f[m - 1], u, g, cs[m])
        BY <2>2, <4>1 DEF IsLoop
      <4>3. m # 0 => h[m - 1] = f[m - 1]
        BY <4>1
      <4> QED
        BY <3>2, <4>2, <4>3
    <3> QED
      BY <3>1, <3>2
  <2> HIDE DEF h
  <2>4. h = [m \in 0 .. n |-> h[m]]
    BY DEF h
  <2>5. IsLoop(h, u, g, cs, n)
    BY <2>3, <2>4 DEF IsLoop
  <2> QED
    BY <2>5
<1> QED
  BY <1>3, <1>4

LEMMA LoopIsLoop ==
  ASSUME NEW u, NEW g, NEW cs, Len(cs) \in Nat
  PROVE  IsLoop(AfterCandidates(u, g, cs), u, g, cs, Len(cs))
<1>1. PICK f : IsLoop(f, u, g, cs, Len(cs))
  BY LoopExists
<1> QED
  BY <1>1 DEF AfterCandidates, IsLoop, Before

\* What a transaction of user u that began with these rows may have done to row i, when m
\* ids are handed out: it is theirs if it is not as it was, and in its place.
Grown(rs, m, u, i) ==
  /\ rs[i] # rows[i] => rs[i].owner = u
  /\ rs[i].embedding \in {NoText, rows[i].embedding}
  /\ i <= created => /\ rs[i].owner = rows[i].owner /\ rs[i].guild = rows[i].guild
                     /\ rs[i].visibility = rows[i].visibility
                     /\ Present(rows, i) => Present(rs, i)
  /\ created < i /\ i <= m => rs[i].kind # "summary"

\* The table after n candidates.
GrownRows(rs, m, u, n) ==
  /\ rs \in [Ids -> Row]
  /\ m \in Nat /\ created <= m /\ m <= created + n
  /\ Fresh(rs, m)
  /\ \A i \in Ids : Grown(rs, m, u, i)

GrownTo(o, u, n) ==
  /\ o = Outcome(o.rows, o.created, o.stored, o.targets)
  /\ GrownRows(o.rows, o.created, u, n)
  /\ o.targets \in Seq(Target)

\* A row of the user is changed, where it is.
LEMMA Touched ==
  ASSUME NEW rs, NEW m, NEW u, NEW n \in Nat, GrownRows(rs, m, u, n),
         NEW i \in Ids, Active(rs, i), rs[i].owner = u,
         NEW r \in Row, r.owner = u, r.guild = rs[i].guild, r.visibility = rs[i].visibility,
         r.kind = rs[i].kind, r.embedding = rs[i].embedding, r.status # "none"
  PROVE  GrownRows([rs EXCEPT ![i] = r], m, u, n)
<1> DEFINE new == [rs EXCEPT ![i] = r]
<1>1. rs \in [Ids -> Row] /\ new \in [Ids -> Row] /\ new[i] = r
      /\ \A j \in Ids : j # i => new[j] = rs[j]
  BY DEF GrownRows
<1>2. i <= m /\ Present(rs, i)
  BY DEF GrownRows, Fresh, Present, Active
<1> HIDE DEF new
<1>3. Fresh(new, m)
  <2> SUFFICES ASSUME NEW j \in Ids, Present(new, j) PROVE j <= m
    BY DEF Fresh
  <2>1. CASE j = i
    BY <2>1, <1>2
  <2>2. CASE j # i
    BY <2>2, <1>1 DEF GrownRows, Fresh, Present
  <2> QED
    BY <2>1, <2>2
<1>4. ASSUME NEW j \in Ids PROVE Grown(new, m, u, j)
  <2>1. Grown(rs, m, u, j)
    BY DEF GrownRows
  <2>2. CASE j = i
    BY <2>1, <2>2, <1>1 DEF Grown, Present
  <2>3. CASE j # i
    BY <2>1, <2>3, <1>1 DEF Grown, Present
  <2> QED
    BY <2>2, <2>3
<1> QED
  BY <1>1, <1>3, <1>4 DEF GrownRows, new

LEMMA MoreSteps ==
  ASSUME NEW rs, NEW m, NEW u, NEW n \in Nat, created \in Nat, GrownRows(rs, m, u, n)
  PROVE  GrownRows(rs, m, u, n + 1)
  BY DEF GrownRows

\* Rows that match a lookup are active ones of the user.
LEMMA MatchesAreTheirs ==
  ASSUME NEW rs, NEW u, NEW g, NEW vis, NEW c,
         NEW i \in SameKey(rs, u, g, vis, c) \cup Duplicates(rs, u, g, vis, c)
  PROVE  i \in Ids /\ Active(rs, i) /\ rs[i].owner = u
  BY DEF SameKey, Duplicates, Matching

\* The target of a row that was stored.
LEMMA StoredIsGrown ==
  ASSUME NEW u \in Users, NEW n \in Nat, NEW o, o.targets \in Seq(Target), NEW rs, NEW m,
         GrownRows(rs, m, u, n), NEW i \in Ids, NEW c \in Candidates
  PROVE  GrownTo(Stored(o, rs, m, i, c), u, n)
<1> DEFINE ts == IF rs[i].embedding # NoText THEN o.targets
                 ELSE Append(o.targets, [id |-> i, summary |-> c.summary])
<1>1. [id |-> i, summary |-> c.summary] \in Target
  BY DEF Target, Candidates
<1>2. ts \in Seq(Target)
  BY <1>1
<1> HIDE DEF ts
<1>3. Stored(o, rs, m, i, c) = Outcome(rs, m, TRUE, ts)
  BY DEF Stored, ts
<1> QED
  BY <1>2, <1>3 DEF GrownTo, Outcome

LEMMA RowFields ==
  ASSUME NEW r \in Row, NEW c \in Candidates
  PROVE  /\ LET q == [r EXCEPT !.predicate = c.predicate]
            IN  q \in Row /\ q.owner = r.owner /\ q.guild = r.guild /\ q.visibility = r.visibility
                /\ q.kind = r.kind /\ q.embedding = r.embedding /\ q.status = r.status
         /\ LET q == [r EXCEPT !.summary = c.summary]
            IN  q \in Row /\ q.owner = r.owner /\ q.guild = r.guild /\ q.visibility = r.visibility
                /\ q.kind = r.kind /\ q.embedding = r.embedding /\ q.status = r.status
         /\ \A st \in {"retracted", "superseded"} :
              LET q == [r EXCEPT !.status = st]
              IN  q \in Row /\ q.owner = r.owner /\ q.guild = r.guild /\ q.visibility = r.visibility
                  /\ q.kind = r.kind /\ q.embedding = r.embedding /\ q.status = st
  BY DEF Row, Candidates, Statuses

\* The three changes the transaction makes to a row that matches.
LEMMA MatchTouched ==
  ASSUME NEW rs, NEW m, NEW u, NEW n \in Nat, GrownRows(rs, m, u, n), NEW c \in Candidates,
         NEW i \in Ids, Active(rs, i), rs[i].owner = u
  PROVE  /\ GrownRows([rs EXCEPT ![i].predicate = c.predicate], m, u, n)
         /\ GrownRows([rs EXCEPT ![i].summary = c.summary], m, u, n)
         /\ GrownRows([rs EXCEPT ![i].status = "retracted"], m, u, n)
         /\ GrownRows([rs EXCEPT ![i].status = "superseded"], m, u, n)
<1>1. rs[i] \in Row /\ rs[i].status = "active"
  BY DEF GrownRows, Active
<1>2. GrownRows([rs EXCEPT ![i] = [rs[i] EXCEPT !.predicate = c.predicate]], m, u, n)
  BY <1>1, RowFields, Touched
<1>3. GrownRows([rs EXCEPT ![i] = [rs[i] EXCEPT !.summary = c.summary]], m, u, n)
  BY <1>1, RowFields, Touched
<1>4. ASSUME NEW st \in {"retracted", "superseded"}
      PROVE  GrownRows([rs EXCEPT ![i] = [rs[i] EXCEPT !.status = st]], m, u, n)
  BY <1>1, RowFields, Touched
<1> QED
  BY <1>2, <1>3, <1>4

\* A new row takes the next id.
LEMMA InsertIsGrown ==
  ASSUME created \in Nat, NEW u \in Users, NEW g \in Places, NEW vis \in Audiences,
         NEW c \in Candidates, NEW o, o.targets \in Seq(Target),
         NEW n \in Nat, o.created < MaxRows,
         NEW rs, GrownRows(rs, o.created, u, n)
  PROVE  GrownTo(InsertRow(o, rs, u, g, vis, c), u, n + 1)
<1> DEFINE i == o.created + 1
           r == [owner |-> u, guild |-> g, visibility |-> vis, kind |-> c.kind,
                 predicate |-> c.predicate, summary |-> c.summary,
                 status |-> "active", embedding |-> NoText, sources |-> {}]
           new == [rs EXCEPT ![i] = r]
<1>1. i \in Ids /\ i \in Nat /\ created < i /\ i <= created + n + 1
  BY BoundTypes DEF GrownRows
<1>2. r \in Row /\ r.owner = u /\ r.embedding = NoText /\ r.kind # "summary"
  BY DEF Row, Candidates, Statuses
<1> HIDE DEF r
<1>3. new \in [Ids -> Row] /\ new[i] = r /\ \A j \in Ids : j # i => new[j] = rs[j]
  BY <1>1, <1>2 DEF GrownRows
<1>4. InsertRow(o, rs, u, g, vis, c) = Stored(o, new, i, i, c)
  BY DEF InsertRow, r
<1> HIDE DEF new
<1>5. Fresh(new, i)
  <2> SUFFICES ASSUME NEW j \in Ids, Present(new, j) PROVE j <= i
    BY DEF Fresh
  <2>1. CASE j = i
    BY <2>1, BoundTypes
  <2>2. CASE j # i
    <3>1. j <= o.created
      BY <2>2, <1>3 DEF GrownRows, Fresh, Present
    <3> QED
      BY <3>1, BoundTypes DEF GrownRows
  <2> QED
    BY <2>1, <2>2
<1>6. ASSUME NEW j \in Ids PROVE Grown(new, i, u, j)
  <2>1. Grown(rs, o.created, u, j)
    BY DEF GrownRows
  <2>2. CASE j = i
    BY <2>2, <1>1, <1>2, <1>3 DEF Grown
  <2>3. CASE j # i
    <3>1. j <= i => j <= o.created
      BY <2>3, BoundTypes DEF GrownRows
    <3> QED
      BY <2>1, <2>3, <3>1, <1>3 DEF Grown, Present
  <2> QED
    BY <2>2, <2>3
<1>7. GrownRows(new, i, u, n + 1)
  BY <1>1, <1>3, <1>5, <1>6 DEF GrownRows
<1> HIDE DEF i
<1> QED
  BY <1>1, <1>4, <1>7, StoredIsGrown

LEMMA DuplicateOrInsertIsGrown ==
  ASSUME created \in Nat, NEW u \in Users, NEW g \in Places, NEW vis \in Audiences,
         NEW c \in Candidates, NEW o, o.targets \in Seq(Target),
         NEW n \in Nat, o.created < MaxRows,
         NEW rs, GrownRows(rs, o.created, u, n),
         NEW p \in DuplicateOrInsert(o, rs, u, g, vis, c)
  PROVE  GrownTo(p, u, n + 1)
<1>1. CASE Duplicates(rs, u, g, vis, c) = {}
  BY <1>1, InsertIsGrown DEF DuplicateOrInsert
<1>2. CASE Duplicates(rs, u, g, vis, c) # {}
  <2>1. PICK i \in Duplicates(rs, u, g, vis, c) :
          p = Stored(o, [rs EXCEPT ![i].predicate = c.predicate], o.created, i, c)
    BY <1>2 DEF DuplicateOrInsert
  <2>2. i \in Ids /\ Active(rs, i) /\ rs[i].owner = u
    BY MatchesAreTheirs
  <2>3. GrownRows([rs EXCEPT ![i].predicate = c.predicate], o.created, u, n)
    BY <2>2, MatchTouched
  <2>4. GrownRows([rs EXCEPT ![i].predicate = c.predicate], o.created, u, n + 1) /\ n + 1 \in Nat
    BY <2>3, MoreSteps
  <2> QED
    BY <2>1, <2>2, <2>4, StoredIsGrown
<1> QED
  BY <1>1, <1>2

LEMMA CandidateIsGrown ==
  ASSUME created \in Nat, NEW u \in Users, NEW g \in Places, NEW c \in Candidates,
         NEW n \in Nat, NEW o, GrownTo(o, u, n), o.created < MaxRows,
         NEW p \in StoreCandidate(o, u, g, c)
  PROVE  GrownTo(p, u, n + 1)
<1> DEFINE vis == IF g = DM THEN "private" ELSE c.visibility
<1>1. vis \in Audiences
  BY DEF Candidates, Audiences
<1>2. p \in Retract(o, u, g, vis, c) \/ p \in Upsert(o, u, g, vis, c)
  BY DEF StoreCandidate
<1> HIDE DEF vis
<1>3. o.targets \in Seq(Target) /\ GrownRows(o.rows, o.created, u, n)
      /\ o = Outcome(o.rows, o.created, o.stored, o.targets)
  BY DEF GrownTo
<1>4. GrownRows(o.rows, o.created, u, n + 1) /\ n + 1 \in Nat
  BY <1>3, MoreSteps
<1>5. GrownTo(o, u, n + 1)
  BY <1>3, <1>4 DEF GrownTo
<1>6. ASSUME NEW i \in SameKey(o.rows, u, g, vis, c)
      PROVE  /\ i \in Ids
             /\ GrownTo(Stored(o, [o.rows EXCEPT ![i].status = "retracted"], o.created, i, c), u, n + 1)
             /\ GrownTo(Stored(o, [o.rows EXCEPT ![i].summary = c.summary], o.created, i, c), u, n + 1)
             /\ GrownRows([o.rows EXCEPT ![i].status = "superseded"], o.created, u, n)
  <2>1. i \in Ids /\ Active(o.rows, i) /\ o.rows[i].owner = u
    BY MatchesAreTheirs
  <2>2. /\ GrownRows([o.rows EXCEPT ![i].status = "retracted"], o.created, u, n + 1)
        /\ GrownRows([o.rows EXCEPT ![i].summary = c.summary], o.created, u, n + 1)
    BY <2>1, <1>4, MatchTouched
  <2>3. GrownRows([o.rows EXCEPT ![i].status = "superseded"], o.created, u, n)
    BY <2>1, <1>3, MatchTouched
  <2> QED
    BY <2>1, <2>2, <2>3, <1>3, <1>4, StoredIsGrown
<1>7. CASE p \in Retract(o, u, g, vis, c)
  BY <1>5, <1>6, <1>7 DEF Retract
<1>8. CASE p \in Upsert(o, u, g, vis, c)
  <2>1. CASE SameKey(o.rows, u, g, vis, c) = {}
    <3>1. p \in DuplicateOrInsert(o, o.rows, u, g, vis, c)
      BY <1>8, <2>1 DEF Upsert
    <3> QED
      BY <3>1, <1>1, <1>3, DuplicateOrInsertIsGrown
  <2>2. CASE SameKey(o.rows, u, g, vis, c) # {}
    <3>1. PICK i \in SameKey(o.rows, u, g, vis, c) :
            \/ p = Stored(o, [o.rows EXCEPT ![i].summary = c.summary], o.created, i, c)
            \/ p \in DuplicateOrInsert(o, [o.rows EXCEPT ![i].status = "superseded"], u, g, vis, c)
      BY <1>8, <2>2 DEF Upsert
    <3>2. GrownRows([o.rows EXCEPT ![i].status = "superseded"], o.created, u, n)
      BY <1>6
    <3>3. CASE p \in DuplicateOrInsert(o, [o.rows EXCEPT ![i].status = "superseded"], u, g, vis, c)
      BY <3>2, <3>3, <1>1, <1>3, DuplicateOrInsertIsGrown
    <3> QED
      BY <3>1, <3>3, <1>6
  <2> QED
    BY <2>1, <2>2
<1> QED
  BY <1>2, <1>7, <1>8

\* After every candidate of a job that has room for them.
LEMMA LoopIsGrown ==
  ASSUME created \in Nat, rows \in [Ids -> Row], Fresh(rows, created),
         NEW u \in Users, NEW g \in Places, NEW cs \in Seq(Candidates),
         created + Len(cs) <= MaxRows,
         NEW k \in 0 .. Len(cs), NEW p \in AfterCandidates(u, g, cs)[k]
  PROVE  GrownTo(p, u, k)
<1> DEFINE f == AfterCandidates(u, g, cs)
           Bad == {n \in 0 .. Len(cs) : \E o \in f[n] : ~ GrownTo(o, u, n)}
<1>1. Len(cs) \in Nat
  OBVIOUS
<1>2. IsLoop(f, u, g, cs, Len(cs))
  BY <1>1, LoopIsLoop
<1> HIDE DEF f
<1>3. \A n \in 0 .. Len(cs) : f[n] = IF n = 0 THEN {Before} ELSE StoreEach(f[n - 1], u, g, cs[n])
  BY <1>2 DEF IsLoop
<1>4. SUFFICES ASSUME Bad # {} PROVE FALSE
  BY <1>1 DEF f
<1>5. Bad \subseteq Nat
  OBVIOUS
<1>6. PICK n \in Bad : \A m \in Bad : n <= m
  BY <1>4, <1>5, LeastOf
<1>7. PICK o \in f[n] : ~ GrownTo(o, u, n)
  BY <1>6
<1>8. CASE n = 0
  <2>1. o = Before
    BY <1>3, <1>6, <1>7, <1>8
  <2>2. GrownRows(rows, created, u, 0)
    BY BoundTypes DEF GrownRows, Grown
  <2>3. <<>> \in Seq(Target)
    OBVIOUS
  <2>4. GrownTo(Before, u, 0)
    BY <2>2, <2>3 DEF GrownTo, Before, Outcome
  <2> QED
    BY <1>7, <1>8, <2>1, <2>4
<1>9. CASE n # 0
  <2>1. n - 1 \in 0 .. Len(cs) /\ n - 1 \in Nat /\ n - 1 \notin Bad /\ n \in 1 .. Len(cs)
    BY <1>1, <1>6, <1>9
  <2>2. o \in StoreEach(f[n - 1], u, g, cs[n])
    BY <1>3, <1>6, <1>7, <1>9
  <2>3. PICK q \in f[n - 1] : o \in StoreCandidate(q, u, g, cs[n])
    BY <2>2 DEF StoreEach
  <2>4. GrownTo(q, u, n - 1)
    BY <2>1
  <2>5. q.created < MaxRows
    BY <2>1, <2>4, BoundTypes, <1>1 DEF GrownTo, GrownRows
  <2>6. cs[n] \in Candidates
    BY <2>1
  <2>7. GrownTo(o, u, (n - 1) + 1)
    BY <2>1, <2>3, <2>4, <2>5, <2>6, CandidateIsGrown
  <2> QED
    BY <1>7, <2>1, <2>7
<1> QED
  BY <1>8, <1>9

(***************************************************************************)
(* Types: the worker and the table.                                        *)
(***************************************************************************)

WorkerOK ==
  /\ WorkerTypeOK(Jobs)
  /\ unfinished = Len(queue) + InHand
  /\ (task = "busy") = (step.at # "idle") /\ (task = "busy") = (holding # NoJob)

StoreOK ==
  /\ enabled \in [Users -> BOOLEAN] /\ cooling \in [Users -> BOOLEAN]
  /\ rows \in [Ids -> Row] /\ created \in 0 .. MaxRows
  /\ snapshot \in [Scopes -> SUBSET Ids]

LEMMA TypeParts == TypeOK <=> WorkerOK /\ StoreOK
  BY DEF TypeOK, WorkerOK, StoreOK

\* The user and the guild of the running job.
LEMMA JobTypes ==
  ASSUME WorkerOK, task = "busy"
  PROVE  u_ \in Users /\ g_ \in Places
<1>1. holding \in Jobs
  BY DEF WorkerOK, WorkerTypeOK
<1> QED
  BY <1>1, UsersAssumption DEF Jobs, u_, g_

\* The fields of a step.
LEMMA StepFields ==
  /\ \A a, c, t, p, d :
       LET st == Step(a, c, t, p, d)
       IN  st.at = a /\ st.cands = c /\ st.targets = t /\ st.plan = p /\ st.decision = d
  /\ \A a : Bare(a).at = a
  BY DEF Step, Bare

\* The steps of the job: the worker keeps its job.
LEMMA JobKeepsWorker ==
  ASSUME StepInv, JobStep \/ JobFails
  PROVE  UNCHANGED worker /\ task = "busy" /\ step'.at # "idle"
<1> USE StepFields
<1>1. CASE CheckOptIn
  BY <1>1 DEF CheckOptIn, At, KeepWorker
<1>2. CASE \E cands \in Extractions : Extract(cands)
  BY <1>2 DEF Extract, At, KeepWorker
<1>3. CASE StoreCandidates
  BY <1>3 DEF StoreCandidates, AfterTarget, At, KeepWorker
<1>4. CASE CheckTarget
  BY <1>4 DEF CheckTarget, AfterTarget, StepInv, Step, At, KeepWorker
<1>5. CASE Embed
  BY <1>5 DEF Embed, StepInv, Step, At, KeepWorker
<1>6. CASE EmbedFails
  BY <1>6 DEF EmbedFails, AfterTarget, At
<1>7. CASE Attach
  BY <1>7 DEF Attach, AfterTarget, At, KeepWorker
<1>8. CASE PlanConsolidation
  BY <1>8 DEF PlanConsolidation, At, KeepWorker
<1>9. CASE Decide
  <2>1. UNCHANGED worker /\ task = "busy"
    BY <1>9 DEF Decide, At, KeepWorker
  <2>2. CASE step' = Bare("rebuild")
    BY <2>1, <2>2
  <2>3. CASE step' = [step EXCEPT !.at = "apply"]
    BY <2>1, <2>3 DEF StepInv, Step
  <2>4. CASE \E d \in Decisions : step' = [step EXCEPT !.at = "apply", !.decision = d]
    BY <2>1, <2>4 DEF StepInv, Step
  <2> QED
    BY <1>9, <2>2, <2>3, <2>4 DEF Decide
<1>10. CASE Apply
  BY <1>10 DEF Apply, At, KeepWorker
<1>11. CASE Rebuild
  BY <1>11 DEF Rebuild, At, KeepWorker
<1>12. CASE JobFails
  BY <1>12 DEF JobFails
<1> QED
  BY <1>1, <1>2, <1>3, <1>4, <1>5, <1>6, <1>7, <1>8, <1>9, <1>10, <1>11, <1>12 DEF JobStep

\* What a command, the maintenance and a cooldown leave alone.
LEMMA CommandsKeepWorker ==
  ASSUME \/ \E u \in Users, value \in BOOLEAN : SetEnabled(u, value)
         \/ \E i \in Ids : Forget(i)
         \/ \E i \in Ids, v \in Audiences, g \in Guilds : SetVisibility(i, v, g)
         \/ Maintenance
         \/ \E u \in Users : CooldownEnds(u)
  PROVE  UNCHANGED <<worker, step, created>>
  BY DEF SetEnabled, Forget, SetVisibility, Maintenance, Maintain, CooldownEnds, Command

LEMMA WorkerStays ==
  ASSUME WorkerOK, StepInv, Next
  PROVE  WorkerOK'
<1> USE DEF WorkerOK, WorkerTypeOK, InHand, worker
<1>1. ASSUME NEW job \in Jobs, Schedule(job) PROVE WorkerOK'
  <2>1. /\ task' = IF task = "none" THEN "waiting" ELSE task
        /\ Put(job) /\ UNCHANGED <<holding, closing, step>>
    BY <1>1 DEF Schedule, Submit
  <2>2. CASE Len(queue) < Capacity
    <3>1. queue' = Append(queue, job) /\ unfinished' = unfinished + 1
      BY <2>1, <2>2 DEF Put
    <3>2. queue' \in Seq(Jobs) /\ Len(queue') = Len(queue) + 1
      BY <3>1
    <3> QED
      BY <2>1, <2>2, <3>1, <3>2, WorkerAssumption
  <2>3. CASE ~ (Len(queue) < Capacity)
    BY <2>1, <2>3 DEF Put
  <2> QED
    BY <2>2, <2>3
<1>2. CASE Begin
  <2>1. Head(queue) \in Jobs /\ Tail(queue) \in Seq(Jobs) /\ Len(Tail(queue)) = Len(queue) - 1
    BY <1>2 DEF Begin, Take
  <2>2. Head(queue) # NoJob
    BY <2>1, NothingAssumption DEF Jobs
  <2> QED
    BY <1>2, <2>1, <2>2, StepFields, WorkerAssumption DEF Begin, Take
<1>3. CASE End
  BY <1>3, StepFields DEF End, Settle
<1>4. CASE JobStep \/ JobFails
  BY <1>4, JobKeepsWorker
<1>5. CASE Close
  <2>1. EndTask /\ step'.at = "idle"
    BY <1>5, StepFields, WriterAssumption DEF Close, CloseBegin
  <2>2. unfinished' = 0
    BY <2>1 DEF EndTask
  <2> QED
    BY <2>1, <2>2, WorkerAssumption DEF EndTask
<1>6. CASE Reboot
  BY <1>6, StepFields, WorkerAssumption DEF Reboot, Restart
<1>7. CASE UNCHANGED <<worker, step>>
  BY <1>7
<1> QED
  BY <1>1, <1>2, <1>3, <1>4, <1>5, <1>6, <1>7, CommandsKeepWorker DEF Next

(***************************************************************************)
(* What the running job has read.                                          *)
(***************************************************************************)

\* Steps that reword no row.
LEMMA ReadingsStay ==
  ASSUME StepInv, UNCHANGED <<step, created>>,
         \A i \in Ids : rows'[i].summary = rows[i].summary
  PROVE  StepInv'
<1>1. ASSUME step.at \in {"embed", "attach"}
      PROVE  rows'[Head(step.targets).id].summary = Head(step.targets).summary
  <2>1. Head(step.targets) \in Target
    BY <1>1 DEF StepInv
  <2> QED
    BY <1>1, <2>1 DEF StepInv, Target
<1> QED
  BY <1>1 DEF StepInv

LEMMA BareIsRead == \A a \in {"idle", "check", "extract", "plan", "rebuild", "done"} :
                      step' = Bare(a) => StepInv'
  BY StepFields DEF StepInv, Bare

LEMMA TailIsRead ==
  ASSUME NEW ts \in Seq(Target), step' = AfterTarget(ts)
  PROVE  StepInv'
<1> QED
  BY StepFields DEF StepInv, AfterTarget, Bare

\* The transaction that stores the candidates.
LEMMA StoredAreGrown ==
  ASSUME TypeOK, StepInv, Fresh(rows, created), StoreCandidates
  PROVE  \E o : /\ GrownTo(o, u_, Len(step.cands)) /\ rows' = o.rows /\ created' = o.created
                /\ created + Len(step.cands) <= MaxRows /\ Len(step.cands) \in Nat
                /\ ~ enabled[u_] => rows' = rows /\ created' = created
                /\ step' = AfterTarget(o.targets) \/ step' = Bare("done")
<1>1. u_ \in Users /\ g_ \in Places /\ step.cands \in Seq(Candidates)
      /\ created + Len(step.cands) <= MaxRows /\ Len(step.cands) \in Nat
  BY JobTypes, TypeParts DEF StoreCandidates, At, StepInv
<1>2. PICK o \in StoreAll(u_, g_, step.cands) :
        /\ rows' = o.rows /\ created' = o.created
        /\ step' = IF o.stored THEN AfterTarget(o.targets) ELSE Bare("done")
  BY DEF StoreCandidates
<1>3. created \in Nat /\ rows \in [Ids -> Row]
  BY RowsAssumption DEF TypeOK
<1>4. CASE enabled[u_]
  <2>1. o \in AfterCandidates(u_, g_, step.cands)[Len(step.cands)]
    BY <1>2, <1>4 DEF StoreAll
  <2>2. Len(step.cands) \in 0 .. Len(step.cands)
    BY <1>1
  <2> HIDE DEF u_, g_
  <2>3. GrownTo(o, u_, Len(step.cands))
    BY <1>1, <1>3, <2>1, <2>2, LoopIsGrown
  <2> QED
    BY <1>1, <1>2, <1>4, <2>3
<1>5. CASE ~ enabled[u_]
  <2>1. o = Before
    BY <1>2, <1>5 DEF StoreAll, Before
  <2>2. GrownRows(rows, created, u_, Len(step.cands))
    BY <1>1, <1>3, BoundTypes DEF GrownRows, Grown
  <2>3. <<>> \in Seq(Target)
    OBVIOUS
  <2>4. GrownTo(Before, u_, Len(step.cands)) /\ Before.rows = rows /\ Before.created = created
    BY <2>2, <2>3 DEF GrownTo, Before, Outcome
  <2> QED
    BY <1>1, <1>2, <2>1, <2>4
<1> QED
  BY <1>4, <1>5

\* What the consolidation does: it retires an overview of the user and adds a new one.
LEMMA Consolidated ==
  ASSUME TypeOK, StepInv, Apply
  PROVE  \/ UNCHANGED <<rows, created>>
         \/ /\ enabled[u_] /\ created < MaxRows /\ step.decision \in Decision
            /\ Cardinality(Unchanged(step.decision)) >= 2
            /\ created' = created + 1
            /\ LET new == OverviewRow(step.decision, Unchanged(step.decision))
               IN  \/ rows' = [rows EXCEPT ![created + 1] = new]
                   \/ \E i \in Overviews : rows' = [rows EXCEPT ![i].status = "consolidated",
                                                               ![created + 1] = new]
<1>1. CASE ~ enabled[u_]
  BY <1>1 DEF Apply
<1>2. CASE enabled[u_] /\ step.decision = NoDecision
  BY <1>2 DEF Apply
<1>3. CASE enabled[u_] /\ step.decision # NoDecision
  <2>1. Consolidate(step.decision) /\ step.at = "apply"
    BY <1>3 DEF Apply, At
  <2>2. step.decision \in Decision /\ created < MaxRows
    BY <1>3, <2>1 DEF StepInv
  <2>3. CASE Cardinality(Unchanged(step.decision)) < 2
    BY <2>1, <2>3 DEF Consolidate
  <2>4. CASE ~ (Cardinality(Unchanged(step.decision)) < 2)
    <3>1. Cardinality(Unchanged(step.decision)) >= 2
      <4>1. Unchanged(step.decision) \subseteq Ids
        BY <2>2 DEF Unchanged, Decision
      <4>2. IsFiniteSet(Ids)
        BY BoundTypes, FS_Interval
      <4>3. Cardinality(Unchanged(step.decision)) \in Nat
        BY <4>1, <4>2, FS_Subset, FS_CardinalityType
      <4> QED
        BY <2>4, <4>3
    <3> QED
      BY <1>3, <2>1, <2>2, <2>4, <3>1 DEF Consolidate
  <2> QED
    BY <2>3, <2>4
<1> QED
  BY <1>1, <1>2, <1>3

\* The row of an overview.
LEMMA OverviewFields ==
  ASSUME NEW d \in Decision, u_ \in Users, g_ \in Places, NEW S \in SUBSET Ids
  PROVE  /\ OverviewRow(d, S) \in Row
         /\ OverviewRow(d, S).owner = u_ /\ OverviewRow(d, S).embedding = NoText
         /\ OverviewRow(d, S).kind = "summary" /\ OverviewRow(d, S).sources = S
         /\ OverviewRow(d, S).status = "active"
<1>1. d.summary \in Texts
  BY ModelsAssumption DEF Decision
<1> QED
  BY <1>1 DEF OverviewRow, Row, Keys, Kinds, Audiences, Statuses

\* The table after a consolidation.
LEMMA ConsolidatedRows ==
  ASSUME TypeOK, StepInv, Fresh(rows, created), Apply, ~ UNCHANGED <<rows, created>>
  PROVE  LET new == OverviewRow(step.decision, Unchanged(step.decision))
         IN  /\ enabled[u_] /\ u_ \in Users /\ Cardinality(Unchanged(step.decision)) >= 2
             /\ created' = created + 1 /\ created + 1 \in Ids
             /\ rows' \in [Ids -> Row] /\ rows'[created + 1] = new
             /\ new.owner = u_ /\ new.embedding = NoText /\ new.kind = "summary"
             /\ new.sources = Unchanged(step.decision) /\ new.status = "active"
             /\ \A j \in Ids \ {created + 1} :
                  rows'[j] = rows[j] \/ (/\ j \in Overviews
                                         /\ rows'[j] = [rows[j] EXCEPT !.status = "consolidated"])
<1> DEFINE S == Unchanged(step.decision)
           new == OverviewRow(step.decision, S)
<1>1. /\ enabled[u_] /\ created < MaxRows /\ step.decision \in Decision
      /\ Cardinality(S) >= 2 /\ created' = created + 1
      /\ \/ rows' = [rows EXCEPT ![created + 1] = new]
         \/ \E i \in Overviews : rows' = [rows EXCEPT ![i].status = "consolidated",
                                                     ![created + 1] = new]
  BY Consolidated
<1>2. u_ \in Users /\ g_ \in Places
  BY JobTypes, TypeParts DEF Apply, At
<1>3. S \in SUBSET Ids
  BY <1>1 DEF Unchanged, Decision
<1>4. new \in Row /\ new.owner = u_ /\ new.embedding = NoText /\ new.kind = "summary"
      /\ new.sources = S /\ new.status = "active"
  BY <1>1, <1>2, <1>3, OverviewFields
<1>5. created + 1 \in Ids /\ rows \in [Ids -> Row]
  BY <1>1, BoundTypes DEF TypeOK
<1>6. \A i \in Overviews : i \in Ids /\ Active(rows, i)
  BY DEF Overviews
<1>7. \A i \in Overviews : [rows[i] EXCEPT !.status = "consolidated"] \in Row
  BY <1>5, <1>6 DEF Row, Statuses
<1> HIDE DEF new, S
<1>8. CASE rows' = [rows EXCEPT ![created + 1] = new]
  BY <1>1, <1>2, <1>4, <1>5, <1>8 DEF new, S
<1>9. CASE \E i \in Overviews : rows' = [rows EXCEPT ![i].status = "consolidated",
                                                    ![created + 1] = new]
  <2>1. PICK i \in Overviews : rows' = [rows EXCEPT ![i].status = "consolidated",
                                                   ![created + 1] = new]
    BY <1>9
  <2>2. i \in Ids /\ [rows[i] EXCEPT !.status = "consolidated"] \in Row
    BY <1>6, <1>7
  <2>3. rows' \in [Ids -> Row] /\ rows'[created + 1] = new
        /\ \A j \in Ids \ {created + 1} :
             rows'[j] = IF j = i THEN [rows[j] EXCEPT !.status = "consolidated"] ELSE rows[j]
    BY <1>4, <1>5, <2>1, <2>2
  <2> QED
    BY <1>1, <1>2, <1>4, <1>5, <2>3 DEF new, S
<1> QED
  BY <1>1, <1>8, <1>9

\* The commands and the maintenance keep the words of every row, and its owner, its guild,
\* its embedding and its sources.
SameWords(r, q) ==
  /\ q.summary = r.summary /\ q.owner = r.owner /\ q.guild = r.guild
  /\ q.embedding = r.embedding

LEMMA CommandRows ==
  ASSUME TypeOK, \/ \E i \in Ids : Forget(i)
                 \/ \E i \in Ids, v \in Audiences, g \in Guilds : SetVisibility(i, v, g)
                 \/ Maintenance
  PROVE  /\ rows' \in [Ids -> Row] /\ UNCHANGED created
         /\ \A j \in Ids : SameWords(rows[j], rows'[j]) /\ (Present(rows', j) => Present(rows, j))
<1> USE DEF SameWords
<1>1. rows \in [Ids -> Row]
  BY DEF TypeOK
<1>2. ASSUME NEW i \in Ids, Forget(i)
      PROVE  /\ rows' \in [Ids -> Row] /\ UNCHANGED created
             /\ \A j \in Ids : SameWords(rows[j], rows'[j]) /\ (Present(rows', j) => Present(rows, j))
  <2>1. rows' = [rows EXCEPT ![i].status = "none"] /\ UNCHANGED created /\ Present(rows, i)
    BY <1>2 DEF Forget
  <2>2. LET q == [rows[i] EXCEPT !.status = "none"]
        IN  q \in Row /\ SameWords(rows[i], q)
    BY <1>1 DEF Row, Statuses
  <2> QED
    BY <1>1, <2>1, <2>2 DEF Present
<1>3. ASSUME NEW i \in Ids, NEW v \in Audiences, NEW g \in Guilds, SetVisibility(i, v, g)
      PROVE  /\ rows' \in [Ids -> Row] /\ UNCHANGED created
             /\ \A j \in Ids : SameWords(rows[j], rows'[j]) /\ (Present(rows', j) => Present(rows, j))
  <2> DEFINE kind == IF v = "lore" THEN "lore" ELSE rows[i].kind
             q == [rows[i] EXCEPT !.visibility = v, !.kind = kind]
  <2>1. UNCHANGED created /\ rows' = [rows EXCEPT ![i].visibility = v, ![i].kind = kind]
    BY <1>3 DEF SetVisibility
  <2>2. q \in Row /\ SameWords(rows[i], q) /\ q.status = rows[i].status
    <3>1. rows[i] \in Row /\ kind \in Kinds
      BY <1>1 DEF Row, Kinds
    <3> HIDE DEF kind
    <3> QED
      BY <3>1 DEF Row
  <2>3. rows' \in [Ids -> Row] /\ rows'[i] = q /\ \A j \in Ids \ {i} : rows'[j] = rows[j]
    BY <1>1, <2>1, <2>2
  <2> HIDE DEF q
  <2> QED
    BY <2>1, <2>2, <2>3 DEF Present
<1>4. ASSUME NEW old \in SUBSET Ids, Maintain(old)
      PROVE  /\ rows' \in [Ids -> Row] /\ UNCHANGED created
             /\ \A j \in Ids : SameWords(rows[j], rows'[j]) /\ (Present(rows', j) => Present(rows, j))
  <2>1. UNCHANGED created
        /\ rows' = [i \in Ids |-> IF i \in old THEN [rows[i] EXCEPT !.status = "none"] ELSE rows[i]]
    BY <1>4 DEF Maintain
  <2>2. \A i \in Ids : LET q == [rows[i] EXCEPT !.status = "none"]
                       IN  q \in Row /\ SameWords(rows[i], q) /\ q.status = "none"
    BY <1>1 DEF Row, Statuses
  <2> QED
    BY <1>1, <2>1, <2>2 DEF Present
<1> QED
  BY <1>2, <1>3, <1>4 DEF Maintenance

\* An embedding is attached to the words its row still has.
LEMMA Attached ==
  ASSUME TypeOK, StepInv, Attach
  PROVE  /\ rows' \in [Ids -> Row] /\ UNCHANGED created
         /\ \A i \in Ids :
              \/ rows'[i] = rows[i]
              \/ /\ enabled[u_] /\ rows[i].owner = u_
                 /\ rows'[i] = [rows[i] EXCEPT !.embedding = rows[i].summary]
<1> DEFINE done == Head(step.targets)
<1>1. rows \in [Ids -> Row]
  BY DEF TypeOK
<1>2. done \in Target /\ rows[done.id].summary = done.summary
  BY DEF StepInv, Attach, At
<1>3. done.id \in Ids
  BY <1>2 DEF Target
<1>4. UNCHANGED created
      /\ rows' = IF MayAttach(done) THEN [rows EXCEPT ![done.id].embedding = done.summary] ELSE rows
  BY DEF Attach
<1>5. [rows[done.id] EXCEPT !.embedding = rows[done.id].summary] \in Row
  BY <1>1, <1>3 DEF Row
<1>6. MayAttach(done) => enabled[u_] /\ rows[done.id].owner = u_
  BY DEF MayAttach
<1> HIDE DEF done
<1> QED
  BY <1>1, <1>2, <1>3, <1>4, <1>5, <1>6

\* The fields of a step that is taken.
LEMMA StepTaken ==
  ASSUME NEW a, NEW c, NEW t, NEW pl, NEW d, step' = Step(a, c, t, pl, d)
  PROVE  /\ step'.at = a /\ step'.cands = c /\ step'.targets = t /\ step'.plan = pl
         /\ step'.decision = d
         /\ step' = Step(step'.at, step'.cands, step'.targets, step'.plan, step'.decision)
  BY DEF Step

LEMMA StepStays ==
  ASSUME TypeOK, StepInv, Fresh(rows, created), Next
  PROVE  StepInv'
<1>1. CASE (\E job \in Jobs : Schedule(job)) \/ \E u \in Users : CooldownEnds(u)
  BY <1>1, ReadingsStay DEF Schedule, CooldownEnds, store
<1>2. CASE Begin \/ End \/ Close \/ Reboot \/ JobFails
  BY <1>2, BareIsRead DEF Begin, End, Close, Reboot, JobFails
<1>3. CASE \E u \in Users, value \in BOOLEAN : SetEnabled(u, value)
  BY <1>3, ReadingsStay DEF SetEnabled, Command
<1>4. CASE \/ \E i \in Ids : Forget(i)
           \/ \E i \in Ids, v \in Audiences, g \in Guilds : SetVisibility(i, v, g)
           \/ Maintenance
  BY <1>4, ReadingsStay, CommandRows, CommandsKeepWorker DEF SameWords
<1>5. CASE JobStep
  <2>1. CASE CheckOptIn
    BY <2>1, BareIsRead DEF CheckOptIn
  <2>2. ASSUME NEW cands \in Extractions, Extract(cands) PROVE StepInv'
    <3>1. cands \in Seq(Candidates) /\ created + Len(cands) <= MaxRows
          /\ step' = Step("store", cands, <<>>, <<>>, NoDecision) /\ UNCHANGED created
      BY <2>2, ExtractionAssumption DEF Extract, Unwritten, store
    <3> QED
      BY <3>1, StepFields DEF StepInv
  <2>3. CASE StoreCandidates
    <3>1. PICK o : /\ GrownTo(o, u_, Len(step.cands))
                   /\ step' = AfterTarget(o.targets) \/ step' = Bare("done")
      BY <2>3, StoredAreGrown
    <3> QED
      BY <3>1, BareIsRead, TailIsRead DEF GrownTo
  <2>4. CASE CheckTarget
    <3>1. step.targets \in Seq(Target) /\ step.targets # <<>> /\ UNCHANGED <<rows, created>>
      BY <2>4 DEF CheckTarget, At, StepInv, Unwritten, store
    <3>2. CASE TargetIsCurrent(Head(step.targets))
      <4>1. step' = [step EXCEPT !.at = "embed"]
        BY <2>4, <3>2 DEF CheckTarget
      <4>2. step' = Step("embed", step.cands, step.targets, step.plan, step.decision)
        BY <4>1 DEF StepInv, Step
      <4>3. rows[Head(step.targets).id].summary = Head(step.targets).summary
        BY <3>2 DEF TargetIsCurrent
      <4>4. /\ step'.at = "embed" /\ step'.targets = step.targets
            /\ step' = Step(step'.at, step'.cands, step'.targets, step'.plan, step'.decision)
        BY <4>2, StepTaken
      <4> QED
        BY <3>1, <4>3, <4>4 DEF StepInv
    <3>3. CASE ~ TargetIsCurrent(Head(step.targets))
      <4>1. Tail(step.targets) \in Seq(Target) /\ step' = AfterTarget(Tail(step.targets))
        BY <2>4, <3>1, <3>3 DEF CheckTarget
      <4> QED
        BY <4>1, TailIsRead
    <3> QED
      BY <3>2, <3>3
  <2>5. CASE Embed
    <3>1. step' = Step("attach", step.cands, step.targets, step.plan, step.decision)
      BY <2>5 DEF Embed, StepInv, Step
    <3>2. step.at = "embed" /\ UNCHANGED <<rows, created>>
      BY <2>5 DEF Embed, At, Unwritten, store
    <3> QED
      BY <3>1, <3>2, StepFields DEF StepInv
  <2>6. CASE EmbedFails \/ Attach
    <3>1. Tail(step.targets) \in Seq(Target) /\ step' = AfterTarget(Tail(step.targets))
      BY <2>6 DEF EmbedFails, Attach, At, StepInv
    <3> QED
      BY <3>1, TailIsRead
  <2>7. CASE PlanConsolidation
    <3> DEFINE facts == {i \in Ids : PrivateFact(rows, u_, i)}
               plan  == [i \in facts |-> [predicate |-> rows[i].predicate, summary |-> rows[i].summary]]
    <3>1. step' = Step("decide", <<>>, <<>>, plan, NoDecision) \/ step' = Bare("rebuild")
      BY <2>7 DEF PlanConsolidation
    <3>2. DOMAIN plan \subseteq Ids
      OBVIOUS
    <3> HIDE DEF plan
    <3> QED
      BY <3>1, <3>2, BareIsRead, StepFields DEF StepInv
  <2>8. CASE Decide
    <3>1. step.at = "decide" /\ step.decision = NoDecision /\ DOMAIN step.plan \subseteq Ids
          /\ UNCHANGED created
      BY <2>8 DEF Decide, At, StepInv, Unwritten, store
    <3>2. CASE step' = Bare("rebuild")
      BY <3>2, BareIsRead
    <3>3. CASE step' = [step EXCEPT !.at = "apply"]
      <4>1. step' = Step("apply", step.cands, step.targets, step.plan, NoDecision)
        BY <3>1, <3>3 DEF StepInv, Step
      <4> QED
        BY <4>1, StepFields DEF StepInv
    <3>4. CASE created < MaxRows /\ \E d \in Decisions : step' = [step EXCEPT !.at = "apply", !.decision = d]
      <4>1. PICK d \in Decisions : step' = [step EXCEPT !.at = "apply", !.decision = d]
        BY <3>4
      <4>2. step' = Step("apply", step.cands, step.targets, step.plan, d)
        BY <4>1 DEF StepInv, Step
      <4>3. d \in Decision
        BY <3>1 DEF Decisions, Decision
      <4>4. /\ step'.at = "apply" /\ step'.decision = d
            /\ step' = Step(step'.at, step'.cands, step'.targets, step'.plan, step'.decision)
        BY <4>2, StepTaken
      <4> QED
        BY <3>1, <3>4, <4>3, <4>4 DEF StepInv
    <3> QED
      BY <2>8, <3>2, <3>3, <3>4 DEF Decide
  <2>9. CASE Apply \/ Rebuild
    BY <2>9, BareIsRead DEF Apply, Rebuild
  <2> QED
    BY <1>5, <2>1, <2>2, <2>3, <2>4, <2>5, <2>6, <2>7, <2>8, <2>9 DEF JobStep
<1> QED
  BY <1>1, <1>2, <1>3, <1>4, <1>5 DEF Next

(***************************************************************************)
(* The table and the snapshots.                                            *)
(***************************************************************************)

\* What a step may do to the table: rows keep their owner and guild, and new rows take
\* new ids.
LEMMA RowsStay ==
  ASSUME TypeOK, StepInv, Fresh(rows, created), Next
  PROVE  /\ rows' \in [Ids -> Row] /\ created' \in 0 .. MaxRows /\ created <= created'
         /\ Fresh(rows', created')
<1>1. rows \in [Ids -> Row] /\ created \in Nat /\ created \in 0 .. MaxRows /\ MaxRows \in Nat
  BY BoundTypes DEF TypeOK
<1>2. CASE UNCHANGED <<rows, created>>
  BY <1>1, <1>2 DEF Fresh, Present
<1>3. CASE StoreCandidates
  <2>1. PICK o : /\ GrownTo(o, u_, Len(step.cands)) /\ rows' = o.rows /\ created' = o.created
                 /\ created + Len(step.cands) <= MaxRows /\ Len(step.cands) \in Nat
    BY <1>3, StoredAreGrown
  <2> QED
    BY <1>1, <2>1 DEF GrownTo, GrownRows
<1>4. CASE Attach
  <2>1. \A i \in Ids : Present(rows', i) => Present(rows, i)
    <3> SUFFICES ASSUME NEW i \in Ids, Present(rows', i) PROVE Present(rows, i)
      OBVIOUS
    <3>1. rows[i] \in Row
      BY <1>1
    <3>2. rows'[i] = rows[i] \/ rows'[i] = [rows[i] EXCEPT !.embedding = rows[i].summary]
      BY <1>4, Attached
    <3> QED
      BY <3>1, <3>2 DEF Present, Row
  <2> QED
    BY <1>1, <1>4, <2>1, Attached DEF Fresh
<1>5. CASE Apply /\ ~ UNCHANGED <<rows, created>>
  <2>1. /\ created' = created + 1 /\ created + 1 \in Ids /\ rows' \in [Ids -> Row]
        /\ \A j \in Ids \ {created + 1} : rows'[j] = rows[j] \/ j \in Overviews
    BY <1>5, ConsolidatedRows
  <2>2. \A j \in Overviews : Present(rows, j)
    BY DEF Overviews, Active, Present
  <2>3. ASSUME NEW j \in Ids, Present(rows', j) PROVE j <= created + 1
    <3>1. j = created + 1 \/ Present(rows, j)
      BY <2>1, <2>2, <2>3 DEF Present
    <3> QED
      BY <1>1, <2>3, <3>1, BoundTypes DEF Fresh
  <2> QED
    BY <1>1, <2>1, <2>3, BoundTypes DEF Fresh
<1>6. CASE \/ \E i \in Ids : Forget(i)
           \/ \E i \in Ids, v \in Audiences, g \in Guilds : SetVisibility(i, v, g)
           \/ Maintenance
  BY <1>1, <1>6, CommandRows DEF Fresh
<1> QED
  BY <1>2, <1>3, <1>4, <1>5, <1>6
     DEF Next, JobStep, Schedule, Begin, End, JobFails, SetEnabled, CooldownEnds, Close, Reboot,
         CheckOptIn, Extract, CheckTarget, Embed, EmbedFails, PlanConsolidation, Decide, Rebuild,
         Unwritten, store

LEMMA ScopeTypes ==
  ASSUME NEW s \in Scopes
  PROVE  \/ /\ s.type = "user" /\ s.user \in Users /\ s.guild \in Places
            /\ s = UserScope(s.user, s.guild)
         \/ /\ s.type # "user" /\ s.guild \in Guilds /\ s.guild # DM /\ s = GuildScope(s.guild)
  BY GuildAssumption DEF Scopes, UserScopes, GuildScopes, UserScope, GuildScope

\* A snapshot that is built shows only rows of its scope.
LEMMA BuiltIsRight ==
  ASSUME NEW rs, NEW on, NEW n, Fresh(rs, n), NEW s
  PROVE  Build(rs, on, s) \in SUBSET Ids /\ RightIn(rs, on, n, s, Build(rs, on, s))
<1>1. Build(rs, on, s) \subseteq InScope(rs, on, s)
  BY DEF Build, Eligible
<1>2. \A i \in InScope(rs, on, s) : i \in Ids /\ i <= n /\ Rightful(rs, on, s, i)
  BY DEF InScope, Rightful, Fresh, Present, Active
<1> QED
  BY <1>1, <1>2 DEF RightIn

\* A snapshot that is not built again shows rows that are where they were.
LEMMA KeptIsRight ==
  ASSUME NEW rs, NEW qs, NEW on, NEW n \in Nat, NEW m \in Nat, n <= m, NEW s, NEW S,
         RightIn(rs, on, n, s, S),
         \A i \in S : /\ qs[i].owner = rs[i].owner /\ qs[i].guild = rs[i].guild
                      /\ qs[i].visibility = rs[i].visibility
                      /\ s.type # "user" => (Present(rs, i) => Present(qs, i))
  PROVE  RightIn(qs, on, m, s, S)
<1> SUFFICES ASSUME NEW i \in S PROVE i \in Ids /\ i <= m /\ Rightful(qs, on, s, i)
  BY DEF RightIn
<1>1. i \in Ids /\ i <= n /\ Rightful(rs, on, s, i)
  BY DEF RightIn
<1>2. i <= m
  BY <1>1, BoundTypes
<1> QED
  BY <1>1, <1>2 DEF Rightful

\* rebuild_memory_snapshots leaves only the scopes of others and of other guilds as they are.
LEMMA RebuiltFor ==
  ASSUME NEW rs, NEW on, NEW snap \in [Scopes -> SUBSET Ids], NEW u \in Users, NEW g \in Places
  PROVE  LET new == RebuildFor(rs, on, snap, u, g)
         IN  /\ new \in [Scopes -> SUBSET Ids]
             /\ \A s \in Scopes : \/ new[s] = Build(rs, on, s)
                                  \/ new[s] = {}
                                  \/ /\ new[s] = snap[s] /\ s # UserScope(u, g)
                                     /\ g # DM => s # GuildScope(g)
<1> DEFINE shared == IF g = DM THEN {} ELSE {GuildScope(g)}
           new == RebuildFor(rs, on, snap, u, g)
<1>1. \A s \in Scopes : Build(rs, on, s) \in SUBSET Ids
  BY DEF Build, Eligible, InScope
<1>2. g # DM => GuildScope(g) \in shared
  OBVIOUS
<1> HIDE DEF shared
<1>3. CASE on[u]
  <2>1. new = [s \in Scopes |-> IF s \in {UserScope(u, g)} \cup shared
                                THEN Build(rs, on, s) ELSE snap[s]]
    BY <1>3 DEF RebuildFor, Rebuilt, shared
  <2> HIDE DEF new
  <2> QED
    BY <1>1, <1>2, <2>1 DEF new
<1>4. CASE ~ on[u]
  <2>1. new = [s \in Scopes |-> IF s \in shared THEN Build(rs, on, s) ELSE Erased(snap, u)[s]]
    BY <1>4 DEF RebuildFor, Rebuilt, shared
  <2>2. \A s \in Scopes :
          Erased(snap, u)[s] = IF s.type = "user" /\ s.user = u THEN {} ELSE snap[s]
    BY DEF Erased
  <2>3. UserScope(u, g).type = "user" /\ UserScope(u, g).user = u
    BY DEF UserScope
  <2> HIDE DEF new
  <2>4. \A s \in Scopes : new[s] = IF s \in shared THEN Build(rs, on, s)
                                   ELSE IF s.type = "user" /\ s.user = u THEN {} ELSE snap[s]
    BY <2>1, <2>2
  <2>5. new \in [Scopes -> SUBSET Ids]
    <3>1. new = [s \in Scopes |-> new[s]]
      BY <2>1
    <3>2. \A s \in Scopes : new[s] \in SUBSET Ids
      BY <1>1, <2>4
    <3> QED
      BY <3>1, <3>2
  <2> QED
    BY <1>2, <2>3, <2>4, <2>5 DEF new
<1> QED
  BY <1>3, <1>4

\* One row changes, and the scopes of its owner and guild are built again.
LEMMA RebuiltAfterChange ==
  ASSUME TypeOK, SnapshotInv, NEW i \in Ids, NEW qs, Fresh(qs, created),
         snapshot' = RebuildFor(qs, enabled, snapshot, rows[i].owner, rows[i].guild),
         \A j \in Ids \ {i} : qs[j] = rows[j],
         qs[i].owner = rows[i].owner, qs[i].guild = rows[i].guild,
         qs[i].visibility = rows[i].visibility
           \/ rows[i].guild # DM \/ qs[i].visibility = "private"
  PROVE  /\ snapshot' \in [Scopes -> SUBSET Ids]
         /\ \A s \in Scopes : RightIn(qs, enabled, created, s, snapshot'[s])
<1>1. rows[i] \in Row /\ snapshot \in [Scopes -> SUBSET Ids] /\ created \in Nat
  BY BoundTypes DEF TypeOK
<1>2. rows[i].owner \in Users /\ rows[i].guild \in Places
  BY <1>1 DEF Row
<1>3. /\ snapshot' \in [Scopes -> SUBSET Ids]
      /\ \A s \in Scopes : \/ snapshot'[s] = Build(qs, enabled, s)
                           \/ snapshot'[s] = {}
                           \/ /\ snapshot'[s] = snapshot[s]
                              /\ s # UserScope(rows[i].owner, rows[i].guild)
                              /\ rows[i].guild # DM => s # GuildScope(rows[i].guild)
  BY <1>1, <1>2, RebuiltFor
<1>4. ASSUME NEW s \in Scopes, snapshot'[s] = snapshot[s],
             s # UserScope(rows[i].owner, rows[i].guild),
             rows[i].guild # DM => s # GuildScope(rows[i].guild)
      PROVE  RightIn(qs, enabled, created, s, snapshot[s])
  <2>1. RightIn(rows, enabled, created, s, snapshot[s])
    BY DEF SnapshotInv
  <2>2. ASSUME NEW j \in snapshot[s]
        PROVE  /\ qs[j].owner = rows[j].owner /\ qs[j].guild = rows[j].guild
               /\ qs[j].visibility = rows[j].visibility
               /\ s.type # "user" => (Present(rows, j) => Present(qs, j))
    <3>1. j \in Ids /\ Rightful(rows, enabled, s, j)
      BY <2>1 DEF RightIn
    <3>2. CASE j # i
      BY <3>1, <3>2 DEF Present
    <3>3. CASE j = i
      <4>1. CASE s.type = "user"
        <5>1. rows[i].owner = s.user /\ rows[i].guild \in {DM, s.guild}
              /\ rows[i].visibility = "private" /\ s = UserScope(s.user, s.guild)
          BY <3>1, <3>3, <4>1, ScopeTypes DEF Rightful
        <5>2. rows[i].guild = DM
          BY <1>4, <5>1
        <5> QED
          BY <3>3, <4>1, <5>1, <5>2
      <4>2. CASE s.type # "user"
        <5>1. rows[i].guild = s.guild /\ s.guild # DM /\ s = GuildScope(s.guild)
          BY <3>1, <3>3, <4>2, ScopeTypes DEF Rightful
        <5> QED
          BY <1>4, <5>1
      <4> QED
        BY <4>1, <4>2
    <3> QED
      BY <3>2, <3>3
  <2> QED
    BY <1>1, <2>1, <2>2, KeptIsRight
<1>5. ASSUME NEW s \in Scopes PROVE RightIn(qs, enabled, created, s, snapshot'[s])
  <2>1. CASE snapshot'[s] = Build(qs, enabled, s)
    BY <2>1, BuiltIsRight
  <2>2. CASE snapshot'[s] = {}
    BY <2>2 DEF RightIn
  <2>3. CASE /\ snapshot'[s] = snapshot[s]
             /\ s # UserScope(rows[i].owner, rows[i].guild)
             /\ rows[i].guild # DM => s # GuildScope(rows[i].guild)
    BY <2>3, <1>4
  <2> QED
    BY <1>3, <2>1, <2>2, <2>3
<1> QED
  BY <1>3, <1>5

\* set_enabled: the guilds in which the user has rows are built again.
LEMMA EnabledIsRight ==
  ASSUME TypeOK, SnapshotInv, Fresh(rows, created),
         NEW u \in Users, NEW value \in BOOLEAN, SetEnabled(u, value)
  PROVE  /\ snapshot' \in [Scopes -> SUBSET Ids] /\ enabled' \in [Users -> BOOLEAN]
         /\ \A s \in Scopes : RightIn(rows, enabled', created, s, snapshot'[s])
<1> DEFINE on     == [enabled EXCEPT ![u] = value]
           own    == IF value THEN {UserScope(u, g) : g \in GuildsOf(u) \cup {DM}} ELSE {}
           shared == {GuildScope(g) : g \in GuildsOf(u)}
<1>1. /\ enabled' = on
      /\ snapshot' = [s \in Scopes |-> IF s \in own \cup shared THEN Build(rows, on, s)
                                       ELSE Erased(snapshot, u)[s]]
  BY DEF SetEnabled, Rebuilt
<1>2. \A s \in Scopes :
        Erased(snapshot, u)[s] = IF s.type = "user" /\ s.user = u THEN {} ELSE snapshot[s]
  BY DEF Erased
<1>3. snapshot \in [Scopes -> SUBSET Ids] /\ created \in Nat /\ enabled \in [Users -> BOOLEAN]
      /\ rows \in [Ids -> Row]
  BY BoundTypes DEF TypeOK
<1>4. on \in [Users -> BOOLEAN] /\ \A v \in Users : v # u => on[v] = enabled[v]
  BY <1>3
<1> HIDE DEF own, on
<1>5. ASSUME NEW s \in Scopes
      PROVE  snapshot'[s] \in SUBSET Ids /\ RightIn(rows, on, created, s, snapshot'[s])
  <2>1. CASE s \in own \cup shared
    BY <1>1, <2>1, BuiltIsRight
  <2>2. CASE s \notin own \cup shared
    <3>1. CASE s.type = "user" /\ s.user = u
      BY <1>1, <1>2, <2>2, <3>1 DEF RightIn
    <3>2. CASE ~ (s.type = "user" /\ s.user = u)
      <4>1. snapshot'[s] = snapshot[s] /\ RightIn(rows, enabled, created, s, snapshot[s])
        BY <1>1, <1>2, <2>2, <3>2 DEF SnapshotInv
      <4>2. ASSUME NEW i \in snapshot[s] PROVE Rightful(rows, on, s, i)
        <5>1. i \in Ids /\ Rightful(rows, enabled, s, i)
          BY <4>1 DEF RightIn
        <5>2. CASE s.type = "user"
          BY <5>1, <5>2 DEF Rightful
        <5>3. CASE s.type # "user"
          <6>1. /\ enabled[rows[i].owner] /\ rows[i].guild = s.guild /\ Present(rows, i)
                /\ s.guild # DM /\ s = GuildScope(s.guild)
            BY <5>1, <5>3, ScopeTypes DEF Rightful
          <6>2. rows[i].owner # u
            <7>1. SUFFICES ASSUME rows[i].owner = u PROVE FALSE
              OBVIOUS
            <7>2. rows[i].guild \in GuildsOf(u)
              BY <5>1, <6>1, <7>1 DEF GuildsOf
            <7> QED
              BY <2>2, <6>1, <7>2
          <6>3. rows[i].owner \in Users
            BY <1>3, <5>1 DEF Row
          <6>4. on[rows[i].owner]
            BY <1>4, <6>1, <6>2, <6>3
          <6> QED
            BY <5>1, <5>3, <6>4 DEF Rightful
        <5> QED
          BY <5>2, <5>3
      <4> QED
        BY <1>3, <4>1, <4>2 DEF RightIn
    <3> QED
      BY <3>1, <3>2
  <2> QED
    BY <2>1, <2>2
<1>6. snapshot' \in [Scopes -> SUBSET Ids]
  <2>1. snapshot' = [s \in Scopes |-> snapshot'[s]]
    BY <1>1
  <2> QED
    BY <1>5, <2>1
<1> QED
  BY <1>1, <1>4, <1>5, <1>6

\* refresh_all_memory_snapshots: a scope that is not built again has no snapshot.
LEMMA RefreshedIsRight ==
  ASSUME NEW qs, NEW on, NEW n, Fresh(qs, n), NEW snap \in [Scopes -> SUBSET Ids]
  PROVE  /\ RefreshAll(qs, on, snap) \in [Scopes -> SUBSET Ids]
         /\ \A s \in Scopes : RightIn(qs, on, n, s, RefreshAll(qs, on, snap)[s])
<1> DEFINE new == RefreshAll(qs, on, snap)
<1>1. new = [s \in Scopes |-> new[s]]
  BY DEF RefreshAll
<1>2. \A s \in Scopes : new[s] = {} \/ new[s] = Build(qs, on, s)
  BY DEF RefreshAll, IsRefreshed
<1> HIDE DEF new
<1>3. ASSUME NEW s \in Scopes PROVE new[s] \in SUBSET Ids /\ RightIn(qs, on, n, s, new[s])
  <2>1. CASE new[s] = {}
    BY <2>1 DEF RightIn
  <2>2. CASE new[s] = Build(qs, on, s)
    BY <2>2, BuiltIsRight
  <2> QED
    BY <1>2, <2>1, <2>2
<1>4. new \in [Scopes -> SUBSET Ids]
  BY <1>1, <1>3
<1> QED
  BY <1>3, <1>4 DEF new

\* Steps that change no snapshot and nobody's opt-in: what the rows belong to is as it was.
LEMMA ShownStays ==
  ASSUME SnapshotInv, created \in Nat, created' \in Nat, created <= created',
         UNCHANGED <<enabled, snapshot>>,
         \A i \in Ids : i <= created =>
           /\ rows'[i].owner = rows[i].owner /\ rows'[i].guild = rows[i].guild
           /\ rows'[i].visibility = rows[i].visibility
           /\ Present(rows, i) => Present(rows', i)
  PROVE  SnapshotInv'
<1> SUFFICES ASSUME NEW s \in Scopes
             PROVE  RightIn(rows', enabled, created', s, snapshot[s])
  BY DEF SnapshotInv, RightIn, Rightful, Present
<1>1. RightIn(rows, enabled, created, s, snapshot[s])
  BY DEF SnapshotInv
<1>2. \A i \in snapshot[s] : i \in Ids /\ i <= created
  BY <1>1 DEF RightIn
<1> QED
  BY <1>1, <1>2, KeptIsRight

\* From the lemmas on single snapshots to the invariant.
LEMMA RightIsShown ==
  (\A s \in Scopes : RightIn(rows', enabled', created', s, snapshot'[s])) => SnapshotInv'
  BY DEF SnapshotInv, RightIn, Rightful, Present

LEMMA SnapshotStays ==
  ASSUME TypeOK, StepInv, Fresh(rows, created), SnapshotInv, Next
  PROVE  /\ SnapshotInv'
         /\ snapshot' \in [Scopes -> SUBSET Ids] /\ enabled' \in [Users -> BOOLEAN]
<1>1. /\ rows \in [Ids -> Row] /\ created \in Nat /\ created' \in Nat /\ created <= created'
      /\ Fresh(rows', created') /\ snapshot \in [Scopes -> SUBSET Ids]
      /\ enabled \in [Users -> BOOLEAN]
  BY RowsStay, BoundTypes DEF TypeOK
<1>2. CASE UNCHANGED <<enabled, rows, created, snapshot>>
  BY <1>1, <1>2, ShownStays DEF Present
<1>3. CASE StoreCandidates
  <2>1. PICK o : /\ GrownTo(o, u_, Len(step.cands)) /\ rows' = o.rows
    BY <1>3, StoredAreGrown
  <2>2. \A i \in Ids : Grown(rows', o.created, u_, i)
    BY <2>1 DEF GrownTo, GrownRows
  <2>3. UNCHANGED <<enabled, snapshot>>
    BY <1>3 DEF StoreCandidates
  <2> QED
    BY <1>1, <2>2, <2>3, ShownStays DEF Grown
<1>4. CASE Attach
  <2>1. UNCHANGED <<enabled, snapshot>>
    BY <1>4 DEF Attach
  <2>2. ASSUME NEW i \in Ids
        PROVE  /\ rows'[i].owner = rows[i].owner /\ rows'[i].guild = rows[i].guild
               /\ rows'[i].visibility = rows[i].visibility
               /\ Present(rows, i) => Present(rows', i)
    <3>1. rows[i] \in Row
      BY <1>1
    <3>2. rows'[i] = rows[i] \/ rows'[i] = [rows[i] EXCEPT !.embedding = rows[i].summary]
      BY <1>4, Attached
    <3> QED
      BY <3>1, <3>2 DEF Present, Row
  <2> QED
    BY <1>1, <2>1, <2>2, ShownStays
<1>5. CASE Apply /\ ~ UNCHANGED <<rows, created>>
  <2>1. UNCHANGED <<enabled, snapshot>>
    BY <1>5 DEF Apply
  <2>2. \A j \in Ids \ {created + 1} :
          rows'[j] = rows[j] \/ rows'[j] = [rows[j] EXCEPT !.status = "consolidated"]
    BY <1>5, ConsolidatedRows
  <2>3. ASSUME NEW i \in Ids, i <= created
        PROVE  /\ rows'[i].owner = rows[i].owner /\ rows'[i].guild = rows[i].guild
               /\ rows'[i].visibility = rows[i].visibility
               /\ Present(rows, i) => Present(rows', i)
    <3>1. rows[i] \in Row /\ i # created + 1
      BY <1>1, <2>3, BoundTypes
    <3>2. rows'[i] = rows[i] \/ rows'[i] = [rows[i] EXCEPT !.status = "consolidated"]
      BY <2>2, <3>1
    <3> QED
      BY <3>1, <3>2 DEF Present, Row
  <2> QED
    BY <1>1, <2>1, <2>3, ShownStays
<1>6. CASE Rebuild
  <2>1. /\ snapshot' = RebuildFor(rows, enabled, snapshot, u_, g_)
        /\ UNCHANGED <<enabled, rows, created>>
    BY <1>6 DEF Rebuild
  <2>2. u_ \in Users /\ g_ \in Places
    BY <1>6, JobTypes, TypeParts DEF Rebuild, At
  <2> HIDE DEF u_, g_
  <2>3. /\ snapshot' \in [Scopes -> SUBSET Ids]
        /\ \A s \in Scopes : \/ snapshot'[s] = Build(rows, enabled, s)
                             \/ snapshot'[s] = {}
                             \/ snapshot'[s] = snapshot[s]
    BY <1>1, <2>1, <2>2, RebuiltFor
  <2>4. ASSUME NEW s \in Scopes PROVE RightIn(rows', enabled', created', s, snapshot'[s])
    <3>1. CASE snapshot'[s] = Build(rows, enabled, s)
      BY <2>1, <3>1, BuiltIsRight
    <3>2. CASE snapshot'[s] = {}
      BY <3>2 DEF RightIn
    <3>3. CASE snapshot'[s] = snapshot[s]
      BY <2>1, <3>3 DEF SnapshotInv
    <3> QED
      BY <2>3, <3>1, <3>2, <3>3
  <2> QED
    BY <1>1, <2>1, <2>3, <2>4, RightIsShown
<1>7. ASSUME NEW u \in Users, NEW value \in BOOLEAN, SetEnabled(u, value)
      PROVE  /\ SnapshotInv'
             /\ snapshot' \in [Scopes -> SUBSET Ids] /\ enabled' \in [Users -> BOOLEAN]
  <2>1. UNCHANGED <<rows, created>>
    BY <1>7 DEF SetEnabled
  <2> QED
    BY <1>7, <2>1, EnabledIsRight, RightIsShown
<1>8. ASSUME NEW i \in Ids, Forget(i)
      PROVE  SnapshotInv' /\ snapshot' \in [Scopes -> SUBSET Ids] /\ UNCHANGED enabled
  <2>1. /\ rows' = [rows EXCEPT ![i].status = "none"] /\ UNCHANGED <<enabled, created>>
        /\ snapshot' = RebuildFor(rows', enabled, snapshot, rows[i].owner, rows[i].guild)
    BY <1>8 DEF Forget
  <2>2. LET q == [rows[i] EXCEPT !.status = "none"]
        IN  q.owner = rows[i].owner /\ q.guild = rows[i].guild
            /\ q.visibility = rows[i].visibility
    BY <1>1 DEF Row
  <2>3. /\ \A j \in Ids \ {i} : rows'[j] = rows[j]
        /\ rows'[i].owner = rows[i].owner /\ rows'[i].guild = rows[i].guild
        /\ rows'[i].visibility = rows[i].visibility
    BY <1>1, <2>1, <2>2
  <2>4. Fresh(rows', created)
    BY <1>1, <2>1
  <2> QED
    BY <2>1, <2>3, <2>4, RebuiltAfterChange, RightIsShown
<1>9. ASSUME NEW i \in Ids, NEW v \in Audiences, NEW g \in Guilds, SetVisibility(i, v, g)
      PROVE  SnapshotInv' /\ snapshot' \in [Scopes -> SUBSET Ids] /\ UNCHANGED enabled
  <2> DEFINE kind == IF v = "lore" THEN "lore" ELSE rows[i].kind
             q == [rows[i] EXCEPT !.visibility = v, !.kind = kind]
  <2>1. /\ rows' = [rows EXCEPT ![i].visibility = v, ![i].kind = kind]
        /\ UNCHANGED <<enabled, created>>
        /\ snapshot' = RebuildFor(rows', enabled, snapshot, rows[i].owner, rows[i].guild)
        /\ v # "private" => rows[i].guild # DM
    BY <1>9 DEF SetVisibility
  <2>2. q.owner = rows[i].owner /\ q.guild = rows[i].guild /\ q.visibility = v
    <3>1. rows[i] \in Row
      BY <1>1
    <3> HIDE DEF kind
    <3> QED
      BY <3>1 DEF Row
  <2>3. rows'[i] = q /\ \A j \in Ids \ {i} : rows'[j] = rows[j]
    BY <1>1, <2>1
  <2> HIDE DEF q
  <2>4. /\ rows'[i].owner = rows[i].owner /\ rows'[i].guild = rows[i].guild
        /\ rows[i].guild # DM \/ rows'[i].visibility = "private"
    BY <2>1, <2>2, <2>3
  <2>5. Fresh(rows', created)
    BY <1>1, <2>1
  <2> QED
    BY <2>1, <2>3, <2>4, <2>5, RebuiltAfterChange, RightIsShown
<1>10. CASE Maintenance
  <2>1. snapshot' = RefreshAll(rows', enabled, snapshot) /\ UNCHANGED <<enabled, created>>
    BY <1>10 DEF Maintenance, Maintain
  <2>2. Fresh(rows', created)
    BY <1>1, <2>1
  <2> QED
    BY <1>1, <2>1, <2>2, RefreshedIsRight, RightIsShown
<1> QED
  BY <1>1, <1>2, <1>3, <1>4, <1>5, <1>6, <1>7, <1>8, <1>9, <1>10
     DEF Next, JobStep, Schedule, Begin, End, JobFails, CooldownEnds, Close, Reboot,
         CheckOptIn, Extract, CheckTarget, Embed, EmbedFails, PlanConsolidation, Decide, Apply,
         Unwritten, store

(***************************************************************************)
(* The theorems.                                                           *)
(***************************************************************************)

LEMMA StartsRight == Init => MemoryInv
<1> SUFFICES ASSUME Init PROVE MemoryInv
  OBVIOUS
<1>1. NoRow \in Row /\ NoRow.status = "none"
  <2> DEFINE somebody == CHOOSE u \in Users : TRUE
             something == CHOOSE t \in Texts : TRUE
  <2>1. somebody \in Users /\ something \in Texts
    <3>1. \E u \in Users : TRUE
      BY PeopleAssumption
    <3>2. PICK v \in Values, w \in Wordings : TRUE
      BY PeopleAssumption
    <3>3. [value |-> v, wording |-> w] \in Texts
      BY DEF Texts
    <3> QED
      BY <3>1, <3>3
  <2>2. NoRow = [owner |-> somebody, guild |-> DM, visibility |-> "private", kind |-> "fact",
                 predicate |-> Overview, summary |-> something, status |-> "none",
                 embedding |-> NoText, sources |-> {}]
    BY DEF NoRow
  <2> HIDE DEF somebody, something
  <2> QED
    BY <2>1, <2>2 DEF Row, Places, Kinds, Keys, Audiences, Statuses
<1>2. StoreOK
  BY <1>1, BoundTypes DEF Init, StoreOK
<1>3. WorkerOK
  BY StepFields, WorkerAssumption
     DEF Init, WorkerInit, WorkerOK, WorkerTypeOK, InHand
<1>4. StepInv
  BY StepFields DEF Init, StepInv, Bare
<1>5. Fresh(rows, created)
  BY <1>1 DEF Init, Fresh, Present
<1>6. SnapshotInv
  BY DEF Init, SnapshotInv, RightIn
<1> QED
  BY <1>2, <1>3, <1>4, <1>5, <1>6, TypeParts DEF MemoryInv

LEMMA MemoryStays == MemoryInv /\ [Next]_vars => MemoryInv'
<1> SUFFICES ASSUME MemoryInv, [Next]_vars PROVE MemoryInv'
  OBVIOUS
<1>1. TypeOK /\ WorkerOK /\ StoreOK /\ StepInv /\ Fresh(rows, created) /\ SnapshotInv
  BY TypeParts DEF MemoryInv
<1>2. CASE Next
  <2>1. WorkerOK'
    BY <1>1, <1>2, WorkerStays
  <2>2. StepInv'
    BY <1>1, <1>2, StepStays
  <2>3. rows' \in [Ids -> Row] /\ created' \in 0 .. MaxRows /\ Fresh(rows', created')
    BY <1>1, <1>2, RowsStay
  <2>4. SnapshotInv' /\ snapshot' \in [Scopes -> SUBSET Ids] /\ enabled' \in [Users -> BOOLEAN]
    BY <1>1, <1>2, SnapshotStays
  <2>5. cooling' \in [Users -> BOOLEAN]
    <3>1. cooling \in [Users -> BOOLEAN]
      BY <1>1 DEF StoreOK
    <3>2. \/ UNCHANGED cooling
          \/ \E u \in Users : \/ cooling' = [cooling EXCEPT ![u] = TRUE]
                              \/ cooling' = [cooling EXCEPT ![u] = FALSE]
      <4>1. CASE Apply
        <5>1. u_ \in Users
          BY <1>1, <4>1, JobTypes DEF Apply, At
        <5> QED
          BY <4>1, <5>1 DEF Apply
      <4>2. CASE \E u \in Users : CooldownEnds(u)
        BY <4>2 DEF CooldownEnds
      <4> QED
        BY <1>2, <4>1, <4>2
           DEF Next, JobStep, Schedule, Begin, End, JobFails, Close, Reboot,
               CheckOptIn, Extract, StoreCandidates, CheckTarget, Embed, EmbedFails, Attach,
               PlanConsolidation, Decide, Rebuild, SetEnabled, Forget, SetVisibility,
               Maintenance, Maintain, Unwritten, store
    <3> QED
      BY <3>1, <3>2
  <2>6. StoreOK'
    BY <2>3, <2>4, <2>5 DEF StoreOK
  <2>7. TypeOK'
    BY <2>1, <2>6 DEF TypeOK, WorkerOK, StoreOK
  <2> QED
    BY <2>2, <2>3, <2>4, <2>7 DEF MemoryInv, Fresh, Present
<1>3. CASE UNCHANGED vars
  <2>1. UNCHANGED <<queue, holding, task, closing, unfinished, enabled, rows, created, snapshot,
                    cooling, step>>
    BY <1>3 DEF vars, worker, store
  <2> QED
    BY <1>1, <2>1
       DEF MemoryInv, TypeOK, WorkerTypeOK, InHand, StepInv, Fresh, Present, SnapshotInv, RightIn,
           Rightful
<1> QED
  BY <1>2, <1>3

\* The invariant on which everything below rests.
THEOREM MemoryIsKept == Spec => []MemoryInv
  BY StartsRight, MemoryStays, PTL DEF Spec

\* The memory writer runs beside the benchmarks and the quote pages as it does alone.
LEMMA BackgroundIsMemory == BackgroundSpec => Spec
<1>1. BackgroundInit => Init
  BY DEF BackgroundInit
<1>2. [BackgroundNext]_backgroundVars => [Next]_vars
  <2> SUFFICES ASSUME [BackgroundNext]_backgroundVars PROVE [Next]_vars
    OBVIOUS
  <2>1. CASE BackgroundNext
    BY <2>1 DEF BackgroundNext, Advances
  <2>2. CASE UNCHANGED backgroundVars
    BY <2>2 DEF backgroundVars
  <2> QED
    BY <2>1, <2>2
<1> QED
  BY <1>1, <1>2, PTL DEF BackgroundSpec, Spec

\* The state keeps its shape, and asyncio.Queue's counter agrees with the jobs there are
\* (background_worker.py), for any queue, users, guilds and rows.
THEOREM MemoryTypes == Spec => []TypeOK
<1>1. MemoryInv => TypeOK
  BY DEF MemoryInv
<1> QED
  BY <1>1, MemoryIsKept, PTL

\* Rows that belong into the snapshots they are in may be read by whoever is shown those.
LEMMA RightIsReadable == MemoryInv => NobodyElseReads
<1> SUFFICES ASSUME MemoryInv, NEW u \in Users, NEW g \in Places, NEW i \in Blocks(u, g)
             PROVE  enabled[rows[i].owner] /\ CanRead(i, u, g)
  BY DEF NobodyElseReads
<1>1. enabled[u]
  BY DEF Blocks
<1>2. \/ i \in snapshot[UserScope(u, g)]
      \/ i \in snapshot[UserScope(u, DM)]
      \/ g # DM /\ i \in snapshot[GuildScope(g)]
  BY DEF Blocks
<1>3. /\ UserScope(u, g) \in Scopes /\ UserScope(u, DM) \in Scopes
      /\ g # DM => GuildScope(g) \in Scopes
  BY DEF Scopes, UserScopes, GuildScopes, Places
<1>4. \A s \in Scopes : i \in snapshot[s] => Rightful(rows, enabled, s, i)
  BY DEF MemoryInv, SnapshotInv, RightIn
<1>5. ASSUME NEW h \in Places, i \in snapshot[UserScope(u, h)], UserScope(u, h) \in Scopes
      PROVE  rows[i].owner = u /\ rows[i].visibility = "private"
  <2>1. UserScope(u, h).type = "user" /\ UserScope(u, h).user = u
    BY DEF UserScope
  <2> QED
    BY <1>4, <1>5, <2>1 DEF Rightful
<1>6. CASE i \in snapshot[UserScope(u, g)] \/ i \in snapshot[UserScope(u, DM)]
  BY <1>1, <1>3, <1>5, <1>6 DEF CanRead, Places
<1>7. CASE g # DM /\ i \in snapshot[GuildScope(g)]
  <2>1. GuildScope(g).type # "user" /\ GuildScope(g).guild = g
    BY DEF GuildScope
  <2>2. enabled[rows[i].owner] /\ rows[i].guild = g
        /\ rows[i].visibility \in {"guild_shared", "lore"}
    BY <1>3, <1>4, <1>7, <2>1 DEF Rightful
  <2> QED
    BY <1>7, <2>2 DEF CanRead
<1> QED
  BY <1>2, <1>6, <1>7

\* What a reply is given may be read by the person it answers, where it is answered, and
\* belongs to people who have memory on (get_memory_snapshot_blocks, set_enabled,
\* set_memory_visibility, refresh_all_memory_snapshots), though snapshots are rebuilt by
\* transactions of their own and only scope by scope.
THEOREM NobodyElseEverReads == BackgroundSpec => []NobodyElseReads
<1>1. Spec => []NobodyElseReads
  BY RightIsReadable, MemoryIsKept, PTL
<1> QED
  BY <1>1, BackgroundIsMemory

\* A user who has turned memory off is not written about (store_memory_candidate,
\* attach_memory_embedding, apply_memory_consolidation): each transaction reads the opt-in
\* again, whatever the job read before the model call it comes back from.
THEOREM OptOutIsRespected == BackgroundSpec => OptOutRespected
<1>1. ASSUME MemoryInv, [Next]_vars, step' # step, rows' # rows,
             NEW i \in Ids, rows'[i] # rows[i]
      PROVE  enabled[rows'[i].owner]
  <2>1. TypeOK /\ StepInv /\ Fresh(rows, created) /\ rows \in [Ids -> Row]
    BY <1>1 DEF MemoryInv, TypeOK
  <2>2. StoreCandidates \/ Attach \/ Apply
    BY <1>1 DEF Next, JobStep, Schedule, Begin, End, JobFails, CooldownEnds, Close, Reboot,
                CheckOptIn, Extract, CheckTarget, Embed, EmbedFails, PlanConsolidation, Decide,
                Rebuild, SetEnabled, Forget, SetVisibility, Maintenance, Maintain, Command,
                Unwritten, store, vars
  <2>3. CASE StoreCandidates
    <3>1. PICK o : /\ GrownTo(o, u_, Len(step.cands)) /\ rows' = o.rows
                   /\ ~ enabled[u_] => rows' = rows
      BY <2>1, <2>3, StoredAreGrown
    <3> QED
      BY <1>1, <3>1 DEF GrownTo, GrownRows, Grown
  <2>4. CASE Attach
    <3>1. /\ enabled[u_] /\ rows[i].owner = u_
          /\ rows'[i] = [rows[i] EXCEPT !.embedding = rows[i].summary]
      BY <1>1, <2>1, <2>4, Attached
    <3>2. rows'[i].owner = rows[i].owner
      BY <2>1, <3>1 DEF Row
    <3> QED
      BY <3>1, <3>2
  <2>5. CASE Apply
    <3>1. ~ UNCHANGED <<rows, created>>
      BY <1>1
    <3>2. /\ enabled[u_] /\ OverviewRow(step.decision, Unchanged(step.decision)).owner = u_
          /\ rows'[created + 1] = OverviewRow(step.decision, Unchanged(step.decision))
          /\ \A j \in Ids \ {created + 1} :
               rows'[j] = rows[j] \/ (/\ j \in Overviews
                                      /\ rows'[j] = [rows[j] EXCEPT !.status = "consolidated"])
      BY <2>1, <2>5, <3>1, ConsolidatedRows
    <3>3. CASE i = created + 1
      BY <3>2, <3>3
    <3>4. CASE i # created + 1
      <4>1. rows[i].owner = u_ /\ rows'[i] = [rows[i] EXCEPT !.status = "consolidated"]
        BY <1>1, <3>2, <3>4 DEF Overviews
      <4>2. rows'[i].owner = rows[i].owner
        BY <2>1, <4>1 DEF Row
      <4> QED
        BY <3>2, <4>1, <4>2
    <3> QED
      BY <3>3, <3>4
  <2> QED
    BY <2>2, <2>3, <2>4, <2>5
<1>2. MemoryInv /\ [Next]_vars =>
        [step' # step /\ rows' # rows =>
           \A i \in Ids : rows'[i] # rows[i] => enabled[rows'[i].owner]]_vars
  BY <1>1
<1> QED
  BY <1>2, BackgroundIsMemory, MemoryIsKept, PTL DEF Spec, OptOutRespected

\* An embedding is attached for the words its row has at that moment
\* (memory_embedding_target_is_current), though the target was read before the model was
\* asked: no command rewords a row while its embedding is being made.
THEOREM EmbeddingsFit == BackgroundSpec => EmbeddingFits
<1>1. ASSUME MemoryInv, [Next]_vars,
             NEW i \in Ids, rows'[i].embedding \notin {NoText, rows[i].embedding}
      PROVE  rows'[i].embedding = rows[i].summary
  <2>1. TypeOK /\ StepInv /\ Fresh(rows, created) /\ rows \in [Ids -> Row]
    BY <1>1 DEF MemoryInv, TypeOK
  <2>2. CASE StoreCandidates
    <3>1. PICK o : GrownTo(o, u_, Len(step.cands)) /\ rows' = o.rows
      BY <2>1, <2>2, StoredAreGrown
    <3> QED
      BY <1>1, <3>1 DEF GrownTo, GrownRows, Grown
  <2>3. CASE Attach
    <3>1. rows'[i] = [rows[i] EXCEPT !.embedding = rows[i].summary]
      BY <1>1, <2>1, <2>3, Attached
    <3> QED
      BY <2>1, <3>1 DEF Row
  <2>4. CASE Apply
    <3>1. ~ UNCHANGED <<rows, created>>
      BY <1>1
    <3>2. /\ OverviewRow(step.decision, Unchanged(step.decision)).embedding = NoText
          /\ rows'[created + 1] = OverviewRow(step.decision, Unchanged(step.decision))
          /\ \A j \in Ids \ {created + 1} :
               rows'[j] = rows[j] \/ rows'[j] = [rows[j] EXCEPT !.status = "consolidated"]
      BY <2>1, <2>4, <3>1, ConsolidatedRows
    <3>3. CASE i = created + 1
      BY <1>1, <3>2, <3>3
    <3>4. CASE i # created + 1
      <4>1. rows'[i] = [rows[i] EXCEPT !.status = "consolidated"]
        BY <1>1, <3>2, <3>4
      <4>2. rows'[i].embedding = rows[i].embedding
        BY <2>1, <4>1 DEF Row
      <4> QED
        BY <1>1, <4>2
    <3> QED
      BY <3>3, <3>4
  <2>5. CASE \/ \E j \in Ids : Forget(j)
             \/ \E j \in Ids, v \in Audiences, g \in Guilds : SetVisibility(j, v, g)
             \/ Maintenance
    BY <1>1, <2>1, <2>5, CommandRows DEF SameWords
  <2>6. UNCHANGED rows \/ StoreCandidates \/ Attach \/ Apply
        \/ (\E j \in Ids : Forget(j))
        \/ (\E j \in Ids, v \in Audiences, g \in Guilds : SetVisibility(j, v, g))
        \/ Maintenance
    BY <1>1 DEF Next, JobStep, Schedule, Begin, End, JobFails, CooldownEnds, Close, Reboot,
                CheckOptIn, Extract, CheckTarget, Embed, EmbedFails, PlanConsolidation, Decide,
                Rebuild, SetEnabled, Unwritten, store, vars
  <2> QED
    BY <1>1, <2>2, <2>3, <2>4, <2>5, <2>6
<1>2. MemoryInv /\ [Next]_vars =>
        [\A i \in Ids : rows'[i].embedding \notin {NoText, rows[i].embedding} =>
           rows'[i].embedding = rows[i].summary]_vars
  BY <1>1
<1> QED
  BY <1>2, BackgroundIsMemory, MemoryIsKept, PTL DEF Spec, EmbeddingFits

\* A consolidated overview rests on at least two facts that are still active, private and
\* word for word what the model was shown (apply_memory_consolidation).
THEOREM OverviewsAreGrounded == BackgroundSpec => OverviewIsGrounded
<1> DEFINE Grounded(i) ==
             rows'[i].kind = "summary" =>
               /\ Cardinality(rows'[i].sources) >= 2
               /\ \A j \in rows'[i].sources :
                    /\ PrivateFact(rows', rows'[i].owner, j)
                    /\ rows[j].summary = step.plan[j].summary
<1>1. ASSUME MemoryInv, [Next]_vars, NEW i \in created + 1 .. created' PROVE Grounded(i)
  <2>1. TypeOK /\ StepInv /\ Fresh(rows, created) /\ rows \in [Ids -> Row] /\ created \in Nat
    BY <1>1, BoundTypes DEF MemoryInv, TypeOK
  <2>2. ~ UNCHANGED created
    BY <2>1
  <2>3. StoreCandidates \/ Apply
    BY <1>1, <2>2, CommandsKeepWorker
       DEF Next, JobStep, Schedule, Begin, End, JobFails, Close, Reboot,
           CheckOptIn, Extract, CheckTarget, Embed, EmbedFails, Attach, PlanConsolidation, Decide,
           Rebuild, Unwritten, store, vars
  <2>4. CASE StoreCandidates
    <3>1. PICK o : /\ GrownTo(o, u_, Len(step.cands)) /\ rows' = o.rows /\ created' = o.created
                   /\ created + Len(step.cands) <= MaxRows /\ Len(step.cands) \in Nat
      BY <2>1, <2>4, StoredAreGrown
    <3>2. created' <= MaxRows /\ created' \in Nat
      BY <2>1, <3>1, BoundTypes DEF GrownTo, GrownRows
    <3>3. i \in Ids /\ created < i /\ i <= created'
      BY <2>1, <3>2, BoundTypes
    <3> QED
      BY <3>1, <3>3 DEF GrownTo, GrownRows, Grown
  <2>5. CASE Apply
    <3> DEFINE S == Unchanged(step.decision)
               new == OverviewRow(step.decision, S)
    <3>1. /\ created' = created + 1 /\ created + 1 \in Ids /\ rows'[created + 1] = new
          /\ new.owner = u_ /\ new.sources = S /\ Cardinality(S) >= 2
          /\ \A j \in Ids \ {created + 1} : rows'[j] = rows[j] \/ j \in Overviews
      BY <2>1, <2>2, <2>5, ConsolidatedRows
    <3>2. i = created + 1
      BY <2>1, <3>1
    <3>3. ASSUME NEW j \in S
          PROVE  PrivateFact(rows', u_, j) /\ rows[j].summary = step.plan[j].summary
      <4>1. PrivateFact(rows, u_, j) /\ rows[j].summary = step.plan[j].summary /\ j \in Ids
        <5>1. step.decision \in Decision
          BY <2>1, <2>2, <2>5, Consolidated
        <5> QED
          BY <5>1 DEF Unchanged, Decision
      <4>2. j <= created /\ j \notin Overviews
        BY <2>1, <4>1 DEF PrivateFact, Overviews, Active, Present, Fresh
      <4>3. rows'[j] = rows[j]
        BY <2>1, <3>1, <4>1, <4>2, BoundTypes
      <4> QED
        BY <4>1, <4>3 DEF PrivateFact, Active
    <3> HIDE DEF S, new
    <3> QED
      BY <3>1, <3>2, <3>3
  <2> QED
    BY <2>3, <2>4, <2>5
<1>2. MemoryInv /\ [Next]_vars => [\A i \in created + 1 .. created' : Grounded(i)]_vars
  BY <1>1
<1> QED
  BY <1>2, BackgroundIsMemory, MemoryIsKept, PTL DEF Spec, OverviewIsGrounded

(***************************************************************************)
(* The benchmark suites.  The inductive invariant: who holds the lock runs *)
(* the suite and has made its attempts; every attempt but one under way is *)
(* saved; and the history of an index and a scenario is as long as the     *)
(* cases of that scenario it has been through.                             *)
(***************************************************************************)

Remembered == [turn : Nat, index : Nat]
Made == [case : ToSet(Manifest), index : Nat, saw : Seq(Remembered)]

ScenarioAt(cases, p) == Manifest[cases[p]].scenario
EarlierTurns(cases, p) == {q \in 1 .. (p - 1) : ScenarioAt(cases, q) = ScenarioAt(cases, p)}

\* The turns of a scenario come in order and none is left out.
InTurns(cases) ==
  /\ cases \in Seq(DOMAIN Manifest) /\ cases # <<>>
  /\ \A p \in DOMAIN cases :
       ScenarioAt(cases, p) # NoScenario =>
         Manifest[cases[p]].turn = 1 + Cardinality(EarlierTurns(cases, p))

\* The cases of a scenario that index x has been through after n attempts.
Been(cases, n, x, sc) ==
  {p \in DOMAIN cases : (p - 1) * Repeats + x <= n /\ ScenarioAt(cases, p) = sc}

OwnHistory(x, m) == [t \in 1 .. m |-> [turn |-> t, index |-> x]]

Running == suite.at \in {"running", "saving", "stopping"}
Reached == IF suite.at = "running" THEN suite.next - 1 ELSE suite.next

SuiteTypes ==
  /\ SuiteTypeOK /\ suite = [at |-> suite.at, cases |-> suite.cases, next |-> suite.next]
  /\ attempts \in [Commands -> Seq(Made)] /\ DOMAIN saved = Commands
  /\ history \in [HistoryKeys -> Seq(Remembered)]

LockInv ==
  /\ \A c \in Commands : command[c] \in {"deferring", "running"} <=> lock = c
  /\ suite.at # "none" => lock \in Commands /\ command[lock] = "running"
  /\ \A c \in Commands : command[c] \in {"idle", "deferring"} => attempts[c] = <<>>

SavedInv ==
  \A c \in Commands :
    \/ DOMAIN attempts[c] \subseteq saved[c]
    \/ /\ c = lock /\ suite.at \in {"saving", "stopping"}
       /\ DOMAIN attempts[c] \subseteq saved[c] \cup {Len(attempts[c])}

CasesInv ==
  Running => InTurns(suite.cases) /\ suite.next \in 1 .. (Len(suite.cases) * Repeats)

HistoryInv ==
  Running =>
    \A k \in HistoryKeys : k[2] # NoScenario =>
      history[k] = OwnHistory(k[1], Cardinality(Been(suite.cases, Reached, k[1], k[2])))

SuiteIInv ==
  SuiteTypes /\ LockInv /\ SavedInv /\ CasesInv /\ HistoryInv /\ HistoryIsOwn /\ GivesWay

(***************************************************************************)
(* The cases of a suite.                                                   *)
(***************************************************************************)

UpToCase(i, sc) == {j \in 1 .. i : Manifest[j].scenario = sc}

LEMMA ManifestTypes ==
  /\ Len(Manifest) \in Nat \ {0} /\ DOMAIN Manifest = 1 .. Len(Manifest)
  /\ Manifest \in Seq(ToSet(Manifest))
  /\ \A i \in DOMAIN Manifest : Manifest[i] \in ToSet(Manifest)
  /\ \A i \in DOMAIN Manifest : Manifest[i].scenario # NoScenario =>
       Manifest[i].turn = 1 + Cardinality(UpToCase(i - 1, Manifest[i].scenario))
  /\ \A i \in DOMAIN Manifest : Manifest[i].scenario = NoScenario => Manifest[i].turn = 0
<1>1. Manifest \in Seq(ToSet(Manifest)) /\ Manifest # <<>>
  BY SuiteAssumption
<1>2. Len(Manifest) \in Nat \ {0} /\ DOMAIN Manifest = 1 .. Len(Manifest)
  BY <1>1
<1>3. \A i \in DOMAIN Manifest : Manifest[i] \in ToSet(Manifest)
  BY <1>1
<1>4. ASSUME NEW i \in DOMAIN Manifest
      PROVE  /\ Manifest[i].scenario # NoScenario =>
                  Manifest[i].turn = 1 + Cardinality(UpToCase(i - 1, Manifest[i].scenario))
             /\ Manifest[i].scenario = NoScenario => Manifest[i].turn = 0
  <2>1. UpToCase(i - 1, Manifest[i].scenario)
          = {j \in 1 .. (i - 1) : Manifest[j].scenario = Manifest[i].scenario}
    BY DEF UpToCase
  <2> QED
    BY <2>1, SuiteAssumption, Zenon
<1> QED
  BY <1>1, <1>2, <1>3, <1>4

LEMMA UpToCaseGrows ==
  ASSUME NEW sc, NEW i \in Nat
  PROVE  /\ IsFiniteSet(UpToCase(i, sc)) /\ Cardinality(UpToCase(i, sc)) \in Nat
         /\ Cardinality(UpToCase(0, sc)) = 0
         /\ i # 0 => Cardinality(UpToCase(i, sc))
                       = Cardinality(UpToCase(i - 1, sc))
                         + (IF Manifest[i].scenario = sc THEN 1 ELSE 0)
<1>1. \A n \in Nat : IsFiniteSet(UpToCase(n, sc))
  <2> TAKE n \in Nat
  <2>1. IsFiniteSet(1 .. n) /\ UpToCase(n, sc) \subseteq 1 .. n
    BY FS_Interval DEF UpToCase
  <2> QED
    BY <2>1, FS_Subset
<1>2. UpToCase(0, sc) = {}
  BY DEF UpToCase
<1>3. ASSUME i # 0
      PROVE  Cardinality(UpToCase(i, sc))
               = Cardinality(UpToCase(i - 1, sc)) + (IF Manifest[i].scenario = sc THEN 1 ELSE 0)
  <2>1. i \notin UpToCase(i - 1, sc) /\ i - 1 \in Nat
    BY <1>3 DEF UpToCase
  <2>2. CASE Manifest[i].scenario = sc
    <3>1. UpToCase(i, sc) = UpToCase(i - 1, sc) \cup {i}
      BY <1>3, <2>2 DEF UpToCase
    <3>2. Cardinality(UpToCase(i - 1, sc) \cup {i}) = Cardinality(UpToCase(i - 1, sc)) + 1
      BY <1>1, <2>1, FS_AddElement
    <3> QED
      BY <2>2, <3>1, <3>2
  <2>3. CASE Manifest[i].scenario # sc
    <3>1. UpToCase(i, sc) = UpToCase(i - 1, sc)
      BY <1>3, <2>3 DEF UpToCase
    <3>2. Cardinality(UpToCase(i - 1, sc)) \in Nat
      BY <1>1, <2>1, FS_CardinalityType
    <3> QED
      BY <2>3, <3>1, <3>2
  <2> QED
    BY <2>2, <2>3
<1> QED
  BY <1>1, <1>2, <1>3, FS_CardinalityType, FS_EmptySet

\* A turn is preceded by all the earlier ones.
LEMMA EveryTurnIsThere ==
  ASSUME NEW sc, sc # NoScenario
  PROVE  \A i \in 0 .. Len(Manifest) : \A n \in 1 .. Cardinality(UpToCase(i, sc)) :
           \E j \in 1 .. i : Manifest[j].scenario = sc /\ Manifest[j].turn = n
<1> DEFINE There(i) == \A n \in 1 .. Cardinality(UpToCase(i, sc)) :
                         \E j \in 1 .. i : Manifest[j].scenario = sc /\ Manifest[j].turn = n
           Bad == {i \in 0 .. Len(Manifest) : ~ There(i)}
<1>1. SUFFICES ASSUME Bad # {} PROVE FALSE
  OBVIOUS
<1>2. PICK i \in Bad : \A m \in Bad : i <= m
  <2>1. Bad \subseteq Nat
    BY ManifestTypes
  <2> HIDE DEF Bad
  <2> QED
    BY <1>1, <2>1, LeastOf
<1>3. i # 0
  <2>1. 0 \in Nat
    OBVIOUS
  <2>2. Cardinality(UpToCase(0, sc)) = 0
    BY <2>1, UpToCaseGrows
  <2> QED
    BY <1>2, <2>2
<1>4. i - 1 \in Nat /\ i \in DOMAIN Manifest /\ i - 1 \in 0 .. Len(Manifest) /\ There(i - 1)
  BY <1>2, <1>3, ManifestTypes
<1> DEFINE before == Cardinality(UpToCase(i - 1, sc))
<1>5. Cardinality(UpToCase(i, sc)) = before + (IF Manifest[i].scenario = sc THEN 1 ELSE 0)
  BY <1>3, <1>4, UpToCaseGrows
<1>6. before \in Nat
  BY <1>4, UpToCaseGrows
<1>7. Manifest[i].scenario = sc => Manifest[i].turn = 1 + before
  BY <1>4, ManifestTypes
<1>8. ASSUME NEW n \in 1 .. Cardinality(UpToCase(i, sc))
      PROVE  \E j \in 1 .. i : Manifest[j].scenario = sc /\ Manifest[j].turn = n
  <2>1. CASE n \in 1 .. before
    <3>1. PICK j \in 1 .. (i - 1) : Manifest[j].scenario = sc /\ Manifest[j].turn = n
      BY <1>4, <2>1
    <3> QED
      BY <1>4, <3>1
  <2>2. CASE n \notin 1 .. before
    <3> HIDE DEF before
    <3>1. Manifest[i].scenario = sc /\ n = 1 + before
      BY <1>5, <1>6, <2>2
    <3> QED
      BY <1>4, <1>7, <3>1
  <2> QED
    BY <2>1, <2>2
<1> QED
  BY <1>2, <1>8

LEMMA SelectionsAreInTurns ==
  ASSUME NEW cases \in Selections
  PROVE  InTurns(cases)
<1>1. CASE cases = [j \in DOMAIN Manifest |-> j]
  <2>1. cases \in Seq(DOMAIN Manifest) /\ cases # <<>> /\ DOMAIN cases = DOMAIN Manifest
    BY <1>1, ManifestTypes
  <2>2. ASSUME NEW p \in DOMAIN cases, ScenarioAt(cases, p) # NoScenario
        PROVE  Manifest[cases[p]].turn = 1 + Cardinality(EarlierTurns(cases, p))
    <3>1. p \in DOMAIN Manifest /\ cases[p] = p /\ \A q \in 1 .. (p - 1) : cases[q] = q
      BY <1>1, <2>1, ManifestTypes
    <3>2. EarlierTurns(cases, p) = UpToCase(p - 1, Manifest[p].scenario)
      BY <3>1 DEF EarlierTurns, ScenarioAt, UpToCase
    <3> QED
      BY <2>2, <3>1, <3>2, ManifestTypes DEF ScenarioAt
  <2> QED
    BY <2>1, <2>2 DEF InTurns
<1>2. ASSUME NEW i \in DOMAIN Manifest, cases = SelectOne(i)
      PROVE  InTurns(cases)
  <2> DEFINE c == Manifest[i]
             sc == c.scenario
  <2>1. CASE c.turn <= 1
    <3>1. cases = <<i>>
      BY <1>2, <2>1 DEF SelectOne
    <3>2. cases \in Seq(DOMAIN Manifest) /\ cases # <<>> /\ DOMAIN cases = {1} /\ cases[1] = i
      BY <3>1
    <3>3. sc # NoScenario => c.turn = 1
      <4>1. sc # NoScenario => c.turn = 1 + Cardinality(UpToCase(i - 1, sc))
        BY ManifestTypes
      <4>2. i - 1 \in Nat
        BY ManifestTypes
      <4>3. Cardinality(UpToCase(i - 1, sc)) \in Nat
        BY <4>2, UpToCaseGrows
      <4> QED
        BY <2>1, <4>1, <4>3
    <3>4. EarlierTurns(cases, 1) = {}
      BY DEF EarlierTurns
    <3>5. Cardinality(EarlierTurns(cases, 1)) = 0
      BY <3>4, FS_EmptySet
    <3> QED
      BY <3>2, <3>3, <3>5 DEF InTurns, ScenarioAt
  <2>2. CASE ~ (c.turn <= 1)
    <3>1. sc # NoScenario
      BY <2>2, ManifestTypes
    <3>2. i \in Nat /\ i # 0 /\ i \in 0 .. Len(Manifest)
      BY ManifestTypes
    <3>3. c.turn = Cardinality(UpToCase(i, sc)) /\ c.turn \in Nat
      <4>1. c.turn = 1 + Cardinality(UpToCase(i - 1, sc))
        BY <3>1, ManifestTypes
      <4>2. Cardinality(UpToCase(i, sc)) = Cardinality(UpToCase(i - 1, sc)) + 1
        BY <3>2, UpToCaseGrows
      <4>3. Cardinality(UpToCase(i, sc)) \in Nat
        BY <3>2, UpToCaseGrows
      <4>4. i - 1 \in Nat
        BY <3>2
      <4>5. Cardinality(UpToCase(i - 1, sc)) \in Nat
        BY <4>4, UpToCaseGrows
      <4> QED
        BY <4>1, <4>2, <4>3, <4>5
    <3>4. cases = [n \in 1 .. c.turn |-> TurnOf(sc, n)]
      BY <1>2, <2>2 DEF SelectOne
    <3>5. ASSUME NEW n \in 1 .. c.turn
          PROVE  /\ cases[n] \in DOMAIN Manifest
                 /\ Manifest[cases[n]].scenario = sc /\ Manifest[cases[n]].turn = n
      <4>1. \E j \in 1 .. i : Manifest[j].scenario = sc /\ Manifest[j].turn = n
        BY <3>1, <3>2, <3>3, EveryTurnIsThere
      <4>2. \E j \in DOMAIN Manifest : Manifest[j].scenario = sc /\ Manifest[j].turn = n
        BY <3>2, <4>1, ManifestTypes
      <4>3. cases[n] = TurnOf(sc, n)
        BY <3>4
      <4> QED
        BY <4>2, <4>3 DEF TurnOf
    <3> HIDE DEF sc, c
    <3>6. cases \in Seq(DOMAIN Manifest) /\ Len(cases) = c.turn /\ DOMAIN cases = 1 .. c.turn
      BY <3>3, <3>4, <3>5
    <3>7. cases # <<>>
      BY <2>2, <3>3, <3>6
    <3>8. ASSUME NEW p \in DOMAIN cases
          PROVE  Manifest[cases[p]].turn = 1 + Cardinality(EarlierTurns(cases, p))
      <4>1. p \in Nat /\ p >= 1 /\ p \in 1 .. c.turn
        BY <3>3, <3>6
      <4>2. EarlierTurns(cases, p) = 1 .. (p - 1)
        BY <3>3, <3>5, <4>1 DEF EarlierTurns, ScenarioAt
      <4>3. Cardinality(1 .. (p - 1)) = p - 1
        BY <4>1, FS_Interval
      <4> QED
        BY <3>5, <4>1, <4>2, <4>3
    <3> QED
      BY <3>6, <3>7, <3>8 DEF InTurns
  <2> QED
    BY <2>1, <2>2
<1> QED
  BY <1>1, <1>2 DEF Selections

(***************************************************************************)
(* The attempts of a case by index: attempt n is that of index X at the    *)
(* case in place P.                                                        *)
(***************************************************************************)

PlaceIn(n) == ((n - 1) \div Repeats) + 1
IndexIn(n) == ((n - 1) % Repeats) + 1

LEMMA AttemptNumbers ==
  ASSUME NEW n \in Nat, n # 0
  PROVE  /\ PlaceIn(n) \in Nat /\ PlaceIn(n) >= 1 /\ IndexIn(n) \in 1 .. Repeats
         /\ (PlaceIn(n) - 1) * Repeats + IndexIn(n) = n
         /\ \A x \in 1 .. Repeats, p \in Nat :
              /\ (p - 1) * Repeats + x = n <=> p = PlaceIn(n) /\ x = IndexIn(n)
              /\ x = IndexIn(n) => ((p - 1) * Repeats + x <= n - 1 <=> p < PlaceIn(n))
         /\ \A m \in Nat : n <= m * Repeats => PlaceIn(n) <= m
<1>1. Repeats \in {1, 2, 3}
  BY SuiteAssumption
<1>2. CASE Repeats = 1
  BY <1>2 DEF PlaceIn, IndexIn
<1>3. CASE Repeats = 2
  BY <1>3 DEF PlaceIn, IndexIn
<1>4. CASE Repeats = 3
  BY <1>4 DEF PlaceIn, IndexIn
<1> QED
  BY <1>1, <1>2, <1>3, <1>4

LEMMA OneMoreBeen ==
  ASSUME NEW cases, InTurns(cases), NEW n \in 1 .. (Len(cases) * Repeats)
  PROVE  LET P == PlaceIn(n)
             X == IndexIn(n)
         IN  /\ P \in DOMAIN cases /\ X \in 1 .. Repeats /\ cases[P] \in DOMAIN Manifest
             /\ ScenarioAt(cases, P) # NoScenario =>
                  Manifest[cases[P]].turn
                    = 1 + Cardinality(Been(cases, n - 1, X, ScenarioAt(cases, P)))
             /\ \A sc : \A x \in 1 .. Repeats :
                  /\ Cardinality(Been(cases, n - 1, x, sc)) \in Nat
                  /\ Cardinality(Been(cases, n, x, sc))
                       = Cardinality(Been(cases, n - 1, x, sc))
                         + (IF x = X /\ sc = ScenarioAt(cases, P) THEN 1 ELSE 0)
<1> DEFINE P == PlaceIn(n)
           X == IndexIn(n)
<1>1. Len(cases) \in Nat /\ DOMAIN cases = 1 .. Len(cases) /\ Repeats \in Nat
  BY SuiteAssumption DEF InTurns
<1>2. Len(cases) * Repeats \in Nat
  BY <1>1
<1>3. n \in Nat /\ n # 0 /\ n <= Len(cases) * Repeats
  BY <1>2
<1>4. /\ P \in Nat /\ P >= 1 /\ X \in 1 .. Repeats /\ P <= Len(cases)
      /\ \A x \in 1 .. Repeats, p \in Nat :
           /\ (p - 1) * Repeats + x = n <=> p = P /\ x = X
           /\ x = X => ((p - 1) * Repeats + x <= n - 1 <=> p < P)
  BY <1>1, <1>3, AttemptNumbers
<1> HIDE DEF P, X
<1>5. P \in DOMAIN cases /\ cases[P] \in DOMAIN Manifest
  BY <1>1, <1>4 DEF InTurns
<1>6. ASSUME NEW x \in 1 .. Repeats, NEW p \in DOMAIN cases
      PROVE  /\ (p - 1) * Repeats + x \in Int
             /\ (p - 1) * Repeats + x <= n <=>
                  (p - 1) * Repeats + x <= n - 1 \/ (p = P /\ x = X)
  <2>1. p \in Nat /\ p >= 1
    BY <1>1
  <2>2. x \in Int /\ p - 1 \in Int
    BY <1>1, <2>1
  <2>3. (p - 1) * Repeats \in Int
    BY <1>1, <2>2
  <2> DEFINE a == (p - 1) * Repeats + x
  <2>4. a \in Int
    BY <2>2, <2>3
  <2>5. a = n <=> p = P /\ x = X
    BY <1>4, <2>1
  <2> HIDE DEF a
  <2>6. a <= n <=> a <= n - 1 \/ a = n
    BY <1>3, <2>4
  <2> QED
    BY <2>4, <2>5, <2>6 DEF a
<1>7. ASSUME NEW m, NEW x, NEW sc PROVE IsFiniteSet(Been(cases, m, x, sc))
  <2>1. IsFiniteSet(1 .. Len(cases)) /\ Been(cases, m, x, sc) \subseteq 1 .. Len(cases)
    BY <1>1, FS_Interval DEF Been
  <2> QED
    BY <2>1, FS_Subset
<1>8. ASSUME NEW x \in 1 .. Repeats, NEW sc
      PROVE  /\ Cardinality(Been(cases, n - 1, x, sc)) \in Nat
             /\ Cardinality(Been(cases, n, x, sc))
                  = Cardinality(Been(cases, n - 1, x, sc))
                    + (IF x = X /\ sc = ScenarioAt(cases, P) THEN 1 ELSE 0)
  <2>1. Cardinality(Been(cases, n - 1, x, sc)) \in Nat
    BY <1>7, FS_CardinalityType
  <2>2. CASE x = X /\ sc = ScenarioAt(cases, P)
    <3>1. Been(cases, n, x, sc) = Been(cases, n - 1, x, sc) \cup {P}
      BY <1>5, <1>6, <2>2, Zenon DEF Been
    <3>2. P \notin Been(cases, n - 1, x, sc)
      <4>1. ~ ((P - 1) * Repeats + x <= n - 1)
        BY <1>4, <2>2
      <4> QED
        BY <4>1 DEF Been
    <3>3. Cardinality(Been(cases, n - 1, x, sc) \cup {P})
            = Cardinality(Been(cases, n - 1, x, sc)) + 1
      BY <1>7, <3>2, FS_AddElement
    <3> QED
      BY <2>1, <2>2, <3>1, <3>3
  <2>3. CASE ~ (x = X /\ sc = ScenarioAt(cases, P))
    <3>1. Been(cases, n, x, sc) = Been(cases, n - 1, x, sc)
      BY <1>6, <2>3, Zenon DEF Been
    <3> QED
      BY <2>1, <2>3, <3>1
  <2> QED
    BY <2>2, <2>3
<1>9. ASSUME ScenarioAt(cases, P) # NoScenario
      PROVE  Manifest[cases[P]].turn = 1 + Cardinality(Been(cases, n - 1, X, ScenarioAt(cases, P)))
  <2>1. Manifest[cases[P]].turn = 1 + Cardinality(EarlierTurns(cases, P))
    BY <1>5, <1>9 DEF InTurns
  <2>2. Been(cases, n - 1, X, ScenarioAt(cases, P)) = EarlierTurns(cases, P)
    <3>1. \A p \in DOMAIN cases : (p - 1) * Repeats + X <= n - 1 <=> p < P
      <4> TAKE p \in DOMAIN cases
      <4>1. p \in Nat /\ X \in 1 .. Repeats
        BY <1>1, <1>4
      <4> QED
        BY <1>4, <4>1
    <3>2. \A p : p \in DOMAIN cases /\ p < P <=> p \in 1 .. (P - 1)
      BY <1>1, <1>4
    <3> QED
      BY <3>1, <3>2, Zenon DEF Been, EarlierTurns
  <2> QED
    BY <2>1, <2>2
<1> QED
  BY <1>4, <1>5, <1>8, <1>9 DEF P, X

(***************************************************************************)
(* The steps of a suite.                                                   *)
(***************************************************************************)

LEMMA SuiteStarts == SuiteInit => SuiteIInv
<1> SUFFICES ASSUME SuiteInit PROVE SuiteIInv
  OBVIOUS
<1> USE DEF SuiteInit, NoTask
<1>1. SuiteTypes
  <2>1. history \in [HistoryKeys -> Seq(Remembered)]
    BY DEF NoHistory
  <2>2. attempts \in [Commands -> Seq(Made)]
    OBVIOUS
  <2> QED
    BY <2>1, <2>2 DEF SuiteTypes, SuiteTypeOK, Over
<1>2. LockInv
  BY SuiteAssumption DEF LockInv
<1>3. SavedInv /\ CasesInv /\ HistoryInv /\ HistoryIsOwn /\ GivesWay
  BY DEF SavedInv, CasesInv, HistoryInv, HistoryIsOwn, GivesWay, Running
<1> QED
  BY <1>1, <1>2, <1>3 DEF SuiteIInv

\* Who has the lock is a command, and a command that has it is not called "none".
LEMMA NobodyIsNone == "none" \notin Commands /\ "request" \notin Commands
  BY SuiteAssumption

\* Steps that change who has the lock, or nothing of the suite at all.
LEMMA CommandsStay ==
  ASSUME SuiteIInv, UNCHANGED <<suite, attempts, history, saved>>,
         command' \in [Commands -> Over \cup {"idle", "deferring", "running"}],
         active' \in Commands \cup {"none", "request"}, LockInv',
         \A c \in Commands : command'[c] # "crashed",
         suite.at = "none" \/ lock' = lock, lock' \in Commands \cup {"none"}
  PROVE  SuiteIInv'
<1>1. SuiteTypes'
  BY DEF SuiteIInv, SuiteTypes, SuiteTypeOK
<1>2. SavedInv'
  <2> SUFFICES ASSUME NEW c \in Commands
               PROVE  \/ DOMAIN attempts[c] \subseteq saved[c]
                      \/ /\ c = lock' /\ suite.at \in {"saving", "stopping"}
                         /\ DOMAIN attempts[c] \subseteq saved[c] \cup {Len(attempts[c])}
    BY DEF SavedInv
  <2> QED
    BY DEF SuiteIInv, SavedInv
<1>3. CasesInv' /\ HistoryInv'
  BY DEF SuiteIInv, CasesInv, HistoryInv, Running, Reached
<1>4. HistoryIsOwn'
  BY DEF SuiteIInv, HistoryIsOwn
<1> QED
  BY <1>1, <1>2, <1>3, <1>4 DEF SuiteIInv, GivesWay

LEMMA CommandTypes ==
  ASSUME SuiteIInv
  PROVE  /\ command \in [Commands -> Over \cup {"idle", "deferring", "running"}]
         /\ lock \in Commands \cup {"none"} /\ active \in Commands \cup {"none", "request"}
         /\ \A c \in Commands : command[c] # "crashed"
  BY DEF SuiteIInv, SuiteTypes, SuiteTypeOK, GivesWay

LEMMA InvokeStays == ASSUME SuiteIInv, NEW c \in Commands, Invoke(c) PROVE SuiteIInv'
<1>1. CASE HasActive \/ lock # "none"
  <2>1. command' = [command EXCEPT ![c] = "refused"] /\ lock' = lock
    BY <1>1 DEF Invoke
  <2>2. LockInv'
    BY <2>1, CommandTypes DEF Invoke, SuiteIInv, LockInv
  <2>3. command' \in [Commands -> Over \cup {"idle", "deferring", "running"}]
    BY <2>1, CommandTypes DEF Over
  <2>4. \A d \in Commands : command'[d] # "crashed"
    BY <2>1, CommandTypes
  <2> QED
    BY <2>1, <2>2, <2>3, <2>4, CommandTypes, CommandsStay DEF Invoke
<1>2. CASE ~ (HasActive \/ lock # "none")
  <2>1. command' = [command EXCEPT ![c] = "deferring"] /\ lock' = c /\ lock = "none"
    BY <1>2 DEF Invoke
  <2>2. suite.at = "none" /\ \A d \in Commands : command[d] \notin {"deferring", "running"}
    BY <2>1, NobodyIsNone DEF SuiteIInv, LockInv
  <2>3. LockInv'
    BY <2>1, <2>2, CommandTypes DEF Invoke, SuiteIInv, LockInv
  <2>4. command' \in [Commands -> Over \cup {"idle", "deferring", "running"}]
    BY <2>1, CommandTypes
  <2>5. \A d \in Commands : command'[d] # "crashed"
    BY <2>1, CommandTypes
  <2> QED
    BY <2>1, <2>2, <2>3, <2>4, <2>5, CommandTypes, CommandsStay DEF Invoke
<1> QED
  BY <1>1, <1>2

\* A command that did not come to run its suite gives back the lock.
LEMMA GivenUp ==
  ASSUME SuiteIInv, NEW c \in Commands, command[c] = "deferring", NEW how \in Over \ {"crashed"},
         Leave(c, how), UNCHANGED <<active, suite, attempts, history, saved>>
  PROVE  SuiteIInv'
<1>1. command' = [command EXCEPT ![c] = how] /\ lock' = "none" /\ lock = c
  BY DEF Leave, SuiteIInv, LockInv
<1>2. suite.at = "none" /\ \A d \in Commands : command[d] \in {"deferring", "running"} => d = c
  BY <1>1 DEF SuiteIInv, LockInv
<1>3. LockInv'
  <2>1. \A d \in Commands : command'[d] \notin {"deferring", "running"}
    BY <1>1, <1>2, CommandTypes DEF Over
  <2>2. \A d \in Commands : command'[d] # "idle" \/ command'[d] = command[d]
    BY <1>1, CommandTypes DEF Over
  <2> QED
    BY <1>1, <1>2, <2>1, <2>2, NobodyIsNone DEF SuiteIInv, LockInv
<1>4. command' \in [Commands -> Over \cup {"idle", "deferring", "running"}]
  BY <1>1, CommandTypes
<1>5. \A d \in Commands : command'[d] # "crashed"
  BY <1>1, CommandTypes
<1> QED
  BY <1>1, <1>2, <1>3, <1>4, <1>5, CommandTypes, CommandsStay

LEMMA StartStays == ASSUME SuiteIInv, NEW c \in Commands, Start(c) PROVE SuiteIInv'
<1>1. CASE HasActive
  <2>1. Leave(c, "refused") /\ "refused" \in Over \ {"crashed"}
    BY <1>1 DEF Start, StartedMeanwhile, Over
  <2> QED
    BY <1>1, <2>1, GivenUp DEF Start
<1>2. CASE ~ HasActive
  <2>1. PICK cases \in Selections : suite' = [at |-> "running", cases |-> cases, next |-> 1]
    BY <1>2 DEF Start
  <2>2. /\ command[c] = "deferring" /\ command' = [command EXCEPT ![c] = "running"]
        /\ active' = c /\ history' = NoHistory
        /\ UNCHANGED <<lock, attempts, saved, suiteBounds>>
    BY <1>2 DEF Start
  <2>3. lock = c /\ suite.at = "none" /\ attempts[c] = <<>>
    BY <2>2 DEF SuiteIInv, LockInv
  <2>4. SuiteTypes'
    <3>1. history' \in [HistoryKeys -> Seq(Remembered)]
      BY <2>2 DEF NoHistory
    <3>2. command' \in [Commands -> Over \cup {"idle", "deferring", "running"}]
      BY <2>2, CommandTypes
    <3> QED
      BY <2>1, <2>2, <3>1, <3>2 DEF SuiteIInv, SuiteTypes, SuiteTypeOK
  <2>5. LockInv'
    BY <2>1, <2>2, <2>3, CommandTypes DEF SuiteIInv, LockInv
  <2>6. SavedInv'
    <3> SUFFICES ASSUME NEW d \in Commands PROVE DOMAIN attempts[d] \subseteq saved[d]
      BY <2>2 DEF SavedInv
    <3> QED
      BY <2>3 DEF SuiteIInv, SavedInv
  <2>7. InTurns(cases)
    BY SelectionsAreInTurns
  <2>8. CasesInv'
    <3>1. Len(cases) \in Nat /\ Len(cases) >= 1 /\ Repeats \in {1, 2, 3}
      BY <2>7, SuiteAssumption DEF InTurns
    <3>2. 1 \in 1 .. (Len(cases) * Repeats)
      BY <3>1
    <3> QED
      BY <2>1, <2>7, <3>2 DEF CasesInv
  <2>9. HistoryInv'
    <3> SUFFICES ASSUME NEW k \in HistoryKeys, k[2] # NoScenario
                 PROVE  history'[k] = OwnHistory(k[1], Cardinality(Been(cases, 0, k[1], k[2])))
      BY <2>1 DEF HistoryInv, Reached
    <3>1. \A p \in DOMAIN cases : p \in Nat /\ p >= 1
      BY <2>7 DEF InTurns
    <3>2. Been(cases, 0, k[1], k[2]) = {}
      <4>1. Repeats \in {1, 2, 3} /\ k[1] \in Nat /\ k[1] >= 1
        BY SuiteAssumption DEF HistoryKeys
      <4>2. \A p \in DOMAIN cases : ~ ((p - 1) * Repeats + k[1] <= 0)
        BY <3>1, <4>1
      <4> QED
        BY <4>2 DEF Been
    <3>3. Cardinality(Been(cases, 0, k[1], k[2])) = 0
      BY <3>2, FS_EmptySet
    <3>4. OwnHistory(k[1], 0) = <<>>
      BY DEF OwnHistory
    <3> QED
      BY <2>2, <3>3, <3>4 DEF NoHistory
  <2>10. HistoryIsOwn' /\ GivesWay'
    <3>1. HistoryIsOwn'
      BY <2>2 DEF SuiteIInv, HistoryIsOwn
    <3> QED
      BY <2>2, <3>1, CommandTypes DEF GivesWay
  <2> QED
    BY <2>4, <2>5, <2>6, <2>8, <2>9, <2>10 DEF SuiteIInv
<1> QED
  BY <1>1, <1>2

LEMMA ReturnStays == ASSUME SuiteIInv, NEW c \in Commands, Return(c) PROVE SuiteIInv'
<1> DEFINE how == IF suite.at = "finished" THEN "reported" ELSE "cancelled"
<1>1. /\ command[c] = "running" /\ suite.at \in {"finished", "cancelled"}
      /\ command' = [command EXCEPT ![c] = how] /\ lock' = "none" /\ suite' = NoTask
      /\ active' = (IF active = c THEN "none" ELSE active)
      /\ UNCHANGED <<attempts, history, saved, suiteBounds>>
  BY DEF Return, Leave
<1>2. how \in Over /\ how # "crashed"
  BY DEF Over
<1> HIDE DEF how
<1>3. command' \in [Commands -> Over \cup {"idle", "deferring", "running"}]
  BY <1>1, <1>2, CommandTypes
<1>4. lock = c
  BY <1>1 DEF SuiteIInv, LockInv
<1>5. SuiteTypes'
  BY <1>1, <1>3, CommandTypes DEF SuiteIInv, SuiteTypes, SuiteTypeOK, NoTask
<1>6. LockInv'
  <2>1. \A d \in Commands : command'[d] \notin {"deferring", "running"}
    BY <1>1, <1>2, <1>4, CommandTypes DEF SuiteIInv, LockInv, Over
  <2>2. \A d \in Commands : command'[d] # "idle" \/ command'[d] = command[d]
    BY <1>1, <1>2, CommandTypes DEF Over
  <2> QED
    BY <1>1, <2>1, <2>2, NobodyIsNone DEF SuiteIInv, LockInv, NoTask
<1>7. SavedInv'
  BY <1>1 DEF SuiteIInv, SavedInv
<1>8. CasesInv' /\ HistoryInv'
  BY <1>1 DEF CasesInv, HistoryInv, Running, NoTask
<1>9. HistoryIsOwn' /\ GivesWay'
  <2>1. HistoryIsOwn'
    BY <1>1 DEF SuiteIInv, HistoryIsOwn
  <2> QED
    BY <1>1, <1>2, <2>1, CommandTypes DEF GivesWay
<1> QED
  BY <1>5, <1>6, <1>7, <1>8, <1>9 DEF SuiteIInv

LEMMA HistoryGrows ==
  ASSUME NEW x, NEW m \in Nat
  PROVE  Append(OwnHistory(x, m), [turn |-> m + 1, index |-> x]) = OwnHistory(x, m + 1)
<1> DEFINE HistoryRow(t) == [turn |-> t, index |-> x]
           R == {HistoryRow(t) : t \in Nat}
<1>1. OwnHistory(x, m) \in Seq(R) /\ Len(OwnHistory(x, m)) = m
  BY DEF OwnHistory
<1>2. OwnHistory(x, m + 1) \in Seq(R) /\ Len(OwnHistory(x, m + 1)) = m + 1
  BY DEF OwnHistory
<1> DEFINE a == Append(OwnHistory(x, m), HistoryRow(m + 1))
<1>3. a \in Seq(R) /\ Len(a) = m + 1
  <2>1. HistoryRow(m + 1) \in R
    OBVIOUS
  <2> HIDE DEF R, HistoryRow
  <2> QED
    BY <1>1, <2>1
<1>4. \A t \in 1 .. (m + 1) : a[t] = OwnHistory(x, m + 1)[t]
  <2> TAKE t \in 1 .. (m + 1)
  <2>1. OwnHistory(x, m + 1)[t] = HistoryRow(t)
    BY DEF OwnHistory
  <2>2. CASE t = m + 1
    BY <1>1, <2>1, <2>2
  <2>3. CASE t # m + 1
    <3>1. t \in 1 .. m /\ OwnHistory(x, m)[t] = HistoryRow(t)
      BY <2>3 DEF OwnHistory
    <3>2. a[t] = OwnHistory(x, m)[t]
      BY <1>1, <3>1
    <3> QED
      BY <2>1, <3>1, <3>2
  <2> QED
    BY <2>2, <2>3
<1> HIDE DEF R, a
<1>5. a = OwnHistory(x, m + 1)
  BY <1>2, <1>3, <1>4
<1> QED
  BY <1>5 DEF a

\* The attempt that is due: of which case, of which index, and what it knows.
LEMMA AttemptIsDue ==
  ASSUME SuiteIInv, suite.at = "running"
  PROVE  /\ Case \in ToSet(Manifest) /\ Index \in 1 .. Repeats
         /\ <<Index, Case.scenario>> \in HistoryKeys
         /\ Case.scenario # NoScenario =>
              /\ Case.turn \in Nat \ {0}
              /\ history[<<Index, Case.scenario>>] = OwnHistory(Index, Case.turn - 1)
         /\ \A k \in HistoryKeys :
              LET was == Cardinality(Been(suite.cases, suite.next - 1, k[1], k[2]))
              IN  /\ was \in Nat
                  /\ Cardinality(Been(suite.cases, suite.next, k[1], k[2]))
                       = was + (IF k = <<Index, Case.scenario>> THEN 1 ELSE 0)
                  /\ k = <<Index, Case.scenario>> /\ k[2] # NoScenario => Case.turn = was + 1
<1> DEFINE n == suite.next
           P == PlaceIn(n)
           X == IndexIn(n)
           sc == ScenarioAt(suite.cases, P)
<1>1. InTurns(suite.cases) /\ n \in 1 .. (Len(suite.cases) * Repeats)
  BY DEF SuiteIInv, CasesInv, Running
<1>2. /\ P \in DOMAIN suite.cases /\ X \in 1 .. Repeats /\ suite.cases[P] \in DOMAIN Manifest
      /\ sc # NoScenario =>
           Manifest[suite.cases[P]].turn = 1 + Cardinality(Been(suite.cases, n - 1, X, sc))
      /\ \A sx : \A x \in 1 .. Repeats :
           /\ Cardinality(Been(suite.cases, n - 1, x, sx)) \in Nat
           /\ Cardinality(Been(suite.cases, n, x, sx))
                = Cardinality(Been(suite.cases, n - 1, x, sx)) + (IF x = X /\ sx = sc THEN 1 ELSE 0)
  BY <1>1, OneMoreBeen
<1>3. Case = Manifest[suite.cases[P]] /\ Index = X /\ Case.scenario = sc
  BY DEF Case, Index, PlaceIn, IndexIn, ScenarioAt
<1> HIDE DEF P, X, sc, n
<1>4. Case \in ToSet(Manifest)
  BY <1>2, <1>3, ManifestTypes
<1>5. <<X, sc>> \in HistoryKeys
  BY <1>2, <1>3 DEF HistoryKeys
<1>6. ASSUME NEW k \in HistoryKeys
      PROVE  /\ Cardinality(Been(suite.cases, n - 1, k[1], k[2])) \in Nat
             /\ Cardinality(Been(suite.cases, n, k[1], k[2]))
                  = Cardinality(Been(suite.cases, n - 1, k[1], k[2]))
                    + (IF k = <<X, sc>> THEN 1 ELSE 0)
  <2>1. k[1] \in 1 .. Repeats /\ k = <<k[1], k[2]>>
    BY DEF HistoryKeys
  <2>2. k = <<X, sc>> <=> k[1] = X /\ k[2] = sc
    BY <2>1
  <2> QED
    BY <1>2, <2>1, <2>2
<1>7. ASSUME sc # NoScenario
      PROVE  /\ Case.turn \in Nat \ {0} /\ history[<<X, sc>>] = OwnHistory(X, Case.turn - 1)
             /\ Case.turn = Cardinality(Been(suite.cases, n - 1, X, sc)) + 1
  <2> DEFINE was == Cardinality(Been(suite.cases, n - 1, X, sc))
  <2>1. was \in Nat /\ Case.turn = 1 + was
    BY <1>2, <1>3, <1>7
  <2>2. history[<<X, sc>>] = OwnHistory(X, was)
    BY <1>5, <1>7 DEF SuiteIInv, HistoryInv, Running, Reached, n
  <2> HIDE DEF was
  <2>3. was = Case.turn - 1 /\ Case.turn = was + 1
    BY <2>1
  <2> QED
    BY <2>1, <2>2, <2>3 DEF was
<1> QED
  BY <1>2, <1>3, <1>4, <1>5, <1>6, <1>7 DEF n

LEMMA AttemptStays == ASSUME SuiteIInv, Attempt PROVE SuiteIInv'
<1> DEFINE key == <<Index, Case.scenario>>
           made == [case |-> Case, index |-> Index, saw |-> history[key]]
           left == [turn |-> Case.turn, index |-> Index]
<1>1. /\ suite.at = "running" /\ suite' = [suite EXCEPT !.at = "saving"]
      /\ attempts' = [attempts EXCEPT ![lock] = Append(@, made)]
      /\ history' = (IF Case.scenario = NoScenario THEN history
                     ELSE [history EXCEPT ![key] = Append(@, left)])
      /\ UNCHANGED <<command, lock, active, saved, suiteBounds>>
  BY DEF Attempt, HistoryKey
<1>2. lock \in Commands /\ command[lock] = "running"
  BY <1>1 DEF SuiteIInv, LockInv
<1>3. /\ Case \in ToSet(Manifest) /\ Index \in 1 .. Repeats /\ key \in HistoryKeys
      /\ Case.scenario # NoScenario =>
           Case.turn \in Nat \ {0} /\ history[key] = OwnHistory(Index, Case.turn - 1)
  BY <1>1, AttemptIsDue
<1>4. Index \in Nat
  BY <1>3, SuiteAssumption
<1>5. made \in Made /\ history[key] \in Seq(Remembered)
  BY <1>3, <1>4 DEF Made, SuiteIInv, SuiteTypes
<1>6. suite' = [at |-> "saving", cases |-> suite.cases, next |-> suite.next]
  BY <1>1 DEF SuiteIInv, SuiteTypes
<1>7. attempts' \in [Commands -> Seq(Made)]
  BY <1>1, <1>2, <1>5 DEF SuiteIInv, SuiteTypes
<1>8. history' \in [HistoryKeys -> Seq(Remembered)]
  <2>1. Case.scenario # NoScenario => left \in Remembered
    BY <1>3, <1>4 DEF Remembered
  <2> HIDE DEF left, key
  <2> QED
    BY <1>1, <1>3, <1>5, <2>1 DEF SuiteIInv, SuiteTypes
<1> HIDE DEF key, made, left
<1>9. SuiteTypes'
  BY <1>1, <1>6, <1>7, <1>8, CommandTypes DEF SuiteIInv, SuiteTypes, SuiteTypeOK
<1>10. LockInv'
  <2>1. \A c \in Commands : c # lock => attempts'[c] = attempts[c]
    BY <1>1 DEF SuiteIInv, SuiteTypes
  <2> QED
    BY <1>1, <1>2, <2>1 DEF SuiteIInv, LockInv
<1>11. SavedInv'
  <2> SUFFICES ASSUME NEW c \in Commands
               PROVE  \/ DOMAIN attempts'[c] \subseteq saved[c]
                      \/ /\ c = lock
                         /\ DOMAIN attempts'[c] \subseteq saved[c] \cup {Len(attempts'[c])}
    BY <1>1, <1>6 DEF SavedInv
  <2>1. DOMAIN attempts[c] \subseteq saved[c]
    BY <1>1 DEF SuiteIInv, SavedInv
  <2>2. CASE c # lock
    BY <1>1, <2>1, <2>2 DEF SuiteIInv, SuiteTypes
  <2>3. CASE c = lock
    <3>1. attempts[c] \in Seq(Made) /\ attempts'[c] = Append(attempts[c], made)
      BY <1>1, <1>2, <2>3 DEF SuiteIInv, SuiteTypes
    <3>2. DOMAIN attempts'[c] = DOMAIN attempts[c] \cup {Len(attempts'[c])}
      BY <1>5, <3>1
    <3> QED
      BY <2>1, <2>3, <3>2
  <2> QED
    BY <2>2, <2>3
<1>12. CasesInv'
  BY <1>1, <1>6 DEF SuiteIInv, CasesInv, Running
<1>13. HistoryInv'
  <2> SUFFICES ASSUME NEW k \in HistoryKeys, k[2] # NoScenario
               PROVE  history'[k]
                        = OwnHistory(k[1], Cardinality(Been(suite.cases, suite.next, k[1], k[2])))
    BY <1>6 DEF HistoryInv, Reached
  <2> DEFINE was == Cardinality(Been(suite.cases, suite.next - 1, k[1], k[2]))
             is == Cardinality(Been(suite.cases, suite.next, k[1], k[2]))
  <2>1. /\ was \in Nat /\ is = was + (IF k = key THEN 1 ELSE 0)
        /\ k = key => Case.turn = was + 1
    BY <1>1, AttemptIsDue DEF key
  <2>2. history[k] = OwnHistory(k[1], was)
    BY <1>1 DEF SuiteIInv, HistoryInv, Running, Reached
  <2> HIDE DEF was, is
  <2>3. CASE k = key
    <3>1. k[1] = Index /\ k[2] = Case.scenario
      BY <2>3 DEF key
    <3>2. history'[k] = Append(history[k], left)
      BY <1>1, <1>3, <2>3, <3>1 DEF SuiteIInv, SuiteTypes
    <3>3. left = [turn |-> was + 1, index |-> k[1]]
      BY <2>1, <2>3, <3>1 DEF left
    <3>4. history'[k] = OwnHistory(k[1], was + 1)
      BY <2>1, <2>2, <3>2, <3>3, HistoryGrows
    <3> QED
      BY <2>1, <2>3, <3>4 DEF is
  <2>4. CASE k # key
    <3>1. history'[k] = history[k]
      BY <1>1, <2>4 DEF SuiteIInv, SuiteTypes
    <3>2. is = was
      BY <2>1, <2>4
    <3> QED
      BY <2>2, <3>1, <3>2 DEF is
  <2> QED
    BY <2>3, <2>4
<1>14. HistoryIsOwn'
  <2> SUFFICES ASSUME NEW c \in Commands, NEW k \in DOMAIN attempts'[c],
                      attempts'[c][k].case.scenario # NoScenario
               PROVE  attempts'[c][k].saw
                        = [t \in 1 .. (attempts'[c][k].case.turn - 1) |->
                             [turn |-> t, index |-> attempts'[c][k].index]]
    BY DEF HistoryIsOwn
  <2>1. CASE c = lock /\ k \notin DOMAIN attempts[c]
    <3>1. attempts[c] \in Seq(Made) /\ attempts'[c] = Append(attempts[c], made)
      BY <1>1, <1>2, <2>1 DEF SuiteIInv, SuiteTypes
    <3>2. attempts'[c][k] = made
      BY <1>5, <2>1, <3>1
    <3>3. made.case = Case /\ made.index = Index /\ made.saw = history[key]
      BY DEF made
    <3> QED
      BY <1>3, <3>2, <3>3 DEF OwnHistory
  <2>2. CASE ~ (c = lock /\ k \notin DOMAIN attempts[c])
    <3>1. k \in DOMAIN attempts[c] /\ attempts'[c][k] = attempts[c][k]
      <4>1. CASE c # lock
        BY <1>1, <4>1 DEF SuiteIInv, SuiteTypes
      <4>2. CASE c = lock
        <5>1. attempts[c] \in Seq(Made) /\ attempts'[c] = Append(attempts[c], made)
          BY <1>1, <1>2, <4>2 DEF SuiteIInv, SuiteTypes
        <5> QED
          BY <1>5, <2>2, <4>2, <5>1
      <4> QED
        BY <4>1, <4>2
    <3> QED
      BY <3>1 DEF SuiteIInv, HistoryIsOwn
  <2> QED
    BY <2>1, <2>2
<1>15. GivesWay'
  BY <1>1, CommandTypes DEF GivesWay
<1> QED
  BY <1>9, <1>10, <1>11, <1>12, <1>13, <1>14, <1>15 DEF SuiteIInv

LEMMA SaveStays == ASSUME SuiteIInv, SaveEnds PROVE SuiteIInv'
<1>1. /\ suite.at \in {"saving", "stopping"}
      /\ saved' = [saved EXCEPT ![lock] = @ \cup {Len(attempts[lock])}]
      /\ UNCHANGED <<command, lock, active, attempts, history, suiteBounds>>
  BY DEF SaveEnds
<1> DEFINE at == IF suite.at = "stopping" THEN "cancelled"
                 ELSE IF suite.next = Len(suite.cases) * Repeats THEN "finished" ELSE "running"
<1>2. suite' = [at |-> at, cases |-> suite.cases, next |-> suite.next + 1]
  BY DEF SaveEnds, NextAttempt, SuiteIInv, SuiteTypes
<1>3. lock \in Commands /\ command[lock] = "running"
  BY <1>1 DEF SuiteIInv, LockInv
<1>4. SuiteTypes'
  BY <1>1, <1>2, CommandTypes DEF SuiteIInv, SuiteTypes, SuiteTypeOK
<1>5. LockInv'
  BY <1>1, <1>3 DEF SuiteIInv, LockInv
<1>6. SavedInv'
  <2> SUFFICES ASSUME NEW c \in Commands PROVE DOMAIN attempts[c] \subseteq saved'[c]
    BY <1>1 DEF SavedInv
  <2> QED
    BY <1>1, <1>3 DEF SuiteIInv, SavedInv, SuiteTypes
<1>7. InTurns(suite.cases) /\ suite.next \in 1 .. (Len(suite.cases) * Repeats)
  BY <1>1 DEF SuiteIInv, CasesInv, Running
<1>8. Len(suite.cases) * Repeats \in Nat
  <2>1. Len(suite.cases) \in Nat /\ Repeats \in Nat
    BY <1>7, SuiteAssumption DEF InTurns
  <2> QED
    BY <2>1
<1>9. CasesInv'
  <2> DEFINE all == Len(suite.cases) * Repeats
  <2>1. all \in Nat /\ suite.next \in 1 .. all
    BY <1>7, <1>8
  <2>2. Running' => suite.next # all
    BY <1>2 DEF Running
  <2> HIDE DEF all
  <2>3. Running' => suite.next + 1 \in 1 .. all
    BY <2>1, <2>2
  <2> QED
    BY <1>2, <1>7, <2>3 DEF CasesInv, all
<1>10. HistoryInv'
  <2>1. Running' => suite'.at = "running" /\ Reached' = suite.next
    BY <1>2, <1>7, <1>8 DEF Running, Reached
  <2>2. Reached = suite.next /\ Running
    BY <1>1 DEF Running, Reached
  <2> QED
    BY <1>1, <1>2, <2>1, <2>2 DEF SuiteIInv, HistoryInv
<1>11. HistoryIsOwn' /\ GivesWay'
  <2>1. HistoryIsOwn'
    BY <1>1 DEF SuiteIInv, HistoryIsOwn
  <2> QED
    BY <1>1, <2>1, CommandTypes DEF GivesWay
<1> QED
  BY <1>4, <1>5, <1>6, <1>9, <1>10, <1>11 DEF SuiteIInv

LEMMA CancelStays == ASSUME SuiteIInv, Cancel PROVE SuiteIInv'
<1>1. /\ suite.at \in {"running", "saving", "stopping"}
      /\ suite' = [suite EXCEPT !.at = OnCancel]
      /\ UNCHANGED <<command, lock, active, attempts, history, saved>>
  BY DEF Cancel
<1>2. suite' = [at |-> OnCancel, cases |-> suite.cases, next |-> suite.next]
  BY <1>1 DEF SuiteIInv, SuiteTypes
<1>3. OnCancel = IF suite.at = "running" THEN "cancelled" ELSE "stopping"
  BY DEF OnCancel
<1>4. SuiteTypes'
  BY <1>1, <1>2, <1>3, CommandTypes DEF SuiteIInv, SuiteTypes, SuiteTypeOK
<1>5. LockInv'
  BY <1>1 DEF SuiteIInv, LockInv
<1>6. SavedInv'
  BY <1>1, <1>2, <1>3 DEF SuiteIInv, SavedInv
<1>7. CasesInv'
  BY <1>1, <1>2, <1>3 DEF SuiteIInv, CasesInv, Running
<1>8. HistoryInv'
  <2>1. Running' => suite.at # "running" /\ Reached' = Reached /\ Running
    BY <1>1, <1>2, <1>3 DEF Running, Reached
  <2> QED
    BY <1>1, <1>2, <2>1 DEF SuiteIInv, HistoryInv
<1>9. HistoryIsOwn' /\ GivesWay'
  <2>1. HistoryIsOwn'
    BY <1>1 DEF SuiteIInv, HistoryIsOwn
  <2> QED
    BY <1>1, <2>1, CommandTypes DEF GivesWay
<1> QED
  BY <1>4, <1>5, <1>6, <1>7, <1>8, <1>9 DEF SuiteIInv

LEMMA SuiteStays == SuiteIInv /\ [SuiteNext]_suiteVars => SuiteIInv'
<1> SUFFICES ASSUME SuiteIInv, [SuiteNext]_suiteVars PROVE SuiteIInv'
  OBVIOUS
<1>1. ASSUME RequestStarts \/ RequestEnds \/ UNCHANGED suiteVars PROVE SuiteIInv'
  <2>1. UNCHANGED <<command, lock, suite, attempts, history, saved>>
    BY <1>1 DEF RequestStarts, RequestEnds, suiteVars
  <2>2. active' \in Commands \cup {"none", "request"}
    BY <1>1, CommandTypes DEF RequestStarts, RequestEnds, suiteVars
  <2>3. LockInv'
    BY <2>1 DEF SuiteIInv, LockInv
  <2>4. /\ command' \in [Commands -> Over \cup {"idle", "deferring", "running"}]
        /\ lock' \in Commands \cup {"none"} /\ \A c \in Commands : command'[c] # "crashed"
    BY <2>1, CommandTypes
  <2> QED
    BY <2>1, <2>2, <2>3, <2>4, CommandsStay
<1>2. ASSUME NEW c \in Commands, DeferFails(c) PROVE SuiteIInv'
  <2>1. command[c] = "deferring" /\ Leave(c, "undelivered") /\ "undelivered" \in Over \ {"crashed"}
    BY <1>2 DEF DeferFails, Over
  <2>2. UNCHANGED <<active, suite, attempts, history, saved>>
    BY <1>2 DEF DeferFails
  <2> QED
    BY <2>1, <2>2, GivenUp
<1> QED
  BY <1>1, <1>2, InvokeStays, StartStays, ReturnStays, AttemptStays, SaveStays, CancelStays
  DEF SuiteNext, SuiteProgress

LEMMA SuiteIsSafe == SuiteIInv => SuiteInv
<1> SUFFICES ASSUME SuiteIInv PROVE SuiteInv
  OBVIOUS
<1>1. CompletedIsStored
  <2> SUFFICES ASSUME NEW c \in Commands, command[c] \in Over
               PROVE  DOMAIN attempts[c] \subseteq saved[c]
    BY DEF CompletedIsStored
  <2>1. ~ (c = lock /\ suite.at \in {"saving", "stopping"})
    BY DEF SuiteIInv, LockInv, Over
  <2> QED
    BY <2>1 DEF SuiteIInv, SavedInv
<1> QED
  BY <1>1 DEF SuiteInv, SuiteIInv, SuiteTypes

(***************************************************************************)
(* The quote pages.  The inductive invariant: a value expires CacheTtl     *)
(* after its load began, no symbol has two, neither the values nor the     *)
(* loads exceed their bound, and what a reader was served is fresh.        *)
(***************************************************************************)

Reads == [began : Int, ended : Int]
Value == [symbol : Symbols, expires : Int, got : Reads]
ReaderRow == [at : {"idle", "joined", "outside", "awake", "served", "failed", "left"},
              symbol : Symbols \cup {"none"}, asked : Nat, got : Reads]

Apart(vs) == \A i, j \in DOMAIN vs : vs[i].symbol = vs[j].symbol => i = j
Stamped(vs) == \A i \in DOMAIN vs : vs[i].expires = vs[i].got.began + CacheTtl

ValuesInv == values \in Seq(Value) /\ Apart(values) /\ Stamped(values) /\ Len(values) <= CacheSize

LoadsInv ==
  /\ loads \in [Symbols -> Times \cup {NoLoad}]
  /\ IsFiniteSet(Loading) /\ Cardinality(Loading) <= CacheSize

ReadersInv ==
  /\ reader \in [Readers -> ReaderRow]
  /\ \A r \in Readers :
       /\ reader[r].asked <= now
       /\ reader[r].at \in {"joined", "outside", "awake"} => reader[r].symbol \in Symbols

CacheIInv == now \in Times /\ ValuesInv /\ LoadsInv /\ ReadersInv /\ FreshServed

LEMMA CacheTypes == CacheTtl \in Nat /\ CacheTtl > 0 /\ CacheSize \in Nat /\ CacheSize > 0 /\ CacheHorizon \in Nat
  BY CacheAssumption

(***************************************************************************)
(* The values of a sequence that are in a set, in their order.             *)
(***************************************************************************)

IsAmong(f, vs, S, k) ==
  f = [n \in 0 .. k |->
         IF n = 0 THEN <<>> ELSE IF vs[n] \in S THEN Append(f[n - 1], vs[n]) ELSE f[n - 1]]

LEMMA AmongExists ==
  ASSUME NEW vs, NEW S, NEW k \in Nat
  PROVE  \E f : IsAmong(f, vs, S, k)
<1> DEFINE Bad == {n \in Nat : ~ \E f : IsAmong(f, vs, S, n)}
<1>1. SUFFICES ASSUME Bad # {} PROVE FALSE
  OBVIOUS
<1>2. PICK n \in Bad : \A m \in Bad : n <= m
  BY <1>1, LeastOf
<1>3. CASE n = 0
  <2>1. IsAmong([m \in 0 .. 0 |-> <<>>], vs, S, 0)
    BY DEF IsAmong
  <2> QED
    BY <1>3, <2>1
<1>4. CASE n # 0
  <2>1. n - 1 \in Nat /\ n - 1 \notin Bad
    BY <1>2, <1>4
  <2>2. PICK f : IsAmong(f, vs, S, n - 1)
    BY <2>1
  <2> DEFINE last == IF vs[n] \in S THEN Append(f[n - 1], vs[n]) ELSE f[n - 1]
             h == [m \in 0 .. n |-> IF m = n THEN last ELSE f[m]]
  <2>3. ASSUME NEW m \in 0 .. n
        PROVE  h[m] = IF m = 0 THEN <<>>
                      ELSE IF vs[m] \in S THEN Append(h[m - 1], vs[m]) ELSE h[m - 1]
    <3>1. CASE m = n
      <4>1. m # 0 /\ h[m - 1] = f[n - 1] /\ h[m] = last
        BY <1>4, <3>1
      <4> QED
        BY <3>1, <4>1
    <3>2. CASE m # n
      <4>1. m \in 0 .. n - 1
        BY <3>2
      <4>2. f[m] = IF m = 0 THEN <<>>
                   ELSE IF vs[m] \in S THEN Append(f[m - 1], vs[m]) ELSE f[m - 1]
        BY <2>2, <4>1 DEF IsAmong
      <4>3. m # 0 => h[m - 1] = f[m - 1]
        BY <4>1
      <4>4. h[m] = f[m]
        BY <3>2
      <4> HIDE DEF h
      <4> QED
        BY <4>2, <4>3, <4>4
    <3> QED
      BY <3>1, <3>2
  <2> HIDE DEF h
  <2>4. h = [m \in 0 .. n |-> h[m]]
    BY DEF h
  <2>5. IsAmong(h, vs, S, n)
    BY <2>3, <2>4, Zenon DEF IsAmong
  <2> QED
    BY <2>5
<1> QED
  BY <1>3, <1>4

LEMMA AmongIs ==
  ASSUME NEW vs, NEW S, Len(vs) \in Nat
  PROVE  IsAmong(FirstAmong(vs, S), vs, S, Len(vs))
<1>1. PICK f : IsAmong(f, vs, S, Len(vs))
  BY AmongExists
<1> QED
  BY <1>1 DEF FirstAmong, IsAmong

\* What the values among the first n are.
AmongThese(a, vs, S, n) ==
  /\ a \in Seq(Value) /\ Len(a) <= n
  /\ \A i \in DOMAIN a : a[i] \in S /\ \E m \in 1 .. n : a[i] = vs[m]
  /\ Apart(vs) => Apart(a)
  /\ (\E m \in 1 .. n : vs[m] \notin S) => Len(a) < n

LEMMA AmongWhich ==
  ASSUME NEW vs \in Seq(Value), NEW S
  PROVE  AmongThese(Among(vs, S), vs, S, Len(vs))
<1> DEFINE f == FirstAmong(vs, S)
           Bad == {n \in 0 .. Len(vs) : ~ AmongThese(f[n], vs, S, n)}
<1>1. Len(vs) \in Nat /\ DOMAIN vs = 1 .. Len(vs)
  OBVIOUS
<1>2. IsAmong(f, vs, S, Len(vs))
  BY <1>1, AmongIs
<1> HIDE DEF f
<1>3. ASSUME Bad # {} PROVE FALSE
  <2>1. PICK n \in Bad : \A m \in Bad : n <= m
    <3>1. Bad \subseteq Nat
      BY <1>1
    <3> HIDE DEF Bad
    <3> QED
      BY <1>3, <3>1, LeastOf
  <2>2. n # 0
    <3>1. f[0] = <<>>
      BY <1>1, <1>2 DEF IsAmong
    <3>2. AmongThese(f[0], vs, S, 0)
      BY <3>1 DEF AmongThese, Apart
    <3> QED
      BY <2>1, <3>2
  <2>3. n \in 1 .. Len(vs) /\ n - 1 \in 0 .. Len(vs) /\ n - 1 \notin Bad
    BY <1>1, <2>1, <2>2
  <2> DEFINE a == f[n - 1]
             v == vs[n]
  <2>4. AmongThese(a, vs, S, n - 1) /\ v \in Value
    BY <1>1, <2>3
  <2>5. f[n] = IF v \in S THEN Append(a, v) ELSE a
    <3>1. n \in 0 .. Len(vs)
      BY <2>1
    <3> QED
      BY <1>2, <2>2, <3>1, Zenon DEF IsAmong
  <2>6. CASE v \in S
    <3> HIDE DEF a, v
    <3> DEFINE b == Append(a, v)
    <3>1. /\ b \in Seq(Value) /\ Len(b) = Len(a) + 1 /\ Len(a) \in Nat
          /\ DOMAIN a = 1 .. Len(a) /\ DOMAIN b = 1 .. (Len(a) + 1)
          /\ b[Len(a) + 1] = v /\ \A i \in DOMAIN a : b[i] = a[i]
      BY <2>4 DEF AmongThese
    <3> HIDE DEF b
    <3>2. ASSUME NEW i \in DOMAIN b PROVE b[i] \in S /\ \E m \in 1 .. n : b[i] = vs[m]
      <4>1. CASE i = Len(a) + 1
        BY <2>3, <2>6, <3>1, <4>1 DEF v
      <4>2. CASE i # Len(a) + 1
        <5>1. i \in DOMAIN a
          BY <3>1, <4>2
        <5>2. PICK m \in 1 .. (n - 1) : a[i] = vs[m]
          BY <2>4, <5>1 DEF AmongThese
        <5>3. m \in 1 .. n
          BY <2>3, <1>1
        <5> QED
          BY <2>4, <3>1, <5>1, <5>2, <5>3 DEF AmongThese
      <4> QED
        BY <4>1, <4>2
    <3>3. ASSUME Apart(vs) PROVE Apart(b)
      <4>1. ASSUME NEW i \in DOMAIN a PROVE a[i].symbol # v.symbol
        <5>1. PICK m \in 1 .. (n - 1) : a[i] = vs[m]
          BY <2>4 DEF AmongThese
        <5>2. m \in DOMAIN vs /\ n \in DOMAIN vs /\ m # n
          BY <1>1, <2>3
        <5> QED
          BY <3>3, <5>1, <5>2 DEF Apart, v
      <4>2. Apart(a)
        BY <2>4, <3>3 DEF AmongThese
      <4>3. \A i \in DOMAIN b : i = Len(a) + 1 \/ i \in DOMAIN a
        BY <3>1
      <4> QED
        BY <3>1, <4>1, <4>2, <4>3 DEF Apart
    <3>4. ASSUME \E m \in 1 .. n : vs[m] \notin S PROVE Len(b) < n
      <4>1. \E m \in 1 .. (n - 1) : vs[m] \notin S
        BY <1>1, <2>3, <2>6, <3>4 DEF v
      <4>2. Len(a) < n - 1
        BY <2>4, <4>1 DEF AmongThese
      <4> QED
        BY <1>1, <2>3, <3>1, <4>2
    <3>5. Len(b) <= n
      BY <1>1, <2>3, <2>4, <3>1 DEF AmongThese
    <3>6. AmongThese(b, vs, S, n)
      BY <3>1, <3>2, <3>3, <3>4, <3>5 DEF AmongThese
    <3> QED
      BY <2>1, <2>5, <2>6, <3>6 DEF b
  <2>7. CASE v \notin S
    <3>1. AmongThese(a, vs, S, n)
      <4> HIDE DEF a
      <4>1. Len(a) \in Nat /\ Len(a) <= n - 1
        BY <2>4 DEF AmongThese
      <4>2. Len(a) < n
        BY <1>1, <2>3, <4>1
      <4>3. \A m \in 1 .. (n - 1) : m \in 1 .. n
        BY <1>1, <2>3
      <4> QED
        BY <2>4, <4>2, <4>3 DEF AmongThese
    <3> QED
      BY <2>1, <2>5, <2>7, <3>1
  <2> QED
    BY <2>6, <2>7
<1>4. AmongThese(f[Len(vs)], vs, S, Len(vs))
  BY <1>1, <1>3
<1> QED
  BY <1>4 DEF Among, f

\* A part of the values is as good as they are.
LEMMA AmongStays ==
  ASSUME ValuesInv, NEW S
  PROVE  /\ Among(values, S) \in Seq(Value) /\ Len(Among(values, S)) <= CacheSize
         /\ Apart(Among(values, S)) /\ Stamped(Among(values, S))
         /\ \A i \in DOMAIN Among(values, S) : Among(values, S)[i] \in S
<1> DEFINE a == Among(values, S)
<1>1. AmongThese(a, values, S, Len(values))
  BY AmongWhich DEF ValuesInv
<1> HIDE DEF a
<1>2. a \in Seq(Value) /\ Apart(a) /\ Len(a) <= Len(values) /\ Len(a) \in Nat /\ Len(values) \in Nat
  BY <1>1 DEF AmongThese, ValuesInv
<1>3. Stamped(a)
  BY <1>1 DEF AmongThese, ValuesInv, Stamped
<1>4. Len(a) <= CacheSize
  BY <1>2, CacheTypes DEF ValuesInv
<1> QED
  BY <1>1, <1>2, <1>3, <1>4 DEF AmongThese, a

(***************************************************************************)
(* The steps of the cache.                                                 *)
(***************************************************************************)

LEMMA CacheStarts == CacheInit => CacheIInv
<1> SUFFICES ASSUME CacheInit PROVE CacheIInv
  OBVIOUS
<1>1. now \in Times /\ ValuesInv
  BY CacheTypes DEF CacheInit, Times, ValuesInv, Apart, Stamped
<1>2. LoadsInv
  <2>1. Loading = {}
    BY DEF CacheInit, Loading
  <2> QED
    BY <2>1, CacheTypes, FS_EmptySet DEF CacheInit, LoadsInv
<1>3. ReadersInv
  BY DEF CacheInit, ReadersInv, Reader, ReaderRow, Nothing, Got, NoLoad, Reads
<1>4. FreshServed
  BY DEF CacheInit, FreshServed, Reader
<1> QED
  BY <1>1, <1>2, <1>3, <1>4 DEF CacheIInv

\* Another place for a reader.
LEMMA ReaderMoves ==
  ASSUME CacheIInv, NEW r \in Readers, NEW row \in ReaderRow, reader' = [reader EXCEPT ![r] = row],
         row.asked <= now, row.at \in {"joined", "outside", "awake"} => row.symbol \in Symbols,
         row.at = "served" => \/ row.asked < row.got.began + CacheTtl
                              \/ row.got.ended >= row.asked,
         now' = now
  PROVE  ReadersInv' /\ FreshServed'
<1>1. reader' \in [Readers -> ReaderRow] /\ \A q \in Readers : reader'[q] = IF q = r THEN row ELSE reader[q]
  BY DEF CacheIInv, ReadersInv
<1>2. ReadersInv'
  BY <1>1 DEF CacheIInv, ReadersInv
<1>3. FreshServed'
  BY <1>1 DEF CacheIInv, FreshServed
<1> QED
  BY <1>2, <1>3

LEMMA LookStays ==
  ASSUME CacheIInv, NEW r \in Readers, NEW s \in Symbols, NEW asked \in Nat, asked <= now,
         Look(r, s, asked), now' = now
  PROVE  CacheIInv'
<1> DEFINE unexpired == Unexpired
           cached == For(s, unexpired)
           hit == CHOOSE v \in cached : TRUE
<1>1. /\ unexpired \in Seq(Value) /\ Len(unexpired) <= CacheSize
      /\ Apart(unexpired) /\ Stamped(unexpired)
      /\ \A i \in DOMAIN unexpired : unexpired[i].expires > now
  <2> DEFINE S == {v \in ToSet(values) : v.expires > now}
  <2>1. unexpired = Among(values, S)
    BY DEF Unexpired
  <2>2. /\ unexpired \in Seq(Value) /\ Len(unexpired) <= CacheSize
        /\ Apart(unexpired) /\ Stamped(unexpired)
        /\ \A i \in DOMAIN unexpired : unexpired[i] \in S
    BY <2>1, AmongStays DEF CacheIInv
  <2> HIDE DEF unexpired
  <2> QED
    BY <2>2
<1>2. now \in Nat /\ now' \in Times
  BY CacheTypes DEF CacheIInv, Times
<1>3. CASE cached # {}
  <2>1. hit \in cached
    BY <1>3
  <2>2. PICK h \in DOMAIN unexpired : unexpired[h] = hit /\ hit.symbol = s
    BY <2>1 DEF For, ToSet
  <2> DEFINE rest == Without(s, unexpired)
             S == {v \in ToSet(unexpired) : v.symbol # s}
  <2>3. /\ values' = Append(rest, hit) /\ loads' = loads
        /\ reader' = [reader EXCEPT ![r] = Reader("served", s, asked, hit.got)]
    BY <1>3 DEF Look
  <2>4. AmongThese(rest, unexpired, S, Len(unexpired))
    BY <1>1, AmongWhich DEF Without
  <2> HIDE DEF unexpired, hit, cached
  <2>5. hit \in Value /\ hit.expires = hit.got.began + CacheTtl /\ hit.expires > now
    BY <1>1, <2>2 DEF Stamped
  <2>6. Len(rest) < Len(unexpired)
    <3>1. unexpired[h] \notin S /\ h \in 1 .. Len(unexpired)
      BY <1>1, <2>2
    <3> QED
      BY <2>4, <3>1 DEF AmongThese
  <2>7. rest \in Seq(Value) /\ Apart(rest)
    BY <1>1, <2>4 DEF AmongThese
  <2>8. \A i \in DOMAIN rest : rest[i].symbol # s /\ \E m \in DOMAIN unexpired : rest[i] = unexpired[m]
    BY <1>1, <2>4 DEF AmongThese
  <2> HIDE DEF rest
  <2>9. /\ DOMAIN values' = 1 .. (Len(rest) + 1) /\ Len(values') = Len(rest) + 1
        /\ DOMAIN rest = 1 .. Len(rest) /\ Len(rest) \in Nat /\ values' \in Seq(Value)
        /\ values'[Len(rest) + 1] = hit /\ \A i \in DOMAIN rest : values'[i] = rest[i]
    BY <2>3, <2>5, <2>7
  <2>10. \A i \in DOMAIN values' : i = Len(rest) + 1 \/ i \in DOMAIN rest
    BY <2>9
  <2>11. Apart(values')
    BY <2>2, <2>7, <2>8, <2>9, <2>10 DEF Apart
  <2>12. Stamped(values')
    BY <1>1, <2>5, <2>8, <2>9, <2>10 DEF Stamped
  <2>13. Len(values') <= CacheSize
    BY <1>1, <2>6, <2>9, CacheTypes
  <2>14. ValuesInv'
    BY <2>9, <2>11, <2>12, <2>13 DEF ValuesInv
  <2>15. LoadsInv'
    BY <2>3 DEF CacheIInv, LoadsInv, Loading
  <2> DEFINE row == Reader("served", s, asked, hit.got)
  <2>16. row \in ReaderRow
    BY <2>5 DEF Reader, ReaderRow, Value
  <2>17. row.at = "served" /\ row.asked = asked /\ row.got = hit.got
    BY DEF Reader
  <2>18. hit.got.began \in Int
    BY <2>5 DEF Value, Reads
  <2>19. asked < hit.got.began + CacheTtl
    BY <1>2, <2>5, <2>18, CacheTypes
  <2> HIDE DEF row
  <2>20. ReadersInv' /\ FreshServed'
    BY <2>3, <2>16, <2>17, <2>19, ReaderMoves DEF row
  <2> QED
    BY <1>2, <2>14, <2>15, <2>20 DEF CacheIInv
<1>4. CASE cached = {}
  <2> DEFINE at == IF s \in Loading \/ MayLoad THEN "joined" ELSE "outside"
             row == Reader(at, s, asked, Nothing)
  <2>1. /\ values' = unexpired /\ reader' = [reader EXCEPT ![r] = row]
        /\ loads' = (IF s \notin Loading /\ MayLoad THEN [loads EXCEPT ![s] = now] ELSE loads)
    BY <1>4 DEF Look
  <2>2. ValuesInv'
    BY <1>1, <2>1 DEF ValuesInv
  <2>3. LoadsInv'
    <3>1. CASE s \notin Loading /\ MayLoad
      <4>1. loads' = [loads EXCEPT ![s] = now] /\ now \in Times /\ now # NoLoad
        BY <1>2, <2>1, <3>1 DEF CacheIInv, NoLoad
      <4>2. loads' \in [Symbols -> Times \cup {NoLoad}]
        BY <4>1 DEF CacheIInv, LoadsInv
      <4>3. Loading' = Loading \cup {s}
        BY <4>1 DEF CacheIInv, LoadsInv, Loading
      <4>4. IsFiniteSet(Loading) /\ Cardinality(Loading) < CacheSize
        BY <3>1 DEF MayLoad, CacheIInv, LoadsInv
      <4>5. IsFiniteSet(Loading') /\ Cardinality(Loading') = Cardinality(Loading) + 1
        BY <3>1, <4>3, <4>4, FS_AddElement
      <4>6. Cardinality(Loading) \in Nat
        BY <4>4, FS_CardinalityType
      <4> QED
        BY <4>2, <4>4, <4>5, <4>6, CacheTypes DEF LoadsInv
    <3>2. CASE ~ (s \notin Loading /\ MayLoad)
      BY <2>1, <3>2 DEF CacheIInv, LoadsInv, Loading
    <3> QED
      BY <3>1, <3>2
  <2>4. row \in ReaderRow /\ row.at # "served" /\ row.asked = asked /\ row.symbol = s
    BY DEF Reader, ReaderRow, Nothing, Got, NoLoad, Reads
  <2> HIDE DEF row
  <2>5. ReadersInv' /\ FreshServed'
    BY <2>1, <2>4, ReaderMoves
  <2> QED
    BY <1>2, <2>2, <2>3, <2>5 DEF CacheIInv
<1> QED
  BY <1>3, <1>4

LEMMA LoadStays ==
  ASSUME CacheIInv, NEW s \in Symbols, NEW ok \in BOOLEAN, LoadEnds(s, ok)
  PROVE  CacheIInv'
<1> DEFINE got == Got(loads[s], now)
           S == {v \in ToSet(values) : v.symbol # s}
           rest == Without(s, values)
           new == [symbol |-> s, expires |-> Expiry(loads[s]), got |-> got]
           kept == Append(rest, new)
           from == Max({1, Len(kept) - CacheSize + 1})
<1>1. /\ loads' = [loads EXCEPT ![s] = NoLoad] /\ now' = now /\ s \in Loading
      /\ values' = IF ok /\ now < Expiry(loads[s]) THEN SubSeq(kept, from, Len(kept)) ELSE values
      /\ reader' = [r \in Readers |->
            CASE reader[r].at = "joined" /\ reader[r].symbol = s ->
                   Reader(IF ok THEN "served" ELSE "failed", s, reader[r].asked, got)
              [] reader[r].at = "outside" -> [reader[r] EXCEPT !.at = "awake"]
              [] OTHER -> reader[r]]
  BY DEF LoadEnds
<1>2. now \in Nat /\ now \in Times /\ loads[s] \in Nat
  BY <1>1, CacheTypes DEF CacheIInv, LoadsInv, Loading, Times
<1>3. got \in Reads /\ got.began = loads[s] /\ got.ended = now
  BY <1>2 DEF Got, Reads
<1>4. new \in Value /\ new.expires = new.got.began + CacheTtl /\ new.symbol = s
  BY <1>2, <1>3, CacheTypes DEF Value, Expiry
<1>5. ValuesInv'
  <2>1. CASE ~ (ok /\ now < Expiry(loads[s]))
    BY <1>1, <2>1 DEF CacheIInv, ValuesInv
  <2>2. CASE ok /\ now < Expiry(loads[s])
    <3>1. values' = SubSeq(kept, from, Len(kept))
      BY <1>1, <2>2
    <3>2. AmongThese(rest, values, S, Len(values))
      BY AmongWhich DEF Without, CacheIInv, ValuesInv
    <3>3. rest \in Seq(Value) /\ Apart(rest) /\ Len(rest) <= Len(values)
      BY <3>2 DEF AmongThese, CacheIInv, ValuesInv
    <3>4. \A i \in DOMAIN rest : rest[i].symbol # s /\ \E m \in DOMAIN values : rest[i] = values[m]
      BY <3>2 DEF AmongThese, CacheIInv, ValuesInv
    <3>5. Stamped(rest)
      BY <3>4 DEF Stamped, CacheIInv, ValuesInv
    <3> HIDE DEF rest, new
    <3>6. /\ DOMAIN kept = 1 .. (Len(rest) + 1) /\ Len(kept) = Len(rest) + 1
          /\ DOMAIN rest = 1 .. Len(rest) /\ Len(rest) \in Nat /\ kept \in Seq(Value)
          /\ kept[Len(rest) + 1] = new /\ \A i \in DOMAIN rest : kept[i] = rest[i]
      BY <1>4, <3>3
    <3> HIDE DEF kept
    <3>7. \A i \in DOMAIN kept : i = Len(rest) + 1 \/ i \in DOMAIN rest
      BY <3>6
    <3>8. Apart(kept)
      BY <1>4, <3>3, <3>4, <3>6, <3>7 DEF Apart
    <3>9. Stamped(kept)
      BY <1>4, <3>5, <3>6, <3>7 DEF Stamped
    <3>10. from \in Nat /\ from >= 1 /\ from >= Len(kept) - CacheSize + 1 /\ from <= Len(kept)
      <4> DEFINE x == Len(kept) - CacheSize + 1
      <4>1. x \in Int /\ x <= Len(kept) /\ 1 <= Len(kept)
        BY <3>6, CacheTypes
      <4> HIDE DEF x
      <4>2. Max({1, x}) = IF x <= 1 THEN 1 ELSE x
        BY <4>1 DEF Max
      <4> QED
        BY <3>6, <4>1, <4>2 DEF x
    <3> HIDE DEF from
    <3>11. /\ values' \in Seq(Value) /\ Len(values') = Len(kept) - from + 1
           /\ DOMAIN values' = 1 .. (Len(kept) - from + 1)
           /\ \A i \in 1 .. (Len(kept) - from + 1) :
                values'[i] = kept[i + from - 1] /\ i + from - 1 \in DOMAIN kept
      BY <3>1, <3>6, <3>10
    <3>12. Apart(values')
      <4> SUFFICES ASSUME NEW i \in DOMAIN values', NEW j \in DOMAIN values',
                          values'[i].symbol = values'[j].symbol
                   PROVE  i = j
        BY DEF Apart
      <4>1. i + from - 1 = j + from - 1
        BY <3>8, <3>11 DEF Apart
      <4>2. i \in Int /\ j \in Int
        BY <3>11
      <4> QED
        BY <3>10, <4>1, <4>2
    <3>13. Stamped(values')
      BY <3>9, <3>11 DEF Stamped
    <3>14. Len(values') <= CacheSize
      BY <3>6, <3>10, <3>11, CacheTypes
    <3> QED
      BY <3>11, <3>12, <3>13, <3>14 DEF ValuesInv
  <2> QED
    BY <2>1, <2>2
<1>6. LoadsInv'
  <2>1. loads' \in [Symbols -> Times \cup {NoLoad}]
    BY <1>1 DEF CacheIInv, LoadsInv
  <2>2. Loading' \subseteq Loading
    BY <1>1 DEF CacheIInv, LoadsInv, Loading
  <2>3. IsFiniteSet(Loading') /\ Cardinality(Loading') <= Cardinality(Loading)
    BY <2>2, FS_Subset DEF CacheIInv, LoadsInv
  <2>4. Cardinality(Loading) \in Nat /\ Cardinality(Loading') \in Nat
    BY <2>3, FS_CardinalityType DEF CacheIInv, LoadsInv
  <2> QED
    BY <2>1, <2>3, <2>4, CacheTypes DEF CacheIInv, LoadsInv
<1> HIDE DEF got, rest, new, kept, from
<1>7. ASSUME NEW r \in Readers
      PROVE  /\ reader'[r] \in ReaderRow /\ reader'[r].asked <= now
             /\ reader'[r].at \in {"joined", "outside", "awake"} => reader'[r].symbol \in Symbols
             /\ reader'[r].at = "served" =>
                  \/ reader'[r].asked < reader'[r].got.began + CacheTtl
                  \/ reader'[r].got.ended >= reader'[r].asked
  <2>1. /\ reader[r] \in ReaderRow /\ reader[r].asked \in Nat /\ reader[r].asked <= now
        /\ reader[r].at \in {"joined", "outside", "awake"} => reader[r].symbol \in Symbols
    BY DEF CacheIInv, ReadersInv, ReaderRow
  <2>2. CASE reader[r].at = "joined" /\ reader[r].symbol = s
    <3> DEFINE row == Reader(IF ok THEN "served" ELSE "failed", s, reader[r].asked, got)
    <3>1. reader'[r] = row
      BY <1>1, <2>2
    <3>2. row \in ReaderRow /\ row.asked = reader[r].asked /\ row.got = got
          /\ row.at \in {"served", "failed"}
      BY <1>3, <2>1 DEF Reader, ReaderRow
    <3> HIDE DEF row
    <3> QED
      BY <1>2, <1>3, <2>1, <3>1, <3>2
  <2>3. CASE reader[r].at = "outside"
    <3>1. reader'[r] = [reader[r] EXCEPT !.at = "awake"]
      BY <1>1, <2>3
    <3> QED
      BY <2>1, <2>3, <3>1 DEF ReaderRow
  <2>4. CASE ~ (reader[r].at = "joined" /\ reader[r].symbol = s) /\ reader[r].at # "outside"
    <3>1. reader'[r] = reader[r]
      BY <1>1, <2>4
    <3> QED
      BY <2>1, <3>1 DEF CacheIInv, FreshServed
  <2> QED
    BY <2>2, <2>3, <2>4
<1>8. ReadersInv' /\ FreshServed'
  <2>1. reader' \in [Readers -> ReaderRow]
    <3>1. reader' = [r \in Readers |-> reader'[r]]
      BY <1>1
    <3> QED
      BY <1>7, <3>1
  <2> QED
    BY <1>1, <1>7, <2>1 DEF ReadersInv, FreshServed
<1> QED
  BY <1>1, <1>2, <1>5, <1>6, <1>8 DEF CacheIInv

LEMMA CacheStays == CacheIInv /\ [CacheNext]_cacheVars => CacheIInv'
<1> SUFFICES ASSUME CacheIInv, [CacheNext]_cacheVars PROVE CacheIInv'
  OBVIOUS
<1>1. now \in Nat
  BY CacheTypes DEF CacheIInv, Times
<1>2. ASSUME NEW r \in Readers, NEW s \in Symbols, Ask(r, s) PROVE CacheIInv'
  BY <1>1, <1>2, LookStays DEF Ask
<1>3. ASSUME NEW r \in Readers, LookAgain(r) PROVE CacheIInv'
  <2>1. reader[r].symbol \in Symbols /\ reader[r].asked \in Nat /\ reader[r].asked <= now
    BY <1>3 DEF LookAgain, CacheIInv, ReadersInv, ReaderRow
  <2> QED
    BY <1>3, <2>1, LookStays DEF LookAgain
<1>4. ASSUME NEW r \in Readers, Leaves(r) PROVE CacheIInv'
  <2> DEFINE row == [reader[r] EXCEPT !.at = "left"]
  <2>1. reader' = [reader EXCEPT ![r] = row] /\ UNCHANGED <<now, values, loads>>
    BY <1>4 DEF Leaves, LeaveLoad
  <2>2. row \in ReaderRow /\ row.at = "left" /\ row.asked <= now
    BY DEF CacheIInv, ReadersInv, ReaderRow
  <2> HIDE DEF row
  <2>3. ReadersInv' /\ FreshServed'
    BY <2>1, <2>2, ReaderMoves
  <2>4. ValuesInv' /\ LoadsInv'
    BY <2>1 DEF CacheIInv, ValuesInv, LoadsInv, Loading
  <2> QED
    BY <2>1, <2>3, <2>4 DEF CacheIInv
<1>5. ASSUME CacheTick PROVE CacheIInv'
  <2>1. now' = now + 1 /\ now' \in Times /\ UNCHANGED <<values, loads, reader>>
    BY <1>1, <1>5, CacheTypes DEF CacheTick, Times
  <2>2. ReadersInv'
    BY <1>1, <2>1 DEF CacheIInv, ReadersInv, ReaderRow
  <2> QED
    BY <2>1, <2>2 DEF CacheIInv, ValuesInv, LoadsInv, Loading, FreshServed
<1>6. ASSUME UNCHANGED cacheVars PROVE CacheIInv'
  BY <1>6 DEF cacheVars, CacheIInv, ValuesInv, LoadsInv, Loading, ReadersInv, FreshServed
<1> QED
  BY <1>2, <1>3, <1>4, <1>5, <1>6, LoadStays DEF CacheNext, CacheProgress

LEMMA CacheIsSafe == CacheIInv => CacheInv
  BY DEF CacheIInv, ValuesInv, LoadsInv, Apart, CacheInv, CacheTypeOK

(***************************************************************************)
(* Both, beside the memory writer.                                         *)
(***************************************************************************)

\* A suite saves what it has done before it ends, keeps the attempts of an index apart
\* from those of another and gives way to people; and no reader of a quote page is given
\* what was old when it asked.  For any manifest in order, any readers, and any bounds.
THEOREM BehindIsKept == BackgroundSpec => []BehindInv
<1> DEFINE Both == SuiteIInv /\ CacheIInv
<1>1. BackgroundInit => Both
  BY SuiteStarts, CacheStarts DEF BackgroundInit
<1>2. Both /\ [BackgroundNext]_backgroundVars => Both'
  <2> SUFFICES ASSUME Both, [BackgroundNext]_backgroundVars PROVE Both'
    OBVIOUS
  <2>1. [SuiteNext]_suiteVars /\ [CacheNext]_cacheVars
    <3>1. CASE BackgroundNext
      BY <3>1 DEF BackgroundNext, Advances
    <3>2. CASE UNCHANGED backgroundVars
      BY <3>2 DEF backgroundVars
    <3> QED
      BY <3>1, <3>2
  <2> QED
    BY <2>1, SuiteStays, CacheStays
<1>3. Both => SuiteInv /\ CacheInv
  BY SuiteIsSafe, CacheIsSafe
<1> HIDE DEF Both
<1>4. BackgroundSpec => []Both
  BY <1>1, <1>2, PTL DEF BackgroundSpec
<1>5. BackgroundSpec => []TypeOK
  BY BackgroundIsMemory, MemoryTypes, PTL
<1>6. Both /\ TypeOK => BehindInv
  BY <1>3 DEF BehindInv
<1> QED
  BY <1>4, <1>5, <1>6, PTL
===============================================================================
