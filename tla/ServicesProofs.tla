--------------------------- MODULE ServicesProofs ----------------------------
(***************************************************************************)
(* Proofs about the services that run beside an answer: the failover of    *)
(* the model client, the bot's start and stop, what becomes of a           *)
(* complaint, deep research, and the database, its backups, its migration  *)
(* and its move, for any number of calls, kinds of error, runs, homes,     *)
(* boots, lapses, reports, rows and failures; the repair of memories and   *)
(* the verdicts of benchmarks, for any tables and cases. Each part is      *)
(* proved on its own; Services moves one of them, and a part that rests    *)
(* keeps what is true of it.                                               *)
(***************************************************************************)
EXTENDS Services, KnowledgeProofs, FiniteSetTheorems, SequenceTheorems,
        NaturalsInduction, WellFoundedInduction, TLAPS

------------------------------------------------------------------------------
(* ModelClient.  A call's list of attempts follows the list of the models  *)
(* it asked, over both providers (Told).  Of the shared table: while a     *)
(* deployment's error stands and nobody has lifted it, its entry is the    *)
(* one that was written, and a call that may still ask this model was      *)
(* under way when it broke (TableInv).                                     *)

Attempts == [number : Nat, model : Models]
CallRows ==
  [at : {"idle", "asking", "pausing", "over"}, plan : Seq(Models), pos : Nat \ {0},
   again : BOOLEAN, retries : BOOLEAN, crosses : BOOLEAN, asked : Seq(Models),
   prior : Seq(Attempts), attempts : Seq(Attempts)]

Told(r) ==
  /\ Len(r.asked) = Len(r.prior) + Len(r.attempts) + (IF r.at = "asking" THEN 1 ELSE 0)
  /\ \A i \in 1 .. Len(r.prior) : r.prior[i] = [number |-> i, model |-> r.asked[i]]
  /\ \A i \in 1 .. Len(r.attempts) :
       r.attempts[i] = [number |-> i, model |-> r.asked[Len(r.prior) + i]]
  /\ r.at = "asking" => r.asked[Len(r.asked)] = r.plan[r.pos]
  /\ r.crosses => r.prior = <<>>

\* The list of a call that is between two models.
Listed(r) ==
  /\ Len(r.asked) = Len(r.prior) + Len(r.attempts)
  /\ \A i \in 1 .. Len(r.prior) : r.prior[i] = [number |-> i, model |-> r.asked[i]]
  /\ \A i \in 1 .. Len(r.attempts) :
       r.attempts[i] = [number |-> i, model |-> r.asked[Len(r.prior) + i]]
  /\ r.crosses => r.prior = <<>>

InPlan(r) ==
  /\ r.pos \in 1 .. Len(r.plan)
  /\ \A i, j \in 1 .. Len(r.plan) : r.plan[i] = r.plan[j] => i = j
  /\ r.crosses => \A i \in 1 .. Len(r.plan) : r.plan[i] # Other

CallOK(r) == r \in CallRows /\ (r.at \in {"asking", "pausing"} => Told(r) /\ InPlan(r))

CallsInv == call \in [Inferences -> CallRows] /\ \A c \in Inferences : CallOK(call[c])

StillAsks(r, m) == \E i \in r.pos .. Len(r.plan) : r.plan[i] = m

TableInv ==
  /\ time \in 0 .. ClientHorizon /\ until \in [Models -> Nat]
  /\ broken \in [Models -> [until : Nat, racing : SUBSET Inferences, lifted : BOOLEAN]]
  /\ \A m \in Models : time < broken[m].until /\ ~ broken[m].lifted =>
       /\ until[m] = broken[m].until
       /\ \A c \in Underway : StillAsks(call[c], m) => c \in broken[m].racing

ClientIInv == CallsInv /\ TableInv

LEMMA ModelFacts == {Main, Backup, Other} = Models /\ Main # Backup /\ Main # Other /\ Backup # Other
<1>1. Cardinality({Main, Backup, Other}) = 3
  BY ClientAssumption
<1>2. ASSUME NEW x, NEW y PROVE Cardinality({x, y}) <= 2
  <2>1. IsFiniteSet({x}) /\ Cardinality({x}) = 1
    BY FS_Singleton
  <2>2. {x, y} = {x} \cup {y}
    OBVIOUS
  <2>3. Cardinality({x, y}) = Cardinality({x}) \/ Cardinality({x, y}) = Cardinality({x}) + 1
    BY <2>1, <2>2, FS_AddElement, Zenon
  <2> QED
    BY <2>1, <2>3
<1>3. Main # Backup
  <2> SUFFICES ASSUME Main = Backup PROVE FALSE
    OBVIOUS
  <2>1. {Main, Backup, Other} = {Main, Other}
    OBVIOUS
  <2> QED
    BY <1>1, <1>2, <2>1
<1>4. Main # Other
  <2> SUFFICES ASSUME Main = Other PROVE FALSE
    OBVIOUS
  <2>1. {Main, Backup, Other} = {Main, Backup}
    OBVIOUS
  <2>2. Cardinality({Main, Backup}) = 3
    BY <1>1, <2>1, Zenon
  <2>3. Cardinality({Main, Backup}) <= 2
    BY <1>2, Zenon
  <2>4. 3 <= 2
    BY <2>2, <2>3, Zenon
  <2> QED
    BY <2>4
<1>5. Backup # Other
  <2> SUFFICES ASSUME Backup = Other PROVE FALSE
    OBVIOUS
  <2>1. {Main, Backup, Other} = {Main, Backup}
    OBVIOUS
  <2>2. Cardinality({Main, Backup}) = 3
    BY <1>1, <2>1, Zenon
  <2>3. Cardinality({Main, Backup}) <= 2
    BY <1>2, Zenon
  <2>4. 3 <= 2
    BY <2>2, <2>3, Zenon
  <2> QED
    BY <2>4
<1> QED
  BY <1>3, <1>4, <1>5 DEF Models

\* What a call becomes when it asks the model its plan is at.
LEMMA AskedRow ==
  ASSUME NEW r \in CallRows, r.pos \in 1 .. Len(r.plan)
  PROVE  /\ Ask1(r) = [at |-> "asking", plan |-> r.plan, pos |-> r.pos, again |-> r.again,
                       retries |-> r.retries, crosses |-> r.crosses,
                       asked |-> Append(r.asked, r.plan[r.pos]), prior |-> r.prior,
                       attempts |-> r.attempts]
         /\ Ask1(r) \in CallRows
<1>1. r.plan[r.pos] \in Models /\ r.asked \in Seq(Models)
  BY DEF CallRows
<1>2. Append(r.asked, r.plan[r.pos]) \in Seq(Models)
  BY <1>1
<1>3. Ask1(r) = [at |-> "asking", plan |-> r.plan, pos |-> r.pos, again |-> r.again,
                       retries |-> r.retries, crosses |-> r.crosses,
                       asked |-> Append(r.asked, r.plan[r.pos]), prior |-> r.prior,
                       attempts |-> r.attempts]
  <2>1. ASSUME NEW a PROVE [r EXCEPT !.at = a] = [at |-> a, plan |-> r.plan, pos |-> r.pos,
                       again |-> r.again, retries |-> r.retries, crosses |-> r.crosses,
                       asked |-> r.asked, prior |-> r.prior, attempts |-> r.attempts]
    BY DEF CallRows
  <2>2. PICK q : q = [at |-> "asking", plan |-> r.plan, pos |-> r.pos,
                       again |-> r.again, retries |-> r.retries, crosses |-> r.crosses,
                       asked |-> r.asked, prior |-> r.prior, attempts |-> r.attempts]
    OBVIOUS
  <2>3. PICK l : l = Append(r.asked, r.plan[r.pos])
    OBVIOUS
  <2>4. [q EXCEPT !.asked = l] = [at |-> "asking", plan |-> r.plan, pos |-> r.pos,
                       again |-> r.again, retries |-> r.retries, crosses |-> r.crosses,
                       asked |-> l, prior |-> r.prior, attempts |-> r.attempts]
    BY <2>2
  <2>5. [r EXCEPT !.at = "asking"] = q
    BY <2>1, <2>2
  <2>6. q.asked = r.asked
    BY <2>2
  <2>7. Ask1(r) = [q EXCEPT !.asked = l]
    BY <2>3, <2>5, <2>6, Zenon DEF Ask1
  <2> QED
    BY <2>3, <2>4, <2>7
<1> QED
  BY <1>2, <1>3 DEF CallRows

\* A call asks one model more: its list of models grows, the attempts stay.
LEMMA AskingTells ==
  ASSUME NEW r \in CallRows, InPlan(r), Listed(r)
  PROVE  CallOK(Ask1(r))
<1> DEFINE q == Ask1(r)
<1>1. /\ q.asked = Append(r.asked, r.plan[r.pos]) /\ q.at = "asking" /\ q.prior = r.prior
      /\ q.attempts = r.attempts /\ q.plan = r.plan /\ q.pos = r.pos /\ q.crosses = r.crosses
      /\ q \in CallRows
  BY AskedRow DEF InPlan
<1>2. /\ r.asked \in Seq(Models) /\ r.plan[r.pos] \in Models /\ Len(r.asked) \in Nat
      /\ Len(r.prior) \in Nat /\ Len(r.attempts) \in Nat
  BY DEF CallRows, InPlan
<1> HIDE DEF q
<1>3. /\ Len(q.asked) = Len(r.asked) + 1 /\ q.asked[Len(q.asked)] = r.plan[r.pos]
      /\ \A i \in 1 .. Len(r.asked) : q.asked[i] = r.asked[i]
  BY <1>1, <1>2
<1>4. Len(r.asked) = Len(r.prior) + Len(r.attempts)
  BY DEF Listed
<1>a. /\ \A i \in 1 .. Len(r.prior) : i \in 1 .. Len(r.asked)
      /\ \A i \in 1 .. Len(r.attempts) : Len(r.prior) + i \in 1 .. Len(r.asked)
  <2>1. PICK a \in Nat, p \in Nat, t \in Nat :
          a = Len(r.asked) /\ p = Len(r.prior) /\ t = Len(r.attempts)
    BY <1>2
  <2>2. a = p + t
    BY <1>4, <2>1
  <2>3. (\A i \in 1 .. p : i \in 1 .. a) /\ \A i \in 1 .. t : p + i \in 1 .. a
    BY <2>2
  <2> QED
    BY <2>1, <2>3, Zenon
<1>5. \A i \in 1 .. Len(r.prior) : q.prior[i] = [number |-> i, model |-> q.asked[i]]
  BY <1>1, <1>3, <1>a DEF Listed
<1>6. \A i \in 1 .. Len(r.attempts) :
        q.attempts[i] = [number |-> i, model |-> q.asked[Len(r.prior) + i]]
  BY <1>1, <1>3, <1>a DEF Listed
<1>7. Told(q)
  BY <1>1, <1>2, <1>3, <1>4, <1>5, <1>6 DEF Told, Listed
<1>8. InPlan(q)
  BY <1>1 DEF InPlan
<1> QED
  BY <1>1, <1>7, <1>8 DEF CallOK, q

\* A row, field by field: what a step that changes one of them leaves.
CallRec(a, b, c, d, e, f, g, h, k) ==
  [at |-> a, plan |-> b, pos |-> c, again |-> d, retries |-> e, crosses |-> f, asked |-> g,
   prior |-> h, attempts |-> k]

LEMMA SetAt ==
  ASSUME NEW a, NEW b, NEW c, NEW d, NEW e, NEW f, NEW g, NEW h, NEW k, NEW v
  PROVE  [CallRec(a, b, c, d, e, f, g, h, k) EXCEPT !.at = v] = CallRec(v, b, c, d, e, f, g, h, k)
  BY DEF CallRec

LEMMA SetPlan ==
  ASSUME NEW a, NEW b, NEW c, NEW d, NEW e, NEW f, NEW g, NEW h, NEW k, NEW v
  PROVE  [CallRec(a, b, c, d, e, f, g, h, k) EXCEPT !.plan = v] = CallRec(a, v, c, d, e, f, g, h, k)
  BY DEF CallRec

LEMMA SetPos ==
  ASSUME NEW a, NEW b, NEW c, NEW d, NEW e, NEW f, NEW g, NEW h, NEW k, NEW v
  PROVE  [CallRec(a, b, c, d, e, f, g, h, k) EXCEPT !.pos = v] = CallRec(a, b, v, d, e, f, g, h, k)
  BY DEF CallRec

LEMMA SetAgain ==
  ASSUME NEW a, NEW b, NEW c, NEW d, NEW e, NEW f, NEW g, NEW h, NEW k, NEW v
  PROVE  [CallRec(a, b, c, d, e, f, g, h, k) EXCEPT !.again = v] = CallRec(a, b, c, v, e, f, g, h, k)
  BY DEF CallRec

LEMMA SetRetries ==
  ASSUME NEW a, NEW b, NEW c, NEW d, NEW e, NEW f, NEW g, NEW h, NEW k, NEW v
  PROVE  [CallRec(a, b, c, d, e, f, g, h, k) EXCEPT !.retries = v] = CallRec(a, b, c, d, v, f, g, h, k)
  BY DEF CallRec

LEMMA SetCrosses ==
  ASSUME NEW a, NEW b, NEW c, NEW d, NEW e, NEW f, NEW g, NEW h, NEW k, NEW v
  PROVE  [CallRec(a, b, c, d, e, f, g, h, k) EXCEPT !.crosses = v] = CallRec(a, b, c, d, e, v, g, h, k)
  BY DEF CallRec

LEMMA SetPrior ==
  ASSUME NEW a, NEW b, NEW c, NEW d, NEW e, NEW f, NEW g, NEW h, NEW k, NEW v
  PROVE  [CallRec(a, b, c, d, e, f, g, h, k) EXCEPT !.prior = v] = CallRec(a, b, c, d, e, f, g, v, k)
  BY DEF CallRec

LEMMA SetAttempts ==
  ASSUME NEW a, NEW b, NEW c, NEW d, NEW e, NEW f, NEW g, NEW h, NEW k, NEW v
  PROVE  [CallRec(a, b, c, d, e, f, g, h, k) EXCEPT !.attempts = v] = CallRec(a, b, c, d, e, f, g, h, v)
  BY DEF CallRec

LEMMA RowsAre ==
  ASSUME NEW r \in CallRows
  PROVE  r = CallRec(r.at, r.plan, r.pos, r.again, r.retries, r.crosses, r.asked, r.prior, r.attempts)
  BY DEF CallRec, CallRows

\* An attempt that has failed is recorded.
LEMMA NotesTell ==
  ASSUME NEW r \in CallRows, r.at = "asking", InPlan(r), Told(r)
  PROVE  LET n == Noted(r)
         IN  /\ n \in CallRows /\ n.at = "asking" /\ n.asked = r.asked /\ n.prior = r.prior
             /\ n.plan = r.plan /\ n.pos = r.pos /\ n.crosses = r.crosses /\ n.again = r.again
             /\ n.retries = r.retries /\ Listed(n) /\ InPlan(n)
<1> DEFINE n == Noted(r)
           new == [number |-> Len(r.attempts) + 1, model |-> r.plan[r.pos]]
<1>1. /\ r.attempts \in Seq(Attempts) /\ Len(r.attempts) \in Nat /\ Len(r.prior) \in Nat
      /\ r.plan[r.pos] \in Models
  BY DEF CallRows, InPlan
<1>2. new \in Attempts
  BY <1>1 DEF Attempts
<1>3. n = [at |-> r.at, plan |-> r.plan, pos |-> r.pos, again |-> r.again, retries |-> r.retries,
           crosses |-> r.crosses, asked |-> r.asked, prior |-> r.prior,
           attempts |-> Append(r.attempts, new)]
  <2>1. ASSUME NEW l
        PROVE  [r EXCEPT !.attempts = l] =
                 [at |-> r.at, plan |-> r.plan, pos |-> r.pos, again |-> r.again,
                  retries |-> r.retries, crosses |-> r.crosses, asked |-> r.asked,
                  prior |-> r.prior, attempts |-> l]
    BY RowsAre, SetAttempts DEF CallRec
  <2>2. n = [r EXCEPT !.attempts = Append(r.attempts, new)]
    BY Zenon DEF Noted
  <2> QED
    BY <2>1, <2>2
<1>4. Append(r.attempts, new) \in Seq(Attempts)
  BY <1>1, <1>2
<1>5. n \in CallRows
  BY <1>3, <1>4 DEF CallRows
<1>6. /\ n.at = "asking" /\ n.asked = r.asked /\ n.prior = r.prior /\ n.plan = r.plan
      /\ n.pos = r.pos /\ n.crosses = r.crosses /\ n.again = r.again /\ n.retries = r.retries
      /\ n.attempts = Append(r.attempts, new)
  BY <1>3
<1> HIDE DEF n
<1>7. /\ Len(n.attempts) = Len(r.attempts) + 1 /\ n.attempts[Len(r.attempts) + 1] = new
      /\ \A i \in 1 .. Len(r.attempts) : n.attempts[i] = r.attempts[i]
  BY <1>1, <1>2, <1>6
<1>0. PICK a \in Nat, p \in Nat, t \in Nat :
        /\ a = Len(r.asked) /\ p = Len(r.prior) /\ t = Len(r.attempts)
        /\ a = p + t + 1 /\ a = p + (t + 1)
  <2>1. PICK a \in Nat, p \in Nat, t \in Nat :
          a = Len(r.asked) /\ p = Len(r.prior) /\ t = Len(r.attempts)
    BY <1>1 DEF CallRows
  <2>2. a = p + t + 1
    BY <2>1 DEF Told
  <2>3. a = p + (t + 1)
    BY <2>2
  <2> QED
    BY <2>1, <2>2, <2>3, Zenon
<1>8. Len(n.asked) = Len(n.prior) + Len(n.attempts)
  <2>1. Len(n.asked) = a /\ Len(n.prior) = p /\ Len(n.attempts) = t + 1
    BY <1>0, <1>6, <1>7
  <2> QED
    BY <1>0, <2>1, Zenon
<1>9. new = [number |-> Len(r.attempts) + 1, model |-> n.asked[Len(n.prior) + (Len(r.attempts) + 1)]]
  <2>1. Len(r.asked) = Len(n.prior) + (Len(r.attempts) + 1)
    <3>1. Len(r.asked) = a /\ Len(n.prior) = p /\ Len(r.attempts) = t
      BY <1>0, <1>6
    <3> QED
      BY <1>0, <3>1, Zenon
  <2>2. n.asked[Len(n.prior) + (Len(r.attempts) + 1)] = r.plan[r.pos]
    BY <1>6, <2>1 DEF Told
  <2> QED
    BY <2>2
<1> HIDE DEF new
<1>10. \A i \in 1 .. Len(n.attempts) :
         n.attempts[i] = [number |-> i, model |-> n.asked[Len(n.prior) + i]]
  <2> SUFFICES ASSUME NEW i \in 1 .. Len(n.attempts)
               PROVE  n.attempts[i] = [number |-> i, model |-> n.asked[Len(n.prior) + i]]
    OBVIOUS
  <2>1. CASE i = Len(r.attempts) + 1
    BY <1>7, <1>9, <2>1
  <2>2. CASE i # Len(r.attempts) + 1
    <3>1. i \in 1 .. Len(r.attempts)
      BY <1>1, <1>7, <2>2
    <3> QED
      BY <1>6, <1>7, <3>1 DEF Told
  <2> QED
    BY <2>1, <2>2
<1>11. \A i \in 1 .. Len(n.prior) : n.prior[i] = [number |-> i, model |-> n.asked[i]]
  BY <1>6 DEF Told
<1>12. n.crosses => n.prior = <<>>
  BY <1>6 DEF Told
<1>13. Listed(n) /\ InPlan(n)
  BY <1>6, <1>8, <1>10, <1>11, <1>12 DEF Listed, InPlan
<1> QED
  BY <1>5, <1>6, <1>13 DEF n

LEMMA Pair == ASSUME NEW a, NEW b PROVE <<a>> \o <<b>> = <<a, b>>
<1>1. /\ <<a>> \in Seq({a, b}) /\ <<b>> \in Seq({a, b}) /\ Len(<<a>>) = 1 /\ Len(<<b>>) = 1
      /\ <<a>>[1] = a /\ <<b>>[1] = b
  OBVIOUS
<1>2. PICK s : s = <<a>> \o <<b>>
  OBVIOUS
<1>3. s \in Seq({a, b}) /\ Len(s) = 2 /\ s[1] = a /\ s[2] = b
  <2>1. /\ s \in Seq({a, b}) /\ Len(s) = Len(<<a>>) + Len(<<b>>)
        /\ \A i \in 1 .. Len(<<a>>) + Len(<<b>>) :
             s[i] = IF i <= Len(<<a>>) THEN <<a>>[i] ELSE <<b>>[i - Len(<<a>>)]
    BY <1>1, <1>2, ConcatProperties, Zenon
  <2> QED
    BY <1>1, <2>1
<1>4. s = <<a, b>>
  BY <1>3
<1> QED
  BY <1>2, <1>4

Short(p) ==
  /\ p \in Seq(Models) /\ Len(p) \in 0 .. 2 /\ (p # <<>> => 1 \in 1 .. Len(p))
  /\ \A i, j \in 1 .. Len(p) : p[i] = p[j] => i = j
  /\ \A i \in 1 .. Len(p) : p[i] # Other /\ ~ Unhealthy(p[i])

LEMMA ShortPlans ==
  ASSUME NEW m \in {Main, Backup}, NEW feature, NEW metered \in BOOLEAN
  PROVE  Short(Candidates(m, feature, metered))
<1> DEFINE p == Candidates(m, feature, metered)
<1>1. \/ p = <<>> \/ (p = <<m>> /\ ~ Unhealthy(m)) \/ (p = <<Backup>> /\ ~ Unhealthy(Backup))
      \/ (p = <<Main, Backup>> /\ ~ Unhealthy(Main) /\ ~ Unhealthy(Backup))
  <2>1. /\ <<>> \o <<>> = <<>> /\ <<m>> \o <<>> = <<m>> /\ <<>> \o <<Backup>> = <<Backup>>
        /\ <<Main>> \o <<Backup>> = <<Main, Backup>>
    <3>1. <<>> \o <<>> = <<>>
      OBVIOUS
    <3>2. <<m>> \o <<>> = <<m>>
      OBVIOUS
    <3>3. <<>> \o <<Backup>> = <<Backup>>
      OBVIOUS
    <3> QED
      BY <3>1, <3>2, <3>3, Pair
  <2>2. PICK q \in {<<>>, <<m>>} : q = IfHealthy(m) /\ (q = <<m>> => ~ Unhealthy(m))
    BY DEF IfHealthy
  <2>3. PICK q2 \in {<<>>, <<Backup>>} : /\ q2 = <<Backup>> => ~ Unhealthy(Backup) /\ m = Main
                                       /\ p = q \o q2
    BY <2>2 DEF IfHealthy, Candidates
  <2> QED
    BY <2>1, <2>2, <2>3
<1> HIDE DEF p
<1>2. ASSUME p = <<>> PROVE Short(p)
  BY <1>2 DEF Short
<1>3. ASSUME NEW x \in {Main, Backup}, ~ Unhealthy(x), p = <<x>> PROVE Short(p)
  BY <1>3, ModelFacts DEF Short
<1>4. ASSUME p = <<Main, Backup>>, ~ Unhealthy(Main), ~ Unhealthy(Backup) PROVE Short(p)
  BY <1>4, ModelFacts DEF Short
<1>5. Short(p)
  BY <1>1, <1>2, <1>3, <1>4
<1> QED
  BY <1>5 DEF p

\* The provers take truth values for terms only behind a name.
LEMMA FreshRow == \E no : no = FALSE /\ NotCalled = CallRec("idle", <<>>, 1, no, no, no, <<>>, <<>>, <<>>)
<1>1. PICK no : no = FALSE
  OBVIOUS
<1>2. NotCalled = CallRec("idle", <<>>, 1, no, no, no, <<>>, <<>>, <<>>)
  BY <1>1 DEF NotCalled, CallRec
<1> QED
  BY <1>1, <1>2

LEMMA BegunRow ==
  ASSUME NEW plan, NEW again, NEW retries, NEW crosses
  PROVE  [NotCalled EXCEPT !.plan = plan, !.again = again, !.retries = retries, !.crosses = crosses]
           = CallRec("idle", plan, 1, again, retries, crosses, <<>>, <<>>, <<>>)
<1>1. PICK no : no = FALSE /\ NotCalled = CallRec("idle", <<>>, 1, no, no, no, <<>>, <<>>, <<>>)
  BY FreshRow
<1>2. PICK r : r = CallRec("idle", plan, 1, no, no, no, <<>>, <<>>, <<>>)
  OBVIOUS
<1>3. [NotCalled EXCEPT !.plan = plan] = r
  BY <1>1, <1>2, SetPlan
<1>4. PICK s : s = CallRec("idle", plan, 1, again, no, no, <<>>, <<>>, <<>>)
  OBVIOUS
<1>5. [r EXCEPT !.again = again] = s
  BY <1>2, <1>4, SetAgain
<1>6. PICK t : t = CallRec("idle", plan, 1, again, retries, no, <<>>, <<>>, <<>>)
  OBVIOUS
<1>7. [s EXCEPT !.retries = retries] = t
  BY <1>4, <1>6, SetRetries
<1>8. [t EXCEPT !.crosses = crosses] = CallRec("idle", plan, 1, again, retries, crosses, <<>>, <<>>, <<>>)
  BY <1>6, SetCrosses
<1> QED
  BY <1>3, <1>5, <1>7, <1>8, Zenon

\* Not under way: what a call was before it began and is when it has ended.
LEMMA RestsOK == CallOK(NotCalled) /\ CallOK(Ended) /\ NotCalled.at = "idle" /\ Ended.at = "over"
<1>1. PICK no : no = FALSE /\ NotCalled = CallRec("idle", <<>>, 1, no, no, no, <<>>, <<>>, <<>>)
  BY FreshRow
<1>2. Ended = CallRec("over", <<>>, 1, no, no, no, <<>>, <<>>, <<>>)
  BY <1>1, SetAt DEF Ended
<1>3. ASSUME NEW x \in {"idle", "over"}
      PROVE  CallOK(CallRec(x, <<>>, 1, no, no, no, <<>>, <<>>, <<>>))
  <2>0. no = FALSE
    BY <1>1, Zenon
  <2>1. no \in BOOLEAN
    BY <2>0
  <2>2. <<>> \in Seq(Models)
    OBVIOUS
  <2>5. <<>> \in Seq(Attempts)
    OBVIOUS
  <2>3. CallRec(x, <<>>, 1, no, no, no, <<>>, <<>>, <<>>) \in CallRows
    BY <2>1, <2>2, <2>5 DEF CallRows, CallRec
  <2>4. CallRec(x, <<>>, 1, no, no, no, <<>>, <<>>, <<>>).at = x
    BY DEF CallRec
  <2> QED
    BY <2>3, <2>4 DEF CallOK
<1> QED
  BY <1>1, <1>2, <1>3 DEF CallRec

\* The second provider is asked, with a list of its own, or the call is over.
LEMMA CrossingOK ==
  ASSUME NEW c \in Inferences, NEW r \in CallRows, Listed(r), r.prior = <<>>, Cross(c, r)
  PROVE  \E q : /\ CallOK(q) /\ call' = [call EXCEPT ![c] = q]
                /\ \/ q.at = "over"
                   \/ ~ Unhealthy(Other) /\ \A m : StillAsks(q, m) => m = Other
<1>1. CASE Unhealthy(Other)
  BY <1>1, RestsOK DEF Cross, EndCall, GoesOn
<1>2. CASE ~ Unhealthy(Other)
  <2>1. PICK no, one : no = FALSE /\ one = <<Other>>
    OBVIOUS
  <2> DEFINE q == CallRec(r.at, one, 1, r.again, r.again, no, r.asked, r.attempts, <<>>)
  <2>2. [r EXCEPT !.crosses = FALSE, !.plan = <<Other>>, !.pos = 1, !.retries = r.again,
                  !.prior = r.attempts, !.attempts = <<>>] = q
    <3>1. PICK r0 : r0 = CallRec(r.at, r.plan, r.pos, r.again, r.retries, no, r.asked, r.prior, r.attempts)
      OBVIOUS
    <3>2. [r EXCEPT !.crosses = no] = r0
      BY <3>1, RowsAre, SetCrosses
    <3>3. PICK r1 : r1 = CallRec(r.at, one, r.pos, r.again, r.retries, no, r.asked, r.prior, r.attempts)
      OBVIOUS
    <3>4. [r0 EXCEPT !.plan = one] = r1
      BY <3>1, <3>3, SetPlan
    <3>5. PICK r2 : r2 = CallRec(r.at, one, 1, r.again, r.retries, no, r.asked, r.prior, r.attempts)
      OBVIOUS
    <3>6. [r1 EXCEPT !.pos = 1] = r2
      BY <3>3, <3>5, SetPos
    <3>7. PICK r3 : r3 = CallRec(r.at, one, 1, r.again, r.again, no, r.asked, r.prior, r.attempts)
      OBVIOUS
    <3>8. [r2 EXCEPT !.retries = r.again] = r3
      BY <3>5, <3>7, SetRetries
    <3>9. PICK r4 : r4 = CallRec(r.at, one, 1, r.again, r.again, no, r.asked, r.attempts, r.attempts)
      OBVIOUS
    <3>10. [r3 EXCEPT !.prior = r.attempts] = r4
      BY <3>7, <3>9, SetPrior
    <3>11. [r4 EXCEPT !.attempts = <<>>] = q
      BY <3>9, SetAttempts
    <3> QED
      BY <2>1, <3>2, <3>4, <3>6, <3>8, <3>10, <3>11, Zenon
  <2>3. /\ q.at = r.at /\ q.plan = one /\ q.pos = 1 /\ q.again = r.again /\ q.retries = r.again
        /\ q.crosses = no /\ q.asked = r.asked /\ q.prior = r.attempts /\ q.attempts = <<>>
    BY DEF CallRec
  <2>4. q \in CallRows
    <3>1. one \in Seq(Models)
      BY <2>1, ModelFacts
    <3>2. <<>> \in Seq(Attempts)
      OBVIOUS
    <3>3. no \in BOOLEAN
      BY <2>1
    <3> QED
      BY <3>1, <3>2, <3>3 DEF CallRows, CallRec
  <2>5. InPlan(q)
    <3>1. Len(one) = 1 /\ one[1] = Other
      BY <2>1
    <3>2. ~ q.crosses
      BY <2>1, <2>3
    <3> QED
      <4>1. q.pos \in 1 .. Len(q.plan) /\ \A i \in 1 .. Len(q.plan) : i = 1
        <5>1. Len(q.plan) = 1
          BY <2>3, <3>1, Zenon
        <5>2. \A i \in 1 .. 1 : i = 1
          OBVIOUS
        <5>3. 1 \in 1 .. 1
          OBVIOUS
        <5> QED
          BY <2>3, <5>1, <5>2, <5>3, Zenon
      <4> QED
        BY <3>2, <4>1 DEF InPlan
  <2>6. Listed(q)
    <3>1. Len(r.prior) = 0 /\ Len(q.attempts) = 0
      BY <2>3
    <3>2. Len(r.attempts) \in Nat
      BY DEF CallRows
    <3>3. Len(r.asked) = Len(r.attempts)
      BY <3>1, <3>2 DEF Listed
    <3>4. \A i \in 1 .. Len(r.attempts) : r.attempts[i] = [number |-> i, model |-> r.asked[i]]
      <4> SUFFICES ASSUME NEW i \in 1 .. Len(r.attempts)
                   PROVE  r.attempts[i] = [number |-> i, model |-> r.asked[i]]
        OBVIOUS
      <4>1. Len(r.prior) + i = i
        BY <3>1, <3>2
      <4> QED
        BY <4>1 DEF Listed
    <3>5. ~ q.crosses
      BY <2>1, <2>3
    <3>6. Len(q.asked) = Len(q.prior) + Len(q.attempts)
      <4>1. Len(r.attempts) + 0 = Len(r.attempts)
        BY <3>2
      <4> QED
        BY <2>3, <3>1, <3>3, <4>1, Zenon
    <3>7. \A i \in 1 .. Len(q.prior) : q.prior[i] = [number |-> i, model |-> q.asked[i]]
      BY <2>3, <3>4
    <3>8. \A i \in 1 .. Len(q.attempts) :
            q.attempts[i] = [number |-> i, model |-> q.asked[Len(q.prior) + i]]
      BY <3>1
    <3> QED
      BY <3>5, <3>6, <3>7, <3>8 DEF Listed
  <2> HIDE DEF q
  <2>7. CallOK(Ask1(q)) /\ call' = [call EXCEPT ![c] = Ask1(q)]
    BY <1>2, <2>2, <2>4, <2>5, <2>6, AskingTells DEF Cross, GoesOn
  <2>8. Ask1(q).plan = one /\ Ask1(q).pos = 1
    BY <2>3, <2>4, <2>5, AskedRow DEF InPlan
  <2>9. \A m : StillAsks(Ask1(q), m) => m = Other
    BY <2>1, <2>8 DEF StillAsks
  <2> QED
    BY <1>2, <2>7, <2>9
<1> QED
  BY <1>1, <1>2

StillOut(r) == r.at \in {"asking", "pausing"}

\* A call turns to no model but one it had before it or one that is not in cooldown.
NoNewTarget(c, q) ==
  StillOut(q) => \A m \in Models : StillAsks(q, m) =>
    ~ Unhealthy(m) \/ (c \in Underway /\ StillAsks(call[c], m))

\* A call that has written about its model is past it.
TurnsAway(c, q) == StillOut(q) => ~ StillAsks(q, Asking(c))

CallStep(c, q) ==
  /\ CallOK(q) /\ call' = [call EXCEPT ![c] = q] /\ UNCHANGED time /\ NoNewTarget(c, q)
  /\ \/ UNCHANGED <<until, broken>>
     \/ c \in Underway /\ TurnsAway(c, q) /\ \E kind : \E v \in Nat : Write(Asking(c), v, kind, c)

LEMMA UnderwayFacts ==
  ASSUME CallsInv, NEW c \in Underway
  PROVE  /\ c \in Inferences /\ call[c] \in CallRows /\ InPlan(call[c]) /\ Told(call[c])
         /\ Asking(c) \in Models /\ StillAsks(call[c], Asking(c)) /\ StillOut(call[c])
<1>1. c \in Inferences /\ StillOut(call[c])
  BY DEF Underway, StillOut
<1>2. call[c] \in CallRows /\ InPlan(call[c]) /\ Told(call[c])
  BY <1>1 DEF CallsInv, CallOK, StillOut
<1>3. call[c].plan \in Seq(Models) /\ call[c].pos \in 1 .. Len(call[c].plan)
  BY <1>2 DEF CallRows, InPlan
<1>4. call[c].pos \in call[c].pos .. Len(call[c].plan)
  BY <1>3
<1> QED
  BY <1>1, <1>2, <1>3, <1>4 DEF Asking, StillAsks

LEMMA BeginSteps ==
  ASSUME CallsInv, NEW c \in Inferences, NEW m \in {Main, Backup}, NEW feature,
         NEW metered \in BOOLEAN, NEW foreground \in BOOLEAN,
         BeginCall(c, m, feature, metered, foreground)
  PROVE  \E q : CallStep(c, q)
<1>1. UNCHANGED <<time, until, broken>>
  BY DEF BeginCall
<1>2. PICK plan : plan = Candidates(m, feature, metered) /\ Short(plan)
  BY ShortPlans
<1>3. PICK crosses \in BOOLEAN : crosses = (feature # "economy")
  OBVIOUS
<1>4. PICK r : r = CallRec("idle", plan, 1, foreground, foreground, crosses, <<>>, <<>>, <<>>)
  OBVIOUS
<1>5. IF plan # <<>> THEN GoesOn(c, Ask1(r))
      ELSE IF r.crosses THEN Cross(c, r) ELSE EndCall(c)
  <2>1. r = [NotCalled EXCEPT !.plan = plan, !.again = foreground, !.retries = foreground,
                              !.crosses = crosses]
    BY <1>4, BegunRow
  <2> QED
    BY <1>2, <1>3, <2>1, Zenon DEF BeginCall
<1>6. r \in CallRows
  <2>1. <<>> \in Seq(Attempts)
    OBVIOUS
  <2>2. <<>> \in Seq(Models)
    OBVIOUS
  <2> QED
    BY <1>2, <1>4, <2>1, <2>2 DEF Short, CallRows, CallRec
<1>7. r.plan = plan /\ r.pos = 1 /\ r.asked = <<>> /\ r.prior = <<>> /\ r.attempts = <<>>
  BY <1>4 DEF CallRec
<1>8. Listed(r)
  <2>1. Len(r.asked) = 0 /\ Len(r.prior) = 0 /\ Len(r.attempts) = 0
    BY <1>7
  <2> QED
    BY <1>7, <2>1 DEF Listed
<1>9. CASE plan # <<>>
  <2>1. InPlan(r)
    BY <1>2, <1>7, <1>9 DEF InPlan, Short
  <2>2. CallOK(Ask1(r)) /\ call' = [call EXCEPT ![c] = Ask1(r)]
    BY <1>5, <1>6, <1>8, <1>9, <2>1, AskingTells DEF GoesOn
  <2>3. Ask1(r).plan = plan
    BY <1>6, <1>7, <2>1, AskedRow DEF InPlan
  <2>4. Ask1(r).pos = 1
    BY <1>6, <1>7, <2>1, AskedRow DEF InPlan
  <2>5. \A x : StillAsks(Ask1(r), x) => ~ Unhealthy(x)
    BY <1>2, <2>3, <2>4 DEF StillAsks, Short
  <2> QED
    BY <1>1, <2>2, <2>5 DEF CallStep, NoNewTarget
<1>10. CASE plan = <<>> /\ Cross(c, r)
  <2>1. PICK q : /\ CallOK(q) /\ call' = [call EXCEPT ![c] = q]
                 /\ \/ q.at = "over"
                    \/ ~ Unhealthy(Other) /\ \A x : StillAsks(q, x) => x = Other
    BY <1>6, <1>7, <1>8, <1>10, CrossingOK
  <2> QED
    BY <1>1, <2>1 DEF CallStep, NoNewTarget, StillOut
<1>11. CASE EndCall(c)
  BY <1>1, <1>11, RestsOK DEF CallStep, NoNewTarget, StillOut, EndCall, GoesOn
<1> QED
  BY <1>5, <1>9, <1>10, <1>11

LEMMA RowLens ==
  ASSUME NEW r \in CallRows
  PROVE  Len(r.prior) + Len(r.attempts) \in Nat
  BY DEF CallRows

LEMMA PauseSteps ==
  ASSUME CallsInv, NEW c \in Inferences, Answers(c) \/ Busy(c) \/ Retry(c) \/ Abandon(c)
  PROVE  \E q : CallStep(c, q)
<1>0. c \in Underway
  BY DEF Answers, Busy, Retry, Abandon, Underway
<1> DEFINE r == call[c]
<1>1. r \in CallRows /\ InPlan(r) /\ Told(r)
  BY <1>0, UnderwayFacts
<1>2. CASE Answers(c)
  <2>1. Write(Asking(c), 0, "none", c) /\ UNCHANGED time /\ call' = [call EXCEPT ![c] = Ended]
    BY <1>2 DEF Answers, Clear, EndCall, GoesOn
  <2> QED
    BY <1>0, <2>1, RestsOK DEF CallStep, NoNewTarget, TurnsAway, StillOut
<1>3. CASE Abandon(c)
  BY <1>3, RestsOK DEF Abandon, EndCall, GoesOn, CallStep, NoNewTarget, StillOut
<1>4. CASE Busy(c)
  <2>1. PICK n : n = Noted(r)
    OBVIOUS
  <2>2. /\ n \in CallRows /\ Listed(n) /\ InPlan(n) /\ n.plan = r.plan /\ n.pos = r.pos
    BY <1>1, <1>4, <2>1, NotesTell DEF Busy
  <2>3. PICK no, q : /\ no = FALSE
                     /\ q = CallRec("pausing", n.plan, n.pos, n.again, no, n.crosses, n.asked, n.prior,
                                n.attempts)
    OBVIOUS
  <2>4. [n EXCEPT !.at = "pausing", !.retries = FALSE] = q
    <3>1. PICK p, n1 : /\ p = "pausing"
                       /\ n1 = CallRec(p, n.plan, n.pos, n.again, n.retries, n.crosses, n.asked,
                                   n.prior, n.attempts)
      OBVIOUS
    <3>2. [n EXCEPT !.at = p] = n1
      BY <2>2, <3>1, RowsAre, SetAt
    <3>3. [n1 EXCEPT !.retries = no] = q
      BY <2>3, <3>1, SetRetries
    <3> QED
      BY <2>3, <3>1, <3>2, <3>3, Zenon
  <2>5. call' = [call EXCEPT ![c] = q] /\ UNCHANGED <<time, until, broken>>
    BY <1>4, <2>1, <2>4, Zenon DEF Busy, GoesOn
  <2>6. /\ q.at = "pausing" /\ q.plan = n.plan /\ q.pos = n.pos /\ q.crosses = n.crosses
        /\ q.asked = n.asked /\ q.prior = n.prior /\ q.attempts = n.attempts
    BY <2>3 DEF CallRec
  <2>7. q \in CallRows
    <3>1. no \in BOOLEAN
      BY <2>3
    <3> QED
      BY <2>2, <2>3, <3>1 DEF CallRows, CallRec
  <2>8. Listed(q) /\ InPlan(q)
    BY <2>2, <2>6 DEF Listed, InPlan
  <2>9. Told(q)
    <3>1. Len(q.prior) + Len(q.attempts) \in Nat
      BY <2>7 DEF CallRows
    <3>2. Len(q.prior) + Len(q.attempts) + 0 = Len(q.prior) + Len(q.attempts)
      BY <3>1
    <3> QED
      BY <2>6, <2>8, <3>2 DEF Listed, Told
  <2>10. \A m : StillAsks(q, m) => StillAsks(r, m)
    BY <2>2, <2>6 DEF StillAsks
  <2> QED
    BY <1>0, <2>5, <2>7, <2>8, <2>9, <2>10 DEF CallStep, NoNewTarget, CallOK
<1>5. CASE Retry(c)
  <2>1. r.at = "pausing" /\ call' = [call EXCEPT ![c] = Ask1(r)] /\ UNCHANGED <<time, until, broken>>
    BY <1>5 DEF Retry, GoesOn
  <2>2. Listed(r)
    <3>1. Len(r.prior) + Len(r.attempts) \in Nat
      BY <1>1, RowLens
    <3>2. Len(r.prior) + Len(r.attempts) + 0 = Len(r.prior) + Len(r.attempts)
      BY <3>1
    <3> QED
      BY <1>1, <2>1, <3>2 DEF Listed, Told
  <2>3. CallOK(Ask1(r))
    BY <1>1, <2>2, AskingTells
  <2>4. Ask1(r).plan = r.plan /\ Ask1(r).pos = r.pos
    BY <1>1, AskedRow DEF InPlan
  <2>5. \A m : StillAsks(Ask1(r), m) => StillAsks(r, m)
    BY <2>4 DEF StillAsks
  <2> QED
    BY <1>0, <2>1, <2>3, <2>5 DEF CallStep, NoNewTarget
<1> QED
  BY <1>2, <1>3, <1>4, <1>5

LEMMA FailSteps ==
  ASSUME CallsInv, time \in Nat, NEW c \in Inferences, NEW kind \in Kinds, Fails(c, kind)
  PROVE  \E q : CallStep(c, q)
<1> DEFINE r == call[c]
<1>0. c \in Underway /\ r.at = "asking" /\ UNCHANGED time
  BY DEF Fails, Underway
<1>1. r \in CallRows /\ InPlan(r) /\ Told(r) /\ StillAsks(r, Asking(c)) /\ Asking(c) \in Models
  BY <1>0, UnderwayFacts
<1>2. PICK n : n = Noted(r)
  OBVIOUS
<1>3. /\ n \in CallRows /\ Listed(n) /\ InPlan(n) /\ n.plan = r.plan /\ n.pos = r.pos
      /\ n.crosses = r.crosses /\ n.again = r.again
  BY <1>0, <1>1, <1>2, NotesTell
<1> DEFINE more == n.pos < Len(n.plan)
<1> DEFINE leave == kind \in FailsOver /\ (more \/ n.crosses)
<1>5. /\ CASE leave /\ more -> GoesOn(c, Ask1([n EXCEPT !.pos = @ + 1, !.retries = n.again]))
            [] leave /\ ~ more -> Cross(c, n)
            [] OTHER -> EndCall(c)
      /\ IF leave \/ kind = "deployment" THEN Mark(Asking(c), kind, c)
         ELSE UNCHANGED <<until, broken>>
  BY <1>2, Zenon DEF Fails
<1>6. UNCHANGED <<until, broken>> \/ \E k : \E v \in Nat : Write(Asking(c), v, k, c)
  <2>1. CoolsFor[kind] \in Nat
    BY ClientAssumption
  <2>2. time + CoolsFor[kind] \in Nat
    BY <2>1
  <2> QED
    BY <1>5, <2>2 DEF Mark
<1>7. \A i, j \in 1 .. Len(n.plan) : n.plan[i] = n.plan[j] => i = j
  BY <1>3 DEF InPlan
<1>8. n.pos \in Nat \ {0} /\ Len(n.plan) \in Nat /\ n.pos \in 1 .. Len(n.plan)
  BY <1>3 DEF CallRows, InPlan
<1>9. Asking(c) = n.plan[n.pos]
  BY <1>3 DEF Asking
<1>10. CASE leave /\ more
  <2>1. PICK q, p : p = n.pos + 1 /\ q = CallRec(n.at, n.plan, p, n.again, n.again, n.crosses, n.asked,
                                           n.prior, n.attempts)
    OBVIOUS
  <2>2. [n EXCEPT !.pos = @ + 1, !.retries = n.again] = q
    <3>1. PICK n1 : n1 = CallRec(n.at, n.plan, p, n.again, n.retries, n.crosses, n.asked, n.prior,
                             n.attempts)
      OBVIOUS
    <3>2. [n EXCEPT !.pos = p] = n1
      BY <1>3, <3>1, RowsAre, SetPos
    <3>3. [n1 EXCEPT !.retries = n.again] = q
      BY <2>1, <3>1, SetRetries
    <3> QED
      BY <2>1, <3>2, <3>3, Zenon
  <2>3. call' = [call EXCEPT ![c] = Ask1(q)]
    BY <1>5, <1>10, <2>2, Zenon DEF GoesOn
  <2>4. /\ q.plan = n.plan /\ q.pos = p /\ q.crosses = n.crosses
        /\ q.asked = n.asked /\ q.prior = n.prior /\ q.attempts = n.attempts
    BY <2>1 DEF CallRec
  <2>5. p \in 1 .. Len(n.plan) /\ p \in Nat \ {0} /\ p = n.pos + 1
    BY <1>8, <1>10, <2>1
  <2>6. q \in CallRows
    BY <1>3, <2>1, <2>5 DEF CallRows, CallRec
  <2>7. Listed(q) /\ InPlan(q)
    <3>1. Listed(q)
      BY <1>3, <2>4, Zenon DEF Listed
    <3>2. InPlan(q)
      BY <1>3, <2>4, <2>5, Zenon DEF InPlan
    <3> QED
      BY <3>1, <3>2
  <2>8. CallOK(Ask1(q))
    BY <2>6, <2>7, AskingTells
  <2>9. Ask1(q).plan = n.plan /\ Ask1(q).pos = p
    BY <2>4, <2>6, <2>7, AskedRow DEF InPlan
  <2>10. \A m : StillAsks(Ask1(q), m) => StillAsks(r, m)
    <3>1. \A i \in p .. Len(n.plan) : i \in n.pos .. Len(n.plan)
      BY <1>8, <2>5
    <3> QED
      BY <1>3, <2>9, <3>1 DEF StillAsks
  <2>11. ~ StillAsks(Ask1(q), Asking(c))
    <3>1. \A i \in p .. Len(n.plan) : i \in 1 .. Len(n.plan) /\ i # n.pos
      BY <1>8, <2>5
    <3> QED
      BY <1>7, <1>8, <1>9, <2>9, <3>1 DEF StillAsks
  <2> QED
    BY <1>0, <1>6, <2>3, <2>8, <2>10, <2>11 DEF CallStep, NoNewTarget, TurnsAway
<1>11. CASE leave /\ ~ more
  <2>1. n.crosses /\ n.prior = <<>> /\ Asking(c) # Other
    BY <1>3, <1>8, <1>9, <1>11 DEF Listed, InPlan
  <2>2. PICK q : /\ CallOK(q) /\ call' = [call EXCEPT ![c] = q]
                 /\ \/ q.at = "over"
                    \/ ~ Unhealthy(Other) /\ \A m : StillAsks(q, m) => m = Other
    BY <1>3, <1>5, <1>11, <2>1, CrossingOK
  <2>3. NoNewTarget(c, q) /\ TurnsAway(c, q)
    BY <2>1, <2>2 DEF NoNewTarget, TurnsAway, StillOut
  <2> QED
    BY <1>0, <1>6, <2>2, <2>3 DEF CallStep
<1>12. CASE ~ leave
  <2>1. call' = [call EXCEPT ![c] = Ended]
    BY <1>5, <1>12 DEF EndCall, GoesOn
  <2>2. NoNewTarget(c, Ended) /\ TurnsAway(c, Ended)
    BY RestsOK DEF NoNewTarget, TurnsAway, StillOut
  <2> QED
    BY <1>0, <1>6, <2>1, <2>2, RestsOK DEF CallStep
<1> QED
  BY <1>10, <1>11, <1>12

LEMMA CallStepKeeps ==
  ASSUME ClientIInv, NEW c \in Inferences, NEW q, CallStep(c, q)
  PROVE  ClientIInv'
<1>1. CallsInv /\ TableInv /\ CallOK(q) /\ q \in CallRows
  BY DEF ClientIInv, CallStep, CallOK
<1>2. CallsInv'
  BY <1>1 DEF CallStep, CallsInv
<1>3. \A d \in Inferences : call'[d] = IF d = c THEN q ELSE call[d]
  BY <1>1 DEF CallStep, CallsInv
<1>4. ASSUME NEW m \in Models, NEW d \in Underway', StillAsks(call'[d], m), Unhealthy(m)
      PROVE  d \in Underway /\ StillAsks(call[d], m)
  <2>1. d \in Inferences /\ StillOut(call'[d])
    BY <1>4 DEF Underway, StillOut
  <2>2. CASE d = c
    BY <1>3, <1>4, <2>1, <2>2 DEF CallStep, NoNewTarget
  <2>3. CASE d # c
    BY <1>3, <1>4, <2>1, <2>3 DEF Underway, StillOut
  <2> QED
    BY <2>2, <2>3
<1>5. time \in Nat /\ \A m \in Models : until[m] \in Nat /\ broken[m].until \in Nat
  BY <1>1, ClientAssumption DEF TableInv
<1>6. ASSUME UNCHANGED <<until, broken>> PROVE TableInv'
  <2>1. ASSUME NEW m \in Models, time < broken[m].until, ~ broken[m].lifted
        PROVE  /\ until[m] = broken[m].until
               /\ \A d \in Underway' : StillAsks(call'[d], m) => d \in broken[m].racing
    <3>1. until[m] = broken[m].until
      BY <1>1, <2>1 DEF TableInv
    <3>2. Unhealthy(m)
      BY <1>5, <2>1, <3>1 DEF Unhealthy
    <3>3. \A d \in Underway : StillAsks(call[d], m) => d \in broken[m].racing
      BY <1>1, <2>1 DEF TableInv
    <3> QED
      BY <1>4, <3>1, <3>2, <3>3
  <2>2. time' = time /\ until' = until /\ broken' = broken
    BY <1>6 DEF CallStep
  <2>3. \A m \in Models : time' < broken'[m].until /\ ~ broken'[m].lifted =>
          /\ until'[m] = broken'[m].until
          /\ \A d \in Underway' : StillAsks(call'[d], m) => d \in broken'[m].racing
    BY <2>1, <2>2, Zenon
  <2>4. /\ time' \in 0 .. ClientHorizon /\ until' \in [Models -> Nat]
        /\ broken' \in [Models -> [until : Nat, racing : SUBSET Inferences, lifted : BOOLEAN]]
    BY <1>1, <2>2 DEF TableInv
  <2> QED
    BY <2>3, <2>4, Zenon DEF TableInv
<1>7. ASSUME NEW k, NEW v \in Nat, c \in Underway, TurnsAway(c, q), Write(Asking(c), v, k, c)
      PROVE  TableInv'
  <2>1. Asking(c) \in Models /\ StillAsks(call[c], Asking(c))
    BY <1>1, <1>7, UnderwayFacts
  <2>2. PICK x \in Models : x = Asking(c)
    BY <2>1
  <2>3. until' = [until EXCEPT ![x] = v] /\ UNCHANGED time
    BY <1>7, <2>2 DEF Write, CallStep
  <2> DEFINE b == IF k = "deployment"
                  THEN [until |-> v, racing |-> Underway \ {c}, lifted |-> FALSE]
                  ELSE [broken[x] EXCEPT !.lifted = broken[x].lifted \/ c \in broken[x].racing]
  <2>4. broken' = [broken EXCEPT ![x] = b]
    <3>1. Write(x, v, k, c)
      BY <1>7, <2>2, Zenon
    <3> QED
      BY <3>1, Zenon DEF Write
  <2>5. /\ broken[x] \in [until : Nat, racing : SUBSET Inferences, lifted : BOOLEAN]
        /\ broken \in [Models -> [until : Nat, racing : SUBSET Inferences, lifted : BOOLEAN]]
        /\ until \in [Models -> Nat]
    BY <1>1 DEF TableInv
  <2>6. b \in [until : Nat, racing : SUBSET Inferences, lifted : BOOLEAN]
    BY <2>5 DEF Underway
  <2>7. until' \in [Models -> Nat]
        /\ broken' \in [Models -> [until : Nat, racing : SUBSET Inferences, lifted : BOOLEAN]]
    BY <2>3, <2>4, <2>5, <2>6
  <2>8. ASSUME NEW m \in Models, time' < broken'[m].until, ~ broken'[m].lifted
        PROVE  /\ until'[m] = broken'[m].until
               /\ \A d \in Underway' : StillAsks(call'[d], m) => d \in broken'[m].racing
    <3>1. CASE m # x
      <4>1. until'[m] = until[m] /\ broken'[m] = broken[m]
        BY <2>3, <2>4, <2>5, <3>1
      <4>2. until[m] = broken[m].until
        BY <1>1, <2>3, <2>8, <4>1 DEF TableInv
      <4>3. Unhealthy(m)
        BY <1>5, <2>3, <2>8, <4>1, <4>2 DEF Unhealthy
      <4> QED
        BY <1>1, <1>4, <2>3, <2>8, <4>1, <4>2, <4>3 DEF TableInv
    <3>2. CASE m = x /\ k = "deployment"
      <4>1. until'[m] = v /\ broken'[m] = [until |-> v, racing |-> Underway \ {c}, lifted |-> FALSE]
        BY <2>3, <2>4, <2>5, <3>2
      <4>2. ASSUME NEW d \in Underway', StillAsks(call'[d], m) PROVE d \in Underway \ {c}
        <5>1. d \in Inferences /\ StillOut(call'[d])
          BY <4>2 DEF Underway, StillOut
        <5>2. d # c
          BY <1>3, <1>7, <2>2, <3>2, <4>2, <5>1 DEF TurnsAway
        <5> QED
          BY <1>3, <5>1, <5>2 DEF Underway, StillOut
      <4> QED
        BY <4>1, <4>2
    <3>3. CASE m = x /\ k # "deployment"
      <4>1. /\ broken'[m].until = broken[m].until /\ broken'[m].racing = broken[m].racing
            /\ broken'[m].lifted = (broken[m].lifted \/ c \in broken[m].racing)
        BY <2>4, <2>5, <3>3
      <4>2. c \in broken[m].racing
        BY <1>1, <1>7, <2>1, <2>2, <2>3, <2>8, <3>3, <4>1 DEF TableInv
      <4> QED
        BY <2>8, <4>1, <4>2
    <3> QED
      BY <3>1, <3>2, <3>3
  <2>9. time' \in 0 .. ClientHorizon
    BY <1>1, <2>3 DEF TableInv
  <2> QED
    BY <2>7, <2>8, <2>9, Zenon DEF TableInv
<1>8. TableInv'
  BY <1>6, <1>7 DEF CallStep
<1> QED
  BY <1>2, <1>8 DEF ClientIInv

LEMMA TickKeeps == ASSUME ClientIInv, ClientTick PROVE ClientIInv'
<1>1. CallsInv /\ TableInv
  BY DEF ClientIInv
<1>2. UNCHANGED call /\ Underway' = Underway /\ CallsInv'
  BY <1>1 DEF ClientTick, CallsInv, Underway
<1>3. time' = time + 1 /\ time \in Nat /\ time' \in 0 .. ClientHorizon
  BY <1>1, ClientAssumption DEF TableInv, ClientTick
<1>4. /\ until \in [Models -> Nat]
      /\ broken \in [Models -> [until : Nat, racing : SUBSET Inferences, lifted : BOOLEAN]]
  BY <1>1 DEF TableInv
<1>5. Intact \in [until : Nat, racing : SUBSET Inferences, lifted : BOOLEAN] /\ Intact.until = 0
  BY DEF Intact
<1>6. /\ until' = [m \in Models |-> IF until[m] > time' THEN until[m] ELSE 0]
      /\ broken' = [m \in Models |-> IF broken[m].until > time' THEN broken[m] ELSE Intact]
  BY DEF ClientTick
<1>7. /\ until' \in [Models -> Nat]
      /\ broken' \in [Models -> [until : Nat, racing : SUBSET Inferences, lifted : BOOLEAN]]
  BY <1>4, <1>5, <1>6
<1>8. ASSUME NEW m \in Models, time' < broken'[m].until, ~ broken'[m].lifted
      PROVE  /\ until'[m] = broken'[m].until
             /\ \A d \in Underway' : StillAsks(call'[d], m) => d \in broken'[m].racing
  <2>1. broken'[m] = broken[m] /\ broken[m].until > time'
    BY <1>3, <1>5, <1>6, <1>8
  <2>2. time < broken[m].until
    BY <1>3, <1>4, <2>1
  <2>3. until[m] = broken[m].until /\ \A d \in Underway : StillAsks(call[d], m) => d \in broken[m].racing
    BY <1>1, <1>8, <2>1, <2>2 DEF TableInv
  <2>4. until'[m] = until[m]
    BY <1>6, <2>1, <2>3
  <2> QED
    BY <1>2, <2>1, <2>3, <2>4
<1>9. TableInv'
  BY <1>3, <1>7, <1>8 DEF TableInv
<1> QED
  BY <1>2, <1>9 DEF ClientIInv

LEMMA ClientKeeps == ClientIInv /\ [ClientNext]_clientVars => ClientIInv'
<1> SUFFICES ASSUME ClientIInv, [ClientNext]_clientVars PROVE ClientIInv'
  OBVIOUS
<1>0. CallsInv /\ time \in Nat
  BY ClientAssumption DEF ClientIInv, TableInv
<1>1. CASE ClientTick
  BY <1>1, TickKeeps
<1>2. CASE UNCHANGED clientVars
  BY <1>2 DEF clientVars, ClientIInv, CallsInv, TableInv, Underway
<1>3. ASSUME NEW c \in Inferences, \E q : CallStep(c, q) PROVE ClientIInv'
  BY <1>3, CallStepKeeps
<1> QED
  BY <1>0, <1>1, <1>2, <1>3, BeginSteps, PauseSteps, FailSteps DEF ClientNext

LEMMA ClientBegins == ClientInit => ClientIInv
<1> SUFFICES ASSUME ClientInit PROVE ClientIInv
  OBVIOUS
<1>1. call = [c \in Inferences |-> NotCalled] /\ NotCalled \in CallRows /\ NotCalled.at = "idle"
  BY RestsOK DEF ClientInit, CallOK
<1>2. CallsInv
  BY <1>1, RestsOK DEF CallsInv
<1>3. Intact \in [until : Nat, racing : SUBSET Inferences, lifted : BOOLEAN] /\ Intact.until = 0
  BY DEF Intact
<1>4. TableInv
  BY <1>1, <1>3, ClientAssumption DEF ClientInit, TableInv
<1> QED
  BY <1>2, <1>4 DEF ClientIInv

LEMMA TellsAll == CallsInv => AttemptsTellAll
<1> SUFFICES ASSUME CallsInv, NEW c \in Underway
             PROVE  Reported(call[c]) =
                      [i \in 1 .. Len(call[c].asked) - (IF call[c].at = "asking" THEN 1 ELSE 0)
                         |-> [number |-> i, model |-> call[c].asked[i]]]
  BY DEF AttemptsTellAll
<1>1. PICK r \in CallRows : r = call[c] /\ Told(r)
  BY UnderwayFacts
<1>2. PICK la \in Nat, lp \in Nat, lt \in Nat :
        la = Len(r.asked) /\ lp = Len(r.prior) /\ lt = Len(r.attempts)
  BY DEF CallRows
<1>3. la - (IF r.at = "asking" THEN 1 ELSE 0) = lp + lt
  <2>1. la = lp + lt + (IF r.at = "asking" THEN 1 ELSE 0)
    BY <1>1, <1>2, Zenon DEF Told
  <2> QED
    BY <2>1
<1> DEFINE f == Numbered(r.attempts, lp)
<1>4. r.prior \in Seq(Attempts) /\ r.attempts \in Seq(Attempts)
  BY DEF CallRows
<1>5. \A i \in 1 .. lt : [r.attempts[i] EXCEPT !.number = @ + lp]
                          = [number |-> lp + i, model |-> r.asked[lp + i]]
  <2> SUFFICES ASSUME NEW i \in 1 .. lt
               PROVE  [r.attempts[i] EXCEPT !.number = @ + lp]
                        = [number |-> lp + i, model |-> r.asked[lp + i]]
    OBVIOUS
  <2>1. PICK x, y : y = r.asked[lp + i] /\ x = r.attempts[i] /\ x = [number |-> i, model |-> y]
    <3>1. r.attempts[i] = [number |-> i, model |-> r.asked[Len(r.prior) + i]]
      BY <1>1, <1>2, Zenon DEF Told
    <3> QED
      BY <1>2, <3>1, Zenon
  <2>2. [x EXCEPT !.number = @ + lp] = [number |-> i + lp, model |-> y]
    BY <2>1
  <2>3. i + lp = lp + i
    OBVIOUS
  <2> QED
    BY <2>1, <2>2, <2>3, Zenon
<1>6. f = [i \in 1 .. lt |-> [number |-> lp + i, model |-> r.asked[lp + i]]]
  <2>1. DOMAIN r.attempts = 1 .. lt
    BY <1>2, <1>4
  <2> QED
    BY <1>5, <2>1, Zenon DEF Numbered
<1>7. f \in Seq(Attempts) /\ Len(f) = lt
  <2>1. \A i \in 1 .. lt : [number |-> lp + i, model |-> r.asked[lp + i]] \in Attempts
    <3> SUFFICES ASSUME NEW i \in 1 .. lt
                 PROVE  [number |-> lp + i, model |-> r.asked[lp + i]] \in Attempts
      OBVIOUS
    <3>1. r.asked \in Seq(Models) /\ lp + i \in 1 .. Len(r.asked)
      <4>1. lp + i \in 1 .. la
        BY <1>3
      <4> QED
        BY <1>2, <4>1, Zenon DEF CallRows
    <3> QED
      BY <3>1 DEF Attempts
  <2> HIDE DEF f
  <2> QED
    BY <1>6, <2>1
<1> HIDE DEF f
<1>8. PICK s : s = r.prior \o f
  BY Zenon
<1>9. /\ s \in Seq(Attempts) /\ Len(s) = lp + lt
      /\ \A i \in 1 .. lp + lt : s[i] = IF i <= lp THEN r.prior[i] ELSE f[i - lp]
  <2>1. /\ r.prior \o f \in Seq(Attempts) /\ Len(r.prior \o f) = Len(r.prior) + Len(f)
        /\ \A i \in 1 .. Len(r.prior) + Len(f) :
             (r.prior \o f)[i] = IF i <= Len(r.prior) THEN r.prior[i] ELSE f[i - Len(r.prior)]
    BY <1>4, <1>7, ConcatProperties, Zenon
  <2> QED
    BY <1>2, <1>7, <1>8, <2>1, Zenon
<1>10. \A i \in 1 .. lp + lt : s[i] = [number |-> i, model |-> r.asked[i]]
  <2> SUFFICES ASSUME NEW i \in 1 .. lp + lt PROVE s[i] = [number |-> i, model |-> r.asked[i]]
    OBVIOUS
  <2>1. CASE i <= lp
    <3>0. i \in 1 .. lp
      BY <2>1
    <3>1. i \in 1 .. Len(r.prior) /\ s[i] = r.prior[i]
      <4>1. \A j \in 1 .. lp + lt : s[j] = IF j <= lp THEN r.prior[j] ELSE f[j - lp]
        BY <1>9
      <4>2. s[i] = r.prior[i]
        BY <2>1, <4>1
      <4> QED
        BY <1>2, <3>0, <4>2, Zenon
    <3>2. \A j \in 1 .. Len(r.prior) : r.prior[j] = [number |-> j, model |-> r.asked[j]]
      BY <1>1 DEF Told
    <3> QED
      BY <3>1, <3>2
  <2>2. CASE i > lp
    <3>1. i - lp \in 1 .. lt /\ lp + (i - lp) = i
      BY <2>2
    <3>2. s[i] = f[i - lp]
      BY <1>9, <2>2
    <3> QED
      BY <1>6, <3>1, <3>2
  <2> QED
    BY <2>1, <2>2
<1>11. s = [i \in 1 .. lp + lt |-> [number |-> i, model |-> r.asked[i]]]
  BY <1>9, <1>10
<1> QED
  BY <1>1, <1>2, <1>3, <1>8, <1>11, Zenon DEF Reported, f

LEMMA ClientSound == ClientIInv => ClientInv
<1> SUFFICES ASSUME ClientIInv PROVE ClientInv
  OBVIOUS
<1>1. CallsInv /\ TableInv
  BY DEF ClientIInv
<1>2. ClientTypeOK
  <2>1. \A c \in Inferences :
          /\ call[c].at \in {"idle", "asking", "pausing", "over"}
          /\ c \in Underway => call[c].pos \in DOMAIN call[c].plan
    <3> SUFFICES ASSUME NEW c \in Inferences
                 PROVE  /\ call[c].at \in {"idle", "asking", "pausing", "over"}
                        /\ c \in Underway => call[c].pos \in DOMAIN call[c].plan
      OBVIOUS
    <3>1. call[c].at \in {"idle", "asking", "pausing", "over"} /\ call[c].plan \in Seq(Models)
      BY <1>1 DEF CallsInv, CallRows
    <3>2. c \in Underway => call[c].pos \in 1 .. Len(call[c].plan)
      BY <1>1, UnderwayFacts DEF InPlan
    <3> QED
      BY <3>1, <3>2
  <2> QED
    BY <1>1, <2>1 DEF ClientTypeOK, TableInv
<1>3. CooldownKept
  <2> SUFFICES ASSUME NEW m \in Models, time < broken[m].until, ~ Unhealthy(m), ~ broken[m].lifted
               PROVE  FALSE
    BY DEF CooldownKept
  <2>1. until[m] = broken[m].until /\ time \in Nat /\ until[m] \in Nat
    BY <1>1, ClientAssumption DEF TableInv
  <2> QED
    BY <2>1 DEF Unhealthy
<1> QED
  BY <1>1, <1>2, <1>3, TellsAll DEF ClientInv

\* For any calls, kinds of error and cooldowns: a broken deployment is forgotten only by
\* a call that was under way when it broke, and every call reports what it asked (client.py).
THEOREM ClientIsSafe == ClientSpec => []ClientInv
  BY ClientBegins, ClientKeeps, ClientSound, PTL DEF ClientSpec

------------------------------------------------------------------------------
(* BotLifecycle.  Tasks are those of the present bot, and close works off  *)
(* its list: what it has passed is gone.  Every accepted run is in the     *)
(* queue or in the writer's hands.  An announcement that was seen is        *)
(* remembered, about to be, or paid for by a lapse.                         *)

TaskNames == {"warmup", "backup", "backfill", "learner", "memory", "procedures", "poll",
              "changelog", "summary", "telemetry"}

AliveInv ==
  /\ alive \subseteq {Mine(t) : t \in TaskNames}
  /\ phase = "closing" =>
       \A i \in 1 .. (next - 1) :
         Mine(CloseOrder[i]) \in alive => late /\ CloseOrder[i] = "backfill"
  /\ NothingLeft

PhaseInv ==
  /\ phase \in {"setup", "up", "closing", "backoff", "gone"}
  /\ attempt \in 1 .. MaxAttempts /\ next \in 1 .. 10
  /\ phase = "backoff" => attempt < MaxAttempts /\ reason = "refused"
  /\ phase = "up" => next = 1
  /\ phase \in {"setup", "backoff"} \/ (phase = "closing" /\ reason # "stopped") =>
       ~ late /\ Mine("backfill") \notin alive
  /\ closing = "draining" => phase = "closing" /\ next = 10
  /\ reason = "raised" => phase = "gone"

WriterInv ==
  /\ queue \in Seq(Runs) /\ holding \in Runs \cup {NoRun}
  /\ task \in {"none", "waiting", "busy"} /\ closing \in {"open", "draining", "closed"}
  /\ holding # NoRun <=> task = "busy"
  /\ unfinished = Len(queue) + Writer!InHand
  /\ task = "none" => queue = <<>>
  /\ closing = "closed" => queue = <<>> /\ task = "none"

RunsInv ==
  /\ runs \in [Runs -> {"open", "queued", "written", "lost", "refused"}]
  /\ \A r \in Runs : runs[r] = "queued" =>
       \/ r = holding \/ \E i \in 1 .. Len(queue) : queue[i] = r
       \/ reason = "raised"
  /\ phase \in {"backoff", "gone"} /\ reason # "raised" => closing = "closed"

Remembered(g) == IF g \in known \cup news.flushed THEN 1 ELSE 0
NewsInv ==
  /\ announced \in [1 .. Homes -> Nat] /\ lapses \in Nat
  /\ known \subseteq 1 .. Homes
  /\ news \in [at : {"none", "start", "post", "failed", "over"}, guild : Nat,
               flushed : SUBSET (1 .. Homes)]
  /\ news.at = "post" => news.guild > 0
  /\ news.flushed # {} => news.at = "post"
  /\ \A g \in 1 .. Homes : announced[g] <= lapses + Remembered(g)
  /\ phase \in {"setup", "backoff", "gone"} \/ Stopped("changelog") =>
       news.at \notin {"start", "post"}

LifecycleIInv == AliveInv /\ PhaseInv /\ WriterInv /\ RunsInv /\ NewsInv

LEMMA OrderFacts ==
  /\ Len(SetupOrder) = 10
  /\ CloseOrder = <<"warmup", "backup", "backfill", "learner", "memory", "procedures", "poll",
                    "changelog", "summary", "telemetry">>
  /\ \A i \in 1 .. 10 : CloseOrder[i] \in TaskNames /\ (CloseOrder[i] = "telemetry" <=> i = 10)
  /\ \A i, j \in 1 .. 10 : CloseOrder[i] = CloseOrder[j] => i = j
  /\ \A t \in TaskNames : \E i \in 1 .. 10 : CloseOrder[i] = t
  /\ \A i \in 1 .. 10 : SetupOrder[i] \in (TaskNames \ {"backfill", "learner", "telemetry"})
                                         \cup {"database", "retention", "sync"}
  /\ \A i \in 1 .. 10 : SetupOrder[i] = "changelog" <=> i = 10
  BY DEF SetupOrder, CloseOrder, TaskNames

LEMMA LifecycleInitiates == LifecycleInit => LifecycleIInv
<1> SUFFICES ASSUME LifecycleInit PROVE LifecycleIInv
  OBVIOUS
<1>1. AliveInv
  BY DEF LifecycleInit, AliveInv, NothingLeft
<1>2. PhaseInv
  BY LifecycleAssumption DEF LifecycleInit, PhaseInv, Writer!WorkerInit
<1>3. WriterInv
  BY LifecycleAssumption DEF LifecycleInit, WriterInv, Writer!WorkerInit, Writer!InHand
<1>4. RunsInv
  BY DEF LifecycleInit, RunsInv
<1>5. NewsInv
  BY DEF LifecycleInit, NewsInv, NoNews, Remembered
<1> QED
  BY <1>1, <1>2, <1>3, <1>4, <1>5 DEF LifecycleIInv

LEMMA PhaseKept ==
  ASSUME LifecycleIInv, [LifecycleNext]_lifecycleVars
  PROVE  PhaseInv'
<1> USE DEF LifecycleIInv, PhaseInv, Quit, EndRun
<1>1. CASE SetUp
  <2>1. PICK step \in (TaskNames \ {"backfill", "learner", "telemetry"})
                       \cup {"database", "retention", "sync"} :
          alive' = IF step \in {"database", "retention", "sync"} THEN alive
                   ELSE alive \cup {Mine(step)}
    BY <1>1, OrderFacts DEF SetUp
  <2>2. Mine("backfill") \notin alive' /\ ~ late'
    BY <1>1, <2>1 DEF SetUp, Mine
  <2>3. /\ (phase' = "setup" /\ next' \in 1 .. 10) \/ (phase' = "up" /\ next' = 1)
        /\ UNCHANGED <<attempt, reason, closing>>
    BY <1>1, OrderFacts DEF SetUp, telemetry
  <2>4. phase = "setup" /\ closing # "draining"
    BY <1>1 DEF SetUp
  <2>5. (Mine("backfill") \notin alive)'
    BY <2>2, <2>3 DEF Mine
  <2> QED
    BY <2>2, <2>3, <2>4, <2>5
<1>2. CASE SetUpFails \/ Stop
  BY <1>2 DEF SetUpFails, Stop, telemetry, Mine
<1>3. CASE StartAgain
  <2>1. alive = {} /\ alive' = {}
    BY <1>3 DEF StartAgain, AliveInv, NothingLeft
  <2>2. attempt' \in 1 .. MaxAttempts
    BY <1>3, LifecycleAssumption DEF StartAgain
  <2>3. /\ phase' = "setup" /\ next' = 1 /\ late' = FALSE /\ closing' = "open"
        /\ reason' = "none"
    BY <1>3 DEF StartAgain, Writer!Restart
  <2> QED
    BY <2>1, <2>2, <2>3
<1>4. CASE Reboot
  BY <1>4, LifecycleAssumption DEF Reboot, Writer!Restart
<1>5. CASE CloseTask
  BY <1>5, OrderFacts DEF CloseTask, telemetry, Mine
<1>6. CASE CloseWriter
  BY <1>6, OrderFacts DEF CloseWriter, Writer!CloseBegin, Writer!EndTask, Mine
<1>7. CASE Drained \/ DrainTimesOut
  BY <1>7 DEF Drained, DrainTimesOut, Writer!DrainDone, Writer!DrainTimeout, Writer!EndTask, Mine
<1>8. CASE Ready \/ FirstEmoji \/ \E t \in {"warmup", "backfill"} : TaskEnds(t)
  BY <1>8 DEF Ready, FirstEmoji, TaskEnds, Serving, bot, telemetry, Mine
<1>9. CASE (\E r \in Runs : RunEnds(r)) \/ WriterTakes \/ \E ok \in BOOLEAN : WriterFlushes(ok)
  BY <1>9 DEF RunEnds, WriterTakes, WriterFlushes, Serving, bot, telemetry, Mine,
              Writer!Submit, Writer!Take, Writer!Settle
<1>10. CASE List \/ Post \/ Commit
  BY <1>10 DEF List, Post, Commit, Elsewhere, NewsFail, bot, telemetry, Mine, Lapse
<1>11. CASE UNCHANGED lifecycleVars
  BY <1>11 DEF lifecycleVars, bot, telemetry, Mine
<1> QED
  BY <1>1, <1>2, <1>3, <1>4, <1>5, <1>6, <1>7, <1>8, <1>9, <1>10, <1>11 DEF LifecycleNext

LEMMA AliveKept ==
  ASSUME LifecycleIInv, [LifecycleNext]_lifecycleVars
  PROVE  AliveInv'
<1> USE DEF LifecycleIInv, AliveInv, Quit
<1>0. PhaseInv /\ PhaseInv' /\ next \in 1 .. 10
  BY PhaseKept DEF PhaseInv
<1>1. CASE SetUp
  <2>1. PICK step \in (TaskNames \ {"backfill", "learner", "telemetry"})
                       \cup {"database", "retention", "sync"} :
          alive' = IF step \in {"database", "retention", "sync"} THEN alive
                   ELSE alive \cup {Mine(step)}
    BY <1>0, <1>1, OrderFacts DEF SetUp
  <2>2. phase' \in {"setup", "up"} /\ UNCHANGED attempt
    BY <1>1 DEF SetUp
  <2> QED
    BY <2>1, <2>2 DEF Mine, NothingLeft, TaskNames
<1>2. CASE SetUpFails \/ Stop
  BY <1>2 DEF SetUpFails, Stop, Mine, NothingLeft
<1>3. CASE StartAgain
  <2>1. alive = {} /\ alive' = {} /\ phase' = "setup"
    BY <1>0, <1>3 DEF StartAgain, PhaseInv, NothingLeft
  <2> QED
    BY <2>1 DEF NothingLeft
<1>4. CASE Reboot
  BY <1>4 DEF Reboot, NothingLeft
<1>5. CASE CloseTask
  <2>1. UNCHANGED <<attempt, late>> /\ phase = "closing"
    BY <1>5 DEF CloseTask
  <2>2. CASE phase' = "gone" /\ reason' = "raised" /\ UNCHANGED alive
    BY <2>1, <2>2 DEF Mine, NothingLeft
  <2>3. CASE alive' = alive \ {Mine(CloseOrder[next])} /\ next' = next + 1 /\ UNCHANGED <<phase, reason>>
    <3>1. \A i \in 1 .. (next' - 1) : i = next \/ i \in 1 .. (next - 1)
      BY <1>0, <2>3
    <3>2. \A i \in 1 .. (next' - 1) : Mine(CloseOrder[i]) \in alive' => late /\ CloseOrder[i] = "backfill"
      BY <2>1, <2>3, <3>1 DEF Mine
    <3> QED
      BY <2>1, <2>3, <3>2 DEF Mine, NothingLeft
  <2> QED
    BY <1>5, <2>2, <2>3 DEF CloseTask
<1>6. CASE CloseWriter \/ Drained \/ DrainTimesOut
  <2>1. phase = "closing" /\ next = 10 /\ UNCHANGED <<next, attempt, late>>
    BY <1>0, <1>6, OrderFacts DEF CloseWriter, Drained, DrainTimesOut, PhaseInv,
         Writer!DrainDone, Writer!DrainTimeout
  <2>2. CASE UNCHANGED <<alive, phase>>
    BY <2>1, <2>2 DEF Mine, NothingLeft
  <2>3. CASE EndRun /\ alive' = alive \ {Mine("telemetry")}
    <3>1. phase' \in {"backoff", "gone"}
      BY <2>3 DEF EndRun
    <3>2. \A t \in TaskNames \ {"telemetry"} : Mine(t) \in alive => late /\ t = "backfill"
      <4> SUFFICES ASSUME NEW t \in TaskNames \ {"telemetry"}, Mine(t) \in alive
                   PROVE  late /\ t = "backfill"
        OBVIOUS
      <4>1. PICK i \in 1 .. 10 : CloseOrder[i] = t
        BY OrderFacts
      <4>2. i \in 1 .. (next - 1)
        BY <2>1, <4>1, OrderFacts
      <4> QED
        BY <2>1, <4>1, <4>2
    <3>3. alive' \subseteq (IF late THEN {Mine("backfill")} ELSE {})
      BY <2>3, <3>2
    <3> QED
      BY <2>1, <2>3, <3>1, <3>3 DEF NothingLeft, Mine
  <2> QED
    BY <1>6, <2>2, <2>3 DEF CloseWriter, Drained, DrainTimesOut
<1>7. CASE Ready
  <2>1. UNCHANGED <<phase, next, attempt, reason>> /\ Serving
    BY <1>7 DEF Ready, bot
  <2>2. alive' \subseteq alive \cup {Mine("backfill")} /\ "backfill" \in TaskNames /\ (late => late')
    BY <1>7 DEF Ready, TaskNames
  <2>3. Mine("backfill") \in alive' /\ Mine("backfill") \notin alive /\ Stopped("backfill") => late'
    BY <1>7 DEF Ready
  <2>4. alive' \subseteq {Mine(t)' : t \in TaskNames}
    BY <2>1, <2>2 DEF Mine
  <2>5. phase' \notin {"backoff", "gone"}
    BY <2>1 DEF Serving
  <2>6. ASSUME phase = "closing", NEW i \in 1 .. (next - 1), Mine(CloseOrder[i]) \in alive'
        PROVE  late' /\ CloseOrder[i] = "backfill"
    <3>1. CASE Mine(CloseOrder[i]) \in alive
      BY <2>2, <2>6, <3>1
    <3>2. CASE Mine(CloseOrder[i]) \notin alive
      <4>1. CloseOrder[i] = "backfill"
        BY <2>2, <2>6, <3>2 DEF Mine
      <4>2. Stopped("backfill")
        BY <2>6, <4>1 DEF Stopped
      <4> QED
        BY <2>3, <2>6, <3>2, <4>1, <4>2
    <3> QED
      BY <3>1, <3>2
  <2> QED
    BY <2>1, <2>4, <2>5, <2>6 DEF NothingLeft, Mine
<1>8. CASE FirstEmoji \/ \E r \in Runs : RunEnds(r)
  <2>1. UNCHANGED <<phase, next, attempt, reason, late>> /\ Serving
    BY <1>8 DEF FirstEmoji, RunEnds, bot
  <2>2. PICK t \in {"learner", "telemetry"} :
          /\ alive' \subseteq alive \cup {Mine(t)}
          /\ t = "learner" => ~ Stopped("learner")
    BY <1>8 DEF FirstEmoji, RunEnds, Mine
  <2>3. alive' \subseteq {Mine(x)' : x \in TaskNames}
    BY <2>1, <2>2 DEF Mine, TaskNames
  <2>4. phase' \notin {"backoff", "gone"}
    BY <2>1 DEF Serving
  <2>5. ASSUME phase = "closing", NEW i \in 1 .. (next - 1) PROVE CloseOrder[i] # t
    BY <1>0, <2>2, <2>5, OrderFacts DEF Stopped
  <2> QED
    BY <2>1, <2>2, <2>3, <2>4, <2>5 DEF NothingLeft, Mine
<1>9. CASE (\E t \in {"warmup", "backfill"} : TaskEnds(t)) \/ List \/ Post \/ Commit
           \/ WriterTakes \/ (\E ok \in BOOLEAN : WriterFlushes(ok)) \/ UNCHANGED lifecycleVars
  <2>1. UNCHANGED <<phase, next, attempt, reason, late>> /\ alive' \subseteq alive
    BY <1>9 DEF TaskEnds, List, Post, Commit, WriterTakes, WriterFlushes, NewsFail, Elsewhere,
                bot, lifecycleVars
  <2> QED
    BY <2>1 DEF NothingLeft, Mine
<1> QED
  BY <1>1, <1>2, <1>3, <1>4, <1>5, <1>6, <1>7, <1>8, <1>9 DEF LifecycleNext

LEMMA QueueTypes ==
  ASSUME WriterInv
  PROVE  /\ Len(queue) \in Nat
         /\ queue # <<>> =>
              /\ Head(queue) \in Runs /\ Tail(queue) \in Seq(Runs)
              /\ Len(queue) > 0 /\ Len(Tail(queue)) = Len(queue) - 1
              /\ Head(queue) = queue[1]
              /\ \A i \in 1 .. Len(queue) : i # 1 => Tail(queue)[i - 1] = queue[i]
         /\ Len(queue) = 0 => queue = <<>>
  BY DEF WriterInv

LEMMA WriterKept ==
  ASSUME LifecycleIInv, [LifecycleNext]_lifecycleVars
  PROVE  WriterInv'
<1>0. WriterInv /\ NoRun \notin Runs
  BY LifecycleAssumption DEF LifecycleIInv
<1> USE DEF Writer!InHand
<1>1. CASE SetUp \/ SetUpFails \/ Stop \/ CloseTask
  BY <1>0, <1>1 DEF SetUp, SetUpFails, Stop, CloseTask, telemetry, WriterInv
<1>2. CASE StartAgain \/ Reboot
  <2>1. /\ queue' = <<>> /\ holding' = NoRun /\ task' = "none" /\ closing' = "open"
        /\ unfinished' = 0
    BY <1>2 DEF StartAgain, Reboot, Writer!Restart
  <2>2. Len(queue') = 0 /\ queue' \in Seq(Runs)
    BY <2>1
  <2> QED
    BY <1>0, <2>1, <2>2 DEF WriterInv
<1>3. CASE CloseWriter \/ Drained \/ DrainTimesOut
  <2>1. CASE closing' = "draining" /\ UNCHANGED <<queue, holding, task, unfinished>>
    BY <1>0, <2>1, <1>3 DEF WriterInv, CloseWriter, Drained, DrainTimesOut, Writer!EndTask, Writer!CloseBegin, Writer!DrainDone, Writer!DrainTimeout
  <2>2. CASE Writer!EndTask
    <3>1. /\ queue' = <<>> /\ holding' = NoRun /\ task' = "none" /\ closing' = "closed"
          /\ unfinished' = 0
      BY <1>0, <2>2, QueueTypes DEF Writer!EndTask, WriterInv
    <3> QED
      BY <1>0, <3>1 DEF WriterInv
  <2> QED
    BY <1>3, <2>1, <2>2 DEF CloseWriter, Drained, DrainTimesOut, Writer!CloseBegin,
         Writer!DrainDone, Writer!DrainTimeout
<1>4. CASE Ready \/ FirstEmoji \/ (\E t \in {"warmup", "backfill"} : TaskEnds(t))
           \/ List \/ Post \/ Commit \/ UNCHANGED lifecycleVars
  BY <1>0, <1>4 DEF Ready, FirstEmoji, TaskEnds, List, Post, Commit, Elsewhere, telemetry,
                    lifecycleVars, WriterInv
<1>5. ASSUME NEW r \in Runs, RunEnds(r) PROVE WriterInv'
  <2>1. CASE UNCHANGED telemetry
    BY <1>0, <2>1 DEF telemetry, WriterInv
  <2>2. CASE Writer!Submit(r)
    <3>1. /\ closing = "open" /\ task' # "none" /\ (task' = "busy" <=> task = "busy")
          /\ task' \in {"waiting", "busy"} /\ UNCHANGED <<holding, closing>>
      BY <1>0, <2>2 DEF Writer!Submit, WriterInv
    <3>2. CASE UNCHANGED <<queue, unfinished>>
      BY <1>0, <3>1, <3>2 DEF WriterInv
    <3>3. CASE queue' = Append(queue, r) /\ unfinished' = unfinished + 1
      <4>1. queue' \in Seq(Runs) /\ Len(queue') = Len(queue) + 1 /\ Len(queue) \in Nat
        BY <1>0, <3>3 DEF WriterInv
      <4>2. unfinished' = Len(queue') + Writer!InHand'
        BY <1>0, <3>1, <3>3, <4>1 DEF WriterInv
      <4> QED
        BY <1>0, <3>1, <4>1, <4>2 DEF WriterInv
    <3> QED
      BY <2>2, <3>2, <3>3 DEF Writer!Submit, Writer!Put
  <2> QED
    BY <1>5, <2>1, <2>2 DEF RunEnds
<1>6. CASE WriterTakes
  <2>1. /\ task = "waiting" /\ queue # <<>> /\ task' = "busy" /\ holding' = Head(queue)
        /\ queue' = Tail(queue) /\ UNCHANGED <<closing, unfinished>>
    BY <1>6 DEF WriterTakes, Writer!Take
  <2>2. unfinished' = Len(queue') + Writer!InHand'
    BY <1>0, <2>1, QueueTypes DEF WriterInv
  <2> QED
    BY <1>0, <2>1, <2>2, QueueTypes DEF WriterInv
<1>7. CASE \E ok \in BOOLEAN : WriterFlushes(ok)
  <2>1. /\ task = "busy" /\ task' = "waiting" /\ holding' = NoRun
        /\ unfinished' = unfinished - 1 /\ UNCHANGED <<queue, closing>>
    BY <1>7 DEF WriterFlushes, Writer!Settle
  <2> QED
    BY <1>0, <2>1, QueueTypes DEF WriterInv
<1> QED
  BY <1>1, <1>2, <1>3, <1>4, <1>5, <1>6, <1>7 DEF LifecycleNext

LEMMA RunsKept ==
  ASSUME LifecycleIInv, [LifecycleNext]_lifecycleVars
  PROVE  RunsInv'
<1> DEFINE Accounted(r) == \/ r = holding \/ \E i \in 1 .. Len(queue) : queue[i] = r
                           \/ reason = "raised"
<1>0. PhaseInv /\ WriterInv /\ RunsInv /\ PhaseInv' /\ WriterInv' /\ NoRun \notin Runs
  BY PhaseKept, WriterKept, LifecycleAssumption DEF LifecycleIInv
<1>1. CASE SetUp \/ SetUpFails \/ Stop \/ CloseTask
  <2>1. UNCHANGED <<runs, queue, holding, closing>>
    BY <1>1 DEF SetUp, SetUpFails, Stop, CloseTask, telemetry
  <2>2. phase \in {"setup", "up", "closing"}
    BY <1>1 DEF SetUp, SetUpFails, Stop, CloseTask
  <2>3. reason # "raised"
    BY <1>0, <2>2, <1>1 DEF PhaseInv, SetUp, SetUpFails, Stop, CloseTask
  <2>4. phase' \notin {"backoff", "gone"} \/ reason' = "raised"
    BY <1>0, <2>2, <1>1 DEF SetUp, SetUpFails, Stop, CloseTask, Quit
  <2> QED
    BY <1>0, <2>1, <2>3, <2>4 DEF RunsInv
<1>2. CASE StartAgain
  <2>1. closing = "closed" /\ reason = "refused"
    BY <1>0, <1>2 DEF StartAgain, RunsInv, PhaseInv
  <2>2. \A r \in Runs : runs[r] # "queued"
    BY <1>0, <2>1 DEF RunsInv, WriterInv
  <2> QED
    BY <1>0, <1>2, <2>2 DEF StartAgain, RunsInv
<1>3. CASE Reboot
  BY <1>3 DEF Reboot, RunsInv
<1>4. CASE CloseWriter \/ Drained
  <2>1. UNCHANGED <<runs, reason>> /\ phase = "closing"
    BY <1>0, <1>4 DEF CloseWriter, Drained, Writer!DrainDone, PhaseInv
  <2>2. CASE closing' = "draining" /\ UNCHANGED <<queue, holding, task, phase>>
    BY <1>0, <2>1, <2>2 DEF RunsInv
  <2>3. CASE Writer!EndTask /\ (task = "none" \/ unfinished = 0)
    <3>1. holding = NoRun /\ queue = <<>>
      BY <1>0, <2>3, QueueTypes DEF WriterInv, Writer!InHand
    <3>2. \A r \in Runs : runs[r] # "queued"
      BY <1>0, <2>1, <3>1 DEF RunsInv, PhaseInv
    <3>3. closing' = "closed"
      BY <2>3 DEF Writer!EndTask
    <3> QED
      BY <1>0, <2>1, <3>2, <3>3 DEF RunsInv
  <2> QED
    BY <1>4, <2>2, <2>3 DEF CloseWriter, Drained, Writer!CloseBegin, Writer!DrainDone,
         Writer!EndTask
<1>5. CASE DrainTimesOut
  <2>1. runs' = [r \in Runs |-> IF runs[r] = "queued" THEN "lost" ELSE runs[r]]
        /\ closing' = "closed"
    BY <1>5 DEF DrainTimesOut, Writer!DrainTimeout, Writer!EndTask
  <2> QED
    BY <1>0, <2>1 DEF RunsInv
<1>6. CASE Ready \/ FirstEmoji \/ (\E t \in {"warmup", "backfill"} : TaskEnds(t))
           \/ List \/ Post \/ Commit \/ UNCHANGED lifecycleVars
  BY <1>0, <1>6 DEF Ready, FirstEmoji, TaskEnds, List, Post, Commit, Elsewhere, telemetry,
                    lifecycleVars, RunsInv, bot
<1>7. ASSUME NEW r \in Runs, RunEnds(r) PROVE RunsInv'
  <2>0. UNCHANGED <<phase, reason>> /\ phase \notin {"backoff", "gone"}
    BY <1>7 DEF RunEnds, bot, Serving
  <2>1. CASE runs' = [runs EXCEPT ![r] = "refused"] /\ UNCHANGED <<queue, holding>>
    BY <1>0, <2>0, <2>1 DEF RunsInv
  <2>2. CASE queue' = Append(queue, r) /\ UNCHANGED holding
             /\ runs' = [runs EXCEPT ![r] = "queued"]
    <3>1. /\ Len(queue') = Len(queue) + 1 /\ Len(queue) \in Nat /\ queue'[Len(queue')] = r
          /\ \A i \in 1 .. Len(queue) : queue'[i] = queue[i]
      BY <1>0, <2>2 DEF WriterInv
    <3>2. \E i \in 1 .. Len(queue') : queue'[i] = r
      BY <3>1
    <3>3. \A q \in Runs : (\E i \in 1 .. Len(queue) : queue[i] = q)
                          => \E i \in 1 .. Len(queue') : queue'[i] = q
      BY <3>1
    <3>4. \A q \in Runs : runs'[q] = "queued" => q = r \/ runs[q] = "queued"
      BY <1>0, <2>2 DEF RunsInv
    <3>5. runs' \in [Runs -> {"open", "queued", "written", "lost", "refused"}]
      BY <1>0, <2>2 DEF RunsInv
    <3> QED
      BY <1>0, <2>0, <2>2, <3>2, <3>3, <3>4, <3>5 DEF RunsInv
  <2>3. queue' = queue \/ queue' = Append(queue, r)
    BY <1>7 DEF RunEnds, Writer!Submit, Writer!Put, telemetry
  <2>4. Append(queue, r) # queue
    BY <1>0 DEF WriterInv
  <2> QED
    BY <1>7, <2>1, <2>2, <2>3, <2>4 DEF RunEnds, Writer!Submit, Writer!Put, telemetry
<1>8. CASE WriterTakes
  <2>1. /\ queue # <<>> /\ holding' = Head(queue) /\ queue' = Tail(queue) /\ holding = NoRun
        /\ UNCHANGED <<runs, phase, reason, closing>>
    BY <1>0, <1>8 DEF WriterTakes, Writer!Take, bot, WriterInv
  <2>2. ASSUME NEW r \in Runs, NEW i \in 1 .. Len(queue), queue[i] = r
        PROVE  r = holding' \/ \E j \in 1 .. Len(queue') : queue'[j] = r
    <3>1. CASE i = 1
      BY <1>0, <2>1, <2>2, <3>1, QueueTypes
    <3>2. CASE i # 1
      <4>1. Len(queue') = Len(queue) - 1 /\ queue'[i - 1] = queue[i] /\ Len(queue) \in Nat
        BY <1>0, <2>1, <3>2, QueueTypes
      <4>2. i - 1 \in 1 .. Len(queue')
        BY <3>2, <4>1
      <4> QED
        BY <2>2, <4>1, <4>2
    <3> QED
      BY <3>1, <3>2
  <2> QED
    BY <1>0, <2>1, <2>2 DEF RunsInv
<1>9. CASE \E ok \in BOOLEAN : WriterFlushes(ok)
  <2>1. PICK how \in {"written", "lost"} : runs' = [runs EXCEPT ![holding] = how]
    BY <1>9 DEF WriterFlushes
  <2>2. UNCHANGED <<queue, phase, reason, closing>>
    BY <1>9 DEF WriterFlushes, Writer!Settle, bot
  <2> QED
    BY <1>0, <2>1, <2>2 DEF RunsInv
<1> QED
  BY <1>1, <1>2, <1>3, <1>4, <1>5, <1>6, <1>7, <1>8, <1>9 DEF LifecycleNext

LEMMA NoNewsRecord == \A x : [NoNews EXCEPT !.at = x] = [at |-> x, guild |-> 0, flushed |-> {}]
  BY DEF NoNews

LEMMA NewsRecords ==
  ASSUME NewsInv
  PROVE  /\ [news EXCEPT !.at = "post", !.guild = 1] =
               [at |-> "post", guild |-> 1, flushed |-> news.flushed]
         /\ Following = [at |-> news.at, guild |-> news.guild + 1, flushed |-> news.flushed]
         /\ \A g : [Following EXCEPT !.flushed = @ \cup {g}] =
                    [at |-> news.at, guild |-> news.guild + 1, flushed |-> news.flushed \cup {g}]
<1>1. Following = [at |-> news.at, guild |-> news.guild + 1, flushed |-> news.flushed]
  BY DEF NewsInv, Following
<1>2. [news EXCEPT !.at = "post", !.guild = 1] =
        [at |-> "post", guild |-> 1, flushed |-> news.flushed]
  <2>1. ASSUME NEW x, NEW y
        PROVE  [news EXCEPT !.at = x, !.guild = y] = [at |-> x, guild |-> y, flushed |-> news.flushed]
    <3>1. [news EXCEPT !.at = x] = [at |-> x, guild |-> news.guild, flushed |-> news.flushed]
      BY DEF NewsInv
    <3>2. PICK r : r = [at |-> x, guild |-> news.guild, flushed |-> news.flushed]
      OBVIOUS
    <3>3. [r EXCEPT !.guild = y] = [at |-> x, guild |-> y, flushed |-> news.flushed]
      BY <3>2
    <3>4. [news EXCEPT !.at = x, !.guild = y] = [r EXCEPT !.guild = y]
      BY <3>1, <3>2, Zenon
    <3> QED
      BY <3>3, <3>4
  <2> QED
    BY <2>1
<1> QED
  BY <1>1, <1>2

LEMMA NewsKept ==
  ASSUME LifecycleIInv, [LifecycleNext]_lifecycleVars
  PROVE  NewsInv'
<1>0. /\ PhaseInv /\ NewsInv /\ Homes \in Nat /\ PhaseInv'
  BY PhaseKept, LifecycleAssumption DEF LifecycleIInv
<1> DEFINE NoNewsNow == phase \in {"setup", "backoff", "gone"} \/ Stopped("changelog")
<1>c. \A i \in 1 .. 10 : CloseOrder[i] = "changelog" <=> i = 8
  BY DEF CloseOrder
<1>1. CASE SetUp
  <2>1. news.at \notin {"start", "post"} /\ news.flushed = {}
    BY <1>0, <1>1 DEF SetUp, NewsInv
  <2>2. UNCHANGED <<announced, known, lapses>>
    BY <1>1 DEF SetUp
  <2>3. CASE next = 10
    <3>1. news' = [at |-> "start", guild |-> 0, flushed |-> {}] /\ phase' = "up"
      BY <1>1, <2>3, OrderFacts, NoNewsRecord DEF SetUp
    <3> QED
      BY <1>0, <2>1, <2>2, <3>1 DEF NewsInv, Remembered, Stopped
  <2>4. CASE next # 10
    <3>1. UNCHANGED news /\ phase' = "setup"
      BY <1>0, <1>1, <2>4, OrderFacts DEF SetUp, PhaseInv
    <3> QED
      BY <1>0, <2>1, <2>2, <3>1 DEF NewsInv, Remembered, Stopped
  <2> QED
    BY <2>3, <2>4
<1>2. CASE SetUpFails \/ Stop
  <2>1. phase' = "closing" /\ next' = 1 /\ UNCHANGED <<news, announced, known, lapses>>
    BY <1>2 DEF SetUpFails, Stop, Quit, changelog
  <2> QED
    BY <1>0, <2>1 DEF NewsInv, Remembered, Stopped
<1>3. CASE StartAgain
  <2>1. phase = "backoff" /\ UNCHANGED <<news, announced, known, lapses>>
    BY <1>3 DEF StartAgain, changelog
  <2> QED
    BY <1>0, <2>1 DEF NewsInv, Remembered
<1>4. CASE Reboot
  <2>1. /\ news' = [at |-> "none", guild |-> 0, flushed |-> {}] /\ UNCHANGED <<announced, known>>
        /\ IF phase = "gone" THEN lapses' = lapses ELSE lapses' = lapses + 1
    BY <1>4 DEF Reboot, NoNews, Dies
  <2>2. phase = "gone" => news.flushed = {}
    BY <1>0 DEF NewsInv
  <2>3. \A g \in 1 .. Homes : announced'[g] <= lapses' + Remembered(g)'
    BY <1>0, <2>1, <2>2 DEF NewsInv, Remembered
  <2> QED
    BY <1>0, <2>1, <2>3 DEF NewsInv
<1>5. CASE CloseTask
  <2>0. UNCHANGED <<announced, known>> /\ phase = "closing" /\ next \in 1 .. 10
    BY <1>0, <1>5 DEF CloseTask, PhaseInv
  <2>1. CASE phase' = "gone" /\ news.at = "failed" /\ UNCHANGED <<news, lapses>>
    BY <1>0, <2>0, <2>1 DEF NewsInv, Remembered
  <2>2. CASE next = 8 /\ news' = [NoNews EXCEPT !.at = "over"] /\ lapses' = lapses + 1
    <3>1. news' = [at |-> "over", guild |-> 0, flushed |-> {}]
      BY <2>2, NoNewsRecord
    <3>2. \A h \in 1 .. Homes : announced'[h] <= lapses' + Remembered(h)'
      BY <1>0, <2>0, <2>2, <3>1 DEF NewsInv, Remembered
    <3>3. news' \in [at : {"none", "start", "post", "failed", "over"}, guild : Nat,
                    flushed : SUBSET (1 .. Homes)]
      BY <3>1
    <3>4. news'.at = "over" /\ news'.flushed = {}
      BY <3>1
    <3>5. announced' \in [1 .. Homes -> Nat] /\ lapses' \in Nat /\ known' \subseteq 1 .. Homes
      BY <1>0, <2>0, <2>2 DEF NewsInv
    <3> QED
      BY <3>2, <3>3, <3>4, <3>5 DEF NewsInv
  <2>3. CASE /\ next' = next + 1 /\ UNCHANGED <<phase, news, lapses>>
             /\ next = 8 => news.at \in {"none", "over"}
    <3>1. Stopped("changelog")' => Stopped("changelog") \/ next = 8
      BY <2>0, <2>3, <1>c DEF Stopped
    <3> QED
      BY <1>0, <2>0, <2>3, <3>1 DEF NewsInv, Remembered
  <2> QED
    BY <1>5, <1>c, <2>0, <2>1, <2>2, <2>3 DEF CloseTask
<1>6. CASE CloseWriter \/ Drained \/ DrainTimesOut
  <2>1. UNCHANGED <<news, announced, known, lapses>> /\ phase = "closing" /\ next = 10
    BY <1>0, <1>6, OrderFacts DEF CloseWriter, Drained, DrainTimesOut, PhaseInv, changelog,
         Writer!DrainDone, Writer!DrainTimeout
  <2>2. Stopped("changelog")
    BY <2>1, <1>c DEF Stopped
  <2> QED
    BY <1>0, <2>1, <2>2 DEF NewsInv, Remembered
<1>7. CASE List \/ Post \/ Commit
  <2>1. ~ NoNewsNow' /\ UNCHANGED <<phase, next>> /\ ~ NoNewsNow
    BY <1>0, <1>7 DEF List, Post, Commit, NewsInv, Announcing, Serving, Elsewhere, bot, Stopped
  <2>2. CASE List
    <3>1. UNCHANGED <<announced, known>> /\ news.flushed = {}
      BY <1>0, <2>2 DEF List, NewsInv
    <3>2. CASE news' = [at |-> "post", guild |-> 1, flushed |-> news.flushed] /\ UNCHANGED lapses
      BY <1>0, <2>1, <3>1, <3>2 DEF NewsInv, Remembered
    <3>3. CASE news' = [at |-> "failed", guild |-> 0, flushed |-> {}] /\ lapses' = lapses + 1
      BY <1>0, <2>1, <3>1, <3>3 DEF NewsInv, Remembered
    <3> QED
      BY <1>0, <2>2, <3>2, <3>3, NoNewsRecord, NewsRecords DEF List, Lapse, NewsFail
  <2>3. CASE Post
    <3> DEFINE g == news.guild
    <3>1. UNCHANGED known /\ news.at = "post" /\ g \in 1 .. Homes
      BY <1>0, <2>3 DEF Post, NewsInv
    <3>2. CASE /\ news' = [at |-> news.at, guild |-> news.guild + 1, flushed |-> news.flushed]
               /\ \/ UNCHANGED <<announced, lapses>>
                  \/ announced' = [announced EXCEPT ![g] = @ + 1] /\ lapses' = lapses + 1
      <4>1. announced' \in [1 .. Homes -> Nat] /\ lapses' \in Nat
        <5>1. announced \in [1 .. Homes -> Nat] /\ lapses \in Nat
          BY <1>0, Zenon DEF NewsInv
        <5>2. [announced EXCEPT ![g] = @ + 1] \in [1 .. Homes -> Nat] /\ lapses + 1 \in Nat
          BY <3>1, <5>1
        <5> QED
          BY <3>2, <5>1, <5>2, Zenon
      <4>2. \A h \in 1 .. Homes : announced'[h] <= lapses' + Remembered(h)'
        <5> SUFFICES ASSUME NEW h \in 1 .. Homes
                     PROVE  announced'[h] <= lapses' + Remembered(h)'
          OBVIOUS
        <5>1. Remembered(h)' = Remembered(h) /\ Remembered(h) \in {0, 1}
          BY <3>1, <3>2 DEF Remembered
        <5>2. announced[h] \in Nat /\ lapses \in Nat /\ announced[h] <= lapses + Remembered(h)
          BY <1>0 DEF NewsInv
        <5>3. \/ UNCHANGED <<announced, lapses>>
              \/ announced'[h] \in {announced[h], announced[h] + 1} /\ lapses' = lapses + 1
          <6>1. PICK k \in 1 .. Homes : k = g
            BY <3>1
          <6>2. announced \in [1 .. Homes -> Nat]
            BY <1>0 DEF NewsInv
          <6>3. \/ UNCHANGED <<announced, lapses>>
                \/ announced' = [announced EXCEPT ![k] = @ + 1] /\ lapses' = lapses + 1
            BY <3>2, <6>1
          <6> HIDE DEF g
          <6> QED
            BY <6>2, <6>3
        <5>4. PICK a \in Nat, l \in Nat, m \in {0, 1} :
                a = announced[h] /\ l = lapses /\ m = Remembered(h)
          BY <5>1, <5>2
        <5>5. \/ announced'[h] = a /\ lapses' = l
              \/ announced'[h] \in {a, a + 1} /\ lapses' = l + 1
          BY <5>3, <5>4
        <5> QED
          BY <5>1, <5>2, <5>4, <5>5
      <4>3. news'.at = "post" /\ news'.guild > 0 /\ news'.flushed = news.flushed
        BY <1>0, <3>1, <3>2 DEF NewsInv
      <4>4. news' \in [at : {"none", "start", "post", "failed", "over"}, guild : Nat,
                      flushed : SUBSET (1 .. Homes)]
        BY <1>0, <3>1, <3>2 DEF NewsInv
      <4> QED
        BY <1>0, <2>1, <3>1, <4>1, <4>2, <4>3, <4>4 DEF NewsInv
    <3>3. CASE /\ news' = [at |-> news.at, guild |-> news.guild + 1,
                          flushed |-> news.flushed \cup {g}]
               /\ announced' = [announced EXCEPT ![g] = @ + 1] /\ UNCHANGED lapses
               /\ g \notin known \cup news.flushed
      <4>1. announced' \in [1 .. Homes -> Nat] /\ lapses' \in Nat
        <5>1. announced \in [1 .. Homes -> Nat] /\ lapses \in Nat
          BY <1>0, Zenon DEF NewsInv
        <5> HIDE DEF g
        <5> QED
          BY <3>1, <3>3, <5>1
      <4>2. \A h \in 1 .. Homes : announced'[h] <= lapses' + Remembered(h)'
        <5> SUFFICES ASSUME NEW h \in 1 .. Homes
                     PROVE  announced'[h] <= lapses' + Remembered(h)'
          OBVIOUS
        <5>1. /\ Remembered(h) \in {0, 1} /\ Remembered(h)' \in {0, 1} /\ Remembered(h) <= Remembered(h)'
              /\ h = g => Remembered(h) = 0 /\ Remembered(h)' = 1
          BY <3>1, <3>3 DEF Remembered
        <5>2. announced[h] \in Nat /\ lapses \in Nat /\ announced[h] <= lapses + Remembered(h)
          BY <1>0 DEF NewsInv
        <5>3. lapses' = lapses /\ announced'[h] = (IF h = g THEN announced[h] + 1 ELSE announced[h])
          <6>1. DOMAIN announced = 1 .. Homes
            BY <1>0 DEF NewsInv
          <6> HIDE DEF g
          <6> QED
            BY <3>3, <6>1
        <5> QED
          BY <5>1, <5>2, <5>3
      <4>3. news' \in [at : {"none", "start", "post", "failed", "over"}, guild : Nat,
                      flushed : SUBSET (1 .. Homes)]
        BY <1>0, <3>1, <3>3 DEF NewsInv
      <4>4. news'.at = "post" /\ news'.guild > 0
        BY <1>0, <3>1, <3>3 DEF NewsInv
      <4> QED
        BY <1>0, <2>1, <3>1, <4>1, <4>2, <4>3, <4>4 DEF NewsInv
    <3>4. CASE /\ news' = [at |-> "failed", guild |-> 0, flushed |-> {}]
               /\ announced' = [announced EXCEPT ![g] = @ + 1] /\ lapses' = lapses + 1
               /\ g \notin known \cup news.flushed
      BY <1>0, <2>1, <3>1, <3>4 DEF NewsInv, Remembered
    <3> QED
      BY <1>0, <2>3, <3>2, <3>3, <3>4, NoNewsRecord, NewsRecords
         DEF Post, Lapse, NewsFail, OldNews
  <2>4. CASE Commit
    <3>1. UNCHANGED announced
      BY <2>4 DEF Commit
    <3>2. CASE /\ news' = [at |-> "over", guild |-> 0, flushed |-> {}]
               /\ known' = known \cup news.flushed /\ UNCHANGED lapses
      BY <1>0, <2>1, <3>1, <3>2 DEF NewsInv, Remembered
    <3>3. CASE /\ news' = [at |-> "failed", guild |-> 0, flushed |-> {}]
               /\ known' \in {known, known \cup news.flushed} /\ lapses' = lapses + 1
      BY <1>0, <2>1, <3>1, <3>3 DEF NewsInv, Remembered
    <3> QED
      BY <2>4, <3>2, <3>3, NoNewsRecord DEF Commit, Lapse, NewsFail
  <2> QED
    BY <1>7, <2>2, <2>3, <2>4
<1>8. CASE Ready \/ FirstEmoji \/ (\E t \in {"warmup", "backfill"} : TaskEnds(t))
           \/ (\E r \in Runs : RunEnds(r)) \/ WriterTakes \/ (\E ok \in BOOLEAN : WriterFlushes(ok))
           \/ UNCHANGED lifecycleVars
  <2>1. UNCHANGED <<phase, next, news, announced, known, lapses>>
    BY <1>8 DEF Ready, FirstEmoji, TaskEnds, RunEnds, WriterTakes, WriterFlushes, bot, changelog,
                lifecycleVars
  <2> QED
    BY <1>0, <2>1 DEF NewsInv, Remembered, Stopped
<1> QED
  BY <1>1, <1>2, <1>3, <1>4, <1>5, <1>6, <1>7, <1>8 DEF LifecycleNext

LEMMA LifecycleSound == LifecycleIInv => LifecycleInv
<1> SUFFICES ASSUME LifecycleIInv PROVE LifecycleInv
  OBVIOUS
<1>0. AliveInv /\ PhaseInv /\ WriterInv /\ RunsInv /\ NewsInv
  BY DEF LifecycleIInv
<1>1. LifecycleTypeOK
  <2>1. unfinished >= 0
    BY <1>0, QueueTypes DEF WriterInv, Writer!InHand
  <2> QED
    BY <1>0, <2>1, OrderFacts DEF LifecycleTypeOK, PhaseInv, RunsInv, NewsInv
<1>2. OneBotAtATime
  BY <1>0 DEF OneBotAtATime, AliveInv, Mine
<1>3. NothingLeft
  BY <1>0 DEF AliveInv
<1>4. TelemetryIsDrained
  <2> SUFFICES ASSUME phase \in {"backoff", "gone"}, reason # "raised", NEW r \in Runs,
                      runs[r] = "queued"
               PROVE  FALSE
    BY DEF TelemetryIsDrained
  <2>1. closing = "closed" /\ queue = <<>> /\ task = "none"
    BY <1>0 DEF RunsInv, WriterInv
  <2>2. holding = NoRun /\ Len(queue) = 0
    BY <1>0, <2>1 DEF WriterInv
  <2> QED
    BY <1>0, <2>2, LifecycleAssumption DEF RunsInv
<1>5. AnnouncedOnce
  BY <1>0, LifecycleAssumption DEF AnnouncedOnce, NewsInv, Remembered
<1> QED
  BY <1>1, <1>2, <1>3, <1>4, <1>5 DEF LifecycleInv

\* For any runs, homes, boots and lapses: tasks belong to the bot that runs, close passes
\* each of them in its order, an accepted run is written or still in hand unless the
\* process raised, and no change is announced twice without a lapse (bot.py, telemetry).
THEOREM LifecycleIsSafe == LifecycleSpec => []LifecycleInv
<1>1. LifecycleIInv /\ [LifecycleNext]_lifecycleVars => LifecycleIInv'
  BY AliveKept, PhaseKept, WriterKept, RunsKept, NewsKept DEF LifecycleIInv
<1> QED
  BY LifecycleInitiates, <1>1, LifecycleSound, PTL DEF LifecycleSpec

------------------------------------------------------------------------------
(* Feedback.  A report that has passed its check may demote the answer     *)
(* once (Holding); whoever checks the answer now is stopped by the archive *)
(* or excused by a report on its way there (Claimed).  So the demotions    *)
(* done and to come are at most the excuses, and one if it is claimed.     *)

ReportRows ==
  [at : {"idle", "check", "archive", "insert", "send", "over"}, about : Replies \cup {0},
   age : Int, archived : BOOLEAN]

\* The reports of a that have passed its check and not come to their end.
Holding(a) ==
  {c \in Complaints : complaint[c].about = a /\ complaint[c].at \in {"archive", "insert", "send"}}
\* Whoever checks a now is stopped, or excused.
Claimed(a) ==
  Archived(a) \/ \E c \in Complaints : complaint[c].about = a /\ complaint[c].at \in {"archive", "insert"}
Due(a) == IF Claimed(a) THEN 1 ELSE 0

KeptInv ==
  /\ minute \in 0 .. FeedbackHorizon /\ mishaps \in 0 .. MaxMishaps
  /\ captured \in [Replies -> Int]
  /\ recent \cup persisted \cup persisting \subseteq {a \in Replies : captured[a] # NotYet}
  /\ Cardinality(recent) <= KeptEntries

ReportsTyped ==
  /\ complaint \in [Complaints -> ReportRows] /\ archive \in [Complaints -> Replies \cup {0}]
  /\ demotions \in [Replies -> Nat] /\ excuses \in [Replies -> Nat]
  /\ \A c \in Complaints :
       /\ complaint[c].age <= KeptFor
       /\ Amid(c) => complaint[c].about \in Replies
       /\ complaint[c].at \in {"idle", "check", "archive", "insert"} => archive[c] = 0

SessionInv ==
  world.single =>
    /\ \A c, d \in Complaints : complaint[c].at = "insert" /\ complaint[d].at = "insert" => c = d
    /\ \A c \in Complaints : complaint[c].at = "insert" => ~ Archived(complaint[c].about)

DemotionInv == \A a \in Replies : demotions[a] + Cardinality(Holding(a)) <= excuses[a] + Due(a)

FilesInv == ReportsTyped /\ SessionInv /\ ArchivedOnce /\ DemotionInv

FeedbackIInv == KeptInv /\ FilesInv

LEMMA FeedbackFacts ==
  /\ KeptFor \in Nat /\ FeedbackHorizon \in Nat /\ MaxMishaps \in Nat /\ KeptEntries \in Nat \ {0}
  /\ Replies \subseteq Nat /\ 0 \notin Replies /\ IsFiniteSet(Replies) /\ IsFiniteSet(Complaints)
<1>1. Cardinality(Replies) \in Nat
  BY FeedbackAssumption, FS_CardinalityType
<1>2. Replies = 1 .. Cardinality(Replies)
  BY FeedbackAssumption
<1>3. 1 .. Cardinality(Replies) \subseteq Nat /\ 0 \notin 1 .. Cardinality(Replies)
  BY <1>1
<1> QED
  BY <1>2, <1>3, FeedbackAssumption

LEMMA LatestIsLast ==
  ASSUME NEW A \in SUBSET Replies, A # {}
  PROVE  Latest(A) \in A
<1> DEFINE n == Cardinality(Replies)
           T == {n - i : i \in A}
           Below == OpToRel(<, Nat)
<1>1. n \in Nat /\ A \subseteq 1 .. n
  BY FeedbackAssumption, FS_CardinalityType
<1> HIDE DEF n
<1>2. T \subseteq Nat
  <2> SUFFICES ASSUME NEW i \in A PROVE n - i \in Nat
    OBVIOUS
  <2>1. i \in Nat /\ i <= n
    BY <1>1
  <2> QED
    BY <1>1, <2>1
<1>3. T # {}
  OBVIOUS
<1>4. \A x, y \in Nat : <<x, y>> \in Below <=> x < y
  BY DEF OpToRel
<1>5. IsWellFoundedOn(Below, Nat)
  BY NatLessThanWellFounded
<1> HIDE DEF Below, T
<1>6. PICK t \in T : \A u \in T : ~ (<<u, t>> \in Below)
  BY <1>2, <1>3, <1>5, WFMin
<1>7. \A u \in T : t <= u
  <2>1. \A u \in T : u \in Nat /\ t \in Nat /\ ~ (u < t)
    BY <1>2, <1>4, <1>6, Zenon
  <2> QED
    BY <2>1
<1>8. PICK i \in A : t = n - i
  BY DEF T
<1>9. \A j \in A : n - i <= n - j /\ j \in Nat /\ i \in Nat
  BY <1>1, <1>7, <1>8 DEF T
<1>10. \A j \in A : i >= j
  BY <1>1, <1>9
<1>11. Max(A) \in A
  BY <1>10 DEF Max
<1> QED
  BY <1>11 DEF Latest

\* A cache of K answers: one that has fewer than K later ones is among them.
LEMMA PrunedFits ==
  ASSUME NEW A \in SUBSET Replies, NEW at
  PROVE  Pruned(A, at) \subseteq A /\ Cardinality(Pruned(A, at)) <= KeptEntries
<1> DEFINE P == Pruned(A, at)
<1>1. P \subseteq A
  BY DEF Pruned
<1>2. IsFiniteSet(A) /\ IsFiniteSet(P)
  BY <1>1, FeedbackFacts, FS_Subset
<1>3. CASE P = {}
  <2>1. Cardinality(P) = 0
    BY <1>3, FS_EmptySet
  <2> QED
    BY <1>1, <2>1, FeedbackFacts
<1>4. CASE P # {}
  <2>1. PICK i \in P : \A j \in P : i <= j
    <3> DEFINE Below == OpToRel(<, Nat)
    <3>1. \A x, y \in Nat : <<x, y>> \in Below <=> x < y
      BY DEF OpToRel
    <3>2. IsWellFoundedOn(Below, Nat)
      BY NatLessThanWellFounded
    <3>3. P \subseteq Nat
      BY <1>1, FeedbackFacts
    <3> HIDE DEF Below, P
    <3>4. PICK i \in P : \A u \in P : ~ (<<u, i>> \in Below)
      BY <1>4, <3>2, <3>3, WFMin
    <3>5. \A u \in P : u \in Nat /\ i \in Nat /\ ~ (u < i)
      BY <3>1, <3>3, <3>4, Zenon
    <3> QED
      BY <3>5
  <2> DEFINE Later == {b \in A : b > i}
  <2>2. Cardinality(Later) < KeptEntries
    BY <2>1 DEF Pruned
  <2>3. P \ {i} \subseteq Later
    <3> SUFFICES ASSUME NEW j \in P, j # i PROVE j \in A /\ j > i
      OBVIOUS
    <3>1. i \in Nat /\ j \in Nat /\ i <= j /\ j \in A
      BY <1>1, <2>1, FeedbackFacts
    <3> QED
      BY <3>1
  <2>4. IsFiniteSet(Later) /\ Cardinality(Later) \in Nat
    BY <1>2, FS_Subset, FS_CardinalityType
  <2> HIDE DEF P, Later
  <2>5. Cardinality(P \ {i}) <= Cardinality(Later)
    BY <2>3, <2>4, FS_Subset
  <2>6. Cardinality(P \ {i}) = Cardinality(P) - 1 /\ Cardinality(P) \in Nat
    BY <1>2, <2>1, FS_RemoveElement, FS_CardinalityType
  <2>7. PICK p \in Nat, l \in Nat : p = Cardinality(P) /\ l = Cardinality(Later)
    BY <2>4, <2>6
  <2>8. p - 1 <= l /\ l < KeptEntries
    BY <2>2, <2>5, <2>6, <2>7
  <2>9. p <= KeptEntries
    BY <2>8, FeedbackFacts
  <2> QED
    BY <1>1, <2>7, <2>9 DEF P
<1> QED
  BY <1>3, <1>4

LEMMA FeedbackBegins == FeedbackInit => FeedbackIInv
<1> SUFFICES ASSUME FeedbackInit PROVE FeedbackIInv
  OBVIOUS
<1>1. KeptInv
  <2>1. Cardinality({}) = 0
    BY FS_EmptySet
  <2> QED
    BY <2>1, FeedbackFacts DEF FeedbackInit, KeptInv, NotYet
<1>2. /\ complaint = [c \in Complaints |-> NoComplaint] /\ NoComplaint \in ReportRows
      /\ NoComplaint.at = "idle" /\ NoComplaint.age = 0 /\ NoComplaint.about = 0
  BY DEF FeedbackInit, NoComplaint, ReportRows
<1>3. ReportsTyped
  BY <1>2, FeedbackFacts DEF FeedbackInit, ReportsTyped, Amid
<1>4. SessionInv /\ ArchivedOnce
  BY <1>2 DEF FeedbackInit, SessionInv, ArchivedOnce
<1>5. DemotionInv
  <2> SUFFICES ASSUME NEW a \in Replies
               PROVE  demotions[a] + Cardinality(Holding(a)) <= excuses[a] + Due(a)
    BY DEF DemotionInv
  <2>1. Holding(a) = {}
    BY <1>2 DEF Holding
  <2>2. Cardinality(Holding(a)) = 0
    BY <2>1, FS_EmptySet
  <2>3. demotions[a] = 0 /\ excuses[a] = 0
    BY DEF FeedbackInit
  <2>4. Due(a) \in {0, 1}
    BY DEF Due
  <2> QED
    BY <2>2, <2>3, <2>4
<1> QED
  BY <1>1, <1>3, <1>4, <1>5 DEF FeedbackIInv, FilesInv

Counts == (UNCHANGED mishaps \/ Mishap) /\ (UNCHANGED minute \/ MinutePasses)

LEMMA FeedbackCounts ==
  ASSUME [FeedbackNext]_feedbackVars
  PROVE  Counts
<1>1. ASSUME NEW a, NEW ok, Deliver(a) \/ Persist(a, ok) PROVE Counts
  BY <1>1 DEF Deliver, Persist, Tried, Counts
<1>2. ASSUME NEW c, NEW ws, Report(c, ws) PROVE Counts
  <2>1. UNCHANGED mishaps \/ \E ok \in BOOLEAN : Tried(ok)
    BY <1>2 DEF Report
  <2>2. UNCHANGED minute
    BY <1>2 DEF Report
  <2> QED
    BY <2>1, <2>2 DEF Tried, Counts
<1>3. ASSUME NEW c, NEW ok, ArchiveLook(c) \/ CheckArchived(c, ok) \/ ArchiveInsert(c, ok) PROVE Counts
  BY <1>3 DEF ArchiveLook, CheckArchived, ArchiveInsert, Tried, Counts
<1>4. ASSUME NEW c, NEW x, NEW y, SendAndDemote(c, x, y) PROVE Counts
  BY <1>4 DEF SendAndDemote, Counts
<1>5. ASSUME NEW what, Retain(what) PROVE Counts
  BY <1>5 DEF Retain, Counts
<1>6. CASE BotRestarts \/ MinutePasses \/ UNCHANGED feedbackVars
  BY <1>6 DEF BotRestarts, MinutePasses, feedbackVars, Counts
<1> QED
  <2>1. CASE \E a \in Replies : Deliver(a) \/ \E ok \in BOOLEAN : Persist(a, ok)
    BY <1>1, <2>1
  <2>2. ASSUME NEW c \in Complaints,
               \/ \E ws \in Meanings : Report(c, ws)
               \/ ArchiveLook(c)
               \/ \E ok \in BOOLEAN : CheckArchived(c, ok) \/ ArchiveInsert(c, ok)
               \/ \E posted, demoted \in BOOLEAN : SendAndDemote(c, posted, demoted)
        PROVE  Counts
    BY <1>2, <1>3, <1>4, <2>2
  <2>3. CASE \E what \in {"cache", "table"} : Retain(what)
    BY <1>5, <2>3
  <2> QED
    BY <1>6, <2>1, <2>2, <2>3 DEF FeedbackNext

LEMMA KeptKept ==
  ASSUME KeptInv, [FeedbackNext]_feedbackVars
  PROVE  KeptInv'
<1>0. /\ minute \in 0 .. FeedbackHorizon /\ mishaps \in 0 .. MaxMishaps
      /\ captured \in [Replies -> Int]
      /\ recent \cup persisted \cup persisting \subseteq {a \in Replies : captured[a] # NotYet}
      /\ Cardinality(recent) <= KeptEntries /\ minute \in Int /\ minute # NotYet
  BY FeedbackFacts DEF KeptInv, NotYet
<1>a. mishaps' \in 0 .. MaxMishaps
  BY <1>0, FeedbackFacts, FeedbackCounts DEF Counts, Mishap
<1>b. minute' \in 0 .. FeedbackHorizon
  BY <1>0, FeedbackFacts, FeedbackCounts DEF Counts, MinutePasses
<1>1. ASSUME NEW a \in Replies, Deliver(a) PROVE KeptInv'
  <2>1. captured' = [captured EXCEPT ![a] = minute] /\ captured' \in [Replies -> Int]
    BY <1>0, <1>1 DEF Deliver
  <2>2. \A b \in Replies : captured[b] # NotYet => captured'[b] # NotYet
    BY <1>0, <2>1
  <2>3. captured'[a] # NotYet
    BY <1>0, <2>1
  <2>4. recent \cup {a} \in SUBSET Replies
    BY <1>0
  <2>5. recent' \subseteq recent \cup {a} /\ Cardinality(recent') <= KeptEntries
    BY <1>1, <2>4, PrunedFits DEF Deliver
  <2>6. persisting' \subseteq persisting \cup {a} /\ persisted' = persisted
    BY <1>1 DEF Deliver
  <2>7. recent' \cup persisted' \cup persisting' \subseteq {b \in Replies : captured'[b] # NotYet}
    BY <1>0, <2>2, <2>3, <2>5, <2>6
  <2> QED
    BY <1>a, <1>b, <2>1, <2>5, <2>7 DEF KeptInv
<1>2. ASSUME NEW a \in Replies, NEW ok, Persist(a, ok) PROVE KeptInv'
  <2>1. UNCHANGED <<captured, recent>> /\ persisting' \subseteq persisting
    BY <1>2 DEF Persist
  <2>2. persisted' \subseteq persisted \cup {a} /\ a \in persisting
    BY <1>2 DEF Persist
  <2> QED
    BY <1>0, <1>a, <1>b, <2>1, <2>2 DEF KeptInv
<1>3. ASSUME NEW what, Retain(what) PROVE KeptInv'
  <2>1. UNCHANGED <<captured, persisting>> /\ persisted' \subseteq persisted
    BY <1>3 DEF Retain, StillKept
  <2>2. recent' = recent \/ recent' = Pruned(recent, captured)
    BY <1>3 DEF Retain
  <2>3. recent' \subseteq recent /\ Cardinality(recent') <= KeptEntries
    BY <1>0, <2>2, PrunedFits
  <2> QED
    BY <1>0, <1>a, <1>b, <2>1, <2>3 DEF KeptInv
<1>4. ASSUME NEW c, NEW ws, Report(c, ws) PROVE KeptInv'
  <2>1. UNCHANGED <<captured, persisting>> /\ persisted' \subseteq persisted
    BY <1>4 DEF Report, StillKept
  <2>2. recent' = Pruned(recent, captured)
    BY <1>4 DEF Report
  <2>3. recent' \subseteq recent /\ Cardinality(recent') <= KeptEntries
    BY <1>0, <2>2, PrunedFits
  <2> QED
    BY <1>0, <1>a, <1>b, <2>1, <2>3 DEF KeptInv
<1>5. CASE BotRestarts
  <2>1. UNCHANGED <<captured, persisted>> /\ persisting' = {} /\ recent' = {}
    BY <1>5 DEF BotRestarts
  <2>2. Cardinality({}) = 0
    BY FS_EmptySet
  <2> QED
    BY <1>0, <1>a, <1>b, <2>1, <2>2, FeedbackFacts DEF KeptInv
<1>6. ASSUME UNCHANGED <<captured, recent, persisted, persisting>> PROVE KeptInv'
  BY <1>0, <1>a, <1>b, <1>6 DEF KeptInv
<1>7. CASE MinutePasses \/ UNCHANGED feedbackVars
  BY <1>6, <1>7 DEF MinutePasses, feedbackVars
<1>8. ASSUME NEW c \in Complaints, NEW x \in BOOLEAN, NEW y \in BOOLEAN,
             \/ ArchiveLook(c) \/ CheckArchived(c, x) \/ ArchiveInsert(c, x)
             \/ SendAndDemote(c, x, y)
      PROVE  KeptInv'
  BY <1>6, <1>8 DEF ArchiveLook, CheckArchived, ArchiveInsert, SendAndDemote
<1> QED
  BY <1>1, <1>2, <1>3, <1>4, <1>5, <1>7, <1>8 DEF FeedbackNext

\* A report takes up an answer that is recent, or ends.
LEMMA ChosenIn ==
  ASSUME NEW A \in SUBSET Replies, NEW ws, Chosen(A, ws) # 0
  PROVE  Chosen(A, ws) \in A
<1>1. A \cap ws \in SUBSET Replies
  OBVIOUS
<1>2. A \cap ws # {}
  BY DEF Chosen, Latest
<1> QED
  BY <1>1, <1>2, LatestIsLast DEF Chosen

LEMMA EndIsEnd ==
  /\ EndOfReport \in ReportRows /\ EndOfReport.at = "over" /\ EndOfReport.age = 0
  /\ EndOfReport.about = 0
<1>1. PICK no, over : /\ no = FALSE /\ over = "over"
                      /\ NoComplaint = [at |-> "idle", about |-> 0, age |-> 0, archived |-> no]
  BY DEF NoComplaint
<1>2. EndOfReport = [at |-> over, about |-> 0, age |-> 0, archived |-> no]
  <2>1. \A x : [NoComplaint EXCEPT !.at = x] = [at |-> x, about |-> 0, age |-> 0, archived |-> no]
    BY <1>1
  <2> QED
    BY <1>1, <2>1, Zenon DEF EndOfReport
<1>3. no \in BOOLEAN
  BY <1>1
<1> QED
  BY <1>1, <1>2, <1>3 DEF ReportRows

LEMMA ReportMoves ==
  ASSUME KeptInv, NEW c \in Complaints, NEW ws, Report(c, ws)
  PROVE  \E r \in ReportRows :
           /\ complaint[c].at = "idle" /\ complaint' = [complaint EXCEPT ![c] = r]
           /\ r.at \in {"check", "over"} /\ r.age <= KeptFor
           /\ r.at = "check" => r.about \in Replies
           /\ UNCHANGED <<world, archive, demotions, excuses>>
<1>0. /\ captured \in [Replies -> Int] /\ minute \in Int
      /\ recent \in SUBSET Replies /\ persisted \in SUBSET Replies
  BY FeedbackFacts DEF KeptInv
<1> DEFINE Fine(r) == /\ r \in ReportRows /\ r.at \in {"check", "over"} /\ r.age <= KeptFor
                      /\ r.at = "check" => r.about \in Replies
<1>1. ASSUME NEW a \in Replies, minute - captured[a] <= KeptFor PROVE Fine(Found(a))
  BY <1>0, <1>1 DEF Found, Age, ReportRows
<1>2. Fine(EndOfReport)
  BY EndIsEnd, FeedbackFacts
<1>3. complaint[c].at = "idle" /\ UNCHANGED <<world, archive, demotions, excuses>>
  BY DEF Report
<1>4. PICK r, a : /\ complaint' = [complaint EXCEPT ![c] = r]
                  /\ \/ r = EndOfReport
                     \/ r = Found(a) /\ a # 0 /\ a = Chosen(Pruned(recent, captured), ws)
                     \/ r = Found(a) /\ a # 0 /\ a = Chosen(StillKept(persisted), ws)
  BY DEF Report, Move
<1>5. CASE r = Found(a) /\ a # 0 /\ a = Chosen(Pruned(recent, captured), ws)
  <2>1. a \in Pruned(recent, captured)
    BY <1>0, <1>5, PrunedFits, ChosenIn
  <2>2. a \in Replies /\ minute - captured[a] <= KeptFor
    BY <1>0, <2>1 DEF Pruned
  <2> QED
    BY <1>1, <1>3, <1>4, <1>5, <2>2
<1>6. CASE r = Found(a) /\ a # 0 /\ a = Chosen(StillKept(persisted), ws)
  <2>1. StillKept(persisted) \in SUBSET Replies
    BY <1>0 DEF StillKept
  <2>2. a \in StillKept(persisted)
    BY <1>6, <2>1, ChosenIn
  <2>3. a \in Replies /\ minute - captured[a] < KeptFor
    BY <1>0, <2>2 DEF StillKept, Age
  <2>4. minute - captured[a] <= KeptFor
    BY <1>0, <2>3, FeedbackFacts
  <2> QED
    BY <1>1, <1>3, <1>4, <1>6, <2>3, <2>4
<1>7. CASE r = EndOfReport
  BY <1>2, <1>3, <1>4, <1>7
<1> QED
  BY <1>4, <1>5, <1>6, <1>7

------------------------------------------------------------------------------

LEMMA RowChanges ==
  ASSUME NEW r \in ReportRows
  PROVE  \A x : [r EXCEPT !.at = x]
                  = [at |-> x, about |-> r.about, age |-> r.age, archived |-> r.archived]
  BY DEF ReportRows

LEMMA HoldingFinite ==
  \A S : S \subseteq Complaints => IsFiniteSet(S) /\ Cardinality(S) \in Nat
  BY FeedbackFacts, FS_Subset, FS_CardinalityType

LEMMA Counted0 ==
  ASSUME FilesInv, NEW a \in Replies
  PROVE  /\ Holding(a) \subseteq Complaints /\ Cardinality(Holding(a)) \in Nat
         /\ IsFiniteSet(Holding(a)) /\ Due(a) \in {0, 1} /\ demotions[a] \in Nat /\ excuses[a] \in Nat
         /\ demotions[a] + Cardinality(Holding(a)) <= excuses[a] + Due(a)
<1>1. Holding(a) \subseteq Complaints
  BY DEF Holding
<1> QED
  BY <1>1, HoldingFinite DEF FilesInv, DemotionInv, ReportsTyped, Due

LEMMA FilesRest ==
  ASSUME FilesInv, UNCHANGED <<world, complaint, archive, demotions, excuses>>
  PROVE  FilesInv'
<1>1. \A a : Holding(a)' = Holding(a) /\ Due(a)' = Due(a)
  BY DEF Holding, Due, Claimed, Archived
<1>2. DemotionInv'
  BY <1>1 DEF FilesInv, DemotionInv
<1>3. ReportsTyped'
  BY DEF FilesInv, ReportsTyped, Amid
<1>4. SessionInv' /\ ArchivedOnce'
  BY DEF FilesInv, SessionInv, ArchivedOnce, Archived
<1> QED
  BY <1>2, <1>3, <1>4 DEF FilesInv

\* A step of a report that leaves the archive alone.
Steps(c, r) ==
  /\ r \in ReportRows /\ r.age <= KeptFor
  /\ r.at \in {"check", "archive", "insert", "send"} => r.about \in Replies
  /\ r.at \in {"idle", "check", "archive", "insert"} =>
       complaint[c].at \in {"idle", "check", "archive", "insert"}
  /\ complaint' = [complaint EXCEPT ![c] = r] /\ UNCHANGED <<world, archive>>

LEMMA StepsType ==
  ASSUME FilesInv, NEW c \in Complaints, NEW r, Steps(c, r),
         demotions' \in [Replies -> Nat], excuses' \in [Replies -> Nat]
  PROVE  /\ ReportsTyped' /\ ArchivedOnce'
         /\ \A d \in Complaints : complaint'[d] = IF d = c THEN r ELSE complaint[d]
         /\ \A a : Archived(a)' = Archived(a)
<1>1. complaint \in [Complaints -> ReportRows] /\ complaint' \in [Complaints -> ReportRows]
  BY DEF FilesInv, ReportsTyped, Steps
<1>2. \A d \in Complaints : complaint'[d] = IF d = c THEN r ELSE complaint[d]
  BY <1>1 DEF Steps
<1>3. ArchivedOnce'
  BY DEF FilesInv, ArchivedOnce, Steps
<1>4. \A a : Archived(a)' = Archived(a)
  BY DEF Archived, Steps
<1>5. ASSUME NEW d \in Complaints
      PROVE  /\ complaint'[d].age <= KeptFor
             /\ Amid(d)' => complaint'[d].about \in Replies
             /\ complaint'[d].at \in {"idle", "check", "archive", "insert"} => archive'[d] = 0
  <2>1. CASE d = c
    BY <1>1, <1>2, <2>1 DEF FilesInv, ReportsTyped, Steps, Amid, ReportRows
  <2>2. CASE d # c
    BY <1>2, <2>2 DEF FilesInv, ReportsTyped, Steps, Amid
  <2> QED
    BY <2>1, <2>2
<1>6. ReportsTyped'
  BY <1>1, <1>5 DEF FilesInv, ReportsTyped, Steps
<1> QED
  BY <1>2, <1>3, <1>4, <1>6

LEMMA ReportKeeps ==
  ASSUME KeptInv, FilesInv, NEW c \in Complaints, NEW ws, Report(c, ws)
  PROVE  FilesInv'
<1>1. PICK r \in ReportRows :
        /\ complaint[c].at = "idle" /\ complaint' = [complaint EXCEPT ![c] = r]
        /\ r.at \in {"check", "over"} /\ r.age <= KeptFor
        /\ r.at = "check" => r.about \in Replies
        /\ UNCHANGED <<world, archive, demotions, excuses>>
  BY ReportMoves
<1>2. Steps(c, r) /\ demotions' \in [Replies -> Nat] /\ excuses' \in [Replies -> Nat]
  BY <1>1 DEF Steps, FilesInv, ReportsTyped
<1>3. /\ ReportsTyped' /\ ArchivedOnce'
      /\ \A d \in Complaints : complaint'[d] = IF d = c THEN r ELSE complaint[d]
      /\ \A a : Archived(a)' = Archived(a)
  BY <1>2, StepsType
<1>4. \A a : Holding(a)' = Holding(a)
  BY <1>1, <1>3 DEF Holding
<1>5. \A a : Due(a)' = Due(a)
  BY <1>1, <1>3 DEF Due, Claimed
<1>6. DemotionInv'
  BY <1>1, <1>4, <1>5 DEF FilesInv, DemotionInv
<1>7. SessionInv'
  BY <1>1, <1>3 DEF FilesInv, SessionInv
<1> QED
  BY <1>3, <1>6, <1>7 DEF FilesInv

LEMMA CheckKeeps ==
  ASSUME FilesInv, NEW c \in Complaints, NEW ok \in BOOLEAN, CheckArchived(c, ok)
  PROVE  FilesInv'
<1>1. /\ complaint \in [Complaints -> ReportRows] /\ complaint[c].at = "check"
      /\ complaint[c].about \in Replies /\ UNCHANGED <<world, archive, demotions>>
      /\ complaint[c].age <= KeptFor
  BY DEF CheckArchived, FilesInv, ReportsTyped, Amid
<1>2. PICK a \in Replies : a = complaint[c].about
  BY <1>1
<1>3. CASE complaint' = [complaint EXCEPT ![c] = EndOfReport] /\ UNCHANGED excuses
  <2>1. Steps(c, EndOfReport) /\ demotions' \in [Replies -> Nat] /\ excuses' \in [Replies -> Nat]
    BY <1>1, <1>3, EndIsEnd, FeedbackFacts DEF Steps, FilesInv, ReportsTyped
  <2>2. /\ ReportsTyped' /\ ArchivedOnce'
        /\ \A d \in Complaints : complaint'[d] = IF d = c THEN EndOfReport ELSE complaint[d]
        /\ \A b : Archived(b)' = Archived(b)
    BY <2>1, StepsType
  <2>3. \A b : Holding(b)' = Holding(b) /\ Due(b)' = Due(b)
    BY <1>1, <2>2, EndIsEnd DEF Holding, Due, Claimed
  <2>4. DemotionInv' /\ SessionInv'
    BY <1>1, <1>3, <2>2, <2>3, EndIsEnd DEF FilesInv, DemotionInv, SessionInv
  <2> QED
    BY <2>2, <2>4 DEF FilesInv
<1>4. CASE ~ (ok /\ SeenBefore(a))
  <2>1. PICK r, at : /\ at = "archive" /\ r = [complaint[c] EXCEPT !.at = at]
                     /\ complaint' = [complaint EXCEPT ![c] = r]
    BY <1>2, <1>4 DEF CheckArchived, Move
  <2>2. r = [at |-> at, about |-> a, age |-> complaint[c].age, archived |-> complaint[c].archived]
    BY <1>1, <1>2, <2>1, RowChanges
  <2>3. r \in ReportRows /\ r.at = "archive" /\ r.about = a /\ r.age = complaint[c].age
    BY <1>1, <2>1, <2>2 DEF ReportRows
  <2>4. PICK one \in {0, 1} : /\ excuses' = [excuses EXCEPT ![a] = @ + one]
                              /\ one = IF ok /\ Rivals(c) = {} THEN 0 ELSE 1
    BY <1>2, <1>4 DEF CheckArchived
  <2>5. excuses \in [Replies -> Nat] /\ demotions \in [Replies -> Nat]
    BY DEF FilesInv, ReportsTyped
  <2>6. /\ excuses' \in [Replies -> Nat] /\ excuses'[a] = excuses[a] + one
        /\ \A b \in Replies : b # a => excuses'[b] = excuses[b]
    BY <2>4, <2>5
  <2>7. Steps(c, r)
    BY <1>1, <2>1, <2>3 DEF Steps
  <2>8. /\ ReportsTyped' /\ ArchivedOnce'
        /\ \A d \in Complaints : complaint'[d] = IF d = c THEN r ELSE complaint[d]
        /\ \A b : Archived(b)' = Archived(b)
    BY <1>1, <2>5, <2>6, <2>7, StepsType
  <2>9. \A b : b # a => Holding(b)' = Holding(b) /\ Due(b)' = Due(b)
    BY <1>1, <2>3, <2>8 DEF Holding, Due, Claimed
  <2>10. Holding(a)' = Holding(a) \cup {c} /\ c \notin Holding(a)
    BY <1>1, <2>3, <2>8 DEF Holding
  <2>11. Cardinality(Holding(a)') = Cardinality(Holding(a)) + 1
    BY <2>10, Counted0, FS_AddElement
  <2>12. Due(a)' = 1
    BY <2>3, <2>8 DEF Due, Claimed
  <2>13. one = 0 => Due(a) = 0
    <3> SUFFICES ASSUME one = 0 PROVE ~ Claimed(a)
      BY DEF Due
    <3>1. ok /\ Rivals(c) = {} /\ ~ SeenBefore(a)
      BY <1>4, <2>4
    <3>2. ~ \E d \in Complaints : complaint[d].about = a /\ complaint[d].at \in {"archive", "insert"}
      BY <1>1, <1>2, <3>1 DEF Rivals
    <3> QED
      BY <3>1, <3>2 DEF Claimed, SeenBefore
  <2>14. ASSUME NEW b \in Replies
         PROVE  demotions'[b] + Cardinality(Holding(b)') <= excuses'[b] + Due(b)'
    <3>1. CASE b # a
      BY <1>1, <2>6, <2>9, <3>1 DEF FilesInv, DemotionInv
    <3>2. CASE b = a
      <4>1. demotions[a] + Cardinality(Holding(a)) <= excuses[a] + Due(a)
        BY Counted0
      <4>2. /\ Cardinality(Holding(a)) \in Nat /\ demotions[a] \in Nat /\ excuses[a] \in Nat
            /\ Due(a) \in {0, 1}
        BY Counted0
      <4>3. demotions[a] + (Cardinality(Holding(a)) + 1) <= (excuses[a] + one) + 1
        BY <2>13, <4>1, <4>2
      <4>4. demotions'[a] = demotions[a]
        BY <1>1
      <4> QED
        BY <2>6, <2>11, <2>12, <3>2, <4>3, <4>4
    <3> QED
      BY <3>1, <3>2
  <2>15. DemotionInv'
    BY <2>14 DEF DemotionInv
  <2>16. SessionInv'
    BY <1>1, <2>3, <2>8 DEF FilesInv, SessionInv
  <2> QED
    BY <2>8, <2>15, <2>16 DEF FilesInv
<1> QED
  BY <1>2, <1>3, <1>4 DEF CheckArchived, Move

LEMMA LookKeeps ==
  ASSUME FilesInv, NEW c \in Complaints, ArchiveLook(c)
  PROVE  FilesInv'
<1>1. /\ complaint \in [Complaints -> ReportRows] /\ complaint[c].at = "archive"
      /\ complaint[c].about \in Replies /\ UNCHANGED <<world, archive, demotions, excuses>>
      /\ complaint[c].age <= KeptFor /\ SessionFree
  BY DEF ArchiveLook, FilesInv, ReportsTyped, Amid
<1>2. PICK a \in Replies : a = complaint[c].about
  BY <1>1
<1>3. PICK r : /\ complaint' = [complaint EXCEPT ![c] = r]
               /\ r \in ReportRows /\ r.about = a /\ r.age = complaint[c].age
               /\ r.at \in {"send", "insert"} /\ (r.at = "send" <=> Archived(a))
  <2>1. CASE Archived(a)
    <3>1. PICK yes, at, r : /\ yes = TRUE /\ at = "send" /\ r = [complaint[c] EXCEPT !.at = at, !.archived = yes]
                            /\ complaint' = [complaint EXCEPT ![c] = r]
      BY <1>2, <2>1 DEF ArchiveLook, Move
    <3>2. PICK q \in ReportRows : q = complaint[c]
      BY <1>1
    <3>3. [q EXCEPT !.at = at, !.archived = yes]
            = [at |-> at, about |-> q.about, age |-> q.age, archived |-> yes]
      <4>1. PICK p : p = [at |-> at, about |-> q.about, age |-> q.age, archived |-> q.archived]
        OBVIOUS
      <4>2. [p EXCEPT !.archived = yes]
              = [at |-> at, about |-> q.about, age |-> q.age, archived |-> yes]
        BY <4>1
      <4>3. [q EXCEPT !.at = at] = p
        BY <4>1 DEF ReportRows
      <4> QED
        BY <4>2, <4>3, Zenon
    <3>4. r = [at |-> at, about |-> q.about, age |-> q.age, archived |-> yes]
      BY <3>1, <3>2, <3>3, Zenon
    <3>5. yes \in BOOLEAN
      BY <3>1
    <3>6. r \in ReportRows /\ r.about = a /\ r.age = complaint[c].age /\ r.at = "send"
      BY <1>2, <3>1, <3>2, <3>4, <3>5 DEF ReportRows
    <3> QED
      BY <2>1, <3>1, <3>6
  <2>2. CASE ~ Archived(a)
    <3>1. PICK at, r : /\ at = "insert" /\ r = [complaint[c] EXCEPT !.at = at]
                       /\ complaint' = [complaint EXCEPT ![c] = r]
      BY <1>2, <2>2 DEF ArchiveLook, Move
    <3>2. r = [at |-> at, about |-> a, age |-> complaint[c].age, archived |-> complaint[c].archived]
      BY <1>1, <1>2, <3>1, RowChanges
    <3> QED
      BY <1>1, <2>2, <3>1, <3>2 DEF ReportRows
  <2> QED
    BY <2>1, <2>2
<1>4. Steps(c, r) /\ demotions' \in [Replies -> Nat] /\ excuses' \in [Replies -> Nat]
  BY <1>1, <1>3 DEF Steps, FilesInv, ReportsTyped
<1>5. /\ ReportsTyped' /\ ArchivedOnce'
      /\ \A d \in Complaints : complaint'[d] = IF d = c THEN r ELSE complaint[d]
      /\ \A b : Archived(b)' = Archived(b)
  BY <1>4, StepsType
<1>6. \A b : Holding(b)' = Holding(b)
  BY <1>1, <1>2, <1>3, <1>5 DEF Holding
<1>7. \A b : Due(b)' = Due(b)
  <2>1. Claimed(a) /\ Claimed(a)'
    <3>1. Claimed(a)
      BY <1>1, <1>2 DEF Claimed
    <3>2. complaint'[c] = r
      BY <1>5
    <3>3. CASE r.at = "send"
      BY <1>3, <1>5, <3>3 DEF Claimed
    <3>4. CASE r.at = "insert"
      <4>1. complaint'[c].about = a /\ complaint'[c].at \in {"archive", "insert"}
        BY <1>3, <3>2, <3>4
      <4>2. Claimed(a)'
        BY <4>1 DEF Claimed
      <4> QED
        BY <3>1, <4>2
    <3> QED
      BY <1>3, <3>1, <3>3, <3>4
  <2>2. ASSUME NEW b, b # a PROVE Claimed(b)' <=> Claimed(b)
    <3>1. \A d \in Complaints : complaint'[d].about = b <=> complaint[d].about = b
      BY <1>2, <1>3, <1>5, <2>2
    <3>2. \A d \in Complaints : complaint'[d].about = b => complaint'[d] = complaint[d]
      BY <1>3, <1>5, <2>2
    <3> QED
      BY <1>5, <3>1, <3>2 DEF Claimed
  <2>3. Due(a)' = 1 /\ Due(a) = 1
    BY <2>1 DEF Due
  <2>4. ASSUME NEW b, b # a PROVE Due(b)' = Due(b)
    BY <2>2, <2>4 DEF Due
  <2> QED
    BY <2>3, <2>4
<1>8. DemotionInv'
  BY <1>1, <1>6, <1>7 DEF FilesInv, DemotionInv
<1>9. SessionInv'
  <2> SUFFICES ASSUME world.single PROVE SessionInv'
    BY <1>1 DEF SessionInv
  <2>1. \A d \in Complaints : complaint[d].at # "insert"
    BY <1>1 DEF SessionFree
  <2>2. \A d \in Complaints : complaint'[d].at = "insert" => d = c /\ ~ Archived(complaint'[d].about)
    BY <1>3, <1>5, <2>1
  <2> QED
    BY <1>5, <2>2 DEF SessionInv
<1> QED
  BY <1>5, <1>8, <1>9 DEF FilesInv

LEMMA InsertKeeps ==
  ASSUME FilesInv, NEW c \in Complaints, NEW ok \in BOOLEAN, ArchiveInsert(c, ok)
  PROVE  FilesInv'
<1>1. /\ complaint \in [Complaints -> ReportRows] /\ complaint[c].at = "insert"
      /\ complaint[c].about \in Replies /\ UNCHANGED <<world, demotions>>
      /\ complaint[c].age <= KeptFor /\ archive \in [Complaints -> Replies \cup {0}]
      /\ archive[c] = 0 /\ excuses \in [Replies -> Nat] /\ demotions \in [Replies -> Nat]
  BY DEF ArchiveInsert, FilesInv, ReportsTyped, Amid
<1>2. PICK a \in Replies : a = complaint[c].about
  BY <1>1
<1>3. PICK r : /\ complaint' = [complaint EXCEPT ![c] = r]
               /\ r \in ReportRows /\ r.about = a /\ r.age = complaint[c].age /\ r.at = "send"
  <2>1. PICK at, r : /\ at = "send" /\ r = [complaint[c] EXCEPT !.at = at, !.archived = ok]
                     /\ complaint' = [complaint EXCEPT ![c] = r]
    BY DEF ArchiveInsert, Move
  <2>2. PICK q \in ReportRows : q = complaint[c]
    BY <1>1
  <2>3. [q EXCEPT !.at = at, !.archived = ok]
          = [at |-> at, about |-> q.about, age |-> q.age, archived |-> ok]
    <3>1. PICK p : p = [at |-> at, about |-> q.about, age |-> q.age, archived |-> q.archived]
      OBVIOUS
    <3>2. [p EXCEPT !.archived = ok]
            = [at |-> at, about |-> q.about, age |-> q.age, archived |-> ok]
      BY <3>1
    <3>3. [q EXCEPT !.at = at] = p
      BY <3>1 DEF ReportRows
    <3> QED
      BY <3>2, <3>3, Zenon
  <2>4. r = [at |-> at, about |-> q.about, age |-> q.age, archived |-> ok]
    BY <2>1, <2>2, <2>3, Zenon
  <2>5. r \in ReportRows /\ r.about = a /\ r.age = complaint[c].age /\ r.at = "send"
    BY <1>2, <2>1, <2>2, <2>4 DEF ReportRows
  <2> QED
    BY <2>1, <2>5
<1>4. PICK one \in {0, 1} : /\ excuses' = [excuses EXCEPT ![a] = @ + one]
                            /\ one = IF ok THEN 0 ELSE 1
  BY <1>2 DEF ArchiveInsert
<1>5. /\ excuses' \in [Replies -> Nat] /\ excuses'[a] = excuses[a] + one
      /\ \A b \in Replies : b # a => excuses'[b] = excuses[b]
  BY <1>1, <1>4
<1>6. \A d \in Complaints : complaint'[d] = IF d = c THEN r ELSE complaint[d]
  BY <1>1, <1>3
<1>7. /\ archive' \in [Complaints -> Replies \cup {0}]
      /\ \A d \in Complaints : archive'[d] = IF d = c /\ ok THEN a ELSE archive[d]
  BY <1>1, <1>2 DEF ArchiveInsert
<1>8. ReportsTyped'
  <2>1. complaint' \in [Complaints -> ReportRows]
    BY <1>1, <1>3
  <2>2. ASSUME NEW d \in Complaints
        PROVE  /\ complaint'[d].age <= KeptFor
               /\ Amid(d)' => complaint'[d].about \in Replies
               /\ complaint'[d].at \in {"idle", "check", "archive", "insert"} => archive'[d] = 0
    <3>1. CASE d = c
      BY <1>1, <1>3, <1>6, <3>1
    <3>2. CASE d # c
      BY <1>6, <1>7, <3>2 DEF FilesInv, ReportsTyped, Amid
    <3> QED
      BY <3>1, <3>2
  <2> QED
    BY <1>1, <1>5, <1>7, <2>1, <2>2 DEF ReportsTyped
<1>9. /\ \A b \in Replies : b # a => (Archived(b)' <=> Archived(b))
      /\ ok => Archived(a)'
      /\ ~ ok => (Archived(a)' <=> Archived(a))
  <2>1. ASSUME NEW b \in Replies, b # a PROVE Archived(b)' <=> Archived(b)
    <3>1. \A d \in Complaints : archive'[d] = b <=> archive[d] = b
      BY <1>1, <1>7, <2>1, FeedbackFacts
    <3> QED
      BY <3>1 DEF Archived
  <2>2. ok => Archived(a)'
    BY <1>7 DEF Archived
  <2>3. ASSUME ~ ok PROVE Archived(a)' <=> Archived(a)
    BY <1>7, <2>3 DEF Archived
  <2> QED
    BY <2>1, <2>2, <2>3
<1>10. ArchivedOnce'
  <2> SUFFICES ASSUME world.single, NEW d \in Complaints, NEW e \in Complaints,
                      archive'[d] # 0, archive'[d] = archive'[e]
               PROVE  d = e
    BY <1>1 DEF ArchivedOnce
  <2>1. \A x \in Complaints : archive[x] # a
    BY <1>1, <1>2 DEF FilesInv, SessionInv, Archived
  <2>2. \A x, y \in Complaints : archive[x] # 0 /\ archive[x] = archive[y] => x = y
    BY DEF FilesInv, ArchivedOnce
  <2> QED
    BY <1>7, <2>1, <2>2
<1>11. SessionInv'
  <2> SUFFICES ASSUME world.single PROVE SessionInv'
    BY <1>1 DEF SessionInv
  <2>1. \A d \in Complaints : complaint[d].at = "insert" => d = c
    BY <1>1 DEF FilesInv, SessionInv
  <2>2. \A d \in Complaints : complaint'[d].at # "insert"
    BY <1>3, <1>6, <2>1
  <2> QED
    BY <2>2 DEF SessionInv
<1>12. \A b : Holding(b)' = Holding(b)
  BY <1>1, <1>2, <1>3, <1>6 DEF Holding
<1>13. \A b \in Replies : b # a => Due(b)' = Due(b)
  <2>1. ASSUME NEW b \in Replies, b # a PROVE Claimed(b)' <=> Claimed(b)
    <3>1. \A d \in Complaints : complaint'[d].about = b <=> complaint[d].about = b
      BY <1>2, <1>3, <1>6, <2>1
    <3>2. \A d \in Complaints : complaint'[d].about = b => complaint'[d] = complaint[d]
      BY <1>3, <1>6, <2>1
    <3> QED
      BY <1>9, <2>1, <3>1, <3>2 DEF Claimed
  <2> QED
    BY <2>1 DEF Due
<1>14. Due(a) <= one + Due(a)'
  <2>1. CASE ok
    <3>1. Due(a)' = 1 /\ Due(a) \in {0, 1}
      BY <1>9, <2>1 DEF Due, Claimed
    <3> QED
      BY <1>4, <3>1
  <2>2. CASE ~ ok
    <3>1. one = 1 /\ Due(a) \in {0, 1} /\ Due(a)' \in {0, 1}
      BY <1>4, <2>2 DEF Due
    <3> QED
      BY <3>1
  <2> QED
    BY <2>1, <2>2
<1>15. DemotionInv'
  <2> SUFFICES ASSUME NEW b \in Replies
               PROVE  demotions'[b] + Cardinality(Holding(b)') <= excuses'[b] + Due(b)'
    BY DEF DemotionInv
  <2>1. /\ demotions[b] + Cardinality(Holding(b)) <= excuses[b] + Due(b)
        /\ Cardinality(Holding(b)) \in Nat /\ demotions[b] \in Nat /\ excuses[b] \in Nat
        /\ Due(b) \in {0, 1}
    BY Counted0
  <2>2. demotions'[b] = demotions[b] /\ Cardinality(Holding(b)') = Cardinality(Holding(b))
    BY <1>1, <1>12
  <2>3. CASE b # a
    BY <1>5, <1>13, <2>1, <2>2, <2>3
  <2>4. CASE b = a
    <3>1. PICK h \in Nat, m \in Nat, x \in Nat, u \in {0, 1}, v \in {0, 1} :
            /\ h = Cardinality(Holding(a)) /\ m = demotions[a] /\ x = excuses[a]
            /\ u = Due(a) /\ v = Due(a)'
      BY <2>1, <2>4 DEF Due
    <3>2. m + h <= x + u /\ u <= one + v
      BY <1>14, <2>1, <2>4, <3>1
    <3>3. m + h <= (x + one) + v
      BY <3>2
    <3> QED
      BY <1>5, <2>2, <2>4, <3>1, <3>3
  <2> QED
    BY <2>3, <2>4
<1> QED
  BY <1>8, <1>10, <1>11, <1>15 DEF FilesInv

LEMMA SendKeeps ==
  ASSUME FilesInv, NEW c \in Complaints, NEW posted, NEW demoted, SendAndDemote(c, posted, demoted)
  PROVE  FilesInv'
<1>1. /\ complaint \in [Complaints -> ReportRows] /\ complaint[c].at = "send"
      /\ complaint[c].about \in Replies /\ UNCHANGED <<world, archive, excuses>>
      /\ complaint' = [complaint EXCEPT ![c] = EndOfReport]
      /\ excuses \in [Replies -> Nat] /\ demotions \in [Replies -> Nat]
  BY DEF SendAndDemote, Move, FilesInv, ReportsTyped, Amid
<1>2. PICK a \in Replies : a = complaint[c].about
  BY <1>1
<1>3. PICK one \in {0, 1} : demotions' = [demotions EXCEPT ![a] = @ + one]
  <2>1. CASE demotions' = demotions
    <3>1. demotions' = [demotions EXCEPT ![a] = @ + 0]
      BY <1>1, <2>1
    <3> QED
      BY <3>1
  <2>2. CASE demotions' = [demotions EXCEPT ![a] = @ + 1]
    BY <2>2
  <2> QED
    BY <1>2, <2>1, <2>2 DEF SendAndDemote
<1>4. /\ demotions' \in [Replies -> Nat] /\ demotions'[a] = demotions[a] + one
      /\ \A b \in Replies : b # a => demotions'[b] = demotions[b]
  BY <1>1, <1>3
<1>5. Steps(c, EndOfReport)
  BY <1>1, EndIsEnd, FeedbackFacts DEF Steps
<1>6. /\ ReportsTyped' /\ ArchivedOnce'
      /\ \A d \in Complaints : complaint'[d] = IF d = c THEN EndOfReport ELSE complaint[d]
      /\ \A b : Archived(b)' = Archived(b)
  BY <1>1, <1>4, <1>5, StepsType
<1>7. \A b : Due(b)' = Due(b)
  BY <1>1, <1>6, EndIsEnd DEF Due, Claimed
<1>8. SessionInv'
  BY <1>1, <1>6, EndIsEnd DEF FilesInv, SessionInv
<1>9. \A b : b # a => Holding(b)' = Holding(b)
  BY <1>1, <1>2, <1>6, EndIsEnd DEF Holding
<1>10. Holding(a)' = Holding(a) \ {c} /\ c \in Holding(a)
  BY <1>1, <1>2, <1>6, EndIsEnd DEF Holding
<1>11. Cardinality(Holding(a)') = Cardinality(Holding(a)) - 1
  BY <1>10, Counted0, FS_RemoveElement
<1>12. DemotionInv'
  <2> SUFFICES ASSUME NEW b \in Replies
               PROVE  demotions'[b] + Cardinality(Holding(b)') <= excuses'[b] + Due(b)'
    BY DEF DemotionInv
  <2>1. /\ demotions[b] + Cardinality(Holding(b)) <= excuses[b] + Due(b)
        /\ Cardinality(Holding(b)) \in Nat /\ demotions[b] \in Nat /\ excuses[b] \in Nat
        /\ Due(b) \in {0, 1}
    BY Counted0
  <2>2. excuses'[b] = excuses[b] /\ Due(b)' = Due(b)
    BY <1>1, <1>7
  <2>3. CASE b # a
    BY <1>4, <1>9, <2>1, <2>2, <2>3
  <2>4. CASE b = a
    <3>1. (demotions[a] + one) + (Cardinality(Holding(a)) - 1) <= excuses[a] + Due(a)
      BY <2>1, <2>4
    <3> QED
      BY <1>4, <1>11, <2>2, <2>4, <3>1
  <2> QED
    BY <2>3, <2>4
<1> QED
  BY <1>6, <1>8, <1>12 DEF FilesInv

LEMMA RestartKeeps ==
  ASSUME FilesInv, BotRestarts
  PROVE  FilesInv'
<1>1. /\ complaint \in [Complaints -> ReportRows] /\ UNCHANGED <<world, archive, demotions, excuses>>
      /\ complaint' = [c \in Complaints |-> IF Amid(c) THEN EndOfReport ELSE complaint[c]]
  BY DEF BotRestarts, FilesInv, ReportsTyped
<1>2. \A c \in Complaints : complaint'[c] = EndOfReport \/ (complaint'[c] = complaint[c] /\ ~ Amid(c))
  BY <1>1
<1>3. \A c \in Complaints : complaint'[c].at \in {"idle", "over"}
  BY <1>2, EndIsEnd DEF Amid
<1>4. ReportsTyped'
  <2>1. complaint' \in [Complaints -> ReportRows]
    BY <1>1, EndIsEnd
  <2>2. ASSUME NEW c \in Complaints
        PROVE  /\ complaint'[c].age <= KeptFor
               /\ Amid(c)' => complaint'[c].about \in Replies
               /\ complaint'[c].at \in {"idle", "check", "archive", "insert"} => archive'[c] = 0
    <3>1. ~ Amid(c)'
      BY <1>3 DEF Amid
    <3>2. CASE complaint'[c] = EndOfReport
      BY <3>1, <3>2, EndIsEnd, FeedbackFacts
    <3>3. CASE complaint'[c] = complaint[c]
      BY <1>1, <3>1, <3>3 DEF FilesInv, ReportsTyped
    <3> QED
      BY <1>2, <3>2, <3>3
  <2> QED
    BY <1>1, <2>1, <2>2 DEF FilesInv, ReportsTyped
<1>5. SessionInv' /\ ArchivedOnce'
  BY <1>1, <1>3 DEF FilesInv, SessionInv, ArchivedOnce
<1>6. ASSUME NEW a \in Replies
      PROVE  demotions'[a] + Cardinality(Holding(a)') <= excuses'[a] + Due(a)'
  <2>1. /\ demotions[a] + Cardinality(Holding(a)) <= excuses[a] + Due(a)
        /\ Cardinality(Holding(a)) \in Nat /\ demotions[a] \in Nat /\ excuses[a] \in Nat
        /\ Due(a) \in {0, 1} /\ IsFiniteSet(Holding(a))
    BY Counted0
  <2>2. Holding(a)' = {}
    BY <1>3 DEF Holding
  <2>3. Cardinality(Holding(a)') = 0
    BY <2>2, FS_EmptySet
  <2>4. Archived(a)' = Archived(a)
    BY <1>1 DEF Archived
  <2>5. Due(a)' = IF Archived(a) THEN 1 ELSE 0
    BY <1>3, <2>4 DEF Due, Claimed
  <2>6. CASE Archived(a)
    <3>1. Due(a)' = 1
      BY <2>5, <2>6
    <3> QED
      BY <1>1, <2>1, <2>3, <3>1
  <2>7. CASE ~ Archived(a) /\ Claimed(a)
    <3>1. Holding(a) # {}
      BY <2>7 DEF Claimed, Holding
    <3>2. Cardinality(Holding(a)) # 0
      BY <2>1, <3>1, FS_EmptySet
    <3>3. Due(a)' = 0
      BY <2>5, <2>7
    <3> QED
      BY <1>1, <2>1, <2>3, <3>2, <3>3
  <2>8. CASE ~ Archived(a) /\ ~ Claimed(a)
    <3>1. Due(a)' = 0 /\ Due(a) = 0
      BY <2>5, <2>8 DEF Due
    <3> QED
      BY <1>1, <2>1, <2>3, <3>1
  <2> QED
    BY <2>6, <2>7, <2>8
<1>7. DemotionInv'
  BY <1>6 DEF DemotionInv
<1> QED
  BY <1>4, <1>5, <1>7 DEF FilesInv

LEMMA FilesKept ==
  ASSUME KeptInv, FilesInv, [FeedbackNext]_feedbackVars
  PROVE  FilesInv'
<1>1. ASSUME NEW a, NEW ok, Deliver(a) \/ Persist(a, ok) PROVE FilesInv'
  BY <1>1, FilesRest DEF Deliver, Persist
<1>2. ASSUME NEW what, Retain(what) PROVE FilesInv'
  BY <1>2, FilesRest DEF Retain
<1>3. CASE MinutePasses \/ UNCHANGED feedbackVars
  BY <1>3, FilesRest DEF MinutePasses, feedbackVars
<1>4. CASE BotRestarts
  BY <1>4, RestartKeeps
<1>5. CASE \E a \in Replies : Deliver(a) \/ \E ok \in BOOLEAN : Persist(a, ok)
  BY <1>1, <1>5
<1>6. ASSUME NEW c \in Complaints,
             \/ \E ws \in Meanings : Report(c, ws)
             \/ ArchiveLook(c)
             \/ \E ok \in BOOLEAN : CheckArchived(c, ok) \/ ArchiveInsert(c, ok)
             \/ \E posted, demoted \in BOOLEAN : SendAndDemote(c, posted, demoted)
      PROVE  FilesInv'
  BY <1>6, ReportKeeps, LookKeeps, CheckKeeps, InsertKeeps, SendKeeps
<1>7. CASE \E what \in {"cache", "table"} : Retain(what)
  BY <1>2, <1>7
<1> QED
  BY <1>3, <1>4, <1>5, <1>6, <1>7 DEF FeedbackNext

LEMMA FeedbackSound == FeedbackIInv => FeedbackInv
<1> SUFFICES ASSUME FeedbackIInv PROVE FeedbackInv
  OBVIOUS
<1>1. FeedbackTypeOK
  BY DEF FeedbackIInv, KeptInv, FeedbackTypeOK
<1>2. FoundIsRecent /\ ArchivedOnce
  BY DEF FeedbackIInv, FilesInv, ReportsTyped, FoundIsRecent
<1>3. ASSUME NEW a \in Replies PROVE demotions[a] <= 1 + excuses[a]
  <2>1. FilesInv
    BY DEF FeedbackIInv
  <2>2. /\ Cardinality(Holding(a)) \in Nat /\ Due(a) \in {0, 1}
        /\ demotions[a] \in Nat /\ excuses[a] \in Nat
        /\ demotions[a] + Cardinality(Holding(a)) <= excuses[a] + Due(a)
    BY <2>1, Counted0
  <2> QED
    BY <2>2
<1> QED
  BY <1>1, <1>2, <1>3 DEF FeedbackInv, DemotedOnce

LEMMA FeedbackKept == FeedbackIInv /\ [FeedbackNext]_feedbackVars => FeedbackIInv'
  BY KeptKept, FilesKept DEF FeedbackIInv

\* For any answers, reports, and cache: no report finds an answer older than a quarter of
\* an hour, and without an overlap or a failure an answer is archived and demoted once.
THEOREM ReportsAreSafe == FeedbackSpec => []FeedbackInv
  BY FeedbackBegins, FeedbackKept, FeedbackSound, PTL DEF FeedbackSpec

------------------------------------------------------------------------------
(* DeepResearch.  What the later stages rest on stands once it is there:   *)
(* the searches and their ranked hits, then reductions that cite only what *)
(* they select, and select only evidence (StagesInv).                      *)

Searched == searched \in [1 .. queries -> SearchCalls]
RankedHits == \A k \in DOMAIN ranked : ranked[k].url \in Urls

\* What a reduction may select and cite.
Selects(r, K) == r.selected \subseteq K /\ r.cites \subseteq r.selected

\* What the later stages rest on stands once it is there.
StagesInv ==
  /\ stage # "done" => outcomes = <<>> /\ answer = NoAnswer
  /\ stage \in {"extract", "reduce", "answer", "done"} => Searched /\ RankedHits
  /\ stage \in {"answer", "done"} =>
       /\ DOMAIN reduced = WithEvidence
       /\ \A i \in WithEvidence : Selects(reduced[i], Evidence(i))

ResearchIInv == ResearchInv /\ StagesInv

LEMMA StageTimes ==
  ASSUME NEW limit \in Nat, left \in 0 .. OverallLimit
  PROVE  StageTimeout(limit) \in 0 .. left
<1>1. left \in Nat
  BY ResearchAssumption
<1>2. CASE limit <= left
  <2>1. StageTimeout(limit) = limit
    BY <1>1, <1>2 DEF StageTimeout, Min
  <2> QED
    BY <1>1, <1>2, <2>1
<1>3. CASE ~ (limit <= left)
  <2>1. StageTimeout(limit) = left
    BY <1>1, <1>3 DEF StageTimeout, Min
  <2> QED
    BY <1>1, <2>1
<1> QED
  BY <1>2, <1>3

LEMMA TimeIsLeft ==
  ASSUME NEW limit \in Nat, NEW d, Takes(d, limit), left \in 0 .. OverallLimit
  PROVE  left' \in 0 .. OverallLimit
<1>1. PICK m \in 0 .. left : m = StageTimeout(limit)
  BY StageTimes
<1>2. d \in 0 .. m /\ left' = left - d
  BY <1>1 DEF Takes
<1> QED
  BY <1>1, <1>2, ResearchAssumption

LEMMA FirstAreOf == \A n, K : First(n, K) \subseteq K
  BY DEF First

LEMMA ReductionsSelect ==
  ASSUME NEW i, NEW d, NEW r \in Reductions(i, d)
  PROVE  Selects(r, Evidence(i))
<1> DEFINE K == Evidence(i)
<1>1. PICK n : \/ \E S \in SUBSET K, C \in SUBSET K : r = ParseReduction(S, C, First(n, K))
               \/ \E s : r = Fallback(s, First(n, K))
  BY DEF Reductions
<1> HIDE DEF K
<1>2. First(n, K) \subseteq K
  BY FirstAreOf
<1>3. \A s : Selects(Fallback(s, First(n, K)), K)
  BY <1>2 DEF Fallback, Reduction, Selects
<1>4. ASSUME NEW S, NEW C PROVE Selects(ParseReduction(S, C, First(n, K)), K)
  BY <1>2, <1>3 DEF ParseReduction, Reduction, Selects
<1>5. Selects(r, K)
  BY <1>1, <1>3, <1>4
<1> QED
  BY <1>5 DEF K

\* The best hits of the searches are hits.
LEMMA RankingsAreHits ==
  ASSUME NEW calls, NEW n, calls \in [1 .. n -> SearchCalls], NEW s \in Rankings(calls)
  PROVE  \A k \in DOMAIN s : s[k].url \in Urls
<1> DEFINE allHits == UNION {calls[i].hits : i \in DOMAIN calls}
<1>1. \A c \in SearchCalls : c.hits \subseteq Hits
  BY ResearchAssumption DEF SearchCalls, SearchCall
<1>2. allHits \subseteq Hits
  BY <1>1
<1>3. PICK B \in SUBSET allHits : s \in SetToSeqs(B)
  BY DEF Rankings
<1>4. \A k \in DOMAIN s : s[k] \in B
  BY <1>3 DEF SetToSeqs
<1>5. \A h \in Hits : h.url \in Urls
  BY DEF Hits
<1> QED
  BY <1>2, <1>3, <1>4, <1>5

LEMMA ResearchBegins == ResearchInit => ResearchIInv
<1> SUFFICES ASSUME ResearchInit PROVE ResearchIInv
  OBVIOUS
<1>1. answer = [status |-> "none", provenance |-> {}, shown |-> {}] /\ answer = NoAnswer
  BY DEF ResearchInit, NoAnswer
<1>2. ResearchTypeOK
  BY <1>1, ResearchAssumption DEF ResearchInit, ResearchTypeOK
<1>3. SummaryIsBacked /\ EmptyIsHonest
  BY <1>1 DEF ResearchInit, SummaryIsBacked, EmptyIsHonest
<1>4. StagesInv
  BY <1>1 DEF ResearchInit, StagesInv
<1> QED
  BY <1>2, <1>3, <1>4 DEF ResearchIInv, ResearchInv

\* Before there is an answer there is nothing to be said against it.
LEMMA Unanswered ==
  ASSUME answer = NoAnswer, outcomes = <<>>
  PROVE  SummaryIsBacked /\ EmptyIsHonest
<1>1. answer.status = "none" /\ DOMAIN outcomes = {}
  BY DEF NoAnswer
<1> QED
  BY <1>1 DEF SummaryIsBacked, EmptyIsHonest

LEMMA PlanKeeps ==
  ASSUME ResearchIInv, NEW d, NEW how, NEW n \in MinQueries .. MaxQueries, PlanQueries(d, how, n)
  PROVE  ResearchIInv'
<1>1. ResearchTypeOK /\ answer = NoAnswer /\ outcomes = <<>>
  BY DEF ResearchIInv, ResearchInv, StagesInv, PlanQueries
<1>2. UNCHANGED <<outcomes, answer>> /\ stage' = "search"
  BY DEF PlanQueries
<1>3. left' \in 0 .. OverallLimit
  <2>1. ModelLimit \in Nat /\ Takes(d, ModelLimit)
    BY ResearchAssumption DEF PlanQueries
  <2> QED
    BY <1>1, <2>1, TimeIsLeft DEF ResearchTypeOK
<1>4. queries' \in 0 .. MaxQueries
  BY ResearchAssumption DEF PlanQueries
<1>5. ResearchTypeOK'
  BY <1>1, <1>2, <1>3, <1>4 DEF ResearchTypeOK
<1>6. SummaryIsBacked' /\ EmptyIsHonest'
  <2>1. answer'.status = "none" /\ DOMAIN outcomes' = {}
    BY <1>1, <1>2 DEF NoAnswer
  <2> QED
    BY <2>1 DEF SummaryIsBacked, EmptyIsHonest
<1>7. StagesInv'
  BY <1>1, <1>2 DEF StagesInv
<1> QED
  BY <1>5, <1>6, <1>7 DEF ResearchIInv, ResearchInv

LEMMA SearchKeeps ==
  ASSUME ResearchIInv, NEW d, NEW calls \in [1 .. queries -> SearchCalls], SearchAll(d, calls)
  PROVE  ResearchIInv'
<1>1. ResearchTypeOK /\ answer = NoAnswer /\ outcomes = <<>>
  BY DEF ResearchIInv, ResearchInv, StagesInv, SearchAll
<1>2. UNCHANGED <<queries, outcomes, answer>> /\ stage' = "extract"
  BY DEF SearchAll
<1>3. left' \in 0 .. OverallLimit
  <2>1. SearchLimit \in Nat /\ Takes(d, SearchLimit)
    BY ResearchAssumption DEF SearchAll
  <2> QED
    BY <1>1, <2>1, TimeIsLeft DEF ResearchTypeOK
<1>5. ResearchTypeOK'
  BY <1>1, <1>2, <1>3 DEF ResearchTypeOK
<1>6. SummaryIsBacked' /\ EmptyIsHonest'
  <2>1. answer'.status = "none" /\ DOMAIN outcomes' = {}
    BY <1>1, <1>2 DEF NoAnswer
  <2> QED
    BY <2>1 DEF SummaryIsBacked, EmptyIsHonest
<1>7. Searched'
  BY <1>2 DEF SearchAll, Searched
<1>8. RankedHits'
  BY RankingsAreHits DEF SearchAll, RankedHits
<1>9. StagesInv'
  BY <1>1, <1>2, <1>7, <1>8 DEF StagesInv
<1> QED
  BY <1>5, <1>6, <1>9 DEF ResearchIInv, ResearchInv

LEMMA ExtractKeeps ==
  ASSUME ResearchIInv, NEW d, NEW calls, ExtractAll(d, calls)
  PROVE  ResearchIInv'
<1>1. ResearchTypeOK /\ answer = NoAnswer /\ outcomes = <<>> /\ Searched /\ RankedHits
  BY DEF ResearchIInv, ResearchInv, StagesInv, ExtractAll
<1>2. UNCHANGED <<queries, searched, ranked, outcomes, answer>> /\ stage' = "reduce"
  BY DEF ExtractAll
<1>3. left' \in 0 .. OverallLimit
  <2>1. ExtractLimit \in Nat /\ Takes(d, ExtractLimit)
    BY ResearchAssumption DEF ExtractAll
  <2> QED
    BY <1>1, <2>1, TimeIsLeft DEF ResearchTypeOK
<1>5. ResearchTypeOK'
  BY <1>1, <1>2, <1>3 DEF ResearchTypeOK
<1>6. SummaryIsBacked' /\ EmptyIsHonest'
  <2>1. answer'.status = "none" /\ DOMAIN outcomes' = {}
    BY <1>1, <1>2 DEF NoAnswer
  <2> QED
    BY <2>1 DEF SummaryIsBacked, EmptyIsHonest
<1>7. Searched' /\ RankedHits'
  BY <1>1, <1>2 DEF Searched, RankedHits
<1>9. StagesInv'
  BY <1>1, <1>2, <1>7 DEF StagesInv
<1> QED
  BY <1>5, <1>6, <1>9 DEF ResearchIInv, ResearchInv

\* What the sources are and which of them have a text is settled by then.
LEMMA SourcesStand ==
  ASSUME UNCHANGED <<queries, searched, ranked, extracted>>
  PROVE  /\ \A k : HasText(k)' = HasText(k)
         /\ \A i : Evidence(i)' = Evidence(i)
         /\ WithEvidence' = WithEvidence
  BY DEF HasText, Evidence, SourcesOf, WithEvidence

LEMMA ReduceKeeps ==
  ASSUME ResearchIInv, NEW d, NEW rs, ReduceAll(d, rs)
  PROVE  ResearchIInv'
<1>1. ResearchTypeOK /\ answer = NoAnswer /\ outcomes = <<>> /\ Searched /\ RankedHits
  BY DEF ResearchIInv, ResearchInv, StagesInv, ReduceAll
<1>2. UNCHANGED <<queries, searched, ranked, extracted, outcomes, answer>> /\ stage' = "answer"
  BY DEF ReduceAll
<1>3. left' \in 0 .. OverallLimit
  <2>1. ModelLimit \in Nat /\ Takes(d, ModelLimit)
    BY ResearchAssumption DEF ReduceAll
  <2> QED
    BY <1>1, <2>1, TimeIsLeft DEF ResearchTypeOK
<1>5. ResearchTypeOK'
  BY <1>1, <1>2, <1>3 DEF ResearchTypeOK
<1>6. SummaryIsBacked' /\ EmptyIsHonest'
  <2>1. answer'.status = "none" /\ DOMAIN outcomes' = {}
    BY <1>1, <1>2 DEF NoAnswer
  <2> QED
    BY <2>1 DEF SummaryIsBacked, EmptyIsHonest
<1>7. Searched' /\ RankedHits'
  BY <1>1, <1>2 DEF Searched, RankedHits
<1>8. DOMAIN reduced' = WithEvidence' /\ \A i \in WithEvidence' : Selects(reduced'[i], Evidence(i)')
  <2>1. /\ reduced' = rs /\ DOMAIN rs = WithEvidence
        /\ \A i \in WithEvidence : rs[i] \in Reductions(i, d)
    BY DEF ReduceAll
  <2>2. \A i \in WithEvidence : Selects(rs[i], Evidence(i))
    BY <2>1, ReductionsSelect
  <2>3. WithEvidence' = WithEvidence /\ \A i : Evidence(i)' = Evidence(i)
    BY <1>2, SourcesStand
  <2> QED
    BY <2>1, <2>2, <2>3
<1>9. StagesInv'
  BY <1>1, <1>2, <1>7, <1>8 DEF StagesInv, Selects
<1> QED
  BY <1>5, <1>6, <1>9 DEF ResearchIInv, ResearchInv

\* A page shows a part of the evidence, and a summary only with all it cites.
LEMMA PagesAreBacked ==
  ASSUME NEW i, NEW r, NEW f, Selects(r, Evidence(i))
  PROVE  LET page == Render(i, r, f)
         IN  page.cites \subseteq page.included /\ page.included \subseteq Evidence(i)
<1>1. Picked(i, r) \subseteq Evidence(i) /\ (r.cites # {} => Picked(i, r) = r.selected)
  BY DEF Picked, Selects
<1>2. First(f.alone, Picked(i, r)) \subseteq Picked(i, r)
  BY FirstAreOf
<1> QED
  BY <1>1, <1>2 DEF Render, Selects

LEMMA OutcomesAreBacked ==
  ASSUME NEW i, NEW f, i \in WithEvidence => Selects(reduced[i], Evidence(i))
  PROVE  LET o == BuildOutcome(i, f)
         IN  o.cites \subseteq o.included /\ o.included \subseteq Evidence(i)
<1>1. \A x : QueryOutcome(x, {}, {}).cites = {} /\ QueryOutcome(x, {}, {}).included = {}
  BY DEF QueryOutcome
<1>2. ASSUME i \in WithEvidence
      PROVE  LET page == Render(i, reduced[i], f)
             IN  page.cites \subseteq page.included /\ page.included \subseteq Evidence(i)
  BY <1>2, PagesAreBacked
<1> QED
  BY <1>1, <1>2 DEF BuildOutcome, QueryOutcome

AnswerRows ==
  [status : {"none", "ok", "empty", "error"}, provenance : SUBSET Urls, shown : SUBSET Urls]

\* The tool's answer names ranked hits; it is empty when no search has failed.
LEMMA AnswersAreRows ==
  ASSUME NEW os, NEW cut, RankedHits, \A i \in DOMAIN os : os[i].included \subseteq DOMAIN ranked
  PROVE  /\ ToolAnswer(os, cut) \in AnswerRows
         /\ ToolAnswer(os, cut).status = "empty" => ~ SearchFailed
<1> DEFINE good  == {i \in DOMAIN os : os[i].status = "ok"}
           room  == IF Cardinality(good) > WholeOutcomes THEN cut ELSE MaxSources
           shown == UNION {UrlsOf(First(room, os[i].included)) : i \in good}
           inAnswer == UNION {UrlsOf(os[i].included) : i \in good}
<1>1. \A K \in SUBSET DOMAIN ranked : UrlsOf(K) \subseteq Urls
  BY DEF UrlsOf, RankedHits
<1>2. \A i \in good : /\ UrlsOf(First(room, os[i].included)) \subseteq Urls
                     /\ UrlsOf(os[i].included) \subseteq Urls
  <2> SUFFICES ASSUME NEW i \in DOMAIN os
               PROVE  /\ UrlsOf(First(room, os[i].included)) \subseteq Urls
                      /\ UrlsOf(os[i].included) \subseteq Urls
    OBVIOUS
  <2>1. os[i].included \subseteq DOMAIN ranked
    OBVIOUS
  <2>2. First(room, os[i].included) \subseteq os[i].included
    BY FirstAreOf
  <2> QED
    BY <1>1, <2>1, <2>2
<1>3. shown \in SUBSET Urls /\ inAnswer \cap shown \in SUBSET Urls
  BY <1>2
<1>4. ToolAnswer(os, cut) = IF good = {}
                            THEN [NoAnswer EXCEPT !.status = IF SearchFailed THEN "error" ELSE "empty"]
                            ELSE [status |-> "ok", provenance |-> inAnswer \cap shown, shown |-> shown]
  BY DEF ToolAnswer
<1> HIDE DEF good, shown, inAnswer
<1>5. CASE good = {}
  <2>1. PICK how : how = IF SearchFailed THEN "error" ELSE "empty"
    OBVIOUS
  <2>2. [NoAnswer EXCEPT !.status = how] = [status |-> how, provenance |-> {}, shown |-> {}]
    BY DEF NoAnswer
  <2>3. ToolAnswer(os, cut) = [status |-> how, provenance |-> {}, shown |-> {}]
    BY <1>4, <1>5, <2>1, <2>2, Zenon
  <2> QED
    BY <2>1, <2>3 DEF AnswerRows
<1>6. CASE good # {}
  <2>1. ToolAnswer(os, cut) = [status |-> "ok", provenance |-> inAnswer \cap shown, shown |-> shown]
    BY <1>4, <1>6
  <2> QED
    BY <1>3, <2>1 DEF AnswerRows
<1> QED
  BY <1>5, <1>6

LEMMA AnswerKeeps ==
  ASSUME ResearchIInv, NEW fit, NEW cut, Answer(fit, cut)
  PROVE  ResearchIInv'
<1>1. ResearchTypeOK /\ Searched /\ RankedHits
  BY DEF ResearchIInv, ResearchInv, StagesInv, Answer
<1>2. DOMAIN reduced = WithEvidence /\ \A i \in WithEvidence : Selects(reduced[i], Evidence(i))
  BY DEF ResearchIInv, StagesInv, Answer
<1>3. UNCHANGED <<left, queries, searched, ranked, extracted, reduced>> /\ stage' = "done"
  BY DEF Answer
<1>4. /\ \A k : HasText(k)' = HasText(k) /\ \A i : Evidence(i)' = Evidence(i)
      /\ WithEvidence' = WithEvidence
  BY <1>3, SourcesStand
<1>5. PICK os : os = [i \in 1 .. queries |-> BuildOutcome(i, fit[i])]
  OBVIOUS
<1>6. outcomes' = os /\ answer' = ToolAnswer(os, cut)
  BY <1>5 DEF Answer
<1>7. \A i \in DOMAIN os : os[i].cites \subseteq os[i].included /\ os[i].included \subseteq Evidence(i)
  BY <1>2, <1>5, OutcomesAreBacked
<1>8. \A i : \A k \in Evidence(i) : k \in DOMAIN ranked /\ HasText(k)
  BY FirstAreOf DEF Evidence, SourcesOf
<1>9. SummaryIsBacked'
  BY <1>4, <1>6, <1>7, <1>8 DEF SummaryIsBacked
<1>10. \A i \in DOMAIN os : os[i].included \subseteq DOMAIN ranked
  BY <1>7, <1>8
<1>11. answer' \in AnswerRows /\ (answer'.status = "empty" => ~ SearchFailed)
  BY <1>1, <1>6, <1>10, AnswersAreRows
<1>12. ResearchTypeOK'
  BY <1>1, <1>3, <1>11 DEF ResearchTypeOK, AnswerRows
<1>13. EmptyIsHonest'
  <2> SUFFICES ASSUME answer'.status = "empty", NEW i \in 1 .. queries
               PROVE  searched[i].status \in {"ok", "empty"}
    BY <1>3 DEF EmptyIsHonest
  <2>1. searched[i].status \notin {"error", "timeout", "skipped"}
    BY <1>11 DEF SearchFailed
  <2>2. searched[i] \in SearchCalls
    BY <1>1 DEF Searched
  <2>3. searched[i].status \in {"ok", "empty", "error", "timeout", "skipped"}
    BY <2>2 DEF SearchCalls, SearchCall
  <2> QED
    BY <2>1, <2>3
<1>14. StagesInv'
  <2>1. Searched' /\ RankedHits'
    BY <1>1, <1>3 DEF Searched, RankedHits
  <2>2. DOMAIN reduced' = WithEvidence' /\ \A i \in WithEvidence' : Selects(reduced'[i], Evidence(i)')
    BY <1>2, <1>3, <1>4
  <2> QED
    BY <1>3, <2>1, <2>2 DEF StagesInv, Selects
<1> QED
  BY <1>9, <1>12, <1>13, <1>14 DEF ResearchIInv, ResearchInv

LEMMA ResearchRests ==
  ASSUME ResearchIInv, UNCHANGED researchVars
  PROVE  ResearchIInv'
<1>1. UNCHANGED <<stage, left, queries, searched, ranked, extracted, reduced, outcomes, answer>>
  BY DEF researchVars
<1>2. /\ \A k : HasText(k)' = HasText(k) /\ \A i : Evidence(i)' = Evidence(i)
      /\ WithEvidence' = WithEvidence
  BY <1>1, SourcesStand
<1>3. ResearchTypeOK' /\ SummaryIsBacked' /\ EmptyIsHonest'
  BY <1>1, <1>2 DEF ResearchIInv, ResearchInv, ResearchTypeOK, SummaryIsBacked, EmptyIsHonest
<1>4. StagesInv'
  BY <1>1, <1>2 DEF ResearchIInv, StagesInv, Searched, RankedHits, Selects
<1> QED
  BY <1>3, <1>4 DEF ResearchIInv, ResearchInv

LEMMA ResearchKept == ResearchIInv /\ [ResearchNext]_researchVars => ResearchIInv'
  BY PlanKeeps, SearchKeeps, ExtractKeeps, ReduceKeeps, AnswerKeeps, ResearchRests DEF ResearchNext

\* For any queries, hits, limits and rooms: a summary cites only sources that stand beside
\* it, each with a text, and nothing is called empty when a search has failed.
THEOREM ResearchIsSafe == ResearchSpec => []ResearchInv
<1>1. ResearchIInv => ResearchInv
  BY DEF ResearchIInv
<1> QED
  BY <1>1, ResearchBegins, ResearchKept, PTL DEF ResearchSpec

------------------------------------------------------------------------------
(* DatabaseTransfer. No id is ahead of the sequence, unless the table came *)
(* from a version without one (SequenceInv); the rows of a copy are of its *)
(* source, and those of the last copy, which is made while nobody writes,  *)
(* are all there are (CopyInv).                                            *)

\* The highest of numbers that are bounded is one of them.
LEMMA HighestOf ==
  ASSUME NEW N \in Nat, NEW S, S \subseteq 0 .. N, S # {}
  PROVE  Max(S) \in S /\ \A y \in S : y <= Max(S)
<1> DEFINE T == {N - x : x \in S}
<1>1. T \subseteq Nat /\ T # {}
  <2>1. \A x \in S : N - x \in Nat
    OBVIOUS
  <2> QED
    BY <2>1
<1>2. PICK n \in T : \A m \in T : n <= m
  BY <1>1, LeastOf
<1>3. PICK x \in S : n = N - x
  BY <1>2
<1>4. \A y \in S : x >= y
  BY <1>2, <1>3
<1>5. \E z \in S : \A y \in S : z >= y
  BY <1>3, <1>4
<1>6. Max(S) \in S /\ \A y \in S : Max(S) >= y
  BY <1>5, Zenon DEF Max
<1> QED
  BY <1>6

\* The copy is as far as it says: what it holds, and, if nobody writes any more, ids that
\* no row has had.
CopyInv ==
  /\ copying \in [at : {"none", "rows", "verify", "published"}, rows : SUBSET (1 .. MaxId),
                  source : SUBSET (1 .. MaxId), high : 0 .. MaxId, final : BOOLEAN]
  /\ copying.rows \subseteq copying.source /\ copying.source \subseteq named
  /\ copying.final => frozen /\ ~ moved /\ copying.at # "none"
  /\ copying.final /\ store = "sqlite" => \A i \in named : i <= copying.high
  /\ copying.final /\ store = "postgres" /\ copying.at = "published" =>
       \A i \in named : i <= copying.high

\* No id is ahead of the sequence.
SequenceInv ==
  /\ store \in Stores /\ moved \in BOOLEAN /\ frozen \in BOOLEAN /\ ~ (moved /\ frozen) /\ sequence \in 0 .. MaxId /\ faults \in Nat
  /\ table \subseteq named /\ named \subseteq 1 .. MaxId
  /\ store # "old" => renamed = {} /\ \A i \in named : i <= sequence

TransferIInv == SequenceInv /\ CopyInv /\ CopyIsFaithful

LEMMA NoCopyFits ==
  /\ NoCopy \in [at : {"none", "rows", "verify", "published"}, rows : SUBSET (1 .. MaxId),
                 source : SUBSET (1 .. MaxId), high : 0 .. MaxId, final : BOOLEAN]
  /\ NoCopy.at = "none" /\ NoCopy.rows = {} /\ NoCopy.source = {} /\ ~ NoCopy.final
<1>1. 0 \in 0 .. MaxId
  BY TransferAssumption
<1> QED
  BY <1>1 DEF NoCopy

LEMMA TransferBegins == TransferInit => TransferIInv
<1> SUFFICES ASSUME TransferInit PROVE TransferIInv
  OBVIOUS
<1>1. SequenceInv
  <2>1. moved \in BOOLEAN /\ frozen \in BOOLEAN /\ ~ (moved /\ frozen)
    BY DEF TransferInit
  <2>2. sequence \in 0 .. MaxId /\ faults \in Nat
    BY TransferAssumption DEF TransferInit
  <2>3. \A i \in named : i <= sequence
    BY DEF TransferInit
  <2> QED
    BY <2>1, <2>2, <2>3 DEF TransferInit, SequenceInv
<1>2. CopyInv /\ CopyIsFaithful
  BY NoCopyFits DEF TransferInit, CopyInv, CopyIsFaithful
<1> QED
  BY <1>1, <1>2 DEF TransferIInv

LEMMA HighOf ==
  ASSUME NEW S, S \subseteq 1 .. MaxId
  PROVE  Highest(S) \in 0 .. MaxId /\ (\A i \in S : i <= Highest(S)) /\ (S # {} => Highest(S) \in S)
<1>1. MaxId \in Nat /\ S \cup {0} \subseteq 0 .. MaxId /\ S \cup {0} # {}
  BY TransferAssumption
<1>0. S \cup {0} \subseteq Nat
  BY <1>1
<1>2. Highest(S) \in S \cup {0} /\ \A i \in S \cup {0} : i <= Highest(S)
  BY <1>1, HighestOf DEF Highest
<1>3. \A i \in S : i \in Nat /\ i > 0
  BY <1>1
<1>4. ASSUME S # {} PROVE Highest(S) # 0
  <2>1. PICK i \in S : TRUE
    BY <1>4
  <2>2. i > 0 /\ i <= Highest(S) /\ i \in Nat /\ Highest(S) \in Nat
    <3>1. i \in Nat /\ i > 0 /\ i <= Highest(S)
      BY <1>2, <1>3, <2>1
    <3>2. Highest(S) \in Nat
      BY <1>0, <1>2, Zenon
    <3> QED
      BY <3>1, <3>2
  <2> QED
    BY <2>2
<1>5. Highest(S) \in 0 .. MaxId /\ \A i \in S : i <= Highest(S)
  BY <1>1, <1>2
<1> QED
  BY <1>2, <1>4, <1>5

LEMMA HighWaterOf ==
  ASSUME TransferIInv
  PROVE  /\ HighWater \in 0 .. MaxId
         /\ store = "postgres" => \A i \in named : i <= HighWater
         /\ store = "sqlite" => HighWater = copying.high
<1>1. copying.source \subseteq 1 .. MaxId /\ copying.high \in 0 .. MaxId /\ sequence \in 0 .. MaxId /\ MaxId \in Nat
  BY TransferAssumption DEF TransferIInv, CopyInv, SequenceInv
<1>2. Highest(copying.source) \in 0 .. MaxId
  BY <1>1, HighOf
<1>3. CASE store = "postgres"
  <2> DEFINE S == {Highest(copying.source), sequence}
  <2>1. S \subseteq 0 .. MaxId /\ S # {}
    BY <1>1, <1>2
  <2>2. Max(S) \in S /\ sequence <= Max(S)
    BY <1>1, <2>1, HighestOf
  <2>3. HighWater = Max(S)
    BY <1>3 DEF HighWater
  <2>4. \A i \in named : i \in 1 .. MaxId /\ i <= sequence
    BY <1>3 DEF TransferIInv, SequenceInv
  <2> HIDE DEF S
  <2>5. HighWater \in 0 .. MaxId /\ sequence <= HighWater
    BY <2>1, <2>2, <2>3
  <2> QED
    BY <1>1, <1>3, <2>4, <2>5
<1>4. CASE store = "sqlite"
  BY <1>1, <1>4 DEF HighWater
<1>5. CASE store \notin {"postgres", "sqlite"}
  BY <1>2, <1>5 DEF HighWater
<1> QED
  BY <1>3, <1>4, <1>5

LEMMA RowInsertKeeps ==
  ASSUME TransferIInv, NEW committed \in BOOLEAN, InsertOne(committed)
  PROVE  TransferIInv'
<1>1. NextId \in 1 .. MaxId /\ (store # "old" => NextId = sequence + 1)
  <2>1. table \subseteq 1 .. MaxId /\ sequence \in 0 .. MaxId /\ MaxId \in Nat
    BY TransferAssumption DEF TransferIInv, SequenceInv
  <2>2. Highest(table) \in 0 .. MaxId
    BY <2>1, HighOf
  <2> QED
    BY <2>1, <2>2 DEF InsertOne, NextId
<1>2. SequenceInv'
  <2>1. store' = store /\ moved' = moved /\ frozen' = frozen /\ faults' = faults /\ sequence' = NextId
    BY DEF InsertOne
  <2>2. table' \subseteq named' /\ named' \subseteq named \cup {NextId}
        /\ renamed' \subseteq renamed \cup ({NextId} \cap named)
    BY DEF InsertOne, TransferIInv, SequenceInv
  <2>3. named \subseteq 1 .. MaxId /\ sequence \in 0 .. MaxId /\ MaxId \in Nat
    BY TransferAssumption DEF TransferIInv, SequenceInv
  <2>4. store # "old" => renamed = {} /\ \A i \in named : i <= sequence
    BY DEF TransferIInv, SequenceInv
  <2>5. store # "old" => renamed' = {} /\ \A i \in named' : i <= sequence'
    BY <1>1, <2>1, <2>2, <2>3, <2>4
  <2> QED
    BY <1>1, <2>1, <2>2, <2>3, <2>5 DEF TransferIInv, SequenceInv
<1>3. copying' = copying /\ ~ copying.final /\ named \subseteq named'
  BY DEF InsertOne, TransferIInv, CopyInv
<1> QED
  BY <1>2, <1>3 DEF TransferIInv, CopyInv, CopyIsFaithful

LEMMA RowDeleteKeeps ==
  ASSUME TransferIInv, NEW i \in table, DeleteOne(i)
  PROVE  TransferIInv'
  BY DEF DeleteOne, TransferIInv, SequenceInv, CopyInv, CopyIsFaithful

LEMMA FreezeKeeps ==
  ASSUME TransferIInv, Freeze
  PROVE  TransferIInv'
  BY DEF Freeze, TransferIInv, SequenceInv, CopyInv, CopyIsFaithful

LEMMA CopyKeeps ==
  ASSUME TransferIInv, CopyBegins \/ CopyRows \/ Discard
  PROVE  TransferIInv'
<1>1. CASE CopyBegins
  <2>1. SequenceInv'
    BY <1>1 DEF CopyBegins, TransferIInv, SequenceInv
  <2>2. ~ copying.final
    BY <1>1 DEF CopyBegins, TransferIInv, CopyInv
  <2>3. copying' = [at |-> "rows", rows |-> {}, source |-> table, high |-> sequence, final |-> frozen]
    BY <1>1 DEF CopyBegins
  <2>4. /\ copying'.at = "rows" /\ copying'.rows = {} /\ copying'.source = table
        /\ copying'.high = sequence /\ copying'.final = frozen
    BY <2>3
  <2>5. /\ copying' \in [at : {"none", "rows", "verify", "published"}, rows : SUBSET (1 .. MaxId),
                         source : SUBSET (1 .. MaxId), high : 0 .. MaxId, final : BOOLEAN]
    BY <2>3 DEF TransferIInv, SequenceInv
  <2>6. frozen => ~ moved
    BY DEF TransferIInv, SequenceInv
  <2> QED
    BY <1>1, <2>1, <2>4, <2>5, <2>6 DEF CopyBegins, TransferIInv, SequenceInv, CopyInv, CopyIsFaithful
<1>2. CASE CopyRows
  <2>1. PICK S \in SUBSET copying.source : copying' = [copying EXCEPT !.at = "verify", !.rows = S]
    BY <1>2 DEF CopyRows
  <2>2. copying.source \subseteq 1 .. MaxId
    BY DEF TransferIInv, CopyInv
  <2>3. SequenceInv'
    BY <1>2 DEF CopyRows, Fault, TransferIInv, SequenceInv
  <2>4. CopyInv' /\ CopyIsFaithful'
    BY <1>2, <2>1, <2>2 DEF CopyRows, TransferIInv, CopyInv, CopyIsFaithful
  <2> QED
    BY <2>3, <2>4 DEF TransferIInv
<1>3. CASE Discard
  BY <1>3, NoCopyFits DEF Discard, Fault, TransferIInv, SequenceInv, CopyInv, CopyIsFaithful
<1> QED
  BY <1>1, <1>2, <1>3

LEMMA PublishKeeps ==
  ASSUME TransferIInv, Publish
  PROVE  TransferIInv'
<1>1. PICK h \in 0 .. MaxId : h = HighWater
  BY HighWaterOf
<1>2. /\ store = "postgres" => \A i \in named : i <= h
      /\ store = "sqlite" => h = copying.high
  BY <1>1, HighWaterOf
<1>3. copying' = [copying EXCEPT !.at = "published", !.high = h]
  BY <1>1 DEF Publish
<1>4. SequenceInv'
  BY DEF Publish, TransferIInv, SequenceInv
<1>5. copying.rows = copying.source /\ copying.at = "verify"
  BY DEF Publish, SameContent
<1>6. CopyInv' /\ CopyIsFaithful'
  BY <1>2, <1>3, <1>5 DEF Publish, TransferIInv, CopyInv, CopyIsFaithful
<1> QED
  BY <1>4, <1>6 DEF TransferIInv

LEMMA CutOverKeeps ==
  ASSUME TransferIInv, CutOver
  PROVE  TransferIInv'
  BY DEF CutOver, TransferIInv, SequenceInv, CopyInv, CopyIsFaithful, Stores

LEMMA TransferKept == TransferIInv /\ [TransferNext]_transferVars => TransferIInv'
<1> SUFFICES ASSUME TransferIInv, [TransferNext]_transferVars PROVE TransferIInv'
  OBVIOUS
<1>1. CASE UNCHANGED transferVars
  BY <1>1 DEF transferVars, TransferIInv, SequenceInv, CopyInv, CopyIsFaithful
<1> QED
  BY <1>1, RowInsertKeeps, RowDeleteKeeps, FreezeKeeps, CopyKeeps, PublishKeeps, CutOverKeeps DEF TransferNext

LEMMA TransferSound == TransferIInv => TransferInv
  BY DEF TransferIInv, SequenceInv, CopyInv, CopyIsFaithful, TransferInv, TransferTypeOK, NamesStay

\* For any number of rows and failures: an id never comes to name another row, on either
\* side of the move, unless the bot came from a table without AUTOINCREMENT, and what is
\* published is the rows of one moment (db/sqlite_transfer.py, db/sqlite_identity.py).
THEOREM TransferIsSafe == TransferSpec => []TransferInv
  BY TransferBegins, TransferKept, TransferSound, PTL DEF TransferSpec

------------------------------------------------------------------------------
(* SchemaMigration. What a starting process has seen is still there, since *)
(* marks, columns and snapshots only grow; every old row that is gone was  *)
(* read before, and is settled by the loop over what was read, however     *)
(* often and by whomever it is run.                                        *)

\* What the loop over the legacy rows carries along.
Books == [snaps : SUBSET MessageOwners, owner : [BotMessages -> MessageOwners]]

\* A message's source has a snapshot.
WithSnapshots(b) == \A m \in BotMessages : b.owner[m] # NoSource => b.owner[m] \in b.snaps

\* Nothing is taken back.
GrowsTo(b, c) ==
  /\ b.snaps \subseteq c.snaps
  /\ \A m \in BotMessages : b.owner[m] # NoSource => c.owner[m] = b.owner[m]

\* A row is moved or gave way to another source.
IsSettled(b, r) ==
  \/ r.source \in b.snaps /\ \A m \in r.messages : b.owner[m] = r.source
  \/ \E m \in r.messages : b.owner[m] \notin {NoSource, r.source}

LEMMA RowsOf ==
  ASSUME NEW r \in LegacyRows
  PROVE  r.messages \subseteq BotMessages /\ r.source \in MessageOwners /\ r.source # NoSource
BY MigrationAssumption DEF BotMessages, MessageOwners

LEMMA SettledStays ==
  ASSUME NEW b \in Books, NEW c \in Books, GrowsTo(b, c), NEW r \in LegacyRows, IsSettled(b, r)
  PROVE  IsSettled(c, r)
<1>1. r.messages \subseteq BotMessages /\ r.source # NoSource
  BY RowsOf
<1>2. CASE r.source \in b.snaps /\ \A m \in r.messages : b.owner[m] = r.source
  BY <1>1, <1>2 DEF GrowsTo, IsSettled
<1>3. CASE \E m \in r.messages : b.owner[m] \notin {NoSource, r.source}
  BY <1>1, <1>3 DEF GrowsTo, IsSettled
<1> QED
  BY <1>2, <1>3 DEF IsSettled

LEMMA GrowsOn ==
  ASSUME NEW b, NEW c, NEW d, GrowsTo(b, c), GrowsTo(c, d)
  PROVE  GrowsTo(b, d)
BY DEF GrowsTo

\* One row.
LEMMA MovedKeeps ==
  ASSUME NEW b \in Books, WithSnapshots(b), NEW r \in LegacyRows
  PROVE  /\ Moved(b, r) \in Books /\ WithSnapshots(Moved(b, r))
         /\ GrowsTo(b, Moved(b, r)) /\ IsSettled(Moved(b, r), r)
<1>1. r.messages \subseteq BotMessages /\ r.source \in MessageOwners /\ r.source # NoSource
  BY RowsOf
<1>2. CASE \E m \in r.messages : b.owner[m] \notin {NoSource, r.source}
  <2>1. Moved(b, r) = b
    BY <1>2 DEF Moved
  <2> QED
    BY <1>2, <2>1 DEF GrowsTo, IsSettled
<1>3. CASE ~ \E m \in r.messages : b.owner[m] \notin {NoSource, r.source}
  <2> DEFINE o == [m \in BotMessages |-> IF m \in r.messages THEN r.source ELSE b.owner[m]]
             c == [snaps |-> b.snaps \cup {r.source}, owner |-> o]
  <2>1. Moved(b, r) = c
    BY <1>3 DEF Moved
  <2>2. b.snaps \subseteq MessageOwners /\ b.owner \in [BotMessages -> MessageOwners]
    BY DEF Books
  <2>3. o \in [BotMessages -> MessageOwners]
    BY <1>1, <2>2
  <2>4. c \in Books
    BY <1>1, <2>2, <2>3 DEF Books
  <2>5. \A m \in BotMessages : o[m] = IF m \in r.messages THEN r.source ELSE b.owner[m]
    OBVIOUS
  <2>6. c.snaps = b.snaps \cup {r.source} /\ c.owner = o
    OBVIOUS
  <2> HIDE DEF o, c
  <2>7. WithSnapshots(c)
    BY <2>5, <2>6 DEF WithSnapshots
  <2>8. GrowsTo(b, c)
    BY <1>3, <2>5, <2>6 DEF GrowsTo
  <2>9. IsSettled(c, r)
    BY <1>1, <2>5, <2>6 DEF IsSettled
  <2> QED
    BY <2>1, <2>4, <2>7, <2>8, <2>9
<1> QED
  BY <1>2, <1>3

\* The rows one after the other.
LEMMA AfterRowsIs ==
  ASSUME NEW k \in Nat, NEW s \in [1 .. k -> LegacyRows],
         [snaps |-> snapshots, owner |-> owner] \in {b \in Books : WithSnapshots(b)}
  PROVE  \E f \in [0 .. k -> {b \in Books : WithSnapshots(b)}] :
           /\ f[0] = [snaps |-> snapshots, owner |-> owner]
           /\ \A n \in 1 .. k : f[n] = Moved(f[n - 1], s[n])
           /\ AfterRows(s) = f[k]
<1> DEFINE S == {b \in Books : WithSnapshots(b)}
           first == [snaps |-> snapshots, owner |-> owner]
           G == [n \in 1 .. k |-> [x \in S |-> Moved(x, s[n])]]
           Eq(f) == f = [n \in 0 .. k |-> IF n = 0 THEN first ELSE Moved(f[n - 1], s[n])]
<1>1. \A n \in 1 .. k : \A x \in S : G[n][x] \in S
  <2> SUFFICES ASSUME NEW n \in 1 .. k, NEW x \in S PROVE Moved(x, s[n]) \in S
    OBVIOUS
  <2> QED
    BY MovedKeeps
<1> HIDE DEF first
<1>2. \A n \in 1 .. k : \A x \in S : G[n][x] = Moved(x, s[n])
  OBVIOUS
<1>3. first \in S
  BY DEF first
<1>4. k \in 0 .. k /\ Len(s) = k
  OBVIOUS
<1> HIDE DEF S, G
<1>5. \A g : Eq(g) => g[0] = first /\ \A n \in 1 .. k : g[n] = Moved(g[n - 1], s[n])
  OBVIOUS
<1>6. PICK h : IsLoop(h, k, S, first, G)
  BY <1>1, <1>3, LoopOf
<1>7. \A n \in 1 .. k : h[n - 1] \in S /\ h[n] = Moved(h[n - 1], s[n])
  BY <1>2, <1>6 DEF IsLoop
<1>8. Eq(h)
  BY <1>6, <1>7 DEF IsLoop
<1>9. Eq(CHOOSE g : Eq(g))
  BY <1>8
<1>10. PICK g : Eq(g) /\ AfterRows(s) = g[k]
  BY <1>4, <1>9 DEF AfterRows, first
<1>11. \A n \in 0 .. k : g[n] \in S
  <2> DEFINE T == {n \in 0 .. k : g[n] \in S}
  <2>1. g[0] = first /\ \A n \in 1 .. k : g[n] = Moved(g[n - 1], s[n])
    BY <1>5, <1>10
  <2>2. 0 \in T
    BY <1>3, <2>1
  <2>3. ASSUME NEW n \in 1 .. k, n - 1 \in T PROVE n \in T
    <3>1. g[n - 1] \in S /\ g[n] = Moved(g[n - 1], s[n]) /\ s[n] \in LegacyRows
      BY <2>1, <2>3
    <3>2. g[n] \in S
      BY <3>1, MovedKeeps DEF S
    <3> QED
      BY <3>2
  <2> HIDE DEF T
  <2>4. \A n \in 0 .. k : n \in T
    BY <2>2, <2>3, UpTo
  <2> QED
    BY <2>4 DEF T
<1>12. g[0] = first /\ \A n \in 1 .. k : g[n] = Moved(g[n - 1], s[n])
  BY <1>5, <1>10
<1>13. g \in [0 .. k -> S]
  BY <1>10, <1>11
<1> QED
  BY <1>10, <1>12, <1>13 DEF S, first

\* Whatever the order of the rows, nothing is taken back and each is settled.
LEMMA ResultsOf ==
  ASSUME NEW old \in SUBSET LegacyRows, NEW result \in Results(old),
         [snaps |-> snapshots, owner |-> owner] \in {b \in Books : WithSnapshots(b)}
  PROVE  /\ result \in Books /\ WithSnapshots(result)
         /\ GrowsTo([snaps |-> snapshots, owner |-> owner], result)
         /\ \A r \in old : r.fresh => IsSettled(result, r)
<1> DEFINE first == [snaps |-> snapshots, owner |-> owner]
           new == {r \in old : r.fresh}
           k == Cardinality(new)
<1>1. PICK s \in SetToSeqs(new) : result = AfterRows(s)
  BY DEF Results
<1>2. IsFiniteSet(new) /\ k \in Nat
  BY FS_Subset, FS_CardinalityType, MigrationAssumption
<1>3. s \in [1 .. k -> new] /\ \A i, j \in 1 .. k : i # j => s[i] # s[j]
  BY DEF SetToSeqs
<1>4. \A r \in new : \E i \in 1 .. k : s[i] = r
  <2>1. s \in Injection(1 .. k, new)
    BY <1>3 DEF Injection, IsInjective
  <2>2. Cardinality(1 .. k) = k
    BY <1>2, FS_Interval
  <2>3. s \in Surjection(1 .. k, new)
    BY <1>2, <2>1, <2>2, FS_Injection
  <2> QED
    BY <2>3 DEF Surjection
<1> HIDE DEF new, k
<1>5. s \in [1 .. k -> LegacyRows]
  BY <1>3 DEF new
<1>6. PICK f \in [0 .. k -> {b \in Books : WithSnapshots(b)}] :
        /\ f[0] = first
        /\ \A n \in 1 .. k : f[n] = Moved(f[n - 1], s[n])
        /\ AfterRows(s) = f[k]
  BY <1>2, <1>5, AfterRowsIs
<1> HIDE DEF first
<1> DEFINE Well(n) == GrowsTo(first, f[n]) /\ \A i \in 1 .. n : IsSettled(f[n], s[i])
           T == {n \in 0 .. k : Well(n)}
<1>7. Well(0)
  BY <1>6 DEF GrowsTo
<1>8. ASSUME NEW n \in 1 .. k, Well(n - 1) PROVE Well(n)
  <2>1. f[n - 1] \in Books /\ WithSnapshots(f[n - 1]) /\ f[n] \in Books
    BY <1>2, <1>6
  <2>2. s[n] \in LegacyRows /\ f[n] = Moved(f[n - 1], s[n])
    BY <1>5, <1>6
  <2>3. GrowsTo(f[n - 1], f[n]) /\ IsSettled(f[n], s[n])
    BY <2>1, <2>2, MovedKeeps
  <2>4. GrowsTo(first, f[n])
    BY <1>8, <2>3, GrowsOn
  <2>5. ASSUME NEW i \in 1 .. n, i # n PROVE IsSettled(f[n], s[i])
    <3>1. i \in 1 .. n - 1 /\ i \in 1 .. k
      BY <1>2, <2>5
    <3>2. s[i] \in LegacyRows /\ IsSettled(f[n - 1], s[i])
      BY <1>5, <1>8, <3>1
    <3> QED
      BY <2>1, <2>3, <3>2, SettledStays
  <2> QED
    BY <2>3, <2>4, <2>5
<1> HIDE DEF Well
<1>9. 0 \in T /\ \A n \in 1 .. k : n - 1 \in T => n \in T
  BY <1>2, <1>7, <1>8
<1> HIDE DEF T
<1>10. \A n \in 0 .. k : n \in T
  BY <1>2, <1>9, UpTo
<1>11. k \in 0 .. k
  BY <1>2
<1>12. Well(k) /\ f[k] \in Books /\ WithSnapshots(f[k]) /\ result = f[k]
  BY <1>1, <1>6, <1>10, <1>11 DEF T
<1>13. \A r \in new : IsSettled(result, r)
  BY <1>4, <1>12 DEF Well
<1> QED
  BY <1>12, <1>13 DEF Well, first, new

Step == [at : {"down", "looked", "read", "up"}, marks : SUBSET Migrations,
         columns : SUBSET Migrations, rows : SUBSET LegacyRows]
SchemaTables == [snaps |-> snapshots, owner |-> owner]

\* What a starting process has seen is still there, and every row that is gone was read
\* and settled.
MigrationIInv ==
  /\ marks \subseteq columns /\ columns \subseteq Migrations
  /\ SchemaTables \in {b \in Books : WithSnapshots(b)}
  /\ appState \subseteq LegacyRows
  /\ start \in [Starters -> Step]
  /\ \A p \in Starters : start[p].marks \subseteq marks
  /\ \A p \in Starters : start[p].at = "up" => columns = Migrations
  /\ everHad \subseteq LegacyRows
  /\ \A r \in everHad \ appState : r \in everRead /\ (~ r.fresh \/ IsSettled(SchemaTables, r))

LEMMA MigrationBegins ==
  ASSUME MigrationInit
  PROVE  MigrationIInv
<1>1. PICK age \in Ages : marks = age.marks /\ columns = age.columns /\ owner = age.owner
  BY DEF MigrationInit
<1>2. marks \subseteq columns /\ columns \subseteq Migrations /\ owner \in [BotMessages -> MessageOwners]
  BY <1>1, MigrationAssumption
<1>3. snapshots = {owner[m] : m \in BotMessages} \ {NoSource} /\ snapshots \subseteq MessageOwners
  BY <1>2 DEF MigrationInit
<1>4. SchemaTables \in Books /\ WithSnapshots(SchemaTables)
  BY <1>2, <1>3 DEF SchemaTables, Books, WithSnapshots
<1>5. Down \in Step
  BY DEF Down, Step
<1>6. \A p \in Starters : start[p] = Down
  BY DEF MigrationInit
<1>7. start \in [Starters -> Step]
  BY <1>5 DEF MigrationInit
<1>8. \A p \in Starters : start[p].marks = {} /\ start[p].at # "up"
  BY <1>6 DEF Down
<1>9. appState \subseteq LegacyRows /\ everHad = appState
  BY DEF MigrationInit
<1> QED
  BY <1>2, <1>4, <1>7, <1>8, <1>9 DEF MigrationIInv

\* A process changes only where it is.
LEMMA StartMoves ==
  ASSUME MigrationIInv, NEW p \in Starters, NEW x \in Step, x.marks \subseteq marks,
         x.at = "up" => columns = Migrations, start' = [start EXCEPT ![p] = x],
         UNCHANGED <<marks, columns, appState, snapshots, owner, everHad, everRead>>
  PROVE  MigrationIInv'
<1>1. start' \in [Starters -> Step]
  BY DEF MigrationIInv
<1>2. \A q \in Starters : start'[q] = IF q = p THEN x ELSE start[q]
  BY DEF MigrationIInv
<1>3. SchemaTables' = SchemaTables
  BY DEF SchemaTables
<1> QED
  BY <1>1, <1>2, <1>3 DEF MigrationIInv

LEMMA MarkLookKeeps ==
  ASSUME MigrationIInv, NEW p \in Starters, Look(p)
  PROVE  MigrationIInv'
<1> DEFINE x == [at |-> "looked", marks |-> marks, columns |-> columns, rows |-> {}]
<1>1. x \in Step
  BY DEF MigrationIInv, Step
<1> QED
  BY <1>1, StartMoves DEF Look

LEMMA ReadLegacyKeeps ==
  ASSUME MigrationIInv, NEW p \in Starters, ReadLegacy(p)
  PROVE  MigrationIInv'
<1> DEFINE x == [start[p] EXCEPT !.at = "read",
                                 !.rows = IF "legacy" \in start[p].marks THEN {} ELSE appState]
<1>1. start[p] \in Step /\ start[p].marks \subseteq marks /\ appState \subseteq LegacyRows
  BY DEF MigrationIInv
<1>2. x \in Step /\ x.marks = start[p].marks /\ x.at = "read"
  BY <1>1 DEF Step
<1>3. start' = [start EXCEPT ![p] = x]
  BY DEF ReadLegacy, MigrationIInv
<1> QED
  BY <1>1, <1>2, <1>3, StartMoves DEF ReadLegacy

LEMMA MigrateKeeps ==
  ASSUME MigrationIInv, NEW p \in Starters, Migrate(p)
  PROVE  MigrationIInv'
<1> DEFINE x == [Down EXCEPT !.at = "up"]
<1>1. start[p] \in Step /\ marks = start[p].marks
  BY DEF MigrationIInv, Migrate, Collides
<1>2. start[p].rows \in SUBSET LegacyRows
  BY <1>1 DEF Step
<1>3. PICK result \in Results(start[p].rows) : snapshots' = result.snaps /\ owner' = result.owner
  BY DEF Migrate
<1>4. SchemaTables \in {b \in Books : WithSnapshots(b)}
  BY DEF MigrationIInv
<1>5. /\ result \in Books /\ WithSnapshots(result) /\ GrowsTo(SchemaTables, result)
      /\ \A r \in start[p].rows : r.fresh => IsSettled(result, r)
  BY <1>2, <1>4, ResultsOf DEF SchemaTables
<1>6. SchemaTables' = result
  BY <1>3, <1>5 DEF SchemaTables, Books
<1>7. marks' = Migrations /\ columns' = Migrations
  BY <1>1 DEF Migrate, MigrationIInv
<1>8. x \in Step /\ x.marks = {}
  BY DEF Step, Down
<1>9. start' = [start EXCEPT ![p] = x] /\ start \in [Starters -> Step]
  BY DEF Migrate, MigrationIInv
<1>10. start' \in [Starters -> Step]
  BY <1>8, <1>9
<1>11. \A q \in Starters : start'[q].marks \subseteq Migrations
  BY <1>10 DEF Step
<1>12. everHad' \subseteq LegacyRows /\ appState' \subseteq LegacyRows
  BY DEF Migrate, MigrationIInv
<1>13. ASSUME NEW r \in everHad' \ appState'
       PROVE  r \in everRead' /\ (~ r.fresh \/ IsSettled(result, r))
  <2>1. r \in LegacyRows /\ r \in everHad /\ everRead' = everRead \cup start[p].rows
    BY <1>12 DEF Migrate
  <2>2. r \notin appState \/ r \in start[p].rows
    BY DEF Migrate, Handled
  <2>3. CASE r \in start[p].rows
    BY <1>5, <2>1, <2>3
  <2>4. CASE r \notin appState
    <3>1. r \in everRead /\ (~ r.fresh \/ IsSettled(SchemaTables, r))
      BY <2>1, <2>4 DEF MigrationIInv
    <3>2. IsSettled(SchemaTables, r) => IsSettled(result, r)
      BY <1>4, <1>5, <2>1, SettledStays
    <3> QED
      BY <2>1, <3>1, <3>2
  <2> QED
    BY <2>2, <2>3, <2>4
<1> QED
  BY <1>5, <1>6, <1>7, <1>10, <1>11, <1>12, <1>13 DEF MigrationIInv

LEMMA NothingToDoKeeps ==
  ASSUME MigrationIInv, NEW p \in Starters, NothingToDo(p)
  PROVE  MigrationIInv'
<1> DEFINE x == [Down EXCEPT !.at = "up"]
<1>1. x \in Step /\ x.marks = {}
  BY DEF Step, Down
<1>2. columns = Migrations
  BY DEF NothingToDo, MigrationIInv
<1> QED
  BY <1>1, <1>2, StartMoves DEF NothingToDo

LEMMA StartFailsKeeps ==
  ASSUME MigrationIInv, NEW p \in Starters, StartFails(p)
  PROVE  MigrationIInv'
<1>1. Down \in Step /\ Down.marks = {} /\ Down.at # "up"
  BY DEF Step, Down
<1> QED
  BY <1>1, StartMoves DEF StartFails

LEMMA OldVersionWritesKeeps ==
  ASSUME MigrationIInv, NEW r \in LegacyRows, OldVersionWrites(r)
  PROVE  MigrationIInv'
<1>1. SchemaTables' = SchemaTables
  BY DEF OldVersionWrites, SchemaTables
<1>2. \A q \in everHad' \ appState' : q \in everHad \ appState
  BY DEF OldVersionWrites
<1>3. appState' \subseteq LegacyRows /\ everHad' \subseteq LegacyRows
  BY DEF OldVersionWrites, MigrationIInv
<1> QED
  BY <1>1, <1>2, <1>3 DEF OldVersionWrites, MigrationIInv

LEMMA MigrationKept ==
  ASSUME MigrationIInv, [MigrationNext]_migrationVars
  PROVE  MigrationIInv'
<1>1. CASE UNCHANGED migrationVars
  <2>1. SchemaTables' = SchemaTables
    BY <1>1 DEF migrationVars, SchemaTables
  <2> QED
    BY <1>1, <2>1 DEF migrationVars, MigrationIInv
<1>2. ASSUME NEW p \in Starters,
             Look(p) \/ ReadLegacy(p) \/ Migrate(p) \/ NothingToDo(p) \/ StartFails(p)
      PROVE  MigrationIInv'
  BY <1>2, MarkLookKeeps, ReadLegacyKeeps, MigrateKeeps, NothingToDoKeeps, StartFailsKeeps
<1>3. ASSUME NEW r \in LegacyRows, OldVersionWrites(r) PROVE MigrationIInv'
  BY <1>3, OldVersionWritesKeeps
<1> QED
  BY <1>1, <1>2, <1>3 DEF MigrationNext

LEMMA MigrationSound ==
  ASSUME MigrationIInv
  PROVE  MigrationInv
<1>1. SchemaTables \in Books /\ WithSnapshots(SchemaTables)
  BY DEF MigrationIInv
<1>2. MigrationTypeOK
  BY <1>1 DEF MigrationIInv, MigrationTypeOK, SchemaTables, Books, WithSnapshots
<1>3. MarksAreTrue
  BY DEF MigrationIInv, MarksAreTrue
<1>4. NoReportVanishes
  BY DEF MigrationIInv, NoReportVanishes, IsMoved, IsSettled, SchemaTables
<1> QED
  BY <1>2, <1>3, <1>4 DEF MigrationInv

\* A mark stands for its columns, and no report of an answer vanishes.
THEOREM MigrationIsSafe == MigrationSpec => []MigrationInv
<1>1. MigrationInit => MigrationIInv
  BY MigrationBegins
<1>2. MigrationIInv /\ [MigrationNext]_migrationVars => MigrationIInv'
  BY MigrationKept
<1>3. MigrationIInv => MigrationInv
  BY MigrationSound
<1> QED
  BY <1>1, <1>2, <1>3, PTL DEF MigrationSpec

------------------------------------------------------------------------------
(* BackupArchive. Every hour is at most a day and an hour a failure after  *)
(* a good object (Covered). A run takes at most a day, so that what it     *)
(* deletes for its age is as old as it was when it was listed (RunOK) and  *)
(* younger good ones are there (ObjectOK).                                 *)

\* An object of the bucket and a run of an archiver.
Object == [at : Nat, intact : BOOLEAN, verified : BOOLEAN, there : BOOLEAN]
Stages == {"idle", "put", "check", "mark", "prune"}
Run == [at : Stages, began : Nat, key : Nat, seen : SUBSET (Nat \X Nat)]

\* The hour h is at most a day and an hour a failure after the newest good object of b.
GoodIn(b) == {k \in DOMAIN b : b[k].there /\ b[k].verified}
Covers(b, s, h) ==
  \/ h <= BackupDay + s
  \/ \E k \in GoodIn(b) : h <= b[k].at + BackupDay + s
Covered(h) == Covers(bucket, slips, h)

ObjectOK(k) ==
  /\ bucket[k].at <= hour
  /\ bucket[k].verified => bucket[k].intact
  /\ ~ bucket[k].there => \E l \in Good : bucket[l].at > bucket[k].at + Retention

\* A run takes at most a day, its upload is there, and what it is about to delete for its
\* age is as old as it was when it was listed.
RunOK(w) ==
  LET u == upload[w] IN
  /\ u.at = "idle" => u.key = 0 /\ u.seen = {}
  /\ u.at = "put" => u.key = 0
  /\ u.at # "idle" => u.began <= hour /\ hour <= u.began + BackupDay
  /\ u.at # "idle" /\ w = "bot" => u.began = hour
  /\ u.at \in {"check", "mark", "prune"} => u.key \in Stored /\ bucket[u.key].at >= u.began
  /\ u.at = "mark" => bucket[u.key].intact
  /\ u.at = "prune" => bucket[u.key].verified
  /\ \A x \in u.seen : x[2] < u.began - Retention =>
       x[1] \in DOMAIN bucket /\ bucket[x[1]].at = x[2]

BackupIInv ==
  /\ hour \in Nat /\ hour <= BackupHorizon /\ slips \in Nat /\ slips <= MaxSlips /\ due \in Nat
  /\ bucket \in Seq(Object) /\ upload \in [Archivers -> Run]
  /\ \A k \in DOMAIN bucket : ObjectOK(k)
  /\ \A w \in Archivers : RunOK(w)
  /\ Covered(hour) /\ Covered(due)
  /\ upload["bot"].at = "check" /\ ~ bucket[upload["bot"].key].intact => Covered(hour + 1)

\* What a step does to the objects: it makes none older, deletes none of the last day
\* and touches none that is older.
ObjectAges ==
  \A k \in DOMAIN bucket :
    /\ k \in DOMAIN bucket' /\ bucket'[k].intact = bucket[k].intact
    /\ bucket[k].verified => bucket'[k].verified
    /\ bucket[k].at <= bucket'[k].at
    /\ bucket[k].at + BackupDay < hour => bucket'[k].at = bucket[k].at
    /\ bucket[k].there /\ hour <= bucket[k].at + BackupDay => bucket'[k].there

LEMMA RunTypes ==
  ASSUME BackupIInv, NEW w \in Archivers
  PROVE  /\ upload[w] \in Run /\ upload[w].began \in Nat /\ upload[w].key \in Nat
         /\ upload[w].seen \subseteq Nat \X Nat /\ upload[w].at \in Stages
BY DEF BackupIInv, Run

LEMMA ObjectTypes ==
  ASSUME BackupIInv, NEW k \in DOMAIN bucket
  PROVE  /\ bucket[k] \in Object /\ bucket[k].at \in Nat /\ bucket[k].intact \in BOOLEAN
         /\ bucket[k].verified \in BOOLEAN /\ bucket[k].there \in BOOLEAN
<1>1. bucket \in Seq(Object) /\ k \in 1 .. Len(bucket)
  BY DEF BackupIInv
<1>2. bucket[k] \in Object
  BY <1>1
<1> QED
  BY <1>2 DEF Object

LEMMA Limits ==
  /\ BackupDay \in Nat /\ Retention \in Nat /\ Retention > BackupDay /\ BackupDay > 0
  /\ MaxSlips \in Nat /\ BackupHorizon \in Nat
BY BackupAssumption

LEMMA CoversStays ==
  ASSUME NEW b \in Seq(Object), NEW c \in Seq(Object), NEW s \in Nat, NEW t \in Nat, s <= t,
         \A k \in GoodIn(b) : \E l \in GoodIn(c) : b[k].at <= c[l].at,
         NEW h \in Int, Covers(b, s, h)
  PROVE  Covers(c, t, h)
<1>1. BackupDay \in Nat
  BY Limits
<1>2. CASE h <= BackupDay + s
  BY <1>1, <1>2 DEF Covers
<1>3. ASSUME NEW k \in GoodIn(b), h <= b[k].at + BackupDay + s PROVE Covers(c, t, h)
  <2>1. PICK l \in GoodIn(c) : b[k].at <= c[l].at
    OBVIOUS
  <2>2. b[k] \in Object /\ c[l] \in Object
    BY DEF GoodIn
  <2>3. b[k].at \in Nat /\ c[l].at \in Nat
    BY <2>2 DEF Object
  <2> DEFINE p == b[k].at
             q == c[l].at
  <2>4. p \in Nat /\ q \in Nat /\ p <= q /\ h <= p + BackupDay + s
    BY <1>3, <2>1, <2>3
  <2> HIDE DEF p, q
  <2>5. h <= q + BackupDay + t
    BY <1>1, <2>4
  <2> QED
    BY <2>5 DEF Covers, q
<1> QED
  BY <1>2, <1>3 DEF Covers

LEMMA RunReliesOn ==
  ASSUME BackupIInv, ObjectAges, bucket' \in Seq(Object), NEW w \in Archivers, NEW u, u = upload[w]
  PROVE  /\ u.at \in {"check", "mark", "prune"} =>
              /\ u.key \in Stored' /\ bucket'[u.key].at >= u.began
              /\ bucket'[u.key].intact = bucket[u.key].intact
              /\ bucket[u.key].verified => bucket'[u.key].verified
         /\ \A x \in u.seen : x[2] < u.began - Retention =>
              x[1] \in DOMAIN bucket' /\ bucket'[x[1]].at = x[2]
<1>1. RunOK(w) /\ hour \in Nat
  BY DEF BackupIInv
<1>2. u.began \in Nat /\ u.key \in Nat /\ u.at \in Stages /\ u.seen \subseteq Nat \X Nat
  BY RunTypes
<1>3. ASSUME u.at \in {"check", "mark", "prune"}
      PROVE  /\ u.key \in Stored' /\ bucket'[u.key].at >= u.began
             /\ bucket'[u.key].intact = bucket[u.key].intact
             /\ bucket[u.key].verified => bucket'[u.key].verified
  <2>1. u.key \in DOMAIN bucket /\ bucket[u.key].there /\ bucket[u.key].at >= u.began
        /\ hour <= u.began + BackupDay
    BY <1>1, <1>3 DEF RunOK, Stored
  <2>2. bucket[u.key].at \in Nat
    BY <2>1, ObjectTypes
  <2>3. hour <= bucket[u.key].at + BackupDay
    BY <1>1, <1>2, <2>1, <2>2, Limits
  <2>4. /\ u.key \in DOMAIN bucket' /\ bucket'[u.key].there /\ bucket[u.key].at <= bucket'[u.key].at
        /\ bucket'[u.key].intact = bucket[u.key].intact
        /\ bucket[u.key].verified => bucket'[u.key].verified
    BY <2>1, <2>3 DEF ObjectAges
  <2>5. bucket'[u.key] \in Object
    BY <2>4
  <2>6. bucket'[u.key].at \in Nat
    BY <2>5 DEF Object
  <2>7. bucket'[u.key].at >= u.began
    BY <1>2, <2>1, <2>2, <2>4, <2>6
  <2> QED
    BY <2>4, <2>7 DEF Stored
<1>4. ASSUME NEW x \in u.seen, x[2] < u.began - Retention
      PROVE  x[1] \in DOMAIN bucket' /\ bucket'[x[1]].at = x[2]
  <2>1. u.at # "idle"
    BY <1>1, <1>4 DEF RunOK
  <2>1a. x[1] \in DOMAIN bucket /\ bucket[x[1]].at = x[2]
    BY <1>1, <1>4 DEF RunOK
  <2>2. x[2] \in Nat /\ u.began <= hour
    BY <1>1, <1>2, <2>1 DEF RunOK
  <2>3. bucket[x[1]].at + BackupDay < hour
    BY <1>1, <1>2, <1>4, <2>1a, <2>2, Limits
  <2> QED
    BY <2>1a, <2>3 DEF ObjectAges
<1> QED
  BY <1>3, <1>4

LEMMA RunStays ==
  ASSUME BackupIInv, ObjectAges, bucket' \in Seq(Object), hour' = hour,
         NEW w \in Archivers, upload'[w] = upload[w]
  PROVE  RunOK(w)'
<1>1. RunOK(w)
  BY DEF BackupIInv
<1> QED
  BY <1>1, RunReliesOn DEF RunOK

\* A step of the bucket within an hour: it keeps what the runs rely on.
BucketSteps ==
  /\ bucket' \in Seq(Object) /\ ObjectAges
  /\ \A k \in GoodIn(bucket) : \E l \in GoodIn(bucket') : bucket[k].at <= bucket'[l].at

LEMMA GoodIs == Good = GoodIn(bucket) /\ Good' = GoodIn(bucket')
BY DEF Good, GoodIn, Stored

LEMMA ObjectStays ==
  ASSUME BackupIInv, BucketSteps, hour' = hour, NEW k \in DOMAIN bucket,
         bucket'[k].at <= hour, bucket'[k].verified => bucket'[k].intact,
         bucket[k].there =>
           bucket'[k].there \/ \E l \in GoodIn(bucket') : bucket'[l].at > bucket'[k].at + Retention
  PROVE  ObjectOK(k)'
<1>1. CASE bucket[k].there
  BY <1>1, GoodIs DEF ObjectOK
<1>2. CASE ~ bucket[k].there
  <2>1. PICK l \in GoodIn(bucket) : bucket[l].at > bucket[k].at + Retention
    BY <1>2, GoodIs DEF BackupIInv, ObjectOK
  <2>2. PICK m \in GoodIn(bucket') : bucket[l].at <= bucket'[m].at
    BY DEF BucketSteps
  <2>3. l \in DOMAIN bucket /\ m \in DOMAIN bucket'
    BY DEF GoodIn
  <2>4. bucket[k].at \in Nat /\ bucket[l].at \in Nat /\ bucket[l].at <= hour
    BY <2>3, ObjectTypes DEF BackupIInv, ObjectOK
  <2>5. bucket'[m] \in Object
    BY <2>3 DEF BucketSteps
  <2>6. bucket'[m].at \in Nat
    BY <2>5 DEF Object
  <2>7. bucket[k].at + BackupDay < hour
    BY <2>1, <2>4, Limits DEF BackupIInv
  <2>8. bucket'[k].at = bucket[k].at
    BY <2>7 DEF BucketSteps, ObjectAges
  <2>9. bucket'[m].at > bucket'[k].at + Retention
    BY <2>1, <2>2, <2>4, <2>6, <2>8, Limits
  <2> QED
    BY <2>9, GoodIs DEF ObjectOK
<1> QED
  BY <1>1, <1>2

LEMMA BucketRests ==
  ASSUME BackupIInv, UNCHANGED <<hour, bucket>>
  PROVE  BucketSteps /\ \A k \in DOMAIN bucket' : ObjectOK(k)'
<1>1. bucket' \in Seq(Object)
  BY DEF BackupIInv
<1>2. \A k \in DOMAIN bucket : bucket[k].at \in Nat
  BY ObjectTypes
<1>3. ObjectAges
  BY <1>2 DEF ObjectAges
<1>4. \A k \in GoodIn(bucket) : bucket[k].at \in Nat
  BY <1>2 DEF GoodIn
<1>5. BucketSteps
  BY <1>1, <1>3, <1>4 DEF BucketSteps
<1>6. Good' = Good
  BY DEF Good, Stored
<1> QED
  BY <1>5, <1>6 DEF BackupIInv, ObjectOK

LEMMA AppendSteps ==
  ASSUME BackupIInv, NEW o \in Object, o.at = hour, o.there, ~ o.verified,
         bucket' = Append(bucket, o), hour' = hour
  PROVE  /\ BucketSteps /\ \A k \in DOMAIN bucket' : ObjectOK(k)'
         /\ Len(bucket') \in Stored' /\ bucket'[Len(bucket')] = o
<1>1. bucket \in Seq(Object)
  BY DEF BackupIInv
<1>2. /\ bucket' \in Seq(Object) /\ Len(bucket') = Len(bucket) + 1
      /\ DOMAIN bucket = 1 .. Len(bucket) /\ DOMAIN bucket' = 1 .. Len(bucket')
      /\ bucket'[Len(bucket')] = o /\ \A k \in 1 .. Len(bucket) : bucket'[k] = bucket[k]
  BY <1>1
<1>3. \A k \in DOMAIN bucket : k \in DOMAIN bucket' /\ bucket'[k] = bucket[k] /\ bucket[k].at \in Nat
  BY <1>2, ObjectTypes
<1>4. ObjectAges
  BY <1>3 DEF ObjectAges
<1>5. \A k \in GoodIn(bucket) : k \in GoodIn(bucket') /\ bucket[k].at <= bucket'[k].at
  BY <1>3 DEF GoodIn
<1>6. BucketSteps
  BY <1>2, <1>4, <1>5 DEF BucketSteps
<1>7. ASSUME NEW k \in DOMAIN bucket PROVE ObjectOK(k)'
  <2>1. bucket'[k] = bucket[k] /\ bucket[k].at <= hour
        /\ (bucket[k].verified => bucket[k].intact)
    BY <1>3 DEF BackupIInv, ObjectOK
  <2> QED
    BY <1>6, <2>1, ObjectStays
<1>8. hour \in Nat
  BY DEF BackupIInv
<1>9. ASSUME NEW k \in DOMAIN bucket', k = Len(bucket') PROVE ObjectOK(k)'
  <2>1. bucket'[k] = o
    BY <1>2, <1>9
  <2> QED
    BY <1>8, <2>1 DEF ObjectOK
<1>10. \A k \in DOMAIN bucket' : k \in DOMAIN bucket \/ k = Len(bucket')
  BY <1>1, <1>2
<1>11. Len(bucket') \in Stored'
  BY <1>1, <1>2 DEF Stored
<1> QED
  BY <1>2, <1>6, <1>7, <1>9, <1>10, <1>11

LEMMA MarkSteps ==
  ASSUME BackupIInv, NEW w \in Archivers, upload[w].at = "mark", Marked(w), hour' = hour
  PROVE  /\ BucketSteps /\ \A k \in DOMAIN bucket' : ObjectOK(k)'
         /\ bucket'[upload[w].key].verified /\ bucket'[upload[w].key].at = hour
         /\ upload[w].key \in Good'
<1> DEFINE d == upload[w].key
           o == [bucket[d] EXCEPT !.verified = TRUE, !.at = hour]
<1>1. RunOK(w) /\ hour \in Nat /\ bucket \in Seq(Object)
  BY DEF BackupIInv
<1>2. d \in DOMAIN bucket /\ bucket[d].there /\ bucket[d].intact /\ upload[w].began \in Nat
      /\ bucket[d].at >= upload[w].began /\ hour <= upload[w].began + BackupDay
  BY <1>1, RunTypes DEF RunOK, Stored
<1>3. bucket[d] \in Object /\ bucket[d].at \in Nat /\ bucket[d].at <= hour
  BY <1>2, ObjectTypes DEF BackupIInv, ObjectOK
<1>4. bucket' = [bucket EXCEPT ![d] = o]
  BY <1>1, <1>2, <1>3 DEF Marked
<1>5. o \in Object /\ o.there = bucket[d].there /\ o.intact = bucket[d].intact
      /\ o.at = hour /\ o.verified
  BY <1>1, <1>3 DEF Object
<1> HIDE DEF o, d
<1>6. bucket' \in Seq(Object) /\ DOMAIN bucket' = DOMAIN bucket
      /\ \A k \in DOMAIN bucket : bucket'[k] = IF k = d THEN o ELSE bucket[k]
  BY <1>1, <1>2, <1>4, <1>5
<1>7. \A k \in DOMAIN bucket : bucket[k].at \in Nat /\ bucket[k].at <= hour
      /\ (bucket[k].verified => bucket[k].intact)
  BY ObjectTypes DEF BackupIInv, ObjectOK
<1>8. ~ (bucket[d].at + BackupDay < hour)
  BY <1>1, <1>2, <1>3, Limits
<1>9. ObjectAges
  <2> SUFFICES ASSUME NEW k \in DOMAIN bucket
               PROVE  /\ bucket'[k].intact = bucket[k].intact
                      /\ bucket[k].verified => bucket'[k].verified
                      /\ bucket[k].at <= bucket'[k].at
                      /\ bucket[k].at + BackupDay < hour => bucket'[k].at = bucket[k].at
                      /\ bucket[k].there /\ hour <= bucket[k].at + BackupDay => bucket'[k].there
    BY <1>6 DEF ObjectAges
  <2>1. CASE k = d
    BY <1>2, <1>3, <1>5, <1>6, <1>8, <2>1
  <2>2. CASE k # d
    <3>1. bucket'[k] = bucket[k] /\ bucket[k].at \in Nat
      BY <1>6, <1>7, <2>2
    <3> QED
      BY <3>1
  <2> QED
    BY <2>1, <2>2
<1>10. ASSUME NEW k \in GoodIn(bucket)
       PROVE  k \in GoodIn(bucket') /\ bucket[k].at <= bucket'[k].at
  <2>1. k \in DOMAIN bucket /\ bucket[k].there /\ bucket[k].verified
    BY DEF GoodIn
  <2>2. bucket'[k].there /\ bucket'[k].verified /\ k \in DOMAIN bucket'
    BY <1>2, <1>5, <1>6, <2>1
  <2>3. bucket[k].at <= bucket'[k].at
    BY <1>9, <2>1 DEF ObjectAges
  <2> QED
    BY <2>2, <2>3 DEF GoodIn
<1>11. BucketSteps
  BY <1>6, <1>9, <1>10 DEF BucketSteps
<1>12. ASSUME NEW k \in DOMAIN bucket PROVE ObjectOK(k)'
  <2>1. bucket'[k].at <= hour /\ (bucket'[k].verified => bucket'[k].intact)
        /\ (bucket[k].there => bucket'[k].there)
    <3>1. CASE k = d
      <4>1. bucket'[k] = o /\ o.at <= hour /\ o.intact /\ o.there
        BY <1>1, <1>2, <1>5, <1>6, <3>1
      <4> QED
        BY <4>1
    <3>2. CASE k # d
      BY <1>6, <1>7, <3>2
    <3> QED
      BY <3>1, <3>2
  <2> QED
    BY <1>11, <2>1, ObjectStays
<1>13. d \in Good' /\ bucket'[d].verified /\ bucket'[d].at = hour
  BY <1>2, <1>5, <1>6 DEF Good, Stored
<1> QED
  BY <1>6, <1>11, <1>12, <1>13 DEF d

LEMMA DeleteSteps ==
  ASSUME BackupIInv, NEW w \in Archivers, NEW d \in Expired(w), Deleted(d), hour' = hour
  PROVE  BucketSteps /\ \A k \in DOMAIN bucket' : ObjectOK(k)'
<1> DEFINE o == [bucket[d] EXCEPT !.there = FALSE]
           n == upload[w].key
<1>1. RunOK(w) /\ hour \in Nat /\ bucket \in Seq(Object)
  BY DEF BackupIInv
<1>2. upload[w].at = "prune" /\ d \in Stored
      /\ \E x \in upload[w].seen : d = x[1] /\ x[2] < upload[w].began - Retention
  BY DEF Expired
<1>3. bucket[d].at < upload[w].began - Retention /\ d \in DOMAIN bucket
  BY <1>1, <1>2 DEF RunOK
<1>4. n \in DOMAIN bucket /\ bucket[n].there /\ bucket[n].verified /\ upload[w].began \in Nat
      /\ bucket[n].at >= upload[w].began /\ upload[w].began <= hour
  BY <1>1, <1>2, RunTypes DEF RunOK, Stored
<1>5. bucket[d] \in Object /\ bucket[d].at \in Nat /\ bucket[n].at \in Nat
  BY <1>3, <1>4, ObjectTypes
<1>6. bucket' = [bucket EXCEPT ![d] = o]
  BY <1>1, <1>3, <1>5 DEF Deleted
<1>7. o \in Object /\ ~ o.there /\ o.intact = bucket[d].intact
      /\ o.at = bucket[d].at /\ o.verified = bucket[d].verified
  BY <1>5 DEF Object
<1> HIDE DEF o, n
<1>8. bucket' \in Seq(Object) /\ DOMAIN bucket' = DOMAIN bucket
      /\ \A k \in DOMAIN bucket : bucket'[k] = IF k = d THEN o ELSE bucket[k]
  BY <1>1, <1>3, <1>6, <1>7
<1>9. \A k \in DOMAIN bucket : bucket[k].at \in Nat /\ bucket[k].at <= hour
      /\ (bucket[k].verified => bucket[k].intact)
  BY ObjectTypes DEF BackupIInv, ObjectOK
<1>10. bucket[d].at + Retention < bucket[n].at /\ ~ (hour <= bucket[d].at + BackupDay)
  BY <1>1, <1>3, <1>4, <1>5, Limits
<1>11. n # d
  BY <1>5, <1>10, Limits
<1>12. ObjectAges
  <2> SUFFICES ASSUME NEW k \in DOMAIN bucket
               PROVE  /\ bucket'[k].intact = bucket[k].intact
                      /\ bucket[k].verified => bucket'[k].verified
                      /\ bucket[k].at <= bucket'[k].at
                      /\ bucket[k].at + BackupDay < hour => bucket'[k].at = bucket[k].at
                      /\ bucket[k].there /\ hour <= bucket[k].at + BackupDay => bucket'[k].there
    BY <1>8 DEF ObjectAges
  <2>1. CASE k = d
    BY <1>3, <1>5, <1>7, <1>8, <1>10, <2>1
  <2>2. CASE k # d
    <3>1. bucket'[k] = bucket[k] /\ bucket[k].at \in Nat
      BY <1>8, <1>9, <2>2
    <3> QED
      BY <3>1
  <2> QED
    BY <2>1, <2>2
<1>13. n \in GoodIn(bucket') /\ bucket'[n].at = bucket[n].at
  BY <1>4, <1>8, <1>11 DEF GoodIn
<1>14. ASSUME NEW k \in GoodIn(bucket)
       PROVE  \E l \in GoodIn(bucket') : bucket[k].at <= bucket'[l].at
  <2>1. CASE k = d
    BY <1>5, <1>10, <1>13, <2>1, Limits
  <2>2. CASE k # d
    BY <1>8, <1>9, <2>2 DEF GoodIn
  <2> QED
    BY <2>1, <2>2
<1>15. BucketSteps
  BY <1>8, <1>12, <1>14 DEF BucketSteps
<1>16. ASSUME NEW k \in DOMAIN bucket PROVE ObjectOK(k)'
  <2>1. bucket'[k].at <= hour /\ (bucket'[k].verified => bucket'[k].intact)
    BY <1>7, <1>8, <1>9, <1>3
  <2>2. k # d /\ bucket[k].there => bucket'[k].there
    BY <1>8
  <2>3. bucket'[d].at + Retention < bucket'[n].at
    BY <1>3, <1>7, <1>8, <1>10, <1>13
  <2>4. k = d => \E l \in GoodIn(bucket') : bucket'[l].at > bucket'[k].at + Retention
    BY <1>5, <1>3, <1>7, <1>8, <1>13, <2>3, Limits
  <2> QED
    BY <1>15, <2>1, <2>2, <2>4, ObjectStays
<1> QED
  BY <1>8, <1>15, <1>16

\* A step of a run.
LEMMA RunSteps ==
  ASSUME BackupIInv, BucketSteps, \A k \in DOMAIN bucket' : ObjectOK(k)', hour' = hour,
         slips' \in Nat, slips <= slips', slips' <= MaxSlips,
         NEW w \in Archivers, NEW u \in Run, upload' = [upload EXCEPT ![w] = u], RunOK(w)',
         due' \in Nat, due' = due \/ Covers(bucket', slips', due'),
         w = "bot" /\ u.at = "check" /\ ~ bucket'[u.key].intact =>
           Covers(bucket', slips', hour + 1)
  PROVE  BackupIInv'
<1>1. /\ hour \in Nat /\ slips \in Nat /\ due \in Nat /\ bucket \in Seq(Object)
      /\ upload \in [Archivers -> Run] /\ hour <= BackupHorizon
  BY DEF BackupIInv
<1>2. upload' \in [Archivers -> Run]
      /\ \A v \in Archivers : upload'[v] = IF v = w THEN u ELSE upload[v]
  BY <1>1
<1>3. bucket' \in Seq(Object) /\ ObjectAges
      /\ \A k \in GoodIn(bucket) : \E l \in GoodIn(bucket') : bucket[k].at <= bucket'[l].at
  BY DEF BucketSteps
<1>4. \A h \in Int : Covers(bucket, slips, h) => Covers(bucket', slips', h)
  BY <1>1, <1>3, CoversStays
<1>5. Covers(bucket, slips, hour) /\ Covers(bucket, slips, due)
  BY DEF BackupIInv, Covered
<1>6. Covered(hour)' /\ Covered(due)'
  BY <1>1, <1>4, <1>5 DEF Covered
<1>7. ASSUME NEW v \in Archivers PROVE RunOK(v)'
  <2>1. CASE v = w
    BY <2>1
  <2>2. CASE v # w
    BY <1>2, <1>3, <2>2, RunStays
  <2> QED
    BY <2>1, <2>2
<1>8. ASSUME upload'["bot"].at = "check", ~ bucket'[upload'["bot"].key].intact
      PROVE  Covers(bucket', slips', hour + 1)
  <2>1. CASE w = "bot"
    BY <1>2, <1>8, <2>1
  <2>2. CASE w # "bot"
    <3>1. upload'["bot"] = upload["bot"] /\ RunOK("bot")
      BY <1>2, <2>2 DEF Archivers, BackupIInv
    <3>2. upload["bot"].at = "check" /\ upload["bot"].key \in DOMAIN bucket
      BY <1>8, <3>1 DEF RunOK, Stored
    <3>3. bucket'[upload["bot"].key].intact = bucket[upload["bot"].key].intact
      BY <1>3, <3>2 DEF ObjectAges
    <3>4. ~ bucket[upload["bot"].key].intact
      BY <1>8, <3>1, <3>3
    <3>5. Covers(bucket, slips, hour + 1)
      BY <3>2, <3>4 DEF BackupIInv, Covered
    <3> QED
      BY <1>1, <1>4, <3>5
  <2> QED
    BY <2>1, <2>2
<1>9. upload'["bot"].at = "check" /\ ~ bucket'[upload'["bot"].key].intact => Covered(hour + 1)'
  BY <1>8 DEF Covered
<1> QED
  BY <1>1, <1>2, <1>3, <1>6, <1>7, <1>9 DEF BackupIInv

LEMMA NoUploadOK ==
  ASSUME NEW w \in Archivers, upload \in [Archivers -> Run], upload' = [upload EXCEPT ![w] = NoUpload]
  PROVE  NoUpload \in Run /\ RunOK(w)' /\ NoUpload.at = "idle"
<1>1. NoUpload \in Run /\ NoUpload.at = "idle" /\ NoUpload.key = 0 /\ NoUpload.seen = {}
  BY DEF NoUpload, Run, Stages
<1>2. upload'[w] = NoUpload
  OBVIOUS
<1> QED
  BY <1>1, <1>2 DEF RunOK

LEMMA BackupBegins ==
  ASSUME BackupInit
  PROVE  BackupIInv
<1>1. NoUpload \in Run /\ NoUpload.at = "idle" /\ NoUpload.key = 0 /\ NoUpload.seen = {}
  BY DEF NoUpload, Run, Stages
<1>2. \A w \in Archivers : upload[w] = NoUpload
  BY DEF BackupInit
<1>3. \A w \in Archivers : RunOK(w)
  BY <1>1, <1>2 DEF RunOK
<1>4. Covered(hour) /\ Covered(due)
  BY Limits DEF BackupInit, Covered, Covers
<1>5. bucket \in Seq(Object) /\ DOMAIN bucket = {}
  BY DEF BackupInit
<1>6. upload \in [Archivers -> Run] /\ upload["bot"].at # "check"
  BY <1>1, <1>2 DEF BackupInit, Archivers
<1> QED
  BY <1>3, <1>4, <1>5, <1>6, Limits DEF BackupInit, BackupIInv

LEMMA BeginUploadKeeps ==
  ASSUME BackupIInv, NEW w \in Archivers, BeginUpload(w)
  PROVE  BackupIInv'
<1> DEFINE seen == {<<k, bucket[k].at>> : k \in Stored}
           u == [at |-> "put", began |-> hour, key |-> 0, seen |-> seen]
<1>1. /\ hour \in Nat /\ slips \in Nat /\ slips <= MaxSlips /\ due \in Nat
      /\ bucket \in Seq(Object) /\ upload \in [Archivers -> Run]
  BY DEF BackupIInv
<1>2. UNCHANGED <<hour, bucket, slips>>
      /\ slips' \in Nat /\ slips <= slips' /\ slips' <= MaxSlips
  BY <1>1 DEF BeginUpload
<1>3. BucketSteps /\ \A k \in DOMAIN bucket' : ObjectOK(k)'
  BY <1>2, BucketRests
<1>4. ASSUME NEW k \in Newest(Stored), Suppresses(k), due' = bucket[k].at + BackupDay,
             UNCHANGED upload
      PROVE  BackupIInv'
  <2>1. k \in GoodIn(bucket) /\ k \in DOMAIN bucket /\ bucket[k].at \in Nat
    BY <1>4, ObjectTypes DEF Newest, Stored, Suppresses, GoodIn
  <2>2. due' \in Nat /\ due' <= bucket[k].at + BackupDay + slips
    BY <1>1, <1>4, <2>1, Limits
  <2>3. Covers(bucket', slips', due')
    BY <1>2, <2>1, <2>2 DEF Covers
  <2>4. upload' = [upload EXCEPT ![w] = upload[w]] /\ upload[w] \in Run
    BY <1>1, <1>4
  <2>5. RunOK(w)'
    BY <1>1, <1>2, <1>3, <1>4, RunStays DEF BucketSteps
  <2>6. w = "bot" /\ upload[w].at = "check" /\ ~ bucket'[upload[w].key].intact =>
          Covers(bucket', slips', hour + 1)
    BY <1>2 DEF BackupIInv, Covered
  <2> QED
    BY <1>2, <1>3, <2>2, <2>3, <2>4, <2>5, <2>6, RunSteps
<1>5. ASSUME upload' = [upload EXCEPT ![w] = u], UNCHANGED due
      PROVE  BackupIInv'
  <2>1. seen \subseteq Nat \X Nat
    <3>1. \A k \in Stored : k \in Nat /\ bucket[k].at \in Nat
      BY <1>1, ObjectTypes DEF Stored
    <3> QED
      BY <3>1
  <2>2. u \in Run /\ u.at = "put"
    BY <1>1, <2>1 DEF Run, Stages
  <2>3. upload'[w] = u
    BY <1>1, <1>5
  <2>4. ASSUME NEW x \in seen PROVE x[1] \in DOMAIN bucket' /\ bucket'[x[1]].at = x[2]
    BY <1>2 DEF Stored
  <2>5. RunOK(w)'
    <3> HIDE DEF seen
    <3> QED
      BY <1>1, <1>2, <2>3, <2>4, Limits DEF RunOK
  <2>6. due' \in Nat /\ due' = due /\ u.at # "check"
    BY <1>1, <1>5, <2>2
  <2> HIDE DEF u
  <2> QED
    BY <1>1, <1>2, <1>3, <1>5, <2>2, <2>5, <2>6, RunSteps
<1> QED
  BY <1>4, <1>5 DEF BeginUpload

LEMMA SendUploadKeeps ==
  ASSUME BackupIInv, NEW w \in Archivers, SendUpload(w)
  PROVE  BackupIInv'
<1>1. /\ hour \in Nat /\ slips \in Nat /\ slips <= MaxSlips /\ due \in Nat
      /\ bucket \in Seq(Object) /\ upload \in [Archivers -> Run]
  BY DEF BackupIInv
<1>2. RunOK(w) /\ upload[w].at = "put" /\ UNCHANGED <<hour, due>> /\ upload[w] \in Run
  BY <1>1 DEF BackupIInv, SendUpload
<1>3. PICK intact \in BOOLEAN :
        /\ IF intact THEN UNCHANGED slips ELSE Slip
        /\ bucket' = Append(bucket, [at |-> hour, intact |-> intact, verified |-> FALSE,
                                     there |-> TRUE])
  BY DEF SendUpload
<1> DEFINE o == [at |-> hour, intact |-> intact, verified |-> FALSE, there |-> TRUE]
           u == [upload[w] EXCEPT !.at = "check", !.key = Len(bucket')]
<1>4. o \in Object /\ o.at = hour /\ o.there /\ ~ o.verified /\ o.intact = intact
  BY <1>1 DEF Object
<1>5. bucket' = Append(bucket, o)
  BY <1>3
<1> HIDE DEF o
<1>6. /\ BucketSteps /\ \A k \in DOMAIN bucket' : ObjectOK(k)'
      /\ Len(bucket') \in Stored' /\ bucket'[Len(bucket')] = o
  BY <1>2, <1>4, <1>5, AppendSteps
<1>7. slips' \in Nat /\ slips <= slips' /\ slips' <= MaxSlips
  BY <1>1, <1>3, Limits DEF Slip
<1>8. upload' = [upload EXCEPT ![w] = u]
  BY <1>1 DEF SendUpload
<1>9. Len(bucket') \in Nat
  BY <1>6 DEF BucketSteps
<1>10. /\ u \in Run /\ u.at = "check" /\ u.key = Len(bucket') /\ u.began = upload[w].began
       /\ u.seen = upload[w].seen
  BY <1>2, <1>9 DEF Run, Stages
<1> HIDE DEF u
<1>11. upload'[w] = u
  BY <1>1, <1>8
<1>12. RunOK(w)'
  <2>1. u.began \in Nat /\ u.began <= hour /\ hour <= u.began + BackupDay
        /\ (w = "bot" => u.began = hour)
    BY <1>2, <1>10, RunTypes DEF RunOK
  <2>2. \A x \in u.seen : x[2] < u.began - Retention =>
          x[1] \in DOMAIN bucket' /\ bucket'[x[1]].at = x[2]
    BY <1>6, <1>10, RunReliesOn DEF BucketSteps
  <2>3. bucket'[u.key].at >= u.began
    BY <1>1, <1>4, <1>6, <1>10, <2>1
  <2> QED
    BY <1>2, <1>6, <1>10, <1>11, <2>1, <2>2, <2>3 DEF RunOK
<1>13. ASSUME ~ intact PROVE Covers(bucket', slips', hour + 1)
  <2>1. slips' = slips + 1
    BY <1>3, <1>13 DEF Slip
  <2>2. Covers(bucket, slips, hour)
    BY DEF BackupIInv, Covered
  <2>3. Covers(bucket', slips, hour)
    BY <1>1, <1>6, <2>2, CoversStays DEF BucketSteps
  <2>4. \A k \in GoodIn(bucket') : bucket'[k].at \in Nat
    <3> SUFFICES ASSUME NEW k \in GoodIn(bucket') PROVE bucket'[k].at \in Nat
      OBVIOUS
    <3>1. bucket'[k] \in Object
      BY <1>6 DEF GoodIn, BucketSteps
    <3> QED
      BY <3>1 DEF Object
  <2> QED
    BY <1>1, <2>1, <2>3, <2>4, Limits DEF Covers
<1>14. ~ bucket'[u.key].intact => Covers(bucket', slips', hour + 1)
  BY <1>4, <1>6, <1>10, <1>13
<1> QED
  BY <1>1, <1>2, <1>6, <1>7, <1>8, <1>10, <1>12, <1>14, RunSteps

LEMMA CheckUploadKeeps ==
  ASSUME BackupIInv, NEW w \in Archivers, CheckUpload(w)
  PROVE  BackupIInv'
<1> DEFINE u == [upload[w] EXCEPT !.at = "mark"]
<1>1. /\ hour \in Nat /\ slips \in Nat /\ slips <= MaxSlips /\ due \in Nat
      /\ bucket \in Seq(Object) /\ upload \in [Archivers -> Run]
  BY DEF BackupIInv
<1>2. UNCHANGED <<hour, bucket, slips, due>> /\ upload[w].at = "check" /\ bucket[upload[w].key].intact
      /\ slips' \in Nat /\ slips <= slips' /\ slips' <= MaxSlips /\ upload[w] \in Run /\ RunOK(w)
  BY <1>1 DEF CheckUpload, Matches, BackupIInv
<1>3. BucketSteps /\ \A k \in DOMAIN bucket' : ObjectOK(k)'
  BY <1>2, BucketRests
<1>4. u \in Run /\ u.at = "mark" /\ u.key = upload[w].key /\ u.began = upload[w].began
      /\ u.seen = upload[w].seen
  BY <1>2 DEF Run, Stages
<1>5. upload' = [upload EXCEPT ![w] = u]
  BY <1>1 DEF CheckUpload, Now
<1> HIDE DEF u
<1>6. upload'[w] = u
  BY <1>1, <1>5
<1>7. RunOK(w)'
  BY <1>2, <1>4, <1>6 DEF RunOK, Stored
<1> QED
  BY <1>1, <1>2, <1>3, <1>4, <1>5, <1>7, RunSteps

LEMMA MarkVerifiedKeeps ==
  ASSUME BackupIInv, NEW w \in Archivers, MarkVerified(w)
  PROVE  BackupIInv'
<1> DEFINE u == [upload[w] EXCEPT !.at = "prune"]
<1>1. /\ hour \in Nat /\ slips \in Nat /\ slips <= MaxSlips /\ due \in Nat
      /\ bucket \in Seq(Object) /\ upload \in [Archivers -> Run]
  BY DEF BackupIInv
<1>2. UNCHANGED <<hour, slips, due>> /\ upload[w].at = "mark" /\ Marked(w)
      /\ slips' \in Nat /\ slips <= slips' /\ slips' <= MaxSlips /\ upload[w] \in Run /\ RunOK(w)
  BY <1>1 DEF MarkVerified, BackupIInv
<1>3. /\ BucketSteps /\ \A k \in DOMAIN bucket' : ObjectOK(k)'
      /\ bucket'[upload[w].key].verified
  BY <1>2, MarkSteps
<1>4. u \in Run /\ u.at = "prune" /\ u.key = upload[w].key /\ u.began = upload[w].began
      /\ u.seen = upload[w].seen
  BY <1>2 DEF Run, Stages
<1>5. upload' = [upload EXCEPT ![w] = u]
  BY <1>1 DEF MarkVerified, Now
<1> HIDE DEF u
<1>6. upload'[w] = u
  BY <1>1, <1>5
<1>7. RunOK(w)'
  <2>1. /\ u.key \in Stored' /\ bucket'[u.key].at >= u.began
        /\ \A x \in u.seen : x[2] < u.began - Retention =>
             x[1] \in DOMAIN bucket' /\ bucket'[x[1]].at = x[2]
    BY <1>2, <1>3, <1>4, RunReliesOn DEF BucketSteps
  <2> QED
    BY <1>2, <1>3, <1>4, <1>6, <2>1 DEF RunOK
<1> QED
  BY <1>1, <1>2, <1>3, <1>4, <1>5, <1>7, RunSteps

LEMMA PruneOldKeeps ==
  ASSUME BackupIInv, NEW w \in Archivers, NEW k \in Stored, PruneOld(w, k)
  PROVE  BackupIInv'
<1>1. /\ hour \in Nat /\ slips \in Nat /\ slips <= MaxSlips /\ due \in Nat
      /\ bucket \in Seq(Object) /\ upload \in [Archivers -> Run]
  BY DEF BackupIInv
<1>2. UNCHANGED <<hour, upload, slips, due>> /\ k \in Expired(w) /\ Deleted(k)
      /\ slips' \in Nat /\ slips <= slips' /\ slips' <= MaxSlips /\ upload[w] \in Run
  BY <1>1 DEF PruneOld
<1>3. BucketSteps /\ \A j \in DOMAIN bucket' : ObjectOK(j)'
  BY <1>2, DeleteSteps
<1>4. upload[w].at # "check"
  BY <1>2 DEF Expired
<1>5. upload' = [upload EXCEPT ![w] = upload[w]]
  BY <1>1, <1>2
<1>6. RunOK(w)'
  BY <1>2, <1>3, RunStays DEF BucketSteps
<1> QED
  BY <1>1, <1>2, <1>3, <1>4, <1>5, <1>6, RunSteps

LEMMA FinishUploadKeeps ==
  ASSUME BackupIInv, NEW w \in Archivers, FinishUpload(w)
  PROVE  BackupIInv'
<1>1. /\ hour \in Nat /\ slips \in Nat /\ slips <= MaxSlips /\ due \in Nat
      /\ bucket \in Seq(Object) /\ upload \in [Archivers -> Run]
  BY DEF BackupIInv
<1>2. UNCHANGED <<hour, bucket, slips>> /\ upload[w].at = "prune" /\ RunOK(w)
      /\ upload' = [upload EXCEPT ![w] = NoUpload]
      /\ slips' \in Nat /\ slips <= slips' /\ slips' <= MaxSlips
  BY <1>1 DEF FinishUpload, BackupIInv
<1>3. BucketSteps /\ \A k \in DOMAIN bucket' : ObjectOK(k)'
  BY <1>2, BucketRests
<1>4. NoUpload \in Run /\ RunOK(w)' /\ NoUpload.at # "check"
  BY <1>1, <1>2, NoUploadOK
<1>5. due' \in Nat /\ (due' = due \/ Covers(bucket', slips', due'))
  <2>1. CASE w = "bot"
    <3> DEFINE d == upload[w].key
    <3>1. d \in GoodIn(bucket) /\ bucket[d].at >= hour
      BY <1>2, <2>1 DEF RunOK, Stored, GoodIn
    <3>2. bucket[d].at \in Nat
      BY <3>1, ObjectTypes DEF GoodIn
    <3>3. due' = hour + BackupDay
      BY <2>1 DEF FinishUpload
    <3>4. due' \in Nat /\ due' <= bucket[d].at + BackupDay + slips'
      BY <1>1, <1>2, <3>1, <3>2, <3>3, Limits
    <3> QED
      BY <1>2, <3>1, <3>4 DEF Covers
  <2>2. CASE w # "bot"
    BY <1>1, <2>2 DEF FinishUpload
  <2> QED
    BY <2>1, <2>2
<1> QED
  BY <1>1, <1>2, <1>3, <1>4, <1>5, RunSteps

LEMMA UploadFailsKeeps ==
  ASSUME BackupIInv, NEW w \in Archivers, UploadFails(w)
  PROVE  BackupIInv'
<1>1. /\ hour \in Nat /\ slips \in Nat /\ slips <= MaxSlips /\ due \in Nat
      /\ bucket \in Seq(Object) /\ upload \in [Archivers -> Run]
  BY DEF BackupIInv
<1>2. UNCHANGED <<hour>> /\ upload[w].at # "idle" /\ RunOK(w)
      /\ upload' = [upload EXCEPT ![w] = NoUpload]
  BY <1>1 DEF UploadFails, BackupIInv
<1>3. BucketSteps /\ \A k \in DOMAIN bucket' : ObjectOK(k)'
  <2>1. CASE UNCHANGED bucket
    BY <1>2, <2>1, BucketRests
  <2>2. CASE bucket' = Append(bucket, [at |-> hour, intact |-> TRUE,
                                       verified |-> FALSE, there |-> TRUE])
    <3> DEFINE o == [at |-> hour, intact |-> TRUE, verified |-> FALSE, there |-> TRUE]
    <3>1. o \in Object /\ o.at = hour /\ o.there /\ ~ o.verified
      BY <1>1 DEF Object
    <3>2. bucket' = Append(bucket, o)
      BY <2>2
    <3> HIDE DEF o
    <3> QED
      BY <1>2, <3>1, <3>2, AppendSteps
  <2>3. CASE upload[w].at = "mark" /\ Marked(w)
    BY <1>2, <2>3, MarkSteps
  <2>4. ASSUME NEW k \in Expired(w), Deleted(k)
        PROVE  BucketSteps /\ \A j \in DOMAIN bucket' : ObjectOK(j)'
    BY <1>2, <2>4, DeleteSteps
  <2> QED
    BY <2>1, <2>2, <2>3, <2>4 DEF UploadFails
<1>4. NoUpload \in Run /\ RunOK(w)' /\ NoUpload.at # "check"
  BY <1>1, <1>2, NoUploadOK
<1>5. slips' \in Nat /\ slips <= slips' /\ slips' <= MaxSlips
  BY <1>1, Limits DEF UploadFails, Slip
<1>6. due' \in Nat /\ (due' = due \/ Covers(bucket', slips', due'))
  <2>1. CASE w # "bot"
    BY <1>1, <2>1 DEF UploadFails
  <2>2. CASE w = "bot"
    <3>1. due' = hour + 1
      BY <2>2 DEF UploadFails
    <3>2. Covers(bucket, slips', hour + 1)
      <4>1. CASE upload[w].at = "check" /\ ~ Matches(upload[w].key)
        <5>1. ~ bucket[upload[w].key].intact /\ slips' = slips
          BY <1>2, <4>1 DEF UploadFails, Matches, RunOK
        <5> QED
          BY <2>2, <4>1, <5>1 DEF BackupIInv, Covered
      <4>2. CASE ~ (upload[w].at = "check" /\ ~ Matches(upload[w].key))
        <5>1. slips' = slips + 1
          BY <4>2 DEF UploadFails, Slip
        <5>2. Covers(bucket, slips, hour)
          BY DEF BackupIInv, Covered
        <5>3. \A k \in GoodIn(bucket) : bucket[k].at \in Nat
          BY ObjectTypes DEF GoodIn
        <5>4. CASE hour <= BackupDay + slips
          BY <1>1, <5>1, <5>4, Limits DEF Covers
        <5>5. ASSUME NEW k \in GoodIn(bucket), hour <= bucket[k].at + BackupDay + slips
              PROVE  Covers(bucket, slips', hour + 1)
          <6>1. bucket[k].at \in Nat
            BY <5>3
          <6>2. hour + 1 <= bucket[k].at + BackupDay + slips'
            BY <1>1, <5>1, <5>5, <6>1, Limits
          <6> QED
            BY <6>2 DEF Covers
        <5> QED
          BY <5>2, <5>4, <5>5 DEF Covers
      <4> QED
        BY <4>1, <4>2
    <3>3. Covers(bucket', slips', hour + 1)
      BY <1>1, <1>3, <1>5, <3>2, CoversStays DEF BucketSteps
    <3> QED
      BY <1>1, <3>1, <3>3
  <2> QED
    BY <2>1, <2>2
<1> QED
  BY <1>1, <1>2, <1>3, <1>4, <1>5, <1>6, RunSteps

LEMMA BotAgainKeeps ==
  ASSUME BackupIInv, BotAgain
  PROVE  BackupIInv'
<1>1. /\ hour \in Nat /\ slips \in Nat /\ slips <= MaxSlips /\ due \in Nat
      /\ bucket \in Seq(Object) /\ upload \in [Archivers -> Run] /\ "bot" \in Archivers
  BY DEF BackupIInv, Archivers
<1>2. UNCHANGED <<hour, bucket>> /\ upload' = [upload EXCEPT !["bot"] = NoUpload]
      /\ slips' \in Nat /\ slips <= slips' /\ slips' <= MaxSlips /\ due' = hour
  BY <1>1, Limits DEF BotAgain, Slip
<1>3. BucketSteps /\ \A k \in DOMAIN bucket' : ObjectOK(k)'
  BY <1>2, BucketRests
<1>4. NoUpload \in Run /\ RunOK("bot")' /\ NoUpload.at # "check"
  BY <1>1, <1>2, NoUploadOK
<1>5. Covers(bucket', slips', due')
  <2>1. Covers(bucket, slips, hour)
    BY DEF BackupIInv, Covered
  <2>2. Covers(bucket', slips', hour)
    BY <1>1, <1>2, <1>3, <2>1, CoversStays DEF BucketSteps
  <2> QED
    BY <1>2, <2>2
<1> QED
  BY <1>1, <1>2, <1>3, <1>4, <1>5, RunSteps

LEMMA HourPassesKeeps ==
  ASSUME BackupIInv, HourPasses
  PROVE  BackupIInv'
<1>1. /\ hour \in Nat /\ slips \in Nat /\ slips <= MaxSlips /\ due \in Nat /\ hour < BackupHorizon
      /\ bucket \in Seq(Object) /\ upload \in [Archivers -> Run] /\ hour' = hour + 1
      /\ due > hour
  BY DEF BackupIInv, HourPasses
<1>2. UNCHANGED <<bucket, upload, due, slips>>
  BY DEF HourPasses
<1>3. \A k \in DOMAIN bucket : bucket[k].at \in Nat
  BY ObjectTypes
<1>4. \A k \in DOMAIN bucket' : ObjectOK(k)'
  BY <1>1, <1>2, <1>3 DEF BackupIInv, ObjectOK, Good, Stored
<1>5. Covers(bucket, slips, hour + 1)
  <2>1. Covers(bucket, slips, due)
    BY DEF BackupIInv, Covered
  <2>2. \A k \in GoodIn(bucket) : bucket[k].at \in Nat
    BY <1>3 DEF GoodIn
  <2> QED
    BY <1>1, <2>1, <2>2, Limits DEF Covers
<1>6. Covered(hour)' /\ Covered(due)'
  BY <1>1, <1>2, <1>5 DEF BackupIInv, Covered
<1>7. ASSUME NEW w \in Archivers PROVE RunOK(w)'
  <2>1. RunOK(w) /\ upload'[w] = upload[w]
    BY <1>2 DEF BackupIInv
  <2>2. CASE upload[w].at = "idle"
    <3>1. upload[w].key = 0 /\ upload[w].seen = {}
      BY <2>1, <2>2 DEF RunOK
    <3> QED
      BY <2>1, <2>2, <3>1 DEF RunOK
  <2>3. CASE upload[w].at # "idle"
    <3>1. w = "operator" /\ hour' <= upload[w].began + BackupDay /\ upload[w].began \in Nat
      <4>1. upload[w].began \in Nat
        BY RunTypes
      <4>2. w = "operator" /\ hour' - upload[w].began <= BackupDay
        BY <2>3 DEF HourPasses, Archivers
      <4> QED
        BY <1>1, <4>1, <4>2, Limits
    <3>2. upload[w].began <= hour'
      BY <1>1, <2>1, <2>3, <3>1 DEF RunOK
    <3> QED
      BY <1>2, <2>1, <2>3, <3>1, <3>2 DEF RunOK, Stored
  <2> QED
    BY <2>2, <2>3
<1>8. upload'["bot"].at # "check"
  BY <1>2 DEF HourPasses
<1> QED
  BY <1>1, <1>2, <1>4, <1>6, <1>7, <1>8, Limits DEF BackupIInv

LEMMA BackupRests ==
  ASSUME BackupIInv, UNCHANGED backupVars
  PROVE  BackupIInv'
<1>1. UNCHANGED <<hour, bucket, upload, due, slips>>
  BY DEF backupVars
<1>2. \A k \in DOMAIN bucket' : ObjectOK(k)'
  BY <1>1, BucketRests DEF BackupIInv
<1>3. \A w \in Archivers : RunOK(w)'
  BY <1>1 DEF BackupIInv, RunOK, Stored
<1> QED
  BY <1>1, <1>2, <1>3 DEF BackupIInv, Covered

LEMMA BackupKept ==
  ASSUME BackupIInv, [BackupNext]_backupVars
  PROVE  BackupIInv'
<1>1. CASE UNCHANGED backupVars
  BY <1>1, BackupRests
<1>2. ASSUME NEW w \in Archivers,
             \/ BeginUpload(w) \/ SendUpload(w) \/ CheckUpload(w) \/ MarkVerified(w)
             \/ FinishUpload(w) \/ UploadFails(w)
      PROVE  BackupIInv'
  BY <1>2, BeginUploadKeeps, SendUploadKeeps, CheckUploadKeeps, MarkVerifiedKeeps,
     FinishUploadKeeps, UploadFailsKeeps
<1>3. ASSUME NEW w \in Archivers, NEW k \in Stored, PruneOld(w, k) PROVE BackupIInv'
  BY <1>3, PruneOldKeeps
<1>4. CASE BotAgain
  BY <1>4, BotAgainKeeps
<1>5. CASE HourPasses
  BY <1>5, HourPassesKeeps
<1> QED
  BY <1>1, <1>2, <1>3, <1>4, <1>5 DEF BackupNext

LEMMA BackupSound ==
  ASSUME BackupIInv
  PROVE  BackupInv
<1>1. /\ hour \in Nat /\ slips \in Nat /\ slips <= MaxSlips /\ hour <= BackupHorizon
      /\ bucket \in Seq(Object) /\ upload \in [Archivers -> Run]
  BY DEF BackupIInv
<1>2. BackupTypeOK
  <2>1. ASSUME NEW w \in Archivers PROVE upload[w].key \in {0} \cup DOMAIN bucket
    <3>1. RunOK(w) /\ upload[w].at \in Stages
      BY RunTypes DEF BackupIInv
    <3> QED
      BY <3>1 DEF RunOK, Stored, Stages
  <2>2. hour \in 0 .. BackupHorizon /\ slips \in 0 .. MaxSlips
    BY <1>1, Limits
  <2> QED
    BY <2>1, <2>2 DEF BackupTypeOK
<1>3. VerifiedIsIntact
  BY DEF VerifiedIsIntact, Good, Stored, BackupIInv, ObjectOK
<1>4. NeverWithout
  <2>1. \A k \in DOMAIN bucket :
          ~ bucket[k].there => \E l \in Good : bucket[l].at > bucket[k].at + Retention
    BY DEF BackupIInv, ObjectOK
  <2>2. \A k \in DOMAIN bucket : bucket[k].verified => Good # {}
    BY <2>1 DEF Good, Stored
  <2> QED
    BY <2>1, <2>2 DEF NeverWithout
<1>5. LossIsBounded
  <2> DEFINE newest == IF Good = {} THEN 0 ELSE bucket[CHOOSE k \in Newest(Good) : TRUE].at
  <2>1. Covers(bucket, slips, hour)
    BY DEF BackupIInv, Covered
  <2>2. \A k \in Good : k \in DOMAIN bucket /\ bucket[k].at \in Nat /\ bucket[k].at <= hour
    BY ObjectTypes DEF Good, Stored, BackupIInv, ObjectOK
  <2>3. newest \in Nat /\ \A k \in Good : bucket[k].at <= newest
    <3>1. CASE Good = {}
      BY <3>1
    <3>2. CASE Good # {}
      <4> DEFINE T == {hour - bucket[k].at : k \in Good}
      <4>1. T \subseteq Nat /\ T # {}
        <5>1. \A k \in Good : hour - bucket[k].at \in Nat
          BY <1>1, <2>2
        <5> QED
          BY <3>2, <5>1
      <4>2. PICK n \in T : \A m \in T : n <= m
        BY <4>1, LeastOf
      <4>3. PICK l \in Good : n = hour - bucket[l].at
        BY <4>2
      <4>4. \A k \in Good : hour - bucket[l].at <= hour - bucket[k].at
        BY <4>2, <4>3
      <4>5. \A k \in Good : bucket[k].at <= bucket[l].at
        BY <1>1, <2>2, <4>4
      <4>6. l \in Newest(Good)
        BY <4>5 DEF Newest
      <4> DEFINE c == CHOOSE k \in Newest(Good) : TRUE
      <4>7. c \in Newest(Good)
        BY <4>6
      <4>8. c \in Good /\ \A k \in Good : bucket[k].at <= bucket[c].at
        BY <4>7 DEF Newest
      <4>9. newest = bucket[c].at
        BY <3>2
      <4> HIDE DEF c, newest
      <4> QED
        BY <2>2, <4>8, <4>9
    <3> QED
      BY <3>1, <3>2
  <2>4. GoodIn(bucket) = Good
    BY GoodIs
  <2> HIDE DEF newest
  <2>5. hour <= newest + BackupDay + slips
    <3>1. CASE hour <= BackupDay + slips
      BY <1>1, <2>3, <3>1, Limits
    <3>2. ASSUME NEW k \in Good, hour <= bucket[k].at + BackupDay + slips
          PROVE  hour <= newest + BackupDay + slips
      <4>1. bucket[k].at \in Nat /\ bucket[k].at <= newest
        BY <2>2, <2>3
      <4> QED
        BY <1>1, <2>3, <3>2, <4>1, Limits
    <3> QED
      BY <2>1, <2>4, <3>1, <3>2 DEF Covers
  <2>6. hour - newest <= BackupDay + slips
    BY <1>1, <2>3, <2>5, Limits
  <2> QED
    BY <2>6 DEF LossIsBounded, newest
<1> QED
  BY <1>2, <1>3, <1>4, <1>5 DEF BackupInv

\* For any archivers, objects and failures: what is not in a good backup is at most a day
\* and an hour a failure of writes, and what is deleted for its age is older than a good
\* one by the retention (db/backup_worker.py).
THEOREM BackupIsSafe == BackupSpec => []BackupInv
<1>1. BackupInit => BackupIInv
  BY BackupBegins
<1>2. BackupIInv /\ [BackupNext]_backupVars => BackupIInv'
  BY BackupKept
<1>3. BackupIInv => BackupInv
  BY BackupSound
<1> QED
  BY <1>1, <1>2, <1>3, PTL DEF BackupSpec

------------------------------------------------------------------------------
(* MemoryRepair.                                                           *)

\* A sequence of the rows of t that are there, in their order: the j-th is row g[j].
PickOf(out, g, t, n) ==
  /\ out \in Seq(ToSet(t)) /\ g \in [1 .. Len(out) -> 1 .. n]
  /\ \A j \in 1 .. Len(out) : out[j] = t[g[j]] /\ t[g[j]].there
  /\ \A j, k \in 1 .. Len(out) : g[j] = g[k] => j = k
  /\ \A i \in 1 .. n : t[i].there => \E j \in 1 .. Len(out) : g[j] = i

IsThere(f, t, k) ==
  f = [n \in 0 .. k |-> IF n = 0 THEN <<>> ELSE IF t[n].there THEN Append(f[n - 1], t[n]) ELSE f[n - 1]]

LEMMA FirstThereExists ==
  ASSUME NEW t, NEW k \in Nat
  PROVE  \E f : IsThere(f, t, k)
<1> DEFINE T == {n \in 0 .. k : \E f : IsThere(f, t, n)}
<1>1. 0 \in T
  <2>1. IsThere([m \in 0 .. 0 |-> <<>>], t, 0)
    BY DEF IsThere
  <2> QED
    BY <2>1
<1>2. ASSUME NEW n \in 1 .. k, n - 1 \in T PROVE n \in T
  <2>1. PICK f : IsThere(f, t, n - 1)
    BY <1>2
  <2> DEFINE top == IF t[n].there THEN Append(f[n - 1], t[n]) ELSE f[n - 1]
             h == [m \in 0 .. n |-> IF m = n THEN top ELSE f[m]]
  <2>2. ASSUME NEW m \in 0 .. n
        PROVE  h[m] = IF m = 0 THEN <<>> ELSE IF t[m].there THEN Append(h[m - 1], t[m]) ELSE h[m - 1]
    <3>1. CASE m = n
      <4>1. m # 0 /\ h[m - 1] = f[n - 1] /\ h[m] = top
        BY <3>1
      <4> HIDE DEF h
      <4> QED
        BY <3>1, <4>1
    <3>2. CASE m # n
      <4>1. m \in 0 .. n - 1
        BY <3>2
      <4>2. f[m] = IF m = 0 THEN <<>> ELSE IF t[m].there THEN Append(f[m - 1], t[m]) ELSE f[m - 1]
        BY <2>1, <4>1, Zenon DEF IsThere
      <4>3. m # 0 => h[m - 1] = f[m - 1]
        BY <4>1
      <4>4. h[m] = f[m]
        BY <3>2
      <4> HIDE DEF h
      <4> QED
        BY <4>2, <4>3, <4>4
    <3> QED
      BY <3>1, <3>2
  <2> HIDE DEF h
  <2>3. h = [m \in 0 .. n |-> h[m]]
    BY DEF h
  <2>4. IsThere(h, t, n)
    BY <2>2, <2>3, Zenon DEF IsThere
  <2> QED
    BY <2>4
<1> HIDE DEF T
<1>3. \A n \in 0 .. k : n \in T
  BY <1>1, <1>2, UpTo
<1>4. k \in T
  BY <1>3
<1> QED
  BY <1>4 DEF T

LEMMA FirstThereIs ==
  ASSUME NEW t, Len(t) \in Nat
  PROVE  /\ FirstThere(t)[0] = <<>>
         /\ \A n \in 1 .. Len(t) : FirstThere(t)[n] = IF t[n].there THEN Append(FirstThere(t)[n - 1], t[n])
                                                      ELSE FirstThere(t)[n - 1]
<1>1. PICK f : IsThere(f, t, Len(t))
  BY FirstThereExists
<1>2. IsThere(FirstThere(t), t, Len(t))
  BY <1>1 DEF FirstThere, IsThere
<1> DEFINE h == FirstThere(t)
<1>3. h = [n \in 0 .. Len(t) |-> IF n = 0 THEN <<>> ELSE IF t[n].there THEN Append(h[n - 1], t[n]) ELSE h[n - 1]]
  BY <1>2 DEF IsThere
<1> HIDE DEF h
<1>4. \A n \in 0 .. Len(t) : h[n] = IF n = 0 THEN <<>> ELSE IF t[n].there THEN Append(h[n - 1], t[n]) ELSE h[n - 1]
  BY <1>3, Zenon
<1>5. 0 \in 0 .. Len(t) /\ \A n \in 1 .. Len(t) : n \in 0 .. Len(t) /\ n # 0
  OBVIOUS
<1>6. h[0] = <<>>
  BY <1>4, <1>5
<1>7. ASSUME NEW n \in 1 .. Len(t)
      PROVE  h[n] = IF t[n].there THEN Append(h[n - 1], t[n]) ELSE h[n - 1]
  BY <1>4, <1>5
<1> QED
  BY <1>6, <1>7 DEF h

\* What is there is picked, and nothing else.
LEMMA ThereIs ==
  ASSUME NEW t, t \in Seq(ToSet(t))
  PROVE  \E g : PickOf(There(t), g, t, Len(t))
<1> DEFINE f == FirstThere(t)
           T == {n \in 0 .. Len(t) : \E g : PickOf(f[n], g, t, n)}
<1>1. Len(t) \in Nat /\ DOMAIN t = 1 .. Len(t)
  OBVIOUS
<1>2. /\ f[0] = <<>>
      /\ \A n \in 1 .. Len(t) : f[n] = IF t[n].there THEN Append(f[n - 1], t[n]) ELSE f[n - 1]
  BY <1>1, FirstThereIs
<1> HIDE DEF f
<1>3. 0 \in T
  <2>1. <<>> \in Seq(ToSet(t)) /\ Len(<<>>) = 0
    BY EmptySeq
  <2>2. [j \in {} |-> 0] \in [1 .. 0 -> 1 .. 0]
    OBVIOUS
  <2>3. PickOf(<<>>, [j \in {} |-> 0], t, 0)
    BY <2>1, <2>2 DEF PickOf
  <2> QED
    BY <1>1, <1>2, <2>3
<1>4. ASSUME NEW n \in 1 .. Len(t), n - 1 \in T PROVE n \in T
  <2>1. PICK g : PickOf(f[n - 1], g, t, n - 1)
    BY <1>4
  <2> DEFINE out == f[n - 1]
             k == Len(out)
  <2>2. /\ out \in Seq(ToSet(t)) /\ g \in [1 .. k -> 1 .. (n - 1)] /\ k \in Nat
        /\ \A j \in 1 .. k : out[j] = t[g[j]] /\ t[g[j]].there
        /\ \A j, l \in 1 .. k : g[j] = g[l] => j = l
        /\ \A i \in 1 .. (n - 1) : t[i].there => \E j \in 1 .. k : g[j] = i
    BY <2>1 DEF PickOf
  <2>3. t[n] \in ToSet(t)
    BY <1>1 DEF ToSet
  <2> HIDE DEF out, k
  <2>4. CASE t[n].there
    <3> DEFINE more == Append(out, t[n])
               g2 == [j \in 1 .. k + 1 |-> IF j = k + 1 THEN n ELSE g[j]]
    <3>1. f[n] = more
      BY <1>2, <2>4 DEF out
    <3>2. /\ more \in Seq(ToSet(t)) /\ Len(more) = k + 1
          /\ \A j \in 1 .. k : more[j] = out[j]
          /\ more[k + 1] = t[n]
      BY <2>2, <2>3, AppendProperties DEF k
    <3>3. g2[k + 1] = n /\ \A j \in 1 .. k : g2[j] = g[j] /\ g[j] \in 1 .. (n - 1)
      BY <2>2
    <3>4. g2 \in [1 .. k + 1 -> 1 .. n]
      BY <2>2
    <3>5. \A j \in 1 .. k + 1 : j = k + 1 \/ j \in 1 .. k
      BY <2>2
    <3>6. k + 1 \in 1 .. k + 1 /\ \A j \in 1 .. k : j \in 1 .. k + 1
      BY <2>2
    <3> HIDE DEF more, g2
    <3>7. \A j \in 1 .. k + 1 : more[j] = t[g2[j]] /\ t[g2[j]].there
      BY <2>2, <2>4, <3>2, <3>3, <3>5
    <3>8. \A j, l \in 1 .. k + 1 : g2[j] = g2[l] => j = l
      <4> SUFFICES ASSUME NEW j \in 1 .. k + 1, NEW l \in 1 .. k + 1, g2[j] = g2[l] PROVE j = l
        OBVIOUS
      <4>1. \A i \in 1 .. k : g2[i] # n
        BY <3>3
      <4> QED
        BY <2>2, <3>3, <3>5, <4>1
    <3>9. ASSUME NEW i \in 1 .. n, t[i].there PROVE \E j \in 1 .. k + 1 : g2[j] = i
      <4>1. CASE i = n
        BY <3>3, <3>6, <4>1
      <4>2. CASE i # n
        <5>1. i \in 1 .. (n - 1)
          BY <4>2
        <5>2. PICK j \in 1 .. k : g[j] = i
          BY <2>2, <3>9, <5>1
        <5> QED
          BY <3>3, <3>6, <5>2
      <4> QED
        BY <4>1, <4>2
    <3>10. PickOf(more, g2, t, n)
      BY <3>2, <3>4, <3>7, <3>8, <3>9 DEF PickOf
    <3> QED
      BY <3>1, <3>10
  <2>5. CASE ~ t[n].there
    <3>1. f[n] = out
      BY <1>2, <2>5 DEF out
    <3>2. g \in [1 .. k -> 1 .. n]
      BY <2>2
    <3>3. \A i \in 1 .. n : t[i].there => i \in 1 .. (n - 1)
      BY <2>5
    <3>4. PickOf(out, g, t, n)
      BY <2>2, <3>2, <3>3 DEF PickOf, k
    <3> QED
      BY <3>1, <3>4
  <2> QED
    BY <2>4, <2>5
<1> HIDE DEF T
<1>5. \A n \in 0 .. Len(t) : n \in T
  BY <1>1, <1>3, <1>4, UpTo
<1>6. Len(t) \in T
  BY <1>1, <1>5
<1> QED
  BY <1>6 DEF T, f, There

\* Where all rows are there they all stay.
LEMMA AllThere ==
  ASSUME NEW t, t \in Seq(ToSet(t)), \A i \in DOMAIN t : t[i].there
  PROVE  There(t) = t
<1> DEFINE f == FirstThere(t)
           T == {n \in 0 .. Len(t) : f[n] \in Seq(ToSet(t)) /\ Len(f[n]) = n /\ \A j \in 1 .. n : f[n][j] = t[j]}
<1>1. Len(t) \in Nat /\ DOMAIN t = 1 .. Len(t)
  OBVIOUS
<1>2. f[0] = <<>> /\ \A n \in 1 .. Len(t) : f[n] = Append(f[n - 1], t[n])
  BY <1>1, FirstThereIs
<1> HIDE DEF f
<1>3. 0 \in T
  <2>1. f[0] \in Seq(ToSet(t)) /\ Len(f[0]) = 0
    BY <1>2, EmptySeq
  <2>2. \A j \in 1 .. 0 : f[0][j] = t[j]
    OBVIOUS
  <2> QED
    BY <1>1, <2>1, <2>2
<1>4. ASSUME NEW n \in 1 .. Len(t), n - 1 \in T PROVE n \in T
  <2>1. f[n - 1] \in Seq(ToSet(t)) /\ Len(f[n - 1]) = n - 1 /\ \A j \in 1 .. (n - 1) : f[n - 1][j] = t[j]
    BY <1>4
  <2>2. t[n] \in ToSet(t) /\ f[n] = Append(f[n - 1], t[n])
    BY <1>1, <1>2 DEF ToSet
  <2>3. /\ f[n] \in Seq(ToSet(t)) /\ Len(f[n]) = n /\ f[n][n] = t[n]
        /\ \A j \in 1 .. (n - 1) : f[n][j] = f[n - 1][j]
    BY <2>1, <2>2, AppendProperties
  <2>4. ASSUME NEW j \in 1 .. n PROVE f[n][j] = t[j]
    <3>1. CASE j = n
      BY <3>1, <2>2, <2>3
    <3>2. CASE j # n
      <4>1. j \in 1 .. (n - 1)
        BY <1>1, <3>2
      <4> QED
        BY <4>1, <2>1, <2>3
    <3> QED
      BY <3>1, <3>2
  <2> QED
    BY <2>3, <2>4
<1>5. \A n \in 0 .. Len(t) : n \in T
  BY <1>1, <1>3, <1>4, UpTo
<1>6. Len(t) \in T
  BY <1>1, <1>5
<1> HIDE DEF T
<1>7. f[Len(t)] \in Seq(ToSet(t)) /\ Len(f[Len(t)]) = Len(t) /\ \A j \in 1 .. Len(t) : f[Len(t)][j] = t[j]
  BY <1>6 DEF T
<1>8. f[Len(t)] = t
  BY <1>7, SeqEqual
<1> QED
  BY <1>8 DEF f, There

LEMMA NumberedRows ==
  ASSUME NEW k \in Nat, NEW f, f = [j \in 1 .. k |-> f[j]]
  PROVE  f \in Seq(ToSet(f)) /\ Len(f) = k /\ DOMAIN f = 1 .. k
<1>1. DOMAIN f = 1 .. k
  OBVIOUS
<1>2. \A j \in 1 .. k : f[j] \in ToSet(f)
  BY <1>1 DEF ToSet
<1>3. f \in [1 .. k -> ToSet(f)]
  BY <1>1, <1>2
<1>4. f \in Seq(ToSet(f))
  BY <1>3
<1> QED
  BY <1>1, <1>4

\* A set in sequence.
LEMMA InSequence ==
  ASSUME NEW S, IsFiniteSet(S)
  PROVE  /\ SetToSeq(S) \in Seq(S)
         /\ \A x \in S : \E i \in 1 .. Len(SetToSeq(S)) : SetToSeq(S)[i] = x
         /\ \A i, j \in 1 .. Len(SetToSeq(S)) : SetToSeq(S)[i] = SetToSeq(S)[j] => i = j
<1> DEFINE N == Cardinality(S)
           s == SetToSeq(S)
<1>1. N \in Nat /\ ExistsBijection(1 .. N, S)
  BY FS_CardinalityType
<1>2. PICK b : b \in Bijection(1 .. N, S)
  BY <1>1 DEF ExistsBijection
<1>3. b \in [1 .. N -> S] /\ IsInjective(b)
  BY <1>2 DEF Bijection, Injection
<1>4. s \in [1 .. N -> S] /\ IsInjective(s)
  BY <1>3 DEF SetToSeq
<1> HIDE DEF s
<1>5. s \in Seq(S) /\ Len(s) = N
  BY <1>1, <1>4
<1>6. s \in Injection(1 .. N, S)
  BY <1>4 DEF Injection
<1>7. IsFiniteSet(1 .. N) /\ Cardinality(1 .. N) = Cardinality(S)
  BY <1>1, FS_Interval
<1>8. s \in Surjection(1 .. N, S)
  BY <1>6, <1>7, FS_Injection
<1>9. \A x \in S : \E i \in 1 .. N : s[i] = x
  BY <1>8 DEF Surjection
<1>10. \A i, j \in 1 .. N : s[i] = s[j] => i = j
  BY <1>4 DEF IsInjective
<1> QED
  BY <1>5, <1>9, <1>10 DEF s

------------------------------------------------------------------------------
(* One row, and the symbols of one list.                                   *)

RowFields == {"there", "on", "here", "visibility", "key", "symbol", "says", "secret", "market",
              "scoped", "whole"}

RowLike(r) ==
  /\ DOMAIN r = RowFields /\ r.symbol \in Symbols \cup {NoSymbol}
  /\ r.visibility \in {"private", "guild_shared", "lore", "unknown"}
  /\ IsFiniteSet(r.says) /\ \A m \in r.says : m.symbol \in Symbols

LEMMA RowsAreAlike ==
  ASSUME NEW r
  PROVE  IsRow(r) <=> RowLike(r) /\ r.there
BY DEF IsRow, RowLike, RowFields

LEMMA MendedIs ==
  ASSUME NEW r, RowLike(r)
  PROVE  LET q == Mended(r)
         IN  /\ RowLike(q) /\ q.there = r.there /\ q.symbol = r.symbol /\ q.says = r.says /\ q.secret = r.secret
             /\ Active(q) <=> Active(r)
             /\ IsTicker(q) <=> IsTicker(r)
             /\ Mended(q) = q
<1> DEFINE plain == [r EXCEPT !.visibility = IF @ = "unknown" THEN "private" ELSE @]
           v == IF Shareable(plain) THEN "guild_shared" ELSE plain.visibility
           k == IF r.key # "blank" THEN r.key ELSE IF v = "guild_shared" THEN "list" ELSE "other"
           q == Mended(r)
<1>1. CASE ~ r.on
  <2>1. q = r
    BY <1>1 DEF Mended
  <2> QED
    BY <2>1
<1>2. CASE r.on
  <2>1. q = [r EXCEPT !.visibility = v, !.whole = TRUE, !.key = k]
    BY <1>2 DEF Mended
  <2>2. /\ plain.visibility \in {"private", "guild_shared", "lore"}
        /\ plain.here = r.here /\ plain.market = r.market /\ plain.secret = r.secret
    BY DEF RowLike, RowFields
  <2> HIDE DEF plain
  <2>3. v \in {"private", "guild_shared", "lore"}
    BY <2>2
  <2>4. v = "private" => ~ (r.here /\ r.market /\ r.secret = "no")
    BY <2>2 DEF Shareable
  <2>5. k # "blank" /\ (k = "ticker" <=> r.key = "ticker")
    OBVIOUS
  <2> HIDE DEF v, k, q
  <2>6. /\ DOMAIN q = RowFields /\ q.visibility = v /\ q.whole = TRUE /\ q.key = k
        /\ q.there = r.there /\ q.on = r.on /\ q.here = r.here /\ q.symbol = r.symbol /\ q.says = r.says
        /\ q.secret = r.secret /\ q.market = r.market /\ q.scoped = r.scoped
    BY <2>1 DEF RowLike, RowFields
  <2>7. RowLike(q)
    BY <2>3, <2>6 DEF RowLike
  <2>8. Mended(q) = q
    <3> DEFINE known2 == [q EXCEPT !.visibility = IF @ = "unknown" THEN "private" ELSE @]
               v2 == IF Shareable(known2) THEN "guild_shared" ELSE known2.visibility
               k2 == IF q.key # "blank" THEN q.key ELSE IF v2 = "guild_shared" THEN "list" ELSE "other"
    <3>1. Mended(q) = [q EXCEPT !.visibility = v2, !.whole = TRUE, !.key = k2]
      BY <1>2, <2>6 DEF Mended
    <3>2. known2.visibility = v /\ known2.here = r.here /\ known2.market = r.market /\ known2.secret = r.secret
      BY <2>3, <2>6 DEF RowFields
    <3> HIDE DEF known2
    <3>3. v2 = v
      BY <2>4, <3>2 DEF Shareable
    <3>4. k2 = k
      BY <2>5, <2>6
    <3> HIDE DEF v2, k2
    <3>5. DOMAIN Mended(q) = DOMAIN q /\ \A x \in DOMAIN q : Mended(q)[x] = q[x]
      BY <2>6, <3>1, <3>3, <3>4 DEF RowFields
    <3>6. Mended(q) = [x \in DOMAIN q |-> Mended(q)[x]] /\ q = [x \in DOMAIN q |-> q[x]]
      BY <2>1, <3>1
    <3> QED
      BY <3>5, <3>6
  <2>9. (Active(q) <=> Active(r)) /\ (IsTicker(q) <=> IsTicker(r))
    BY <2>5, <2>6 DEF Active, IsTicker
  <2> QED
    BY <2>6, <2>7, <2>8, <2>9 DEF q
<1> QED
  BY <1>1, <1>2

LEMMA ScrubbedIs ==
  ASSUME NEW r, IsRow(r)
  PROVE  LET q == Scrubbed(r)
         IN  /\ RowLike(q) /\ q.symbol = r.symbol /\ q.says = r.says /\ q.secret = r.secret
             /\ Active(q) <=> Active(r)
             /\ IsTicker(q) <=> IsTicker(r)
             /\ r.secret = "no" => q = Mended(r) /\ q.there /\ Scrubbed(q) = q
             /\ r.secret # "no" => ~ q.there /\ (IsList(q) <=> IsList(r))
<1> DEFINE q == Scrubbed(r)
<1>1. RowLike(r) /\ r.there
  BY RowsAreAlike
<1>2. CASE r.secret = "no"
  <2>1. q = Mended(r)
    BY <1>2 DEF Scrubbed
  <2>2. q.secret = "no" /\ Mended(q) = q
    BY <1>1, <1>2, <2>1, MendedIs
  <2>3. Scrubbed(q) = q
    BY <2>2 DEF Scrubbed
  <2> QED
    BY <1>1, <1>2, <2>1, <2>3, MendedIs
<1>3. CASE r.secret # "no"
  <2>1. q = [r EXCEPT !.there = FALSE]
    BY <1>3 DEF Scrubbed
  <2> HIDE DEF q
  <2>2. /\ DOMAIN q = RowFields /\ q.there = FALSE /\ q.on = r.on /\ q.here = r.here /\ q.key = r.key
        /\ q.visibility = r.visibility /\ q.symbol = r.symbol /\ q.says = r.says /\ q.secret = r.secret
    BY <1>1, <2>1 DEF RowLike, RowFields
  <2>3. RowLike(q) /\ ~ q.there
    BY <1>1, <2>2 DEF RowLike
  <2>4. (Active(q) <=> Active(r)) /\ (IsTicker(q) <=> IsTicker(r)) /\ (IsList(q) <=> IsList(r))
    BY <2>2 DEF Active, IsTicker, IsList
  <2> QED
    BY <1>3, <2>2, <2>3, <2>4 DEF q
<1> QED
  BY <1>2, <1>3

LEMMA ResolvedIs ==
  ASSUME NEW s \in Symbols, NEW names
  PROVE  /\ Resolved(s, names) \in Symbols
         /\ Resolved(s, names) = s \/ <<s, Resolved(s, names)>> \in Near
<1> DEFINE near == {k \in names : <<s, k>> \in Near}
<1>1. near \subseteq Symbols /\ \A k \in near : <<s, k>> \in Near
  BY RepairAssumption
<1>2. Resolved(s, names) = IF s \notin names /\ Cardinality(near) = 1 THEN CHOOSE k \in near : TRUE ELSE s
  BY DEF Resolved
<1>3. Cardinality(near) = 1 => near # {}
  <2>1. Cardinality({}) = 0
    BY FS_EmptySet
  <2> QED
    BY <2>1
<1> HIDE DEF near
<1>4. near # {} => (CHOOSE k \in near : TRUE) \in near
  OBVIOUS
<1> QED
  BY <1>1, <1>2, <1>3, <1>4

LEMMA RecognizedIs ==
  ASSUME NEW r, IsFiniteSet(r.says), \A m \in r.says : m.symbol \in Symbols, NEW names
  PROVE  /\ Recognized(r, names) \subseteq Symbols /\ IsFiniteSet(Recognized(r, names))
         /\ \A s \in Symbols : Explicit(r, s) =>
              \E k \in Recognized(r, names) : k = s \/ <<s, k>> \in Near
         /\ \A k \in Recognized(r, names) : \E m \in r.says : m.symbol = k \/ <<m.symbol, k>> \in Near
<1> DEFINE some == {n \in r.says :
                     /\ n.how \in {"dollar", "upper"} \/ n.symbol \in names
                     /\ n.symbol \in NameLike => Explicit(r, n.symbol)
                     /\ Resolved(n.symbol, names) \in names \/ n.how = "dollar" \/ r.scoped}
           f == [m \in some |-> Resolved(m.symbol, names)]
<1>1. Recognized(r, names) = {Resolved(m.symbol, names) : m \in some}
  BY DEF Recognized
<1>2. some \subseteq r.says
  OBVIOUS
<1>3. \A m \in some : Resolved(m.symbol, names) \in Symbols
  BY <1>2, ResolvedIs
<1>4. IsFiniteSet(some)
  BY <1>2, FS_Subset
<1>5. ASSUME NEW s \in Symbols, Explicit(r, s)
      PROVE  \E k \in Recognized(r, names) : k = s \/ <<s, k>> \in Near
  <2>1. PICK m \in r.says : m.symbol = s /\ m.how = "dollar" /\ m.inSource
    BY <1>5 DEF Explicit
  <2>2. m \in some
    BY <1>5, <2>1
  <2>3. Resolved(s, names) \in Recognized(r, names)
    BY <1>1, <2>1, <2>2
  <2> QED
    BY <2>3, ResolvedIs
<1> HIDE DEF some
<1>8. ASSUME NEW k \in Recognized(r, names)
      PROVE  \E m \in r.says : m.symbol = k \/ <<m.symbol, k>> \in Near
  <2>1. PICK m \in some : k = Resolved(m.symbol, names)
    BY <1>1
  <2>2. m.symbol \in Symbols /\ m \in r.says
    BY <1>2
  <2> QED
    BY <2>1, <2>2, ResolvedIs
<1>6. Recognized(r, names) = {f[m] : m \in some}
  BY <1>1
<1> HIDE DEF f
<1>7. IsFiniteSet(Recognized(r, names))
  BY <1>4, <1>6, ImageOf
<1> QED
  BY <1>1, <1>3, <1>5, <1>7, <1>8

------------------------------------------------------------------------------
(* The two loops.                                                          *)

IsTable(t) == t \in Seq(ToSet(t)) /\ \A i \in DOMAIN t : IsRow(t[i])

\* The rows after the first n lists: of the table, and added for their symbols.
OldOnes(entries, t, n) ==
  \A i \in 1 .. Len(t) : entries[i] = IF i <= n /\ IsList(Scrubbed(t[i])) THEN [Scrubbed(t[i]) EXCEPT !.on = FALSE]
                                  ELSE Scrubbed(t[i])
NewOne(r, t) ==
  \E s \in Symbols, secret \in {"no", "source"} :
    r = TickerRow(s, secret) /\ s \notin Tickers(FirstPass(t)) /\ (secret = "source" => Handed(s, t))
NewOnes(entries, t) ==
  /\ \A i \in Len(t) + 1 .. Len(entries) : NewOne(entries[i], t)
  /\ \A i, j \in Len(t) + 1 .. Len(entries) : entries[i].symbol = entries[j].symbol => i = j
ListedNow(shared, t, n) ==
  \A i \in 1 .. n, s \in Symbols :
    IsList(Scrubbed(t[i])) /\ Explicit(t[i], s) => \E k \in shared : k = s \/ <<s, k>> \in Near
LoopAt(o, t, n) ==
  /\ o.rows \in Seq(ToSet(o.rows)) /\ Len(t) <= Len(o.rows)
  /\ OldOnes(o.rows, t, n) /\ NewOnes(o.rows, t)
  /\ o.shared = Tickers(FirstPass(t)) \cup {o.rows[i].symbol : i \in Len(t) + 1 .. Len(o.rows)}
  /\ ListedNow(o.shared, t, n)

IsAfterList(f, t, k) ==
  f = [n \in 0 .. k |->
         IF n = 0 THEN [rows |-> FirstPass(t), known |-> KnownSymbols(FirstPass(t)), shared |-> Tickers(FirstPass(t))]
         ELSE Retire(f[n - 1], n)]

LEMMA AfterListExists ==
  ASSUME NEW t, NEW k \in Nat
  PROVE  \E f : IsAfterList(f, t, k)
<1> DEFINE base == [rows |-> FirstPass(t), known |-> KnownSymbols(FirstPass(t)), shared |-> Tickers(FirstPass(t))]
           T == {n \in 0 .. k : \E f : IsAfterList(f, t, n)}
<1> HIDE DEF base
<1>0. \A f, n : IsAfterList(f, t, n) <=> f = [m \in 0 .. n |-> IF m = 0 THEN base ELSE Retire(f[m - 1], m)]
  BY DEF IsAfterList, base
<1>1. 0 \in T
  <2> DEFINE z == [m \in 0 .. 0 |-> base]
  <2>1. \A m \in 0 .. 0 : m = 0 /\ z[m] = base
    OBVIOUS
  <2>2. z = [m \in 0 .. 0 |-> z[m]]
    OBVIOUS
  <2> HIDE DEF z
  <2>3. z = [m \in 0 .. 0 |-> IF m = 0 THEN base ELSE Retire(z[m - 1], m)]
    BY <2>1, <2>2
  <2>4. IsAfterList(z, t, 0)
    BY <1>0, <2>3
  <2> QED
    BY <2>4
<1>2. ASSUME NEW n \in 1 .. k, n - 1 \in T PROVE n \in T
  <2>1. PICK f : IsAfterList(f, t, n - 1)
    BY <1>2
  <2>2. f = [m \in 0 .. n - 1 |-> IF m = 0 THEN base ELSE Retire(f[m - 1], m)]
    BY <1>0, <2>1
  <2> DEFINE h == [m \in 0 .. n |-> IF m = n THEN Retire(f[n - 1], n) ELSE f[m]]
  <2>3. ASSUME NEW m \in 0 .. n
        PROVE  h[m] = IF m = 0 THEN base ELSE Retire(h[m - 1], m)
    <3>1. CASE m = n
      <4>1. m # 0 /\ h[m - 1] = f[n - 1] /\ h[m] = Retire(f[n - 1], n)
        BY <3>1
      <4> HIDE DEF h
      <4> QED
        BY <3>1, <4>1
    <3>2. CASE m # n
      <4>1. m \in 0 .. n - 1
        BY <3>2
      <4>2. f[m] = IF m = 0 THEN base ELSE Retire(f[m - 1], m)
        BY <2>2, <4>1, Zenon
      <4>3. m # 0 => h[m - 1] = f[m - 1]
        BY <4>1
      <4>4. h[m] = f[m]
        BY <3>2
      <4> HIDE DEF h
      <4> QED
        BY <4>2, <4>3, <4>4
    <3> QED
      BY <3>1, <3>2
  <2> HIDE DEF h
  <2>4. h = [m \in 0 .. n |-> h[m]]
    BY DEF h
  <2>5. h = [m \in 0 .. n |-> IF m = 0 THEN base ELSE Retire(h[m - 1], m)]
    BY <2>3, <2>4, Zenon
  <2>6. IsAfterList(h, t, n)
    BY <1>0, <2>5
  <2> QED
    BY <2>6
<1> HIDE DEF T
<1>3. \A n \in 0 .. k : n \in T
  BY <1>1, <1>2, UpTo
<1>4. k \in T
  BY <1>3
<1> QED
  BY <1>4 DEF T

LEMMA AfterListIs ==
  ASSUME NEW t, Len(t) \in Nat
  PROVE  /\ AfterList(t)[0] = [rows |-> FirstPass(t), known |-> KnownSymbols(FirstPass(t)),
                               shared |-> Tickers(FirstPass(t))]
         /\ \A n \in 1 .. Len(t) : AfterList(t)[n] = Retire(AfterList(t)[n - 1], n)
<1> DEFINE base == [rows |-> FirstPass(t), known |-> KnownSymbols(FirstPass(t)), shared |-> Tickers(FirstPass(t))]
           h == AfterList(t)
<1>1. PICK f : IsAfterList(f, t, Len(t))
  BY AfterListExists
<1>2. IsAfterList(h, t, Len(t))
  BY <1>1 DEF AfterList, IsAfterList
<1> HIDE DEF base, h
<1>3. h = [n \in 0 .. Len(t) |-> IF n = 0 THEN base ELSE Retire(h[n - 1], n)]
  BY <1>2 DEF IsAfterList, base
<1>4. \A n \in 0 .. Len(t) : h[n] = IF n = 0 THEN base ELSE Retire(h[n - 1], n)
  BY <1>3, Zenon
<1>5. 0 \in 0 .. Len(t) /\ \A n \in 1 .. Len(t) : n \in 0 .. Len(t) /\ n # 0
  OBVIOUS
<1>6. h[0] = base
  BY <1>4, <1>5
<1>7. ASSUME NEW n \in 1 .. Len(t) PROVE h[n] = Retire(h[n - 1], n)
  BY <1>4, <1>5
<1> QED
  BY <1>6, <1>7 DEF h, base

LEMMA LoopBegins ==
  ASSUME NEW t, IsTable(t)
  PROVE  LoopAt(AfterList(t)[0], t, 0)
<1> DEFINE o == AfterList(t)[0]
<1>1. t \in Seq(ToSet(t)) /\ Len(t) \in Nat /\ DOMAIN t = 1 .. Len(t)
  BY DEF IsTable
<1>2. o.rows = FirstPass(t) /\ o.shared = Tickers(FirstPass(t))
  <2>1. o = [rows |-> FirstPass(t), known |-> KnownSymbols(FirstPass(t)), shared |-> Tickers(FirstPass(t))]
    BY <1>1, AfterListIs
  <2> HIDE DEF o
  <2> QED
    BY <2>1
<1> HIDE DEF o
<1>3. FirstPass(t) = [i \in 1 .. Len(t) |-> Scrubbed(t[i])]
  BY <1>1 DEF FirstPass
<1>4. \A i \in 1 .. Len(t) : FirstPass(t)[i] \in ToSet(FirstPass(t))
  BY <1>3 DEF ToSet
<1>5. FirstPass(t) \in Seq(ToSet(FirstPass(t))) /\ Len(FirstPass(t)) = Len(t)
  BY <1>1, <1>3, <1>4
<1>6. OldOnes(o.rows, t, 0)
  BY <1>1, <1>2, <1>3 DEF OldOnes
<1>7. Len(t) + 1 .. Len(o.rows) = {}
  BY <1>1, <1>2, <1>5
<1>8. NewOnes(o.rows, t)
  BY <1>7 DEF NewOnes
<1>9. ListedNow(o.shared, t, 0)
  BY DEF ListedNow
<1>10. o.shared = Tickers(FirstPass(t)) \cup {o.rows[i].symbol : i \in Len(t) + 1 .. Len(o.rows)}
  BY <1>2, <1>7
<1>11. LoopAt(o, t, 0)
  BY <1>1, <1>2, <1>5, <1>6, <1>8, <1>9, <1>10 DEF LoopAt
<1> QED
  BY <1>11 DEF o

\* The next list.
LEMMA LoopGoesOn ==
  ASSUME NEW t, IsTable(t), NEW n \in 1 .. Len(t), NEW o, LoopAt(o, t, n - 1)
  PROVE  LoopAt(Retire(o, n), t, n)
<1> DEFINE L == Len(t)
           r == o.rows[n]
           fresh == Recognized(r, o.known) \ o.shared
           secret == IF r.secret = "source" THEN "source" ELSE "no"
           added == {TickerRow(s, secret) : s \in fresh}
           q == SetToSeq(added)
           off == Off(o.rows, n)
           o2 == Retire(o, n)
<1>1. L \in Nat /\ DOMAIN t = 1 .. L /\ n \in 1 .. L /\ n - 1 \in Nat
  BY DEF IsTable
<1>2. /\ o.rows \in Seq(ToSet(o.rows)) /\ L <= Len(o.rows) /\ Len(o.rows) \in Nat
      /\ DOMAIN o.rows = 1 .. Len(o.rows)
      /\ OldOnes(o.rows, t, n - 1) /\ NewOnes(o.rows, t)
      /\ o.shared = Tickers(FirstPass(t)) \cup {o.rows[i].symbol : i \in L + 1 .. Len(o.rows)}
      /\ ListedNow(o.shared, t, n - 1)
  BY DEF LoopAt
<1>3. \A i \in 1 .. L : IsRow(t[i])
  BY <1>1 DEF IsTable
<1>4. r = Scrubbed(t[n])
  <2>1. ~ (n <= n - 1)
    BY <1>1
  <2>2. \A i \in 1 .. L : o.rows[i] = IF i <= n - 1 /\ IsList(Scrubbed(t[i])) THEN [Scrubbed(t[i]) EXCEPT !.on = FALSE]
                                      ELSE Scrubbed(t[i])
    BY <1>2 DEF OldOnes
  <2> QED
    BY <1>1, <2>1, <2>2
<1>5. /\ RowLike(r) /\ r.says = t[n].says /\ r.secret = t[n].secret
      /\ t[n].secret # "no" => (IsList(r) <=> IsList(t[n]))
  BY <1>1, <1>3, <1>4, ScrubbedIs
<1>6. CASE ~ IsList(r)
  <2>1. o2 = o
    BY <1>6 DEF Retire
  <2>2. OldOnes(o.rows, t, n)
    <3> SUFFICES ASSUME NEW i \in 1 .. L
                 PROVE  o.rows[i] = IF i <= n /\ IsList(Scrubbed(t[i])) THEN [Scrubbed(t[i]) EXCEPT !.on = FALSE]
                                    ELSE Scrubbed(t[i])
      BY DEF OldOnes
    <3>1. CASE i = n
      BY <1>4, <1>6, <3>1
    <3>2. CASE i # n
      <4>1. i <= n <=> i <= n - 1
        BY <1>1, <3>2
      <4> QED
        BY <1>2, <4>1 DEF OldOnes
    <3> QED
      BY <3>1, <3>2
  <2>3. ListedNow(o.shared, t, n)
    <3> SUFFICES ASSUME NEW i \in 1 .. n, NEW s \in Symbols, IsList(Scrubbed(t[i])), Explicit(t[i], s)
                 PROVE  \E k \in o.shared : k = s \/ <<s, k>> \in Near
      BY DEF ListedNow
    <3>1. i \in 1 .. (n - 1)
      BY <1>1, <1>4, <1>6
    <3> QED
      BY <1>2, <3>1 DEF ListedNow
  <2> HIDE DEF o2
  <2> QED
    BY <1>2, <2>1, <2>2, <2>3 DEF LoopAt, o2
<1>7. CASE IsList(r)
  <2>1. o2 = [rows |-> off \o q, known |-> o.known \cup fresh, shared |-> o.shared \cup fresh]
    BY <1>7 DEF Retire
  <2>2. /\ Recognized(r, o.known) \subseteq Symbols /\ IsFiniteSet(Recognized(r, o.known))
        /\ \A s \in Symbols : Explicit(r, s) =>
             \E k \in Recognized(r, o.known) : k = s \/ <<s, k>> \in Near
    BY <1>5, RecognizedIs DEF RowLike
  <2> HIDE DEF r, o2
  <2>3. fresh \subseteq Symbols /\ IsFiniteSet(fresh)
    <3>1. fresh \subseteq Recognized(r, o.known)
      OBVIOUS
    <3> QED
      BY <2>2, <3>1, FS_Subset
  <2>4. IsFiniteSet(added)
    <3> DEFINE f == [s \in fresh |-> TickerRow(s, secret)]
    <3> HIDE DEF fresh, secret
    <3>1. added = {f[s] : s \in fresh}
      OBVIOUS
    <3> HIDE DEF f, added
    <3> QED
      BY <2>3, <3>1, ImageOf
  <2>5. /\ q \in Seq(added) /\ \A x \in added : \E i \in 1 .. Len(q) : q[i] = x
        /\ \A i, j \in 1 .. Len(q) : q[i] = q[j] => i = j
    <3> HIDE DEF added
    <3> QED
      BY <2>4, InSequence
  <2> HIDE DEF q
  <2>6. /\ DOMAIN off = 1 .. Len(o.rows)
        /\ \A j \in 1 .. Len(o.rows) : off[j] = IF j = n THEN [o.rows[j] EXCEPT !.on = FALSE] ELSE o.rows[j]
    BY <1>2 DEF Off
  <2>7. off = [j \in 1 .. Len(o.rows) |-> off[j]]
    BY <1>2 DEF Off
  <2> HIDE DEF off
  <2>8. off \in Seq(ToSet(off)) /\ Len(off) = Len(o.rows)
    BY <1>2, <2>7, NumberedRows
  <2> DEFINE X == ToSet(off) \cup added
             rows2 == off \o q
             K == Len(o.rows)
             M == Len(q)
  <2>9. q \in Seq(X) /\ off \in Seq(X) /\ M \in Nat
    <3> HIDE DEF added
    <3>1. q \in Seq(X)
      BY <2>5
    <3>2. off \in Seq(X)
      BY <2>8
    <3> QED
      BY <2>5, <3>1, <3>2
  <2>10. /\ rows2 \in Seq(X) /\ Len(rows2) = K + M
         /\ \A i \in 1 .. K + M : rows2[i] = IF i <= K THEN off[i] ELSE q[i - K]
    <3> HIDE DEF X
    <3>1. /\ off \o q \in Seq(X) /\ Len(off \o q) = Len(off) + Len(q)
          /\ \A i \in 1 .. Len(off) + Len(q) : (off \o q)[i] = IF i <= Len(off) THEN off[i] ELSE q[i - Len(off)]
      BY <2>9, ConcatProperties
    <3> QED
      BY <2>8, <3>1
  <2> HIDE DEF rows2, X
  <2>11. rows2 \in Seq(ToSet(rows2))
    <3>1. DOMAIN rows2 = 1 .. Len(rows2) /\ Len(rows2) \in Nat /\ rows2 = [i \in 1 .. Len(rows2) |-> rows2[i]]
      BY <2>10
    <3>2. \A i \in 1 .. Len(rows2) : rows2[i] \in ToSet(rows2)
      BY <3>1 DEF ToSet
    <3> QED
      BY <3>1, <3>2
  <2>12. o2.rows = rows2 /\ o2.shared = o.shared \cup fresh
    <3> HIDE DEF fresh
    <3> QED
      BY <2>1 DEF rows2
  <2>13. K \in Nat /\ L <= K
    BY <1>2
  <2>14. OldOnes(rows2, t, n)
    <3> SUFFICES ASSUME NEW i \in 1 .. L
                 PROVE  rows2[i] = IF i <= n /\ IsList(Scrubbed(t[i])) THEN [Scrubbed(t[i]) EXCEPT !.on = FALSE]
                                   ELSE Scrubbed(t[i])
      BY DEF OldOnes
    <3>1. i \in 1 .. K /\ i \in 1 .. K + M /\ i <= K
      BY <1>1, <2>9, <2>13
    <3>2. rows2[i] = off[i]
      BY <2>10, <3>1
    <3>3. CASE i = n
      <4>1. off[i] = [r EXCEPT !.on = FALSE]
        BY <2>6, <3>1, <3>3 DEF r
      <4> QED
        BY <1>1, <1>4, <1>7, <3>2, <3>3, <4>1
    <3>4. CASE i # n
      <4>1. off[i] = o.rows[i]
        BY <2>6, <3>1, <3>4
      <4>2. i <= n <=> i <= n - 1
        BY <1>1, <3>4
      <4> QED
        BY <1>2, <3>2, <4>1, <4>2 DEF OldOnes
    <3> QED
      BY <3>3, <3>4
  <2>15. ASSUME NEW i \in L + 1 .. K + M
         PROVE  \/ i \in L + 1 .. K /\ rows2[i] = o.rows[i]
                \/ i - K \in 1 .. M /\ rows2[i] = q[i - K] /\ i > K
    <3>1. i \in 1 .. K + M /\ i # n
      BY <1>1, <2>9, <2>13
    <3>2. CASE i <= K
      <4>1. i \in 1 .. K /\ i \in L + 1 .. K
        BY <3>1, <3>2, <2>9, <2>13
      <4>2. rows2[i] = o.rows[i]
        BY <2>6, <2>10, <3>1, <3>2, <4>1
      <4> QED
        BY <4>1, <4>2
    <3>3. CASE i > K
      <4>1. i - K \in 1 .. M
        BY <3>1, <3>3, <2>9, <2>13
      <4>2. ~ (i <= K)
        BY <3>1, <3>3, <2>9, <2>13
      <4> QED
        BY <2>10, <3>1, <3>3, <4>1, <4>2
    <3> QED
      BY <1>1, <2>9, <2>13, <3>2, <3>3
  <2>16. \A i \in 1 .. M : \E s \in fresh : q[i] = TickerRow(s, secret)
    <3>1. \A i \in 1 .. M : q[i] \in added
      <4> HIDE DEF added
      <4> QED
        BY <2>5, ElementOfSeq
    <3> HIDE DEF fresh, secret
    <3> QED
      BY <3>1
  <2>17. \A s : TickerRow(s, secret).symbol = s
    BY DEF TickerRow
  <2>18. ASSUME NEW i \in 1 .. M PROVE NewOne(q[i], t) /\ q[i].symbol \in fresh
    <3>1. PICK s \in fresh : q[i] = TickerRow(s, secret)
      BY <2>16
    <3>2. s \in Symbols /\ s \notin Tickers(FirstPass(t))
      BY <1>2, <2>3
    <3>3. secret \in {"no", "source"} /\ (secret = "source" => Handed(s, t))
      <4>1. \E m \in r.says : m.symbol = s \/ <<m.symbol, s>> \in Near
        BY <1>5, RecognizedIs DEF RowLike
      <4> HIDE DEF fresh
      <4>2. secret \in {"no", "source"} /\ (secret = "source" => t[n].secret = "source" /\ IsList(t[n]))
        BY <1>5, <1>7
      <4> HIDE DEF secret
      <4>3. n \in DOMAIN t /\ r.says = t[n].says
        BY <1>1, <1>5
      <4> QED
        BY <4>1, <4>2, <4>3 DEF Handed
    <3> HIDE DEF secret, fresh
    <3> QED
      BY <2>17, <3>1, <3>2, <3>3 DEF NewOne
  <2>19. \A i \in L + 1 .. K : NewOne(o.rows[i], t) /\ o.rows[i].symbol \in o.shared
    BY <1>2 DEF NewOnes
  <2>20. NewOnes(rows2, t)
    <3>1. \A i \in L + 1 .. K + M : NewOne(rows2[i], t)
      BY <2>15, <2>18, <2>19
    <3>2. ASSUME NEW i \in L + 1 .. K + M, NEW j \in L + 1 .. K + M, rows2[i].symbol = rows2[j].symbol PROVE i = j
      <4>1. \A x \in fresh : x \notin o.shared
        OBVIOUS
      <4>2. \A k, l \in 1 .. M : q[k].symbol = q[l].symbol => k = l
        <5> SUFFICES ASSUME NEW k \in 1 .. M, NEW l \in 1 .. M, q[k].symbol = q[l].symbol PROVE k = l
          OBVIOUS
        <5>1. PICK s \in fresh : q[k] = TickerRow(s, secret)
          BY <2>16
        <5>2. PICK u \in fresh : q[l] = TickerRow(u, secret)
          BY <2>16
        <5> HIDE DEF fresh, secret
        <5>3. s = u
          BY <2>17, <3>2, <5>1, <5>2
        <5> QED
          BY <2>5, <5>1, <5>2, <5>3
      <4> HIDE DEF fresh, added
      <4>3. CASE i \in L + 1 .. K /\ rows2[i] = o.rows[i]
        <5>1. CASE j \in L + 1 .. K /\ rows2[j] = o.rows[j]
          BY <1>2, <3>2, <4>3, <5>1 DEF NewOnes
        <5>2. CASE j - K \in 1 .. M /\ rows2[j] = q[j - K] /\ j > K
          BY <2>18, <2>19, <3>2, <4>1, <4>3, <5>2
        <5> QED
          BY <2>15, <5>1, <5>2
      <4>4. CASE i - K \in 1 .. M /\ rows2[i] = q[i - K] /\ i > K
        <5>1. CASE j \in L + 1 .. K /\ rows2[j] = o.rows[j]
          BY <2>18, <2>19, <3>2, <4>1, <4>4, <5>1
        <5>2. CASE j - K \in 1 .. M /\ rows2[j] = q[j - K] /\ j > K
          <6>1. i - K = j - K
            BY <3>2, <4>2, <4>4, <5>2
          <6> QED
            BY <2>13, <6>1
        <5> QED
          BY <2>15, <5>1, <5>2
      <4> QED
        BY <2>15, <4>3, <4>4
    <3> QED
      BY <2>10, <3>1, <3>2 DEF NewOnes
  <2>21. o2.shared = Tickers(FirstPass(t)) \cup {rows2[i].symbol : i \in L + 1 .. K + M}
    <3>1. ASSUME NEW s \in fresh PROVE \E i \in L + 1 .. K + M : rows2[i].symbol = s
      <4>1. TickerRow(s, secret) \in added
        OBVIOUS
      <4> HIDE DEF fresh, secret, added
      <4>2. PICK j \in 1 .. M : q[j] = TickerRow(s, secret)
        BY <2>5, <4>1
      <4>3. K + j \in 1 .. K + M /\ K + j \in L + 1 .. K + M /\ ~ (K + j <= K) /\ (K + j) - K = j
        BY <1>1, <2>9, <2>13
      <4>4. rows2[K + j] = q[j]
        BY <2>10, <4>3
      <4> QED
        BY <2>17, <4>2, <4>3, <4>4
    <3>2. ASSUME NEW i \in L + 1 .. K PROVE \E j \in L + 1 .. K + M : rows2[j].symbol = o.rows[i].symbol
      <4>1. i \in 1 .. K /\ i \in 1 .. K + M /\ i \in L + 1 .. K + M /\ i <= K /\ i # n
        BY <1>1, <2>9, <2>13
      <4>2. rows2[i] = o.rows[i]
        BY <2>6, <2>10, <4>1
      <4> QED
        BY <4>1, <4>2
    <3>3. ASSUME NEW i \in L + 1 .. K + M PROVE rows2[i].symbol \in o.shared \cup fresh
      BY <2>15, <2>18, <2>19
    <3> HIDE DEF fresh
    <3> DEFINE later == {rows2[i].symbol : i \in L + 1 .. K + M}
               sooner == {o.rows[i].symbol : i \in L + 1 .. K}
    <3>4. fresh \subseteq later
      BY <3>1
    <3>5. sooner \subseteq later
      BY <3>2
    <3>6. later \subseteq o.shared \cup fresh
      BY <3>3
    <3>7. o.shared = Tickers(FirstPass(t)) \cup sooner
      BY <1>2
    <3> HIDE DEF later, sooner
    <3>8. o2.shared = Tickers(FirstPass(t)) \cup later
      BY <2>12, <3>4, <3>5, <3>6, <3>7
    <3> QED
      BY <3>8 DEF later
  <2>22. ListedNow(o2.shared, t, n)
    <3> SUFFICES ASSUME NEW i \in 1 .. n, NEW s \in Symbols, IsList(Scrubbed(t[i])), Explicit(t[i], s)
                 PROVE  \E k \in o2.shared : k = s \/ <<s, k>> \in Near
      BY DEF ListedNow
    <3>1. CASE i = n
      <4>1. Explicit(r, s)
        BY <1>5, <3>1 DEF Explicit
      <4>2. PICK k \in Recognized(r, o.known) : k = s \/ <<s, k>> \in Near
        BY <2>2, <4>1
      <4>3. k \in o2.shared
        BY <2>12
      <4> QED
        BY <4>2, <4>3
    <3>2. CASE i # n
      <4>1. i \in 1 .. (n - 1)
        BY <1>1, <3>2
      <4>2. \E k \in o.shared : k = s \/ <<s, k>> \in Near
        BY <1>2, <4>1 DEF ListedNow
      <4> QED
        BY <2>12, <4>2
    <3> QED
      BY <3>1, <3>2
  <2>23. L <= Len(rows2)
    BY <1>1, <2>9, <2>10, <2>13
  <2> HIDE DEF fresh
  <2> QED
    BY <2>10, <2>11, <2>12, <2>14, <2>20, <2>21, <2>22, <2>23 DEF LoopAt, o2
<1> QED
  BY <1>6, <1>7

EndOf(t) == AfterList(t)[Len(t)]

LEMMA LoopEnds ==
  ASSUME NEW t, IsTable(t)
  PROVE  LoopAt(EndOf(t), t, Len(t))
<1> DEFINE T == {n \in 0 .. Len(t) : LoopAt(AfterList(t)[n], t, n)}
<1>1. Len(t) \in Nat
  BY DEF IsTable
<1>2. 0 \in T
  BY <1>1, LoopBegins
<1>3. ASSUME NEW n \in 1 .. Len(t), n - 1 \in T PROVE n \in T
  <2>1. LoopAt(AfterList(t)[n - 1], t, n - 1)
    BY <1>3
  <2>2. LoopAt(Retire(AfterList(t)[n - 1], n), t, n)
    BY <2>1, LoopGoesOn
  <2>3. AfterList(t)[n] = Retire(AfterList(t)[n - 1], n)
    BY <1>1, AfterListIs
  <2> QED
    BY <1>1, <2>2, <2>3
<1> HIDE DEF T
<1>4. \A n \in 0 .. Len(t) : n \in T
  BY <1>1, <1>2, <1>3, UpTo
<1>5. Len(t) \in T
  BY <1>1, <1>4
<1> QED
  BY <1>5 DEF T, EndOf

\* A row of the table that stays, and one that was added.
Stayed(e, r, t) ==
  /\ r.secret = "no" /\ e.secret = "no" /\ IsRow(e) /\ Scrubbed(e) = e /\ ~ IsList(e)
  /\ IsTicker(e) => IsTicker(r) /\ e.symbol = r.symbol /\ e.symbol \in Tickers(FirstPass(t))
Added(e, t) ==
  /\ IsRow(e) /\ IsTicker(e) /\ ~ IsList(e) /\ e.symbol \notin Tickers(FirstPass(t))
  /\ e.secret # "no" => e.secret = "source" /\ Handed(e.symbol, t)
  /\ e.secret = "no" => Scrubbed(e) = e

LEMMA TickersOf ==
  ASSUME NEW t, IsTable(t)
  PROVE  Tickers(FirstPass(t)) = {t[i].symbol : i \in {j \in 1 .. Len(t) : IsTicker(t[j])}}
<1>1. DOMAIN t = 1 .. Len(t) /\ \A i \in 1 .. Len(t) : IsRow(t[i])
  BY DEF IsTable
<1>2. DOMAIN FirstPass(t) = 1 .. Len(t) /\ \A i \in 1 .. Len(t) : FirstPass(t)[i] = Scrubbed(t[i])
  BY <1>1 DEF FirstPass
<1>3. \A i \in 1 .. Len(t) : FirstPass(t)[i].symbol = t[i].symbol /\ (IsTicker(FirstPass(t)[i]) <=> IsTicker(t[i]))
  BY <1>1, <1>2, ScrubbedIs
<1> QED
  BY <1>2, <1>3 DEF Tickers

LEMMA StayedIs ==
  ASSUME NEW t, IsTable(t), NEW i \in 1 .. Len(t)
  PROVE  /\ EndOf(t).rows[i].there => Stayed(EndOf(t).rows[i], t[i], t)
         /\ IsTicker(t[i]) /\ t[i].secret = "no"
              => /\ EndOf(t).rows[i].there /\ IsTicker(EndOf(t).rows[i])
                 /\ EndOf(t).rows[i].symbol = t[i].symbol
<1> DEFINE q == Scrubbed(t[i])
           e == EndOf(t).rows[i]
           r == t[i]
<1>1. IsRow(r)
  BY DEF IsTable
<1>2. e = IF IsList(q) THEN [q EXCEPT !.on = FALSE] ELSE q
  <2>1. OldOnes(EndOf(t).rows, t, Len(t))
    BY LoopEnds DEF LoopAt
  <2>2. i <= Len(t)
    OBVIOUS
  <2> QED
    BY <2>1, <2>2 DEF OldOnes
<1>3. /\ RowLike(q) /\ q.symbol = r.symbol /\ q.says = r.says /\ q.secret = r.secret
      /\ IsTicker(q) <=> IsTicker(r)
      /\ r.secret = "no" => q.there /\ Scrubbed(q) = q
      /\ r.secret # "no" => ~ q.there
  BY <1>1, ScrubbedIs
<1> HIDE DEF q, e
<1>4. IsTicker(q) => q.symbol \in Tickers(FirstPass(t))
  <2>1. IsTicker(r) => r.symbol \in Tickers(FirstPass(t))
    BY TickersOf
  <2> QED
    BY <1>3, <2>1
<1> HIDE DEF r
<1>5. CASE IsList(q)
  <2>1. /\ DOMAIN e = RowFields /\ e.on = FALSE /\ e.there = q.there /\ e.symbol = q.symbol /\ e.secret = q.secret
        /\ e.visibility = q.visibility /\ e.says = q.says
    BY <1>2, <1>3, <1>5 DEF RowLike, RowFields
  <2>2. RowLike(e) /\ ~ Active(e) /\ ~ IsTicker(e) /\ ~ IsList(e) /\ Mended(e) = e
    BY <1>3, <2>1 DEF RowLike, Active, IsTicker, IsList, Mended
  <2>3. ~ IsTicker(q)
    BY <1>5 DEF IsList, IsTicker
  <2>4. e.secret = "no" => Scrubbed(e) = e
    BY <2>2 DEF Scrubbed
  <2>5. e.there => Stayed(e, r, t)
    BY <1>3, <2>1, <2>2, <2>4, RowsAreAlike DEF Stayed
  <2> QED
    BY <1>3, <2>3, <2>5 DEF e, r
<1>6. CASE ~ IsList(q)
  <2>1. e = q
    BY <1>2, <1>6
  <2>2. e.there => Stayed(e, r, t)
    BY <1>3, <1>4, <1>6, <2>1, RowsAreAlike DEF Stayed
  <2> QED
    BY <1>3, <2>1, <2>2 DEF e, r
<1> QED
  BY <1>5, <1>6

LEMMA AddedIs ==
  ASSUME NEW t, NEW e, NewOne(e, t)
  PROVE  Added(e, t)
<1>1. PICK s \in Symbols, secret \in {"no", "source"} :
         e = TickerRow(s, secret) /\ s \notin Tickers(FirstPass(t)) /\ (secret = "source" => Handed(s, t))
  BY DEF NewOne
<1>2. /\ DOMAIN e = RowFields /\ e.there = TRUE /\ e.on = TRUE /\ e.here = TRUE /\ e.visibility = "guild_shared"
      /\ e.key = "ticker" /\ e.symbol = s /\ e.says = {} /\ e.secret = secret /\ e.whole = TRUE
  BY <1>1 DEF TickerRow, RowFields
<1>3. RowLike(e)
  BY <1>2, FS_EmptySet DEF RowLike
<1>4. IsRow(e)
  BY <1>2, <1>3, RowsAreAlike
<1>5. IsTicker(e) /\ ~ IsList(e)
  BY <1>2 DEF IsTicker, IsList, Active
<1>6. Mended(e) = e
  <2> DEFINE known2 == [e EXCEPT !.visibility = IF @ = "unknown" THEN "private" ELSE @]
             v == IF Shareable(known2) THEN "guild_shared" ELSE known2.visibility
             k == IF e.key # "blank" THEN e.key ELSE IF v = "guild_shared" THEN "list" ELSE "other"
  <2>1. Mended(e) = [e EXCEPT !.visibility = v, !.whole = TRUE, !.key = k]
    BY <1>2 DEF Mended
  <2>2. known2.visibility = "guild_shared"
    BY <1>2 DEF RowFields
  <2> HIDE DEF known2
  <2>3. v = "guild_shared" /\ k = "ticker"
    BY <1>2, <2>2 DEF Shareable
  <2> HIDE DEF v, k
  <2>4. e = [x \in DOMAIN e |-> e[x]]
    BY <1>1 DEF TickerRow
  <2> QED
    BY <1>2, <2>1, <2>3, <2>4
<1>7. e.secret = "no" => Scrubbed(e) = e
  BY <1>6 DEF Scrubbed
<1> QED
  BY <1>1, <1>2, <1>4, <1>5, <1>7 DEF Added

\* What is there after a repair, by its place among the rows at the end of the loops.
PlaceOfRow(R, g, t) ==
  LET E == EndOf(t).rows
  IN  /\ R \in Seq(ToSet(R)) /\ g \in [1 .. Len(R) -> 1 .. Len(E)]
      /\ \A j \in 1 .. Len(R) : /\ R[j] = E[g[j]]
                                /\ g[j] \in 1 .. Len(t) => Stayed(R[j], t[g[j]], t)
                                /\ g[j] \notin 1 .. Len(t) => Added(R[j], t)
      /\ \A j, k \in 1 .. Len(R) : g[j] = g[k] => j = k
      /\ \A i \in 1 .. Len(E) : E[i].there => \E j \in 1 .. Len(R) : g[j] = i

LEMMA RepairedIs ==
  ASSUME NEW t, IsTable(t)
  PROVE  /\ \E g : PlaceOfRow(Repaired(t), g, t)
         /\ IsTable(Repaired(t))
<1> DEFINE E == EndOf(t).rows
           R == Repaired(t)
<1>1. E \in Seq(ToSet(E)) /\ Len(t) <= Len(E) /\ NewOnes(E, t) /\ Len(t) \in Nat
  BY LoopEnds DEF LoopAt, IsTable
<1>2. R = There(E)
  BY DEF Repaired, EndOf
<1> HIDE DEF E, R
<1>3. PICK g : PickOf(R, g, E, Len(E))
  BY <1>1, <1>2, ThereIs
<1>4. /\ R \in Seq(ToSet(E)) /\ g \in [1 .. Len(R) -> 1 .. Len(E)] /\ Len(R) \in Nat
      /\ \A j \in 1 .. Len(R) : R[j] = E[g[j]] /\ E[g[j]].there
      /\ \A j, k \in 1 .. Len(R) : g[j] = g[k] => j = k
      /\ \A i \in 1 .. Len(E) : E[i].there => \E j \in 1 .. Len(R) : g[j] = i
  BY <1>3 DEF PickOf
<1>5. R \in Seq(ToSet(R)) /\ DOMAIN R = 1 .. Len(R)
  <2>1. R = [j \in 1 .. Len(R) |-> R[j]] /\ DOMAIN R = 1 .. Len(R)
    BY <1>4
  <2> QED
    BY <1>4, <2>1, NumberedRows
<1>6. ASSUME NEW j \in 1 .. Len(R), g[j] \in 1 .. Len(t) PROVE Stayed(R[j], t[g[j]], t)
  BY <1>4, <1>6, StayedIs DEF E
<1>7. ASSUME NEW j \in 1 .. Len(R), g[j] \notin 1 .. Len(t) PROVE Added(R[j], t)
  <2>1. g[j] \in Len(t) + 1 .. Len(E)
    BY <1>1, <1>4, <1>7
  <2>2. NewOne(R[j], t)
    BY <1>1, <1>4, <2>1 DEF NewOnes
  <2> QED
    BY <2>2, AddedIs
<1>8. PlaceOfRow(R, g, t)
  BY <1>4, <1>5, <1>6, <1>7 DEF PlaceOfRow, E
<1>9. \A j \in 1 .. Len(R) : IsRow(R[j])
  BY <1>6, <1>7 DEF Stayed, Added
<1>10. IsTable(R)
  BY <1>5, <1>9 DEF IsTable
<1> QED
  BY <1>8, <1>10 DEF R

\* The same for one row, and for two.
LEMMA PlacedRow ==
  ASSUME NEW R, NEW g, NEW t, PlaceOfRow(R, g, t), NEW j \in 1 .. Len(R)
  PROVE  /\ g[j] \in 1 .. Len(EndOf(t).rows) /\ R[j] = EndOf(t).rows[g[j]]
         /\ g[j] \in 1 .. Len(t) => Stayed(R[j], t[g[j]], t)
         /\ g[j] \notin 1 .. Len(t) => Added(R[j], t)
<1> DEFINE E == EndOf(t).rows
<1>1. /\ g \in [1 .. Len(R) -> 1 .. Len(E)]
      /\ \A n \in 1 .. Len(R) : /\ R[n] = E[g[n]]
                                /\ g[n] \in 1 .. Len(t) => Stayed(R[n], t[g[n]], t)
                                /\ g[n] \notin 1 .. Len(t) => Added(R[n], t)
  BY Zenon DEF PlaceOfRow
<1> HIDE DEF E
<1>2. g[j] \in 1 .. Len(E)
  BY <1>1
<1>3. /\ R[j] = E[g[j]]
      /\ g[j] \in 1 .. Len(t) => Stayed(R[j], t[g[j]], t)
      /\ g[j] \notin 1 .. Len(t) => Added(R[j], t)
  BY <1>1
<1> QED
  BY <1>2, <1>3 DEF E

LEMMA PlaceTaken ==
  ASSUME NEW R, NEW g, NEW t, PlaceOfRow(R, g, t), NEW m \in 1 .. Len(EndOf(t).rows), EndOf(t).rows[m].there
  PROVE  \E j \in 1 .. Len(R) : g[j] = m /\ R[j] = EndOf(t).rows[m]
<1>1. PICK j \in 1 .. Len(R) : g[j] = m
  BY DEF PlaceOfRow
<1> QED
  BY <1>1, PlacedRow

\* A repair finds nothing to do where every row is as it would leave it.
LEMMA SettledIs ==
  ASSUME NEW t, IsTable(t), \A i \in 1 .. Len(t) : Scrubbed(t[i]) = t[i] /\ ~ IsList(t[i])
  PROVE  Repaired(t) = t
<1>1. t \in Seq(ToSet(t)) /\ Len(t) \in Nat /\ DOMAIN t = 1 .. Len(t) /\ \A i \in 1 .. Len(t) : IsRow(t[i])
  BY DEF IsTable
<1>2. LoopAt(EndOf(t), t, Len(t))
  BY LoopEnds
<1> DEFINE T == {n \in 0 .. Len(t) : AfterList(t)[n].rows = t}
<1>3. 0 \in T
  <2>1. FirstPass(t) = t
    BY <1>1 DEF FirstPass
  <2>2. AfterList(t)[0] = [rows |-> FirstPass(t), known |-> KnownSymbols(FirstPass(t)), shared |-> Tickers(FirstPass(t))]
    BY <1>1, AfterListIs
  <2>3. AfterList(t)[0].rows = t
    BY <2>1, <2>2
  <2> QED
    BY <1>1, <2>3
<1>4. ASSUME NEW n \in 1 .. Len(t), n - 1 \in T PROVE n \in T
  <2>1. AfterList(t)[n] = Retire(AfterList(t)[n - 1], n)
    BY <1>1, AfterListIs
  <2>2. AfterList(t)[n - 1].rows = t
    BY <1>4
  <2>3. Retire(AfterList(t)[n - 1], n) = AfterList(t)[n - 1]
    BY <2>2 DEF Retire
  <2>4. n \in 0 .. Len(t)
    BY <1>1
  <2> QED
    BY <2>1, <2>2, <2>3, <2>4
<1> HIDE DEF T
<1>5. \A n \in 0 .. Len(t) : n \in T
  BY <1>1, <1>3, <1>4, UpTo
<1>6. Len(t) \in T
  BY <1>1, <1>5
<1>7. AfterList(t)[Len(t)].rows = t
  BY <1>6 DEF T
<1>8. There(t) = t
  BY <1>1, AllThere DEF IsRow
<1> QED
  BY <1>7, <1>8 DEF Repaired

------------------------------------------------------------------------------
(* The inductive invariant.                                                *)

RepairIInv ==
  /\ edits \in 0 .. MaxEdits /\ IsTable(memories) /\ IsTable(found)
  /\ repaired => memories = Repaired(found)

\* What is sensitive after a repair was handed down, and where nothing is to be handed
\* down all rows are as a repair leaves them.
LEMMA HandedIs ==
  ASSUME NEW t, IsTable(t), NEW j \in DOMAIN Repaired(t), Repaired(t)[j].secret # "no"
  PROVE  LET r == Repaired(t)[j]
         IN  IsTicker(r) /\ r.secret = "source" /\ Handed(r.symbol, t)
<1>1. PICK g : PlaceOfRow(Repaired(t), g, t)
  BY RepairedIs
<1>2. DOMAIN Repaired(t) = 1 .. Len(Repaired(t))
  BY <1>1 DEF PlaceOfRow
<1>3. CASE g[j] \in 1 .. Len(t)
  <2>1. Stayed(Repaired(t)[j], t[g[j]], t)
    BY <1>1, <1>2, <1>3, PlacedRow
  <2> QED
    BY <2>1 DEF Stayed
<1>4. CASE g[j] \notin 1 .. Len(t)
  <2>1. Added(Repaired(t)[j], t)
    BY <1>1, <1>2, <1>4, PlacedRow
  <2> QED
    BY <2>1 DEF Added
<1> QED
  BY <1>3, <1>4

LEMMA NoListIsLeft ==
  ASSUME NEW t, IsTable(t), NEW j \in DOMAIN Repaired(t)
  PROVE  /\ ~ IsList(Repaired(t)[j])
         /\ Repaired(t)[j].secret = "no" => Scrubbed(Repaired(t)[j]) = Repaired(t)[j]
<1>1. PICK g : PlaceOfRow(Repaired(t), g, t)
  BY RepairedIs
<1>2. DOMAIN Repaired(t) = 1 .. Len(Repaired(t))
  BY <1>1 DEF PlaceOfRow
<1>3. CASE g[j] \in 1 .. Len(t)
  <2>1. Stayed(Repaired(t)[j], t[g[j]], t)
    BY <1>1, <1>2, <1>3, PlacedRow
  <2> QED
    BY <2>1 DEF Stayed
<1>4. CASE g[j] \notin 1 .. Len(t)
  <2>1. Added(Repaired(t)[j], t)
    BY <1>1, <1>2, <1>4, PlacedRow
  <2> QED
    BY <2>1 DEF Added
<1> QED
  BY <1>3, <1>4

\* A repair of what a repair left hands nothing down, and is settled by that.
LEMMA TwoSettle ==
  ASSUME NEW t, IsTable(t)
  PROVE  LET again == Repaired(Repaired(t))
         IN  Repaired(again) = again /\ \A i \in DOMAIN again : again[i].secret = "no"
<1> DEFINE once == Repaired(t)
           again == Repaired(once)
<1>1. IsTable(once) /\ IsTable(again)
  BY RepairedIs
<1>2. \A s : ~ Handed(s, once)
  BY NoListIsLeft DEF Handed
<1> HIDE DEF once
<1>3. \A i \in DOMAIN again : again[i].secret = "no"
  BY <1>1, <1>2, HandedIs
<1>4. \A i \in DOMAIN again : Scrubbed(again[i]) = again[i] /\ ~ IsList(again[i])
  BY <1>1, <1>3, NoListIsLeft
<1> HIDE DEF again
<1>5. DOMAIN again = 1 .. Len(again)
  BY <1>1 DEF IsTable
<1>6. Repaired(again) = again
  BY <1>1, <1>4, <1>5, SettledIs
<1> QED
  BY <1>3, <1>6 DEF again, once

LEMMA ListsStand ==
  ASSUME IsTable(found), memories = Repaired(found),
         NEW i \in DOMAIN found, NEW s \in Symbols, Taken(i), Explicit(found[i], s)
  PROVE  \E k \in Tickers(memories) \cup {found[j].symbol : j \in {n \in DOMAIN found : IsTicker(found[n]) /\ found[n].secret # "no"}} :
           k = s \/ <<s, k>> \in Near
<1> DEFINE E == EndOf(found).rows
           L == Len(found)
<1>1. DOMAIN found = 1 .. L /\ L \in Nat
  BY DEF IsTable
<1>2. PICK g : PlaceOfRow(memories, g, found)
  BY RepairedIs
<1>3. LoopAt(EndOf(found), found, L)
  BY LoopEnds
<1>4. IsList(Scrubbed(found[i]))
  BY DEF Taken, Scrubbed
<1>5. PICK k \in EndOf(found).shared : k = s \/ <<s, k>> \in Near
  BY <1>1, <1>3, <1>4 DEF LoopAt, ListedNow
<1>6. DOMAIN memories = 1 .. Len(memories)
  BY <1>2 DEF PlaceOfRow
<1>7. ASSUME NEW m \in 1 .. Len(E), E[m].there, IsTicker(E[m]), E[m].symbol = k PROVE k \in Tickers(memories)
  <2>1. PICK j \in 1 .. Len(memories) : g[j] = m /\ memories[j] = E[m]
    BY <1>2, <1>7, PlaceTaken
  <2> QED
    BY <1>6, <1>7, <2>1 DEF Tickers
<1>8. CASE k \in Tickers(FirstPass(found))
  <2>1. PICK j \in 1 .. L : IsTicker(found[j]) /\ found[j].symbol = k
    BY <1>8, TickersOf
  <2>2. CASE found[j].secret = "no"
    <3>1. E[j].there /\ IsTicker(E[j]) /\ E[j].symbol = k
      BY <2>1, <2>2, StayedIs
    <3>2. j \in 1 .. Len(E)
      <4>1. L <= Len(E) /\ Len(E) \in Nat
        BY <1>3 DEF LoopAt
      <4> QED
        BY <1>1, <4>1
    <3>3. k \in Tickers(memories)
      BY <1>7, <3>1, <3>2
    <3> QED
      BY <1>5, <3>3
  <2>3. CASE found[j].secret # "no"
    BY <1>1, <1>5, <2>1, <2>3
  <2> QED
    BY <2>2, <2>3
<1>9. CASE k \notin Tickers(FirstPass(found))
  <2>1. PICK m \in L + 1 .. Len(E) : E[m].symbol = k
    BY <1>3, <1>9 DEF LoopAt
  <2>2. m \in 1 .. Len(E) /\ NewOne(E[m], found)
    BY <1>1, <1>3 DEF LoopAt, NewOnes
  <2>3. Added(E[m], found)
    BY <2>2, AddedIs
  <2>4. k \in Tickers(memories)
    BY <1>7, <2>1, <2>2, <2>3 DEF Added, IsRow
  <2> QED
    BY <1>5, <2>4
<1> QED
  BY <1>8, <1>9

LEMMA CountsStand ==
  ASSUME IsTable(found), memories = Repaired(found), NEW s \in Symbols,
         Count(memories, s) > Count(found, s)
  PROVE  Count(memories, s) = 1
<1> DEFINE A == {j \in DOMAIN memories : IsTicker(memories[j]) /\ memories[j].symbol = s}
           B == {j \in DOMAIN found : IsTicker(found[j]) /\ found[j].symbol = s}
<1>1. PICK g : PlaceOfRow(memories, g, found)
  BY RepairedIs
<1>2. DOMAIN memories = 1 .. Len(memories) /\ DOMAIN found = 1 .. Len(found) /\ Len(found) \in Nat
  BY <1>1 DEF PlaceOfRow, IsTable
<1>3. Count(memories, s) = Cardinality(A) /\ Count(found, s) = Cardinality(B)
  BY DEF Count
<1>4. IsFiniteSet(B)
  <2>1. IsFiniteSet(1 .. Len(found)) /\ B \subseteq 1 .. Len(found)
    BY <1>2, FS_Interval
  <2> HIDE DEF B
  <2> QED
    BY <2>1, FS_Subset
<1>5. CASE \A j \in A : g[j] \in 1 .. Len(found)
  <2> DEFINE h == [j \in A |-> g[j]]
  <2>1. \A j \in A : g[j] \in B
    <3> SUFFICES ASSUME NEW j \in A PROVE g[j] \in B
      OBVIOUS
    <3>1. Stayed(memories[j], found[g[j]], found)
      BY <1>1, <1>2, <1>5, PlacedRow
    <3> QED
      BY <1>2, <1>5, <3>1 DEF Stayed
  <2>2. \A j, k \in A : g[j] = g[k] => j = k
    BY <1>1, <1>2 DEF PlaceOfRow
  <2> HIDE DEF A, B
  <2>3. h \in Injection(A, B)
    BY <2>1, <2>2 DEF Injection, IsInjective
  <2> HIDE DEF h
  <2>4. Cardinality(A) <= Cardinality(B) /\ IsFiniteSet(A)
    BY <1>4, <2>3, FS_Injection
  <2>5. Cardinality(A) \in Nat /\ Cardinality(B) \in Nat
    BY <1>4, <2>4, FS_CardinalityType
  <2> QED
    BY <1>3, <2>4, <2>5
<1>6. ASSUME NEW j \in A, g[j] \notin 1 .. Len(found) PROVE Count(memories, s) = 1
  <2>1. Added(memories[j], found) /\ s \notin Tickers(FirstPass(found))
    <3>1. Added(memories[j], found)
      BY <1>1, <1>2, <1>6, PlacedRow
    <3> QED
      BY <1>6, <3>1 DEF Added
  <2>2. ASSUME NEW k \in A PROVE k = j
    <3>1. g[k] \notin 1 .. Len(found)
      <4> SUFFICES ASSUME g[k] \in 1 .. Len(found) PROVE FALSE
        OBVIOUS
      <4>1. Stayed(memories[k], found[g[k]], found)
        BY <1>1, <1>2, PlacedRow
      <4> QED
        BY <2>1, <4>1 DEF Stayed
    <3> DEFINE E == EndOf(found).rows
    <3>2. NewOnes(E, found) /\ Len(E) \in Nat /\ Len(found) <= Len(E)
      BY LoopEnds DEF LoopAt
    <3>3. g[j] \in 1 .. Len(E) /\ g[k] \in 1 .. Len(E) /\ memories[j] = E[g[j]] /\ memories[k] = E[g[k]]
      BY <1>1, <1>2, PlacedRow
    <3>4. g[j] \in Len(found) + 1 .. Len(E) /\ g[k] \in Len(found) + 1 .. Len(E)
      BY <1>2, <1>6, <3>1, <3>2, <3>3
    <3>5. E[g[j]].symbol = E[g[k]].symbol
      BY <3>3
    <3>6. g[j] = g[k]
      BY <3>2, <3>4, <3>5 DEF NewOnes
    <3> QED
      BY <1>1, <1>2, <3>6 DEF PlaceOfRow
  <2>3. A = {j}
    BY <1>6, <2>2
  <2> QED
    BY <1>3, <2>3, FS_Singleton
<1> QED
  BY <1>5, <1>6

LEMMA RepairSound ==
  ASSUME RepairIInv
  PROVE  RepairInv
<1>1. RepairTypeOK
  BY DEF RepairIInv, IsTable, RepairTypeOK
<1>2. OnlyHandedDown
  BY HandedIs DEF RepairIInv, OnlyHandedDown
<1>3. SettlesInTwo
  BY TwoSettle DEF RepairIInv, SettlesInTwo
<1>4. ListsAreKept
  BY ListsStand DEF RepairIInv, ListsAreKept
<1>5. NothingListedTwice
  BY CountsStand DEF RepairIInv, NothingListedTwice
<1> QED
  BY <1>1, <1>2, <1>3, <1>4, <1>5 DEF RepairInv

LEMMA RepairBegins ==
  ASSUME RepairInit
  PROVE  RepairIInv
<1>1. IsTable(memories)
  BY RepairAssumption DEF RepairInit, IsTable
<1> QED
  BY <1>1, RepairAssumption DEF RepairInit, RepairIInv

LEMMA EditKeeps ==
  ASSUME RepairIInv, Edit, IsTable(memories')
  PROVE  RepairIInv'
<1>1. edits' \in 0 .. MaxEdits /\ found' = found /\ repaired' = FALSE
  BY RepairAssumption DEF RepairIInv, Edit
<1>2. IsTable(found)'
  BY <1>1 DEF RepairIInv
<1>3. IsTable(memories)'
  OBVIOUS
<1> QED
  BY <1>1, <1>2, <1>3 DEF RepairIInv

LEMMA ShowToKeeps ==
  ASSUME RepairIInv, NEW i \in DOMAIN memories, NEW v \in {"private", "guild_shared", "lore"}, ShowTo(i, v)
  PROVE  RepairIInv'
<1>1. memories \in Seq(ToSet(memories)) /\ DOMAIN memories = 1 .. Len(memories) /\ Len(memories) \in Nat
      /\ \A j \in 1 .. Len(memories) : IsRow(memories[j])
  BY DEF RepairIInv, IsTable
<1>2. memories' = [memories EXCEPT ![i].visibility = v]
  BY DEF ShowTo
<1>3. /\ DOMAIN memories' = 1 .. Len(memories) /\ memories' = [j \in 1 .. Len(memories) |-> memories'[j]]
      /\ \A j \in 1 .. Len(memories) : memories'[j] = IF j = i THEN [memories[i] EXCEPT !.visibility = v] ELSE memories[j]
  BY <1>1, <1>2
<1>4. memories' \in Seq(ToSet(memories')) /\ Len(memories') = Len(memories)
  BY <1>1, <1>3, NumberedRows
<1>5. IsRow([memories[i] EXCEPT !.visibility = v])
  <2> DEFINE r == memories[i]
             q == [r EXCEPT !.visibility = v]
  <2>1. IsRow(r)
    BY <1>1
  <2> HIDE DEF r
  <2>2. DOMAIN q = DOMAIN r /\ q.visibility = v /\ q.there = r.there /\ q.symbol = r.symbol /\ q.says = r.says
    BY <2>1 DEF IsRow
  <2> HIDE DEF q
  <2>3. IsRow(q)
    BY <2>1, <2>2 DEF IsRow
  <2> QED
    BY <2>3 DEF q, r
<1>6. IsTable(memories')
  BY <1>1, <1>3, <1>4, <1>5 DEF IsTable
<1> QED
  BY <1>6, EditKeeps DEF ShowTo

LEMMA ForgetMemoryKeeps ==
  ASSUME RepairIInv, NEW i \in DOMAIN memories, ForgetMemory(i)
  PROVE  RepairIInv'
<1> DEFINE t == [memories EXCEPT ![i].there = FALSE]
           R == There(t)
<1>1. memories \in Seq(ToSet(memories)) /\ DOMAIN memories = 1 .. Len(memories) /\ Len(memories) \in Nat
      /\ \A j \in 1 .. Len(memories) : IsRow(memories[j])
  BY DEF RepairIInv, IsTable
<1>2. /\ t = [j \in 1 .. Len(memories) |-> t[j]]
      /\ \A j \in 1 .. Len(memories) : t[j] = IF j = i THEN [memories[i] EXCEPT !.there = FALSE] ELSE memories[j]
  BY <1>1
<1>3. ~ t[i].there
  <2>1. IsRow(memories[i]) /\ t[i] = [memories[i] EXCEPT !.there = FALSE]
    BY <1>1, <1>2
  <2> QED
    BY <2>1 DEF IsRow
<1> HIDE DEF t
<1>4. t \in Seq(ToSet(t)) /\ Len(t) = Len(memories) /\ DOMAIN t = 1 .. Len(memories)
  BY <1>1, <1>2, NumberedRows
<1>5. PICK g : PickOf(R, g, t, Len(t))
  BY <1>4, ThereIs
<1>6. R \in Seq(ToSet(t)) /\ \A j \in 1 .. Len(R) : R[j] = t[g[j]] /\ t[g[j]].there /\ g[j] \in 1 .. Len(t)
  BY <1>5 DEF PickOf
<1> HIDE DEF R
<1>7. R = [j \in 1 .. Len(R) |-> R[j]] /\ DOMAIN R = 1 .. Len(R) /\ Len(R) \in Nat
  BY <1>6
<1>8. R \in Seq(ToSet(R))
  BY <1>7, NumberedRows
<1>9. \A j \in 1 .. Len(R) : IsRow(R[j])
  BY <1>1, <1>2, <1>3, <1>4, <1>6
<1>10. IsTable(R)
  BY <1>7, <1>8, <1>9 DEF IsTable
<1>11. memories' = R
  BY DEF ForgetMemory, R, t
<1> QED
  BY <1>10, <1>11, EditKeeps DEF ForgetMemory

LEMMA LearnTickerKeeps ==
  ASSUME RepairIInv, NEW s \in Symbols, NEW own \in BOOLEAN, LearnTicker(s, own)
  PROVE  RepairIInv'
<1> DEFINE r == IF own THEN [TickerRow(s, "no") EXCEPT !.visibility = "private", !.key = "own ticker"]
                ELSE TickerRow(s, "no")
<1>1. memories \in Seq(ToSet(memories)) /\ DOMAIN memories = 1 .. Len(memories) /\ Len(memories) \in Nat
      /\ \A j \in 1 .. Len(memories) : IsRow(memories[j])
  BY DEF RepairIInv, IsTable
<1>2. IsRow(r)
  <2>1. /\ DOMAIN r = RowFields /\ r.there = TRUE /\ r.symbol = s /\ r.says = {}
        /\ r.visibility \in {"private", "guild_shared"}
    BY DEF TickerRow, RowFields
  <2> HIDE DEF r
  <2>2. RowLike(r)
    BY <2>1, FS_EmptySet DEF RowLike
  <2> QED
    BY <2>1, <2>2, RowsAreAlike
<1>3. memories' = Append(memories, r)
  BY DEF LearnTicker
<1> HIDE DEF r
<1> DEFINE X == ToSet(memories) \cup {r}
<1>4. memories \in Seq(X) /\ r \in X
  BY <1>1
<1> HIDE DEF X
<1>5. /\ memories' \in Seq(X) /\ Len(memories') = Len(memories) + 1
      /\ \A j \in 1 .. Len(memories) : memories'[j] = memories[j]
      /\ memories'[Len(memories) + 1] = r
  BY <1>3, <1>4, AppendProperties
<1>6. DOMAIN memories' = 1 .. Len(memories) + 1 /\ memories' = [j \in 1 .. Len(memories) + 1 |-> memories'[j]]
  BY <1>1, <1>5
<1>7. memories' \in Seq(ToSet(memories'))
  BY <1>1, <1>6, NumberedRows
<1>8. \A j \in 1 .. Len(memories) + 1 : j \in 1 .. Len(memories) \/ j = Len(memories) + 1
  BY <1>1
<1>9. IsTable(memories')
  BY <1>1, <1>2, <1>5, <1>6, <1>7, <1>8 DEF IsTable
<1> QED
  BY <1>9, EditKeeps DEF LearnTicker

LEMMA RepairKept ==
  ASSUME RepairIInv, [RepairNext]_repairVars
  PROVE  RepairIInv'
<1>1. CASE Repair
  <2>1. memories' = Repaired(memories) /\ found' = memories /\ repaired' = TRUE /\ edits' = edits
    BY <1>1 DEF Repair
  <2>2. IsTable(memories) /\ IsTable(Repaired(memories))
    BY RepairedIs DEF RepairIInv
  <2>3. IsTable(memories)' /\ IsTable(found)'
    BY <2>1, <2>2
  <2>4. memories' = Repaired(found)'
    BY <2>1
  <2> QED
    BY <2>1, <2>3, <2>4 DEF RepairIInv
<1>2. ASSUME NEW i \in DOMAIN memories, ForgetMemory(i) PROVE RepairIInv'
  BY <1>2, ForgetMemoryKeeps
<1>3. ASSUME NEW i \in DOMAIN memories, NEW v \in {"private", "guild_shared", "lore"}, ShowTo(i, v) PROVE RepairIInv'
  BY <1>3, ShowToKeeps
<1>4. ASSUME NEW s \in Symbols, NEW own \in BOOLEAN, LearnTicker(s, own) PROVE RepairIInv'
  BY <1>4, LearnTickerKeeps
<1>5. CASE UNCHANGED repairVars
  BY <1>5 DEF repairVars, RepairIInv
<1> QED
  BY <1>1, <1>2, <1>3, <1>4, <1>5 DEF RepairNext

\* Of what is sensitive a repair leaves only the excerpts of lists on the rows it made of
\* them, and the next one not even these; it keeps the symbols of every list and adds
\* none twice (memory/maintenance.py).
THEOREM RepairIsSafe == RepairSpec => []RepairInv
<1>1. RepairInit => RepairIInv
  BY RepairBegins
<1>2. RepairIInv /\ [RepairNext]_repairVars => RepairIInv'
  BY RepairKept
<1>3. RepairIInv => RepairInv
  BY RepairSound
<1> QED
  BY <1>1, <1>2, <1>3, PTL DEF RepairSpec

------------------------------------------------------------------------------
(* BenchmarkVerdict.  A fixture is left or has answered one call (CallsOf);*)
(* a case is graded at most once in a suite, and its scores follow from its*)
(* grade (GradeIs).  A change that makes no attempt worse adds as many     *)
(* points as it adds to what can be scored, or more, so no rate falls.     *)

IsSequence(s) == s \in Seq(ToSet(s))

GradeIs(r) ==
  /\ r.case \in DOMAIN BenchCases /\ r.status \in {"pass", "fail", "error", "skip"}
  /\ r.score \in Nat /\ r.max \in Nat /\ r.score <= r.max
  /\ r.status \in {"error", "skip"} => r.score = 0 /\ r.max = 0
  /\ r.status \in {"pass", "fail"} => r.max = Cardinality(Checks(BenchCases[r.case]))
  /\ r.status = "pass" => r.score = r.max

GradesAre(g) ==
  /\ IsSequence(g) /\ \A i \in 1 .. Len(g) : GradeIs(g[i])
  /\ \A i, j \in 1 .. Len(g) : g[i].case = g[j].case => i = j

CallsOf(case, log, kept) ==
  /\ IsSequence(log) /\ Len(log) <= MaxForms
  /\ \A i \in 1 .. Len(log) :
       /\ log[i].from # 0 => /\ log[i].from \in DOMAIN case.frozen \ kept
                             /\ case.frozen[log[i].from].tool = log[i].form.tool
                             /\ case.frozen[log[i].from].args = log[i].form.args
       /\ case.frozen # <<>> /\ log[i].status = "ok" => log[i].from # 0
  /\ \A i, j \in 1 .. Len(log) : log[i].from = log[j].from /\ log[i].from # 0 => i = j

RunIs ==
  \/ run = NotRunning
  \/ /\ run.case \in DOMAIN BenchCases /\ DOMAIN run = {"case", "left", "log"}
     /\ run.left \subseteq DOMAIN BenchCases[run.case].frozen
     /\ CallsOf(BenchCases[run.case], run.log, run.left)
LastIs ==
  \/ last = NotGraded
  \/ /\ last.case \in DOMAIN BenchCases /\ CallsOf(BenchCases[last.case], last.log, {})
     /\ MayEnd(last.end, last.log) /\ last.grade = Grade(BenchCases[last.case], last.log, last.end)
     /\ last.end \in AttemptEnds

VerdictIInv ==
  /\ RunIs /\ LastIs /\ GradesAre(grades) /\ GradesAre(basis)
  /\ batch.cases \subseteq DOMAIN BenchCases
  /\ run.case # 0 => batch # NoBatch /\ run.case \notin CasesOf(grades)
  /\ batch # NoBatch => outcome = "none"
  /\ batch = NoBatch /\ outcome = "none" => grades = <<>>
  /\ \A i \in DOMAIN grades : grades[i].status = "skip" => batch.at = "command" \/ outcome = "told"
  /\ \A i \in DOMAIN basis : basis[i].status # "skip"
  /\ outcome \in {"none", "told", "passed", "failed"}
  /\ outcome = "passed" => HoldsAgainst(grades, basis)
  /\ outcome = "failed" => ~ HoldsAgainst(grades, basis)

\* One more entry of a sequence.
Longer(h, g, e) ==
  /\ IsSequence(h) /\ Len(g) \in Nat /\ Len(h) = Len(g) + 1
  /\ DOMAIN g = 1 .. Len(g) /\ DOMAIN h = 1 .. Len(h)
  /\ \A j \in 1 .. Len(g) : h[j] = g[j]
  /\ \A j \in 1 .. Len(h) : j \in 1 .. Len(g) \/ j = Len(h)
  /\ h[Len(h)] = e

LEMMA EntryAdded ==
  ASSUME NEW g, IsSequence(g), NEW e
  PROVE  Longer(Append(g, e), g, e)
<1> DEFINE X == ToSet(g) \cup {e}
           h == Append(g, e)
<1>1. g \in Seq(X) /\ e \in X /\ Len(g) \in Nat /\ DOMAIN g = 1 .. Len(g)
  BY DEF IsSequence
<1> HIDE DEF X
<1>2. /\ h \in Seq(X) /\ Len(h) = Len(g) + 1 /\ h[Len(g) + 1] = e
      /\ \A j \in 1 .. Len(g) : h[j] = g[j]
  BY <1>1, AppendProperties
<1> HIDE DEF h
<1>3. DOMAIN h = 1 .. Len(g) + 1 /\ h = [j \in 1 .. Len(g) + 1 |-> h[j]] /\ Len(g) + 1 \in Nat
  BY <1>1, <1>2
<1>4. IsSequence(h)
  BY <1>3, NumberedRows DEF IsSequence
<1>5. \A j \in 1 .. Len(h) : j \in 1 .. Len(g) \/ j = Len(h)
  BY <1>1, <1>2
<1>6. h[Len(h)] = e /\ DOMAIN h = 1 .. Len(h)
  BY <1>2, <1>3
<1>7. Longer(h, g, e)
  BY <1>1, <1>2, <1>4, <1>5, <1>6 DEF Longer
<1> QED
  BY <1>7 DEF h

\* What is checked of a case is a number of things, and no score is above it.
LEMMA ChecksAreFew ==
  ASSUME NEW i \in DOMAIN BenchCases
  PROVE  IsFiniteSet(Checks(BenchCases[i]))
<1> DEFINE c == BenchCases[i]
           P == {<<"answer", "">>, <<"stop", "">>, <<"limit", "">>}
           A == {<<"any", "">> : any \in {c.any} \ {{}}}
<1>1. IsFiniteSet(P)
  <2>1. IsFiniteSet({<<"answer", "">>})
    BY FS_Singleton
  <2>2. IsFiniteSet({<<"answer", "">>} \cup {<<"stop", "">>})
    BY <2>1, FS_AddElement
  <2>3. IsFiniteSet(({<<"answer", "">>} \cup {<<"stop", "">>}) \cup {<<"limit", "">>})
    BY <2>2, FS_AddElement
  <2>4. P = ({<<"answer", "">>} \cup {<<"stop", "">>}) \cup {<<"limit", "">>}
    OBVIOUS
  <2> QED
    BY <2>3, <2>4
<1>2. IsFiniteSet(A)
  <2>1. A = {} \/ A = {<<"any", "">>}
    OBVIOUS
  <2> QED
    BY <2>1, FS_EmptySet, FS_Singleton
<1>3. IsFiniteSet(c.need) /\ IsFiniteSet(c.tried) /\ IsFiniteSet(c.never)
  BY VerdictAssumption
<1>4. /\ IsFiniteSet({"need"} \X c.need) /\ IsFiniteSet({"tried"} \X c.tried)
      /\ IsFiniteSet({"never"} \X c.never)
  <2>1. IsFiniteSet({"need"}) /\ IsFiniteSet({"tried"}) /\ IsFiniteSet({"never"})
    BY FS_Singleton
  <2> QED
    BY <1>3, <2>1, FS_Product
<1> HIDE DEF P, A
<1>5. IsFiniteSet(P \cup (({"need"} \X c.need) \cup (({"tried"} \X c.tried) \cup (({"never"} \X c.never) \cup A))))
  BY <1>1, <1>2, <1>4, FS_Union
<1>6. Checks(c) = P \cup (({"need"} \X c.need) \cup (({"tried"} \X c.tried) \cup (({"never"} \X c.never) \cup A)))
  BY DEF Checks, P, A
<1> QED
  BY <1>5, <1>6

\* The grade of an attempt that could be evaluated.
LEMMA GradedIs ==
  ASSUME NEW i \in DOMAIN BenchCases, NEW log, NEW e,
         NEW r, r = [case |-> i, status |-> Grade(BenchCases[i], log, e),
                     score |-> Cardinality(Held(BenchCases[i], log, e)),
                     max |-> Cardinality(Checks(BenchCases[i]))],
         Grade(BenchCases[i], log, e) # "error"
  PROVE  GradeIs(r) /\ r.status # "skip"
<1> DEFINE H == Held(BenchCases[i], log, e)
           C == Checks(BenchCases[i])
<1>1. H \subseteq C
  BY DEF Held
<1>2. IsFiniteSet(C)
  BY ChecksAreFew
<1>3. Grade(BenchCases[i], log, e) \in {"pass", "fail"} /\ (Grade(BenchCases[i], log, e) = "pass" => H = C)
  BY DEF Grade
<1> HIDE DEF H, C
<1>4. Cardinality(H) <= Cardinality(C) /\ Cardinality(H) \in Nat /\ Cardinality(C) \in Nat
  BY <1>1, <1>2, FS_Subset, FS_CardinalityType
<1>5. r.case = i /\ r.status = Grade(BenchCases[i], log, e) /\ r.score = Cardinality(H) /\ r.max = Cardinality(C)
  BY DEF H, C
<1>6. r.status = "pass" => r.score = r.max
  BY <1>3, <1>5
<1>7. r.max = Cardinality(Checks(BenchCases[r.case]))
  BY <1>5 DEF C
<1> QED
  BY <1>3, <1>4, <1>5, <1>6, <1>7 DEF GradeIs

LEMMA NothingScored ==
  ASSUME NEW i \in DOMAIN BenchCases, NEW s \in {"error", "skip"},
         NEW r, r = [case |-> i, status |-> s, score |-> 0, max |-> 0]
  PROVE  GradeIs(r)
BY DEF GradeIs

------------------------------------------------------------------------------
(* Sums over the attempts of a suite.                                      *)

IsSums(f, g, k) ==
  f = [n \in 0 .. k |->
         IF n = 0 THEN [score |-> 0, max |-> 0]
         ELSE [score |-> f[n - 1].score + g[n].score, max |-> f[n - 1].max + g[n].max]]

LEMMA SumsExist ==
  ASSUME NEW g, NEW k \in Nat
  PROVE  \E f : IsSums(f, g, k)
<1> DEFINE T == {n \in 0 .. k : \E f : IsSums(f, g, n)}
<1>1. 0 \in T
  <2>1. IsSums([m \in 0 .. 0 |-> [score |-> 0, max |-> 0]], g, 0)
    BY DEF IsSums
  <2> QED
    BY <2>1
<1>2. ASSUME NEW n \in 1 .. k, n - 1 \in T PROVE n \in T
  <2>1. PICK f : IsSums(f, g, n - 1)
    BY <1>2
  <2> DEFINE top == [score |-> f[n - 1].score + g[n].score, max |-> f[n - 1].max + g[n].max]
             h == [m \in 0 .. n |-> IF m = n THEN top ELSE f[m]]
  <2>2. ASSUME NEW m \in 0 .. n
        PROVE  h[m] = IF m = 0 THEN [score |-> 0, max |-> 0]
                      ELSE [score |-> h[m - 1].score + g[m].score, max |-> h[m - 1].max + g[m].max]
    <3>1. CASE m = n
      <4>1. m # 0 /\ h[m - 1] = f[n - 1] /\ h[m] = top
        BY <3>1
      <4> HIDE DEF h
      <4> QED
        BY <3>1, <4>1
    <3>2. CASE m # n
      <4>1. m \in 0 .. n - 1
        BY <3>2
      <4>2. f[m] = IF m = 0 THEN [score |-> 0, max |-> 0]
                   ELSE [score |-> f[m - 1].score + g[m].score, max |-> f[m - 1].max + g[m].max]
        BY <2>1, <4>1, Zenon DEF IsSums
      <4>3. m # 0 => h[m - 1] = f[m - 1]
        BY <4>1
      <4>4. h[m] = f[m]
        BY <3>2
      <4> HIDE DEF h
      <4> QED
        BY <4>2, <4>3, <4>4
    <3> QED
      BY <3>1, <3>2
  <2> HIDE DEF h
  <2>3. h = [m \in 0 .. n |-> h[m]]
    BY DEF h
  <2>4. IsSums(h, g, n)
    BY <2>2, <2>3, Zenon DEF IsSums
  <2> QED
    BY <2>4
<1> HIDE DEF T
<1>3. \A n \in 0 .. k : n \in T
  BY <1>1, <1>2, UpTo
<1>4. k \in T
  BY <1>3
<1> QED
  BY <1>4 DEF T

LEMMA SumsAre ==
  ASSUME NEW g, Len(g) \in Nat
  PROVE  /\ Sums(g)[0] = [score |-> 0, max |-> 0]
         /\ \A n \in 1 .. Len(g) : Sums(g)[n] = [score |-> Sums(g)[n - 1].score + g[n].score,
                                                 max |-> Sums(g)[n - 1].max + g[n].max]
<1>1. PICK f : IsSums(f, g, Len(g))
  BY SumsExist
<1>2. IsSums(Sums(g), g, Len(g))
  BY <1>1 DEF Sums, IsSums
<1> DEFINE h == Sums(g)
<1>3. h = [n \in 0 .. Len(g) |->
             IF n = 0 THEN [score |-> 0, max |-> 0]
             ELSE [score |-> h[n - 1].score + g[n].score, max |-> h[n - 1].max + g[n].max]]
  BY <1>2 DEF IsSums
<1> HIDE DEF h
<1>4. \A n \in 0 .. Len(g) : h[n] = IF n = 0 THEN [score |-> 0, max |-> 0]
                                    ELSE [score |-> h[n - 1].score + g[n].score, max |-> h[n - 1].max + g[n].max]
  BY <1>3, Zenon
<1>5. 0 \in 0 .. Len(g) /\ \A n \in 1 .. Len(g) : n \in 0 .. Len(g) /\ n # 0
  OBVIOUS
<1>6. h[0] = [score |-> 0, max |-> 0]
  BY <1>4, <1>5
<1>7. ASSUME NEW n \in 1 .. Len(g)
      PROVE  h[n] = [score |-> h[n - 1].score + g[n].score, max |-> h[n - 1].max + g[n].max]
  BY <1>4, <1>5
<1> QED
  BY <1>6, <1>7 DEF h

NoWorse(was, is) ==
  /\ Len(is) = Len(was) /\ \A i \in 1 .. Len(was) : Better(was[i], is[i])

\* What an attempt adds to the score it adds to what could be scored, or more.
LEMMA PointsAdded ==
  ASSUME NEW was, NEW is, GradeIs(was), GradeIs(is), Better(was, is)
  PROVE  is.max >= was.max /\ is.score - was.score >= is.max - was.max
<1>1. CASE is.status = "pass"
  <2>1. is.case = was.case /\ is.score = is.max /\ is.max = Cardinality(Checks(BenchCases[is.case]))
    BY <1>1 DEF GradeIs, Better
  <2>2. (was.max = 0 /\ was.score = 0) \/ was.max = is.max
    BY <2>1 DEF GradeIs
  <2> QED
    BY <2>1, <2>2 DEF GradeIs
<1>2. CASE is.status = was.status /\ is.score >= was.score
  <2>1. is.max = was.max
    BY <1>2 DEF GradeIs, Better
  <2> QED
    BY <1>2, <2>1 DEF GradeIs
<1> QED
  BY <1>1, <1>2 DEF Better

LEMMA BothGrow ==
  ASSUME NEW a \in Nat, NEW b \in Nat, NEW c \in Nat, NEW d \in Nat, a <= b, d >= b, c - a >= d - b,
         NEW p \in Nat, NEW q \in Nat, NEW r \in Nat, NEW s \in Nat, p <= q, s >= q, r - p >= s - q
  PROVE  /\ a + p \in Nat /\ b + q \in Nat /\ c + r \in Nat /\ d + s \in Nat
         /\ a + p <= b + q /\ d + s >= b + q /\ (c + r) - (a + p) >= (d + s) - (b + q)
OBVIOUS

LEMMA SumsGrow ==
  ASSUME NEW was, NEW is, GradesAre(was), GradesAre(is), NoWorse(was, is)
  PROVE  /\ {Scored(was), Scorable(was), Scored(is), Scorable(is)} \subseteq Nat
         /\ Scored(was) <= Scorable(was) /\ Scorable(is) >= Scorable(was)
         /\ Scored(is) - Scored(was) >= Scorable(is) - Scorable(was)
<1> DEFINE k == Len(was)
           a == Sums(was)
           b == Sums(is)
           T == {n \in 0 .. k : /\ a[n].score \in Nat /\ a[n].max \in Nat /\ b[n].score \in Nat /\ b[n].max \in Nat
                                /\ a[n].score <= a[n].max /\ b[n].max >= a[n].max
                                /\ b[n].score - a[n].score >= b[n].max - a[n].max}
<1>1. k \in Nat /\ Len(is) = k
  BY DEF GradesAre, NoWorse
<1>2. /\ a[0] = [score |-> 0, max |-> 0] /\ b[0] = [score |-> 0, max |-> 0]
      /\ \A n \in 1 .. k : a[n] = [score |-> a[n - 1].score + was[n].score, max |-> a[n - 1].max + was[n].max]
      /\ \A n \in 1 .. k : b[n] = [score |-> b[n - 1].score + is[n].score, max |-> b[n - 1].max + is[n].max]
  BY <1>1, SumsAre
<1> HIDE DEF a, b
<1>3. 0 \in T
  BY <1>1, <1>2
<1>4. ASSUME NEW n \in 1 .. k, n - 1 \in T PROVE n \in T
  <2>1. /\ was[n].score \in Nat /\ was[n].max \in Nat /\ is[n].score \in Nat /\ is[n].max \in Nat
        /\ was[n].score <= was[n].max
    BY <1>1 DEF GradesAre, GradeIs
  <2>2. is[n].max >= was[n].max /\ is[n].score - was[n].score >= is[n].max - was[n].max
    BY <1>1, PointsAdded DEF GradesAre, NoWorse
  <2>3. /\ a[n].score = a[n - 1].score + was[n].score /\ a[n].max = a[n - 1].max + was[n].max
        /\ b[n].score = b[n - 1].score + is[n].score /\ b[n].max = b[n - 1].max + is[n].max
    <3>1. a[n] = [score |-> a[n - 1].score + was[n].score, max |-> a[n - 1].max + was[n].max]
      BY <1>2, Zenon
    <3>2. b[n] = [score |-> b[n - 1].score + is[n].score, max |-> b[n - 1].max + is[n].max]
      BY <1>2, Zenon
    <3> QED
      BY <3>1, <3>2
  <2>4. n \in 0 .. k
    BY <1>1
  <2>5. /\ a[n - 1].score \in Nat /\ a[n - 1].max \in Nat /\ b[n - 1].score \in Nat /\ b[n - 1].max \in Nat
        /\ a[n - 1].score <= a[n - 1].max /\ b[n - 1].max >= a[n - 1].max
        /\ b[n - 1].score - a[n - 1].score >= b[n - 1].max - a[n - 1].max
    BY <1>4
  <2>6. /\ a[n].score \in Nat /\ a[n].max \in Nat /\ b[n].score \in Nat /\ b[n].max \in Nat
        /\ a[n].score <= a[n].max /\ b[n].max >= a[n].max
        /\ b[n].score - a[n].score >= b[n].max - a[n].max
    <3> DEFINE u == a[n - 1]
               v == b[n - 1]
               x == was[n]
               y == is[n]
    <3>1. u.score + x.score = a[n].score /\ u.max + x.max = a[n].max /\ v.score + y.score = b[n].score /\ v.max + y.max = b[n].max
      BY <2>3
    <3>2. /\ u.score \in Nat /\ u.max \in Nat /\ v.score \in Nat /\ v.max \in Nat /\ u.score <= u.max /\ v.max >= u.max
          /\ v.score - u.score >= v.max - u.max
      BY <2>5
    <3>3. /\ x.score \in Nat /\ x.max \in Nat /\ y.score \in Nat /\ y.max \in Nat /\ x.score <= x.max /\ y.max >= x.max
          /\ y.score - x.score >= y.max - x.max
      BY <2>1, <2>2
    <3> HIDE DEF u, v, x, y
    <3>4. /\ u.score + x.score \in Nat /\ u.max + x.max \in Nat /\ v.score + y.score \in Nat /\ v.max + y.max \in Nat
          /\ u.score + x.score <= u.max + x.max /\ v.max + y.max >= u.max + x.max
          /\ (v.score + y.score) - (u.score + x.score) >= (v.max + y.max) - (u.max + x.max)
      BY <3>2, <3>3, BothGrow
    <3> QED
      BY <3>1, <3>4, Zenon
  <2> QED
    BY <2>4, <2>6
<1> HIDE DEF T
<1>5. \A n \in 0 .. k : n \in T
  BY <1>1, <1>3, <1>4, UpTo
<1>6. k \in T
  BY <1>1, <1>5
<1>7. Scored(was) = a[k].score /\ Scorable(was) = a[k].max /\ Scored(is) = b[k].score /\ Scorable(is) = b[k].max
  BY <1>1 DEF Scored, Scorable, a, b
<1> HIDE DEF k
<1> QED
  BY <1>6, <1>7 DEF T

\* A rate does not fall when as much is added above as below.
LEMMA NoRateFalls ==
  ASSUME NEW a \in Nat, NEW b \in Nat, NEW c \in Nat, NEW d \in Nat,
         a <= b, d >= b, c - a >= d - b
  PROVE  ~ Fell(a, b, c, d)
<1> DEFINE p == d - b
           q == c - a - p
<1>1. p \in Nat /\ q \in Nat /\ d = b + p /\ c = a + p + q
  OBVIOUS
<1> HIDE DEF p, q
<1>2. a * p <= b * p
  BY <1>1
<1>3. c * b = a * b + p * b + q * b /\ a * d = a * b + a * p
  BY <1>1
<1>4. p * b = b * p /\ q * b \in Nat /\ {a * b, a * p, b * p} \subseteq Nat
  BY <1>1
<1>5. ~ (c * b < a * d)
  BY <1>2, <1>3, <1>4
<1>6. b # 0 => d # 0
  OBVIOUS
<1> QED
  BY <1>5, <1>6 DEF Fell

LEMMA TalliesOf ==
  ASSUME NEW was, NEW is, Len(was) \in Nat, DOMAIN was = 1 .. Len(was), DOMAIN is = 1 .. Len(was),
         NEW s, NEW t, \A i \in 1 .. Len(was) : was[i].status = s => is[i].status = t
  PROVE  Tally(was, s) \in Nat /\ Tally(is, t) \in Nat /\ Tally(was, s) <= Tally(is, t) /\ Tally(is, t) <= Len(was)
<1> DEFINE A == {i \in DOMAIN was : was[i].status = s}
           B == {i \in DOMAIN is : is[i].status = t}
<1>1. A \subseteq B /\ B \subseteq 1 .. Len(was)
  OBVIOUS
<1>2. Tally(was, s) = Cardinality(A) /\ Tally(is, t) = Cardinality(B)
  BY DEF Tally
<1> DEFINE k == Len(was)
<1>3. k \in Nat /\ B \subseteq 1 .. k
  BY <1>1
<1> HIDE DEF A, B, k
<1>4. IsFiniteSet(B) /\ Cardinality(B) <= k
  <2> DEFINE I == 1 .. k
  <2>1. IsFiniteSet(I) /\ Cardinality(I) = k
    BY <1>3, FS_Interval
  <2>2. B \in SUBSET I
    BY <1>3
  <2> HIDE DEF I
  <2> QED
    BY <2>1, <2>2, FS_Subset
<1>5. IsFiniteSet(A) /\ Cardinality(A) <= Cardinality(B)
  BY <1>1, <1>4, FS_Subset
<1> QED
  BY <1>2, <1>4, <1>5, FS_CardinalityType DEF k

LEMMA NothingIsLost ==
  ASSUME NEW was, NEW is, GradesAre(was), GradesAre(is), NoWorse(was, is),
         \A i \in 1 .. Len(was) : was[i].status # "skip" /\ is[i].status # "skip"
  PROVE  HoldsAgainst(is, was)
<1>1. /\ Len(was) \in Nat /\ Len(is) = Len(was) /\ DOMAIN was = 1 .. Len(was) /\ DOMAIN is = 1 .. Len(was)
      /\ \A i \in 1 .. Len(was) : Better(was[i], is[i])
  BY DEF GradesAre, NoWorse
<1>2. \A i \in 1 .. Len(was) : /\ is[i].case = was[i].case
                               /\ is[i].status = "pass" \/ is[i].status = was[i].status
  BY <1>1 DEF Better
<1>3. CasesOf(is) = CasesOf(was)
  BY <1>1, <1>2 DEF CasesOf
<1>4. Tally(is, "fail") <= Tally(was, "fail") /\ Tally(is, "error") <= Tally(was, "error")
  <2>1. \A i \in 1 .. Len(is) : is[i].status = "fail" => was[i].status = "fail"
    BY <1>1, <1>2
  <2>5. \A i \in 1 .. Len(is) : is[i].status = "error" => was[i].status = "error"
    BY <1>1, <1>2
  <2>2. Len(is) \in Nat /\ DOMAIN is = 1 .. Len(is) /\ DOMAIN was = 1 .. Len(is)
    BY <1>1
  <2>3. Tally(is, "fail") <= Tally(was, "fail")
    BY <2>1, <2>2, TalliesOf
  <2>4. Tally(is, "error") <= Tally(was, "error")
    BY <2>5, <2>2, TalliesOf
  <2> QED
    BY <2>3, <2>4
<1>5. ~ Fell(Tally(was, "pass"), Evaluated(was), Tally(is, "pass"), Evaluated(is))
  <2>1. \A i \in 1 .. Len(was) : was[i].status = "pass" => is[i].status = "pass"
    BY <1>1, <1>2
  <2>2. /\ Tally(was, "pass") \in Nat /\ Tally(is, "pass") \in Nat
        /\ Tally(was, "pass") <= Tally(is, "pass") /\ Tally(is, "pass") <= Len(was)
    BY <1>1, <2>1, TalliesOf
  <2>3. Tally(was, "skip") = 0 /\ Tally(is, "skip") = 0
    <3>1. {i \in DOMAIN was : was[i].status = "skip"} = {} /\ {i \in DOMAIN is : is[i].status = "skip"} = {}
      BY <1>1
    <3> QED
      BY <3>1, FS_EmptySet DEF Tally
  <2>4. Evaluated(was) = Len(was) /\ Evaluated(is) = Len(was)
    BY <1>1, <2>3 DEF Evaluated
  <2> QED
    BY <1>1, <2>2, <2>4, NoRateFalls
<1>6. ~ Fell(Scored(was), Scorable(was), Scored(is), Scorable(is))
  BY SumsGrow, NoRateFalls
<1>7. ASSUME NEW i \in CasesOf(was), Passes(was, i) PROVE Passes(is, i)
  <2>1. /\ {k \in DOMAIN is : is[k].case = i /\ is[k].status # "skip"}
           = {k \in DOMAIN was : was[k].case = i /\ was[k].status # "skip"}
    BY <1>1, <1>2
  <2>2. \A k \in DOMAIN was : was[k].status = "pass" => is[k].status = "pass"
    BY <1>1, <1>2
  <2> QED
    BY <1>7, <2>1, <2>2 DEF Passes
<1> QED
  BY <1>3, <1>4, <1>5, <1>6, <1>7 DEF HoldsAgainst

------------------------------------------------------------------------------
(* The steps.                                                              *)

LEMMA NotATask ==
  /\ 0 \notin DOMAIN BenchCases /\ DOMAIN BenchCases = 1 .. Len(BenchCases) /\ Len(BenchCases) \in Nat
  /\ DOMAIN BenchCases \subseteq Nat
<1>1. DOMAIN BenchCases = 1 .. Len(BenchCases) /\ Len(BenchCases) \in Nat
  BY VerdictAssumption
<1> QED
  BY <1>1

LEMMA RunningIs ==
  ASSUME RunIs, run.case # 0
  PROVE  /\ run.case \in DOMAIN BenchCases /\ DOMAIN run = {"case", "left", "log"}
         /\ run.left \subseteq DOMAIN BenchCases[run.case].frozen
         /\ CallsOf(BenchCases[run.case], run.log, run.left)
BY DEF RunIs, NotRunning

LEMMA NextCaseIs ==
  ASSUME VerdictIInv, ToDo # {}
  PROVE  NextCase \in DOMAIN BenchCases /\ NextCase \notin CasesOf(grades)
<1>1. ToDo \subseteq DOMAIN BenchCases /\ ToDo \subseteq Nat
  BY NotATask DEF ToDo, VerdictIInv
<1>2. \E i \in ToDo : \A k \in ToDo : i <= k
  BY <1>1, LeastOf
<1>3. NextCase \in ToDo
  BY <1>2 DEF NextCase
<1>4. NextCase \notin CasesOf(grades)
  BY <1>3 DEF ToDo
<1>5. NextCase \in DOMAIN BenchCases
  BY <1>1, <1>3
<1> QED
  BY <1>4, <1>5

\* A grade is added to those of a suite that runs.
LEMMA GradeAdded ==
  ASSUME VerdictIInv, NEW r, GradeIs(r), r.case \notin CasesOf(grades), grades' = Append(grades, r),
         batch # NoBatch, r.status = "skip" => batch.at = "command", UNCHANGED <<batch, basis, outcome>>,
         RunIs', LastIs', run'.case = 0
  PROVE  VerdictIInv'
<1> DEFINE h == grades'
<1>1. GradesAre(grades) /\ GradesAre(basis)
  BY DEF VerdictIInv
<1>2. IsSequence(grades)
  BY <1>1 DEF GradesAre
<1>3. Longer(h, grades, r)
  BY <1>2, EntryAdded
<1> HIDE DEF h
<1>4. /\ IsSequence(h) /\ Len(grades) \in Nat /\ Len(h) = Len(grades) + 1
      /\ DOMAIN grades = 1 .. Len(grades) /\ DOMAIN h = 1 .. Len(h)
      /\ \A j \in 1 .. Len(grades) : h[j] = grades[j]
      /\ \A j \in 1 .. Len(h) : j \in 1 .. Len(grades) \/ j = Len(h)
      /\ h[Len(h)] = r
  BY <1>3 DEF Longer
<1>5. \A i \in 1 .. Len(h) : GradeIs(h[i])
  BY <1>1, <1>4 DEF GradesAre
<1>6. \A j \in 1 .. Len(grades) : grades[j].case # r.case
  BY <1>4 DEF CasesOf
<1>7. ASSUME NEW i \in 1 .. Len(h), NEW j \in 1 .. Len(h), h[i].case = h[j].case PROVE i = j
  <2>1. CASE i \in 1 .. Len(grades) /\ j \in 1 .. Len(grades)
    BY <1>1, <1>4, <1>7, <2>1 DEF GradesAre
  <2>2. CASE i \in 1 .. Len(grades) /\ j = Len(h)
    BY <1>4, <1>6, <1>7, <2>2
  <2>3. CASE i = Len(h) /\ j \in 1 .. Len(grades)
    BY <1>4, <1>6, <1>7, <2>3
  <2> QED
    BY <1>4, <2>1, <2>2, <2>3
<1>8. GradesAre(h)
  BY <1>4, <1>5, <1>7 DEF GradesAre
<1>9. batch' = batch /\ basis' = basis /\ outcome' = outcome /\ outcome = "none"
  BY DEF VerdictIInv
<1>10. \A i \in DOMAIN h : h[i].status = "skip" => batch.at = "command"
  <2>1. \A i \in 1 .. Len(grades) : grades[i].status = "skip" => batch.at = "command"
    BY <1>4, <1>9 DEF VerdictIInv
  <2> QED
    BY <1>4, <2>1
<1>11. GradesAre(grades)' /\ GradesAre(basis)'
  BY <1>1, <1>8, <1>9 DEF h
<1>12. (\A i \in DOMAIN grades : grades[i].status = "skip" => batch.at = "command" \/ outcome = "told")'
  BY <1>9, <1>10 DEF h
<1>13. /\ (batch.cases \subseteq DOMAIN BenchCases)' /\ (batch # NoBatch /\ outcome = "none")'
       /\ (\A i \in DOMAIN basis : basis[i].status # "skip")'
  BY <1>9 DEF VerdictIInv
<1> QED
  BY <1>11, <1>12, <1>13 DEF VerdictIInv

LEMMA StartSuiteKeeps ==
  ASSUME VerdictIInv, NEW at \in {"script", "command"}, StartSuite(at)
  PROVE  VerdictIInv'
<1>1. grades = <<>> /\ run.case = 0 /\ outcome = "none" /\ UNCHANGED <<run, last, grades, basis, outcome>>
  BY DEF VerdictIInv, StartSuite
<1>2. PICK cases \in Selected, tools \in ToolSets :
        batch' = [at |-> at, cases |-> cases, tools |-> IF at = "command" THEN tools ELSE {}]
  BY DEF StartSuite
<1>3. batch'.at = at /\ batch'.cases = cases
  BY <1>2
<1>4. batch' # NoBatch /\ batch'.cases \subseteq DOMAIN BenchCases
  BY <1>3, VerdictAssumption DEF NoBatch
<1>5. RunIs' /\ LastIs'
  BY <1>1 DEF VerdictIInv, RunIs, LastIs
<1>6. GradesAre(grades)' /\ GradesAre(basis)'
  BY <1>1 DEF VerdictIInv
<1>7. \A i \in DOMAIN grades' : FALSE
  BY <1>1
<1>8. \A i \in DOMAIN basis' : basis'[i].status # "skip"
  BY <1>1 DEF VerdictIInv
<1> QED
  BY <1>1, <1>4, <1>5, <1>6, <1>7, <1>8 DEF VerdictIInv

LEMMA BeginAttemptKeeps ==
  ASSUME VerdictIInv, BeginAttempt
  PROVE  VerdictIInv'
<1> DEFINE n == NextCase
           c == BenchCases[n]
<1>1. n \in DOMAIN BenchCases /\ n \notin CasesOf(grades)
  <2>1. ToDo # {}
    BY DEF BeginAttempt
  <2> QED
    BY <2>1, NextCaseIs
<1>2. /\ batch # NoBatch /\ run.case = 0 /\ UNCHANGED <<batch, basis, outcome>> /\ last' = NotGraded
  BY DEF BeginAttempt
<1>3. LastIs'
  BY <1>2 DEF LastIs
<1>4. CASE Unavailable(c)
  <2>1. grades' = Append(grades, [case |-> n, status |-> "skip", score |-> 0, max |-> 0]) /\ run' = run
    BY <1>4 DEF BeginAttempt, Graded
  <2>2. batch.at = "command"
    BY <1>4 DEF Unavailable
  <2> HIDE DEF n
  <2> DEFINE r == [case |-> n, status |-> "skip", score |-> 0, max |-> 0]
  <2>3. GradeIs(r) /\ r.case = n
    BY <1>1, NothingScored
  <2>4. RunIs'
    BY <2>1 DEF VerdictIInv, RunIs
  <2>5. grades' = Append(grades, r) /\ r.case \notin CasesOf(grades) /\ run'.case = 0
    BY <1>1, <1>2, <2>1, <2>3
  <2> HIDE DEF r
  <2> QED
    BY <1>2, <1>3, <2>2, <2>3, <2>4, <2>5, GradeAdded
<1>5. CASE ~ Unavailable(c)
  <2>1. run' = [case |-> n, left |-> DOMAIN c.frozen, log |-> <<>>] /\ grades' = grades
    BY <1>5 DEF BeginAttempt
  <2> HIDE DEF n
  <2>2. run'.case = n /\ run'.left = DOMAIN BenchCases[n].frozen /\ run'.log = <<>> /\ DOMAIN run' = {"case", "left", "log"}
    BY <2>1
  <2>3. CallsOf(BenchCases[n], <<>>, DOMAIN BenchCases[n].frozen)
    BY VerdictAssumption DEF CallsOf, IsSequence
  <2>4. RunIs'
    BY <1>1, <2>2, <2>3 DEF RunIs
  <2>5. GradesAre(grades)' /\ GradesAre(basis)'
    BY <1>2, <2>1 DEF VerdictIInv
  <2>6. run'.case # 0 /\ run'.case \notin CasesOf(grades) /\ CasesOf(grades)' = CasesOf(grades)
    BY <1>1, <2>1, <2>2, NotATask DEF CasesOf
  <2> QED
    BY <1>2, <1>3, <2>1, <2>4, <2>5, <2>6 DEF VerdictIInv
<1> QED
  BY <1>4, <1>5

\* A call is written to the log, and the fixture that answered it is left no more.
LEMMA CallIsLogged ==
  ASSUME NEW case, NEW log, NEW kept, NEW rest, CallsOf(case, log, kept), rest \subseteq kept,
         NEW e, NEW more, more = Append(log, e), Len(log) < MaxForms,
         \/ e.from = 0 /\ (case.frozen # <<>> => e.status # "ok")
         \/ /\ e.from \in kept \ rest /\ e.from # 0 /\ kept \subseteq DOMAIN case.frozen
            /\ case.frozen[e.from].tool = e.form.tool /\ case.frozen[e.from].args = e.form.args
  PROVE  CallsOf(case, more, rest)
<1>1. IsSequence(log)
  BY DEF CallsOf
<1>2. /\ IsSequence(more) /\ Len(log) \in Nat /\ Len(more) = Len(log) + 1
      /\ \A j \in 1 .. Len(log) : more[j] = log[j]
      /\ \A j \in 1 .. Len(more) : j \in 1 .. Len(log) \/ j = Len(more)
      /\ more[Len(more)] = e
  <2>1. Longer(more, log, e)
    BY <1>1, EntryAdded
  <2> QED
    BY <2>1 DEF Longer
<1>3. Len(more) <= MaxForms
  BY <1>2, VerdictAssumption
<1>4. \A i \in 1 .. Len(log) :
        /\ log[i].from # 0 => /\ log[i].from \in DOMAIN case.frozen \ kept
                              /\ case.frozen[log[i].from].tool = log[i].form.tool
                              /\ case.frozen[log[i].from].args = log[i].form.args
        /\ case.frozen # <<>> /\ log[i].status = "ok" => log[i].from # 0
  BY DEF CallsOf
<1>5. ASSUME NEW i \in 1 .. Len(more)
      PROVE  /\ more[i].from # 0 => /\ more[i].from \in DOMAIN case.frozen \ rest
                                    /\ case.frozen[more[i].from].tool = more[i].form.tool
                                    /\ case.frozen[more[i].from].args = more[i].form.args
             /\ case.frozen # <<>> /\ more[i].status = "ok" => more[i].from # 0
  <2>1. CASE i \in 1 .. Len(log)
    <3>1. more[i] = log[i]
      BY <1>2, <2>1
    <3> QED
      BY <1>4, <2>1, <3>1
  <2>2. CASE i = Len(more)
    <3>1. more[i] = e
      BY <1>2, <2>2
    <3> QED
      BY <3>1
  <2> QED
    BY <1>2, <2>1, <2>2
<1>6. \A i \in 1 .. Len(log) : log[i].from = e.from => e.from = 0
  BY <1>4
<1>7. \A i, j \in 1 .. Len(log) : log[i].from = log[j].from /\ log[i].from # 0 => i = j
  BY DEF CallsOf
<1>8. ASSUME NEW i \in 1 .. Len(more), NEW j \in 1 .. Len(more), more[i].from = more[j].from, more[i].from # 0
      PROVE  i = j
  <2>1. CASE i \in 1 .. Len(log) /\ j \in 1 .. Len(log)
    <3>1. more[i] = log[i] /\ more[j] = log[j]
      BY <1>2, <2>1
    <3> QED
      BY <1>7, <1>8, <2>1, <3>1
  <2>2. CASE i \in 1 .. Len(log) /\ j = Len(more)
    <3>1. more[i] = log[i] /\ more[j] = e
      BY <1>2, <2>2
    <3> QED
      BY <1>6, <1>8, <2>2, <3>1
  <2>3. CASE i = Len(more) /\ j \in 1 .. Len(log)
    <3>1. more[i] = e /\ more[j] = log[j]
      BY <1>2, <2>3
    <3> QED
      BY <1>6, <1>8, <2>3, <3>1
  <2> QED
    BY <1>2, <2>1, <2>2, <2>3
<1> QED
  BY <1>2, <1>3, <1>5, <1>8 DEF CallsOf

\* What a fixture says, if one is left for the call.
Played(hit, kept, case, form) ==
  \/ hit.from = 0 /\ hit.status = "error" /\ hit.left = kept
  \/ /\ hit.from \in kept /\ hit.from # 0 /\ hit.left = kept \ {hit.from}
     /\ case.frozen[hit.from].tool = form.tool /\ case.frozen[hit.from].args = form.args

LEMMA ReplayIs ==
  ASSUME NEW i \in DOMAIN BenchCases, NEW kept, kept \subseteq DOMAIN BenchCases[i].frozen, NEW form
  PROVE  Played(Replayed(kept, BenchCases[i], form), kept, BenchCases[i], form)
<1> DEFINE case == BenchCases[i]
           fits == {k \in kept : case.frozen[k].tool = form.tool /\ case.frozen[k].args = form.args}
           first == CHOOSE k \in fits : \A j \in fits : k <= j
<1>1. DOMAIN case.frozen \subseteq Nat \ {0}
  <2>1. DOMAIN case.frozen = 1 .. Len(case.frozen) /\ Len(case.frozen) \in Nat
    BY VerdictAssumption
  <2> QED
    BY <2>1
<1>2. CASE fits = {}
  BY <1>2 DEF Replayed, Played
<1>3. CASE fits # {}
  <2>1. fits \subseteq Nat
    BY <1>1
  <2>2. \E k \in fits : \A j \in fits : k <= j
    BY <1>3, <2>1, LeastOf
  <2>3. first \in fits
    BY <2>2
  <2> DEFINE hit == Replayed(kept, case, form)
  <2>4. hit = [from |-> first, status |-> case.frozen[first].status, left |-> kept \ {first}]
    BY <1>3 DEF Replayed
  <2> HIDE DEF first, hit
  <2>5. hit.from = first /\ hit.left = kept \ {first}
    BY <2>4
  <2>6. Played(hit, kept, case, form)
    BY <1>1, <2>3, <2>5 DEF Played
  <2> QED
    BY <2>6 DEF hit
<1> QED
  BY <1>2, <1>3

LEMMA CallToolKeeps ==
  ASSUME VerdictIInv, NEW form, CallTool(form)
  PROVE  VerdictIInv'
<1> DEFINE i == run.case
           case == BenchCases[i]
           hit == Replayed(run.left, case, form)
<1>1. run.case # 0 /\ Len(run.log) < MaxForms /\ UNCHANGED <<batch, last, grades, basis, outcome>>
  BY DEF CallTool
<1>2. /\ i \in DOMAIN BenchCases /\ DOMAIN run = {"case", "left", "log"}
      /\ run.left \subseteq DOMAIN case.frozen /\ CallsOf(case, run.log, run.left)
  BY <1>1, RunningIs DEF VerdictIInv
<1>3. \E kept, e : /\ run' = [run EXCEPT !.left = kept, !.log = Append(run.log, e)] /\ kept \subseteq run.left
                   /\ \/ e.from = 0 /\ (case.frozen # <<>> => e.status # "ok")
                      \/ /\ e.from \in run.left \ kept /\ e.from # 0
                         /\ case.frozen[e.from].tool = e.form.tool /\ case.frozen[e.from].args = e.form.args
  <2>1. CASE case.frozen # <<>>
    <3> DEFINE e == Entry(form, hit.from, hit.status, FALSE)
    <3>1. run' = [run EXCEPT !.left = hit.left, !.log = Append(run.log, e)]
      BY <2>1 DEF CallTool
    <3>2. e.from = hit.from /\ e.status = hit.status /\ e.form = form
      BY DEF Entry
    <3>3. \/ hit.from = 0 /\ hit.status = "error" /\ hit.left = run.left
          \/ /\ hit.from \in run.left /\ hit.from # 0 /\ hit.left = run.left \ {hit.from}
             /\ case.frozen[hit.from].tool = form.tool /\ case.frozen[hit.from].args = form.args
      <4>1. Played(hit, run.left, case, form)
        BY <1>2, ReplayIs
      <4> QED
        BY <4>1 DEF Played
    <3> HIDE DEF e, hit
    <3>4. hit.left \subseteq run.left
      BY <3>3
    <3>5. \/ e.from = 0 /\ (case.frozen # <<>> => e.status # "ok")
          \/ /\ e.from \in run.left \ hit.left /\ e.from # 0
             /\ case.frozen[e.from].tool = e.form.tool /\ case.frozen[e.from].args = e.form.args
      BY <3>2, <3>3
    <3> QED
      BY <3>1, <3>4, <3>5
  <2>2. CASE case.frozen = <<>>
    <3>1. \E status, invalid : run' = [run EXCEPT !.log = Append(@, Entry(form, 0, status, invalid))]
      BY <2>2 DEF CallTool
    <3>2. PICK status, invalid : run' = [run EXCEPT !.log = Append(@, Entry(form, 0, status, invalid))]
      BY <3>1
    <3> DEFINE e == Entry(form, 0, status, invalid)
    <3>3. run' = [run EXCEPT !.log = Append(run.log, e)]
      BY <3>2
    <3>4. e.from = 0
      BY DEF Entry
    <3> HIDE DEF e
    <3>5. run' = [run EXCEPT !.left = run.left, !.log = Append(run.log, e)]
      BY <1>2, <3>3
    <3> QED
      BY <2>2, <3>4, <3>5
  <2> QED
    BY <2>1, <2>2
<1>4. PICK kept, e : /\ run' = [run EXCEPT !.left = kept, !.log = Append(run.log, e)] /\ kept \subseteq run.left
                     /\ \/ e.from = 0 /\ (case.frozen # <<>> => e.status # "ok")
                        \/ /\ e.from \in run.left \ kept /\ e.from # 0
                           /\ case.frozen[e.from].tool = e.form.tool /\ case.frozen[e.from].args = e.form.args
  BY <1>3
<1>5. run'.case = i /\ run'.left = kept /\ run'.log = Append(run.log, e) /\ DOMAIN run' = {"case", "left", "log"}
  BY <1>2, <1>4
<1> HIDE DEF i, hit
<1>6. CallsOf(case, run'.log, kept)
  BY <1>1, <1>2, <1>4, <1>5, CallIsLogged
<1>7. kept \subseteq DOMAIN case.frozen
  BY <1>2, <1>4
<1>8. RunIs'
  BY <1>2, <1>5, <1>6, <1>7 DEF RunIs
<1>9. LastIs' /\ GradesAre(grades)' /\ GradesAre(basis)' /\ CasesOf(grades)' = CasesOf(grades) /\ run'.case = run.case
  BY <1>1, <1>5 DEF VerdictIInv, LastIs, CasesOf, i
<1>10. batch # NoBatch /\ run.case \notin CasesOf(grades) /\ outcome = "none"
  BY <1>1 DEF VerdictIInv
<1> QED
  BY <1>1, <1>8, <1>9, <1>10 DEF VerdictIInv

LEMMA CallsStay ==
  ASSUME NEW case, NEW log, NEW kept, CallsOf(case, log, kept)
  PROVE  CallsOf(case, log, {})
BY DEF CallsOf

LEMMA EndAttemptKeeps ==
  ASSUME VerdictIInv, EndAttempt
  PROVE  VerdictIInv'
<1> DEFINE i == run.case
           case == BenchCases[i]
<1>1. run.case # 0 /\ run' = NotRunning /\ UNCHANGED <<batch, basis, outcome>>
  BY DEF EndAttempt
<1>2. i \in DOMAIN BenchCases /\ CallsOf(case, run.log, {}) /\ batch # NoBatch /\ i \notin CasesOf(grades)
  BY <1>1, RunningIs, CallsStay DEF VerdictIInv
<1>3. PICK e \in AttemptEnds :
        /\ MayEnd(e, run.log)
        /\ IF Grade(case, run.log, e) = "error" THEN Graded(i, Grade(case, run.log, e), 0, 0)
           ELSE Graded(i, Grade(case, run.log, e), Cardinality(Held(case, run.log, e)), Cardinality(Checks(case)))
        /\ last' = [case |-> i, log |-> run.log, end |-> e, grade |-> Grade(case, run.log, e)]
  BY Zenon DEF EndAttempt
<1>4. RunIs' /\ run'.case = 0
  BY <1>1 DEF RunIs, NotRunning
<1>5. /\ last'.case = i /\ last'.log = run.log /\ last'.end = e /\ last'.grade = Grade(case, run.log, e)
  BY <1>3
<1>6. LastIs'
  BY <1>2, <1>3, <1>5 DEF LastIs
<1>7. CASE Grade(case, run.log, e) = "error"
  <2> DEFINE r == [case |-> i, status |-> "error", score |-> 0, max |-> 0]
  <2>1. grades' = Append(grades, r)
    BY <1>3, <1>7 DEF Graded
  <2>2. GradeIs(r) /\ r.case = i /\ r.status # "skip"
    BY <1>2, NothingScored
  <2> HIDE DEF r, i
  <2> QED
    BY <1>1, <1>2, <1>4, <1>6, <2>1, <2>2, GradeAdded
<1>8. CASE Grade(case, run.log, e) # "error"
  <2> DEFINE r == [case |-> i, status |-> Grade(case, run.log, e), score |-> Cardinality(Held(case, run.log, e)),
                   max |-> Cardinality(Checks(case))]
  <2>1. grades' = Append(grades, r)
    BY <1>3, <1>8 DEF Graded
  <2>2. GradeIs(r) /\ r.status # "skip"
    BY <1>2, <1>8, GradedIs
  <2>3. r.case = i
    OBVIOUS
  <2> HIDE DEF r, i
  <2> QED
    BY <1>1, <1>2, <1>4, <1>6, <2>1, <2>2, <2>3, GradeAdded
<1> QED
  BY <1>7, <1>8

LEMMA AttemptRaisesKeeps ==
  ASSUME VerdictIInv, AttemptRaises
  PROVE  VerdictIInv'
<1> DEFINE i == run.case
           r == [case |-> i, status |-> "error", score |-> 0, max |-> 0]
<1>1. run.case # 0 /\ run' = NotRunning /\ UNCHANGED <<batch, last, basis, outcome>> /\ grades' = Append(grades, r)
  BY DEF AttemptRaises, Graded
<1>2. i \in DOMAIN BenchCases /\ batch # NoBatch /\ i \notin CasesOf(grades)
  BY <1>1, RunningIs DEF VerdictIInv
<1>3. RunIs' /\ run'.case = 0
  BY <1>1 DEF RunIs, NotRunning
<1>4. LastIs'
  BY <1>1 DEF VerdictIInv, LastIs
<1>5. GradeIs(r) /\ r.case = i /\ r.status # "skip"
  BY <1>2, NothingScored
<1> HIDE DEF r, i
<1> QED
  BY <1>1, <1>2, <1>3, <1>4, <1>5, GradeAdded

LEMMA EndSuiteKeeps ==
  ASSUME VerdictIInv, EndSuite
  PROVE  VerdictIInv'
<1>1. /\ batch # NoBatch /\ run.case = 0 /\ batch' = NoBatch /\ last' = NotGraded /\ run' = run /\ outcome = "none"
  BY DEF EndSuite, VerdictIInv
<1>2. /\ RunIs' /\ LastIs' /\ batch'.cases \subseteq DOMAIN BenchCases /\ run'.case = 0
  BY <1>1 DEF VerdictIInv, RunIs, LastIs, NoBatch
<1>3. GradesAre(grades) /\ GradesAre(basis)
  BY DEF VerdictIInv
<1>4. CASE batch.at = "command"
  <2>1. outcome' = "told" /\ grades' = grades /\ basis' = basis
    BY <1>4 DEF EndSuite
  <2>2. GradesAre(grades)' /\ GradesAre(basis)'
    BY <1>3, <2>1
  <2> QED
    BY <1>1, <1>2, <2>1, <2>2 DEF VerdictIInv
<1>5. ASSUME batch.at # "command" PROVE \A i \in DOMAIN grades : grades[i].status # "skip"
  BY <1>1, <1>5 DEF VerdictIInv
<1>6. CASE batch.at # "command" /\ basis = <<>>
  <2>1. basis' = grades /\ grades' = <<>> /\ outcome' = outcome
    BY <1>6 DEF EndSuite
  <2>2. GradesAre(<<>>)
    BY DEF GradesAre, IsSequence
  <2>3. GradesAre(grades)' /\ GradesAre(basis)'
    BY <1>3, <2>1, <2>2
  <2>4. (\A i \in DOMAIN basis : basis[i].status # "skip")' /\ \A i \in DOMAIN grades' : FALSE
    BY <1>5, <1>6, <2>1
  <2> QED
    BY <1>1, <1>2, <2>1, <2>3, <2>4 DEF VerdictIInv
<1>7. CASE batch.at # "command" /\ basis # <<>>
  <2>1. outcome' = (IF HoldsAgainst(grades, basis) THEN "passed" ELSE "failed") /\ grades' = grades /\ basis' = basis
    BY <1>7 DEF EndSuite
  <2>2. GradesAre(grades)' /\ GradesAre(basis)'
    BY <1>3, <2>1
  <2>3. (outcome' = "passed" /\ HoldsAgainst(grades', basis')) \/ (outcome' = "failed" /\ ~ HoldsAgainst(grades', basis'))
    BY <2>1
  <2>4. \A i \in DOMAIN grades' : grades'[i].status # "skip"
    BY <1>5, <1>7, <2>1
  <2>5. \A i \in DOMAIN basis' : basis'[i].status # "skip"
    BY <2>1 DEF VerdictIInv
  <2>6. (outcome = "passed" => HoldsAgainst(grades, basis))' /\ (outcome = "failed" => ~ HoldsAgainst(grades, basis))'
    BY <2>3
  <2> QED
    BY <1>1, <1>2, <2>2, <2>3, <2>4, <2>5, <2>6 DEF VerdictIInv
<1> QED
  BY <1>4, <1>6, <1>7

LEMMA VerdictRests ==
  ASSUME VerdictIInv, UNCHANGED verdictVars
  PROVE  VerdictIInv'
<1>1. /\ run' = run /\ last' = last /\ grades' = grades /\ basis' = basis /\ batch' = batch /\ outcome' = outcome
  BY DEF verdictVars
<1>2. RunIs' /\ LastIs' /\ GradesAre(grades)' /\ GradesAre(basis)' /\ CasesOf(grades)' = CasesOf(grades)
  BY <1>1 DEF VerdictIInv, RunIs, LastIs, CasesOf
<1>3. HoldsAgainst(grades, basis)' = HoldsAgainst(grades, basis)
  BY <1>1
<1> QED
  BY <1>1, <1>2, <1>3 DEF VerdictIInv

LEMMA VerdictBegins ==
  ASSUME VerdictInit
  PROVE  VerdictIInv
<1>1. /\ batch = NoBatch /\ run = NotRunning /\ last = NotGraded
      /\ grades = <<>> /\ basis = <<>> /\ outcome = "none"
  BY DEF VerdictInit
<1>2. GradesAre(<<>>)
  BY DEF GradesAre, IsSequence
<1>3. RunIs /\ LastIs /\ run.case = 0 /\ batch.cases = {}
  BY <1>1 DEF RunIs, LastIs, NotRunning, NoBatch
<1>4. \A i \in DOMAIN <<>> : FALSE
  OBVIOUS
<1> QED
  BY <1>1, <1>2, <1>3, <1>4 DEF VerdictIInv

LEMMA VerdictKept ==
  ASSUME VerdictIInv, [VerdictNext]_verdictVars
  PROVE  VerdictIInv'
BY StartSuiteKeeps, BeginAttemptKeeps, EndAttemptKeeps, AttemptRaisesKeeps, EndSuiteKeeps, CallToolKeeps,
   VerdictRests DEF VerdictNext

LEMMA VerdictSound ==
  ASSUME VerdictIInv
  PROVE  VerdictInv
<1>1. VerdictTypeOK
  <2>1. run.case \in 0 .. Len(BenchCases) /\ Len(run.log) <= MaxForms
    <3>1. CASE run = NotRunning
      <4>1. run.case = 0 /\ run.log = <<>> /\ Len(<<>>) = 0
        BY <3>1 DEF NotRunning
      <4> QED
        BY <4>1, NotATask, VerdictAssumption
    <3>2. CASE run # NotRunning
      <4>1. run.case \in DOMAIN BenchCases /\ CallsOf(BenchCases[run.case], run.log, run.left)
        BY <3>2 DEF VerdictIInv, RunIs
      <4>2. Len(run.log) <= MaxForms
        BY <4>1 DEF CallsOf
      <4>3. \A n \in DOMAIN BenchCases : n \in 0 .. Len(BenchCases)
        BY NotATask
      <4> QED
        BY <4>1, <4>2, <4>3
    <3> QED
      BY <3>1, <3>2
  <2>2. \A j \in DOMAIN grades : grades[j].score <= grades[j].max
    BY DEF VerdictIInv, GradesAre, GradeIs
  <2> QED
    BY <2>1, <2>2 DEF VerdictTypeOK, VerdictIInv
<1>2. FixturesAnswerOnce
  <2>1. CASE run = NotRunning
    BY <2>1 DEF NotRunning, FixturesAnswerOnce
  <2>2. CASE run # NotRunning
    <3>1. CallsOf(BenchCases[run.case], run.log, run.left)
      BY <2>2 DEF VerdictIInv, RunIs
    <3>2. DOMAIN run.log = 1 .. Len(run.log)
      BY <3>1 DEF CallsOf
    <3> QED
      BY <3>1, <3>2 DEF CallsOf, FixturesAnswerOnce
  <2> QED
    BY <2>1, <2>2
<1>3. PassIsBacked /\ ModelIsNotBlamed
  <2>1. CASE last = NotGraded
    BY <2>1 DEF NotGraded, PassIsBacked, ModelIsNotBlamed
  <2>2. CASE last # NotGraded
    <3> DEFINE case == BenchCases[last.case]
               log == last.log
               e == last.end
    <3>1. /\ last.case \in DOMAIN BenchCases /\ CallsOf(case, log, {}) /\ MayEnd(e, log)
          /\ last.grade = Grade(case, log, e) /\ e \in AttemptEnds
      BY <2>2 DEF VerdictIInv, LastIs
    <3>2. DOMAIN log = 1 .. Len(log)
      BY <3>1 DEF CallsOf
    <3>3. ASSUME last.grade = "pass" PROVE PassIsBacked
      <4>1. ~ Infrastructure(log, e) /\ Held(case, log, e) = Checks(case)
        BY <3>1, <3>3 DEF Grade
      <4>2. \A c \in Checks(case) : Holds(c, case, log, e)
        BY <4>1 DEF Held
      <4>3. ~ e.fallback
        BY <4>1 DEF Infrastructure
      <4>4. e.spoke
        BY <3>1, <4>3 DEF MayEnd
      <4>5. ASSUME NEW t \in case.need
            PROVE  \E i \in DOMAIN log : /\ log[i].form.tool = t /\ log[i].status = "ok"
                                         /\ case.frozen # <<>> => log[i].from # 0
        <5>1. <<"need", t>> \in Checks(case)
          BY DEF Checks
        <5>2. t \in Delivered(log)
          BY <4>2, <5>1 DEF Holds
        <5>3. PICK i \in DOMAIN log : log[i].form.tool = t /\ log[i].status = "ok"
          BY <5>2 DEF Delivered
        <5>4. case.frozen # <<>> => log[i].from # 0
          BY <3>1, <3>2, <5>3 DEF CallsOf
        <5> QED
          BY <5>3, <5>4
      <4>6. ASSUME NEW i \in DOMAIN log PROVE log[i].form.tool \notin case.never
        <5>1. SUFFICES ASSUME log[i].form.tool \in case.never PROVE FALSE
          OBVIOUS
        <5>2. <<"never", log[i].form.tool>> \in Checks(case)
          BY <5>1 DEF Checks
        <5>3. log[i].form.tool \notin Asked(log)
          BY <4>2, <5>2 DEF Holds
        <5> QED
          BY <5>3 DEF Asked
      <4> QED
        BY <4>3, <4>4, <4>5, <4>6 DEF PassIsBacked
    <3>4. ASSUME last.grade = "fail" PROVE ModelIsNotBlamed
      <4>1. ~ Infrastructure(log, e)
        BY <3>1, <3>4 DEF Grade
      <4>2. ~ e.fallback /\ (Delivered(log) # {} \/ \A i \in DOMAIN log : log[i].status # "timeout")
        BY <4>1 DEF Infrastructure
      <4>3. e.spoke
        BY <3>1, <4>2 DEF MayEnd
      <4>4. Delivered(log) # {} => \E i \in DOMAIN log : log[i].status = "ok"
        BY DEF Delivered
      <4> QED
        BY <4>2, <4>3, <4>4 DEF ModelIsNotBlamed
    <3> QED
      BY <3>3, <3>4 DEF PassIsBacked, ModelIsNotBlamed
  <2> QED
    BY <2>1, <2>2
<1>4. RegressionsAreSeen
  <2>1. SUFFICES ASSUME outcome = "passed", NEW i \in DOMAIN basis, basis[i].status = "pass"
                 PROVE  \E j \in DOMAIN grades : grades[j].case = basis[i].case /\ grades[j].status = "pass"
    BY DEF RegressionsAreSeen
  <2>2. HoldsAgainst(grades, basis) /\ GradesAre(basis)
    BY <2>1 DEF VerdictIInv
  <2>3. DOMAIN basis = 1 .. Len(basis)
    BY <2>2 DEF GradesAre
  <2>4. \A k \in DOMAIN basis : basis[k].case = basis[i].case => k = i
    BY <2>1, <2>2, <2>3 DEF GradesAre
  <2>5. Passes(basis, basis[i].case)
    BY <2>1, <2>4 DEF Passes
  <2>6. basis[i].case \in CasesOf(basis)
    BY <2>1 DEF CasesOf
  <2>7. Passes(grades, basis[i].case)
    BY <2>2, <2>5, <2>6 DEF HoldsAgainst
  <2> QED
    BY <2>7 DEF Passes
<1>5. NoFalseAlarm
  <2>1. SUFFICES ASSUME outcome = "failed", Len(grades) = Len(basis), \A i \in DOMAIN basis : Better(basis[i], grades[i])
                 PROVE  FALSE
    BY DEF NoFalseAlarm
  <2>2. ~ HoldsAgainst(grades, basis) /\ GradesAre(basis) /\ GradesAre(grades) /\ batch = NoBatch
    BY <2>1 DEF VerdictIInv
  <2>3. DOMAIN basis = 1 .. Len(basis) /\ DOMAIN grades = 1 .. Len(basis)
    BY <2>1, <2>2 DEF GradesAre
  <2>4. \A i \in 1 .. Len(basis) : basis[i].status # "skip" /\ grades[i].status # "skip"
    BY <2>1, <2>2, <2>3 DEF VerdictIInv, NoBatch
  <2>5. NoWorse(basis, grades)
    BY <2>1, <2>3 DEF NoWorse
  <2> QED
    BY <2>2, <2>4, <2>5, NothingIsLost
<1> QED
  BY <1>1, <1>2, <1>3, <1>4, <1>5 DEF VerdictInv

\* Frozen results answer once, a grade is backed by what was delivered, and a comparison
\* sees every case lost and none where no attempt became worse (live_benchmarks.py).
THEOREM VerdictIsSafe == VerdictSpec => []VerdictInv
<1>1. VerdictInit => VerdictIInv
  BY VerdictBegins
<1>2. VerdictIInv /\ [VerdictNext]_verdictVars => VerdictIInv'
  BY VerdictKept
<1>3. VerdictIInv => VerdictInv
  BY VerdictSound
<1> QED
  BY <1>1, <1>2, <1>3, PTL DEF VerdictSpec

------------------------------------------------------------------------------
(* Services.  Every step of the run is a step of each part or leaves it     *)
(* alone, so that what a part proves of itself holds of it here.           *)

LEMMA PartsMove ==
  ASSUME [ServicesNext]_servicesVars
  PROVE  /\ [LifecycleNext]_lifecycleVars /\ [ClientNext]_clientVars
         /\ [FeedbackNext]_feedbackVars /\ [ResearchNext]_researchVars
         /\ [LearningNext]_learningVars /\ [EmojiNext]_emojiVars
         /\ [BackupNext]_backupVars /\ [MigrationNext]_migrationVars
         /\ [TransferNext]_transferVars /\ [ContextNext]_contextVars
         /\ [MessagesNext]_messageVars /\ [NamesNext]_namesVars /\ [MarketNext]_marketVars
         /\ [EvidenceNext]_evidenceVars /\ [RepairNext]_repairVars /\ [VerdictNext]_verdictVars
  BY DEF ServicesNext, Moves, servicesVars, Parts

\* The model client forgets neither a deployment that is broken nor an attempt it made.
THEOREM ClientIsKept == ServicesSpec => []ModelInv
<1>1. ServicesInit => ClientIInv
  BY ClientBegins DEF ServicesInit
<1>2. ClientIInv /\ [ServicesNext]_servicesVars => ClientIInv'
  BY ClientKeeps, PartsMove
<1>3. ClientIInv => ModelInv
  BY ClientSound DEF ModelInv, Of
<1> QED
  BY <1>1, <1>2, <1>3, PTL DEF ServicesSpec

\* One bot runs at a time, stops in order, keeps what it recorded, and announces a change
\* once.
THEOREM BotIsKept == ServicesSpec => []BotInv
<1>1. ServicesInit => LifecycleIInv
  BY LifecycleInitiates DEF ServicesInit
<1>2. LifecycleIInv /\ [ServicesNext]_servicesVars => LifecycleIInv'
  BY PartsMove, AliveKept, PhaseKept, WriterKept, RunsKept, NewsKept DEF LifecycleIInv
<1>3. LifecycleIInv => BotInv
  BY LifecycleSound DEF BotInv, Of
<1> QED
  BY <1>1, <1>2, <1>3, PTL DEF ServicesSpec

\* A complaint finds a recent answer, is archived and demotes it once.
THEOREM ReportsAreKept == ServicesSpec => []ReportsInv
<1>1. ServicesInit => FeedbackIInv
  BY FeedbackBegins DEF ServicesInit
<1>2. FeedbackIInv /\ [ServicesNext]_servicesVars => FeedbackIInv'
  BY FeedbackKept, PartsMove
<1>3. FeedbackIInv => ReportsInv
  BY FeedbackSound DEF ReportsInv, Of
<1> QED
  BY <1>1, <1>2, <1>3, PTL DEF ServicesSpec

\* Deep research cites only what it read, and says that it found nothing only if no search
\* of it failed.
THEOREM SearchIsKept == ServicesSpec => []SearchInv
<1>1. ServicesInit => ResearchIInv
  BY ResearchBegins DEF ServicesInit
<1>2. ResearchIInv /\ [ServicesNext]_servicesVars => ResearchIInv'
  BY ResearchKept, PartsMove
<1>3. ResearchIInv => SearchInv
  BY DEF ResearchIInv, SearchInv, Of
<1> QED
  BY <1>1, <1>2, <1>3, PTL DEF ServicesSpec

\* What was learnt of procedures and emojis has been seen, and is forgotten when it fails.
THEOREM LearnersAreKept == ServicesSpec => []LearnersInv
<1>1. ServicesInit => LearningIInv /\ EmojiIInv
  BY LearningBegins, EmojiBegins DEF ServicesInit
<1>2. LearningIInv /\ EmojiIInv /\ [ServicesNext]_servicesVars => LearningIInv' /\ EmojiIInv'
  BY LearningKept, EmojiKept, PartsMove
<1>3. LearningIInv /\ EmojiIInv => LearnersInv
  BY LearningSound, EmojiSound DEF LearnersInv, Of
<1> QED
  BY <1>1, <1>2, <1>3, PTL DEF ServicesSpec

\* The database is moved to a new schema or file, and to its backups, without loss.
THEOREM DatabaseIsKept == ServicesSpec => []DatabaseInv
<1>1. ServicesInit => BackupIInv /\ MigrationIInv /\ TransferIInv
  BY BackupBegins, MigrationBegins, TransferBegins DEF ServicesInit
<1>2. /\ BackupIInv /\ MigrationIInv /\ TransferIInv
      /\ [ServicesNext]_servicesVars
      => BackupIInv' /\ MigrationIInv' /\ TransferIInv'
  BY BackupKept, MigrationKept, TransferKept, PartsMove
<1>3. BackupIInv /\ MigrationIInv /\ TransferIInv => DatabaseInv
  BY BackupSound, MigrationSound, TransferSound DEF DatabaseInv, Of
<1> QED
  BY <1>1, <1>2, <1>3, PTL DEF ServicesSpec

\* An answer is given what its asker may know, as it is now: memories, messages, names and
\* prices.
THEOREM AnswersAreKept == ServicesSpec => []AnswerInv
<1>1. ServicesInit => CtxIInv /\ MessagesIInv /\ NamesIInv /\ MarketIInv
  BY CtxBegins, MessagesBegins, NamesBegin, MarketBegins DEF ServicesInit
<1>2. /\ CtxIInv /\ MessagesIInv /\ NamesIInv /\ MarketIInv
      /\ [ServicesNext]_servicesVars
      => CtxIInv' /\ MessagesIInv' /\ NamesIInv' /\ MarketIInv'
  BY ContextKept, MessagesKept, NamesKept, MarketKept, PartsMove
<1>3. CtxIInv /\ MessagesIInv /\ NamesIInv /\ MarketIInv => AnswerInv
  BY ContextSound, MessagesSound, NamesSound, MarketSound DEF AnswerInv, Of
<1> QED
  BY <1>1, <1>2, <1>3, PTL DEF ServicesSpec

\* What is made of what was found loses nothing of it and adds nothing to it: the references
\* of an answer, the lists in old memories, and what a benchmark says of an answer.
THEOREM FindingsAreKept == ServicesSpec => []FindingsInv
<1>1. ServicesInit => EvidenceIInv /\ RepairIInv /\ VerdictIInv
  BY EvidenceBegins, RepairBegins, VerdictBegins DEF ServicesInit
<1>2. /\ EvidenceIInv /\ RepairIInv /\ VerdictIInv
      /\ [ServicesNext]_servicesVars
      => EvidenceIInv' /\ RepairIInv' /\ VerdictIInv'
  BY EvidenceKept, RepairKept, VerdictKept, PartsMove
<1>3. EvidenceIInv /\ RepairIInv /\ VerdictIInv => FindingsInv
  BY EvidenceSound, RepairSound, VerdictSound DEF FindingsInv, Of
<1> QED
  BY <1>1, <1>2, <1>3, PTL DEF ServicesSpec
==============================================================================
