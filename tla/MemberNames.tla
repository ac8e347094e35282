----------------------------- MODULE MemberNames -----------------------------
(***************************************************************************)
(* What the bot remembers of a member's names (member_aliases.py,          *)
(* bot._remember_member_objects): every message compares the member's      *)
(* names with those last written, as the process recalls them, and writes  *)
(* what is new.  One member of one guild; a name is a number that grows    *)
(* when it changes.                                                        *)
(***************************************************************************)
EXTENDS Integers, FiniteSets

CONSTANTS Watchers,      \* handlers of messages by or about the member
          LastName,      \* bound: renamings
          MaxLosses      \* bound: failures of the database and restarts

ASSUME NamesAssumption == LastName \in Nat \ {0} /\ MaxLosses \in Nat

VARIABLES
  onePool,     \* fixed: the database has one connection
  called,      \* the member's name now
  recalled,    \* _observed_identity_signatures, or NoName
  recorded,    \* member_identities, or NoName
  watcher,     \* by handler: where it is, the name it saw, whether a row was there
  overtaken,   \* a handler began while another was writing
  losses

namesVars == <<onePool, called, recalled, recorded, watcher, overtaken, losses>>

NoName == 0
Unseen == [at |-> "idle", saw |-> NoName, isNew |-> FALSE]
Writing(w) == watcher[w].at \notin {"idle", "done"}
Turn(w, r) == watcher' = [watcher EXCEPT ![w] = r]

NamesInit ==
  /\ onePool \in BOOLEAN /\ called = 1 /\ recalled = NoName /\ recorded \in {NoName, 1}
  /\ watcher = [w \in Watchers |-> Unseen] /\ overtaken = FALSE /\ losses = 0

\* needs_identity_update, and again in remember_observed_members, where the session is.
Notice(w) ==
  /\ watcher[w].at = "idle"
  /\ IF recalled = called THEN Turn(w, [Unseen EXCEPT !.at = "done"]) /\ UNCHANGED overtaken
     ELSE /\ Turn(w, [Unseen EXCEPT !.at = "select", !.saw = called])
          /\ overtaken' = (overtaken \/ \E v \in Watchers : Writing(v))
  /\ UNCHANGED <<onePool, called, recalled, recorded, losses>>

\* What is there, once a connection is free; the signature is set before anything is written.
FindRow(w) ==
  /\ watcher[w].at = "select"
  /\ onePool => \A v \in Watchers : watcher[v].at # "write"
  /\ Turn(w, [watcher[w] EXCEPT !.at = "write", !.isNew = recorded = NoName])
  /\ recalled' = watcher[w].saw
  /\ UNCHANGED <<onePool, called, recorded, overtaken, losses>>

\* Mutant: the signature of a failed write is kept.
ForgottenNever == recalled

\* forget_observed_members
Forgotten == NoName

RecordFails(w) ==
  /\ Turn(w, [watcher[w] EXCEPT !.at = "done"]) /\ recalled' = Forgotten /\ UNCHANGED recorded

\* Flush and commit: a second row of the member is refused, the database may fail.
RecordNames(w, ok) ==
  /\ watcher[w].at = "write"
  /\ IF ok
     THEN /\ UNCHANGED losses
          /\ IF watcher[w].isNew /\ recorded # NoName THEN RecordFails(w)
             ELSE /\ recorded' = watcher[w].saw /\ Turn(w, [watcher[w] EXCEPT !.at = "done"])
                  /\ UNCHANGED recalled
     ELSE losses < MaxLosses /\ losses' = losses + 1 /\ RecordFails(w)
  /\ UNCHANGED <<onePool, called, overtaken>>

CallsAgain(w) ==
  /\ watcher[w].at = "done" /\ Turn(w, Unseen)
  /\ UNCHANGED <<onePool, called, recalled, recorded, overtaken, losses>>

IsRenamed ==
  /\ called < LastName /\ called' = called + 1
  /\ UNCHANGED <<onePool, recalled, recorded, watcher, overtaken, losses>>

ProcessRestarts ==
  /\ losses < MaxLosses /\ losses' = losses + 1
  /\ recalled' = NoName /\ watcher' = [w \in Watchers |-> Unseen]
  /\ UNCHANGED <<onePool, called, recorded, overtaken>>

NamesNext ==
  \/ \E w \in Watchers : Notice(w) \/ FindRow(w) \/ CallsAgain(w) \/ \E ok \in BOOLEAN : RecordNames(w, ok)
  \/ IsRenamed \/ ProcessRestarts

NamesSpec == NamesInit /\ [][NamesNext]_namesVars

------------------------------------------------------------------------------

NamesTypeOK ==
  /\ {called, recalled, recorded} \subseteq 0 .. LastName /\ losses \in 0 .. MaxLosses
  /\ \A w \in Watchers : watcher[w].at \in {"idle", "select", "write", "done"}

\* A name that the process takes for written is written, and so a new one is never
\* passed over; only handlers that write over two connections can mix that up.
RecalledIsRecorded ==
  (\A w \in Watchers : ~ Writing(w)) /\ (onePool \/ ~ overtaken) => recalled \in {NoName, recorded}

NamesInv == NamesTypeOK /\ RecalledIsRecorded
==============================================================================
