--------------------------- MODULE DeliveryProofs ---------------------------
(***************************************************************************)
(* Proofs about what is late, lost or answered twice, for any constants:   *)
(* the outbox (any sets of events and slots, and any bounds), with the     *)
(* inductive invariant, the safety properties that follow from it and the  *)
(* refinement of EventOnce; and the screens of the web client, for any     *)
(* records, pages, searches and bounds.                                    *)
(***************************************************************************)
EXTENDS Outbox, Screens, FiniteSetTheorems, WellFoundedInduction, TLAPS

(***************************************************************************)
(* The outbox.                                                             *)
(***************************************************************************)

\* A slot has an event exactly while it is busy.
SlotInv == \A w \in Workers : pc[w] = "idle" <=> ev[w] = NoEvent

\* At most one open transaction holds the ledger row of an event, and only
\* while no committed row exists; a finished slot has its row committed.
ClaimInv ==
  /\ \A w \in Workers : pc[w] = "claimed" => ev[w] \notin ledger
  /\ \A v, w \in Workers :
       pc[v] = "claimed" /\ pc[w] = "claimed" /\ ev[v] = ev[w] => v = w
  /\ \A w \in Workers : pc[w] = "done" => ev[w] \in ledger

\* The ledger counts the committed handlers, and the records follow it.
LedgerInv ==
  /\ \A e \in Events : runs[e] = IF e \in ledger THEN 1 ELSE 0
  /\ \A e \in Events : verdict[e] = "applied" => e \in ledger \cap changed
  /\ \A e \in Events : verdict[e] = "open" => e \notin ledger
  /\ \A e \in Events : verdict[e] = "failed" => e \in exhausted \cap Tracked
  /\ \A e \in changed : verdict[e] = "applied"
  /\ reporting \subseteq exhausted \cap Tracked

\* What the state of a job says about its event.
JobInv ==
  \A e \in Events :
    /\ job[e] \in {"waiting", "active"} => tries[e] < Attempts
    /\ job[e] = "completed" => e \in ledger
    /\ job[e] = "failed" => e \in exhausted

\* The event is processed, given up or still going to be run.
Kept(e) == e \in ledger \cup exhausted \/ job[e] \in {"waiting", "active"}

\* Only committed rows reach the dispatcher, BullMQ, the slots and the ledger.
RowInv ==
  /\ \A e \in Events : job[e] # "none" => outbox[e] # "absent"
  /\ \A e \in todo \cup ledger \cup exhausted : outbox[e] # "absent"
  /\ \A w \in Workers : pc[w] # "idle" => outbox[ev[w]] # "absent"
  /\ marking # NoEvent => outbox[marking] # "absent" /\ Kept(marking)
  /\ \A e \in Events : outbox[e] = "delivered" => Kept(e)

IInv == TypeOK /\ SlotInv /\ ClaimInv /\ LedgerInv /\ JobInv /\ RowInv

LEMMA InitInv == Init => IInv
BY OutboxAssumption DEF Init, IInv, TypeOK, SlotInv, ClaimInv, LedgerInv, JobInv, RowInv, Kept

LEMMA StepInv == IInv /\ [Next]_vars => IInv'
<1> SUFFICES ASSUME IInv, [Next]_vars PROVE IInv'
  OBVIOUS
<1> USE OutboxAssumption DEF IInv, TypeOK, SlotInv, ClaimInv, LedgerInv, JobInv, RowInv, Kept, vars, jobVars, slotVars, dbVars
<1>1. ASSUME NEW e \in Events, Publish(e) PROVE IInv'
  BY <1>1 DEF Publish
<1>2. ASSUME NEW e \in Events, RecordFailure(e) PROVE IInv'
  BY <1>2 DEF RecordFailure, Claimed
<1>3. ASSUME NEW e \in Events, LoseFailure(e) PROVE IInv'
  BY <1>3 DEF LoseFailure
<1>4. ASSUME NEW e \in Events, Stall(e) PROVE IInv'
  BY <1>4 DEF Stall, Running
<1>5. ASSUME NEW e \in Events, Forget(e) PROVE IInv'
  BY <1>5 DEF Forget
<1>6. ASSUME NEW e \in Events, AddJob(e) PROVE IInv'
  BY <1>6 DEF AddJob
<1>7. ASSUME NEW w \in Workers, Claim(w) PROVE IInv'
  BY <1>7 DEF Claim, Claimed
<1>8. ASSUME NEW w \in Workers, Commit(w) PROVE IInv'
  BY <1>8 DEF Commit, Apply
<1>9. ASSUME NEW w \in Workers, Rollback(w) PROVE IInv'
  BY <1>9 DEF Rollback
<1>10. ASSUME NEW w \in Workers, ReportDone(w) PROVE IInv'
  BY <1>10 DEF ReportDone, Free, Holds
<1>11. ASSUME NEW w \in Workers, Retry(w) PROVE IInv'
  BY <1>11 DEF Retry, Free, Holds, LastAttempt
<1>12. ASSUME NEW w \in Workers, FailJob(w) PROVE IInv'
  BY <1>12 DEF FailJob, Free, Holds, LastAttempt
<1>13. ASSUME NEW w \in Workers, DropError(w) PROVE IInv'
  BY <1>13 DEF DropError, Free, Holds
<1>14. ASSUME NEW w \in Workers, NEW e \in Events, Take(w, e) PROVE IInv'
  BY <1>14 DEF Take
<1>15. CASE ReadPending
  BY <1>15 DEF ReadPending, Pending
<1>16. CASE MarkDelivered
  BY <1>16 DEF MarkDelivered
<1>17. CASE DispatchError
  BY <1>17 DEF DispatchError
<1>18. CASE Crash
  BY <1>18 DEF Crash
<1>19. CASE UNCHANGED vars
  BY <1>19
<1>20. QED
  BY <1>1, <1>2, <1>3, <1>4, <1>5, <1>6, <1>7, <1>8, <1>9, <1>10, <1>11, <1>12, <1>13, <1>14, <1>15, <1>16, <1>17, <1>18, <1>19 DEF Next, Dispatcher, Transaction, Finish

\* The invariant holds in every reachable state.
THEOREM Invariance == Spec => []IInv
BY InitInv, StepInv, PTL DEF Spec

\* Every variable keeps its type: in particular a job never makes more than
\* ATTEMPTS attempts.
THEOREM TypeCorrect == Spec => []TypeOK
<1>1. IInv => TypeOK
  BY DEF IInv
<1> QED
  BY <1>1, Invariance, PTL

\* However many slots, attempts, stalls, crashes and duplicate jobs there are,
\* the handler of an event is committed at most once.
THEOREM HandledAtMostOnce == Spec => []AtMostOnce
<1>1. IInv => AtMostOnce
  BY DEF IInv, TypeOK, LedgerInv, AtMostOnce
<1> QED
  BY <1>1, Invariance, PTL

\* BullMQ completes a job only after its transaction was committed.
THEOREM CompletedIsProcessed == Spec => []CompletedMeansProcessed
<1>1. IInv => CompletedMeansProcessed
  BY DEF IInv, JobInv, CompletedMeansProcessed
<1> QED
  BY <1>1, Invariance, PTL

\* A delivered event is processed, given up after its attempts, or still has a
\* job that will run.
THEOREM NothingLost == Spec => []NoSilentLoss
<1>1. IInv => NoSilentLoss
  BY DEF IInv, RowInv, Kept, NoSilentLoss
<1> QED
  BY <1>1, Invariance, PTL

\* The status of the record says what its handler did: a failed one was not
\* changed by it, an applied one was, whenever the failure is recorded.
THEOREM StatusIsHonest == Spec => []VerdictHonest
<1>1. IInv => VerdictHonest
  BY DEF IInv, TypeOK, LedgerInv, VerdictHonest
<1> QED
  BY <1>1, Invariance, PTL

\* A step leaves a decided record alone.
LEMMA DecidedStays ==
  ASSUME TypeOK, [Next]_vars, NEW e \in Events, verdict[e] # "open"
  PROVE  verdict'[e] = verdict[e]
<1>1. CASE UNCHANGED dbVars
  BY <1>1 DEF dbVars
<1>2. ASSUME NEW w \in Workers, Commit(w) PROVE verdict'[e] = verdict[e]
  BY <1>2 DEF TypeOK, Commit, Apply
<1>3. ASSUME NEW f \in Events, RecordFailure(f) PROVE verdict'[e] = verdict[e]
  BY <1>3 DEF TypeOK, RecordFailure
<1>4. \/ UNCHANGED dbVars
      \/ \E w \in Workers : Commit(w)
      \/ \E f \in Events : RecordFailure(f)
  BY DEF vars, dbVars, Next, Dispatcher, Transaction, Finish, Publish, LoseFailure,
    Stall, Forget, AddJob, ReadPending, MarkDelivered, DispatchError, Crash,
    Claim, Rollback, ReportDone, Retry, FailJob, DropError, Take
<1> QED
  BY <1>1, <1>2, <1>3, <1>4

\* A failed record is never revived and an applied one never marked failed.
THEOREM StatusIsFinal == Spec => VerdictFinal
<1>1. TypeOK /\ [Next]_vars =>
        [\A e \in Events : verdict[e] # "open" => verdict'[e] = verdict[e]]_vars
  <2> HAVE TypeOK /\ [Next]_vars
  <2>1. ASSUME NEW e \in Events, verdict[e] # "open" PROVE verdict'[e] = verdict[e]
    BY <2>1, DecidedStays
  <2> QED
    BY <2>1
<1> QED
  BY <1>1, TypeCorrect, PTL DEF Spec, VerdictFinal

\* A step of the outbox is a step of EventOnce or changes nothing it shows.
LEMMA StepRefines == IInv /\ [Next]_vars => [Once!Next]_(Once!vars)
<1> SUFFICES ASSUME IInv, [Next]_vars PROVE [Once!Next]_(Once!vars)
  OBVIOUS
<1> DEFINE pub == {e \in Events : outbox[e] # "absent"}
<1>1. ASSUME NEW e \in Events, Publish(e) PROVE Once!Publish(e)
  BY <1>1 DEF IInv, TypeOK, Publish, dbVars, Once!Publish
<1>2. ASSUME NEW w \in Workers, Commit(w) PROVE ev[w] \in Events /\ Once!Run(ev[w])
  <2>1. ev[w] \in Events /\ outbox[ev[w]] # "absent" /\ runs[ev[w]] = 0
    BY <1>2, OutboxAssumption DEF IInv, TypeOK, SlotInv, ClaimInv, LedgerInv, RowInv, Commit
  <2>2. runs' = [runs EXCEPT ![ev[w]] = 1]
    BY <1>2, <2>1 DEF IInv, TypeOK, Commit, Apply
  <2> QED
    BY <1>2, <2>1, <2>2 DEF Commit, Apply, Once!Run
<1>3. ASSUME NEW e \in Events, RecordFailure(e)
      PROVE  Once!GiveUp(e) \/ UNCHANGED Once!vars
  BY <1>3 DEF IInv, TypeOK, LedgerInv, RowInv, RecordFailure, Once!GiveUp, Once!vars
<1>4. CASE MarkDelivered
  <2>1. pub' = pub
    BY <1>4 DEF IInv, TypeOK, RowInv, MarkDelivered
  <2> QED
    BY <1>4, <2>1 DEF MarkDelivered, dbVars, Once!vars
<1>5. CASE UNCHANGED <<outbox, dbVars>>
  BY <1>5 DEF dbVars, Once!vars
<1>6. \/ \E e \in Events : Publish(e) \/ RecordFailure(e)
      \/ \E w \in Workers : Commit(w)
      \/ MarkDelivered
      \/ UNCHANGED <<outbox, dbVars>>
  BY DEF vars, dbVars, Next, Dispatcher, Transaction, Finish, LoseFailure,
    Stall, Forget, AddJob, ReadPending, DispatchError, Crash,
    Claim, Rollback, ReportDone, Retry, FailJob, DropError, Take
<1> QED
  BY <1>1, <1>2, <1>3, <1>4, <1>5, <1>6 DEF Once!Next

\* The outbox, the queue and the worker together implement EventOnce.
THEOREM Refinement == Spec => ImplementsOnce
<1>1. Init => Once!Init
  BY DEF Init, Once!Init
<1> QED
  BY <1>1, StepRefines, Invariance, PTL DEF Spec, ImplementsOnce, Once!Spec

(***************************************************************************)
(* Screens.                                                                *)
(***************************************************************************)


\* The records of the table.
TableOK ==
  /\ table \in [Rows -> [state : {"new", "on", "gone"}, key : Keys, version : Nat]]
  /\ \A r \in Rows : table[r].state = "new" => table[r].version = 0

UsedOK ==
  /\ used \in [asks : Nat, changes : Nat, failures : Nat, forms : Nat, saves : Nat, all : Nat]
  /\ used.forms <= MaxForms

(* --------------------------- what is saved ----------------------------- *)

FormOK(f) == f = [token |-> f.token, of |-> f.of, version |-> f.version]

SaveOK(s) == s = [token |-> s.token, of |-> s.of, version |-> s.version, try |-> s.try,
                  live |-> s.live, state |-> s.state]

\* Whatever may change a record yet: the form, and the saves on their way.
Requests == saves \cup ({form} \ {None})

\* A record that x has changed is no longer what x was read with.
Spent(x) == x.of # None /\ made[x.token] > 0 => table[x.of].version > x.version

FormsInv ==
  /\ UsedOK
  /\ made \in [1 .. MaxForms -> Nat]
  /\ \A t \in 1 .. MaxForms : t > used.forms => made[t] = 0
  /\ form # None => FormOK(form)
  /\ \A s \in saves : SaveOK(s)
  /\ \A x \in Requests : /\ x.token \in 1 .. used.forms
                         /\ x.of \in Rows \cup {None} /\ x.version \in Nat
                         /\ Spent(x)
  /\ \A x, y \in Requests : x.token = y.token => x.of = y.of /\ x.version = y.version
  /\ AppliedOnce

\* What is known to be saved is in the table.
SavedInv ==
  /\ saved \in [Rows -> Nat]
  /\ \A r \in Rows : saved[r] <= table[r].version
  /\ \A s \in saves : s.state = "done" /\ s.of # None => table[s.of].version > s.version

(* ---------------------------- what is read ----------------------------- *)

Cursors == [key : Keys, id : Rows]
Shown == [id : Rows, version : Nat]

LoadOK(l) == l = [question |-> l.question, live |-> l.live, answer |-> l.answer]
Answered(l) == l.live /\ l.answer \notin {None, Lost}

AskOK(a) ==
  /\ a = [search |-> a.search, cursors |-> a.cursors, size |-> a.size]
  /\ a.size \in Sizes /\ a.cursors \in Seq(Cursors)

UpToDate(items) == \A i \in items : i.version >= saved[i.id]

ReadsInv ==
  /\ AskOK(ask)
  /\ \A l \in loads : LoadOK(l) /\ (l.live => l.question = Question(ask))
  /\ \A l, m \in loads : l.live /\ m.live => l = m
  /\ shown.items \subseteq Shown
  /\ \A l \in loads : Answered(l) => l.answer.items \subseteq Shown /\ UpToDate(l.answer.items)
  /\ ShownAnswersAsked

(* ------------------------------- walks --------------------------------- *)

\* r is on a page before c, or there is nothing behind.
Passed(c, r) == c = None \/ ~Behind(c, r)

\* Where a page ends that was walked: the one that is shown, and those before it.
Turned == {shown.next} \cup {ask.cursors[k] : k \in DOMAIN ask.cursors}

Walked(c) == \A r \in same \cap Matching[ask.search] : Passed(c, r) => r \in seen

\* An answer has every record that is still as it was read.
Complete(l) ==
  LET a == l.answer
  IN  /\ a = [items |-> a.items, next |-> a.next, working |-> a.working, same |-> a.same]
      /\ a.next \in Cursors \cup {None}
      /\ a.same \subseteq On /\ (screen.paged = "no" => a.same = {})
      /\ l.question.cursor # None => same \subseteq a.same
      /\ \A r \in a.same \cap Matching[l.question.search] :
           Behind(l.question.cursor, r) /\ Passed(a.next, r) => \E i \in a.items : i.id = r

WalkInv ==
  /\ same \subseteq On /\ (screen.paged = "no" => same = {})
  /\ shown.next \in Cursors \cup {None}
  /\ \A c \in Turned : Walked(c)
  /\ \A l \in loads : Answered(l) => Complete(l)

ScreensInv == TableOK /\ FormsInv /\ SavedInv /\ ReadsInv /\ WalkInv

(***************************************************************************)
(* Records.                                                                *)
(***************************************************************************)

\* A record that is written, and the others as they were.
LEMMA PutTable ==
  ASSUME TableOK, NEW r \in Rows, NEW d,
         d \in [state : {"on", "gone"}, key : Keys, version : Nat], d.version >= table[r].version,
         Put(r, d)
  PROVE  /\ TableOK'
         /\ table'[r] = d /\ \A q \in Rows \ {r} : table'[q] = table[q]
         /\ \A q \in Rows : table'[q].version >= table[q].version
<1>1. table' = [table EXCEPT ![r] = d]
  BY DEF Put
<1>2. table'[r] = d /\ \A q \in Rows \ {r} : table'[q] = table[q]
  BY <1>1 DEF TableOK
<1>3. d.state \in {"on", "gone"} /\ d.version \in Nat
  OBVIOUS
<1>4. \A q \in Rows : table[q].version \in Nat
  BY DEF TableOK
<1>5. d \in [state : {"new", "on", "gone"}, key : Keys, version : Nat]
  OBVIOUS
<1>6. TableOK'
  <2>1. table' \in [Rows -> [state : {"new", "on", "gone"}, key : Keys, version : Nat]]
    BY <1>1, <1>5 DEF TableOK
  <2>2. ASSUME NEW q \in Rows, table'[q].state = "new" PROVE table'[q].version = 0
    BY <1>2, <1>3, <2>2 DEF TableOK
  <2> QED
    BY <2>1, <2>2 DEF TableOK
<1>7. \A q \in Rows : table'[q].version >= table[q].version
  BY <1>2, <1>4
<1> QED
  BY <1>2, <1>6, <1>7

\* A record that is new has its first version.
LEMMA FreshRecord ==
  ASSUME TableOK, NEW r \in Rows, table[r].state = "new", NEW k \in Keys
  PROVE  /\ Fresh(k) \in [state : {"on", "gone"}, key : Keys, version : Nat]
         /\ Fresh(k).version >= table[r].version
BY DEF TableOK, Fresh

\* A record that is written has a version as great as the one before.
LEMMA OldRecord ==
  ASSUME TableOK, NEW r \in Rows, NEW d, d.version \in Nat, d.version >= table[r].version,
         d.state \in {"on", "gone"}, d.key \in Keys,
         d = [state |-> d.state, key |-> d.key, version |-> d.version]
  PROVE  d \in [state : {"on", "gone"}, key : Keys, version : Nat]
OBVIOUS

\* A change by another person.
LEMMA ChangedRecord ==
  ASSUME TableOK, NEW r \in On, NEW k \in Keys, NEW d,
         \/ d = [table[r] EXCEPT !.key = k, !.version = @ + 1]
         \/ d = [table[r] EXCEPT !.state = "gone"]
         \/ d = [table[r] EXCEPT !.version = @ + 1]
  PROVE  /\ r \in Rows /\ d \in [state : {"on", "gone"}, key : Keys, version : Nat]
         /\ d.version >= table[r].version
<1>1. r \in Rows /\ table[r].state = "on"
  BY DEF On
<1>2. PICK s, j, v : /\ table[r] = [state |-> s, key |-> j, version |-> v]
                     /\ s = "on" /\ j \in Keys /\ v \in Nat
  <2>1. table[r] \in [state : {"new", "on", "gone"}, key : Keys, version : Nat]
    BY <1>1 DEF TableOK
  <2> QED
    BY <1>1, <2>1
<1>3. \/ d = [state |-> s, key |-> k, version |-> v + 1]
      \/ d = [state |-> "gone", key |-> j, version |-> v]
      \/ d = [state |-> s, key |-> j, version |-> v + 1]
  <2>1. PICK t : t = table[r]
    OBVIOUS
  <2>2. t = [state |-> s, key |-> j, version |-> v]
    BY <1>2, <2>1
  <2>3. CASE d = [t EXCEPT !.key = k, !.version = @ + 1]
    BY <2>2, <2>3
  <2>4. CASE d = [t EXCEPT !.state = "gone"]
    BY <2>2, <2>4
  <2>5. CASE d = [t EXCEPT !.version = @ + 1]
    BY <2>2, <2>5
  <2> QED
    BY <2>1, <2>3, <2>4, <2>5
<1> QED
  BY <1>1, <1>2, <1>3

(***************************************************************************)
(* What is used.                                                           *)
(***************************************************************************)

\* Bounds count up, and a form has a number of its own.
LEMMA Spending ==
  ASSUME UsedOK, NEW what \in {"asks", "changes", "failures", "forms"}, Spend(what),
         what = "forms" => used.forms < MaxForms
  PROVE  /\ UsedOK'
         /\ used'.forms = IF what = "forms" THEN used.forms + 1 ELSE used.forms
<1>1. MaxForms \in Nat
  BY ScreensAssumption
<1>2. PICK a, c, f, o, s, n : /\ {a, c, f, o, s, n} \subseteq Nat
        /\ used = [asks |-> a, changes |-> c, failures |-> f, forms |-> o, saves |-> s, all |-> n]
  BY DEF UsedOK
<1>3. used' = [used EXCEPT ![what] = @ + 1, !.all = @ + 1]
  BY DEF Spend
<1>4. CASE what = "asks"
  <2>1. used' = [asks |-> a + 1, changes |-> c, failures |-> f, forms |-> o, saves |-> s, all |-> n + 1]
    BY <1>2, <1>3, <1>4
  <2> QED
    BY <1>1, <1>2, <1>4, <2>1 DEF UsedOK
<1>5. CASE what = "changes"
  <2>1. used' = [asks |-> a, changes |-> c + 1, failures |-> f, forms |-> o, saves |-> s, all |-> n + 1]
    BY <1>2, <1>3, <1>5
  <2> QED
    BY <1>1, <1>2, <1>5, <2>1 DEF UsedOK
<1>6. CASE what = "failures"
  <2>1. used' = [asks |-> a, changes |-> c, failures |-> f + 1, forms |-> o, saves |-> s, all |-> n + 1]
    BY <1>2, <1>3, <1>6
  <2> QED
    BY <1>1, <1>2, <1>6, <2>1 DEF UsedOK
<1>7. CASE what = "forms"
  <2>1. used' = [asks |-> a, changes |-> c, failures |-> f, forms |-> o + 1, saves |-> s, all |-> n + 1]
    BY <1>2, <1>3, <1>7
  <2> QED
    BY <1>1, <1>2, <1>7, <2>1 DEF UsedOK
<1> QED
  BY <1>4, <1>5, <1>6, <1>7

(***************************************************************************)
(* Forms and saves.                                                        *)
(***************************************************************************)

Alike(x, y) == x.token = y.token /\ x.of = y.of /\ x.version = y.version

\* Steps that change no record themselves: every request was there before, or
\* has been opened under a new number.
LEMMA Carried ==
  ASSUME FormsInv, UsedOK', made' = made, screen' = screen,
         TableOK, \A r \in Rows : table'[r].version >= table[r].version,
         \A r \in Rows : table'[r].version \in Nat,
         NEW n, n.of \in Rows \cup {None}, n.version \in Nat,
         used'.forms \in {used.forms, used.forms + 1},
         \A x \in Requests' : \/ \E y \in Requests : Alike(x, y)
                              \/ /\ used'.forms = used.forms + 1 /\ x.token = used'.forms
                                 /\ x.of = n.of /\ x.version = n.version,
         form' # None => FormOK(form'), \A s \in saves' : SaveOK(s)
  PROVE  FormsInv'
<1>1. used.forms \in Nat /\ used'.forms \in Nat /\ used'.forms <= MaxForms /\ MaxForms \in Nat
  BY ScreensAssumption DEF FormsInv, UsedOK
<1>2. \A y \in Requests : /\ y.token \in 1 .. used.forms
                          /\ y.of \in Rows \cup {None} /\ y.version \in Nat /\ Spent(y)
  BY DEF FormsInv
<1>3. \A x, y \in Requests : x.token = y.token => x.of = y.of /\ x.version = y.version
  BY DEF FormsInv
<1>4. \A t \in 1 .. MaxForms : t > used.forms => made[t] = 0
  BY DEF FormsInv
<1>5. ASSUME NEW x \in Requests'
      PROVE  /\ x.token \in 1 .. used'.forms
             /\ x.of \in Rows \cup {None} /\ x.version \in Nat
             /\ Spent(x)'
  <2>1. CASE \E y \in Requests : Alike(x, y)
    <3>1. PICK y \in Requests : Alike(x, y)
      BY <2>1
    <3>2. /\ y.token \in 1 .. used.forms
          /\ y.of \in Rows \cup {None} /\ y.version \in Nat /\ Spent(y)
      BY <1>2
    <3>3. x.token \in 1 .. used'.forms /\ x.of \in Rows \cup {None} /\ x.version \in Nat
      BY <1>1, <3>1, <3>2 DEF Alike
    <3>4. ASSUME x.of # None, made[x.token] > 0 PROVE table'[x.of].version > x.version
      <4>1. x.of \in Rows /\ table[x.of].version > x.version
        BY <3>1, <3>2, <3>4 DEF Alike, Spent
      <4>2. table[x.of].version \in Nat
        BY <4>1 DEF TableOK
      <4> QED
        BY <3>3, <4>1, <4>2
    <3> QED
      BY <3>3, <3>4 DEF Spent
  <2>2. CASE /\ used'.forms = used.forms + 1 /\ x.token = used'.forms
             /\ x.of = n.of /\ x.version = n.version
    <3>1. made[x.token] = 0
      BY <1>1, <1>4, <2>2
    <3> QED
      BY <1>1, <2>2, <3>1 DEF Spent
  <2> QED
    BY <2>1, <2>2
<1>6. ASSUME NEW x \in Requests', NEW y \in Requests', x.token = y.token
      PROVE  x.of = y.of /\ x.version = y.version
  <2> DEFINE Old(z) == \E v \in Requests : Alike(z, v)
             New(z) == /\ used'.forms = used.forms + 1 /\ z.token = used'.forms
                       /\ z.of = n.of /\ z.version = n.version
  <2>1. \A z : Old(z) => z.token \in 1 .. used.forms
    BY <1>2 DEF Alike
  <2>2. \A z : New(z) => z.token \notin 1 .. used.forms
    BY <1>1
  <2>3. (Old(x) \/ New(x)) /\ (Old(y) \/ New(y))
    OBVIOUS
  <2>4. CASE Old(x) /\ Old(y)
    BY <1>3, <1>6, <2>4 DEF Alike
  <2>5. CASE New(x) /\ New(y)
    BY <2>5
  <2> HIDE DEF Old, New
  <2> QED
    BY <1>6, <2>1, <2>2, <2>3, <2>4, <2>5
<1>7. \A t \in 1 .. MaxForms : t > used'.forms => made'[t] = 0
  BY <1>1, <1>4
<1>8. AppliedOnce'
  BY DEF FormsInv, AppliedOnce
<1>9. made' \in [1 .. MaxForms -> Nat]
  BY DEF FormsInv
<1> QED
  BY <1>5, <1>6, <1>7, <1>8, <1>9 DEF FormsInv

\* Nothing is opened, saved or answered.
LEMMA FormsKept ==
  ASSUME FormsInv, TableOK, TableOK', \A r \in Rows : table'[r].version >= table[r].version,
         UsedOK', used'.forms = used.forms,
         made' = made, screen' = screen, form' \in {form, None}, saves' = saves
  PROVE  FormsInv'
<1>1. PICK n : n.of \in Rows \cup {None} /\ n.version \in Nat
  <2>1. [of |-> None, version |-> 0].of \in Rows \cup {None} /\ [of |-> None, version |-> 0].version \in Nat
    OBVIOUS
  <2> QED
    BY <2>1
<1>2. \A x \in Requests' : \E y \in Requests : Alike(x, y)
  BY DEF Requests, Alike
<1>3. \A r \in Rows : table'[r].version \in Nat
  BY DEF TableOK
<1>4. (form' # None => FormOK(form')) /\ \A s \in saves' : SaveOK(s)
  BY DEF FormsInv
<1> QED
  BY <1>1, <1>2, <1>3, <1>4, Carried

\* What is known to be saved stays saved, whoever changes it then.
LEMMA SavedKept ==
  ASSUME SavedInv, FormsInv, TableOK, TableOK', \A r \in Rows : table'[r].version >= table[r].version,
         saved' = saved,
         \A s \in saves' : s.state = "done" =>
           \E y \in saves : y.state = "done" /\ y.of = s.of /\ y.version = s.version
  PROVE  SavedInv'
<1>1. \A r \in Rows : table[r].version \in Nat /\ table'[r].version \in Nat
  BY DEF TableOK
<1>2. \A r \in Rows : saved'[r] <= table'[r].version
  BY <1>1 DEF SavedInv
<1>3. ASSUME NEW s \in saves', s.state = "done", s.of # None
      PROVE  table'[s.of].version > s.version
  <2>1. PICK y \in saves : y.state = "done" /\ y.of = s.of /\ y.version = s.version
    BY <1>3
  <2>2. table[s.of].version > s.version
    BY <1>3, <2>1 DEF SavedInv
  <2>3. s.of \in Rows /\ s.version \in Nat
    BY <1>3, <2>1 DEF FormsInv, Requests
  <2> QED
    BY <1>1, <2>2, <2>3
<1> QED
  BY <1>2, <1>3 DEF SavedInv

\* A form is opened with a new number.
LEMMA Opened ==
  ASSUME FormsInv, TableOK, NEW f, FormOK(f), f.of \in Rows \cup {None}, f.version \in Nat,
         Open(f)
  PROVE  FormsInv'
<1>1. /\ UsedOK' /\ used'.forms = used.forms + 1
      /\ form' = [f EXCEPT !.token = used.forms + 1] /\ saves' = saves /\ table' = table
      /\ made' = made /\ screen' = screen
  BY Spending DEF Open, FormsInv, server
<1>2. FormOK(form') /\ form'.token = used.forms + 1 /\ form'.of = f.of /\ form'.version = f.version
  <2>1. PICK t, o, v : f = [token |-> t, of |-> o, version |-> v]
    BY DEF FormOK
  <2>2. form' = [token |-> used.forms + 1, of |-> o, version |-> v]
    BY <1>1, <2>1
  <2> QED
    BY <2>1, <2>2 DEF FormOK
<1>3. \A x \in Requests' : \/ \E y \in Requests : Alike(x, y)
                           \/ /\ used'.forms = used.forms + 1 /\ x.token = used'.forms
                              /\ x.of = f.of /\ x.version = f.version
  BY <1>1, <1>2 DEF Requests, Alike
<1>4. \A r \in Rows : table[r].version \in Nat
  BY DEF TableOK
<1>5. \A r \in Rows : table'[r].version \in Nat /\ table'[r].version >= table[r].version
  BY <1>1, <1>4
<1>6. \A s \in saves' : SaveOK(s)
  BY <1>1 DEF FormsInv
<1> QED
  BY <1>1, <1>2, <1>3, <1>5, <1>6, Carried

\* A save is on its way more or is another state, or there is one less.
LEMMA SavesMoved ==
  ASSUME FormsInv, TableOK, TableOK', \A r \in Rows : table'[r].version >= table[r].version,
         UsedOK', used'.forms = used.forms,
         made' = made, screen' = screen, form' \in {form, None},
         \A s \in saves' : SaveOK(s) /\ \E y \in Requests : Alike(s, y)
  PROVE  FormsInv'
<1>1. PICK n : n.of \in Rows \cup {None} /\ n.version \in Nat
  <2>1. [of |-> None, version |-> 0].of \in Rows \cup {None} /\ [of |-> None, version |-> 0].version \in Nat
    OBVIOUS
  <2> QED
    BY <2>1
<1>2. \A x \in Requests' : \E y \in Requests : Alike(x, y)
  BY DEF Requests, Alike
<1>3. \A r \in Rows : table'[r].version \in Nat
  BY DEF TableOK
<1>4. form' # None => FormOK(form')
  BY DEF FormsInv
<1> QED
  BY <1>1, <1>2, <1>3, <1>4, Carried

\* A save goes to another state, and nothing else of it changes.
LEMMA Restated ==
  ASSUME FormsInv, NEW s \in saves, NEW state, Now(s, state)
  PROVE  \A x \in saves' : /\ SaveOK(x) /\ \E y \in saves : Alike(x, y)
                           /\ x \in saves \/ (x.state = state /\ x.of = s.of /\ x.version = s.version
                                              /\ x.token = s.token /\ x.live = s.live)
<1>1. PICK x : x = [s EXCEPT !.state = state]
  OBVIOUS
<1>2. saves' = (saves \ {s}) \cup {x}
  BY <1>1 DEF Now
<1>3. SaveOK(x) /\ x.state = state /\ x.of = s.of /\ x.version = s.version /\ x.token = s.token /\ x.live = s.live
  <2>1. SaveOK(s)
    BY DEF FormsInv
  <2> QED
    BY <1>1, <2>1 DEF SaveOK
<1>4. \A y \in saves : SaveOK(y)
  BY DEF FormsInv
<1> QED
  BY <1>2, <1>3, <1>4 DEF Alike

\* What does not depend on what is read.
FormsPart == TableOK /\ FormsInv /\ SavedInv

LEMMA SameTable ==
  ASSUME TableOK, table' = table
  PROVE  TableOK' /\ \A r \in Rows : table'[r].version >= table[r].version
<1>1. \A r \in Rows : table[r].version \in Nat
  BY DEF TableOK
<1> QED
  BY <1>1 DEF TableOK

\* Reading, and giving up a form.
LEMMA Quiet ==
  ASSUME FormsPart, UNCHANGED <<table, screen, made, saved, saves>>, form' \in {form, None},
         used' = used \/ \E what \in {"asks", "changes", "failures"} : Spend(what)
  PROVE  FormsPart'
<1>1. UsedOK' /\ used'.forms = used.forms
  <2>1. CASE used' = used
    BY <2>1 DEF FormsPart, FormsInv, UsedOK
  <2>2. CASE \E what \in {"asks", "changes", "failures"} : Spend(what)
    BY <2>2, Spending DEF FormsPart, FormsInv
  <2> QED
    BY <2>1, <2>2
<1>2. TableOK' /\ \A r \in Rows : table'[r].version >= table[r].version
  BY SameTable DEF FormsPart
<1>3. FormsInv'
  BY <1>1, <1>2, FormsKept DEF FormsPart
<1>4. SavedInv'
  BY <1>2, SavedKept DEF FormsPart
<1> QED
  BY <1>2, <1>3, <1>4 DEF FormsPart

LEMMA OthersForms == ASSUME FormsPart, Others PROVE FormsPart'
<1>1. \E r \in Rows : \E d \in [state : {"on", "gone"}, key : Keys, version : Nat] :
        d.version >= table[r].version /\ Put(r, d)
  <2>1. PICK r \in Rows, k \in Keys :
           \/ table[r].state = "new" /\ Put(r, Fresh(k))
           \/ r \in On /\ Put(r, [table[r] EXCEPT !.key = k, !.version = @ + 1])
           \/ r \in On /\ Put(r, [table[r] EXCEPT !.state = "gone"])
    BY DEF Others
  <2>2. CASE table[r].state = "new" /\ Put(r, Fresh(k))
    BY <2>2, FreshRecord DEF FormsPart
  <2>3. CASE r \in On /\ Put(r, [table[r] EXCEPT !.key = k, !.version = @ + 1])
    BY <2>3, ChangedRecord DEF FormsPart
  <2>4. CASE r \in On /\ Put(r, [table[r] EXCEPT !.state = "gone"])
    BY <2>4, ChangedRecord DEF FormsPart
  <2> QED
    BY <2>1, <2>2, <2>3, <2>4
<1>2. TableOK' /\ \A q \in Rows : table'[q].version >= table[q].version
  <2>1. PICK r \in Rows, d \in [state : {"on", "gone"}, key : Keys, version : Nat] :
           d.version >= table[r].version /\ Put(r, d)
    BY <1>1
  <2> QED
    BY <2>1, PutTable DEF FormsPart
<1>3. /\ UsedOK' /\ used'.forms = used.forms
      /\ made' = made /\ screen' = screen /\ form' = form /\ saves' = saves /\ saved' = saved
  BY Spending DEF Others, forms, FormsPart, FormsInv
<1>4. FormsInv'
  BY <1>2, <1>3, FormsKept DEF FormsPart
<1>5. SavedInv'
  BY <1>2, <1>3, SavedKept DEF FormsPart
<1> QED
  BY <1>2, <1>4, <1>5 DEF FormsPart

LEMMA OpenForms ==
  ASSUME FormsPart, NEW f, FormOK(f), f.of \in Rows \cup {None}, f.version \in Nat, Open(f)
  PROVE  FormsPart'
<1>1. table' = table /\ saves' = saves /\ saved' = saved
  BY DEF Open, server
<1>2. TableOK' /\ \A r \in Rows : table'[r].version >= table[r].version
  BY <1>1, SameTable DEF FormsPart
<1>3. FormsInv'
  BY Opened DEF FormsPart
<1>4. SavedInv'
  BY <1>1, <1>2, SavedKept DEF FormsPart
<1> QED
  BY <1>2, <1>3, <1>4 DEF FormsPart

LEMMA OpenNewForms == ASSUME FormsPart, OpenNew PROVE FormsPart'
<1>1. PICK f : f = [token |-> 0, of |-> None, version |-> 0]
  OBVIOUS
<1>2. Open(f) /\ FormOK(f) /\ f.of = None /\ f.version = 0
  BY <1>1 DEF OpenNew, FormOK
<1> QED
  BY <1>2, OpenForms

LEMMA OpenRowForms == ASSUME FormsPart, shown.items \subseteq Shown, OpenRow PROVE FormsPart'
<1>1. PICK i \in shown.items : Open([token |-> 0, of |-> i.id, version |-> i.version])
  BY DEF OpenRow
<1>2. PICK f : f = [token |-> 0, of |-> i.id, version |-> i.version]
  OBVIOUS
<1>3. i.id \in Rows /\ i.version \in Nat
  BY DEF Shown
<1>4. Open(f) /\ FormOK(f) /\ f.of \in Rows /\ f.version \in Nat
  BY <1>1, <1>2, <1>3 DEF FormOK
<1> QED
  BY <1>4, OpenForms

LEMMA DetailForms == ASSUME FormsPart, NEW r, Detail(r) PROVE FormsPart'
<1>1. PICK f : f = [token |-> 0, of |-> r, version |-> table[r].version]
  OBVIOUS
<1>2. r \in Rows /\ table[r].version \in Nat
  BY DEF Detail, On, FormsPart, TableOK
<1>3. Open(f) /\ FormOK(f) /\ f.of \in Rows /\ f.version \in Nat
  BY <1>1, <1>2 DEF FormOK, Detail
<1> QED
  BY <1>3, OpenForms

LEMMA RefreshForms == ASSUME FormsPart, Refresh PROVE FormsPart'
<1>1. /\ UsedOK' /\ used'.forms = used.forms
      /\ made' = made /\ screen' = screen /\ form' = None /\ saved' = saved /\ table' = table
      /\ saves' = {[s EXCEPT !.live = FALSE] : s \in saves}
  BY Spending DEF Refresh, server, FormsPart, FormsInv
<1>2. TableOK' /\ \A r \in Rows : table'[r].version >= table[r].version
  BY <1>1, SameTable DEF FormsPart
<1>3. ASSUME NEW x \in saves'
      PROVE  SaveOK(x) /\ \E s \in saves : Alike(x, s) /\ x.state = s.state
  <2>1. PICK s \in saves : x = [s EXCEPT !.live = FALSE]
    BY <1>1
  <2>2. SaveOK(s)
    BY DEF FormsPart, FormsInv
  <2>3. SaveOK(x) /\ Alike(x, s) /\ x.state = s.state
    BY <2>1, <2>2 DEF SaveOK, Alike
  <2> QED
    BY <2>3
<1>4. \A x \in saves' : SaveOK(x) /\ \E y \in Requests : Alike(x, y)
  BY <1>3 DEF Requests
<1>5. FormsInv'
  BY <1>1, <1>2, <1>4, SavesMoved DEF FormsPart
<1>6. SavedInv'
  BY <1>1, <1>2, <1>3, SavedKept DEF FormsPart, Alike
<1> QED
  BY <1>2, <1>5, <1>6 DEF FormsPart

LEMMA SaveForms == ASSUME FormsPart, Save PROVE FormsPart'
<1>1. PICK x : x = [token |-> form.token, of |-> form.of, version |-> form.version,
                    try |-> used.saves, live |-> TRUE, state |-> "sent"]
  OBVIOUS
<1>2. /\ made' = made /\ screen' = screen /\ form' = form /\ saved' = saved /\ table' = table
      /\ saves' = saves \cup {x} /\ form # None
      /\ used' = [used EXCEPT !.saves = @ + 1]
  BY <1>1 DEF Save, Send, server
<1>3. UsedOK' /\ used'.forms = used.forms
  <2>1. PICK a, c, f, o, s, n : /\ {a, c, f, o, s, n} \subseteq Nat
          /\ used = [asks |-> a, changes |-> c, failures |-> f, forms |-> o, saves |-> s, all |-> n]
    BY DEF UsedOK, FormsPart, FormsInv
  <2>2. used' = [asks |-> a, changes |-> c, failures |-> f, forms |-> o, saves |-> s + 1, all |-> n]
    BY <1>2, <2>1
  <2>3. used.forms <= MaxForms
    BY DEF UsedOK, FormsPart, FormsInv
  <2> QED
    BY <2>1, <2>2, <2>3 DEF UsedOK
<1>4. SaveOK(x) /\ Alike(x, form) /\ x.state = "sent"
  BY <1>1 DEF SaveOK, Alike
<1>5. form \in Requests
  BY <1>2 DEF Requests
<1>6. TableOK' /\ \A r \in Rows : table'[r].version >= table[r].version
  BY <1>2, SameTable DEF FormsPart
<1>7. \A s \in saves' : SaveOK(s) /\ \E y \in Requests : Alike(s, y)
  BY <1>2, <1>4, <1>5 DEF Requests, Alike, FormsPart, FormsInv
<1>8. FormsInv'
  BY <1>2, <1>3, <1>6, <1>7, SavesMoved DEF FormsPart
<1>9. SavedInv'
  BY <1>2, <1>4, <1>6, SavedKept DEF FormsPart
<1> QED
  BY <1>6, <1>8, <1>9 DEF FormsPart

LEMMA ActForms == ASSUME FormsPart, shown.items \subseteq Shown, Act PROVE FormsPart'
<1>1. PICK i \in shown.items : Send([token |-> used.forms + 1, of |-> i.id, version |-> i.version])
  BY DEF Act
<1>2. PICK f : f = [token |-> used.forms + 1, of |-> i.id, version |-> i.version]
  OBVIOUS
<1>3. PICK x : x = [token |-> f.token, of |-> f.of, version |-> f.version,
                    try |-> used.saves, live |-> TRUE, state |-> "sent"]
  OBVIOUS
<1>4. /\ made' = made /\ screen' = screen /\ form' = form /\ saved' = saved /\ table' = table
      /\ saves' = saves \cup {x}
      /\ used.forms < MaxForms
      /\ used' = [used EXCEPT !.forms = @ + 1, !.saves = @ + 1, !.all = @ + 1]
  BY <1>1, <1>2, <1>3 DEF Act, Send, server
<1>5. UsedOK' /\ used'.forms = used.forms + 1
  <2>1. PICK a, c, f2, o, s, n : /\ {a, c, f2, o, s, n} \subseteq Nat
          /\ used = [asks |-> a, changes |-> c, failures |-> f2, forms |-> o, saves |-> s, all |-> n]
    BY DEF UsedOK, FormsPart, FormsInv
  <2>2. used' = [asks |-> a, changes |-> c, failures |-> f2, forms |-> o + 1, saves |-> s + 1, all |-> n + 1]
    BY <1>4, <2>1
  <2>3. MaxForms \in Nat
    BY ScreensAssumption
  <2> QED
    BY <1>4, <2>1, <2>2, <2>3 DEF UsedOK
<1>6. i.id \in Rows /\ i.version \in Nat
  BY DEF Shown
<1>7. /\ SaveOK(x) /\ x.state = "sent" /\ x.token = used.forms + 1 /\ x.of = f.of /\ x.version = f.version
      /\ f.of \in Rows /\ f.version \in Nat
  BY <1>2, <1>3, <1>6 DEF SaveOK
<1>8. TableOK' /\ \A r \in Rows : table'[r].version >= table[r].version
  BY <1>4, SameTable DEF FormsPart
<1>9. \A y \in Requests' : \/ \E z \in Requests : Alike(y, z)
                           \/ /\ used'.forms = used.forms + 1 /\ y.token = used'.forms
                              /\ y.of = f.of /\ y.version = f.version
  BY <1>4, <1>5, <1>7 DEF Requests, Alike
<1>10. (form' # None => FormOK(form')) /\ \A s \in saves' : SaveOK(s)
  BY <1>4, <1>7 DEF FormsPart, FormsInv
<1>11. \A r \in Rows : table'[r].version \in Nat
  BY <1>8 DEF TableOK
<1>12. FormsInv'
  BY <1>4, <1>5, <1>7, <1>8, <1>9, <1>10, <1>11, Carried DEF FormsPart
<1>13. SavedInv'
  BY <1>4, <1>7, <1>8, SavedKept DEF FormsPart
<1> QED
  BY <1>8, <1>12, <1>13 DEF FormsPart

LEMMA LoseForms == ASSUME FormsPart, NEW s \in saves, Lose(s) PROVE FormsPart'
<1>1. /\ UsedOK' /\ used'.forms = used.forms
      /\ made' = made /\ screen' = screen /\ form' = form /\ saved' = saved /\ table' = table
      /\ Now(s, "failed")
  BY Spending DEF Lose, server, FormsPart, FormsInv
<1>2. TableOK' /\ \A r \in Rows : table'[r].version >= table[r].version
  BY <1>1, SameTable DEF FormsPart
<1>3. \A x \in saves' : /\ SaveOK(x) /\ \E y \in saves : Alike(x, y)
                        /\ x \in saves \/ x.state = "failed"
  BY <1>1, Restated DEF FormsPart
<1>4. \A x \in saves' : SaveOK(x) /\ \E y \in Requests : Alike(x, y)
  BY <1>3 DEF Requests
<1>5. FormsInv'
  BY <1>1, <1>2, <1>4, SavesMoved DEF FormsPart
<1>6. SavedInv'
  BY <1>1, <1>2, <1>3, SavedKept DEF FormsPart
<1> QED
  BY <1>2, <1>5, <1>6 DEF FormsPart

LEMMA AnswerForms == ASSUME FormsPart, NEW s \in saves, Answer(s) PROVE FormsPart'
<1>1. /\ used' = used /\ made' = made /\ screen' = screen /\ table' = table
      /\ form' \in {form, None} /\ saves' = saves \ {s}
      /\ \/ saved' = saved
         \/ s.state = "done" /\ s.of # None /\ saved' = [saved EXCEPT ![s.of] = s.version + 1]
  BY DEF Answer, server
<1>2. TableOK' /\ \A r \in Rows : table'[r].version >= table[r].version
  BY <1>1, SameTable DEF FormsPart
<1>3. \A x \in saves' : SaveOK(x) /\ \E y \in Requests : Alike(x, y)
  BY <1>1 DEF Requests, Alike, FormsPart, FormsInv
<1>4. UsedOK'
  BY <1>1 DEF UsedOK, FormsPart, FormsInv
<1>5. FormsInv'
  BY <1>1, <1>2, <1>3, <1>4, SavesMoved DEF FormsPart
<1>6. SavedInv'
  <2>1. CASE saved' = saved
    BY <1>1, <1>2, <2>1, SavedKept DEF FormsPart
  <2>2. CASE s.state = "done" /\ s.of # None /\ saved' = [saved EXCEPT ![s.of] = s.version + 1]
    <3>1. s.of \in Rows /\ s.version \in Nat
      BY <2>2 DEF FormsPart, FormsInv, Requests
    <3>2. table[s.of].version > s.version /\ table[s.of].version \in Nat
      BY <2>2, <3>1 DEF FormsPart, SavedInv, TableOK
    <3>3. saved' \in [Rows -> Nat]
      BY <2>2, <3>1 DEF FormsPart, SavedInv
    <3>4. \A r \in Rows : saved'[r] = IF r = s.of THEN s.version + 1 ELSE saved[r]
      BY <2>2 DEF FormsPart, SavedInv
    <3>5. \A r \in Rows : saved'[r] <= table'[r].version
      BY <1>1, <3>1, <3>2, <3>4 DEF FormsPart, SavedInv
    <3>6. \A x \in saves' : x.state = "done" /\ x.of # None => table'[x.of].version > x.version
      BY <1>1 DEF FormsPart, SavedInv
    <3> QED
      BY <3>3, <3>5, <3>6 DEF SavedInv
  <2> QED
    BY <1>1, <2>1, <2>2
<1> QED
  BY <1>2, <1>5, <1>6 DEF FormsPart

\* A save that is accepted changes one record; whoever asks with the same number has the same in hand.
LEMMA AcceptedForms ==
  ASSUME FormsPart, NEW s \in saves, NEW r \in Rows, NEW d,
         d \in [state : {"on", "gone"}, key : Keys, version : Nat], d.version >= table[r].version,
         Put(r, d), Now(s, "done"), made' = [made EXCEPT ![s.token] = @ + 1],
         UNCHANGED <<screen, form, saved, used>>,
         screen.creates # "plain" => made[s.token] = 0,
         s.of # None => r = s.of /\ d.version > s.version
  PROVE  FormsPart'
<1>1. /\ TableOK' /\ table'[r] = d
      /\ \A q \in Rows : table'[q].version >= table[q].version
  BY PutTable DEF FormsPart
<1>2. \A q \in Rows : table[q].version \in Nat /\ table'[q].version \in Nat
  BY <1>1 DEF FormsPart, TableOK
<1>3. \A x \in saves' : /\ SaveOK(x) /\ \E y \in saves : Alike(x, y)
                        /\ x \in saves \/ (x.of = s.of /\ x.version = s.version)
  BY Restated DEF FormsPart
<1>4. \A x \in Requests' : \E y \in Requests : Alike(x, y)
  BY <1>3 DEF Requests, Alike
<1>5. s \in Requests
  BY DEF Requests
<1>6. /\ UsedOK /\ made \in [1 .. MaxForms -> Nat] /\ MaxForms \in Nat
      /\ used.forms \in Nat /\ used.forms <= MaxForms
  BY ScreensAssumption DEF FormsPart, FormsInv, UsedOK
<1>7. \A y \in Requests : /\ y.token \in 1 .. used.forms
                          /\ y.of \in Rows \cup {None} /\ y.version \in Nat /\ Spent(y)
  BY DEF FormsPart, FormsInv
<1>8. \A x, y \in Requests : x.token = y.token => x.of = y.of /\ x.version = y.version
  BY DEF FormsPart, FormsInv
<1>9. s.token \in 1 .. used.forms /\ s.token \in 1 .. MaxForms
  BY <1>5, <1>6, <1>7
<1>10. /\ made' \in [1 .. MaxForms -> Nat] /\ made'[s.token] = made[s.token] + 1
       /\ \A t \in 1 .. MaxForms \ {s.token} : made'[t] = made[t]
  BY <1>6, <1>9
<1>11. UsedOK'
  BY <1>6 DEF UsedOK
<1>12. \A t \in 1 .. MaxForms : t > used'.forms => made'[t] = 0
  BY <1>6, <1>9, <1>10 DEF FormsPart, FormsInv
<1>13. ASSUME NEW x \in Requests'
       PROVE  /\ x.token \in 1 .. used'.forms
              /\ x.of \in Rows \cup {None} /\ x.version \in Nat /\ Spent(x)'
  <2>1. PICK y \in Requests : Alike(x, y)
    BY <1>4
  <2>2. x.token \in 1 .. used'.forms /\ x.of \in Rows \cup {None} /\ x.version \in Nat
    BY <1>7, <2>1 DEF Alike
  <2>3. ASSUME x.of # None, made'[x.token] > 0 PROVE table'[x.of].version > x.version
    <3>1. CASE x.token = s.token
      <4>1. s.of = x.of /\ s.version = x.version
        BY <1>5, <1>8, <2>1, <3>1 DEF Alike
      <4> QED
        BY <1>1, <2>3, <4>1
    <3>2. CASE x.token # s.token
      <4>1. x.token \in 1 .. MaxForms
        BY <1>6, <2>2
      <4>2. made[x.token] > 0
        BY <1>10, <2>3, <3>2, <4>1
      <4>3. table[x.of].version > x.version /\ x.of \in Rows
        BY <1>7, <2>1, <2>2, <2>3, <4>2 DEF Alike, Spent
      <4> QED
        BY <1>1, <1>2, <2>2, <4>3
    <3> QED
      BY <3>1, <3>2
  <2> QED
    BY <2>2, <2>3 DEF Spent
<1>14. \A x, y \in Requests' : x.token = y.token => x.of = y.of /\ x.version = y.version
  BY <1>4, <1>8 DEF Alike
<1>15. AppliedOnce'
  <2>1. SUFFICES ASSUME screen.creates # "plain", NEW t \in 1 .. MaxForms PROVE made'[t] <= 1
    BY <1>10 DEF AppliedOnce
  <2>2. made[t] <= 1
    BY <1>6, <2>1 DEF FormsPart, FormsInv, AppliedOnce
  <2> QED
    BY <1>6, <1>10, <2>1, <2>2
<1>16. form' # None => FormOK(form')
  BY DEF FormsPart, FormsInv
<1>17. FormsInv'
  BY <1>3, <1>10, <1>11, <1>12, <1>13, <1>14, <1>15, <1>16 DEF FormsInv
<1>18. SavedInv'
  <2>1. \A q \in Rows : saved'[q] <= table'[q].version
    <3>1. \A q \in Rows : saved[q] <= table[q].version /\ saved[q] \in Nat
      BY DEF FormsPart, SavedInv
    <3> QED
      BY <1>1, <1>2, <3>1
  <2>2. ASSUME NEW x \in saves', x.state = "done", x.of # None
        PROVE  table'[x.of].version > x.version
    <3>1. CASE x \in saves
      <4>1. table[x.of].version > x.version
        BY <2>2, <3>1 DEF FormsPart, SavedInv
      <4>2. x.of \in Rows /\ x.version \in Nat
        BY <1>7, <2>2, <3>1 DEF Requests
      <4> QED
        BY <1>1, <1>2, <4>1, <4>2
    <3>2. CASE x.of = s.of /\ x.version = s.version
      BY <1>1, <2>2, <3>2
    <3> QED
      BY <1>3, <3>1, <3>2
  <2> QED
    BY <2>1, <2>2 DEF SavedInv, FormsPart
<1> QED
  BY <1>1, <1>17, <1>18 DEF FormsPart

\* Refused, or answered as the first one was.
LEMMA RefusedForms ==
  ASSUME FormsPart, NEW s \in saves, NEW state, Now(s, state), state = "done" => s.of = None,
         UNCHANGED <<table, screen, form, made, saved, used>>
  PROVE  FormsPart'
<1>1. TableOK' /\ \A r \in Rows : table'[r].version >= table[r].version
  BY SameTable DEF FormsPart
<1>2. \A x \in saves' : /\ SaveOK(x) /\ \E y \in saves : Alike(x, y)
                        /\ x \in saves \/ (x.state = state /\ x.of = s.of)
  BY Restated DEF FormsPart
<1>3. \A x \in saves' : SaveOK(x) /\ \E y \in Requests : Alike(x, y)
  BY <1>2 DEF Requests
<1>4. UsedOK' /\ used'.forms = used.forms
  BY DEF UsedOK, FormsPart, FormsInv
<1>5. FormsInv'
  BY <1>1, <1>3, <1>4, SavesMoved DEF FormsPart
<1>6. SavedInv'
  BY <1>2 DEF FormsPart, SavedInv
<1> QED
  BY <1>1, <1>5, <1>6 DEF FormsPart

\* What a save that is accepted makes of the table.
LEMMA AcceptedRecord ==
  ASSUME FormsPart, NEW s \in saves, Process(s), Accepts(s)
  PROVE  \E r \in Rows : \E d \in [state : {"on", "gone"}, key : Keys, version : Nat] :
           /\ d.version >= table[r].version /\ Put(r, d)
           /\ s.of # None => r = s.of /\ d.version > s.version
<1>1. CASE s.of = None
  <2>1. PICK r \in Rows, k \in Keys : table[r].state = "new" /\ Put(r, Fresh(k))
    BY <1>1 DEF Process
  <2>2. PICK d : d = Fresh(k)
    OBVIOUS
  <2>3. d \in [state : {"on", "gone"}, key : Keys, version : Nat] /\ d.version >= table[r].version /\ Put(r, d)
    BY <2>1, <2>2, FreshRecord DEF FormsPart
  <2> QED
    BY <1>1, <2>3
<1>2. CASE s.of # None
  <2>1. s.of \in On /\ table[s.of].version = s.version
    BY <1>2 DEF Accepts
  <2>2. PICK d : d = [table[s.of] EXCEPT !.version = @ + 1]
    OBVIOUS
  <2>3. Put(s.of, d)
    BY <1>2, <2>2 DEF Process
  <2>4. PICK k : k \in Keys
    BY <2>1 DEF FormsPart, TableOK, On
  <2>5. /\ s.of \in Rows /\ d \in [state : {"on", "gone"}, key : Keys, version : Nat]
        /\ d.version >= table[s.of].version
    BY <2>1, <2>2, <2>4, ChangedRecord DEF FormsPart
  <2>6. d.version = s.version + 1 /\ s.version \in Nat
    <3>1. PICK t : t = table[s.of]
      OBVIOUS
    <3>2. t \in [state : {"new", "on", "gone"}, key : Keys, version : Nat]
      BY <2>5, <3>1 DEF FormsPart, TableOK
    <3> QED
      BY <2>1, <2>2, <3>1, <3>2
  <2> QED
    BY <2>3, <2>5, <2>6
<1> QED
  BY <1>1, <1>2

\* The server takes a save, refuses it, or answers it as it did before.
LEMMA ProcessForms == ASSUME FormsPart, NEW s \in saves, Process(s) PROVE FormsPart'
<1>1. UNCHANGED <<screen, form, saved, used>>
  BY DEF Process
<1>2. CASE Accepts(s)
  <2>1. PICK r \in Rows, d \in [state : {"on", "gone"}, key : Keys, version : Nat] :
           /\ d.version >= table[r].version /\ Put(r, d)
           /\ s.of # None => r = s.of /\ d.version > s.version
    BY <1>2, AcceptedRecord
  <2>2. made' = [made EXCEPT ![s.token] = @ + 1] /\ Now(s, "done")
    BY <1>2 DEF Process
  <2>3. screen.creates # "plain" => made[s.token] = 0
    <3>1. CASE s.of = None
      BY <1>2, <3>1 DEF Accepts
    <3>2. CASE s.of # None
      <4>1. s.of \in Rows /\ table[s.of].version = s.version
        BY <1>2, <3>2 DEF Accepts, On
      <4>2. s \in Requests
        BY DEF Requests
      <4>3. s.token \in 1 .. MaxForms /\ made[s.token] \in Nat /\ s.version \in Nat /\ Spent(s)
        BY <4>2, ScreensAssumption DEF FormsPart, FormsInv, UsedOK
      <4> QED
        BY <3>2, <4>1, <4>3 DEF Spent
    <3> QED
      BY <3>1, <3>2
  <2> QED
    BY <1>1, <2>1, <2>2, <2>3, AcceptedForms
<1>3. CASE ~Accepts(s)
  <2>1. /\ Now(s, IF Replayed(s) THEN "done" ELSE "refused")
        /\ UNCHANGED <<table, made>>
    BY <1>3 DEF Process, server
  <2>2. PICK state : state = IF Replayed(s) THEN "done" ELSE "refused"
    OBVIOUS
  <2>3. Now(s, state) /\ (state = "done" => s.of = None)
    BY <2>1, <2>2 DEF Replayed
  <2> QED
    BY <1>1, <2>1, <2>3, RefusedForms
<1> QED
  BY <1>2, <1>3

\* What is saved stays so with every step.
LEMMA FormsStep ==
  ASSUME FormsPart, shown.items \subseteq Shown, [NextScreens]_web
  PROVE  FormsPart'
<1>1. CASE Done
  BY <1>1, Quiet DEF Done, client, forms
<1>2. ASSUME NEW l \in loads, Serve(l) PROVE FormsPart'
  BY <1>2, Quiet DEF Serve, server, client, forms
<1>3. ASSUME NEW l \in loads, Deliver(l) PROVE FormsPart'
  BY <1>3, Quiet DEF Deliver, server, forms
<1>4. ASSUME NEW a, Go(a) PROVE FormsPart'
  BY <1>4, Quiet DEF Go, server, forms
<1>5. CASE Search \/ NextPage \/ PreviousPage \/ FirstPage \/ PageSize
  BY <1>4, <1>5 DEF Search, NextPage, PreviousPage, FirstPage, PageSize
<1>6. CASE Tick
  BY <1>6, Quiet DEF Tick, server, forms
<1>7. CASE OpenDetail
  BY <1>7, Quiet DEF OpenDetail, server
<1>8. CASE Cancel
  BY <1>8, Quiet DEF Cancel, server
<1>9. CASE UNCHANGED web
  BY <1>9, Quiet DEF web, server, forms
<1>10. ASSUME NEW s \in saves, Process(s) \/ Lose(s) \/ Answer(s) PROVE FormsPart'
  BY <1>10, ProcessForms, LoseForms, AnswerForms
<1> QED
  BY <1>1, <1>2, <1>3, <1>5, <1>6, <1>7, <1>8, <1>9, <1>10, OthersForms, OpenNewForms, OpenRowForms,
     DetailForms, RefreshForms, SaveForms, ActForms DEF NextScreens, ReadAnswered, FormAnswered

(***************************************************************************)
(* What is read.                                                           *)
(***************************************************************************)

\* Of some sets in a finite one, one has no other in it.
LEMMA SmallestSet ==
  ASSUME NEW D, IsFiniteSet(D), NEW B \in SUBSET (SUBSET D), B # {}
  PROVE  \E T \in B : \A U \in B : U \subseteq T => U = T
<1>1. B \subseteq FiniteSubsetsOf(D)
  BY FS_FiniteSubsetsOfFinite
<1>2. PICK T \in B : \A U \in B : ~(<<U, T>> \in StrictSubsetOrdering(D))
  BY <1>1, FS_StrictSubsetOrderingWellFounded, WFMin
<1>3. ASSUME NEW U \in B, U \subseteq T, U # T PROVE FALSE
  <2>1. <<U, T>> \in (SUBSET D) \X (SUBSET D)
    OBVIOUS
  <2>2. <<U, T>> \in StrictSubsetOrdering(D)
    BY <2>1, <1>3 DEF StrictSubsetOrdering
  <2> QED
    BY <1>2, <2>2
<1> QED
  BY <1>3

\* The order of a list is strict and total.
LEMMA ListOrder ==
  ASSUME TableOK
  PROVE  /\ \A a \in Rows : ~Precedes(a, a)
         /\ \A a, b, c \in Rows : Precedes(a, b) /\ Precedes(b, c) => Precedes(a, c)
         /\ \A a, b \in Rows : a = b \/ Precedes(a, b) \/ Precedes(b, a)
<1>1. Rows \subseteq Nat /\ \A a \in Rows : table[a].key \in Nat
  BY ScreensAssumption DEF TableOK
<1>2. \A a \in Rows : ~Precedes(a, a)
  BY <1>1 DEF Precedes
<1>3. \A a, b, c \in Rows : Precedes(a, b) /\ Precedes(b, c) => Precedes(a, c)
  BY <1>1 DEF Precedes
<1>4. ASSUME NEW a \in Rows, NEW b \in Rows PROVE a = b \/ Precedes(a, b) \/ Precedes(b, a)
  <2>1. a \in Nat /\ b \in Nat /\ table[a].key \in Nat /\ table[b].key \in Nat
    BY <1>1
  <2>2. a = b \/ a < b \/ b < a
    BY <2>1
  <2>3. table[a].key < table[b].key \/ table[b].key < table[a].key \/ table[a].key = table[b].key
    BY <2>1
  <2> QED
    BY <2>2, <2>3 DEF Precedes
<1> QED
  BY <1>2, <1>3, <1>4

\* Some row has no other before it, and some row none behind it.
LEMMA ListEnds ==
  ASSUME TableOK, NEW S \in SUBSET Rows, S # {}
  PROVE  /\ \E r \in S : \A q \in S : ~Precedes(q, r)
         /\ \E r \in S : \A q \in S \ {r} : Precedes(q, r)
<1> DEFINE To(r) == {q \in S : Precedes(q, r) \/ q = r}
           From(r) == {q \in S : Precedes(r, q) \/ q = r}
<1>1. IsFiniteSet(S)
  BY ScreensAssumption, FS_Subset
<1>2. /\ \A r \in S : ~Precedes(r, r)
      /\ \A a, b, c \in S : Precedes(a, b) /\ Precedes(b, c) => Precedes(a, c)
      /\ \A a, b \in S : a = b \/ Precedes(a, b) \/ Precedes(b, a)
  BY ListOrder
<1>3. \E r \in S : \A q \in S : ~Precedes(q, r)
  <2>1. PICK B : B = {To(r) : r \in S}
    OBVIOUS
  <2>2. B \in SUBSET (SUBSET S) /\ B # {}
    BY <2>1
  <2>3. PICK T \in B : \A U \in B : U \subseteq T => U = T
    BY <1>1, <2>2, SmallestSet
  <2>4. PICK r \in S : T = To(r)
    BY <2>1
  <2>5. ASSUME NEW q \in S, Precedes(q, r) PROVE FALSE
    <3>1. To(q) \in B
      BY <2>1
    <3>2. To(q) \subseteq To(r) /\ r \in To(r) /\ r \notin To(q)
      BY <1>2, <2>5
    <3> HIDE DEF To
    <3> QED
      BY <2>3, <2>4, <3>1, <3>2
  <2> QED
    BY <2>5
<1>4. \E r \in S : \A q \in S \ {r} : Precedes(q, r)
  <2>1. PICK B : B = {From(r) : r \in S}
    OBVIOUS
  <2>2. B \in SUBSET (SUBSET S) /\ B # {}
    BY <2>1
  <2>3. PICK T \in B : \A U \in B : U \subseteq T => U = T
    BY <1>1, <2>2, SmallestSet
  <2>4. PICK r \in S : T = From(r)
    BY <2>1
  <2>5. ASSUME NEW q \in S, Precedes(r, q) PROVE FALSE
    <3>1. From(q) \in B
      BY <2>1
    <3>2. From(q) \subseteq From(r) /\ r \in From(r) /\ r \notin From(q)
      BY <1>2, <2>5
    <3> HIDE DEF From
    <3> QED
      BY <2>3, <2>4, <3>1, <3>2
  <2> QED
    BY <1>2, <2>5
<1> QED
  BY <1>3, <1>4

Ahead(rows, r) == {q \in rows : Precedes(q, r)}

\* A page is a beginning of what was asked for.
LEMMA FirstRows ==
  ASSUME TableOK, NEW rows \in SUBSET Rows, NEW n \in Nat \ {0}, rows # {},
         NEW first, first = {r \in rows : Cardinality(Ahead(rows, r)) < n}
  PROVE  first # {} /\ \A last \in first : \A r \in rows : Precedes(r, last) => r \in first
<1>1. first # {}
  <2>1. PICK r \in rows : \A q \in rows : ~Precedes(q, r)
    BY ListEnds
  <2>2. Ahead(rows, r) = {}
    BY <2>1 DEF Ahead
  <2>3. Cardinality(Ahead(rows, r)) = 0
    BY <2>2, FS_EmptySet
  <2> QED
    BY <2>3
<1>2. ASSUME NEW last \in first, NEW r \in rows, Precedes(r, last) PROVE r \in first
  <2>1. last \in rows /\ Cardinality(Ahead(rows, last)) < n
    OBVIOUS
  <2>2. Ahead(rows, r) \subseteq Ahead(rows, last)
    BY <1>2, <2>1, ListOrder DEF Ahead
  <2>3. IsFiniteSet(rows)
    BY ScreensAssumption, FS_Subset
  <2>4. IsFiniteSet(Ahead(rows, last))
    BY <2>3, FS_Subset DEF Ahead
  <2>5. IsFiniteSet(Ahead(rows, r)) /\ Cardinality(Ahead(rows, r)) <= Cardinality(Ahead(rows, last))
    BY <2>2, <2>4, FS_Subset
  <2>6. Cardinality(Ahead(rows, r)) \in Nat /\ Cardinality(Ahead(rows, last)) \in Nat
    BY <2>4, <2>5, FS_CardinalityType
  <2>7. Cardinality(Ahead(rows, r)) < n
    BY <2>1, <2>5, <2>6
  <2> QED
    BY <2>7
<1> QED
  BY <1>1, <1>2

\* An answer has what is asked for as it is now, and leaves nothing out before its end.
LEMMA PageRead ==
  ASSUME TableOK, NEW q, q.size \in Nat \ {0}, NEW a, a = Read(q)
  PROVE  /\ a = [items |-> a.items, next |-> a.next, working |-> a.working, same |-> a.same]
         /\ a.items \subseteq Shown /\ \A i \in a.items : i.version = table[i.id].version
         /\ a.next \in Cursors \cup {None}
         /\ a.same \subseteq On
         /\ IF screen.paged = "no" THEN a.same = {} ELSE a.same = On
         /\ \A r \in On \cap Matching[q.search] :
              Behind(q.cursor, r) /\ Passed(a.next, r) => \E i \in a.items : i.id = r
<1>1. PICK rows : rows = {r \in On \cap Matching[q.search] : Behind(q.cursor, r)}
  OBVIOUS
<1>2. PICK first : first = {r \in rows : Cardinality({p \in rows : Precedes(p, r)}) < q.size}
  OBVIOUS
<1>3. PICK more : more = (screen.paged # "no" /\ Cardinality(rows) > q.size)
  OBVIOUS
<1>4. PICK page : page = IF more THEN first ELSE rows
  OBVIOUS
<1>5. PICK last : last = CHOOSE r \in page : \A p \in page \ {r} : Precedes(p, r)
  OBVIOUS
<1>6. PICK same0 : same0 = IF screen.paged = "no" THEN {} ELSE On
  OBVIOUS
<1>7. a = [items |-> {[id |-> r, version |-> table[r].version] : r \in page},
           next |-> IF more THEN [key |-> table[last].key, id |-> last] ELSE None,
           working |-> working, same |-> same0]
  BY <1>1, <1>2, <1>3, <1>4, <1>5, <1>6, Zenon DEF Read
<1>8. /\ a.items = {[id |-> r, version |-> table[r].version] : r \in page}
      /\ a.next = IF more THEN [key |-> table[last].key, id |-> last] ELSE None
      /\ a.same = same0
      /\ a = [items |-> a.items, next |-> a.next, working |-> a.working, same |-> a.same]
  BY <1>7
<1>9. rows \subseteq Rows /\ page \subseteq rows /\ On \subseteq Rows
  BY <1>1, <1>2, <1>4 DEF On
<1>10. \A r \in Rows : table[r].version \in Nat /\ table[r].key \in Keys /\ table[r].key \in Nat /\ r \in Nat
  BY ScreensAssumption DEF TableOK
<1>11. a.items \subseteq Shown /\ \A i \in a.items : i.version = table[i.id].version
  <2>1. ASSUME NEW i \in a.items PROVE i \in Shown /\ i.version = table[i.id].version
    <3>1. PICK r \in page : i = [id |-> r, version |-> table[r].version]
      BY <1>8
    <3> QED
      BY <1>9, <1>10, <3>1 DEF Shown
  <2> QED
    BY <2>1
<1>12. ASSUME NEW r \in page PROVE \E i \in a.items : i.id = r
  <2>1. PICK i : i = [id |-> r, version |-> table[r].version]
    OBVIOUS
  <2>2. i \in a.items /\ i.id = r
    BY <1>8, <2>1
  <2> QED
    BY <2>2
<1>13. more => last \in first /\ \A r \in rows : r = last \/ Precedes(r, last) => r \in first
  <2>1. SUFFICES ASSUME more PROVE last \in first /\ \A r \in rows : r = last \/ Precedes(r, last) => r \in first
    OBVIOUS
  <2>2. rows # {}
    <3>1. Cardinality(rows) > q.size
      BY <1>3, <2>1
    <3>2. Cardinality({}) = 0
      BY FS_EmptySet
    <3> QED
      BY <3>1, <3>2
  <2>3. first = {r \in rows : Cardinality(Ahead(rows, r)) < q.size}
    BY <1>2 DEF Ahead
  <2>4. first # {} /\ \A p \in first : \A r \in rows : Precedes(r, p) => r \in first
    BY <1>9, <2>2, <2>3, FirstRows
  <2>5. page = first
    BY <1>4, <2>1
  <2>6. \E r \in page : \A p \in page \ {r} : Precedes(p, r)
    BY <1>9, <2>4, <2>5, ListEnds
  <2>7. last \in page
    BY <1>5, <2>6
  <2> QED
    BY <2>4, <2>5, <2>7
<1>14. a.next \in Cursors \cup {None}
  <2>1. CASE more
    <3>1. last \in Rows /\ a.next = [key |-> table[last].key, id |-> last]
      BY <1>2, <1>8, <1>9, <1>13, <2>1
    <3> QED
      BY <1>10, <3>1 DEF Cursors
  <2>2. CASE ~more
    BY <1>8, <2>2
  <2> QED
    BY <2>1, <2>2
<1>15. ASSUME NEW r \in On \cap Matching[q.search], Behind(q.cursor, r), Passed(a.next, r)
       PROVE  r \in page
  <2>1. r \in rows
    BY <1>1, <1>15
  <2>2. CASE ~more
    BY <1>4, <2>1, <2>2
  <2>3. CASE more
    <3>1. /\ last \in Rows /\ a.next = [key |-> table[last].key, id |-> last]
          /\ a.next.key = table[last].key /\ a.next.id = last /\ a.next \in Cursors
      <4>1. last \in Rows /\ a.next = [key |-> table[last].key, id |-> last]
        BY <1>2, <1>8, <1>9, <1>13, <2>3
      <4> QED
        BY <1>10, <4>1 DEF Cursors
    <3>2. a.next # None
      BY <3>1, ScreensAssumption DEF Cursors
    <3>3. ~Behind(a.next, r)
      BY <1>15, <3>2 DEF Passed
    <3>4. r = last \/ Precedes(r, last)
      <4>1. ~(table[r].key > table[last].key) /\ ~(table[r].key = table[last].key /\ r > last)
        BY <3>1, <3>3 DEF Behind
      <4> QED
        BY <1>9, <1>10, <2>1, <3>1, <4>1 DEF Precedes
    <3> QED
      BY <1>4, <1>13, <2>1, <2>3, <3>4
  <2> QED
    BY <2>2, <2>3
<1>16. /\ a.same \subseteq On
       /\ IF screen.paged = "no" THEN a.same = {} ELSE a.same = On
  BY <1>6, <1>8
<1> QED
  BY <1>8, <1>11, <1>12, <1>14, <1>15, <1>16

\* The least page size there is.
LEMMA BegunOK == AskOK(Begun) /\ Begun.cursors = <<>>
<1>1. Sizes \subseteq Nat /\ Sizes # {}
  BY ScreensAssumption
<1>2. \E n \in Sizes : \A m \in Sizes : n <= m
  <2>1. PICK k : k \in Sizes
    BY <1>1
  <2>2. PICK B : B = {0 .. m : m \in Sizes \cap (0 .. k)}
    OBVIOUS
  <2>3. /\ 0 .. k \in B /\ IsFiniteSet(0 .. k)
        /\ \A U \in B : U \subseteq 0 .. k
    <3>1. k \in Nat /\ k \in 0 .. k
      BY <1>1, <2>1
    <3>2. 0 .. k \in B
      BY <2>1, <2>2, <3>1
    <3>3. \A m \in 0 .. k : 0 .. m \subseteq 0 .. k
      BY <3>1
    <3>4. IsFiniteSet(0 .. k)
      BY <3>1, FS_Interval
    <3> QED
      BY <2>2, <3>2, <3>3, <3>4
  <2>4. PICK D : B \in SUBSET (SUBSET D) /\ B # {} /\ IsFiniteSet(D)
    BY <2>3
  <2>5. PICK T \in B : \A U \in B : U \subseteq T => U = T
    BY <2>4, SmallestSet
  <2>6. PICK n \in Sizes \cap (0 .. k) : T = 0 .. n
    BY <2>2, <2>5
  <2>7. ASSUME NEW m \in Sizes, m < n PROVE FALSE
    <3>1. m \in Sizes \cap (0 .. k)
      BY <1>1, <2>1, <2>6, <2>7
    <3>2. 0 .. m \in B
      BY <2>2, <3>1
    <3>3. 0 .. m \subseteq 0 .. n /\ n \in 0 .. n /\ n \notin 0 .. m
      BY <1>1, <2>6, <2>7
    <3> QED
      BY <2>5, <2>6, <3>2, <3>3
  <2>8. \A m \in Sizes : n <= m
    BY <1>1, <2>6, <2>7
  <2> QED
    BY <2>6, <2>8
<1>3. PICK least : least = CHOOSE n \in Sizes : \A m \in Sizes : n <= m
  OBVIOUS
<1>4. least \in Sizes
  BY <1>2, <1>3
<1>5. PICK all : all = CHOOSE s \in DOMAIN Matching : Matching[s] = Rows
  OBVIOUS
<1>6. Begun = [search |-> all, cursors |-> <<>>, size |-> least]
  BY <1>3, <1>5, Zenon DEF Begun
<1> QED
  BY <1>4, <1>6 DEF AskOK

\* After the effect has run again one read is live, and asks what is asked for.
LEMMA Loading ==
  ASSUME \A l \in loads : LoadOK(l), NEW a, Load(a)
  PROVE  /\ failed' = FALSE
         /\ \A l \in loads' : LoadOK(l) /\ (l.live => l.question = Question(a) /\ l.answer = None)
         /\ \E l \in loads' : l.live
         /\ \A l, m \in loads' : l.live /\ m.live => l = m
<1>1. PICK new : new = [question |-> Question(a), live |-> TRUE, answer |-> None]
  OBVIOUS
<1>2. LoadOK(new) /\ new.live /\ new.question = Question(a) /\ new.answer = None
  BY <1>1 DEF LoadOK
<1>3. failed' = FALSE /\ new \in loads'
  BY <1>1 DEF Load
<1>4. ASSUME NEW l \in loads' PROVE l = new \/ (LoadOK(l) /\ ~l.live)
  <2>1. \/ l = new
        \/ \E m \in loads : l = [m EXCEPT !.live = FALSE]
        \/ l \in loads /\ ~l.live
    BY <1>1 DEF Load
  <2>2. CASE \E m \in loads : l = [m EXCEPT !.live = FALSE]
    <3>1. PICK m \in loads : l = [m EXCEPT !.live = FALSE]
      BY <2>2
    <3>2. LoadOK(m)
      OBVIOUS
    <3>3. l = [question |-> m.question, live |-> FALSE, answer |-> m.answer]
      BY <3>1, <3>2 DEF LoadOK
    <3> QED
      BY <3>3 DEF LoadOK
  <2> QED
    BY <2>1, <2>2
<1>5. \A l \in loads' : LoadOK(l) /\ (l.live => l.question = Question(a) /\ l.answer = None)
  BY <1>2, <1>4
<1>6. \A l, m \in loads' : l.live /\ m.live => l = m
  BY <1>4
<1> QED
  BY <1>2, <1>3, <1>5, <1>6

\* As long as that read has no answer, nothing is settled.
LEMMA LoadReads ==
  ASSUME ReadsInv, NEW a, AskOK(a), Load(a), ask' = a, shown'.items \subseteq Shown
  PROVE  ReadsInv' /\ \A l \in loads' : ~Answered(l)
<1>1. /\ \A l \in loads' : LoadOK(l) /\ (l.live => l.question = Question(a) /\ l.answer = None)
      /\ \E l \in loads' : l.live
      /\ \A l, m \in loads' : l.live /\ m.live => l = m
  BY Loading DEF ReadsInv
<1>2. \A l \in loads' : ~Answered(l)
  BY <1>1 DEF Answered
<1>3. AskOK(ask)' /\ Question(ask)' = Question(a)
  BY DEF AskOK, Question
<1>4. Reading'
  BY <1>1 DEF Reading
<1>5. ShownAnswersAsked'
  BY <1>4 DEF ShownAnswersAsked, Settled
<1> QED
  BY <1>1, <1>2, <1>3, <1>5 DEF ReadsInv

\* No answer is on its way, and the pages walked are those before, or the walk begins anew.
LEMMA WalkGoesOn ==
  ASSUME WalkInv, table' = table, screen' = screen, shown'.next \in Cursors \cup {None},
         \A l \in loads' : ~Answered(l),
         \/ same' = {}
         \/ same' = same /\ seen' = seen /\ ask'.search = ask.search /\ Turned' \subseteq Turned
  PROVE  WalkInv'
<1>1. On' = On
  BY DEF On
<1>2. same' \subseteq On' /\ (screen'.paged = "no" => same' = {})
  BY <1>1 DEF WalkInv
<1>3. ASSUME NEW c \in Turned' PROVE Walked(c)'
  <2>1. CASE same' = {}
    BY <2>1 DEF Walked
  <2>2. CASE same' = same /\ seen' = seen /\ ask'.search = ask.search /\ Turned' \subseteq Turned
    <3>1. Walked(c)
      BY <2>2 DEF WalkInv
    <3> QED
      BY <2>2, <3>1 DEF Walked, Passed, Behind
  <2> QED
    BY <2>1, <2>2
<1> QED
  BY <1>2, <1>3 DEF WalkInv

\* Nothing is read, shown or changed.
LEMMA QuietReads ==
  ASSUME ReadsInv, WalkInv, UNCHANGED <<table, screen, ask, shown, failed, saved, seen, same>>,
         \A l \in loads' : l.live => l \in loads,
         \A l \in loads : l.live => l \in loads',
         \A l \in loads' : LoadOK(l)
  PROVE  ReadsInv' /\ WalkInv'
<1>1. AskOK(ask)' /\ Question(ask)' = Question(ask)
  BY DEF AskOK, Question, ReadsInv
<1>2. On' = On
  BY DEF On
<1>3. \A l \in loads' : Answered(l) => l \in loads /\ Answered(l)
  BY DEF Answered
<1>4. ShownAnswersAsked'
  <2>1. Settled' => Settled
    BY DEF Settled, Reading
  <2> QED
    BY <1>1, <2>1 DEF ShownAnswersAsked, ReadsInv
<1>5. ReadsInv'
  <2>1. \A l \in loads' : LoadOK(l) /\ (l.live => l.question = Question(ask)')
    BY <1>1 DEF ReadsInv
  <2>2. \A l, m \in loads' : l.live /\ m.live => l = m
    BY DEF ReadsInv
  <2>3. \A l \in loads' : Answered(l) => l.answer.items \subseteq Shown /\ UpToDate(l.answer.items)'
    BY <1>3 DEF ReadsInv, UpToDate
  <2>4. shown'.items \subseteq Shown
    BY DEF ReadsInv
  <2> QED
    BY <1>1, <1>4, <2>1, <2>2, <2>3, <2>4 DEF ReadsInv
<1>6. WalkInv'
  <2>1. ASSUME NEW c \in Turned' PROVE Walked(c)'
    <3>1. c \in Turned
      BY DEF Turned
    <3>2. Walked(c)
      BY <3>1 DEF WalkInv
    <3> QED
      BY <3>2 DEF Walked, Passed, Behind
  <2>2. ASSUME NEW l \in loads', Answered(l) PROVE Complete(l)'
    <3>1. Complete(l)
      BY <1>3, <2>2 DEF WalkInv
    <3> QED
      BY <1>2, <3>1 DEF Complete, Passed, Behind
  <2>3. same' \subseteq On' /\ (screen'.paged = "no" => same' = {}) /\ shown'.next \in Cursors \cup {None}
    BY <1>2 DEF WalkInv
  <2> QED
    BY <2>1, <2>2, <2>3 DEF WalkInv
<1> QED
  BY <1>5, <1>6

(***************************************************************************)
(* What is asked for.                                                      *)
(***************************************************************************)

\* A change of what is asked for: the walk goes on, or begins anew.
LEMMA GoReads ==
  ASSUME ReadsInv, WalkInv, NEW a, AskOK(a), Go(a),
         \/ a.search # ask.search \/ a.size # ask.size
         \/ \A k \in DOMAIN a.cursors : a.cursors[k] \in Turned
  PROVE  ReadsInv' /\ WalkInv'
<1>1. UNCHANGED <<table, screen, shown, saved>> /\ ask' = a
  BY DEF Go, server
<1>2. \/ same' = {}
      \/ UNCHANGED <<seen, same>> /\ a.search = ask.search /\ a.size = ask.size
  BY DEF Go, walk
<1>3. shown.items \subseteq Shown /\ shown.next \in Cursors \cup {None}
  BY DEF ReadsInv, WalkInv
<1>4. CASE Load(a)
  <2>1. ReadsInv' /\ \A l \in loads' : ~Answered(l)
    BY <1>1, <1>3, <1>4, LoadReads
  <2>2. \/ same' = {}
        \/ same' = same /\ seen' = seen /\ ask'.search = ask.search /\ Turned' \subseteq Turned
    <3>1. ASSUME \A k \in DOMAIN a.cursors : a.cursors[k] \in Turned PROVE Turned' \subseteq Turned
      <4>1. ASSUME NEW c \in Turned' PROVE c \in Turned
        BY <1>1, <3>1 DEF Turned
      <4> QED
        BY <4>1
    <3> QED
      BY <1>1, <1>2, <3>1
  <2>3. WalkInv'
    BY <1>1, <1>3, <2>1, <2>2, WalkGoesOn
  <2> QED
    BY <2>1, <2>3
<1>5. CASE Question(a) = Question(ask) /\ UNCHANGED <<loads, failed>>
  <2>1. a.search = ask.search /\ a.size = ask.size
    <3>1. Question(a).search = a.search /\ Question(a).size = a.size
      BY DEF Question
    <3>2. Question(ask).search = ask.search /\ Question(ask).size = ask.size
      BY DEF Question
    <3> QED
      BY <1>5, <3>1, <3>2
  <2>2. UNCHANGED <<seen, same>>
    BY <2>1 DEF Go, walk
  <2>3. AskOK(ask)' /\ Question(ask)' = Question(ask)
    BY <1>1, <1>5 DEF AskOK, Question
  <2>4. ReadsInv'
    <3>1. ShownAnswersAsked'
      <4>1. Settled' => Settled
        BY <1>5 DEF Settled, Reading
      <4> QED
        BY <1>1, <2>3, <4>1 DEF ShownAnswersAsked, ReadsInv
    <3>2. \A l \in loads' : LoadOK(l) /\ (l.live => l.question = Question(ask)')
      BY <1>5, <2>3 DEF ReadsInv
    <3>3. \A l \in loads' : Answered(l) => l.answer.items \subseteq Shown /\ UpToDate(l.answer.items)'
      BY <1>1, <1>5 DEF ReadsInv, UpToDate
    <3>4. \A l, m \in loads' : l.live /\ m.live => l = m
      BY <1>5 DEF ReadsInv
    <3> QED
      BY <1>1, <1>3, <2>3, <3>1, <3>2, <3>3, <3>4 DEF ReadsInv
  <2>5. WalkInv'
    <3>1. ASSUME NEW c \in Turned' PROVE c \in Turned
      BY <1>1, <2>1 DEF Turned
    <3>2. ASSUME NEW c \in Turned' PROVE Walked(c)'
      <4>1. Walked(c)
        BY <3>1 DEF WalkInv
      <4> QED
        BY <1>1, <2>1, <2>2, <4>1 DEF Walked, Passed, Behind
    <3>3. On' = On
      BY <1>1 DEF On
    <3>4. ASSUME NEW l \in loads', Answered(l) PROVE Complete(l)'
      <4>1. Complete(l)
        BY <1>5, <3>4 DEF WalkInv
      <4> QED
        BY <1>1, <2>2, <3>3, <4>1 DEF Complete, Passed, Behind
    <3>5. same' \subseteq On' /\ (screen'.paged = "no" => same' = {}) /\ shown'.next \in Cursors \cup {None}
      BY <1>1, <2>2, <3>3 DEF WalkInv
    <3> QED
      BY <3>2, <3>4, <3>5 DEF WalkInv
  <2> QED
    BY <2>4, <2>5
<1> QED
  BY <1>4, <1>5 DEF Go

LEMMA AskReads ==
  ASSUME ReadsInv, WalkInv, Search \/ NextPage \/ PreviousPage \/ FirstPage \/ PageSize
  PROVE  ReadsInv' /\ WalkInv'
<1>1. PICK s, c, n : /\ ask = [search |-> s, cursors |-> c, size |-> n]
                     /\ n \in Sizes /\ c \in Seq(Cursors)
  BY DEF ReadsInv, AskOK
<1>2. ask.search = s /\ ask.cursors = c /\ ask.size = n
  BY <1>1
<1>3. CASE Search
  <2>1. PICK t \in DOMAIN Matching \ {ask.search} : Go([ask EXCEPT !.search = t, !.cursors = <<>>])
    BY <1>3 DEF Search
  <2>2. PICK a : a = [ask EXCEPT !.search = t, !.cursors = <<>>]
    OBVIOUS
  <2>3. a = [search |-> t, cursors |-> <<>>, size |-> n]
    BY <1>1, <2>2
  <2>4. AskOK(a) /\ a.search # ask.search
    BY <1>1, <1>2, <2>1, <2>3 DEF AskOK
  <2>5. Go(a)
    BY <2>1, <2>2
  <2> QED
    BY <2>4, <2>5, GoReads
<1>4. CASE NextPage
  <2>1. PICK a : a = [ask EXCEPT !.cursors = Append(@, shown.next)]
    OBVIOUS
  <2>2. Go(a) /\ shown.next # None
    BY <1>4, <2>1 DEF NextPage
  <2>3. a = [search |-> s, cursors |-> Append(c, shown.next), size |-> n]
    BY <1>1, <2>1
  <2>4. shown.next \in Cursors
    BY <2>2 DEF WalkInv
  <2>5. AskOK(a)
    BY <1>1, <2>3, <2>4 DEF AskOK
  <2>6. ASSUME NEW k \in DOMAIN a.cursors PROVE a.cursors[k] \in Turned
    <3>1. a.cursors = Append(c, shown.next)
      BY <2>3
    <3>2. k \in DOMAIN c \/ a.cursors[k] = shown.next
      BY <1>1, <2>4, <3>1
    <3>3. k \in DOMAIN c => a.cursors[k] = ask.cursors[k]
      BY <1>1, <1>2, <2>4, <3>1
    <3> QED
      BY <1>2, <3>2, <3>3 DEF Turned
  <2> QED
    BY <2>2, <2>5, <2>6, GoReads
<1>5. CASE PreviousPage
  <2>1. PICK a : a = [ask EXCEPT !.cursors = Front(@)]
    OBVIOUS
  <2>2. Go(a) /\ ask.cursors # <<>>
    BY <1>5, <2>1 DEF PreviousPage
  <2>3. a = [search |-> s, cursors |-> Front(c), size |-> n]
    BY <1>1, <2>1
  <2>4. /\ Front(c) \in Seq(Cursors)
        /\ DOMAIN Front(c) \subseteq DOMAIN c /\ \A k \in DOMAIN Front(c) : Front(c)[k] = c[k]
    <3>1. Front(c) = SubSeq(c, 1, Len(c) - 1) /\ Len(c) \in Nat \ {0}
      BY <1>1, <1>2, <2>2 DEF Front
    <3> QED
      BY <1>1, <3>1
  <2>5. AskOK(a)
    BY <1>1, <2>3, <2>4 DEF AskOK
  <2>6. ASSUME NEW k \in DOMAIN a.cursors PROVE a.cursors[k] \in Turned
    <3>1. a.cursors = Front(c)
      BY <2>3
    <3>2. k \in DOMAIN ask.cursors /\ a.cursors[k] = ask.cursors[k]
      BY <1>2, <2>4, <3>1
    <3> QED
      BY <3>2 DEF Turned
  <2> QED
    BY <2>2, <2>5, <2>6, GoReads
<1>6. CASE FirstPage
  <2>1. PICK a : a = [ask EXCEPT !.cursors = <<>>]
    OBVIOUS
  <2>2. Go(a)
    BY <1>6, <2>1 DEF FirstPage
  <2>3. a = [search |-> s, cursors |-> <<>>, size |-> n]
    BY <1>1, <2>1
  <2>4. AskOK(a) /\ DOMAIN a.cursors = {}
    BY <1>1, <2>3 DEF AskOK
  <2> QED
    BY <2>2, <2>4, GoReads
<1>7. CASE PageSize
  <2>1. PICK m \in Sizes \ {ask.size} : Go([ask EXCEPT !.size = m, !.cursors = <<>>])
    BY <1>7 DEF PageSize
  <2>2. PICK a : a = [ask EXCEPT !.size = m, !.cursors = <<>>]
    OBVIOUS
  <2>3. a = [search |-> s, cursors |-> <<>>, size |-> m]
    BY <1>1, <2>2
  <2>4. AskOK(a) /\ a.size # ask.size
    BY <1>1, <1>2, <2>1, <2>3 DEF AskOK
  <2>5. Go(a)
    BY <2>1, <2>2
  <2> QED
    BY <2>4, <2>5, GoReads
<1> QED
  BY <1>3, <1>4, <1>5, <1>6, <1>7

LEMMA RefreshReads == ASSUME ReadsInv, WalkInv, Refresh PROVE ReadsInv' /\ WalkInv'
<1>1. PICK a : a = Begun
  OBVIOUS
<1>2. ask' = a /\ Load(a) /\ shown' = Blank /\ same' = {} /\ UNCHANGED <<table, screen>>
  BY <1>1 DEF Refresh, server
<1>3. shown'.items \subseteq Shown /\ shown'.next \in Cursors \cup {None}
  BY <1>2 DEF Blank
<1>4. ReadsInv' /\ \A l \in loads' : ~Answered(l)
  BY <1>1, <1>2, <1>3, BegunOK, LoadReads
<1>5. WalkInv'
  BY <1>2, <1>3, <1>4, WalkGoesOn
<1> QED
  BY <1>4, <1>5

LEMMA TickReads == ASSUME ReadsInv, WalkInv, Tick PROVE ReadsInv' /\ WalkInv'
<1>1. PICK a : a = ask
  OBVIOUS
<1>2. ask' = a /\ Load(a) /\ UNCHANGED <<table, screen, ask, shown, seen, same>>
  BY <1>1 DEF Tick, server, walk
<1>3. shown'.items \subseteq Shown /\ shown'.next \in Cursors \cup {None} /\ AskOK(a)
  BY <1>1, <1>2 DEF ReadsInv, WalkInv
<1>4. ReadsInv' /\ \A l \in loads' : ~Answered(l)
  BY <1>2, <1>3, LoadReads
<1>5. Turned' = Turned
  BY <1>2 DEF Turned
<1>6. WalkInv'
  BY <1>2, <1>3, <1>4, <1>5, WalkGoesOn
<1> QED
  BY <1>4, <1>6

LEMMA AnswerReads ==
  ASSUME ReadsInv, WalkInv, NEW s \in saves, Answer(s)
  PROVE  ReadsInv' /\ WalkInv'
<1>1. UNCHANGED <<table, screen, shown, seen, same>>
  BY DEF Answer, server, walk
<1>2. CASE s.live /\ s.state = "done"
  <2>1. PICK a : a = IF screen.restarts THEN [ask EXCEPT !.cursors = <<>>] ELSE ask
    OBVIOUS
  <2>2. ask' = a /\ Load(a)
    BY <1>2, <2>1 DEF Answer
  <2>3. AskOK(a) /\ a.search = ask.search /\ \A k \in DOMAIN a.cursors : k \in DOMAIN ask.cursors /\ a.cursors[k] = ask.cursors[k]
    <3>1. PICK t, c, n : /\ ask = [search |-> t, cursors |-> c, size |-> n]
                         /\ n \in Sizes /\ c \in Seq(Cursors)
      BY DEF ReadsInv, AskOK
    <3>2. CASE screen.restarts
      <4>1. a = [search |-> t, cursors |-> <<>>, size |-> n]
        BY <2>1, <3>1, <3>2
      <4> QED
        BY <3>1, <4>1 DEF AskOK
    <3>3. CASE ~screen.restarts
      <4>1. a = ask
        BY <2>1, <3>3
      <4> QED
        BY <4>1 DEF ReadsInv
    <3> QED
      BY <3>2, <3>3
  <2>4. shown'.items \subseteq Shown /\ shown'.next \in Cursors \cup {None}
    BY <1>1 DEF ReadsInv, WalkInv
  <2>5. ReadsInv' /\ \A l \in loads' : ~Answered(l)
    BY <2>2, <2>3, <2>4, LoadReads
  <2>6. Turned' \subseteq Turned
    <3>1. ASSUME NEW c \in Turned' PROVE c \in Turned
      BY <1>1, <2>2, <2>3 DEF Turned
    <3> QED
      BY <3>1
  <2>7. WalkInv'
    BY <1>1, <2>2, <2>3, <2>4, <2>5, <2>6, WalkGoesOn
  <2> QED
    BY <2>5, <2>7
<1>3. CASE ~(s.live /\ s.state = "done")
  <2>1. UNCHANGED <<ask, loads, failed, saved>>
    BY <1>3 DEF Answer
  <2>2. \A l \in loads' : LoadOK(l)
    BY <2>1 DEF ReadsInv
  <2> QED
    BY <1>1, <2>1, <2>2, QuietReads
<1> QED
  BY <1>2, <1>3

(***************************************************************************)
(* Changes, answers and what is shown.                                     *)
(***************************************************************************)

\* A record that changes is not the same any more, on any walk.
LEMMA PutReads ==
  ASSUME ReadsInv, WalkInv, TableOK, NEW r \in Rows, NEW d,
         d \in [state : {"on", "gone"}, key : Keys, version : Nat], d.version >= table[r].version,
         Put(r, d), UNCHANGED <<screen, ask, shown, failed, saved, seen>>
  PROVE  ReadsInv' /\ WalkInv'
<1>1. \A q \in Rows \ {r} : table'[q] = table[q]
  BY PutTable
<1>2. same' = same \ {r}
  BY DEF Put
<1>3. \A l \in loads : LoadOK(l)
  BY DEF ReadsInv
<1>4. \A l \in loads : Answered(l) => Complete(l)
  BY DEF WalkInv
<1>5. ASSUME NEW l \in loads'
      PROVE  \E m \in loads : /\ LoadOK(l) /\ l.live = m.live /\ l.question = m.question
                              /\ l = IF m.answer \in {None, Lost} THEN m ELSE [m EXCEPT !.answer.same = @ \ {r}]
                              /\ Answered(l) =>
                                   /\ Answered(m)
                                   /\ l.answer = [items |-> m.answer.items, next |-> m.answer.next,
                                                  working |-> m.answer.working, same |-> m.answer.same \ {r}]
  <2>1. PICK m \in loads : l = IF m.answer \in {None, Lost} THEN m ELSE [m EXCEPT !.answer.same = @ \ {r}]
    BY DEF Put
  <2>2. LoadOK(m)
    BY <1>3
  <2>3. CASE m.answer \in {None, Lost}
    <3>1. l = m
      BY <2>1, <2>3
    <3>2. ~Answered(l)
      BY <2>3, <3>1 DEF Answered
    <3> QED
      BY <2>1, <2>2, <3>1, <3>2
  <2>4. CASE m.answer \notin {None, Lost}
    <3>1. PICK a : a = [m.answer EXCEPT !.same = @ \ {r}]
      OBVIOUS
    <3>2. l = [question |-> m.question, live |-> m.live, answer |-> a]
      BY <2>1, <2>2, <2>4, <3>1 DEF LoadOK
    <3>3. LoadOK(l) /\ l.live = m.live /\ l.question = m.question /\ l.answer = a
      BY <3>2 DEF LoadOK
    <3>4. ASSUME Answered(l)
          PROVE  Answered(m) /\ a = [items |-> m.answer.items, next |-> m.answer.next,
                                     working |-> m.answer.working, same |-> m.answer.same \ {r}]
      <4>1. Answered(m)
        BY <2>4, <3>3, <3>4 DEF Answered
      <4>2. PICK b : b = m.answer
        OBVIOUS
      <4>3. b = [items |-> b.items, next |-> b.next, working |-> b.working, same |-> b.same]
        BY <1>4, <4>1, <4>2 DEF Complete
      <4>4. a = [items |-> b.items, next |-> b.next, working |-> b.working, same |-> b.same \ {r}]
        BY <3>1, <4>2, <4>3
      <4> QED
        BY <4>1, <4>2, <4>4
    <3> QED
      BY <2>1, <3>3, <3>4
  <2> QED
    BY <2>3, <2>4
<1>6. ASSUME NEW m \in loads PROVE \E l \in loads' : l.live = m.live
  <2>1. PICK l : l = IF m.answer \in {None, Lost} THEN m ELSE [m EXCEPT !.answer.same = @ \ {r}]
    OBVIOUS
  <2>2. l \in loads'
    BY <2>1 DEF Put
  <2>3. LoadOK(m)
    BY <1>3
  <2>4. l.live = m.live
    BY <2>1, <2>3 DEF LoadOK
  <2> QED
    BY <2>2, <2>4
<1>7. ReadsInv'
  <2>1. AskOK(ask)' /\ Question(ask)' = Question(ask)
    BY DEF AskOK, Question, ReadsInv
  <2>2. \A l \in loads' : LoadOK(l) /\ (l.live => l.question = Question(ask)')
    BY <1>5, <2>1 DEF ReadsInv
  <2>3. \A l, m \in loads' : l.live /\ m.live => l = m
    <3>1. ASSUME NEW l \in loads', NEW m \in loads', l.live, m.live PROVE l = m
      <4>1. PICK x \in loads : /\ l.live = x.live
                               /\ l = IF x.answer \in {None, Lost} THEN x ELSE [x EXCEPT !.answer.same = @ \ {r}]
        BY <1>5
      <4>2. PICK y \in loads : /\ m.live = y.live
                               /\ m = IF y.answer \in {None, Lost} THEN y ELSE [y EXCEPT !.answer.same = @ \ {r}]
        BY <1>5
      <4>3. x = y
        BY <3>1, <4>1, <4>2 DEF ReadsInv
      <4> QED
        BY <4>1, <4>2, <4>3
    <3> QED
      BY <3>1
  <2>4. ASSUME NEW l \in loads', Answered(l)
        PROVE  l.answer.items \subseteq Shown /\ UpToDate(l.answer.items)'
    <3>1. PICK m \in loads :
             Answered(m) /\ l.answer = [items |-> m.answer.items, next |-> m.answer.next,
                                        working |-> m.answer.working, same |-> m.answer.same \ {r}]
      BY <1>5, <2>4
    <3>2. l.answer.items = m.answer.items
      BY <3>1
    <3> QED
      BY <3>1, <3>2 DEF ReadsInv, UpToDate
  <2>5. ShownAnswersAsked'
    <3>1. Settled' => Settled
      BY <1>6 DEF Settled, Reading
    <3> QED
      BY <2>1, <3>1 DEF ShownAnswersAsked, ReadsInv
  <2> QED
    BY <2>1, <2>2, <2>3, <2>4, <2>5 DEF ReadsInv
<1>8. WalkInv'
  <2>1. \A q \in On : q # r => q \in On' /\ table'[q].key = table[q].key
    BY <1>1 DEF On
  <2>2. same' \subseteq On' /\ (screen'.paged = "no" => same' = {}) /\ shown'.next \in Cursors \cup {None}
    BY <1>2, <2>1 DEF WalkInv
  <2>3. ASSUME NEW c, NEW q \in On, q # r, Passed(c, q)' PROVE Passed(c, q)
    BY <2>1, <2>3 DEF Passed, Behind
  <2>4. ASSUME NEW c \in Turned' PROVE Walked(c)'
    <3>1. Walked(c)
      BY DEF Turned, WalkInv
    <3>2. ASSUME NEW q \in same' \cap Matching[ask'.search], Passed(c, q)' PROVE q \in seen'
      BY <1>2, <2>3, <3>1, <3>2 DEF Walked, WalkInv
    <3> QED
      BY <3>2 DEF Walked
  <2>5. ASSUME NEW l \in loads', Answered(l) PROVE Complete(l)'
    <3>1. PICK m \in loads : /\ l.question = m.question /\ Answered(m)
                             /\ l.answer = [items |-> m.answer.items, next |-> m.answer.next,
                                            working |-> m.answer.working, same |-> m.answer.same \ {r}]
      BY <1>5, <2>5
    <3>2. PICK a : a = m.answer
      OBVIOUS
    <3>3. PICK b : b = l.answer
      OBVIOUS
    <3>4. /\ b = [items |-> b.items, next |-> b.next, working |-> b.working, same |-> b.same]
          /\ b.items = a.items /\ b.next = a.next /\ b.same = a.same \ {r}
      <4>1. b = [items |-> a.items, next |-> a.next, working |-> a.working, same |-> a.same \ {r}]
        BY <3>1, <3>2, <3>3
      <4> QED
        BY <4>1
    <3>5. /\ a.next \in Cursors \cup {None}
          /\ a.same \subseteq On /\ (screen.paged = "no" => a.same = {})
          /\ m.question.cursor # None => same \subseteq a.same
          /\ \A q \in a.same \cap Matching[m.question.search] :
               Behind(m.question.cursor, q) /\ Passed(a.next, q) => \E i \in a.items : i.id = q
      BY <1>4, <3>1, <3>2 DEF Complete
    <3>6. ASSUME NEW q \in b.same \cap Matching[l.question.search],
                 Behind(l.question.cursor, q)', Passed(b.next, q)'
          PROVE  \E i \in b.items : i.id = q
      <4>1. q \in On /\ q # r /\ q \in a.same \cap Matching[m.question.search]
        BY <3>1, <3>4, <3>5
      <4>2. Behind(m.question.cursor, q)
        BY <2>1, <3>1, <3>6, <4>1 DEF Behind
      <4>3. Passed(a.next, q)
        BY <2>1, <3>4, <3>6, <4>1 DEF Behind, Passed
      <4> QED
        BY <3>4, <3>5, <4>1, <4>2, <4>3
    <3>7. /\ b.next \in Cursors \cup {None}
          /\ b.same \subseteq On' /\ (screen'.paged = "no" => b.same = {})
          /\ l.question.cursor # None => same' \subseteq b.same
      BY <1>2, <2>1, <3>1, <3>4, <3>5
    <3> QED
      BY <3>3, <3>4, <3>6, <3>7 DEF Complete
  <2> QED
    BY <2>2, <2>4, <2>5 DEF WalkInv
<1> QED
  BY <1>7, <1>8

LEMMA OthersReads == ASSUME ReadsInv, WalkInv, FormsPart, Others PROVE ReadsInv' /\ WalkInv'
<1>1. UNCHANGED <<screen, ask, shown, failed, saved, seen>>
  BY DEF Others, client
<1>2. PICK r \in Rows, k \in Keys :
         \/ table[r].state = "new" /\ Put(r, Fresh(k))
         \/ r \in On /\ Put(r, [table[r] EXCEPT !.key = k, !.version = @ + 1])
         \/ r \in On /\ Put(r, [table[r] EXCEPT !.state = "gone"])
  BY DEF Others
<1>3. CASE table[r].state = "new" /\ Put(r, Fresh(k))
  BY <1>1, <1>3, FreshRecord, PutReads DEF FormsPart
<1>4. ASSUME NEW d, r \in On, Put(r, d),
             d = [table[r] EXCEPT !.key = k, !.version = @ + 1] \/ d = [table[r] EXCEPT !.state = "gone"]
      PROVE  ReadsInv' /\ WalkInv'
  BY <1>1, <1>4, ChangedRecord, PutReads DEF FormsPart
<1> QED
  BY <1>2, <1>3, <1>4

LEMMA ProcessReads ==
  ASSUME ReadsInv, WalkInv, FormsPart, NEW s \in saves, Process(s)
  PROVE  ReadsInv' /\ WalkInv'
<1>1. UNCHANGED <<screen, ask, shown, failed, saved, seen>>
  BY DEF Process, client
<1>2. CASE Accepts(s)
  <2>1. PICK r \in Rows, d \in [state : {"on", "gone"}, key : Keys, version : Nat] :
           d.version >= table[r].version /\ Put(r, d)
    BY <1>2, AcceptedRecord
  <2> QED
    BY <1>1, <2>1, PutReads DEF FormsPart
<1>3. CASE ~Accepts(s)
  <2>1. UNCHANGED <<table, loads, same>>
    BY <1>3 DEF Process, server
  <2>2. \A l \in loads' : LoadOK(l)
    BY <2>1 DEF ReadsInv
  <2> QED
    BY <1>1, <2>1, <2>2, QuietReads
<1> QED
  BY <1>2, <1>3

LEMMA ServeReads ==
  ASSUME ReadsInv, WalkInv, FormsPart, NEW l \in loads, Serve(l)
  PROVE  ReadsInv' /\ WalkInv'
<1>1. UNCHANGED <<table, screen, ask, shown, failed, saved, seen, same>>
  BY DEF Serve, server, client, walk
<1>2. PICK a : (a = Read(l.question) \/ a = Lost) /\ loads' = (loads \ {l}) \cup {[l EXCEPT !.answer = a]}
  BY DEF Serve
<1>3. PICK new : new = [l EXCEPT !.answer = a]
  OBVIOUS
<1>4. LoadOK(new) /\ new.question = l.question /\ new.live = l.live /\ new.answer = a
  <2>1. LoadOK(l)
    BY DEF ReadsInv
  <2>2. new = [question |-> l.question, live |-> l.live, answer |-> a]
    BY <1>3, <2>1 DEF LoadOK
  <2> QED
    BY <2>2 DEF LoadOK
<1>5. loads' = (loads \ {l}) \cup {new}
  BY <1>2, <1>3
<1>6. AskOK(ask)' /\ Question(ask)' = Question(ask)
  BY <1>1 DEF AskOK, Question, ReadsInv
<1>7. ASSUME Answered(new)
      PROVE  /\ a.items \subseteq Shown /\ UpToDate(a.items)
             /\ Complete(new)
  <2>1. l.live /\ l.question = Question(ask) /\ a = Read(l.question)
    BY <1>2, <1>4, <1>7 DEF Answered, ReadsInv
  <2>2. l.question.size \in Nat \ {0}
    BY <2>1, ScreensAssumption DEF Question, ReadsInv, AskOK
  <2>3. PICK q : q = l.question
    OBVIOUS
  <2>4. /\ a = [items |-> a.items, next |-> a.next, working |-> a.working, same |-> a.same]
        /\ a.items \subseteq Shown /\ \A i \in a.items : i.version = table[i.id].version
        /\ a.next \in Cursors \cup {None}
        /\ a.same \subseteq On
        /\ IF screen.paged = "no" THEN a.same = {} ELSE a.same = On
        /\ \A r \in On \cap Matching[q.search] :
             Behind(q.cursor, r) /\ Passed(a.next, r) => \E i \in a.items : i.id = r
    BY <2>1, <2>2, <2>3, PageRead DEF FormsPart
  <2>5. ASSUME NEW i \in a.items PROVE i.version >= saved[i.id]
    <3>1. i.id \in Rows /\ i.version = table[i.id].version
      BY <2>4 DEF Shown
    <3> QED
      BY <3>1 DEF FormsPart, SavedInv, TableOK
  <2>6. same \subseteq a.same
    BY <2>4 DEF WalkInv
  <2>7. Complete(new)
    BY <1>4, <2>3, <2>4, <2>6 DEF Complete
  <2> QED
    BY <2>4, <2>5, <2>7 DEF UpToDate
<1>8. ReadsInv'
  <2>1. \A m \in loads' : LoadOK(m) /\ (m.live => m.question = Question(ask)')
    BY <1>4, <1>5, <1>6 DEF ReadsInv
  <2>2. \A m, n \in loads' : m.live /\ n.live => m = n
    BY <1>4, <1>5 DEF ReadsInv
  <2>3. \A m \in loads' : Answered(m) => m.answer.items \subseteq Shown /\ UpToDate(m.answer.items)'
    BY <1>1, <1>4, <1>5, <1>7 DEF ReadsInv, UpToDate
  <2>4. Settled' => Settled
    BY <1>1, <1>4, <1>5 DEF Settled, Reading
  <2>5. ShownAnswersAsked'
    BY <1>1, <1>6, <2>4 DEF ShownAnswersAsked, ReadsInv
  <2> QED
    BY <1>1, <1>6, <2>1, <2>2, <2>3, <2>5 DEF ReadsInv
<1>9. WalkInv'
  <2>1. On' = On
    BY <1>1 DEF On
  <2>2. ASSUME NEW c \in Turned' PROVE Walked(c)'
    <3>1. Walked(c)
      BY <1>1 DEF Turned, WalkInv
    <3> QED
      BY <1>1, <3>1 DEF Walked, Passed, Behind
  <2>3. ASSUME NEW m \in loads', Answered(m) PROVE Complete(m)'
    <3>1. Complete(m)
      BY <1>5, <1>7, <2>3 DEF WalkInv
    <3> QED
      BY <1>1, <2>1, <3>1 DEF Complete, Passed, Behind
  <2> QED
    BY <1>1, <2>1, <2>2, <2>3 DEF WalkInv
<1> QED
  BY <1>8, <1>9

\* An answer that is taken is shown, and its rows have been seen.
LEMMA TakenReads ==
  ASSUME ReadsInv, WalkInv, FormsPart, NEW l \in loads, Answered(l), loads' = loads \ {l},
         UNCHANGED <<table, screen, ask, saved>>,
         shown' = [question |-> l.question, items |-> l.answer.items, next |-> l.answer.next,
                   working |-> l.answer.working],
         NEW rows, rows = {i.id : i \in l.answer.items},
         seen' = IF screen.paged = "no" THEN {} ELSE IF l.question.cursor = None THEN rows ELSE seen \cup rows,
         same' = IF l.question.cursor = None THEN l.answer.same ELSE same
  PROVE  ReadsInv' /\ WalkInv'
<1>1. PICK a : a = l.answer
  OBVIOUS
<1>2. PICK q : q = l.question
  OBVIOUS
<1>3. /\ shown'.question = q /\ shown'.items = a.items /\ shown'.next = a.next
      /\ q = Question(ask) /\ a.items \subseteq Shown /\ UpToDate(a.items)
  BY <1>1, <1>2 DEF ReadsInv, Answered
<1>4. /\ a.next \in Cursors \cup {None}
      /\ a.same \subseteq On /\ (screen.paged = "no" => a.same = {})
      /\ q.cursor # None => same \subseteq a.same
      /\ \A r \in a.same \cap Matching[q.search] :
           Behind(q.cursor, r) /\ Passed(a.next, r) => r \in rows
  <2>1. Complete(l)
    BY DEF WalkInv
  <2>2. \A r : (\E i \in a.items : i.id = r) => r \in rows
    BY <1>1
  <2> QED
    BY <1>1, <1>2, <2>1, <2>2 DEF Complete
<1>5. AskOK(ask)' /\ Question(ask)' = Question(ask)
  BY DEF AskOK, Question, ReadsInv
<1>6. \A m \in loads' : m \in loads /\ ~m.live
  BY DEF ReadsInv, Answered
<1>7. ReadsInv'
  <2>1. \A m \in loads' : LoadOK(m)
    BY <1>6 DEF ReadsInv
  <2>2. ShownAnswersAsked'
    BY <1>3, <1>5 DEF ShownAnswersAsked, UpToDate
  <2> QED
    BY <1>3, <1>5, <1>6, <2>1, <2>2 DEF ReadsInv, Answered
<1>8. q.search = ask.search /\ q.cursor = IF ask.cursors = <<>> THEN None ELSE Last(ask.cursors)
  BY <1>3 DEF Question
<1>9. ask.cursors \in Seq(Cursors) /\ None \notin Cursors
  BY ScreensAssumption DEF ReadsInv, AskOK, Cursors
<1>10. WalkInv'
  <2>1. On' = On
    BY DEF On
  <2>2. same' \subseteq On' /\ (screen'.paged = "no" => same' = {})
    BY <1>1, <1>2, <1>4, <2>1 DEF WalkInv
  <2>3. ASSUME NEW c \in Turned', screen.paged # "no" PROVE Walked(c)'
    <3>1. SUFFICES ASSUME NEW r \in same' \cap Matching[ask.search], Passed(c, r) PROVE r \in seen'
      BY DEF Walked, Passed, Behind
    <3>2. CASE q.cursor = None
      <4>1. ask.cursors = <<>>
        <5>1. ask.cursors # <<>> => Last(ask.cursors) \in Cursors
          BY <1>9 DEF Last
        <5> QED
          BY <1>8, <1>9, <3>2, <5>1
      <4>2. c = a.next
        BY <1>3, <4>1 DEF Turned
      <4>3. Behind(q.cursor, r)
        BY <3>2 DEF Behind
      <4>4. r \in a.same
        BY <1>1, <1>2, <3>2
      <4> QED
        BY <1>2, <1>4, <1>8, <2>3, <3>1, <3>2, <4>2, <4>3, <4>4
    <3>3. CASE q.cursor # None
      <4>1. r \in same /\ r \in a.same /\ seen' = seen \cup rows
        BY <1>2, <1>4, <2>3, <3>3
      <4>2. ask.cursors # <<>> /\ q.cursor = ask.cursors[Len(ask.cursors)]
        BY <1>8, <3>3 DEF Last
      <4>3. q.cursor \in Turned
        BY <1>9, <4>2 DEF Turned
      <4>4. CASE c = a.next
        <5>1. CASE Behind(q.cursor, r)
          BY <1>4, <1>8, <3>1, <4>1, <4>4, <5>1
        <5>2. CASE ~Behind(q.cursor, r)
          <6>1. Walked(q.cursor) /\ Passed(q.cursor, r)
            BY <4>3, <5>2 DEF WalkInv, Passed
          <6> QED
            BY <3>1, <4>1, <6>1 DEF Walked
        <5> QED
          BY <5>1, <5>2
      <4>5. CASE c \in {ask.cursors[k] : k \in DOMAIN ask.cursors}
        <5>1. Walked(c)
          BY <4>5 DEF WalkInv, Turned
        <5> QED
          BY <3>1, <4>1, <5>1 DEF Walked
      <4> QED
        BY <1>3, <4>4, <4>5 DEF Turned
    <3> QED
      BY <3>2, <3>3
  <2>4. ASSUME NEW c \in Turned', screen.paged = "no" PROVE Walked(c)'
    BY <2>2, <2>4 DEF Walked
  <2>5. \A m \in loads' : ~Answered(m)
    BY <1>6 DEF Answered
  <2> QED
    BY <1>3, <1>4, <2>2, <2>3, <2>4, <2>5 DEF WalkInv
<1> QED
  BY <1>7, <1>10

LEMMA DeliverReads ==
  ASSUME ReadsInv, WalkInv, FormsPart, NEW l \in loads, Deliver(l)
  PROVE  ReadsInv' /\ WalkInv'
<1>1. UNCHANGED <<table, screen, ask, saved>> /\ loads' = loads \ {l} /\ l.answer # None
  BY DEF Deliver, server
<1>2. \A m \in loads' : LoadOK(m)
  BY <1>1 DEF ReadsInv
<1>3. CASE ~l.live
  <2>1. UNCHANGED <<shown, failed, seen, same>>
    BY <1>3 DEF Deliver, Takes, walk
  <2> QED
    BY <1>1, <1>2, <1>3, <2>1, QuietReads
<1>4. CASE l.live /\ l.answer = Lost
  <2>1. failed' = TRUE /\ UNCHANGED <<shown, seen, same>>
    BY <1>4 DEF Deliver, Takes, walk
  <2>2. AskOK(ask)' /\ Question(ask)' = Question(ask)
    BY <1>1 DEF AskOK, Question, ReadsInv
  <2>3. \A m \in loads' : m \in loads /\ ~m.live
    BY <1>1, <1>4 DEF ReadsInv
  <2>4. ~Settled'
    BY <2>1 DEF Settled
  <2>5. ShownAnswersAsked'
    BY <2>4 DEF ShownAnswersAsked
  <2>6. ReadsInv'
    BY <1>2, <2>1, <2>2, <2>3, <2>5 DEF ReadsInv, Answered
  <2>7. WalkInv'
    <3>1. \A m \in loads' : ~Answered(m)
      BY <2>3 DEF Answered
    <3>2. Turned' = Turned /\ shown'.next \in Cursors \cup {None}
      BY <1>1, <2>1 DEF Turned, WalkInv
    <3> QED
      BY <1>1, <2>1, <3>1, <3>2, WalkGoesOn
  <2> QED
    BY <2>6, <2>7
<1>5. CASE l.live /\ l.answer # Lost
  <2>1. PICK rows : rows = {i.id : i \in l.answer.items}
    OBVIOUS
  <2>2. /\ shown' = [question |-> l.question, items |-> l.answer.items, next |-> l.answer.next,
                     working |-> l.answer.working]
        /\ seen' = IF screen.paged = "no" THEN {} ELSE IF l.question.cursor = None THEN rows ELSE seen \cup rows
        /\ same' = IF l.question.cursor = None THEN l.answer.same ELSE same
    BY <1>5, <2>1 DEF Deliver, Takes
  <2>3. Answered(l)
    BY <1>1, <1>5 DEF Answered
  <2> QED
    BY <1>1, <2>1, <2>2, <2>3, TakenReads
<1> QED
  BY <1>3, <1>4, <1>5

(***************************************************************************)
(* Screens.                                                                *)
(***************************************************************************)

LEMMA ReadsStep ==
  ASSUME ReadsInv, WalkInv, FormsPart, [NextScreens]_web
  PROVE  ReadsInv' /\ WalkInv'
<1>1. ASSUME UNCHANGED <<table, screen, ask, shown, failed, saved, seen, same, loads>>
      PROVE  ReadsInv' /\ WalkInv'
  <2>1. \A l \in loads' : LoadOK(l)
    BY <1>1 DEF ReadsInv
  <2> QED
    BY <1>1, <2>1, QuietReads
<1>2. CASE Done
  BY <1>1, <1>2 DEF Done, client, walk
<1>3. ASSUME NEW s \in saves, Lose(s) PROVE ReadsInv' /\ WalkInv'
  BY <1>1, <1>3 DEF Lose, server, client, walk
<1>4. ASSUME NEW f, Open(f) PROVE ReadsInv' /\ WalkInv'
  BY <1>1, <1>4 DEF Open, server, client, walk
<1>5. CASE OpenNew \/ OpenRow \/ \E r \in fetches : Detail(r)
  BY <1>4, <1>5 DEF OpenNew, OpenRow, Detail
<1>6. CASE OpenDetail \/ Cancel
  BY <1>1, <1>6 DEF OpenDetail, Cancel, server, client, walk
<1>7. ASSUME NEW f, Send(f) PROVE ReadsInv' /\ WalkInv'
  BY <1>1, <1>7 DEF Send, server, client, walk
<1>8. CASE Save \/ Act
  BY <1>7, <1>8 DEF Save, Act
<1>9. CASE UNCHANGED web
  BY <1>1, <1>9 DEF web, server, client, walk
<1> QED
  BY <1>2, <1>3, <1>5, <1>6, <1>8, <1>9, OthersReads, ProcessReads, ServeReads, DeliverReads, AskReads,
     RefreshReads, TickReads, AnswerReads DEF NextScreens, ReadAnswered, FormAnswered

\* A page that is opened reads, and shows nothing yet.
LEMMA ScreensStart == InitScreens => ScreensInv
<1> SUFFICES ASSUME InitScreens PROVE ScreensInv
  OBVIOUS
<1>1. TableOK
  BY ScreensAssumption, TablesAssumption DEF InitScreens, TableOK
<1>2. Requests = {}
  BY DEF InitScreens, Requests
<1>3. FormsInv
  <2>1. UsedOK /\ made = [f \in 1 .. MaxForms |-> 0]
    BY ScreensAssumption DEF InitScreens, UsedOK
  <2>2. AppliedOnce
    BY <2>1 DEF AppliedOnce
  <2> QED
    BY <1>2, <2>1, <2>2 DEF FormsInv, InitScreens
<1>4. SavedInv
  BY <1>1 DEF InitScreens, SavedInv, TableOK
<1>5. PICK a : a = Begun
  OBVIOUS
<1>6. ask = a /\ AskOK(a) /\ a.cursors = <<>>
  BY <1>5, BegunOK DEF InitScreens
<1>7. PICK new : new = [question |-> Question(a), live |-> TRUE, answer |-> None]
  OBVIOUS
<1>8. loads = {new} /\ LoadOK(new) /\ new.live /\ new.question = Question(a) /\ ~Answered(new)
  BY <1>5, <1>7 DEF InitScreens, LoadOK, Answered
<1>9. shown = Blank /\ shown.items = {} /\ shown.next = None
  BY DEF InitScreens, Blank
<1>10. ReadsInv
  <2>1. Reading
    BY <1>8 DEF Reading
  <2>2. ShownAnswersAsked
    BY <2>1 DEF ShownAnswersAsked, Settled
  <2> QED
    BY <1>6, <1>8, <1>9, <2>2 DEF ReadsInv
<1>11. WalkInv
  <2>1. same = {}
    BY DEF InitScreens
  <2> QED
    BY <1>8, <1>9, <2>1 DEF WalkInv, Walked
<1> QED
  BY <1>1, <1>3, <1>4, <1>10, <1>11 DEF ScreensInv

\* What is shown, what is on its way to be shown, and what is on its way to be saved stay in step,
\* however the answers come in.
THEOREM ScreensInvariance == SpecScreens => []ScreensInv
<1>1. InitScreens => ScreensInv
  BY ScreensStart
<1>2. ScreensInv /\ [NextScreens]_web => ScreensInv'
  <2> SUFFICES ASSUME ScreensInv, [NextScreens]_web PROVE ScreensInv'
    OBVIOUS
  <2>1. FormsPart /\ ReadsInv /\ WalkInv /\ shown.items \subseteq Shown
    BY DEF ScreensInv, FormsPart, ReadsInv
  <2>2. FormsPart'
    BY <2>1, FormsStep
  <2>3. ReadsInv' /\ WalkInv'
    BY <2>1, ReadsStep
  <2> QED
    BY <2>2, <2>3 DEF ScreensInv, FormsPart
<1> QED
  BY <1>1, <1>2, PTL DEF SpecScreens

\* A form changes one record once, whatever is lost, saved again or on its way twice: what it would
\* change a second time has another version by then, or the id of the request is known
\* (accounts.mjs, access.mjs, stock and order versions).
THEOREM FormsAppliedOnce == SpecScreens => []AppliedOnce
<1>1. ScreensInv => AppliedOnce
  BY DEF ScreensInv, FormsInv
<1> QED
  BY <1>1, ScreensInvariance, PTL

\* Only the read that is live is taken, so that what is shown in the end answers what is asked for,
\* and has what this person saved (the effects of useList and its like).
THEOREM ShowsWhatIsAsked == SpecScreens => []ShownAnswersAsked
<1>1. ScreensInv => ShownAnswersAsked
  BY DEF ScreensInv, ReadsInv
<1> QED
  BY <1>1, ScreensInvariance, PTL

\* A walk by cursor to the last page has seen every record that nobody touched meanwhile
\* (pager.tsx, pageOf).
THEOREM PagesLeaveNothingOut == SpecScreens => []WalkComplete
<1>1. ScreensInv => WalkComplete
  <2>1. SUFFICES ASSUME ScreensInv, Settled, shown.next = None
                 PROVE  same \cap Matching[shown.question.search] \subseteq seen
    BY DEF WalkComplete
  <2>2. shown.question.search = ask.search
    BY <2>1 DEF ScreensInv, ReadsInv, ShownAnswersAsked, Question
  <2>3. Walked(shown.next)
    BY <2>1 DEF ScreensInv, WalkInv, Turned
  <2> QED
    BY <2>1, <2>2, <2>3 DEF Walked, Passed
<1> QED
  BY <1>1, ScreensInvariance, PTL

=============================================================================
