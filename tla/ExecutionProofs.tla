--------------------------- MODULE ExecutionProofs ---------------------------
(***************************************************************************)
(* Proofs about Execution for any orders, quantities, dates and stops, and *)
(* any bounds: its inductive invariant and what follows from it.           *)
(***************************************************************************)
EXTENDS Execution, TLAPS

Plans == [state: Pending \cup {"scheduled", "cancelled"}, original: Nat, proposed: Nat,
          accepted: Nat]
Calls == [pc: {"markers", "runs", "act"}, kind: {"make", "work"}, order: Orders,
          run: Nat, current: Nat, raced: BOOLEAN]

TypeOK ==
    /\ order \in [Orders -> OrderRecords \cup {None}]
    /\ plan \in [Orders -> Plans]
    /\ stops \in [Stops -> {"none", "open", "closed"}]
    /\ scheme \in [state: {"proposed", "accepted", "declined"}, units: Nat]
    /\ marker \in {"none", "old", "new"}
    /\ current \in Nat /\ queued \in Nat
    /\ call \in Calls \cup {Idle}
    /\ work \in Nat

\* A run found a quantity for every order of its book.
Minutes(x) == \A o \in DOMAIN x.schedule : x.schedule[o] \in Nat

IsRun(x) ==
    /\ x = [schedule |-> x.schedule, recommended |-> x.recommended, stops |-> x.stops,
            behind |-> x.behind]
    /\ x.behind \in BOOLEAN
    /\ Minutes(x)

RunInv ==
    /\ found # None => queued # 0 /\ IsRun(found)
    /\ current # 0 => IsRun(result)

\* What a run found is what it would find now, or a change was forgotten.
Sound(x) == x.behind \/ Live(x)

\* Without a marker a run will still read, or what the newest one found is sound.
FreshInv ==
    marker = "none" => /\ found # None => Sound(found)
                       /\ queued = 0 /\ current # 0 => Sound(result)

\* The request that holds the lock of the company: once it has seen no marker,
\* every run is sound, whatever is calculated meanwhile, until a file is imported.
LockInv ==
    /\ call # Idle => current # 0
    /\ call.pc \in {"runs", "act"} /\ ~call.raced =>
         /\ found # None => Sound(found)
         /\ call.pc = "act" \/ queued = 0 => Sound(result)

\* A later date belongs to an order; one that was cancelled is open again only
\* by an import.
PromiseInv ==
    \A o \in Orders :
        /\ plan[o].accepted # 0 \/ plan[o].state # "scheduled" => Exists(o)
        /\ plan[o].state = "cancelled" => order[o].status = "CLOSED" \/ order[o].imported

\* The numbers of released work have a largest one, and no two orders share one.
NumbersInv ==
    /\ \E m \in Numbers : \A n \in Numbers : n <= m
    /\ \A o, p \in Orders :
         Exists(o) /\ Exists(p) /\ order[o].release = order[p].release /\ order[o].release # 0
           => o = p

IInv ==
    /\ TypeOK /\ RunInv /\ FreshInv /\ LockInv /\ PromiseInv /\ NumbersInv
    /\ AcceptedIsPromise

-----------------------------------------------------------------------------
LEMMA InitInv == Init => IInv
<1> SUFFICES ASSUME Init PROVE IInv
  OBVIOUS
<1> USE ExecutionAssumption DEF Init
<1>1. TypeOK
  BY DEF TypeOK, NoPlan, Plans, Pending, Calls, Idle
<1>2. RunInv /\ FreshInv /\ LockInv
  BY DEF RunInv, FreshInv, LockInv, Idle
<1>3. PromiseInv /\ AcceptedIsPromise
  BY DEF PromiseInv, AcceptedIsPromise, NoPlan
<1>4. NumbersInv
  <2>1. \A o \in Orders : ~Exists(o)
    BY DEF Exists
  <2>2. Numbers = {0}
    BY <2>1 DEF Numbers
  <2> QED
    BY <2>1, <2>2 DEF NumbersInv
<1> QED
  BY <1>1, <1>2, <1>3, <1>4 DEF IInv

-----------------------------------------------------------------------------
(* What a run reads does not change while its inputs do not.               *)

LEMMA SameInputs ==
  ASSUME UNCHANGED <<order, plan, inputs>>
  PROVE  Schedule' = Schedule /\ Recommended' = Recommended /\ OpenStops' = OpenStops
<1>1. UNCHANGED <<order, plan, stops, scheme>>
  BY DEF inputs
<1>2. Schedule' = Schedule
  BY <1>1 DEF Schedule, Quantity, InBook, Exists
<1>3. OpenStops' = OpenStops
  BY <1>1 DEF OpenStops
<1>4. Waiting' = Waiting
  BY <1>1 DEF Waiting, Quantity, Exists
<1>5. Supply' = Supply /\ Qualified' = Qualified
  BY <1>1, <1>2, <1>4 DEF Supply, Qualified
<1>6. Recommended' = Recommended
  BY <1>5 DEF Recommended
<1> QED
  BY <1>2, <1>3, <1>6

\* Every order of the book has minutes.
LEMMA BookMinutes ==
  ASSUME TypeOK
  PROVE  \A o \in DOMAIN Schedule : Schedule[o] \in Nat
BY DEF TypeOK, Schedule, Quantity, InBook, Exists, OrderRecords

(* What changes an input leaves a marker, so nothing is sound until a run   *)
(* has read; a file may be imported while a request is handled.             *)
Marks ==
    /\ Mark /\ UNCHANGED planning
    /\ \/ call' = Idle
       \/ call' = call /\ call.pc \notin {"runs", "act"}
       \/ call \in Calls /\ call' = [call EXCEPT !.raced = TRUE]

LEMMA MarkedInv ==
  ASSUME IInv, Marks
  PROVE  /\ RunInv' /\ FreshInv' /\ LockInv'
         /\ marker' \in {"none", "old", "new"} /\ call' \in Calls \cup {Idle}
<1> USE DEF Marks
<1>1. marker' \in {"old", "new"}
  BY DEF Mark
<1>2. current' = current /\ result' = result /\ queued' = queued /\ found' = found
  BY DEF planning
<1>3. RunInv'
  BY <1>2 DEF IInv, RunInv, IsRun, Minutes
<1>4. FreshInv'
  BY <1>1 DEF FreshInv
<1>5. LockInv' /\ call' \in Calls \cup {Idle}
  <2>1. CASE call' = Idle
    BY <2>1 DEF LockInv, Idle
  <2>2. CASE call' = call /\ call.pc \notin {"runs", "act"}
    BY <1>2, <2>2 DEF IInv, LockInv, TypeOK
  <2>3. CASE call \in Calls /\ call' = [call EXCEPT !.raced = TRUE]
    <3>1. call' \in Calls /\ call'.raced
      BY <2>3 DEF Calls
    <3>2. call # Idle
      <4>1. call.pc # Idle.pc
        BY <2>3 DEF Calls, Idle
      <4> QED
        BY <4>1
    <3> QED
      BY <1>2, <3>1, <3>2 DEF IInv, LockInv
  <2> QED
    BY <2>1, <2>2, <2>3
<1> QED
  BY <1>1, <1>3, <1>4, <1>5

\* An order that is written keeps where it came from; a new one is imported.
LEMMA PutInv ==
  ASSUME IInv, NEW o \in Orders, NEW r \in OrderRecords, order' = [order EXCEPT ![o] = r],
         Exists(o) => /\ r.release = order[o].release,
         ~Exists(o) => r.release = 0
  PROVE  /\ order' \in [Orders -> OrderRecords \cup {None}]
         /\ NumbersInv'
         /\ order'[o] = r /\ \A p \in Orders \ {o} : order'[p] = order[p]
<1> USE ExecutionAssumption DEF IInv
<1>1. /\ order' \in [Orders -> OrderRecords \cup {None}]
      /\ order'[o] = r /\ \A p \in Orders \ {o} : order'[p] = order[p]
  BY DEF TypeOK
<1>2. r # None
  OBVIOUS
<1>5. Numbers' = Numbers
  BY <1>1, <1>2 DEF Numbers, Exists
<1>6. NumbersInv'
  BY <1>1, <1>2, <1>5 DEF NumbersInv, Exists
<1> QED
  BY <1>1, <1>6

LEMMA SameOrders ==
  ASSUME IInv, UNCHANGED order
  PROVE  NumbersInv'
<1>1. Numbers' = Numbers
  BY DEF Numbers, Exists
<1> QED
  BY <1>1 DEF IInv, NumbersInv, Exists

\* The invariants about later dates, when neither orders nor plans change.
LEMMA SamePromises ==
  ASSUME IInv, UNCHANGED <<order, plan>>
  PROVE  PromiseInv' /\ AcceptedIsPromise'
BY DEF IInv, PromiseInv, AcceptedIsPromise, Exists

-----------------------------------------------------------------------------
(* The calculation: orders and plans stay, runs move on.                   *)

LEMMA SameLive ==
  ASSUME UNCHANGED <<order, plan, inputs>>
  PROVE  /\ UNCHANGED found => (Live(found)' <=> Live(found))
         /\ UNCHANGED result => (Live(result)' <=> Live(result))
         /\ result' = found => (Live(result)' <=> Live(found))
BY SameInputs DEF Live

\* A run that is told that a change was forgotten is sound.
LEMMA ToldRun ==
  ASSUME NEW x, NEW y, IsRun(x),
         y = [x EXCEPT !.behind = ~Live(x)]
  PROVE  /\ IsRun(y) /\ y.schedule = x.schedule /\ y.recommended = x.recommended
         /\ y.stops = x.stops /\ (y.behind <=> ~Live(x))
<1>1. PICK b \in BOOLEAN : b <=> ~Live(x)
  OBVIOUS
<1>2. (~Live(x)) = b
  BY <1>1
<1>3. y = [schedule |-> x.schedule, recommended |-> x.recommended, stops |-> x.stops, behind |-> b]
  BY <1>2 DEF IsRun
<1> QED
  BY <1>1, <1>3 DEF IsRun, Minutes

LEMMA PlanningStep ==
  ASSUME IInv, Planning
  PROVE  IInv'
<1>1. UNCHANGED <<order, plan, inputs, call, work>>
  BY DEF Planning, QueueRun, DropMarkers, ReadInputs, Promote, Retry, FailRun
<1>2. Schedule' = Schedule /\ Recommended' = Recommended /\ OpenStops' = OpenStops
  BY <1>1, SameInputs
<1>3. ASSUME current' \in Nat, queued' \in Nat, marker' \in {"none", "old", "new"} PROVE TypeOK'
  BY <1>1, <1>3 DEF IInv, TypeOK, inputs
<1>4. PromiseInv' /\ AcceptedIsPromise' /\ NumbersInv'
  BY <1>1, SameOrders, SamePromises
<1>5. current \in Nat /\ queued \in Nat /\ marker \in {"none", "old", "new"} /\ current + 1 \in Nat
  BY DEF IInv, TypeOK
<1>6. /\ UNCHANGED found => (Live(found)' <=> Live(found))
      /\ UNCHANGED result => (Live(result)' <=> Live(result))
      /\ result' = found => (Live(result)' <=> Live(found))
  BY <1>1, SameLive
<1>7. CASE QueueRun
  <2> USE <1>7 DEF QueueRun, IInv
  <2>1. TypeOK'
    BY <1>3, <1>5
  <2>2. RunInv'
    BY <1>5 DEF RunInv, IsRun, Minutes
  <2>3. queued' # 0 /\ (found # None => queued # 0)
    BY <1>5 DEF RunInv
  <2>4. found' = None
    BY <2>3
  <2>5. FreshInv'
    BY <2>3, <2>4 DEF FreshInv
  <2>6. LockInv'
    BY <1>1, <1>6, <2>3, <2>4 DEF LockInv, Sound
  <2> QED
    BY <1>4, <2>1, <2>2, <2>5, <2>6
<1>8. CASE DropMarkers
  <2> USE <1>8 DEF DropMarkers, IInv
  <2>1. TypeOK'
    BY <1>3, <1>5
  <2>2. /\ IsRun(found') /\ found'.schedule = found.schedule
        /\ found'.recommended = found.recommended /\ found'.stops = found.stops
        /\ (found'.behind <=> ~Live(found))
    <3>1. found # None => IsRun(found) /\ found' = [found EXCEPT !.behind = ~Live(found)]
      BY DEF RunInv
    <3>2. found # None
      OBVIOUS
    <3> HIDE <1>8 DEF DropMarkers, IInv
    <3> QED
      BY <3>1, <3>2, ToldRun
  <2>3. Sound(found)'
    BY <1>2, <2>2 DEF Sound, Live
  <2>4. RunInv'
    BY <2>2 DEF RunInv, IsRun, Minutes
  <2>5. queued # 0
    BY DEF RunInv
  <2>6. FreshInv'
    BY <2>3, <2>5 DEF FreshInv
  <2>7. LockInv'
    BY <1>1, <1>6, <2>3 DEF LockInv, Sound
  <2> QED
    BY <1>4, <2>1, <2>4, <2>6, <2>7
<1>9. CASE ReadInputs
  <2> USE <1>9 DEF ReadInputs, IInv
  <2>1. TypeOK'
    BY <1>3, <1>5
  <2>2. RunInv'
    BY BookMinutes DEF RunInv, IsRun, Minutes
  <2>3. Sound(found)'
    BY <1>2 DEF Sound, Live
  <2>4. FreshInv'
    BY <2>3 DEF FreshInv
  <2>5. LockInv'
    BY <1>1, <1>6, <2>3 DEF LockInv, Sound
  <2> QED
    BY <1>4, <2>1, <2>2, <2>4, <2>5
<1>10. CASE Promote
  <2> USE <1>10 DEF Promote, IInv
  <2>1. TypeOK'
    BY <1>3, <1>5
  <2>2. RunInv'
    BY DEF RunInv, IsRun, Minutes
  <2>3. Sound(found) => Sound(result)'
    BY <1>6 DEF Sound
  <2>4. FreshInv'
    BY <2>3 DEF FreshInv
  <2>5. LockInv'
    BY <1>1, <1>5, <2>3 DEF LockInv, RunInv
  <2> QED
    BY <1>4, <2>1, <2>2, <2>4, <2>5
<1>11. CASE Retry
  <2> USE <1>11 DEF Retry, IInv
  <2>1. TypeOK'
    BY <1>3, <1>5
  <2>2. RunInv'
    BY DEF RunInv, IsRun, Minutes
  <2>3. FreshInv'
    BY <1>6 DEF FreshInv, Sound
  <2>4. LockInv'
    BY <1>1, <1>6 DEF LockInv, Sound
  <2> QED
    BY <1>4, <2>1, <2>2, <2>3, <2>4
<1>12. CASE FailRun
  <2> USE <1>12 DEF FailRun, IInv
  <2>1. TypeOK'
    BY <1>3, <1>5
  <2>2. current # 0 =>
          /\ IsRun(result') /\ result'.schedule = result.schedule
          /\ result'.recommended = result.recommended /\ result'.stops = result.stops
          /\ (result'.behind <=> ~Live(result))
    <3>1. current # 0 => IsRun(result) /\ result' = [result EXCEPT !.behind = ~Live(result)]
      BY DEF RunInv
    <3> HIDE <1>12 DEF FailRun, IInv
    <3> QED
      BY <3>1, ToldRun
  <2>3. current # 0 => Sound(result)'
    BY <1>2, <2>2 DEF Sound, Live
  <2>4. RunInv'
    BY <2>2 DEF RunInv, IsRun, Minutes
  <2>5. FreshInv'
    BY <2>3 DEF FreshInv
  <2>6. LockInv'
    BY <1>1, <2>3 DEF LockInv, Idle
  <2> QED
    BY <1>4, <2>1, <2>4, <2>5, <2>6
<1> QED
  BY <1>7, <1>8, <1>9, <1>10, <1>11, <1>12 DEF Planning

-----------------------------------------------------------------------------
(* A request that reads the planning status in several statements.         *)

LEMMA ReadingStep ==
  ASSUME IInv,
         \/ \E o \in Orders, r \in 1 .. MaxRuns, kind \in {"make", "work"} : Begin(kind, o, r)
         \/ ReadMarkers \/ ReadRuns \/ Refuse
  PROVE  IInv'
<1>1. UNCHANGED <<order, plan, inputs, marker, planning>>
  BY DEF Begin, ReadMarkers, ReadRuns, Refuse
<1>2. /\ UNCHANGED <<current, result, queued, found>>
      /\ (Live(found)' <=> Live(found)) /\ (Live(result)' <=> Live(result))
  BY <1>1, SameLive DEF planning
<1>3. RunInv' /\ FreshInv'
  BY <1>1, <1>2 DEF IInv, RunInv, IsRun, Minutes, FreshInv, Sound
<1>4. PromiseInv' /\ AcceptedIsPromise' /\ NumbersInv'
  BY <1>1, SameOrders, SamePromises
<1>5. ASSUME NEW o \in Orders, NEW r \in 1 .. MaxRuns, NEW kind \in {"make", "work"}, Begin(kind, o, r)
      PROVE TypeOK' /\ LockInv'
  <2> USE <1>1, <1>5, ExecutionAssumption DEF Begin, IInv, planning, inputs
  <2>1. r \in Nat /\ current # 0
    BY DEF TypeOK
  <2>2. call' \in Calls
    BY <2>1 DEF Calls, TypeOK
  <2>3. TypeOK'
    BY <2>2 DEF TypeOK, Work
  <2> QED
    BY <2>1, <2>3 DEF LockInv
<1>6. ASSUME ReadMarkers PROVE TypeOK' /\ LockInv'
  <2> USE <1>1, <1>6 DEF ReadMarkers, IInv, planning, inputs
  <2>1. TypeOK'
    BY DEF TypeOK, Calls, Idle
  <2>2. LockInv'
    BY <1>2 DEF LockInv, FreshInv, Sound, TypeOK, Calls, Idle, RunInv
  <2> QED
    BY <2>1, <2>2
<1>7. ASSUME ReadRuns PROVE TypeOK' /\ LockInv'
  <2> USE <1>1, <1>7 DEF ReadRuns, IInv, planning, inputs
  <2>1. TypeOK'
    BY DEF TypeOK, Calls, Idle
  <2>2. LockInv'
    BY <1>2 DEF LockInv, Sound, TypeOK, Calls, Idle
  <2> QED
    BY <2>1, <2>2
<1>8. ASSUME Refuse PROVE TypeOK' /\ LockInv'
  BY <1>1, <1>8 DEF Refuse, IInv, TypeOK, LockInv, Idle, planning, inputs
<1> QED
  BY <1>3, <1>4, <1>5, <1>6, <1>7, <1>8 DEF IInv

-----------------------------------------------------------------------------
(* A release: the two places where the current run becomes an order.       *)

LEMMA ReleaseMakeStep ==
  ASSUME IInv, ReleaseMake
  PROVE  IInv'
<1> DEFINE o == call.order
<1>1. PICK due \in Dates :
        order' = [order EXCEPT ![o] = New("MAKE", result.recommended, due)]
  BY DEF ReleaseMake
<1> DEFINE r == New("MAKE", result.recommended, due)
<1>2. /\ o \in Orders /\ ~Exists(o) /\ result.recommended \in Nat \ {0}
      /\ Marks /\ UNCHANGED <<plan, inputs, planning, work>>
  BY DEF ReleaseMake, Marks, IInv, TypeOK, Calls, Idle
<1>3. r \in OrderRecords /\ r # None
  <2>2. r \in OrderRecords
    BY <1>2 DEF New, OrderRecords
  <2> QED
    BY <2>2, ExecutionAssumption
<1>4. order'[o] = r /\ \A p \in Orders \ {o} : order'[p] = order[p]
  BY <1>1, <1>2 DEF IInv, TypeOK
<1>5. TypeOK'
  BY <1>1, <1>2, <1>3, MarkedInv DEF IInv, TypeOK, inputs, planning
<1>6. RunInv' /\ FreshInv' /\ LockInv'
  BY <1>2, MarkedInv
<1>7. PromiseInv' /\ AcceptedIsPromise'
  BY <1>2, <1>3, <1>4 DEF IInv, TypeOK, Plans, PromiseInv, AcceptedIsPromise, Exists
<1>9. NumbersInv'
  <2>1. r.release = 0
    BY DEF New
  <2>2. Numbers' = Numbers
    BY <1>2, <1>3, <1>4, <2>1 DEF Numbers, Exists
  <2> QED
    BY <1>2, <1>4, <2>1, <2>2 DEF IInv, NumbersInv, Exists
<1> QED
  BY <1>5, <1>6, <1>7, <1>9 DEF IInv

LEMMA ReleaseWorkStep ==
  ASSUME IInv, ReleaseWork
  PROVE  IInv'
<1>1. /\ current # 0
      /\ Marks /\ UNCHANGED <<plan, inputs, planning, work>>
  BY DEF ReleaseWork, Marks, IInv, LockInv, Idle
<1>2. Numbers \subseteq Nat /\ Max(Numbers) \in Nat /\ \A n \in Numbers : n <= Max(Numbers)
  <2>1. Numbers \subseteq Nat
    BY DEF IInv, TypeOK, Numbers, Exists, OrderRecords
  <2>2. PICK m \in Numbers : \A n \in Numbers : m >= n
    BY <2>1 DEF IInv, NumbersInv
  <2>3. Max(Numbers) \in Numbers /\ \A n \in Numbers : Max(Numbers) >= n
    BY <2>2 DEF Max
  <2> QED
    BY <2>1, <2>3
<1>3. PICK o \in Orders :
        /\ Exists(o) /\ o \in DOMAIN result.schedule
        /\ order' = [order EXCEPT ![o].state = "released", ![o].release = Max(Numbers) + 1,
                                  ![o].minutes = result.schedule[o]]
  <2>1. call.order \in Orders
    BY DEF ReleaseWork, IInv, TypeOK, Calls, Idle
  <2> QED
    BY <2>1 DEF ReleaseWork
<1>4. result.schedule[o] \in Nat /\ Max(Numbers) + 1 \in Nat /\ order[o] \in OrderRecords
  BY <1>1, <1>2, <1>3 DEF IInv, TypeOK, RunInv, IsRun, Minutes, Exists
<1>5. PICK r : r = [order[o] EXCEPT !.state = "released", !.release = Max(Numbers) + 1,
                                    !.minutes = result.schedule[o]]
  OBVIOUS
<1>6. /\ r \in OrderRecords /\ r # None /\ r.release = Max(Numbers) + 1
      /\ r.source = order[o].source /\ r.due = order[o].due
      /\ r.imported = order[o].imported /\ r.status = order[o].status
  <2>1. /\ r \in OrderRecords /\ r.release = Max(Numbers) + 1
        /\ r.source = order[o].source /\ r.due = order[o].due
        /\ r.imported = order[o].imported /\ r.status = order[o].status
    <3>1. PICK x \in OrderRecords, n \in Nat, m \in Nat :
            x = order[o] /\ n = Max(Numbers) + 1 /\ m = result.schedule[o]
      BY <1>4
    <3>2. r = [x EXCEPT !.state = "released", !.release = n, !.minutes = m]
      BY <1>5, <3>1
    <3>3. /\ r \in OrderRecords /\ r.release = n
          /\ r.source = x.source /\ r.due = x.due
          /\ r.imported = x.imported /\ r.status = x.status
      BY <3>2 DEF OrderRecords
    <3> QED
      BY <3>1, <3>3
  <2> QED
    BY <2>1, ExecutionAssumption
<1>7. order'[o] = r /\ \A p \in Orders \ {o} : order'[p] = order[p]
  BY <1>3, <1>5 DEF IInv, TypeOK
<1>8. TypeOK'
  <2>1. order' \in [Orders -> OrderRecords \cup {None}]
    BY <1>3, <1>6, <1>7 DEF IInv, TypeOK
  <2> QED
    BY <1>1, <2>1, MarkedInv DEF IInv, TypeOK, inputs, planning
<1>9. RunInv' /\ FreshInv' /\ LockInv'
  BY <1>1, MarkedInv
<1>10. PromiseInv' /\ AcceptedIsPromise'
  <2>1. plan' = plan /\ \A p \in Orders : Exists(p) => Exists(p)'
    BY <1>1, <1>6, <1>7 DEF Exists
  <2>2. PromiseInv'
    BY <1>6, <1>7, <2>1 DEF IInv, PromiseInv
  <2>3. AcceptedIsPromise'
    BY <1>6, <1>7, <2>1 DEF IInv, AcceptedIsPromise
  <2> QED
    BY <2>2, <2>3
<1>12. NumbersInv'
  <2>1. \A p \in Orders : p # o /\ Exists(p)' => order'[p].release \in Numbers
    BY <1>7 DEF Numbers, Exists
  <2>2. Numbers' \subseteq Numbers \cup {Max(Numbers) + 1} /\ Max(Numbers) + 1 \in Numbers'
    <3>1. Numbers' = {order'[p].release : p \in {q \in Orders : Exists(q)'}} \cup {0}
      BY DEF Numbers
    <3>2. Exists(o)' /\ order'[o].release = Max(Numbers) + 1
      BY <1>6, <1>7 DEF Exists
    <3>3. 0 \in Numbers
      BY DEF Numbers
    <3> QED
      BY <2>1, <3>1, <3>2, <3>3
  <2>3. \A n \in Numbers : n \in Nat /\ n < Max(Numbers) + 1
    BY <1>2
  <2>4. \A n \in Numbers' : n <= Max(Numbers) + 1
    BY <1>4, <2>2, <2>3
  <2>5. \A p \in Orders : p # o /\ Exists(p)' => order'[p].release # r.release
    BY <1>6, <2>1, <2>3
  <2> QED
    BY <1>6, <1>7, <2>2, <2>4, <2>5 DEF IInv, NumbersInv, Exists
<1> QED
  BY <1>8, <1>9, <1>10, <1>12 DEF IInv

-----------------------------------------------------------------------------
(* Orders that are written by people and by files.                         *)

\* An order that is written and a plan that is kept, or the other way round,
\* keep everything but what is said of later dates.
LEMMA WrittenInv ==
  ASSUME IInv, Marks, UNCHANGED inputs, work' \in Nat,
         plan' \in [Orders -> Plans], NEW o \in Orders, NEW r \in OrderRecords,
         order' = [order EXCEPT ![o] = r],
         Exists(o) => /\ r.release = order[o].release,
         ~Exists(o) => r.release = 0
  PROVE  /\ TypeOK' /\ RunInv' /\ FreshInv' /\ LockInv' /\ NumbersInv'
         /\ order'[o] = r /\ \A p \in Orders \ {o} : order'[p] = order[p]
<1>1. /\ order' \in [Orders -> OrderRecords \cup {None}]
      /\ NumbersInv'
      /\ order'[o] = r /\ \A p \in Orders \ {o} : order'[p] = order[p]
  BY PutInv
<1>2. TypeOK'
  BY <1>1, MarkedInv DEF Marks, IInv, TypeOK, inputs, planning
<1>3. RunInv' /\ FreshInv' /\ LockInv'
  BY MarkedInv
<1> QED
  BY <1>1, <1>2, <1>3

LEMMA ImportStep ==
  ASSUME IInv, NEW o \in Orders, NEW quantity \in Quantities, NEW due \in Dates,
         Import(o, quantity, due)
  PROVE  IInv'
<1> USE ExecutionAssumption
<1>1. PICK r : r = IF Exists(o)
                   THEN [order[o] EXCEPT !.quantity = quantity, !.due = due, !.status = "OPEN",
                                         !.imported = TRUE]
                   ELSE New("IMPORT", quantity, due)
  OBVIOUS
<1>2. order' = [order EXCEPT ![o] = r]
  BY <1>1 DEF Import
<1>3. quantity \in Nat \ {0}
  OBVIOUS
<1>4. /\ r \in OrderRecords /\ r.due = due /\ r.status = "OPEN"
      /\ Exists(o) => /\ r.release = order[o].release /\ r.imported
      /\ ~Exists(o) => r.release = 0
  <2>1. CASE Exists(o)
    <3>1. PICK x \in OrderRecords : x = order[o]
      BY <2>1 DEF Exists, IInv, TypeOK
    <3>2. r = [x EXCEPT !.quantity = quantity, !.due = due, !.status = "OPEN", !.imported = TRUE]
      BY <1>1, <2>1, <3>1
    <3>3. /\ r \in OrderRecords /\ r.due = due /\ r.status = "OPEN" /\ r.imported
          /\ r.release = x.release
      BY <1>3, <3>2 DEF OrderRecords
    <3> QED
      BY <2>1, <3>1, <3>3
  <2>2. CASE ~Exists(o)
    BY <1>1, <1>3, <2>2 DEF New, OrderRecords
  <2> QED
    BY <2>1, <2>2
<1>5. Marks /\ UNCHANGED inputs /\ plan' = plan /\ work' \in Nat
  BY DEF Import, Marks, Work, IInv, TypeOK, Idle
<1>6. /\ TypeOK' /\ RunInv' /\ FreshInv' /\ LockInv' /\ NumbersInv'
      /\ order'[o] = r /\ \A p \in Orders \ {o} : order'[p] = order[p]
  <2>1. plan' \in [Orders -> Plans]
    BY <1>5 DEF IInv, TypeOK
  <2> QED
    BY <1>2, <1>4, <1>5, <2>1, WrittenInv
<1>7. \A p \in Orders : Exists(p) => Exists(p)'
  BY <1>4, <1>6 DEF Exists
<1>8. PromiseInv'
  BY <1>4, <1>5, <1>6, <1>7 DEF IInv, PromiseInv
<1>9. AcceptedIsPromise'
  BY <1>4, <1>5, <1>6 DEF IInv, PromiseInv, AcceptedIsPromise
<1> QED
  BY <1>6, <1>8, <1>9 DEF IInv

\* An order is closed, as it is or as completed work.
LEMMA ClosedInv ==
  ASSUME IInv, NEW o \in Orders, Close(o) \/ Complete(o)
  PROVE  IInv'
<1>1. PICK x \in OrderRecords : x = order[o]
  BY DEF Close, Complete, Exists, IInv, TypeOK
<1>2. PICK r \in OrderRecords :
        /\ order' = [order EXCEPT ![o] = r]
        /\ r.release = x.release
        /\ r.due = x.due /\ r.imported = x.imported /\ r.status = "CLOSED"
  <2>1. CASE Close(o)
    <3>1. PICK r : r = [x EXCEPT !.status = "CLOSED"]
      OBVIOUS
    <3>2. order' = [order EXCEPT ![o] = r]
      BY <1>1, <2>1, <3>1 DEF Close
    <3>3. /\ r \in OrderRecords
          /\ r.release = x.release
          /\ r.due = x.due /\ r.imported = x.imported /\ r.status = "CLOSED"
      BY <3>1 DEF OrderRecords
    <3> QED
      BY <3>2, <3>3
  <2>2. CASE Complete(o)
    <3>1. PICK r : r = [x EXCEPT !.state = "completed", !.status = "CLOSED"]
      OBVIOUS
    <3>2. order' = [order EXCEPT ![o] = r]
      BY <1>1, <2>2, <3>1 DEF Complete, IInv, TypeOK
    <3>3. /\ r \in OrderRecords
          /\ r.release = x.release
          /\ r.due = x.due /\ r.imported = x.imported /\ r.status = "CLOSED"
      BY <3>1 DEF OrderRecords
    <3> QED
      BY <3>2, <3>3
  <2> QED
    BY <2>1, <2>2
<1>3. /\ Exists(o) /\ Marks /\ UNCHANGED inputs
      /\ plan' = plan /\ work' \in Nat
  BY DEF Close, Complete, Marks, Free, Idle, Work, IInv, TypeOK
<1>4. /\ TypeOK' /\ RunInv' /\ FreshInv' /\ LockInv' /\ NumbersInv'
      /\ order'[o] = r /\ \A p \in Orders \ {o} : order'[p] = order[p]
  <2>1. plan' \in [Orders -> Plans]
    BY <1>3 DEF IInv, TypeOK
  <2> QED
    BY <1>1, <1>2, <1>3, <2>1, WrittenInv
<1>5. \A p \in Orders : Exists(p) => Exists(p)'
  BY <1>2, <1>4, ExecutionAssumption DEF Exists
<1>6. PromiseInv'
  BY <1>1, <1>2, <1>3, <1>4, <1>5 DEF IInv, PromiseInv
<1>7. AcceptedIsPromise'
  BY <1>1, <1>2, <1>3, <1>4 DEF IInv, AcceptedIsPromise
<1> QED
  BY <1>4, <1>6, <1>7 DEF IInv

-----------------------------------------------------------------------------
(* Stops, schemes and later dates.                                         *)

\* Stops and schemes: orders and plans stay.
LEMMA InputStep ==
  ASSUME IInv,
         \/ \E s \in Stops : LogStop(s) \/ CloseStop(s)
         \/ \E units \in Extra : SaveScheme(units)
         \/ \E state \in {"accepted", "declined"} : DecideScheme(state)
  PROVE  IInv'
<1>1. Marks /\ UNCHANGED <<order, plan, planning>> /\ work' \in Nat
  BY DEF Marks, Free, Idle, LogStop, CloseStop, SaveScheme, DecideScheme, Work, IInv, TypeOK
<1>2. stops' \in [Stops -> {"none", "open", "closed"}]
  BY DEF LogStop, CloseStop, SaveScheme, DecideScheme, IInv, TypeOK
<1>3. scheme' \in [state: {"proposed", "accepted", "declined"}, units: Nat]
  BY ExecutionAssumption DEF LogStop, CloseStop, SaveScheme, DecideScheme, IInv, TypeOK
<1>4. TypeOK'
  BY <1>1, <1>2, <1>3, MarkedInv DEF IInv, TypeOK, planning
<1>5. NumbersInv' /\ PromiseInv' /\ AcceptedIsPromise'
  BY <1>1, SameOrders, SamePromises
<1>6. RunInv' /\ FreshInv' /\ LockInv'
  BY <1>1, MarkedInv
<1> QED
  BY <1>4, <1>5, <1>6 DEF IInv

\* A plan is written, its order is not.
LEMMA PlannedInv ==
  ASSUME IInv, Marks, UNCHANGED <<order, inputs>>, work' \in Nat,
         plan' \in [Orders -> Plans]
  PROVE  TypeOK' /\ RunInv' /\ FreshInv' /\ LockInv' /\ NumbersInv'
<1>1. NumbersInv'
  BY SameOrders
<1>2. TypeOK'
  BY MarkedInv DEF Marks, IInv, TypeOK, inputs, planning
<1>3. RunInv' /\ FreshInv' /\ LockInv'
  BY MarkedInv
<1> QED
  BY <1>1, <1>2, <1>3

\* The date an order had at first.
LEMMA OriginalDate ==
  ASSUME TypeOK, NEW o \in Orders, Exists(o)
  PROVE  Original(o) \in Nat
BY ExecutionAssumption DEF TypeOK, Exists, Original, OrderRecords, Plans

\* Propose, Move and Ready: the order and the accepted date stay.
LEMMA PlanStep ==
  ASSUME IInv, NEW o \in Orders,
         (\E d \in Dates : Propose(o, d) \/ Move(o, d)) \/ Ready(o)
  PROVE  IInv'
<1> USE ExecutionAssumption
<1>1. /\ Marks /\ UNCHANGED <<order, inputs>> /\ work' \in Nat
      /\ Exists(o) /\ plan[o] \in Plans
  <2>1. TypeOK /\ PromiseInv
    BY DEF IInv
  <2>2. plan[o] \in Plans
    BY <2>1 DEF TypeOK
  <2>3. work \in Nat
    BY <2>1 DEF TypeOK
  <2>4. ASSUME NEW d \in Dates, Propose(o, d)
        PROVE  /\ Marks /\ UNCHANGED <<order, inputs>>
               /\ work' = work + 1 /\ Exists(o)
    BY <2>4 DEF Propose, Decide, Marks, Free, Idle, Work
  <2>5. ASSUME NEW d \in Dates, Move(o, d)
        PROVE  /\ Marks /\ UNCHANGED <<order, inputs>>
               /\ work' = work + 1 /\ Exists(o)
    BY <2>5 DEF Move, Decide, Marks, Free, Idle, Work, InBook
  <2>6. ASSUME Ready(o)
        PROVE  /\ Marks /\ UNCHANGED <<order, inputs>>
               /\ work' = work + 1 /\ plan[o].state # "scheduled"
    BY <2>6 DEF Ready, Marks, Free, Idle, Work
  <2>7. Exists(o)
    BY <2>1, <2>4, <2>5, <2>6 DEF PromiseInv
  <2>8. /\ Marks /\ UNCHANGED <<order, inputs>>
        /\ work' = work + 1
    BY <2>4, <2>5, <2>6
  <2>9. work' \in Nat
    BY <2>3, <2>8
  <2> QED
    BY <2>2, <2>7, <2>8, <2>9
<1>2. PICK q \in Plans :
        /\ plan' = [plan EXCEPT ![o] = q] /\ q.accepted = plan[o].accepted
        /\ q.state \in Pending \/ (q.state = "scheduled" /\ InBook(o))
  <2>1. ASSUME NEW d \in Dates, Propose(o, d)
        PROVE  \E q \in Plans : /\ plan' = [plan EXCEPT ![o] = q] /\ q.accepted = plan[o].accepted
                                /\ q.state \in Pending
    <3>1. PICK q : q = [plan[o] EXCEPT !.state = "awaiting_confirmation",
                                       !.original = Original(o), !.proposed = d]
      OBVIOUS
    <3>2. Original(o) \in Nat /\ d \in Nat
      BY <1>1, OriginalDate DEF IInv
    <3>3. q \in Plans /\ q.accepted = plan[o].accepted /\ q.state \in Pending
      BY <1>1, <3>1, <3>2 DEF Plans, Pending
    <3>4. plan' = [plan EXCEPT ![o] = q]
      BY <2>1, <3>1 DEF Propose
    <3> QED
      BY <3>3, <3>4
  <2>2. ASSUME NEW d \in Dates, Move(o, d)
        PROVE  \E q \in Plans : /\ plan' = [plan EXCEPT ![o] = q] /\ q.accepted = plan[o].accepted
                                /\ q.state = "scheduled" /\ InBook(o)
    <3>1. PICK q : q = [plan[o] EXCEPT !.state = "scheduled",
                                       !.original = Original(o), !.proposed = d]
      OBVIOUS
    <3>2. Original(o) \in Nat /\ d \in Nat
      BY <1>1, OriginalDate DEF IInv
    <3>3. q \in Plans /\ q.accepted = plan[o].accepted /\ q.state = "scheduled"
      BY <1>1, <3>1, <3>2 DEF Plans
    <3>4. plan' = [plan EXCEPT ![o] = q] /\ InBook(o)
      BY <2>2, <3>1 DEF Move
    <3> QED
      BY <3>3, <3>4
  <2>3. ASSUME Ready(o)
        PROVE  \E q \in Plans : /\ plan' = [plan EXCEPT ![o] = q] /\ q.accepted = plan[o].accepted
                                /\ q.state \in Pending
    <3>1. PICK q : q = [plan[o] EXCEPT !.state = "ready_to_reschedule"]
      OBVIOUS
    <3>2. q \in Plans /\ q.accepted = plan[o].accepted /\ q.state \in Pending
      BY <1>1, <3>1 DEF Plans, Pending
    <3>3. plan' = [plan EXCEPT ![o] = q]
      BY <2>3, <3>1 DEF Ready, IInv, TypeOK
    <3> QED
      BY <3>2, <3>3
  <2> QED
    BY <2>1, <2>2, <2>3
<1>3. /\ plan' \in [Orders -> Plans] /\ plan'[o] = q
      /\ \A p \in Orders \ {o} : plan'[p] = plan[p]
  BY <1>2 DEF IInv, TypeOK
<1>4. \A p \in Orders : Exists(p)' <=> Exists(p)
  BY <1>1 DEF Exists
<1>5. PromiseInv'
  BY <1>1, <1>2, <1>3, <1>4 DEF IInv, PromiseInv, Pending
<1>6. AcceptedIsPromise'
  BY <1>1, <1>2, <1>3 DEF IInv, PromiseInv, AcceptedIsPromise, InBook, Pending, Plans
<1> QED
  BY <1>1, <1>3, <1>5, <1>6, PlannedInv DEF IInv

\* Confirm and Cancel write both.
LEMMA ConfirmStep ==
  ASSUME IInv, NEW o \in Orders, NEW d \in Dates, Confirm(o, d)
  PROVE  IInv'
<1> USE ExecutionAssumption
<1>1. /\ Marks /\ UNCHANGED inputs /\ work' \in Nat
      /\ Exists(o) /\ order[o].status = "OPEN"
  BY DEF Confirm, Decide, Marks, Free, Idle, Work, IInv, TypeOK
<1>2. PICK x \in OrderRecords : x = order[o]
  BY <1>1 DEF IInv, TypeOK, Exists
<1>3. PICK r : r = [x EXCEPT !.due = d, !.imported = FALSE]
  OBVIOUS
<1>4. order' = [order EXCEPT ![o] = r]
  BY <1>2, <1>3 DEF Confirm, IInv, TypeOK
<1>5. /\ r \in OrderRecords /\ r.due = d
      /\ r.release = x.release
  BY <1>3 DEF OrderRecords
<1>6. PICK q : q = [state |-> "scheduled", original |-> Original(o), proposed |-> d, accepted |-> d]
  OBVIOUS
<1>7. q \in Plans /\ q.state = "scheduled" /\ q.accepted = d
  BY <1>1, <1>6, OriginalDate DEF IInv, Plans
<1>8. /\ plan' \in [Orders -> Plans] /\ plan'[o] = q
      /\ \A p \in Orders \ {o} : plan'[p] = plan[p]
  BY <1>6, <1>7 DEF Confirm, IInv, TypeOK
<1>9. /\ TypeOK' /\ RunInv' /\ FreshInv' /\ LockInv' /\ NumbersInv'
      /\ order'[o] = r /\ \A p \in Orders \ {o} : order'[p] = order[p]
  BY <1>1, <1>2, <1>4, <1>5, <1>8, WrittenInv
<1>10. \A p \in Orders : Exists(p) => Exists(p)'
  BY <1>5, <1>9 DEF Exists
<1>11. PromiseInv'
  BY <1>1, <1>7, <1>8, <1>9, <1>10 DEF IInv, PromiseInv
<1>12. AcceptedIsPromise'
  BY <1>5, <1>7, <1>8, <1>9 DEF IInv, AcceptedIsPromise
<1> QED
  BY <1>9, <1>11, <1>12 DEF IInv

LEMMA CancelStep ==
  ASSUME IInv, NEW o \in Orders, Cancel(o)
  PROVE  IInv'
<1> USE ExecutionAssumption
<1>1. /\ Marks /\ UNCHANGED inputs /\ work' \in Nat
      /\ plan[o] \in Plans /\ Exists(o)
  BY DEF Cancel, Marks, Free, Idle, Work, IInv, TypeOK, PromiseInv, Pending
<1>2. PICK x \in OrderRecords : x = order[o]
  BY <1>1 DEF IInv, TypeOK, Exists
<1>3. PICK r : r = [x EXCEPT !.status = "CLOSED"]
  OBVIOUS
<1>4. order' = [order EXCEPT ![o] = r]
  BY <1>2, <1>3 DEF Cancel, IInv, TypeOK
<1>5. /\ r \in OrderRecords /\ r.status = "CLOSED"
      /\ r.release = x.release
  BY <1>3 DEF OrderRecords
<1>6. PICK q : q = [plan[o] EXCEPT !.state = "cancelled"]
  OBVIOUS
<1>7. q \in Plans /\ q.state = "cancelled"
  BY <1>1, <1>6 DEF Plans
<1>8. /\ plan' \in [Orders -> Plans] /\ plan'[o] = q
      /\ \A p \in Orders \ {o} : plan'[p] = plan[p]
  BY <1>6, <1>7 DEF Cancel, IInv, TypeOK
<1>9. /\ TypeOK' /\ RunInv' /\ FreshInv' /\ LockInv' /\ NumbersInv'
      /\ order'[o] = r /\ \A p \in Orders \ {o} : order'[p] = order[p]
  BY <1>1, <1>2, <1>4, <1>5, <1>8, WrittenInv
<1>10. \A p \in Orders : Exists(p) => Exists(p)'
  BY <1>5, <1>9 DEF Exists
<1>11. PromiseInv'
  BY <1>1, <1>5, <1>7, <1>8, <1>9, <1>10 DEF IInv, PromiseInv
<1>12. AcceptedIsPromise'
  BY <1>7, <1>8, <1>9 DEF IInv, AcceptedIsPromise
<1> QED
  BY <1>9, <1>11, <1>12 DEF IInv

-----------------------------------------------------------------------------
LEMMA StepInv == IInv /\ [Next]_vars => IInv'
<1> SUFFICES ASSUME IInv, [Next]_vars PROVE IInv'
  OBVIOUS
<1>1. CASE Planning
  BY <1>1, PlanningStep
<1>2. CASE Acting
  BY <1>2, ReadingStep, ReleaseMakeStep, ReleaseWorkStep, ClosedInv, InputStep DEF Acting
<1>3. CASE Deciding
  BY <1>3, PlanStep, ConfirmStep, CancelStep DEF Deciding
<1>4. CASE Expecting
  BY <1>4, InputStep DEF Expecting
<1>5. ASSUME NEW o \in Orders, NEW q \in Quantities, NEW d \in Dates, Import(o, q, d)
      PROVE IInv'
  BY <1>5, ImportStep
<1>6. ASSUME NEW o \in Orders, Close(o) PROVE IInv'
  BY <1>6, ClosedInv
<1>7. CASE UNCHANGED vars
  <2>1. UNCHANGED <<order, plan, inputs, marker, planning, call, work>>
    BY <1>7 DEF vars
  <2>2. /\ UNCHANGED <<current, result, queued, found>>
        /\ (Live(found)' <=> Live(found)) /\ (Live(result)' <=> Live(result))
    BY <2>1, SameLive DEF planning
  <2>3. PromiseInv' /\ AcceptedIsPromise' /\ NumbersInv'
    BY <2>1, SameOrders, SamePromises
  <2>4. TypeOK'
    BY <2>1 DEF IInv, TypeOK, inputs, planning
  <2>5. RunInv' /\ FreshInv' /\ LockInv'
    BY <2>1, <2>2 DEF IInv, RunInv, IsRun, Minutes, FreshInv, Sound, LockInv
  <2> QED
    BY <2>3, <2>4, <2>5 DEF IInv
<1> QED
  BY <1>1, <1>2, <1>3, <1>4, <1>5, <1>6, <1>7 DEF Next

\* The invariant holds in every reachable state.
THEOREM Invariance == Spec => []IInv
BY InitInv, StepInv, PTL DEF Spec

-----------------------------------------------------------------------------
(* Make orders: only ReleaseMake creates one.                              *)

\* An order that is written was there before, or is imported.
LEMMA OnlyReleaseMakes ==
  ASSUME IInv, [Next]_vars, ~ReleaseMake, NEW o \in Orders
  PROVE  ~Makes(o)
<1>1. SUFFICES ASSUME Makes(o) PROVE FALSE
  OBVIOUS
<1>2. order[o] = None /\ order'[o] # None /\ order'[o].source = "MAKE"
  BY <1>1 DEF Makes, Exists
<1>3. order \in [Orders -> OrderRecords \cup {None}]
  BY DEF IInv, TypeOK
<1>4. ASSUME NEW p \in Orders, NEW q \in Quantities, NEW d \in Dates, Import(p, q, d)
      PROVE  FALSE
  <2>1. order'[o] = IF p = o THEN New("IMPORT", q, d) ELSE order[o]
    BY <1>2, <1>3, <1>4 DEF Import, Exists
  <2> QED
    BY <1>2, <2>1 DEF New
<1>5. ASSUME NEW p \in Orders, Exists(p), \A x \in Orders \ {p} : order'[x] = order[x]
      PROVE  FALSE
  BY <1>2, <1>5 DEF Exists
<1>6. ASSUME order' = order PROVE FALSE
  BY <1>2, <1>6
<1>7. CASE Planning
  BY <1>6, <1>7 DEF Planning, QueueRun, DropMarkers, ReadInputs, Promote, Retry, FailRun
<1>8. CASE Acting
  <2>1. CASE ReleaseWork
    <3>1. Exists(call.order) /\ call.order \in Orders
      BY <2>1 DEF ReleaseWork, IInv, TypeOK, Calls, Idle
    <3>2. \A x \in Orders \ {call.order} : order'[x] = order[x]
      BY <1>3, <2>1 DEF ReleaseWork
    <3> QED
      BY <1>5, <3>1, <3>2
  <2>2. ASSUME NEW p \in Orders, Complete(p) PROVE FALSE
    <3>1. Exists(p) /\ \A x \in Orders \ {p} : order'[x] = order[x]
      BY <1>3, <2>2 DEF Complete
    <3> QED
      BY <1>5, <3>1
  <2> QED
    BY <1>6, <1>8, <2>1, <2>2
    DEF Acting, Begin, ReadMarkers, ReadRuns, Refuse, LogStop, CloseStop
<1>9. CASE Deciding
  <2>1. ASSUME NEW p \in Orders, NEW d \in Dates, Confirm(p, d) PROVE FALSE
    <3>1. Exists(p) /\ \A x \in Orders \ {p} : order'[x] = order[x]
      BY <1>3, <2>1 DEF Confirm
    <3> QED
      BY <1>5, <3>1
  <2>2. ASSUME NEW p \in Orders, Cancel(p) PROVE FALSE
    <3>1. \A x \in Orders \ {p} : order'[x] = order[x]
      BY <1>3, <2>2 DEF Cancel
    <3>2. Exists(p)
      BY <2>2 DEF Cancel, IInv, PromiseInv, Pending
    <3> QED
      BY <1>5, <3>1, <3>2
  <2> QED
    BY <1>6, <1>9, <2>1, <2>2 DEF Deciding, Propose, Move, Ready
<1>10. CASE Expecting
  BY <1>6, <1>10 DEF Expecting, SaveScheme, DecideScheme
<1>11. ASSUME NEW p \in Orders, Close(p) PROVE FALSE
  <2>1. Exists(p) /\ \A x \in Orders \ {p} : order'[x] = order[x]
    BY <1>3, <1>11 DEF Close
  <2> QED
    BY <1>5, <2>1
<1>12. CASE UNCHANGED vars
  BY <1>6, <1>12 DEF vars
<1> QED
  BY <1>4, <1>7, <1>8, <1>9, <1>10, <1>11, <1>12 DEF Next

\* A make order is made for what a calculation of that moment would recommend,
\* whatever is calculated between the statements that read the status and the
\* one that reads the recommendation, in both methods and for any way to add up;
\* but for a file imported in between and a change that was forgotten.
THEOREM MadeForWhatIsLacking == Spec => MadeForLack
<1>1. ASSUME IInv, [Next]_vars
      PROVE  [\A o \in Orders : Makes(o) => order'[o].quantity = Recommended \/ Excused]_vars
  <2>1. SUFFICES ASSUME NEW o \in Orders, Makes(o), ~Excused
                 PROVE  order'[o].quantity = Recommended
    OBVIOUS
  <2>2. ReleaseMake
    BY <1>1, <2>1, OnlyReleaseMakes
  <2>3. PICK due \in Dates :
          order' = [order EXCEPT ![call.order] = New("MAKE", result.recommended, due)]
    BY <2>2 DEF ReleaseMake
  <2>4. o = call.order
    BY <1>1, <2>1, <2>3 DEF Makes, Exists, IInv, TypeOK
  <2>5. order'[o].quantity = result.recommended
    BY <1>1, <2>3, <2>4 DEF New, IInv, TypeOK
  <2>6. Sound(result)
    BY <1>1, <2>1, <2>2 DEF ReleaseMake, Excused, IInv, LockInv
  <2> QED
    BY <2>1, <2>5, <2>6 DEF Sound, Excused, Live
<1> QED
  BY <1>1, Invariance, PTL DEF Spec, MadeForLack

\* What is shown as up to date is what a calculation of the book, the stops, the
\* later dates and the schemes as they are now would find, but for a change that
\* was forgotten, for any buffer and any way to add up.
THEOREM UpToDateIsLive == Spec => []ShownIsLive
<1>1. IInv => ShownIsLive
  BY DEF IInv, FreshInv, Sound, ShownIsLive, UpToDate
<1> QED
  BY <1>1, Invariance, PTL

\* The date a customer accepted is the one the order is planned for, until an
\* import sets another.
THEOREM PromiseKept == Spec => []AcceptedIsPromise
<1>1. IInv => AcceptedIsPromise
  BY DEF IInv
<1> QED
  BY <1>1, Invariance, PTL

\* Two orders never share a release number, although each is the largest number
\* found plus one: the lock of the company covers reading and writing it
\* (releaseWork).
NumbersApart ==
  \A o, p \in Orders :
    Exists(o) /\ Exists(p) /\ order[o].release = order[p].release /\ order[o].release # 0 => o = p

THEOREM ReleaseNumbersApart == Spec => []NumbersApart
<1>1. IInv => NumbersApart
  BY DEF IInv, NumbersInv, NumbersApart
<1> QED
  BY <1>1, Invariance, PTL

=============================================================================
