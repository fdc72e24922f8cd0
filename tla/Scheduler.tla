----------------------------- MODULE Scheduler -----------------------------
(***************************************************************************)
(* The schedule of one plant (packages/engines/scheduler.mjs): the order   *)
(* of work is made from due dates, clubs of the same item and the          *)
(* decisions of a planner, and its operations are then placed one by one   *)
(* on machines, around the time they are stopped.                          *)
(*                                                                         *)
(* A unit is an order or a lot of one; lots share their order id.  Minutes *)
(* are plant minutes: work and changeovers are given as the minutes they   *)
(* take at the efficiency of the resource.  Days count from 1.  Every loop *)
(* of the source is a phase here and every iteration a step.               *)
(***************************************************************************)
EXTENDS Integers, Sequences, SequencesExt, FiniteSets, FiniteSetsExt

CONSTANTS Routes,     \* per item: its operations, [res, work] per piece
          Machines,   \* per resource: the number of its machines
          Changeover, \* per resource: minutes between two items
          DayMinutes, \* working minutes of a day
          Window,     \* clubWindowDays
          Cases,      \* what a run may read: [book, stops, manual, plan]
          LastStop,   \* no stop ends later
          MaxChecks,  \* trial passes of one grouping
          NewIds,     \* ids of rush orders, each quoted once (bound)
          LastDay,    \* bound: days on which they may finish
          NoItem      \* a machine that is not set up

Items == DOMAIN Routes
Resources == DOMAIN Machines
Lanes == UNION {{r} \X (1 .. Machines[r]) : r \in Resources}

\* rush: placed before the order `before` (0: at the end).  released: its
\* number among the releases, 0 when not released.  lotDay: 0 without lots.
\* hold: the day a planner releases it (0: none), in plan once it applies.
Unit == [id : Nat, oid : Nat, item : Items, qty : Nat \ {0}, due : Nat, prom : Nat,
         lot : Nat, lotDay : Nat, front : BOOLEAN, rush : BOOLEAN, before : Nat,
         alone : BOOLEAN, released : Nat, hold : Nat, plan : Nat, manual : BOOLEAN]

ASSUME SchedulerAssumption ==
    /\ NoItem \notin Items
    /\ \A item \in Items : Routes[item] \in Seq([res : Resources, work : Nat \ {0}])
    /\ Machines \in [Resources -> Nat \ {0}] /\ Changeover \in [Resources -> Nat]
    /\ DayMinutes \in Nat \ {0} /\ Window \in Nat /\ LastStop \in Nat /\ MaxChecks \in Nat /\ NewIds \subseteq Nat /\ LastDay \in Nat
    /\ \A c \in Cases :
          /\ IsFiniteSet(c.book) /\ \A u \in c.book : u \in Unit
          /\ \A u, v \in c.book : u.id = v.id => u = v
          /\ c.manual \in Seq(Nat)
          /\ \A x \in c.stops : x \in [machine : Lanes, from : Nat, to : 0 .. LastStop]
          /\ c.plan \in Seq([ids : Seq(Nat), day : Nat, before : Nat])

VARIABLES stops,    \* downtime intervals, [machine, from, to]
          manual,   \* the planner's order of work, order ids; <<>>: none
          plan,     \* the planner's groups, [ids, day, before]
          book,     \* open units
          head,     \* released units
          phase,
          seq,      \* the order of work of the other units
          todo,     \* units a phase has still to place in seq, by due date
          group,    \* the next of the planner's groups
          cohorts,  \* clubs the grouping is limited to; {}: no limit
          own,      \* the units of the book, while the clubs without the rest are made
          at,       \* grouping: anchor, end of its club, candidate
          clubs, checks,
          start,    \* history: the order of work before clubs were made
          queue,    \* units that are to be placed
          op,       \* the operation of the first of them
          pass      \* machines and the operations placed on them

inputs == <<stops, manual, plan, book>>
grouping == <<cohorts, own, at, clubs, checks, start>>
placing == <<queue, op, pass>>
schedule == <<inputs, grouping, placing, head, phase, seq, todo, group>>

Larger(a, b) == IF a > b THEN a ELSE b
Ids(s) == {s[i].id : i \in DOMAIN s}

-----------------------------------------------------------------------------
(* Placing operations: allocate and forwardPass.                           *)

EmptyPass ==
    [load |-> [m \in Lanes |-> 0],         \* work and changeovers given to a machine
     last |-> [m \in Lanes |-> NoItem],    \* what it is set up for
     free |-> [m \in Lanes |-> 0],         \* minute it is next free
     previous |-> [r \in Resources |-> [oid |-> 0, item |-> NoItem, machine |-> 1]],
     ready |-> 0,                          \* minute the last operation finished
     blocks |-> {}]

ChangeoverTo(p, m, item) == IF p.last[m] \in {NoItem, item} THEN 0 ELSE Changeover[m[1]]

\* The machine that would be free first, counting the changeover; consecutive
\* orders of an item stay on one machine.
MachineFor(p, u, r) ==
    LET cost(k) == p.load[<<r, k>>] + ChangeoverTo(p, <<r, k>>, u.item)
        before == p.previous[r]
    IN  IF before.item = u.item /\ before.oid # u.oid THEN before.machine
        ELSE CHOOSE k \in 1 .. Machines[r] :
               /\ \A j \in 1 .. Machines[r] : cost(k) <= cost(j)
               /\ \A j \in 1 .. k - 1 : cost(k) < cost(j)

\* A lot is not made before its day, unless it goes to the front or was placed
\* by hand; nor anything before the day the planner releases it.
ReleaseMinute(u) ==
    Larger(IF u.plan > 0 THEN (u.plan - 1) * DayMinutes ELSE 0,
           IF ~u.front /\ ~u.manual /\ u.lotDay > 0 THEN (u.lotDay - 1) * DayMinutes ELSE 0)

Runs(m, from, run) == \A s \in stops : s.machine = m => ~(from < s.to /\ s.from < from + run)

\* Mutant: looks only at the stop the work would begin in.
AfterDowntimeBegun(m, from, run) ==
    CHOOSE t \in from .. from + LastStop :
       /\ \A s \in stops : s.machine = m => ~(t < s.to /\ s.from <= t)
       /\ \A t2 \in from .. t - 1 : \E s \in stops : s.machine = m /\ t2 < s.to /\ s.from <= t2

\* The first minute from which the machine runs long enough without a stop.
AfterDowntime(m, from, run) ==
    CHOOSE t \in from .. from + LastStop :
       Runs(m, t, run) /\ \A t2 \in from .. t - 1 : ~Runs(m, t2, run)

\* Mutant: the machine is changed over while it still runs.
EarliestOverlapping(p, u, n, m) ==
    Larger(Larger(IF n = 1 THEN 0 ELSE p.ready, p.free[m]), ReleaseMinute(u))

\* The operation before has finished, the machine is free and changed over.
Earliest(p, u, n, m) ==
    Larger(Larger(IF n = 1 THEN 0 ELSE p.ready, p.free[m] + ChangeoverTo(p, m, u.item)),
           ReleaseMinute(u))

Place(p, u, n) ==
    LET task == Routes[u.item][n]
        m == <<task.res, MachineFor(p, u, task.res)>>
        run == u.qty * task.work
        change == ChangeoverTo(p, m, u.item)
        from == AfterDowntime(m, Earliest(p, u, n, m), run)
    IN  [load |-> [p.load EXCEPT ![m] = @ + change + run],
         last |-> [p.last EXCEPT ![m] = u.item],
         free |-> [p.free EXCEPT ![m] = from + run],
         previous |-> [p.previous EXCEPT ![task.res] = [oid |-> u.oid, item |-> u.item, machine |-> m[2]]],
         ready |-> from + run,
         blocks |-> p.blocks \cup {[unit |-> u, n |-> n, machine |-> m,
                                    start |-> from, finish |-> from + run]}]

\* The operations of a unit, one after the other.
Placings(p, u) ==
    LET placed[n \in 0 .. Len(Routes[u.item])] == IF n = 0 THEN p ELSE Place(placed[n - 1], u, n)
    IN  placed

PlaceUnit(p, u) == Placings(p, u)[Len(Routes[u.item])]

\* forwardPass of a whole order of work, as the trials of the grouping run it:
\* the machines after each of its units.
Passes(units) ==
    LET placed[i \in 0 .. Len(units)] == IF i = 0 THEN EmptyPass ELSE PlaceUnit(placed[i - 1], units[i])
    IN  placed

ForwardPass(units) == Passes(units)[Len(units)]

\* The day a unit ships: the end of its last operation.
ShipDay(p, id) ==
    LET finish == CHOOSE f \in {b.finish : b \in {x \in p.blocks : x.unit.id = id}} :
                    \A b \in p.blocks : b.unit.id = id => b.finish <= f
    IN  Larger(1, (finish + DayMinutes - 1) \div DayMinutes)

\* Mutant: released work is appended.
WithReleasedLast(units) == units \o head

\* Released work runs first, and is never sequenced again.
WithReleased(units) == head \o units

\* No unit is late that was not, or later than it was.
HurtsNobody(before, after, units) ==
    \A i \in DOMAIN units :
       LET day == ShipDay(after, units[i].id)
       IN  day > units[i].prom => day <= ShipDay(before, units[i].id)

-----------------------------------------------------------------------------
(* The order of work.                                                      *)

ByDue(u, v) == u.due < v.due \/ (u.due = v.due /\ u.id < v.id)
ByRelease(u, v) == u.released < v.released \/ (u.released = v.released /\ u.id < v.id)

\* The planner's lists name orders: their lots follow one another.
In(ids, u) == \E i \in DOMAIN ids : ids[i] = u.oid
InOrderOf(ids, u, v) ==
    LET pos(w) == CHOOSE i \in DOMAIN ids : ids[i] = w.oid
    IN  pos(u) < pos(v) \/ (u.oid = v.oid /\ u.lot < v.lot)

Sorted(S, lt(_, _)) ==
    {s \in [1 .. Cardinality(S) -> S] : \A i, j \in 1 .. Cardinality(S) : i < j => lt(s[i], s[j])}

\* Something is put before the first of some elements of s, at the end without one.
CutBefore(s, hits) == IF hits = {} THEN Len(s) + 1 ELSE Min(hits)
Put(s, i, t) == SubSeq(s, 1, i - 1) \o t \o SubSeq(s, i, Len(s))

\* A unit the planner gave a place; one that is held to a day.
ByHand(u) == [u EXCEPT !.manual = TRUE]
HeldTo(u, day) == [u EXCEPT !.plan = day]

Routed == {u \in book : Routes[u.item] # <<>>}
Running == {u \in Routed : u.released > 0}

InitSchedule ==
    /\ \E c \in Cases : stops = c.stops /\ manual = c.manual /\ plan = c.plan /\ book = c.book
    /\ phase = "sequence" /\ seq = <<>> /\ todo = <<>> /\ head = <<>> /\ group = 1
    /\ cohorts = {} /\ own = <<>> /\ at = <<1, 2, 2>> /\ clubs = {} /\ checks = 0 /\ start = <<>>
    /\ queue = <<>> /\ op = 1 /\ pass = EmptyPass

\* The planner's order of work, or due dates; with rush or inserted units the
\* clubs the book would have without them are made first.
BeginSequence ==
    /\ phase = "sequence"
    /\ head' \in Sorted(Running, ByRelease)
    /\ LET rest == Routed \ Running
           listed == {u \in rest : In(manual, u)}
           mine == {u \in rest : ~u.alone /\ ~u.rush}
       IN  \/ /\ manual # <<>>
              /\ \E s \in Sorted(listed, LAMBDA u, v : InOrderOf(manual, u, v)) :
                    seq' = [i \in DOMAIN s |-> ByHand(s[i])]
              /\ todo' \in Sorted(rest \ listed, ByDue)
              /\ own' = <<>> /\ start' = <<>> /\ phase' = "insert"
           \/ /\ manual = <<>> /\ mine # rest
              /\ seq' \in Sorted(mine, ByDue) /\ start' = seq' /\ own' \in Sorted(rest, ByDue)
              /\ todo' = <<>> /\ phase' = "land"
           \/ /\ manual = <<>> /\ mine = rest
              /\ seq' \in Sorted(rest, ByDue) /\ start' = seq' /\ own' = <<>>
              /\ todo' = <<>> /\ phase' = "pull"
    /\ cohorts' = {} /\ at' = <<1, 2, 2>> /\ clubs' = {} /\ checks' = 0
    /\ group' = 1 /\ queue' = <<>> /\ op' = 1 /\ pass' = EmptyPass
    /\ UNCHANGED inputs

\* manualSequence: the next unit that is not listed.
Insert ==
    /\ phase = "insert"
    /\ IF todo = <<>> THEN phase' = "decide" /\ UNCHANGED <<seq, todo>>
       ELSE /\ LET later == {i \in DOMAIN seq : seq[i].manual /\ seq[i].due > Head(todo).due}
               IN  seq' = Put(seq, CutBefore(seq, later), <<Head(todo)>>)
            /\ todo' = Tail(todo) /\ UNCHANGED phase
    /\ UNCHANGED <<inputs, grouping, placing, head, group>>

\* A rush unit goes before the order it was quoted against.
Rush ==
    /\ phase = "rush"
    /\ IF todo = <<>> THEN phase' = "pull" /\ start' = seq /\ UNCHANGED <<seq, todo>>
       ELSE LET u == Head(todo)
            IN  /\ \E k \in DOMAIN seq :
                      /\ seq[k].id = u.id
                      /\ LET rest == RemoveAt(seq, k)
                             anchor == {i \in DOMAIN rest : u.before # 0 /\ rest[i].oid = u.before}
                         IN  seq' = Put(rest, CutBefore(rest, anchor), <<u>>)
                /\ todo' = Tail(todo) /\ UNCHANGED <<phase, start>>
    /\ UNCHANGED <<inputs, placing, head, group, cohorts, own, at, clubs, checks>>

\* Candidate j may join the club of anchor i.
MayJoin(i, j) ==
    /\ seq[i].item = seq[j].item /\ seq[i].oid # seq[j].oid
    /\ ~seq[j].rush /\ ~seq[j].alone
    /\ own # <<>> /\ phase = "pull" =>
          \E c \in cohorts : seq[i].id \in c /\ seq[j].id \in c
    /\ seq[j].due - seq[i].due \in -Window .. Window

Moved(s, j, end) == SubSeq(s, 1, end - 1) \o <<s[j]>> \o SubSeq(s, end, j - 1) \o SubSeq(s, j + 1, Len(s))

\* Mutant: only the order that is pulled is compared.
PullIsSafeForItself(j, end) ==
    HurtsNobody(ForwardPass(WithReleased(seq)), ForwardPass(WithReleased(Moved(seq, j, end))), <<seq[j]>>)

PullIsSafe(j, end) ==
    HurtsNobody(ForwardPass(WithReleased(seq)), ForwardPass(WithReleased(Moved(seq, j, end))), head \o seq)

\* One candidate of the grouping; at = <<anchor, end of its club, candidate>>.
Pull ==
    /\ phase \in {"land", "pull"} /\ Window > 0 /\ at[1] <= Len(seq)
    /\ LET i == at[1]
           end == at[2]
           j == at[3]
       IN  \/ /\ seq[i].rush \/ seq[i].alone
              /\ at' = <<i + 1, i + 2, i + 2>> /\ UNCHANGED <<seq, clubs, checks>>
           \/ /\ ~seq[i].rush /\ ~seq[i].alone /\ j > Len(seq)
              /\ clubs' = IF end - i > 1 THEN clubs \cup {{seq[k].id : k \in i .. end - 1}} ELSE clubs
              /\ at' = <<end, end + 1, end + 1>> /\ UNCHANGED <<seq, checks>>
           \/ /\ ~seq[i].rush /\ ~seq[i].alone /\ j <= Len(seq)
              /\ IF MayJoin(i, j) /\ j = end
                 THEN at' = <<i, end + 1, j + 1>> /\ UNCHANGED <<seq, checks>>
                 ELSE IF ~MayJoin(i, j) \/ checks >= MaxChecks
                 THEN at' = <<i, end, j + 1>> /\ UNCHANGED <<seq, checks>>
                 ELSE /\ checks' = checks + 1
                      /\ IF PullIsSafe(j, end)
                         THEN seq' = Moved(seq, j, end) /\ at' = <<i, end + 1, j + 1>>
                         ELSE at' = <<i, end, j + 1>> /\ UNCHANGED seq
              /\ UNCHANGED clubs
    /\ UNCHANGED <<inputs, placing, head, phase, todo, group, cohorts, own, start>>

\* The clubs of the book without its rush and inserted units are known.
Landed ==
    /\ phase = "land" /\ (Window = 0 \/ at[1] > Len(seq))
    /\ cohorts' = clubs /\ clubs' = {} /\ at' = <<1, 2, 2>> /\ checks' = 0
    /\ seq' = own /\ phase' = "rush"
    /\ todo' \in Sorted({u \in {own[i] : i \in DOMAIN own} : u.rush}, ByDue)
    /\ UNCHANGED <<inputs, placing, head, group, own, start>>

Grouped ==
    /\ phase = "pull" /\ (Window = 0 \/ at[1] > Len(seq))
    /\ phase' = "decide"
    /\ UNCHANGED <<inputs, grouping, placing, head, seq, todo, group>>

\* The planner's release days hold on top of either order of work.
Release ==
    /\ phase = "decide"
    /\ seq' = [i \in DOMAIN seq |-> HeldTo(seq[i], seq[i].hold)]
    /\ phase' = "groups"
    /\ UNCHANGED <<inputs, grouping, placing, head, todo, group>>

\* placeGroup: the places of a group's members in the order of work, as the
\* planner listed them, and of the other units; the day it holds a member to.
Among(s, ids) == {k \in DOMAIN s : In(ids, s[k])}
Members(s, ids) == Sorted(Among(s, ids), LAMBDA k, l : InOrderOf(ids, s[k], s[l]))
Others(s, ids) == Sorted(DOMAIN s \ Among(s, ids), LAMBDA k, l : k < l)
DayOf(g, u) == Larger(Larger(Larger(g.day, 1), u.plan), IF u.front THEN 1 ELSE u.lotDay)

\* The members of the planner's next group run together, not before its day.
\* What was released has left the sequence.
Group ==
    /\ phase = "groups" /\ group <= Len(plan)
    /\ LET g == plan[group]
       IN  \E ks \in Members(seq, g.ids), ls \in Others(seq, g.ids) :
              LET members == [k \in DOMAIN ks |-> HeldTo(seq[ks[k]], DayOf(g, seq[ks[k]]))]
                  rest == [k \in DOMAIN ls |-> seq[ls[k]]]
                  anchor == {k \in DOMAIN rest : g.before # 0 /\ rest[k].oid = g.before}
              IN  seq' = Put(rest, CutBefore(rest, anchor), members)
    /\ group' = group + 1
    /\ UNCHANGED <<inputs, grouping, placing, head, phase, todo>>

Sequenced ==
    /\ phase = "groups" /\ group > Len(plan)
    /\ queue' = WithReleased(seq) /\ phase' = "place"
    /\ UNCHANGED <<inputs, grouping, head, seq, todo, group, op, pass>>

\* The next operation is placed.
PlaceNext ==
    /\ phase = "place" /\ queue # <<>>
    /\ pass' = Place(pass, Head(queue), op)
    /\ IF op < Len(Routes[Head(queue).item]) THEN op' = op + 1 /\ UNCHANGED queue
       ELSE op' = 1 /\ queue' = Tail(queue)
    /\ UNCHANGED <<inputs, grouping, head, phase, seq, todo, group>>

\* rushInsert and its commit: the new order is tried at every position of the
\* current order of work; its finish there is the promise.
Tried(u, i) == Put(WithReleased(seq), i, <<u>>)
Promise(u, i) == ShipDay(ForwardPass(Tried(u, i)), u.id)

Quote(item, new) ==
    /\ phase = "place" /\ queue = <<>>
    /\ \A u \in book : new \notin {u.id, u.oid}
    /\ LET now == WithReleased(seq)
           u == [id |-> new, oid |-> new, item |-> item, qty |-> 1, due |-> 1, prom |-> 1, lot |-> 1,
                 lotDay |-> 1, front |-> FALSE, rush |-> TRUE, before |-> 0, alone |-> TRUE,
                 released |-> 0, hold |-> 0, plan |-> 0, manual |-> FALSE]
           places == {i \in 1 .. Len(now) + 1 : i \in 2 .. Len(now) => now[i - 1].oid # now[i].oid}
           safe == {i \in places : HurtsNobody(pass, ForwardPass(Tried(u, i)), now)}
           pool == IF safe = {} THEN places ELSE safe
       IN  \E i \in pool, day \in 1 .. LastDay :
              /\ day = Promise(u, i) /\ \A j \in pool : day <= Promise(u, j)
              /\ book' = book \cup {[u EXCEPT !.prom = day,
                                           !.before = IF i > Len(now) THEN 0 ELSE now[i].oid]}
    /\ phase' = "sequence"
    /\ UNCHANGED <<stops, manual, plan, grouping, placing, head, seq, todo, group>>

NextSchedule == BeginSequence \/ Insert \/ Rush \/ Pull \/ Landed \/ Grouped \/ Release \/ Group \/ Sequenced \/ PlaceNext
            \/ \E item \in Items, new \in NewIds : Quote(item, new)

SpecSchedule == InitSchedule /\ [][NextSchedule]_schedule

-----------------------------------------------------------------------------
(* Properties.                                                             *)

\* Two operations never share a machine, and between items that differ the
\* machine is changed over in full, whatever other item ran in between.
MachineSerial ==
    \A b, c \in pass.blocks :
       b.machine = c.machine /\ b # c =>
          LET gap == IF b.unit.item = c.unit.item THEN 0 ELSE Changeover[b.machine[1]]
          IN  b.finish + gap <= c.start \/ c.finish + gap <= b.start

\* An operation begins when the one before it has finished and not before its
\* day, and its machine is not stopped while it runs.
WorkInTime ==
    /\ \A b, c \in pass.blocks : b.unit.id = c.unit.id /\ b.n < c.n => b.finish <= c.start
    /\ \A b \in pass.blocks :
          Runs(b.machine, b.start, b.finish - b.start) /\ b.start >= ReleaseMinute(b.unit)

\* Clubs never make an order late that was in time, or later than it was
\* without any club, however many pulls were accepted after one another.
PullsHurtNobody ==
    phase \in {"land", "pull"} =>
       HurtsNobody(ForwardPass(head \o start), ForwardPass(head \o seq), head \o seq)

\* Released work keeps the times it has without the rest of the book, whatever
\* is clubbed, rushed, grouped or ordered by hand around it.
ReleasedKeepsTimes ==
    phase = "place" =>
       \A b \in pass.blocks : b.unit.released > 0 => b \in ForwardPass(head).blocks

=============================================================================
