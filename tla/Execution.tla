----------------------------- MODULE Execution -----------------------------
(***************************************************************************)
(* Production orders of one plant from the recommendation to the end: make *)
(* orders, the two events of execution, a later date, stops, a demand      *)
(* scheme, imports and closing, against the calculations that read them.   *)
(*                                                                         *)
(* Requests of people hold the lock of the company (mutate); the import    *)
(* worker and the planning worker do not.  The requests of execution ask   *)
(* for the planning status without the lock of planning_state, so their    *)
(* statements are steps of their own; the decisions on a later date hold   *)
(* that lock and are one step.  The minutes of an order stand for its      *)
(* quantity, the schedule for the book it was made of.  All orders are of  *)
(* one item that the plant makes; its stock and its other demand stay as   *)
(* they are, and order multiples are left to Buffers.  Which later dates   *)
(* are offered, rights, versions of rows and texts are left out; so are    *)
(* events and seasons, which add to demand without a decision, and two     *)
(* runs at a time (PlanningQueue).                                         *)
(***************************************************************************)
EXTENDS Integers, FiniteSets, FiniteSetsExt

CONSTANTS Orders,    \* numbers of production orders
          Quantities,
          Dates,
          Stops,     \* downtime events
          Weekly,    \* the method of the item's buffer profile is WEEKLY
          Room,      \* the top of green less the stock on hand
          Demand,    \* the qualified demand but for the scheme and orders that wait
          Green,     \* the green zone: less than it is not worth an order
          Extra,     \* volumes of the scheme
          MaxRuns,   \* bound: calculations
          MaxWork,   \* bound: requests and imports
          None

\* A production order, and whether a file wrote it since its promise was made.
OrderRecords ==
    [source: {"MAKE", "IMPORT"}, quantity: Nat \ {0}, due: Dates, status: {"OPEN", "CLOSED"},
     state: {"planned", "released", "completed"}, release: Nat, minutes: Nat,
     imported: BOOLEAN]

ASSUME ExecutionAssumption ==
    /\ Quantities \subseteq Nat \ {0} /\ Dates \subseteq Nat \ {0}
    /\ Weekly \in BOOLEAN /\ Room \in Int /\ Demand \in Nat /\ Green \in Nat
    /\ Extra \subseteq Nat \ {0} /\ MaxRuns \in Nat /\ MaxWork \in Nat
    /\ None \notin OrderRecords

VARIABLES order,   \* production_orders: None or a record
          plan,    \* order_plans, and its default
          stops,   \* per stop: "none", "open" or "closed"
          scheme,  \* a demand scheme: its state and its volume, 0 before it exists
          marker,  \* planning_input_events: no row, rows that a queued run already
                   \* stands for by their version, or a newer one
          current, \* planning_state.current_run_id, 0 for none
          result,  \* what the current run found
          queued,  \* the run that waits or reads, 0 for none
          found,   \* what the queued run has found, None before it reads
          call,    \* the request of execution that is being handled, and whether a
                   \* file was imported since it saw no marker (history)
          work     \* counts towards MaxWork

planning == <<current, result, queued, found>>
inputs == <<stops, scheme>>
vars == <<order, plan, inputs, marker, planning, call, work>>

Idle == [pc |-> "idle"]
NoPlan == [state |-> "scheduled", original |-> 0, proposed |-> 0, accepted |-> 0]
Pending == {"awaiting_confirmation", "ready_to_reschedule"}

Exists(o) == order[o] # None

Init ==
    /\ order = [o \in Orders |-> None]
    /\ plan = [o \in Orders |-> NoPlan]
    /\ stops = [s \in Stops |-> "none"]
    /\ scheme = [state |-> "proposed", units |-> 0]
    /\ marker = "new"
    /\ current = 0 /\ result = None
    /\ queued = 0 /\ found = None
    /\ call = Idle
    /\ work = 0

Work == work < MaxWork /\ work' = work + 1
Free == call = Idle   \* the lock of the company

\* A change takes its version when it is written and is seen when it commits,
\* which may be after a queued run came to stand for a higher version.
Mark == marker' \in IF marker = "new" \/ queued = 0 THEN {"new"} ELSE {"old", "new"}

\* planningStatus, as one read.
UpToDate == current # 0 /\ queued = 0 /\ marker = "none"

-----------------------------------------------------------------------------
(* The calculation.                                                        *)

\* Open and not waiting for a customer's date (NOT_PENDING).
InBook(o) == Exists(o) /\ order[o].status = "OPEN" /\ plan[o].state \notin Pending

\* The schedule: minutes of every order of the book.
Quantity(S) == [o \in S |-> order[o].quantity]
Schedule == Quantity({o \in Orders : InBook(o)})

Total(f) == MapThenSumSet(LAMBDA o : f[o], DOMAIN f)

\* Mutant: what was released from a recommendation is not counted.
SupplyImportsOnly ==
    IF Weekly THEN 0
    ELSE Total(Quantity({o \in Orders : InBook(o) /\ order[o].source = "IMPORT"}))

\* Open orders of the book are supply of their item, but not in the WEEKLY
\* method, where they only reduce what its components are needed for.
Supply == IF Weekly THEN 0 ELSE Total(Schedule)

\* Imported orders that wait for a date leave the demand.
Waiting ==
    Quantity({o \in Orders : /\ Exists(o) /\ order[o].status = "OPEN"
                             /\ order[o].source = "IMPORT" /\ plan[o].state \in Pending})

Qualified ==
    LET planned == Demand + (IF scheme.state = "accepted" THEN scheme.units ELSE 0)
    IN  IF planned > Total(Waiting) THEN planned - Total(Waiting) ELSE 0

\* Above the top of yellow nothing, otherwise up to the top of green.
Recommended ==
    LET lack == Room + Qualified - Supply
    IN  IF lack >= Green /\ lack > 0 THEN lack ELSE 0

OpenStops == {s \in Stops : stops[s] = "open"}

\* A run found what it would find now.
Live(x) == x.schedule = Schedule /\ x.recommended = Recommended /\ x.stops = OpenStops

\* queueRun, by the timer or a person: the markers go; a run that waits stands
\* for the changes too, and one that has read is waited for.
QueueRun ==
    /\ queued = 0 \/ found = None
    /\ queued' = IF queued = 0 THEN current + 1 ELSE queued
    /\ queued' <= MaxRuns
    /\ marker' = "none"
    /\ UNCHANGED <<order, plan, inputs, current, result, found, call, work>>

\* queueRun, while the run that waits has read: it stands for a higher version
\* than all the markers, so it is not waited for, and what it did not read is
\* forgotten.
DropMarkers ==
    /\ found # None /\ marker = "old"
    /\ marker' = "none"
    /\ found' = [found EXCEPT !.behind = ~ Live(found)]
    /\ UNCHANGED <<order, plan, inputs, current, result, queued, call, work>>

\* behind: a change that is not in it was forgotten (history).
ReadInputs ==
    /\ queued # 0 /\ found = None
    /\ found' = [schedule |-> Schedule, recommended |-> Recommended,
                 stops |-> OpenStops, behind |-> FALSE]
    /\ UNCHANGED <<order, plan, inputs, marker, current, result, queued, call, work>>

Promote ==
    /\ found # None
    /\ current' = queued /\ result' = found
    /\ queued' = 0 /\ found' = None
    /\ UNCHANGED <<order, plan, inputs, marker, call, work>>

\* An attempt is rolled back, and another follows.
Retry ==
    /\ found # None
    /\ found' = None
    /\ UNCHANGED <<order, plan, inputs, marker, current, result, queued, call, work>>

\* failRun: the attempts are used up, and the markers the run consumed are gone.
\* The next run takes its number, which nothing refers to.
FailRun ==
    /\ queued # 0 /\ found = None
    /\ queued' = 0
    /\ result' = IF current = 0 THEN result ELSE [result EXCEPT !.behind = ~ Live(result)]
    /\ UNCHANGED <<order, plan, inputs, marker, current, found, call, work>>

-----------------------------------------------------------------------------
(* Orders that arrive and end without execution.                           *)

New(source, quantity, due) ==
    [source |-> source, quantity |-> quantity, due |-> due, status |-> "OPEN",
     state |-> "planned", release |-> 0, minutes |-> 0, imported |-> FALSE]

\* writeProductionOrders, in the worker: an order of the file is open again.
Import(o, quantity, due) ==
    /\ Work
    /\ order' = [order EXCEPT ![o] =
                   IF Exists(o)
                   THEN [@ EXCEPT !.quantity = quantity, !.due = due, !.status = "OPEN",
                                  !.imported = TRUE]
                   ELSE New("IMPORT", quantity, due)]
    /\ Mark
    /\ call' = IF call.pc \in {"runs", "act"} THEN [call EXCEPT !.raced = TRUE] ELSE call
    /\ UNCHANGED <<plan, inputs, planning>>

\* closeProduction
Close(o) ==
    /\ Free /\ Work /\ Exists(o) /\ order[o].status = "OPEN"
    /\ order' = [order EXCEPT ![o].status = "CLOSED"]
    /\ Mark
    /\ UNCHANGED <<plan, inputs, planning, call>>

-----------------------------------------------------------------------------
(* Requests of execution.                                                  *)

\* The lock of the company is taken and planning_state read.  The person
\* looked at run r, which may be an old one.
Begin(kind, o, r) ==
    /\ Free /\ Work
    /\ r \in 1 .. current
    /\ call' = [pc |-> "markers", kind |-> kind, order |-> o, run |-> r, current |-> current,
                raced |-> FALSE]
    /\ UNCHANGED <<order, plan, inputs, marker, planning>>

ReadMarkers ==
    /\ call.pc = "markers"
    /\ call' = IF marker # "none" THEN Idle ELSE [call EXCEPT !.pc = "runs"]
    /\ UNCHANGED <<order, plan, inputs, marker, planning, work>>

\* Mutant: a run that waits does not count.
ReadRunsNotQueued ==
    /\ call.pc = "runs"
    /\ call' = IF call.run # call.current THEN Idle ELSE [call EXCEPT !.pc = "act"]
    /\ UNCHANGED <<order, plan, inputs, marker, planning, work>>

ReadRuns ==
    /\ call.pc = "runs"
    /\ call' = IF queued # 0 \/ call.run # call.current THEN Idle
               ELSE [call EXCEPT !.pc = "act"]
    /\ UNCHANGED <<order, plan, inputs, marker, planning, work>>

\* releaseMake: the recommendation of the current run becomes an order.
ReleaseMake ==
    /\ call.pc = "act" /\ call.kind = "make" /\ result.recommended \in Nat \ {0}
    /\ ~ Exists(call.order)
    /\ \E due \in Dates :
         order' = [order EXCEPT ![call.order] = New("MAKE", result.recommended, due)]
    /\ call' = Idle /\ Mark
    /\ UNCHANGED <<plan, inputs, planning, work>>

Numbers == {order[o].release : o \in {p \in Orders : Exists(p)}} \cup {0}

\* releaseWork: the minutes of the current schedule are frozen.
ReleaseWork ==
    LET o == call.order
    IN  /\ call.pc = "act" /\ call.kind = "work" /\ Exists(o)
        /\ order[o].state = "planned" /\ order[o].status = "OPEN"
        /\ o \in DOMAIN result.schedule
        /\ order' = [order EXCEPT ![o].state = "released", ![o].release = Max(Numbers) + 1,
                                  ![o].minutes = result.schedule[o]]
        /\ call' = Idle /\ Mark
        /\ UNCHANGED <<plan, inputs, planning, work>>

\* Nothing to release.
Refuse ==
    /\ call.pc = "act"
    /\ call' = Idle
    /\ UNCHANGED <<order, plan, inputs, marker, planning, work>>

\* completeWork
Complete(o) ==
    /\ Free /\ Work /\ Exists(o) /\ order[o].state = "released"
    /\ order' = [order EXCEPT ![o].state = "completed", ![o].status = "CLOSED"]
    /\ Mark
    /\ UNCHANGED <<plan, inputs, planning, call>>

\* logStop and closeStop.  Logging records the current run in a decision and
\* so needs one that is up to date.
LogStop(s) ==
    /\ Free /\ Work /\ stops[s] = "none" /\ UpToDate
    /\ stops' = [stops EXCEPT ![s] = "open"]
    /\ Mark
    /\ UNCHANGED <<order, plan, scheme, planning, call>>

\* Mutant: closing a stop is no change of the planning inputs.
CloseStopUnmarked(s) ==
    /\ Free /\ Work /\ stops[s] = "open"
    /\ stops' = [stops EXCEPT ![s] = "closed"]
    /\ UNCHANGED <<order, plan, scheme, marker, planning, call>>

CloseStop(s) ==
    /\ Free /\ Work /\ stops[s] = "open"
    /\ stops' = [stops EXCEPT ![s] = "closed"]
    /\ Mark
    /\ UNCHANGED <<order, plan, scheme, planning, call>>

-----------------------------------------------------------------------------
(* A demand scheme (planning tools).                                       *)

\* A scheme that was decided on keeps its state when it is saved again.
SaveScheme(units) ==
    /\ Free /\ Work
    /\ scheme' = [scheme EXCEPT !.units = units]
    /\ Mark
    /\ UNCHANGED <<order, plan, stops, planning, call>>

\* An accepted volume is demand; whoever decides has seen it as it is.
DecideScheme(state) ==
    /\ Free /\ Work /\ scheme.units # 0
    /\ scheme' = [scheme EXCEPT !.state = state]
    /\ Mark
    /\ UNCHANGED <<order, plan, stops, planning, call>>

-----------------------------------------------------------------------------
(* A later date: applyLater and the orders that wait for one.              *)

Original(o) == IF plan[o].original # 0 THEN plan[o].original ELSE order[o].due

Decide == Free /\ Work /\ UpToDate

\* The order leaves the book until the customer agrees.
Propose(o, promise) ==
    /\ Decide /\ Exists(o) /\ order[o].status = "OPEN"
    /\ plan' = [plan EXCEPT ![o] = [@ EXCEPT !.state = "awaiting_confirmation",
                                             !.original = Original(o), !.proposed = promise]]
    /\ Mark
    /\ UNCHANGED <<order, inputs, planning, call>>

\* Mutant: the promise of an order that was pending is not changed.
ConfirmPendingKept(o, promise) ==
    /\ Decide /\ Exists(o) /\ order[o].status = "OPEN"
    /\ plan' = [plan EXCEPT ![o] = [state |-> "scheduled", original |-> Original(o),
                                    proposed |-> promise, accepted |-> promise]]
    /\ order' = [order EXCEPT ![o].due = IF InBook(o) THEN promise ELSE @,
                              ![o].imported = FALSE]
    /\ Mark
    /\ UNCHANGED <<inputs, planning, call>>

\* The date is the promise from now on.
Confirm(o, promise) ==
    /\ Decide /\ Exists(o) /\ order[o].status = "OPEN"
    /\ plan' = [plan EXCEPT ![o] = [state |-> "scheduled", original |-> Original(o),
                                    proposed |-> promise, accepted |-> promise]]
    /\ order' = [order EXCEPT ![o].due = promise, ![o].imported = FALSE]
    /\ Mark
    /\ UNCHANGED <<inputs, planning, call>>

\* The order moves down the queue, its promise stays.
Move(o, promise) ==
    /\ Decide /\ InBook(o)
    /\ plan' = [plan EXCEPT ![o] = [@ EXCEPT !.state = "scheduled",
                                             !.original = Original(o), !.proposed = promise]]
    /\ Mark
    /\ UNCHANGED <<order, inputs, planning, call>>

\* pendingAction
Ready(o) ==
    /\ Free /\ Work /\ plan[o].state = "awaiting_confirmation"
    /\ plan' = [plan EXCEPT ![o].state = "ready_to_reschedule"]
    /\ Mark
    /\ UNCHANGED <<order, inputs, planning, call>>

Cancel(o) ==
    /\ Free /\ Work /\ plan[o].state \in Pending
    /\ plan' = [plan EXCEPT ![o].state = "cancelled"]
    /\ order' = [order EXCEPT ![o].status = "CLOSED"]
    /\ Mark
    /\ UNCHANGED <<inputs, planning, call>>

-----------------------------------------------------------------------------
Planning == QueueRun \/ DropMarkers \/ ReadInputs \/ Promote \/ Retry \/ FailRun

Acting ==
    \/ \E o \in Orders, r \in 1 .. MaxRuns, kind \in {"make", "work"} : Begin(kind, o, r)
    \/ ReadMarkers \/ ReadRuns \/ ReleaseMake \/ ReleaseWork \/ Refuse
    \/ \E o \in Orders : Complete(o)
    \/ \E s \in Stops : LogStop(s) \/ CloseStop(s)

Deciding ==
    \/ \E o \in Orders, d \in Dates : Propose(o, d) \/ Confirm(o, d) \/ Move(o, d)
    \/ \E o \in Orders : Ready(o) \/ Cancel(o)

Expecting ==
    \/ \E units \in Extra : SaveScheme(units)
    \/ \E state \in {"accepted", "declined"} : DecideScheme(state)

Next ==
    \/ Expecting
    \/ Planning \/ Acting \/ Deciding
    \/ \E o \in Orders, q \in Quantities, d \in Dates : Import(o, q, d)
    \/ \E o \in Orders : Close(o)

Spec == Init /\ [][Next]_vars

-----------------------------------------------------------------------------
(* Properties.                                                             *)

\* A request releases a make order in this step.
Makes(o) == ~ Exists(o) /\ Exists(o)' /\ order'[o].source = "MAKE"

\* A file was imported between its statements, or a change was forgotten.
Excused == call.raced \/ result.behind

\* A make order is made for what a calculation of the orders, later dates and
\* schemes of that moment would recommend, although the status is read in three
\* statements and the recommendation in a fourth, while runs go on; unless a
\* file was imported in between, or a change was forgotten (releaseMake,
\* currentRun, planningStatus).
MadeForLack ==
    [][\A o \in Orders : Makes(o) => order'[o].quantity = Recommended \/ Excused]_vars

\* A need is not made twice in the standard method: with the order that is
\* released nothing more would be recommended, with the same two exceptions.  In
\* the WEEKLY method open orders do not reduce the recommendation, and the same
\* need is recommended again (ddmrp.mjs:430-434, :505-517).
NoDoubleMake ==
    [][\A o \in Orders : Makes(o) => Recommended' = 0 \/ Weekly \/ Excused]_vars

\* What is shown as up to date is what a calculation of the book, the stops, the
\* later dates and the schemes as they are would find: every operation on them
\* asks for one (the triggers of 015, 019, 023, 024 and 025); unless a change
\* was forgotten, because it committed after a higher version (queueRun) or the
\* run that should have read it failed for good (failRun).
ShownIsLive == UpToDate => result.behind \/ Live(result)

\* The date a customer accepted is the promise the order is planned for, over
\* proposals, moves and releases, until an import sets another (applyLater).
AcceptedIsPromise ==
    \A o \in Orders :
        plan[o].state = "scheduled" /\ plan[o].accepted # 0 /\ ~ order[o].imported =>
            order[o].due = plan[o].accepted

=============================================================================
