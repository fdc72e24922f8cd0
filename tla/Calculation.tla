----------------------------- MODULE Calculation ------------------------------
(***************************************************************************)
(* What a planning run calculates for a plant, in the order of runPlanning *)
(* (packages/schema/planning-db.mjs): the buffers first, the schedule when *)
(* they are done.                                                          *)
(*                                                                         *)
(* Both read the open production orders.  The schedule takes of the        *)
(* results only what it says about material (Expedites.tla), which moves   *)
(* no operation, so each keeps the orders it explores: lines of a demand   *)
(* for the buffers, units and lots for the schedule.                       *)
(***************************************************************************)
EXTENDS Scheduler

CONSTANTS Parts, Made, Usage, Policies, Dlts, Books, Makes, Stocks, Asides, Tops,
          LeadTimeDemand, Lot, MinLot

VARIABLES policy, dlt, lines, makes, stock, aside, loop, left, pending, row

buffers == <<policy, dlt, lines, makes, stock, aside, loop, left, pending, row>>

Buffers == INSTANCE Buffers
             WITH Items <- Parts, Orders <- Makes, book <- lines, orders <- makes,
                  phase <- loop, todo <- left

ASSUME CalculationAssumption == Buffers!BuffersAssumption

InitCalculation ==
    /\ Buffers!Init
    /\ stops = {} /\ manual = <<>> /\ plan = <<>> /\ book = {}
    /\ phase = "wait" /\ seq = <<>> /\ todo = <<>> /\ head = <<>> /\ group = 1
    /\ cohorts = {} /\ own = <<>> /\ at = <<1, 2, 2>> /\ clubs = {} /\ checks = 0 /\ start = <<>>
    /\ queue = <<>> /\ op = 1 /\ pass = EmptyPass

CalculateBuffers == Buffers!Next /\ UNCHANGED schedule

\* The results are written under the run, and forgotten.
SaveResults ==
    /\ Buffers!Calculated
    /\ policy' = <<>> /\ dlt' = <<>> /\ lines' = {} /\ makes' = {} /\ stock' = <<>> /\ aside' = <<>>
    /\ loop' = "saved" /\ left' = {} /\ pending' = <<>> /\ row' = <<>>
    /\ UNCHANGED schedule

\* The book, downtime and decisions of the plant are read.
StartSchedule ==
    /\ loop = "saved" /\ phase = "wait"
    /\ \E c \in Cases : stops' = c.stops /\ manual' = c.manual /\ plan' = c.plan /\ book' = c.book
    /\ phase' = "sequence"
    /\ UNCHANGED <<buffers, grouping, placing, head, seq, todo, group>>

CalculateSchedule == NextSchedule /\ UNCHANGED buffers

NextCalculation == CalculateBuffers \/ SaveResults \/ StartSchedule \/ CalculateSchedule

SpecCalculation == InitCalculation /\ [][NextCalculation]_<<buffers, schedule>>

(* The promise of the buffers, in the place it has in a run.               *)

\* However the demand was passed down, a buffer ends with the demand of every
\* line above it (Buffers.tla).
DemandByPaths == Buffers!DemandByPaths

=============================================================================
