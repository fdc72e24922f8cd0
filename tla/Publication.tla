----------------------------- MODULE Publication -----------------------------
(***************************************************************************)
(* What planners do with the current calculation of one company: they      *)
(* review it, preview a decision (club, move, release, insert),            *)
(* apply it, and publish the schedule of a plant, while changes come in    *)
(* and runs finish, fail and prune the schedules of older ones             *)
(* (schedule.controller.ts, schedule-db.mjs, the end of runPlanning).      *)
(*                                                                         *)
(* Queueing and promotion are as PlanningQueue.tla shows them: one run is  *)
(* queued at a time and every run that finishes is promoted. A handler     *)
(* holds the lock of the company and the row of planning_state, so no run  *)
(* is queued or promoted, and no other handler commits, while it works.    *)
(***************************************************************************)
EXTENDS Integers, Sequences, FiniteSets, FiniteSetsExt

CONSTANTS
  Planners,
  Plants,
  NoScreen,     \* the planner has reviewed nothing yet
  KeepRuns,     \* finished runs whose schedules are kept beside the current one
  MaxRuns,      \* bound: runs
  MaxDecisions, \* bound: decisions
  MaxCalls      \* bound: publish requests

RunNos == 1 .. MaxRuns
Kinds == {"plan", "insert"}

\* What a planner has on the screen: seen are the decisions made until then.
Screens == [step: {"view", "status", "preview"}, plant: Plants, run: RunNos,
            version: 0 .. MaxDecisions, seen: 0 .. MaxDecisions]

ASSUME PublicationAssumption ==
  /\ KeepRuns \in Nat /\ MaxRuns \in Nat /\ MaxDecisions \in Nat /\ MaxCalls \in Nat
  /\ NoScreen \notin Screens

VARIABLES
  marked,       \* a row of planning_input_events is visible
  queued,       \* the queued run, 0 for none
  lastRun,      \* the highest run_no
  current,      \* planning_state.current_run_no, 0 for none
  failed,       \* the highest run that failed for good
  schedules,    \* runs whose schedule rows exist
  publications, \* schedule_publications in the order they commit: plant, run, published_at
  decisions,    \* planning_decisions in the order they commit, and what their planner had seen
  version,      \* plant_sequence.version of each plant
  screen,       \* what each planner has reviewed last
  call,         \* when the publish request of each planner began, 0 for none
  clock         \* begins of publish transactions

runVars == <<marked, queued, lastRun, current, failed, schedules>>
vars == <<runVars, publications, decisions, version, screen, call, clock>>

TypeOK ==
  /\ marked \in BOOLEAN
  /\ {queued, lastRun, current, failed} \subseteq RunNos \cup {0}
  /\ schedules \subseteq RunNos
  /\ (current # 0 => current \in schedules)
  /\ \A i \in DOMAIN publications :
       publications[i] \in [plant: Plants, run: RunNos, at: 1 .. MaxCalls]
  /\ \A i \in DOMAIN decisions :
       decisions[i] \in [plant: Plants, run: RunNos, kind: Kinds, seen: 0 .. MaxDecisions,
                         afterFailure: BOOLEAN]
  /\ version \in [Plants -> 0 .. MaxDecisions]
  /\ screen \in [Planners -> {NoScreen} \cup Screens]
  /\ call \in [Planners -> 0 .. MaxCalls]
  /\ clock \in 0 .. MaxCalls

Init ==
  /\ marked = FALSE /\ queued = 0 /\ lastRun = 0 /\ current = 0 /\ failed = 0
  /\ schedules = {} /\ publications = << >> /\ decisions = << >>
  /\ version = [p \in Plants |-> 0]
  /\ screen = [u \in Planners |-> NoScreen] /\ call = [u \in Planners |-> 0]
  /\ clock = 0

(* -------------------------------- the runs ----------------------------- *)

\* Somebody changes an input.
Change ==
  /\ ~marked /\ marked' = TRUE
  /\ UNCHANGED <<queued, lastRun, current, failed, schedules, publications, decisions,
                 version, screen, call, clock>>

\* queueRun: markers are consumed, and a run waits.
Queue ==
  /\ queued = 0 => lastRun < MaxRuns
  /\ marked' = FALSE
  /\ queued' = IF queued = 0 THEN lastRun + 1 ELSE queued
  /\ lastRun' = Max({lastRun, queued'})
  /\ UNCHANGED <<current, failed, schedules, publications, decisions, version, screen, call, clock>>

\* The publications of a plant, and the newest by published_at.
Published(p) == {i \in DOMAIN publications : publications[i].plant = p}
Newest(p) == CHOOSE i \in Published(p) : \A j \in Published(p) :
               publications[j].at <= publications[i].at

\* Mutant: the current calculation's schedule is all that is worth keeping.
PublishedRunsNone == {}

\* prunedSchedules: the runs that are the published plan of a plant.
PublishedRuns == {publications[Newest(p)].run : p \in {q \in Plants : Published(q) # {}}}

\* Finished runs beyond the KeepRuns newest ones, without the current run r.
Old(r) == {s \in schedules \ {r} : Cardinality({t \in schedules \ {r} : t > s}) >= KeepRuns}

\* The end of runPlanning: the schedule is saved, the run promoted, and the
\* schedules of old runs that are not published are deleted.
FinishRun ==
  /\ queued # 0
  /\ current' = queued /\ queued' = 0
  /\ schedules' = (schedules \cup {queued}) \ (Old(queued) \ PublishedRuns)
  /\ UNCHANGED <<marked, lastRun, failed, publications, decisions, version, screen, call, clock>>

\* failRun: the attempts of the queued run are used up.
FailRun ==
  /\ queued # 0
  /\ failed' = queued /\ queued' = 0
  /\ UNCHANGED <<marked, lastRun, current, schedules, publications, decisions, version,
                 screen, call, clock>>

(* ------------------------------- reviewing ----------------------------- *)

\* planningStatus: upToDate.
UpToDate == current # 0 /\ queued = 0 /\ ~marked

\* A planner opens the current schedule of a plant. If it is up to date, that may
\* be the first half of a preview, which reads the status without any lock ...
View(u, p) ==
  /\ call[u] = 0 /\ current # 0
  /\ screen' = [screen EXCEPT ![u] = [step |-> IF UpToDate THEN "status" ELSE "view",
                  plant |-> p, run |-> current, version |-> 0, seen |-> 0]]
  /\ UNCHANGED <<runVars, publications, decisions, version, call, clock>>

\* ... and later the plan of the plant and everything it is judged on.
PreviewContext(u) ==
  /\ screen[u] # NoScreen /\ screen[u].step = "status"
  /\ screen' = [screen EXCEPT ![u] = [step |-> "preview", plant |-> @.plant, run |-> @.run,
                  version |-> version[@.plant], seen |-> Len(decisions)]]
  /\ UNCHANGED <<runVars, publications, decisions, version, call, clock>>

(* -------------------------------- acting ------------------------------- *)

\* A publish request comes in: its transaction begins, and waits for the lock of
\* the company. published_at is the time of the begin. (A decision is not dated.)
Begin(u) ==
  /\ call[u] = 0 /\ screen[u] # NoScreen
  /\ clock < MaxCalls
  /\ clock' = clock + 1 /\ call' = [call EXCEPT ![u] = clock']
  /\ UNCHANGED <<runVars, publications, decisions, version, screen>>

\* Mutant: a run that is published already may be published again.
MayPublishAgain(u) == UpToDate /\ current = screen[u].run

\* publish: the planner reviewed the current, up-to-date calculation, and it is
\* not the published one.
MayPublish(u) ==
  /\ UpToDate /\ current = screen[u].run
  /\ LET p == screen[u].plant
     IN Published(p) # {} => publications[Newest(p)].run # current

Publish(u) ==
  /\ call[u] # 0
  /\ publications' = IF MayPublish(u)
       THEN Append(publications, [plant |-> screen[u].plant, run |-> current, at |-> call[u]])
       ELSE publications
  /\ call' = [call EXCEPT ![u] = 0]
  /\ UNCHANGED <<runVars, decisions, version, screen, clock>>

\* Mutant: the version of the plan is not compared.
FreshRunOnly(u) == UpToDate /\ current = screen[u].run

\* freshContext: the calculation is the reviewed one, and so is the plan.
Fresh(u) ==
  /\ UpToDate /\ current = screen[u].run
  /\ version[screen[u].plant] = screen[u].version

\* applyClub, move, releaseManual save a plan, which raises its version; an
\* inserted order does not; the trigger of what is saved leaves a marker. What
\* is not Fresh, or a scenario that is not among those computed now, is refused;
\* a declined insert only leaves its record.
Decide(u, kind) ==
  /\ call[u] = 0 /\ screen[u] # NoScreen /\ screen[u].step = "preview"
  /\ Len(decisions) < MaxDecisions
  /\ Fresh(u)
  /\ LET p == screen[u].plant
     IN /\ decisions' = Append(decisions, [plant |-> p, run |-> current, kind |-> kind,
                                 seen |-> screen[u].seen, afterFailure |-> failed > current])
        /\ version' = [version EXCEPT ![p] = IF kind = "plan" THEN @ + 1 ELSE @]
        /\ marked' = TRUE
  /\ UNCHANGED <<queued, lastRun, current, failed, schedules, publications, screen, call, clock>>

(* -------------------------- the specification -------------------------- *)

Run == Change \/ Queue \/ FinishRun \/ FailRun

Act(u) ==
  \/ \E p \in Plants : View(u, p)
  \/ PreviewContext(u)
  \/ Begin(u) \/ Publish(u)
  \/ \E kind \in Kinds : Decide(u, kind)

Next == Run \/ \E u \in Planners : Act(u)

Spec == Init /\ [][Next]_vars

(* ----------------------------- properties ------------------------------ *)

\* No two decisions rest on the same calculation, of whatever plants: what the
\* first one saved makes it stale until a newer run has replaced it. (After a run
\* has failed for good the old one counts as up to date again: see
\* UpToDate in PlanningQueue.)
OneDecisionPerRun ==
  \A i, j \in DOMAIN decisions :
    i < j /\ decisions[i].run = decisions[j].run => decisions[j].afterFailure

\* Nobody overwrites a plan unseen: who saves a plan has previewed it with all
\* plans of that plant saved before (schedule.controller.ts: "the plant's
\* decisions unchanged since the preview"), though a preview reads the status
\* and the plan one after the other, and even after a failed run.
PlansBuildOnPlans ==
  \A i, j \in DOMAIN decisions :
    i < j /\ decisions[i].kind = "plan" /\ decisions[i].plant = decisions[j].plant
      => i <= decisions[j].seen

\* The published plan, the row with the newest published_at, is the one that
\* was published last, and of a later run than the ones before: although
\* published_at is taken before the lock (019_schedule.sql: "The newest row per
\* plant is the published plan").
LastPublishedIsNewest ==
  \A i, j \in DOMAIN publications :
    i < j /\ publications[i].plant = publications[j].plant
      => publications[i].at < publications[j].at /\ publications[i].run < publications[j].run

\* The schedule of the published plan is there, however many runs finish
\* (schedule-db.mjs: "Runs whose schedule is the published plan of a plant are
\* kept when old runs are pruned").
PublishedKept ==
  \A p \in Plants : Published(p) # {} => publications[Newest(p)].run \in schedules
=============================================================================
