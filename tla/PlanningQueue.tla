---------------------------- MODULE PlanningQueue ----------------------------
(***************************************************************************)
(* How changes of planning inputs become a calculation, for one company:   *)
(* the marker every changed statement leaves (015_material_buffers.sql),   *)
(* queueRun, runPlanning, failRun and planningStatus of                    *)
(* packages/schema/planning-db.mjs, with the row locks of planning_state   *)
(* and planning_runs they take.                                            *)
(*                                                                         *)
(* A change is a transaction: it takes its version from a sequence when it *)
(* writes and becomes visible when it commits. queueRun is called by the   *)
(* worker's timer and by the API. A run is handled by a worker slot as     *)
(* Outbox.tla describes: an attempt that fails is started again.           *)
(***************************************************************************)
EXTENDS Integers, FiniteSets, FiniteSetsExt

CONSTANTS
  Changes,    \* transactions that change planning inputs
  Queuers,    \* callers of queueRun: the timer and the API
  Nobody,     \* planning_state is not locked
  MaxRuns,    \* bound: planning runs
  MaxAborts   \* bound: attempts of a run that fail by themselves

ASSUME PlanningAssumption ==
  /\ MaxRuns \in Nat
  /\ MaxAborts \in Nat
  /\ Nobody \notin Queuers

RunNos == 1 .. MaxRuns
Versions == 1 .. Cardinality(Changes)

VARIABLES
  version,   \* planning_input_events.version of each change, 0 before it writes
  committed, \* changes that are committed
  overtaken, \* changes committed after a higher version (history)
  markers,   \* rows of planning_input_events, by their change
  runs,      \* planning_runs: status and input_version, by run_no
  current,   \* planning_state.current_run_no, 0 for none
  lock,      \* the queueRun transaction that holds the row of planning_state
  call,      \* per caller of queueRun: where it is, what it deleted, what it found
  attempt,   \* per run: where the transaction of runPlanning is
  seen,      \* per run: changes committed when its last attempt began to read
  aborts

changeVars == <<version, committed, overtaken>>
runVars == <<attempt, seen, aborts>>
vars == <<changeVars, markers, runs, current, lock, call, runVars>>

Idle == [at |-> "idle", deleted |-> {}, waiting |-> 0]

Init ==
  /\ version = [c \in Changes |-> 0]
  /\ committed = {}
  /\ overtaken = {}
  /\ markers = {}
  /\ runs = [r \in RunNos |-> [status |-> "none", input |-> 0]]
  /\ current = 0
  /\ lock = Nobody
  /\ call = [q \in Queuers |-> Idle]
  /\ attempt = [r \in RunNos |-> "idle"]
  /\ seen = [r \in RunNos |-> {}]
  /\ aborts = [r \in RunNos |-> 0]

(* ------------------------------ the changes ---------------------------- *)

\* The highest version of a set of changes, 0 for none.
Newest(S) == Max({version[c] : c \in S} \cup {0})

\* The trigger takes the next version; the row is not visible yet.
Touch(c) ==
  /\ version[c] = 0
  /\ version' = [version EXCEPT ![c] = Newest(Changes) + 1]
  /\ UNCHANGED <<committed, overtaken, markers, runs, current, lock, call, runVars>>

\* The change and its marker become visible together.
CommitChange(c) ==
  /\ version[c] > 0 /\ c \notin committed
  /\ committed' = committed \cup {c}
  /\ overtaken' = IF Newest(committed) > version[c] THEN overtaken \cup {c} ELSE overtaken
  /\ markers' = markers \cup {c}
  /\ UNCHANGED <<version, runs, current, lock, call, runVars>>

(* ------------------------------- queueRun ------------------------------ *)

Queued == {r \in RunNos : runs[r].status = "queued"}

\* A run asked for without a change leaves run numbers for the changes that
\* may still need one (bound).
Room ==
  markers = {} /\ Queued = {} =>
    Cardinality({r \in RunNos : runs[r].status = "none"})
      > Cardinality(Changes \ (committed \ markers))

\* The row of planning_state is locked, the visible markers are deleted, and
\* the oldest queued run is looked up. A run that waits for the row of
\* planning_state gets it first.
Begin(q) ==
  /\ call[q].at = "idle" /\ lock = Nobody /\ Room
  /\ \A r \in RunNos : attempt[r] # "promoting"
  /\ lock' = q
  /\ call' = [call EXCEPT ![q] = [at |-> "chosen", deleted |-> markers,
                waiting |-> IF Queued = {} THEN 0 ELSE Min(Queued)]]
  /\ UNCHANGED <<changeVars, markers, runs, current, runVars>>

Consumed(q) == Newest(call[q].deleted)

\* The transaction of queueRun ends: its deletes are committed.
Return(q) ==
  /\ markers' = markers \ call[q].deleted
  /\ call' = [call EXCEPT ![q] = Idle]
  /\ lock' = Nobody

\* Mutant: the version of a waiting run is never updated.
NeedsUpdateNever(q) == FALSE

NeedsUpdate(q) == Consumed(q) > runs[call[q].waiting].input

\* The waiting run already stands for this version: nothing is written to it.
KeepWaiting(q) ==
  /\ call[q].at = "chosen" /\ call[q].waiting # 0
  /\ ~NeedsUpdate(q)
  /\ Return(q)
  /\ UNCHANGED <<changeVars, runs, current, runVars>>

\* UPDATE planning_runs SET input_version: it waits for the lock of the row.
AskUpdate(q) ==
  /\ call[q].at = "chosen" /\ call[q].waiting # 0
  /\ NeedsUpdate(q)
  /\ call' = [call EXCEPT ![q].at = "updating"]
  /\ UNCHANGED <<changeVars, markers, runs, current, lock, runVars>>

\* Nobody reads or writes the row of the run.
Unlocked(r) == /\ attempt[r] = "idle"
               /\ \A q \in Queuers : call[q].at = "updating" => call[q].waiting # r

\* The row is free: a queued run is told to stand for the newer version.
Update(q) ==
  /\ call[q].at = "updating" /\ attempt[call[q].waiting] = "idle"
  /\ runs' = [runs EXCEPT ![call[q].waiting].input = Consumed(q)]
  /\ Return(q)
  /\ UNCHANGED <<changeVars, current, runVars>>

\* No run is waiting: the next one is queued, with its planning.run event.
CreateRun(q) ==
  /\ call[q].at = "chosen" /\ call[q].waiting = 0
  /\ \E r \in RunNos :
       /\ \A s \in RunNos : runs[s].status = "none" <=> s >= r
       /\ runs' = [runs EXCEPT ![r] = [status |-> "queued", input |-> Consumed(q)]]
  /\ Return(q)
  /\ UNCHANGED <<changeVars, current, runVars>>

\* The update and the run wait for each other's row.
Deadlock(q) == call[q].at = "updating" /\ attempt[call[q].waiting] = "promoting"

\* A deadlock victim, or a statement timeout: the deletes are rolled back.
AbortCall(q) ==
  /\ call[q].at = "updating" /\ attempt[call[q].waiting] # "idle"
  /\ call' = [call EXCEPT ![q] = Idle]
  /\ lock' = Nobody
  /\ UNCHANGED <<changeVars, markers, runs, current, runVars>>

(* ------------------------------ runPlanning ---------------------------- *)

\* The run is locked and the inputs are read, statement by statement: what is
\* committed now is read, what is committed later may be read in part.
StartReading(r) ==
  /\ runs[r].status = "queued" /\ Unlocked(r)
  /\ attempt' = [attempt EXCEPT ![r] = "reading"]
  /\ seen' = [seen EXCEPT ![r] = committed]
  /\ UNCHANGED <<changeVars, markers, runs, current, lock, call, aborts>>

\* Inputs are read, results saved: promote_planning_run asks for the row of
\* planning_state.
AskPromote(r) ==
  /\ attempt[r] = "reading"
  /\ attempt' = [attempt EXCEPT ![r] = "promoting"]
  /\ UNCHANGED <<changeVars, markers, runs, current, lock, call, seen, aborts>>

\* current_run_no IS NULL OR current_run_no < run_number
Promotes(r) == current < r

\* The row is locked, the run promoted or superseded, and all is committed.
Complete(r) ==
  /\ attempt[r] = "promoting" /\ lock = Nobody
  /\ current' = IF Promotes(r) THEN r ELSE current
  /\ runs' = [runs EXCEPT ![r].status = IF Promotes(r) THEN "completed" ELSE "superseded"]
  /\ attempt' = [attempt EXCEPT ![r] = "idle"]
  /\ UNCHANGED <<changeVars, markers, lock, call, seen, aborts>>

\* The attempt is rolled back: as a deadlock victim, or by itself (bounded by
\* MaxAborts: a timeout, a crash). Another attempt follows.
AbortAttempt(r) ==
  /\ attempt[r] # "idle"
  /\ \/ UNCHANGED aborts /\ \E q \in Queuers : Deadlock(q) /\ call[q].waiting = r
     \/ aborts[r] < MaxAborts /\ aborts' = [aborts EXCEPT ![r] = @ + 1]
  /\ attempt' = [attempt EXCEPT ![r] = "idle"]
  /\ UNCHANGED <<changeVars, markers, runs, current, lock, call, seen>>

\* failRun: the attempts are used up.
FailRun(r) ==
  /\ runs[r].status = "queued" /\ Unlocked(r)
  /\ runs' = [runs EXCEPT ![r].status = "failed"]
  /\ UNCHANGED <<changeVars, markers, current, lock, call, runVars>>

(* -------------------------- the specification -------------------------- *)

\* Mutant: a queued run does not count.
UpToDateIgnoringQueue == current # 0 /\ markers = {}

\* planningStatus, upToDate: what the screens show and what publishing a
\* schedule, inserting an order and approving a proposal require.
UpToDate == current # 0 /\ Queued = {} /\ markers = {}

\* The timer calls queueRun only when planning_due names the company.
Due(q) == markers # {} /\ Begin(q)

CallStep(q) == KeepWaiting(q) \/ AskUpdate(q) \/ Update(q) \/ CreateRun(q) \/ AbortCall(q)
RunStep(r) == StartReading(r) \/ AskPromote(r) \/ Complete(r)

Next ==
  \/ \E c \in Changes : Touch(c) \/ CommitChange(c)
  \/ \E q \in Queuers : Begin(q) \/ CallStep(q)
  \/ \E r \in RunNos : RunStep(r) \/ AbortAttempt(r) \/ FailRun(r)

\* Open changes commit; the timer fires; a queueRun transaction ends; a queued
\* run is handled (Outbox.tla).
Fairness ==
  /\ \A c \in Changes : WF_vars(CommitChange(c))
  /\ \A q \in Queuers : WF_vars(Due(q)) /\ WF_vars(CallStep(q))
  /\ \A r \in RunNos : WF_vars(RunStep(r))

Spec == Init /\ [][Next]_vars
FairSpec == Spec /\ Fairness

(* ----------------------------- properties ------------------------------ *)

\* The change has a marker left, or a queued run will still read it or has,
\* or the current run has.
Accounted(c) ==
  \/ c \in markers \cup (IF current = 0 THEN {} ELSE seen[current])
  \/ \E r \in Queued : attempt[r] = "idle" \/ c \in seen[r]

\* A run newer than the current one has used up its attempts.
NewerRunFailed == \E r \in RunNos : runs[r].status = "failed" /\ r > current

\* A change is forgotten only if it committed after a higher version, or its
\* run failed and no later one has finished: deleted markers are always those
\* of a run that has not read yet, or of a change it has read (queueRun: "A
\* queued run has not read anything yet, so it will include these changes").
ChangeAccounted == \A c \in committed \ overtaken : Accounted(c) \/ NewerRunFailed

\* With the same two exceptions, what is shown as up to date includes every
\* committed change, so what is published or ordered was computed from it.
UpToDateIsComplete ==
  UpToDate => NewerRunFailed \/ committed \ overtaken \subseteq seen[current]

\* With the same two exceptions, every committed change reaches the current
\* run, over deadlocks of queueRun with a run and attempts that fail.
EveryChangePlanned ==
  \A c \in Changes : c \in committed ~>
    c \in overtaken \/ NewerRunFailed \/ (current # 0 /\ c \in seen[current])

=============================================================================
