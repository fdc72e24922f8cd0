------------------------------- MODULE Outbox -------------------------------
(***************************************************************************)
(* The path of one outbox event, apps/workers/src/main.ts: the API commits *)
(* an outbox_events row with its business change; the dispatcher adds a    *)
(* BullMQ job per undelivered row and then, in another transaction, marks  *)
(* the row delivered; a worker slot runs the job in one transaction that   *)
(* inserts the processed_events row, runs the handler and commits; after   *)
(* the last attempt the 'failed' listener starts one more transaction that *)
(* records the failure in the business record.                             *)
(*                                                                         *)
(* BullMQ and the crash of the worker process are the environment.         *)
(***************************************************************************)
EXTENDS Naturals, FiniteSets

CONSTANTS
  Events,       \* outbox_events ids
  Tracked,      \* events whose kind is import.* or planning.run
  Workers,      \* job slots (concurrency 2)
  Attempts,     \* ATTEMPTS
  MaxStalls,    \* times BullMQ restarts a stalled job
  LockLoss,     \* TRUE: a running slot may lose its job lock
  MaxCrashes,   \* bound: crashes of the worker process
  MaxOutages,   \* bound: failures of the dispatcher or of a failure record
  NoEvent, NoWorker

ASSUME OutboxAssumption ==
  /\ Tracked \subseteq Events
  /\ Attempts \in Nat \ {0}
  /\ MaxStalls \in Nat
  /\ LockLoss \in BOOLEAN
  /\ MaxCrashes \in Nat
  /\ MaxOutages \in Nat
  /\ NoEvent \notin Events
  /\ NoWorker \notin Workers

VARIABLES
  outbox,       \* row of outbox_events: absent, pending (delivered_at NULL) or delivered
  todo,         \* rows the running dispatch pass still has to add
  marking,      \* row whose job was added and that is not marked delivered yet
  job,          \* state of job 'outbox-<id>' in BullMQ
  tries,        \* attemptsMade of the job
  stalls,       \* how often the job was found stalled
  owner,        \* slot that holds the lock of the job
  pc,           \* where each slot is
  ev,           \* event each slot works on
  ledger,       \* processed_events
  runs,         \* committed executions of each handler
  verdict,      \* status of the record behind the event: open, applied, failed
  changed,      \* events whose handler changed their record (history)
  reporting,    \* 'failed' listeners whose transaction is in flight
  exhausted,    \* events whose job BullMQ has failed for good (history)
  crashes, outages

jobVars == <<job, tries, stalls, owner>>
slotVars == <<pc, ev>>
dbVars == <<ledger, runs, verdict, changed>>
vars == <<outbox, todo, marking, jobVars, slotVars, dbVars,
          reporting, exhausted, crashes, outages>>

TypeOK ==
  /\ outbox \in [Events -> {"absent", "pending", "delivered"}]
  /\ todo \subseteq Events
  /\ marking \in Events \cup {NoEvent}
  /\ job \in [Events -> {"none", "waiting", "active", "completed", "failed"}]
  /\ tries \in [Events -> 0 .. Attempts]
  /\ stalls \in [Events -> 0 .. MaxStalls + 1]
  /\ owner \in [Events -> Workers \cup {NoWorker}]
  /\ pc \in [Workers -> {"idle", "open", "claimed", "done", "error"}]
  /\ ev \in [Workers -> Events \cup {NoEvent}]
  /\ ledger \subseteq Events
  /\ runs \in [Events -> Nat]
  /\ verdict \in [Events -> {"open", "applied", "failed"}]
  /\ changed \subseteq Events
  /\ reporting \subseteq Events
  /\ exhausted \subseteq Events
  /\ crashes \in 0 .. MaxCrashes
  /\ outages \in 0 .. MaxOutages

Init ==
  /\ outbox = [e \in Events |-> "absent"]
  /\ todo = {}
  /\ marking = NoEvent
  /\ job = [e \in Events |-> "none"]
  /\ tries = [e \in Events |-> 0]
  /\ stalls = [e \in Events |-> 0]
  /\ owner = [e \in Events |-> NoWorker]
  /\ pc = [w \in Workers |-> "idle"]
  /\ ev = [w \in Workers |-> NoEvent]
  /\ ledger = {}
  /\ runs = [e \in Events |-> 0]
  /\ verdict = [e \in Events |-> "open"]
  /\ changed = {}
  /\ reporting = {}
  /\ exhausted = {}
  /\ crashes = 0
  /\ outages = 0

(* ------------------------------ the API -------------------------------- *)

\* A business change and its event are committed in one transaction.
Publish(e) ==
  /\ outbox[e] = "absent"
  /\ outbox' = [outbox EXCEPT ![e] = "pending"]
  /\ UNCHANGED <<todo, marking, jobVars, slotVars, dbVars,
                 reporting, exhausted, crashes, outages>>

(* --------------------------- the dispatcher ---------------------------- *)

Pending == {e \in Events : outbox[e] = "pending"}

\* The timer fires and no pass is running: outbox_pending is read.
ReadPending ==
  /\ todo = {} /\ marking = NoEvent
  /\ Pending # {}
  /\ todo' = Pending
  /\ UNCHANGED <<outbox, marking, jobVars, slotVars, dbVars,
                 reporting, exhausted, crashes, outages>>

\* Mutant: an error of queue.add is swallowed and the row is marked all the same.
AddJobIgnoringErrors(e) ==
  /\ e \in todo /\ marking = NoEvent
  /\ todo' = todo \ {e}
  /\ marking' = e
  /\ \/ UNCHANGED job
     \/ job[e] = "none" /\ job' = [job EXCEPT ![e] = "waiting"]
  /\ UNCHANGED <<outbox, tries, stalls, owner, slotVars, dbVars,
                 reporting, exhausted, crashes, outages>>

\* queue.add: a job id BullMQ still knows, in any state, is not added again.
AddJob(e) ==
  /\ e \in todo /\ marking = NoEvent
  /\ todo' = todo \ {e}
  /\ marking' = e
  /\ IF job[e] = "none"
       THEN /\ job' = [job EXCEPT ![e] = "waiting"]
            /\ tries' = [tries EXCEPT ![e] = 0]
            /\ stalls' = [stalls EXCEPT ![e] = 0]
            /\ owner' = [owner EXCEPT ![e] = NoWorker]
       ELSE UNCHANGED jobVars
  /\ UNCHANGED <<outbox, slotVars, dbVars, reporting, exhausted, crashes, outages>>

\* UPDATE outbox_events SET delivered_at, a transaction of its own.
MarkDelivered ==
  /\ marking # NoEvent
  /\ outbox' = [outbox EXCEPT ![marking] = "delivered"]
  /\ marking' = NoEvent
  /\ UNCHANGED <<todo, jobVars, slotVars, dbVars,
                 reporting, exhausted, crashes, outages>>

\* Redis or the database fails in the middle of a pass: the pass is dropped.
DispatchError ==
  /\ outages < MaxOutages
  /\ todo # {} \/ marking # NoEvent
  /\ todo' = {}
  /\ marking' = NoEvent
  /\ outages' = outages + 1
  /\ UNCHANGED <<outbox, jobVars, slotVars, dbVars, reporting, exhausted, crashes>>

(* ------------------------------ a worker slot -------------------------- *)

\* A slot takes a waiting job and its lock. A job stalled once too often is
\* failed instead of being run.
Take(w, e) ==
  /\ pc[w] = "idle" /\ job[e] = "waiting"
  /\ job' = [job EXCEPT ![e] = "active"]
  /\ owner' = [owner EXCEPT ![e] = w]
  /\ pc' = [pc EXCEPT ![w] = IF stalls[e] > MaxStalls THEN "error" ELSE "open"]
  /\ ev' = [ev EXCEPT ![w] = e]
  /\ UNCHANGED <<outbox, todo, marking, tries, stalls, dbVars,
                 reporting, exhausted, crashes, outages>>

\* The ledger row of an open transaction locks out any other transaction
\* that inserts the same row, and the handler locks the business record.
Claimed(e) == \E w \in Workers : pc[w] = "claimed" /\ ev[w] = e

\* INSERT INTO processed_events ... ON CONFLICT DO NOTHING. A conflicting
\* insert waits until the other transaction has ended.
Claim(w) ==
  /\ pc[w] = "open"
  /\ ~Claimed(ev[w])
  /\ pc' = [pc EXCEPT ![w] = IF ev[w] \in ledger THEN "done" ELSE "claimed"]
  /\ UNCHANGED <<outbox, todo, marking, jobVars, ev, dbVars,
                 reporting, exhausted, crashes, outages>>

\* Mutant: the handler does not look at the status of its record.
ApplyAlways(e) ==
  /\ ledger' = ledger \cup {e}
  /\ runs' = [runs EXCEPT ![e] = @ + 1]
  /\ verdict' = [verdict EXCEPT ![e] = "applied"]
  /\ changed' = changed \cup {e}

\* What a committed handler leaves behind: a record that is no longer in
\* progress is left alone.
Apply(e) ==
  /\ ledger' = ledger \cup {e}
  /\ runs' = [runs EXCEPT ![e] = @ + 1]
  /\ verdict' = [verdict EXCEPT ![e] = IF @ = "open" THEN "applied" ELSE @]
  /\ changed' = IF verdict[e] = "open" THEN changed \cup {e} ELSE changed

\* The transaction commits; the slot learns of it, or the connection is lost
\* after the commit and the attempt counts as failed.
Commit(w) ==
  /\ pc[w] = "claimed"
  /\ Apply(ev[w])
  /\ \E next \in {"done", "error"} : pc' = [pc EXCEPT ![w] = next]
  /\ UNCHANGED <<outbox, todo, marking, jobVars, ev,
                 reporting, exhausted, crashes, outages>>

\* The handler, a statement timeout or the database fails: all is rolled back.
Rollback(w) ==
  /\ pc[w] \in {"open", "claimed"}
  /\ pc' = [pc EXCEPT ![w] = "error"]
  /\ UNCHANGED <<outbox, todo, marking, jobVars, ev, dbVars,
                 reporting, exhausted, crashes, outages>>

\* The slot still holds the lock of its job.
Holds(w) == job[ev[w]] = "active" /\ owner[ev[w]] = w

Free(w) ==
  /\ pc' = [pc EXCEPT ![w] = "idle"]
  /\ ev' = [ev EXCEPT ![w] = NoEvent]

\* The job is completed. Without the lock BullMQ refuses the result.
ReportDone(w) ==
  /\ pc[w] = "done"
  /\ Free(w)
  /\ IF Holds(w)
       THEN job' = [job EXCEPT ![ev[w]] = "completed"]
       ELSE UNCHANGED job
  /\ UNCHANGED <<outbox, todo, marking, tries, stalls, owner, dbVars,
                 reporting, exhausted, crashes, outages>>

\* The attempt is over, with the lock: it counts.
LastAttempt(e) == tries[e] + 1 >= Attempts

\* Another attempt follows after the backoff.
Retry(w) ==
  /\ pc[w] = "error" /\ Holds(w)
  /\ ~LastAttempt(ev[w]) /\ stalls[ev[w]] <= MaxStalls
  /\ Free(w)
  /\ job' = [job EXCEPT ![ev[w]] = "waiting"]
  /\ owner' = [owner EXCEPT ![ev[w]] = NoWorker]
  /\ tries' = [tries EXCEPT ![ev[w]] = @ + 1]
  /\ UNCHANGED <<outbox, todo, marking, stalls, dbVars,
                 reporting, exhausted, crashes, outages>>

\* The job fails for good. The 'failed' listener returns early unless all
\* attempts are used and the event has a record to mark; its transaction is
\* started and not awaited.
FailJob(w) ==
  /\ pc[w] = "error" /\ Holds(w)
  /\ LastAttempt(ev[w]) \/ stalls[ev[w]] > MaxStalls
  /\ Free(w)
  /\ job' = [job EXCEPT ![ev[w]] = "failed"]
  /\ tries' = [tries EXCEPT ![ev[w]] = @ + 1]
  /\ exhausted' = exhausted \cup {ev[w]}
  /\ reporting' = IF LastAttempt(ev[w]) /\ ev[w] \in Tracked
                    THEN reporting \cup {ev[w]} ELSE reporting
  /\ UNCHANGED <<outbox, todo, marking, stalls, owner, dbVars, crashes, outages>>

\* The lock is gone: the failure of this slot is nobody's.
DropError(w) ==
  /\ pc[w] = "error" /\ ~Holds(w)
  /\ Free(w)
  /\ UNCHANGED <<outbox, todo, marking, jobVars, dbVars,
                 reporting, exhausted, crashes, outages>>

(* ------------------------- the 'failed' listener ----------------------- *)

\* Mutant: the update of the record does not name the status.
RecordFailureAlways(e) ==
  /\ e \in reporting /\ ~Claimed(e)
  /\ verdict' = [verdict EXCEPT ![e] = "failed"]
  /\ reporting' = reporting \ {e}
  /\ UNCHANGED <<outbox, todo, marking, jobVars, slotVars, ledger, runs, changed,
                 exhausted, crashes, outages>>

\* failImport or failRun: only a record that is still in progress changes,
\* once no handler holds its row.
RecordFailure(e) ==
  /\ e \in reporting /\ ~Claimed(e)
  /\ verdict' = [verdict EXCEPT ![e] = IF @ = "open" THEN "failed" ELSE @]
  /\ reporting' = reporting \ {e}
  /\ UNCHANGED <<outbox, todo, marking, jobVars, slotVars, ledger, runs, changed,
                 exhausted, crashes, outages>>

\* The transaction fails: only a log line is left.
LoseFailure(e) ==
  /\ e \in reporting /\ outages < MaxOutages
  /\ reporting' = reporting \ {e}
  /\ outages' = outages + 1
  /\ UNCHANGED <<outbox, todo, marking, jobVars, slotVars, dbVars, exhausted, crashes>>

(* ------------------------ BullMQ and the process ----------------------- *)

Running(e) == \E w \in Workers : ev[w] = e /\ owner[e] = w

\* The lock of an active job expires: its process died, or is too busy to
\* renew the lock. BullMQ makes the job wait again.
Stall(e) ==
  /\ job[e] = "active"
  /\ ~Running(e) \/ (LockLoss /\ stalls[e] <= MaxStalls)
  /\ job' = [job EXCEPT ![e] = "waiting"]
  /\ owner' = [owner EXCEPT ![e] = NoWorker]
  /\ stalls' = [stalls EXCEPT ![e] = IF @ > MaxStalls THEN @ ELSE @ + 1]
  /\ UNCHANGED <<outbox, todo, marking, tries, slotVars, dbVars,
                 reporting, exhausted, crashes, outages>>

\* removeOnComplete, removeOnFail: a finished job is forgotten, with its id.
Forget(e) ==
  /\ job[e] \in {"completed", "failed"}
  /\ job' = [job EXCEPT ![e] = "none"]
  /\ UNCHANGED <<outbox, todo, marking, tries, stalls, owner, slotVars, dbVars,
                 reporting, exhausted, crashes, outages>>

\* The worker process dies and starts again: open transactions roll back,
\* the dispatch pass and the listeners in flight are lost.
Crash ==
  /\ crashes < MaxCrashes
  /\ crashes' = crashes + 1
  /\ todo' = {}
  /\ marking' = NoEvent
  /\ pc' = [w \in Workers |-> "idle"]
  /\ ev' = [w \in Workers |-> NoEvent]
  /\ reporting' = {}
  /\ UNCHANGED <<outbox, jobVars, dbVars, exhausted, outages>>

(* -------------------------- the specification -------------------------- *)

Dispatcher == ReadPending \/ MarkDelivered \/ \E e \in Events : AddJob(e)

Transaction(w) == Claim(w) \/ Commit(w) \/ Rollback(w)

Finish(w) == ReportDone(w) \/ Retry(w) \/ FailJob(w) \/ DropError(w)

Next ==
  \/ \E e \in Events : Publish(e) \/ RecordFailure(e) \/ LoseFailure(e)
                         \/ Stall(e) \/ Forget(e)
  \/ Dispatcher \/ DispatchError \/ Crash
  \/ \E w \in Workers : Transaction(w) \/ Finish(w) \/ \E e \in Events : Take(w, e)

\* The timer, the slots and the listener run; a dead slot's lock expires.
Fairness ==
  /\ WF_vars(Dispatcher)
  /\ \A e \in Events : /\ WF_vars(\E w \in Workers : Take(w, e))
                       /\ WF_vars(Stall(e) /\ ~Running(e))
                       /\ WF_vars(RecordFailure(e))
  /\ \A w \in Workers : WF_vars(Transaction(w)) /\ WF_vars(Finish(w))

Spec == Init /\ [][Next]_vars
FairSpec == Spec /\ Fairness

(* ----------------------------- properties ------------------------------ *)

\* The handler of an event is committed at most once, whatever is added
\* twice, stalled, retried or run by two slots at the same time: the claim of
\* processed_events (main.ts, "so a replay is skipped").
AtMostOnce == \A e \in Events : runs[e] <= 1

\* A job BullMQ reports as completed has its effect in the database: no slot
\* completes a job whose transaction was rolled back or is still open.
CompletedMeansProcessed ==
  \A e \in Events : job[e] = "completed" => e \in ledger

\* A row marked delivered is processed, or its job is still going to run, or
\* every attempt was used: no crash between queue.add and the update of
\* delivered_at, and no job id BullMQ still knows, loses an event.
NoSilentLoss ==
  \A e \in Events : outbox[e] = "delivered" =>
    e \in ledger \cup exhausted \/ job[e] \in {"waiting", "active"}

\* A record shown as failed was never changed by its handler, and fails only
\* after its attempts were used; one shown as applied was changed by it, and
\* behind an open one nothing was committed. A failure that is recorded late,
\* after another slot or a commit whose answer was lost, does not hide a change.
VerdictHonest ==
  \A e \in Events :
    /\ verdict[e] = "applied" => e \in changed
    /\ verdict[e] = "failed" => e \notin changed /\ e \in exhausted \cap Tracked
    /\ verdict[e] = "open" => e \notin ledger \cup changed

\* What the record shows is final: a late handler does not revive a failed
\* record, a late failure does not overwrite an applied one.
VerdictFinal ==
  [][\A e \in Events : verdict[e] # "open" => verdict'[e] = verdict[e]]_vars

\* The outbox implements the at-most-once handler of EventOnce.
Once == INSTANCE EventOnce WITH
          published <- {e \in Events : outbox[e] # "absent"}
ImplementsOnce == Once!Spec

\* Every committed event is processed or uses up its attempts, over crashes,
\* stalls and failing dispatch passes.
EventuallySettles ==
  \A e \in Events : outbox[e] = "pending" ~> e \in ledger \cup exhausted

=============================================================================
