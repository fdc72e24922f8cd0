----------------------------- MODULE ImportBatch -----------------------------
(***************************************************************************)
(* The life of an import batch of one company: the API handlers of         *)
(* apps/api/src/availability.controller.ts and raw-imports.controller.ts,  *)
(* and the worker handlers of apps/workers/src/imports.ts, for batches of  *)
(* one kind whose rows refer to one unit of measure.                       *)
(*                                                                         *)
(* API mutations of a company are serialised by an advisory lock           *)
(* (access.controller.ts, mutate), so each is one step. The worker does    *)
(* not take that lock: a commit that saves records is two steps. Events    *)
(* are delivered as Outbox.tla shows: a handler is committed at most once, *)
(* at any time, in any order; failImport may run late, even for an event   *)
(* whose handler was committed, and again when the job was added again.    *)
(***************************************************************************)
EXTENDS Naturals, Sequences, FiniteSets

CONSTANTS
  Batches,     \* import_batches ids
  Files,       \* distinct file_sha256
  Sheets,      \* sheets of a workbook
  NoFile,      \* of a row that does not exist yet
  NoSheet,     \* sheet = '' of a CSV upload
  Users,       \* people with imports.create
  NoView,      \* a person who has not opened a batch
  MaxEvents,   \* bound: outbox events
  MaxAborts    \* bound: rolled back attempts of each commit

ASSUME ImportAssumption ==
  /\ NoSheet \notin Sheets
  /\ NoFile \notin Files
  /\ MaxEvents \in Nat
  /\ MaxAborts \in Nat

VARIABLES
  batch,       \* rows of import_batches
  events,      \* import.validate and import.commit events, in order of their ids
  processed,   \* events whose handler was committed
  phase,       \* per event: "checked" while its commit transaction is open
  aborts,      \* rolled back attempts per event
  written,     \* how often the records of a batch were saved
  unitActive,  \* units.active of the unit the rows refer to
  view,        \* the batch as each user last loaded it
  agreed       \* the validation the committing user had looked at (history)

queueVars == <<events, processed>>
workVars == <<phase, aborts>>
vars == <<batch, queueVars, workVars, written, unitActive, view, agreed>>

Statuses == {"absent", "validating", "validated", "committing",
             "committed", "failed", "cancelled"}
Reasons == {"none", "duplicate", "changed", "exhausted"}
EventIds == 1 .. MaxEvents

Rows == [status: Statuses, version: Nat, file: Files \cup {NoFile},
         sheet: Sheets \cup {NoSheet}, errors: BOOLEAN,
         stamp: 0 .. MaxEvents, reason: Reasons]

Absent == [status |-> "absent", version |-> 0, file |-> NoFile, sheet |-> NoSheet,
           errors |-> FALSE, stamp |-> 0, reason |-> "none"]

Init ==
  /\ batch = [b \in Batches |-> Absent]
  /\ events = << >>
  /\ processed = {}
  /\ phase = [e \in EventIds |-> "idle"]
  /\ aborts = [e \in EventIds |-> 0]
  /\ written = [b \in Batches |-> 0]
  /\ unitActive = TRUE
  /\ view = [u \in Users |-> NoView]
  /\ agreed = [b \in Batches |-> 0]

InProgress == [validate |-> "validating", commit |-> "committing"]

\* SELECT ... FOR UPDATE waits while the worker's transaction holds the row.
Locked(b) == \E e \in DOMAIN events : phase[e] = "checked" /\ events[e].batch = b

\* The event is written in the transaction of the handler.
Queue(k, b) ==
  /\ Len(events) < MaxEvents
  /\ events' = Append(events, [kind |-> k, batch |-> b])
  /\ UNCHANGED processed

(* ------------------------------- the API ------------------------------- *)

AllSheets == Sheets \cup {NoSheet}

\* Batches of these bytes that are committed, for one of the sheets in S.
Committed(f, S) ==
  {c \in Batches : /\ batch[c].status = "committed"
                   /\ batch[c].file = f /\ batch[c].sheet \in S}

\* A new batch with its staged rows and its import.validate event.
Create(b, f, s) ==
  /\ batch[b].status = "absent"
  /\ batch' = [batch EXCEPT ![b] = [status |-> "validating", version |-> 1,
                 file |-> f, sheet |-> s, errors |-> FALSE, stamp |-> 0,
                 reason |-> "none"]]
  /\ Queue("validate", b)
  /\ UNCHANGED <<workVars, written, unitActive, view, agreed>>

\* A CSV upload: refused when any batch of the same bytes is committed.
Upload(b, f) ==
  /\ Committed(f, AllSheets) = {}
  /\ Create(b, f, NoSheet)

\* A sheet read through a mapping: refused when that sheet is committed.
Stage(b, f, sheet) ==
  /\ Committed(f, {sheet}) = {}
  /\ Create(b, f, sheet)

\* A person opens or refreshes a batch.
Read(u, b) ==
  /\ batch[b].status # "absent"
  /\ view' = [view EXCEPT ![u] = [batch |-> b, version |-> batch[b].version,
                                  stamp |-> batch[b].stamp]]
  /\ UNCHANGED <<batch, queueVars, workVars, written, unitActive, agreed>>

\* Mutant: the version the person saw is not compared.
FreshLatest(u) == view[u] # NoView /\ ~Locked(view[u].batch)

\* The row is locked and still has the version the person saw.
Fresh(u) ==
  /\ view[u] # NoView
  /\ ~Locked(view[u].batch)
  /\ batch[view[u].batch].version = view[u].version

\* POST imports/:id/commit
CommitRequest(u) ==
  /\ Fresh(u)
  /\ LET b == view[u].batch IN
       /\ batch[b].status = "validated" /\ ~batch[b].errors
       /\ batch' = [batch EXCEPT ![b].status = "committing", ![b].reason = "none",
                                 ![b].version = @ + 1]
       /\ agreed' = [agreed EXCEPT ![b] = view[u].stamp]
       /\ Queue("commit", b)
  /\ UNCHANGED <<workVars, written, unitActive, view>>

\* POST imports/:id/cancel
Cancel(u) ==
  /\ Fresh(u)
  /\ LET b == view[u].batch IN
       /\ batch[b].status \in {"validated", "failed"}
       /\ batch' = [batch EXCEPT ![b].status = "cancelled", ![b].version = @ + 1]
  /\ UNCHANGED <<queueVars, workVars, written, unitActive, view, agreed>>

\* POST imports/:id/revalidate
Revalidate(u) ==
  /\ Fresh(u)
  /\ LET b == view[u].batch IN
       /\ batch[b].status \in {"validated", "failed"}
       /\ batch' = [batch EXCEPT ![b].status = "validating", ![b].reason = "none",
                                 ![b].version = @ + 1]
       /\ Queue("validate", b)
  /\ UNCHANGED <<workVars, written, unitActive, view, agreed>>

\* PATCH units/:id: a unit that saved active records use stays active.
SwitchUnit ==
  /\ unitActive => \A b \in Batches : written[b] = 0
  /\ unitActive' = ~unitActive
  /\ UNCHANGED <<batch, queueVars, workVars, written, view, agreed>>

(* ------------------------------ the worker ----------------------------- *)

Waiting(e, k) ==
  /\ e \in DOMAIN events \ processed
  /\ events[e].kind = k
  /\ ~Locked(events[e].batch)

\* lockBatch: a replayed event of a batch that moved on is a no-op.
LockBatch(b, status) == batch[b].status = status

\* The handler returns without a change; its event is processed.
Replayed(e) ==
  /\ processed' = processed \cup {e}
  /\ UNCHANGED <<batch, events, workVars, written, unitActive, view, agreed>>

\* validateImport: the rows are checked against the current records.
Validate(e) ==
  /\ Waiting(e, "validate")
  /\ LET b == events[e].batch IN
       IF ~LockBatch(b, "validating") THEN Replayed(e) ELSE
         /\ \E bad \in BOOLEAN :
              /\ ~unitActive => bad
              /\ batch' = [batch EXCEPT ![b].status = "validated", ![b].errors = bad,
                             ![b].stamp = e, ![b].version = @ + 1]
         /\ processed' = processed \cup {e}
         /\ UNCHANGED <<events, workVars, written, unitActive, view, agreed>>

\* markFailed, in the transaction of the handler.
MarkFailed(e, why) ==
  /\ LET b == events[e].batch IN
       batch' = [batch EXCEPT ![b].status = "failed", ![b].reason = why,
                              ![b].version = @ + 1]
  /\ processed' = processed \cup {e}
  /\ UNCHANGED <<events, workVars, written, unitActive, view, agreed>>

\* Committed batches of the same bytes, whatever their sheet.
SameFile(b) == Committed(batch[b].file, AllSheets) \ {b}

\* commitImport up to its writes: the batch is locked, the file and the
\* references of the rows are checked again.
CommitCheck(e) ==
  /\ Waiting(e, "commit")
  /\ LET b == events[e].batch IN
       CASE ~LockBatch(b, "committing") -> Replayed(e)
         [] LockBatch(b, "committing") /\ SameFile(b) # {} -> MarkFailed(e, "duplicate")
         [] LockBatch(b, "committing") /\ SameFile(b) = {} ->
              \/ MarkFailed(e, "changed")
              \/ /\ unitActive
                 /\ phase' = [phase EXCEPT ![e] = "checked"]
                 /\ UNCHANGED <<batch, queueVars, aborts, written, unitActive, view, agreed>>

\* The unique index on committed batches: file and sheet.
IndexAllows(b) == Committed(batch[b].file, {batch[b].sheet}) \ {b} = {}

\* The records are saved and the batch is committed, in one transaction.
CommitWrite(e) ==
  /\ e \in DOMAIN events /\ phase[e] = "checked"
  /\ LET b == events[e].batch IN
       /\ IndexAllows(b)
       /\ batch' = [batch EXCEPT ![b].status = "committed", ![b].version = @ + 1]
       /\ written' = [written EXCEPT ![b] = @ + 1]
  /\ processed' = processed \cup {e}
  /\ phase' = [phase EXCEPT ![e] = "idle"]
  /\ UNCHANGED <<events, aborts, unitActive, view, agreed>>

\* The transaction rolls back: the unique index refuses it, or a timeout, a
\* deadlock or a crash ends it (bounded by MaxAborts). The event stays.
Rollback(e) ==
  /\ e \in DOMAIN events /\ phase[e] = "checked"
  /\ phase' = [phase EXCEPT ![e] = "idle"]
  /\ IF IndexAllows(events[e].batch)
       THEN /\ aborts[e] < MaxAborts
            /\ aborts' = [aborts EXCEPT ![e] = @ + 1]
       ELSE UNCHANGED aborts
  /\ UNCHANGED <<batch, queueVars, written, unitActive, view, agreed>>

\* Mutant: the update of failImport does not name the status.
FailImportAlways(e) ==
  /\ e \in DOMAIN events
  /\ LET b == events[e].batch IN
       /\ ~Locked(b)
       /\ batch' = [batch EXCEPT ![b].status = "failed", ![b].reason = "exhausted",
                                 ![b].version = @ + 1]
  /\ UNCHANGED <<queueVars, workVars, written, unitActive, view, agreed>>

\* failImport: the attempts are used up. Only a batch in the status the event
\* works on is marked.
FailImport(e) ==
  /\ e \in DOMAIN events
  /\ LET b == events[e].batch IN
       /\ ~Locked(b)
       /\ batch' = IF batch[b].status = InProgress[events[e].kind]
                     THEN [batch EXCEPT ![b].status = "failed", ![b].reason = "exhausted",
                                        ![b].version = @ + 1]
                     ELSE batch
  /\ UNCHANGED <<queueVars, workVars, written, unitActive, view, agreed>>

(* -------------------------- the specification -------------------------- *)

Handle(e) == Validate(e) \/ CommitCheck(e) \/ CommitWrite(e) \/ Rollback(e)

Next ==
  \/ \E b \in Batches, f \in Files : Upload(b, f) \/ \E s \in Sheets : Stage(b, f, s)
  \/ \E u \in Users : \/ CommitRequest(u) \/ Cancel(u) \/ Revalidate(u)
                      \/ \E b \in Batches : Read(u, b)
  \/ SwitchUnit
  \/ \E e \in EventIds : Handle(e) \/ FailImport(e)

Spec == Init /\ [][Next]_vars

(* ----------------------------- properties ------------------------------ *)

\* The records of a batch are saved exactly when it shows committed: "Nothing
\* was changed" of a failed batch and "No records were changed" of a cancelled
\* one are true, over replays, late failures and retries.
SavedOnce ==
  \A b \in Batches :
    written[b] = IF batch[b].status = "committed" THEN 1 ELSE 0

\* What is saved is the validation the committing person had on the screen,
\* and it had no errors: no other validation slips in before or after.
SavesWhatWasReviewed ==
  \A b \in Batches : batch[b].status \in {"committing", "committed"} =>
    agreed[b] = batch[b].stamp /\ batch[b].stamp > 0 /\ ~batch[b].errors

=============================================================================
