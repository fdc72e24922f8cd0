---------------------------- MODULE MastersProofs ----------------------------
(***************************************************************************)
(* Proofs about what changes the records a plan is computed from, for any  *)
(* records, files, people and bounds: the batches of files (ImportBatch),  *)
(* and the changes people and files make to the records (Masters).  Each   *)
(* part has an inductive invariant and what follows from it.               *)
(***************************************************************************)
EXTENDS ImportBatch, Masters, TLAPS

(***************************************************************************)
(* Import batches.                                                         *)
(***************************************************************************)

Events == [kind: {"validate", "commit"}, batch: Batches]
Views == [batch: Batches, version: Nat, stamp: 0 .. MaxEvents]

TypeOK ==
  /\ batch \in [Batches -> Rows]
  /\ events \in Seq(Events) /\ Len(events) <= MaxEvents
  /\ processed \subseteq DOMAIN events
  /\ phase \in [EventIds -> {"idle", "checked"}]
  /\ aborts \in [EventIds -> 0 .. MaxAborts]
  /\ written \in [Batches -> Nat]
  /\ unitActive \in BOOLEAN
  /\ view \in [Users -> Views \cup {NoView}]
  /\ agreed \in [Batches -> 0 .. MaxEvents]

\* An open commit transaction belongs to an event that is not processed and
\* holds the row of a batch that is being committed; no two hold the same row.
HoldInv ==
  /\ \A e \in EventIds : phase[e] = "checked" =>
       /\ e \in DOMAIN events \ processed
       /\ events[e].kind = "commit"
       /\ batch[events[e].batch].status = "committing"
  /\ \A d, e \in EventIds :
       phase[d] = "checked" /\ phase[e] = "checked" /\ events[d].batch = events[e].batch
         => d = e

\* A person's view is not newer than the row, and of the same version it shows
\* the same validation.
ViewInv ==
  \A u \in Users : view[u] # NoView =>
    LET row == batch[view[u].batch] IN
      /\ row.status # "absent" /\ view[u].version <= row.version
      /\ view[u].version = row.version => view[u].stamp = row.stamp

\* A batch that is shown as validated was validated.
StampInv == \A b \in Batches : batch[b].status = "validated" => batch[b].stamp > 0

IInv ==
  /\ TypeOK /\ HoldInv /\ ViewInv /\ StampInv
  /\ SavedOnce /\ SavesWhatWasReviewed

LEMMA InitInv == Init => IInv
BY ImportAssumption DEF Init, IInv, TypeOK, HoldInv, ViewInv, StampInv, SavedOnce,
   SavesWhatWasReviewed, Rows, Statuses, Reasons, Absent, EventIds

-----------------------------------------------------------------------------
(* Most handlers change one row that no open transaction holds.            *)

EventsGrow ==
  /\ events' \in Seq(Events) /\ Len(events') <= MaxEvents
  /\ \A e \in DOMAIN events : e \in DOMAIN events' /\ events'[e] = events[e]

Edit(b) ==
  /\ ~Locked(b) /\ batch[b].status # "committed"
  /\ batch' \in [Batches -> Rows] /\ \A c \in Batches \ {b} : batch'[c] = batch[c]
  /\ batch'[b].status \notin {"absent", "committed"}
  /\ batch[b].status = "absent" \/ batch'[b].version = batch[b].version + 1
  /\ EventsGrow /\ processed \subseteq processed' /\ processed' \subseteq DOMAIN events'
  /\ \A e \in processed' \ processed : e \in DOMAIN events /\ events[e].batch = b
  /\ UNCHANGED <<workVars, written, unitActive, view>>

LEMMA Queued ==
  ASSUME TypeOK, NEW k \in {"validate", "commit"}, NEW b \in Batches, Queue(k, b)
  PROVE  EventsGrow /\ processed' = processed /\ processed' \subseteq DOMAIN events'
BY ImportAssumption DEF TypeOK, Queue, EventsGrow, Events

\* What a screen shows is a row of some batch.
LEMMA ViewType ==
  ASSUME TypeOK, NEW u \in Users, view[u] # NoView
  PROVE  view[u] \in Views /\ view[u].batch \in Batches /\ batch[view[u].batch] \in Rows
<1>1. view[u] \in Views
  BY DEF TypeOK
<1>2. view[u].batch \in Batches
  BY <1>1 DEF Views
<1> QED
  BY <1>1, <1>2 DEF TypeOK

LEMMA RowType ==
  ASSUME TypeOK, NEW b \in Batches
  PROVE  batch[b] \in Rows /\ batch[b].version + 1 \in Nat
<1>1. batch[b] \in Rows
  BY DEF TypeOK
<1> QED
  BY <1>1 DEF Rows

LEMMA EditInv ==
  ASSUME IInv, NEW b \in Batches, Edit(b), agreed' \in [Batches -> 0 .. MaxEvents]
  PROVE  TypeOK' /\ HoldInv' /\ ViewInv' /\ SavedOnce'
<1> USE ImportAssumption DEF IInv, Edit
<1>1. TypeOK'
  BY DEF TypeOK, workVars, EventsGrow
<1>2. ASSUME NEW e \in EventIds, phase'[e] = "checked"
      PROVE  /\ phase[e] = "checked" /\ e \in DOMAIN events /\ events'[e] = events[e]
             /\ events[e].batch \in Batches \ {b} /\ e \notin processed'
  <2>1. phase[e] = "checked" /\ e \in DOMAIN events /\ events[e].batch # b
    BY <1>2 DEF HoldInv, Locked, workVars
  <2>2. events[e] \in Events
    BY <2>1 DEF TypeOK
  <2> QED
    BY <2>1, <2>2 DEF HoldInv, EventsGrow, Events
<1>3. HoldInv'
  BY <1>2 DEF HoldInv, EventsGrow
<1>4. ViewInv'
  <2> SUFFICES ASSUME NEW u \in Users, view[u] # NoView
               PROVE  LET row == batch'[view[u].batch] IN
                        /\ row.status # "absent" /\ view[u].version <= row.version
                        /\ view[u].version = row.version => view[u].stamp = row.stamp
    BY DEF ViewInv
  <2>1. view[u] \in Views /\ batch[view[u].batch] \in Rows /\ batch[b] \in Rows /\ batch[b].version + 1 \in Nat
    <3>1. TypeOK
      OBVIOUS
    <3> QED
      BY <3>1, ViewType, RowType
  <2> QED
    BY <2>1 DEF ViewInv, Views, Rows
<1>5. SavedOnce'
  BY DEF SavedOnce
<1> QED
  BY <1>1, <1>3, <1>4, <1>5

\* The row a person acts on is the one the person has seen.
LEMMA FreshRow ==
  ASSUME IInv, NEW u \in Users, Fresh(u)
  PROVE  /\ view[u] \in Views /\ view[u].batch \in Batches
         /\ ~Locked(view[u].batch) /\ view[u].stamp = batch[view[u].batch].stamp
BY DEF IInv, TypeOK, ViewInv, Fresh, Views

LEMMA EventBatch ==
  ASSUME TypeOK, NEW e \in DOMAIN events
  PROVE  e \in EventIds /\ events[e] \in Events /\ events[e].batch \in Batches
<1>1. events[e] \in Events /\ e \in 1 .. Len(events) /\ Len(events) \in Nat
  BY DEF TypeOK
<1> QED
  BY <1>1, ImportAssumption DEF TypeOK, Events, EventIds

\* A handler that finds the batch moved on changes nothing but its event.
LEMMA ReplayedInv ==
  ASSUME IInv, NEW e \in DOMAIN events, ~Locked(events[e].batch), Replayed(e)
  PROVE  IInv'
<1> USE DEF IInv, Replayed, workVars
<1>1. TypeOK'
  BY DEF TypeOK
<1>2. HoldInv'
  BY DEF HoldInv, Locked
<1>3. QED
  BY <1>1, <1>2 DEF ViewInv, StampInv, SavedOnce, SavesWhatWasReviewed

LEMMA MarkFailedInv ==
  ASSUME IInv, NEW e \in DOMAIN events, ~Locked(events[e].batch),
         batch[events[e].batch].status = "committing",
         NEW why \in Reasons, MarkFailed(e, why)
  PROVE  IInv'
<1> DEFINE b == events[e].batch
<1>1. b \in Batches /\ batch[b] \in Rows /\ batch[b].version + 1 \in Nat
  BY EventBatch DEF IInv, TypeOK, Rows
<1>2. Edit(b)
  BY <1>1 DEF IInv, TypeOK, MarkFailed, Edit, EventsGrow, Rows, Statuses
<1>3. StampInv' /\ SavesWhatWasReviewed'
  BY <1>1 DEF IInv, TypeOK, Rows, MarkFailed, StampInv, SavesWhatWasReviewed
<1> QED
  BY <1>1, <1>2, <1>3, EditInv DEF IInv, TypeOK, MarkFailed

-----------------------------------------------------------------------------
LEMMA StepInv == IInv /\ [Next]_vars => IInv'
<1> SUFFICES ASSUME IInv, [Next]_vars PROVE IInv'
  OBVIOUS
<1>1. ASSUME NEW b \in Batches, NEW f \in Files, NEW s \in Sheets \cup {NoSheet}, Create(b, f, s)
      PROVE IInv'
  <2>1. EventsGrow /\ processed' = processed /\ processed' \subseteq DOMAIN events'
    BY <1>1, Queued DEF IInv, Create
  <2>2. ~Locked(b)
    BY <1>1, EventBatch DEF IInv, Create, HoldInv, Locked
  <2>3. batch[b] \in Rows
    BY <1>1 DEF IInv, TypeOK
  <2>4. batch'[b] \in Rows
    BY <1>1, ImportAssumption DEF IInv, TypeOK, Create, Rows, Statuses, Reasons
  <2>5. Edit(b)
    BY <1>1, <2>1, <2>2, <2>3, <2>4 DEF IInv, TypeOK, Create, Edit
  <2>6. StampInv' /\ SavesWhatWasReviewed'
    BY <1>1 DEF IInv, TypeOK, Rows, Create, StampInv, SavesWhatWasReviewed
  <2> QED
    BY <1>1, <2>5, <2>6, EditInv DEF IInv, TypeOK, Create
<1>2. ASSUME NEW u \in Users, NEW b \in Batches, Read(u, b) PROVE IInv'
  <2> USE <1>2 DEF IInv, Read, queueVars, workVars
  <2>1. TypeOK'
    BY DEF TypeOK, Rows, Views
  <2>2. ViewInv'
    BY DEF ViewInv, TypeOK, Rows
  <2> QED
    BY <2>1, <2>2 DEF HoldInv, StampInv, SavedOnce, SavesWhatWasReviewed
<1>3. ASSUME NEW u \in Users, CommitRequest(u) PROVE IInv'
  <2> DEFINE b == view[u].batch
  <2>1. b \in Batches /\ batch[b] \in Rows /\ batch[b].version + 1 \in Nat /\ ~Locked(b) /\ view[u].stamp = batch[b].stamp
    BY <1>3, FreshRow DEF IInv, TypeOK, CommitRequest, Rows
  <2>2. EventsGrow /\ processed' = processed /\ processed' \subseteq DOMAIN events'
    BY <1>3, <2>1, Queued DEF IInv, CommitRequest
  <2>3. Edit(b)
    <3>1. batch'[b] = [batch[b] EXCEPT !.status = "committing", !.reason = "none", !.version = @ + 1]
      BY <1>3, <2>1 DEF IInv, TypeOK, CommitRequest
    <3>2. batch'[b] \in Rows
      BY <2>1, <3>1 DEF Rows, Statuses, Reasons
    <3> QED
      BY <1>3, <2>1, <2>2, <3>2 DEF IInv, TypeOK, CommitRequest, Edit, Rows
  <2>4. agreed' \in [Batches -> 0 .. MaxEvents]
    BY <1>3, <2>1 DEF IInv, TypeOK, CommitRequest, Rows
  <2>5. StampInv' /\ SavesWhatWasReviewed'
    BY <1>3, <2>1 DEF IInv, TypeOK, Rows, CommitRequest, StampInv, SavesWhatWasReviewed
  <2> QED
    BY <2>1, <2>3, <2>4, <2>5, EditInv DEF IInv
<1>4. ASSUME NEW u \in Users, Cancel(u) PROVE IInv'
  <2> DEFINE b == view[u].batch
  <2>1. b \in Batches /\ batch[b] \in Rows /\ batch[b].version + 1 \in Nat /\ ~Locked(b)
    BY <1>4, FreshRow DEF IInv, TypeOK, Cancel, Rows
  <2>2. Edit(b)
    <3>1. batch'[b] = [batch[b] EXCEPT !.status = "cancelled", !.version = @ + 1]
      BY <1>4, <2>1 DEF IInv, TypeOK, Cancel
    <3>2. batch'[b] \in Rows
      BY <2>1, <3>1 DEF Rows, Statuses
    <3> QED
      BY <1>4, <2>1, <3>2 DEF IInv, TypeOK, Cancel, Edit, EventsGrow, Rows, queueVars
  <2>3. StampInv' /\ SavesWhatWasReviewed'
    BY <1>4, <2>1 DEF IInv, TypeOK, Rows, Cancel, StampInv, SavesWhatWasReviewed
  <2> QED
    BY <1>4, <2>1, <2>2, <2>3, EditInv DEF IInv, TypeOK, Cancel
<1>5. ASSUME NEW u \in Users, Revalidate(u) PROVE IInv'
  <2> DEFINE b == view[u].batch
  <2>1. b \in Batches /\ batch[b] \in Rows /\ batch[b].version + 1 \in Nat /\ ~Locked(b)
    BY <1>5, FreshRow DEF IInv, TypeOK, Revalidate, Rows
  <2>2. EventsGrow /\ processed' = processed /\ processed' \subseteq DOMAIN events'
    BY <1>5, <2>1, Queued DEF IInv, Revalidate
  <2>3. Edit(b)
    <3>1. batch'[b] = [batch[b] EXCEPT !.status = "validating", !.reason = "none", !.version = @ + 1]
      BY <1>5, <2>1 DEF IInv, TypeOK, Revalidate
    <3>2. batch'[b] \in Rows
      BY <2>1, <3>1 DEF Rows, Statuses, Reasons
    <3> QED
      BY <1>5, <2>1, <2>2, <3>2 DEF IInv, TypeOK, Revalidate, Edit, Rows
  <2>4. StampInv' /\ SavesWhatWasReviewed'
    BY <1>5, <2>1 DEF IInv, TypeOK, Rows, Revalidate, StampInv, SavesWhatWasReviewed
  <2> QED
    BY <1>5, <2>1, <2>3, <2>4, EditInv DEF IInv, TypeOK, Revalidate
<1>6. CASE SwitchUnit
  BY <1>6 DEF SwitchUnit, IInv, TypeOK, HoldInv, ViewInv, StampInv, SavedOnce,
     SavesWhatWasReviewed, queueVars, workVars
<1>7. ASSUME NEW e \in EventIds, Validate(e) PROVE IInv'
  <2> DEFINE b == events[e].batch
  <2>1. /\ e \in DOMAIN events \ processed /\ ~Locked(b)
        /\ b \in Batches /\ batch[b] \in Rows /\ batch[b].version + 1 \in Nat
    <3>1. e \in DOMAIN events \ processed /\ ~Locked(b)
      BY <1>7 DEF Validate, Waiting
    <3>2. b \in Batches /\ batch[b] \in Rows
      BY <3>1, EventBatch DEF IInv, TypeOK
    <3> QED
      BY <3>1, <3>2 DEF Rows
  <2>2. CASE ~LockBatch(b, "validating")
    BY <1>7, <2>1, <2>2, ReplayedInv DEF Validate
  <2>3. CASE LockBatch(b, "validating")
    <3>1. PICK bad \in BOOLEAN :
            batch' = [batch EXCEPT ![b].status = "validated", ![b].errors = bad,
                                   ![b].stamp = e, ![b].version = @ + 1]
      BY <1>7, <2>3 DEF Validate
    <3>2. /\ processed' = processed \cup {e}
          /\ UNCHANGED <<events, workVars, written, unitActive, view, agreed>>
      BY <1>7, <2>3 DEF Validate
    <3>3. e \in 1 .. MaxEvents /\ e > 0
      BY ImportAssumption DEF EventIds
    <3>4. batch'[b] \in Rows
      <4>1. batch'[b] = [batch[b] EXCEPT !.status = "validated", !.errors = bad, !.stamp = e,
                                         !.version = @ + 1]
        BY <2>1, <3>1 DEF IInv, TypeOK
      <4>2. e \in 0 .. MaxEvents
        BY <3>3, ImportAssumption
      <4> QED
        BY <2>1, <4>1, <4>2 DEF Rows, Statuses
    <3>5. Edit(b)
      BY <2>1, <2>3, <3>1, <3>2, <3>4 DEF LockBatch, IInv, TypeOK, Edit, EventsGrow, Rows
    <3>6. StampInv' /\ SavesWhatWasReviewed'
      BY <2>1, <3>1, <3>2, <3>3 DEF IInv, TypeOK, Rows, StampInv, SavesWhatWasReviewed
    <3> QED
      BY <2>1, <3>2, <3>5, <3>6, EditInv DEF IInv, TypeOK
  <2> QED
    BY <2>2, <2>3
<1>8. ASSUME NEW e \in EventIds, CommitCheck(e) PROVE IInv'
  <2> DEFINE b == events[e].batch
  <2>1. /\ e \in DOMAIN events \ processed /\ events[e].kind = "commit"
        /\ ~Locked(b) /\ b \in Batches /\ batch[b] \in Rows /\ batch[b].version + 1 \in Nat
    BY <1>8, EventBatch DEF CommitCheck, Waiting, IInv, TypeOK, Rows
  <2>2. CASE ~LockBatch(b, "committing")
    BY <1>8, <2>1, <2>2, ReplayedInv DEF CommitCheck
  <2>3. CASE LockBatch(b, "committing") /\ \E why \in Reasons : MarkFailed(e, why)
    BY <2>1, <2>3, MarkFailedInv DEF LockBatch
  <2>4. CASE /\ LockBatch(b, "committing")
             /\ phase' = [phase EXCEPT ![e] = "checked"]
             /\ UNCHANGED <<batch, queueVars, aborts, written, unitActive, view, agreed>>
    <3> USE <2>1, <2>4 DEF IInv, queueVars
    <3>1. TypeOK'
      BY DEF TypeOK
    <3>2. HoldInv'
      BY DEF HoldInv, TypeOK, Locked, LockBatch
    <3> QED
      BY <3>1, <3>2 DEF ViewInv, StampInv, SavedOnce, SavesWhatWasReviewed
  <2> QED
    BY <1>8, <2>2, <2>3, <2>4 DEF CommitCheck, Reasons
<1>9. ASSUME NEW e \in EventIds, CommitWrite(e) PROVE IInv'
  <2> DEFINE b == events[e].batch
  <2>1. /\ e \in DOMAIN events \ processed /\ phase[e] = "checked"
        /\ b \in Batches /\ batch[b] \in Rows /\ batch[b].version + 1 \in Nat /\ batch[b].status = "committing"
    BY <1>9, EventBatch DEF CommitWrite, IInv, HoldInv, TypeOK, Rows
  <2>2. /\ batch' = [batch EXCEPT ![b].status = "committed", ![b].version = @ + 1]
        /\ written' = [written EXCEPT ![b] = @ + 1]
        /\ processed' = processed \cup {e} /\ phase' = [phase EXCEPT ![e] = "idle"]
        /\ UNCHANGED <<events, aborts, unitActive, view, agreed>>
    BY <1>9 DEF CommitWrite
  <2>3. TypeOK'
    <3>1. batch'[b] = [batch[b] EXCEPT !.status = "committed", !.version = @ + 1]
      BY <2>1, <2>2 DEF IInv, TypeOK
    <3>2. batch'[b] \in Rows
      BY <2>1, <3>1 DEF Rows, Statuses
    <3>3. batch' \in [Batches -> Rows]
      BY <2>2, <3>2 DEF IInv, TypeOK
    <3>4. written' \in [Batches -> Nat] /\ phase' \in [EventIds -> {"idle", "checked"}]
      BY <2>1, <2>2 DEF IInv, TypeOK
    <3> QED
      BY <2>1, <2>2, <3>3, <3>4 DEF IInv, TypeOK
  <2>4. HoldInv'
    <3>1. \A d \in EventIds : phase'[d] = "checked" =>
            d # e /\ phase[d] = "checked" /\ d \in DOMAIN events /\ events[d].batch # b
      <4>1. phase \in [EventIds -> {"idle", "checked"}] /\ HoldInv
        BY DEF IInv, TypeOK
      <4>2. \A d \in EventIds : phase'[d] = "checked" => d # e /\ phase[d] = "checked"
        BY <2>2, <4>1
      <4> QED
        BY <2>1, <2>2, <4>1, <4>2 DEF HoldInv
    <3>2. \A c \in Batches \ {b} : batch'[c] = batch[c]
      BY <2>2 DEF IInv, TypeOK
    <3> QED
      <4>1. \A d \in DOMAIN events : events[d].batch \in Batches
        BY EventBatch DEF IInv
      <4>2. HoldInv
        BY DEF IInv
      <4>3. ASSUME NEW d \in EventIds, phase'[d] = "checked"
            PROVE  /\ d \in DOMAIN events \ processed' /\ events[d].kind = "commit"
                   /\ phase[d] = "checked" /\ batch'[events[d].batch].status = "committing"
        <5>1. d # e /\ phase[d] = "checked" /\ events[d].batch \in Batches \ {b}
          BY <3>1, <4>1, <4>3
        <5> QED
          BY <2>2, <3>2, <4>2, <5>1 DEF HoldInv
      <4> HIDE DEF b
      <4> QED
        BY <2>2, <4>2, <4>3 DEF HoldInv
  <2>5. ViewInv'
    <3>1. /\ batch'[b].status = "committed" /\ batch'[b].version = batch[b].version + 1
          /\ batch'[b].stamp = batch[b].stamp /\ \A c \in Batches \ {b} : batch'[c] = batch[c]
      BY <2>1, <2>2 DEF IInv, TypeOK, Rows
    <3> SUFFICES ASSUME NEW u \in Users, view[u] # NoView
                 PROVE  LET row == batch'[view[u].batch] IN
                          /\ row.status # "absent" /\ view[u].version <= row.version
                          /\ view[u].version = row.version => view[u].stamp = row.stamp
      BY <2>2 DEF ViewInv
    <3>2. view[u] \in Views
      BY DEF IInv, TypeOK
    <3> QED
      BY <2>1, <3>1, <3>2 DEF IInv, ViewInv, Views, Rows
  <2>6. StampInv' /\ SavesWhatWasReviewed'
    BY <2>1, <2>2 DEF IInv, TypeOK, Rows, StampInv, SavesWhatWasReviewed
  <2>7. SavedOnce'
    BY <2>1, <2>2 DEF IInv, TypeOK, Rows, SavedOnce
  <2> QED
    BY <2>3, <2>4, <2>5, <2>6, <2>7 DEF IInv
<1>10. ASSUME NEW e \in EventIds, Rollback(e) PROVE IInv'
  <2> USE <1>10 DEF IInv, Rollback, queueVars
  <2>1. TypeOK'
    <3>1. aborts' \in [EventIds -> 0 .. MaxAborts]
      <4>1. aborts[e] \in 0 .. MaxAborts /\ MaxAborts \in Nat
        BY ImportAssumption DEF TypeOK
      <4> QED
        BY <4>1 DEF TypeOK
    <3> QED
      BY <3>1 DEF TypeOK
  <2>2. HoldInv'
    BY DEF HoldInv, TypeOK
  <2> QED
    BY <2>1, <2>2 DEF ViewInv, StampInv, SavedOnce, SavesWhatWasReviewed
<1>11. ASSUME NEW e \in EventIds, FailImport(e) PROVE IInv'
  <2> DEFINE b == events[e].batch
  <2>1. /\ e \in DOMAIN events /\ ~Locked(b) /\ b \in Batches /\ batch[b] \in Rows /\ batch[b].version + 1 \in Nat
        /\ UNCHANGED <<events, processed, workVars, written, unitActive, view, agreed>>
    BY <1>11, EventBatch DEF FailImport, IInv, TypeOK, queueVars, Rows
  <2>2. CASE batch' = batch
    BY <2>1, <2>2 DEF IInv, TypeOK, HoldInv, ViewInv, StampInv, SavedOnce,
       SavesWhatWasReviewed, workVars
  <2>3. CASE /\ batch[b].status \in {"validating", "committing"}
             /\ batch' = [batch EXCEPT ![b].status = "failed", ![b].reason = "exhausted",
                                       ![b].version = @ + 1]
    <3>1. Edit(b)
      <4>1. batch'[b] = [batch[b] EXCEPT !.status = "failed", !.reason = "exhausted", !.version = @ + 1]
        BY <2>1, <2>3 DEF IInv, TypeOK
      <4>2. batch'[b] \in Rows
        BY <2>1, <4>1 DEF Rows, Statuses, Reasons
      <4> QED
        BY <2>1, <2>3, <4>2 DEF IInv, TypeOK, Edit, EventsGrow, Rows
    <3>2. StampInv' /\ SavesWhatWasReviewed'
      BY <2>1, <2>3 DEF IInv, TypeOK, Rows, StampInv, SavesWhatWasReviewed
    <3> QED
      BY <2>1, <3>1, <3>2, EditInv DEF IInv, TypeOK
  <2> QED
    BY <1>11, <2>1, <2>2, <2>3, EventBatch DEF FailImport, InProgress, Events, IInv
<1>12. CASE UNCHANGED vars
  BY <1>12 DEF vars, queueVars, workVars, IInv, TypeOK, HoldInv, ViewInv, StampInv, SavedOnce,
     SavesWhatWasReviewed
<1> QED
  BY <1>1, <1>2, <1>3, <1>4, <1>5, <1>6, <1>7, <1>8, <1>9, <1>10, <1>11, <1>12
     DEF Next, Upload, Stage, Handle

\* The invariant holds in every reachable state.
THEOREM Invariance == Spec => []IInv
BY InitInv, StepInv, PTL DEF Spec

\* The records of a batch are saved once if it shows committed and not at all
\* if it shows anything else, over replayed events, attempts that roll back and
\* failImport running late (lockBatch, commitImport, failImport).
THEOREM SavedAsShown == Spec => []SavedOnce
<1>1. IInv => SavedOnce
  BY DEF IInv
<1> QED
  BY <1>1, Invariance, PTL

\* What is committed is the validation, without errors, that the person who
\* asked for it had on the screen: the version compared by the commit request
\* and the row lock of the worker leave no room for another validation.
THEOREM ReviewedIsSaved == Spec => []SavesWhatWasReviewed
<1>1. IInv => SavesWhatWasReviewed
  BY DEF IInv
<1> QED
  BY <1>1, Invariance, PTL

\* What was committed stays as it is.
CommittedIsFinal ==
  [][\A b \in Batches : batch[b].status = "committed" => batch'[b] = batch[b]]_vars

LEMMA CommittedStays ==
  ASSUME IInv, [Next]_vars, NEW c \in Batches, batch[c].status = "committed"
  PROVE  batch'[c] = batch[c]
<1> USE DEF IInv, TypeOK
<1>1. ASSUME NEW b \in Batches, NEW f \in Files, NEW s \in Sheets \cup {NoSheet}, Create(b, f, s)
      PROVE batch'[c] = batch[c]
  BY <1>1 DEF Create
<1>2. ASSUME NEW u \in Users, CommitRequest(u) \/ Cancel(u) \/ Revalidate(u)
      PROVE batch'[c] = batch[c]
  BY <1>2 DEF CommitRequest, Cancel, Revalidate
<1>3. ASSUME NEW e \in EventIds, Validate(e) PROVE batch'[c] = batch[c]
  BY <1>3 DEF Validate, LockBatch, Replayed
<1>4. ASSUME NEW e \in EventIds, CommitCheck(e) PROVE batch'[c] = batch[c]
  BY <1>4 DEF CommitCheck, LockBatch, Replayed, MarkFailed
<1>5. ASSUME NEW e \in EventIds, CommitWrite(e) PROVE batch'[c] = batch[c]
  BY <1>5 DEF CommitWrite, HoldInv
<1>6. ASSUME NEW e \in EventIds, FailImport(e) PROVE batch'[c] = batch[c]
  <2>1. events[e] \in Events
    BY <1>6 DEF FailImport
  <2> QED
    BY <1>6, <2>1 DEF FailImport, InProgress, Events
<1> QED
  BY <1>1, <1>2, <1>3, <1>4, <1>5, <1>6
     DEF Next, Upload, Stage, Handle, Read, SwitchUnit, Rollback, vars

\* No handler touches a batch again once it is committed: not a replayed or a
\* late event, and not a person with an old view of it.
THEOREM CommittedForGood == Spec => CommittedIsFinal
<1>1. IInv /\ [Next]_vars => [\A b \in Batches : batch[b].status = "committed" => batch'[b] = batch[b]]_vars
  BY CommittedStays
<1> QED
  BY <1>1, Invariance, PTL DEF Spec, CommittedIsFinal

(***************************************************************************)
(* Records and the references between them.                                *)
(***************************************************************************)

\* What refers to records that have to be active, and what it refers to.
UserKeys == Items \cup Sources \cup Settings \cup Routings
UsedKeys == Units \cup Profiles \cup Resources
Kinds == {Units, Items, Profiles, Settings, Calendars, Resources, Sources, Boms, Routings}
AnyChange == [key : Keys, to : Records]

TxOK(x) ==
  /\ x = [to |-> x.to, new |-> x.new, read |-> x.read, overtaken |-> x.overtaken]
  /\ x.to \subseteq AnyChange /\ x.overtaken \in BOOLEAN

TypesOK ==
  /\ rec \in [Keys -> Records \cup {None}]
  /\ tx = [a \in Actors |-> tx[a]]
  /\ \A a \in Actors : tx[a] # None => TxOK(tx[a])

\* What a check has found and nobody has changed since: no revision of W meets a
\* day of another, what W refers to is active, what it switches off is not in
\* use, and its components make no loop.
DocumentsApart(W) ==
  \A c \in W : c.key \in Documents /\ c.to.active =>
    /\ \A d \in Documents : Rival(d, c.key) /\ Active(d) => rec[d].span \cap c.to.span = {}
    /\ \A o \in W : Rival(o.key, c.key) => o.to.span \cap c.to.span = {}

\* Whatever the row of a file says, the status of a record stays as it is.
Refers(a, c) == c.key \in UserKeys /\ (c.to.active \/ a # Api)
UsesActive(a, W) == \A c \in W : Refers(a, c) => \A k \in c.to.uses : Active(k)

Unused(W) ==
  \A c \in W : c.key \in UsedKeys \ late /\ ~c.to.active =>
    \A u \in UsersOf(c.key) \ late : ~Needs(u, c.key)

LoopFree(W) == KeysOf(W) \cap Boms # {} /\ late \cap Boms = {} => Loops(Edges(W)) = {}

OneKind(W) ==
  /\ \A c, o \in W : o.key \notin UsersOf(c.key)
  /\ KeysOf(W) \cap Boms # {} => KeysOf(W) \subseteq Boms

\* Whoever changes what a check has seen is noticed.
ReadAll(a, W, R) ==
  /\ KeysOf(W) \subseteq R
  /\ \A c \in W : UsersOf(c.key) \subseteq R /\ (Refers(a, c) => c.to.uses \subseteq R)
  /\ \A c \in W : \A d \in Documents : Rival(d, c.key) => d \in R
  /\ KeysOf(W) \cap Boms # {} => Boms \subseteq R

Sound(a, W, R) ==
  /\ DocumentsApart(W) /\ UsesActive(a, W) /\ Unused(W) /\ LoopFree(W)
  /\ OneKind(W) /\ ReadAll(a, W, R)

TxInv == \A a \in Actors : tx[a] # None /\ ~tx[a].overtaken => Sound(a, tx[a].to, tx[a].read)

MastersInv == TypesOK /\ NoLoop /\ RevisionsApart /\ InUseIsActive /\ TxInv

(***************************************************************************)
(* Kinds, loops and what a check reads.                                    *)
(***************************************************************************)

\* What may need a record is of another kind.
LEMMA UsersApart ==
  ASSUME NEW kind \in Kinds, NEW k \in kind, NEW j \in kind
  PROVE  j \notin UsersOf(k)
BY KindsAssumption DEF Kinds, UsersOf, Documents

\* What is not of a kind that is used has no users.
LEMMA NoUsers == \A k : k \notin UsedKeys => UsersOf(k) = {}
BY DEF UsedKeys, UsersOf

LEMMA RivalsOfDocuments ==
  ASSUME NEW k, NEW j, Rival(k, j), k \in Documents \/ j \in Documents
  PROVE  k \in Documents /\ j \in Documents /\ Rival(j, k)
BY KindsAssumption DEF Rival, Documents

\* Of no loop, a part makes none.
LEMMA LoopsGrow ==
  ASSUME NEW E, NEW F, E \subseteq F, Loops(F) = {}
  PROVE  Loops(E) = {}
<1>1. ASSUME NEW S \in Loops(E) PROVE S \in Loops(F)
  <2>1. S \in (SUBSET Items) \ {{}}
    BY DEF Loops
  <2>2. \A i \in S : (\E j \in S : <<i, j>> \in F) /\ (\E j \in S : <<j, i>> \in F)
    BY DEF Loops
  <2> QED
    BY <2>1, <2>2 DEF Loops
<1> QED
  BY <1>1

LEMMA EdgeIs ==
  ASSUME NEW C, NEW i, NEW j
  PROVE  <<i, j>> \in Edges(C) <=>
           \/ \E b \in Boms \ KeysOf(C) : Active(b) /\ i = b.item /\ j \in rec[b].uses
           \/ \E c \in C : c.to.active /\ i = c.key.item /\ j \in c.to.uses
<1> DEFINE old == {x \in Boms \ KeysOf(C) : Active(x)}
           new == {x \in C : x.to.active}
           A == UNION {{b.item} \X rec[b].uses : b \in old}
           B == UNION {{c.key.item} \X c.to.uses : c \in new}
<1>1. Edges(C) = A \cup B
  BY DEF Edges
<1>2. <<i, j>> \in A <=> \E b \in old : i = b.item /\ j \in rec[b].uses
  <2>1. \A b : <<i, j>> \in {b.item} \X rec[b].uses <=> i = b.item /\ j \in rec[b].uses
    OBVIOUS
  <2> HIDE DEF old
  <2> QED
    BY <2>1
<1>3. <<i, j>> \in B <=> \E c \in new : i = c.key.item /\ j \in c.to.uses
  <2>1. \A c : <<i, j>> \in {c.key.item} \X c.to.uses <=> i = c.key.item /\ j \in c.to.uses
    OBVIOUS
  <2> HIDE DEF new
  <2> QED
    BY <2>1
<1> HIDE DEF A, B
<1> QED
  BY <1>1, <1>2, <1>3

\* A loop outside the BOMs of C was one before.
LEMMA LoopSeen ==
  ASSUME NEW C, ~LoopRefuses(C), Loops(Edges({})) = {}
  PROVE  Loops(Edges(C)) = {}
<1> SUFFICES ASSUME Loops(Edges(C)) # {} PROVE FALSE
  OBVIOUS
<1>1. PICK S \in Loops(Edges(C)) : S \cap {c.key.item : c \in C} = {}
  BY DEF LoopRefuses
<1>2. \A i \in S : \A j : <<i, j>> \in Edges(C) => <<i, j>> \in Edges({})
  <2> SUFFICES ASSUME NEW i \in S, NEW j, <<i, j>> \in Edges(C) PROVE <<i, j>> \in Edges({})
    OBVIOUS
  <2>1. ~ \E c \in C : c.to.active /\ i = c.key.item /\ j \in c.to.uses
    BY <1>1
  <2>2. PICK b \in Boms \ KeysOf(C) : Active(b) /\ i = b.item /\ j \in rec[b].uses
    BY <2>1, EdgeIs
  <2>3. b \in Boms \ KeysOf({})
    BY DEF KeysOf
  <2> QED
    BY <2>2, <2>3, EdgeIs
<1>3. S \in Loops(Edges({}))
  BY <1>1, <1>2 DEF Loops
<1> QED
  BY <1>3

\* Each change to be written is one that was asked for, with what it refers to.
From(a, W, C) ==
  \A c \in W : \E d \in C : d.key = c.key /\ (Refers(a, c) => c.to.uses \subseteq d.to.uses)

LEMMA ReadsAll ==
  ASSUME NEW a, NEW W, NEW C, From(a, W, C)
  PROVE  ReadAll(a, W, ReadBy(C))
<1> DEFINE R == ReadBy(C)
<1>1. ASSUME NEW c \in W
      PROVE  /\ c.key \in R /\ UsersOf(c.key) \subseteq R /\ (Refers(a, c) => c.to.uses \subseteq R)
             /\ \A d \in Documents : Rival(d, c.key) => d \in R
             /\ c.key \in Boms => Boms \subseteq R
  <2>1. PICK d \in C : d.key = c.key /\ (Refers(a, c) => c.to.uses \subseteq d.to.uses)
    BY DEF From
  <2>2. d.key \in R /\ d.to.uses \subseteq R /\ UsersOf(d.key) \subseteq R
    <3>1. d.key \in KeysOf(C)
      BY DEF KeysOf
    <3>2. d.to.uses \cup UsersOf(d.key) \subseteq UNION {c_1.to.uses \cup UsersOf(c_1.key) : c_1 \in C}
      OBVIOUS
    <3> QED
      BY <3>1, <3>2 DEF ReadBy
  <2>3. \A e \in Documents : Rival(e, d.key) => e \in R
    <3>1. \A e \in Documents : Rival(e, d.key) => e \in {k \in Documents : \E c_1 \in C : Rival(k, c_1.key)}
      OBVIOUS
    <3> QED
      BY <3>1 DEF ReadBy
  <2>4. d.key \in Boms => Boms \subseteq R
    <3>1. d.key \in KeysOf(C)
      BY DEF KeysOf
    <3>2. ASSUME d.key \in Boms PROVE Boms \subseteq R
      <4>1. KeysOf(C) \cap Boms # {}
        BY <3>1, <3>2
      <4> QED
        BY <4>1 DEF ReadBy
    <3> QED
      BY <3>2
  <2> HIDE DEF R
  <2> QED
    BY <2>1, <2>2, <2>3, <2>4
<1> HIDE DEF R
<1>2. \A k \in KeysOf(W) : \E c \in W : k = c.key
  BY DEF KeysOf
<1>3. ReadAll(a, W, R)
  BY <1>1, <1>2 DEF ReadAll
<1> QED
  BY <1>3 DEF R

LEMMA KindIsOne ==
  ASSUME NEW W, NEW kind \in Kinds, KeysOf(W) \subseteq kind
  PROVE  OneKind(W)
<1>1. \A c \in W : c.key \in kind
  BY DEF KeysOf
<1>2. kind \cap Boms # {} => kind = Boms
  BY KindsAssumption DEF Kinds, Documents
<1> QED
  BY <1>1, <1>2, UsersApart DEF OneKind

(***************************************************************************)
(* A check that has passed.                                                *)
(***************************************************************************)

\* What nobody changed is still as it was checked.
LEMMA StaysSound ==
  ASSUME NEW a, NEW W, W \subseteq AnyChange, NEW Q, Sound(a, W, Q),
         \A k \in Q \cap Keys : rec'[k] = rec[k], late \subseteq late'
  PROVE  Sound(a, W, Q)'
<1> DEFINE R == Q \cap Keys
<1>0. ReadAll(a, W, R)
  <2>1. \A c \in W : c.key \in Keys /\ c.to.uses \subseteq Keys
    BY DEF AnyChange, Records
  <2>2. Documents \subseteq Keys /\ \A k : UsersOf(k) \subseteq Keys
    BY DEF Keys, UsersOf, Documents
  <2>3. KeysOf(W) \subseteq Keys
    BY <2>1 DEF KeysOf
  <2> QED
    BY <2>1, <2>2, <2>3 DEF Sound, ReadAll, Documents
<1>1. \A k \in R : rec'[k] = rec[k] /\ Exists(k)' = Exists(k) /\ Active(k)' = Active(k)
  BY DEF Exists, Active
<1> HIDE DEF R
<1>2. ReadAll(a, W, R)
  BY <1>0
<1>3. DocumentsApart(W)'
  <2>1. DocumentsApart(W)
    BY DEF Sound
  <2>2. \A c \in W, d \in Documents : Rival(d, c.key) => d \in R
    BY <1>2 DEF ReadAll
  <2> QED
    BY <1>1, <2>1, <2>2 DEF DocumentsApart
<1>4. UsesActive(a, W)'
  <2>1. UsesActive(a, W)
    BY DEF Sound
  <2>2. \A c \in W : Refers(a, c) => c.to.uses \subseteq R
    BY <1>2 DEF ReadAll
  <2> QED
    BY <1>1, <2>1, <2>2 DEF UsesActive
<1>5. Unused(W)'
  <2>1. Unused(W)
    BY DEF Sound
  <2>2. \A c \in W : UsersOf(c.key) \subseteq R
    BY <1>2 DEF ReadAll
  <2>3. \A k, u \in R : Needs(u, k)' = Needs(u, k)
    BY <1>1 DEF Needs
  <2>4. \A u \in R : \A k : Needs(u, k)' = Needs(u, k)
    BY <1>1 DEF Needs
  <2> QED
    BY <2>1, <2>2, <2>4 DEF Unused
<1>6. LoopFree(W)'
  <2> SUFFICES ASSUME KeysOf(W) \cap Boms # {}, late' \cap Boms = {} PROVE Loops(Edges(W)') = {}
    BY DEF LoopFree
  <2>1. Loops(Edges(W)) = {}
    BY DEF Sound, LoopFree
  <2>2. Boms \subseteq R
    BY <1>2 DEF ReadAll
  <2>3. Edges(W)' = Edges(W)
    <3>1. {x \in Boms \ KeysOf(W) : Active(x)'} = {x \in Boms \ KeysOf(W) : Active(x)}
      BY <1>1, <2>2
    <3>2. \A x \in Boms : rec'[x] = rec[x]
      BY <1>1, <2>2
    <3> QED
      BY <3>1, <3>2 DEF Edges
  <2> QED
    BY <2>1, <2>3
<1>7. OneKind(W)' /\ ReadAll(a, W, Q)'
  BY DEF Sound, OneKind, ReadAll, Refers
<1> QED
  BY <1>3, <1>4, <1>5, <1>6, <1>7 DEF Sound

LEMMA BeginStep ==
  ASSUME MastersInv, NEW a \in Actors, NEW C, NEW W, W \subseteq AnyChange,
         Sound(a, W, ReadBy(C)), Begin(a, C, W)
  PROVE  MastersInv'
<1>1. PICK x : x = [to |-> W, new |-> {k \in KeysOf(W) : ~Exists(k)}, read |-> ReadBy(C), overtaken |-> FALSE]
  OBVIOUS
<1>2. tx' = [tx EXCEPT ![a] = x] /\ rec' = rec /\ late' = late /\ unchecked' = unchecked
  BY <1>1 DEF Begin
<1>3. x.to = W /\ x.read = ReadBy(C) /\ TxOK(x)
  BY <1>1 DEF TxOK
<1>4. \A b \in Actors : tx'[b] = IF b = a THEN x ELSE tx[b]
  BY <1>2 DEF MastersInv, TypesOK
<1>5. TypesOK'
  <2>1. tx' = [b \in Actors |-> tx'[b]]
    BY <1>2 DEF MastersInv, TypesOK
  <2>2. \A b \in Actors : tx'[b] # None => TxOK(tx'[b])
    BY <1>3, <1>4 DEF MastersInv, TypesOK
  <2> QED
    BY <1>2, <2>1, <2>2 DEF MastersInv, TypesOK, TxOK
<1>6. NoLoop' /\ RevisionsApart' /\ InUseIsActive'
  BY <1>2 DEF MastersInv, NoLoop, RevisionsApart, InUseIsActive, Edges, Active, Exists, Needs
<1>7. TxInv'
  <2>1. ASSUME NEW b \in Actors, tx'[b] # None, ~tx'[b].overtaken
        PROVE  (Sound(b, tx[b].to, tx[b].read))'
    <3>1. PICK V, Q : V = tx'[b].to /\ Q = tx'[b].read
      OBVIOUS
    <3>2. Sound(b, V, Q)
      BY <1>3, <1>4, <2>1, <3>1 DEF MastersInv, TxInv
    <3>3. Sound(b, V, Q)'
      <4>1. V \subseteq AnyChange
        BY <1>3, <1>4, <2>1, <3>1 DEF MastersInv, TypesOK, TxOK
      <4> QED
        BY <1>2, <3>2, <4>1, StaysSound
    <3> QED
      BY <3>1, <3>3
  <2> QED
    BY <2>1 DEF TxInv
<1> QED
  BY <1>5, <1>6, <1>7 DEF MastersInv

(***************************************************************************)
(* What a write does.                                                      *)
(***************************************************************************)

\* What a record is after W has been written.
Becomes(a, W) ==
  [k \in Keys |->
     IF k \in KeysOf(W) THEN Written(CHOOSE c \in W : c.key = k, a)
     ELSE IF LosesMark(k, W) THEN [rec[k] EXCEPT !.flag = FALSE]
     ELSE rec[k]]

LEMMA RecordIs ==
  ASSUME NEW r \in Records
  PROVE  /\ r = [active |-> r.active, uses |-> r.uses, span |-> r.span, flag |-> r.flag]
         /\ r # None
BY MastersAssumption DEF Records

\* Only calendars and sources lose their mark to another.
LEMMA LosesMarkKind ==
  ASSUME NEW k, NEW W, LosesMark(k, W)
  PROVE  k \in Calendars \cup Sources /\ Exists(k)
BY KindsAssumption DEF LosesMark, Rival, Documents

\* A record that is not written keeps everything but the mark.
LEMMA NotWritten ==
  ASSUME TypesOK, NEW a, NEW W, rec' = Becomes(a, W), NEW k \in Keys \ KeysOf(W)
  PROVE  /\ rec'[k] \in Records \cup {None}
         /\ Exists(k)' = Exists(k) /\ Active(k)' = Active(k)
         /\ Exists(k) => rec'[k].uses = rec[k].uses /\ rec'[k].span = rec[k].span
         /\ \A j : Needs(k, j)' = Needs(k, j)
<1>1. CASE LosesMark(k, W)
  <2>1. k \in Calendars \cup Sources /\ rec[k] \in Records
    BY <1>1, LosesMarkKind DEF TypesOK, Exists
  <2>2. k \notin Settings
    BY <2>1, KindsAssumption
  <2>3. rec'[k] = [rec[k] EXCEPT !.flag = FALSE]
    BY <1>1 DEF Becomes
  <2>4. /\ rec'[k] \in Records /\ rec[k] # None /\ rec'[k] # None
        /\ rec'[k].uses = rec[k].uses /\ rec'[k].span = rec[k].span /\ rec'[k].active = rec[k].active
    BY <2>1, <2>3, MastersAssumption DEF Records
  <2> QED
    BY <2>2, <2>4 DEF Exists, Active, Needs
<1>2. CASE ~LosesMark(k, W)
  <2>1. rec'[k] = rec[k]
    BY <1>2 DEF Becomes
  <2> QED
    BY <2>1 DEF TypesOK, Exists, Active, Needs
<1> QED
  BY <1>1, <1>2

\* A record that is written is what one of the changes says, up to the status of
\* an item or a source of a file.
LEMMA IsWritten ==
  ASSUME TypesOK, NEW a, NEW W, W \subseteq AnyChange, rec' = Becomes(a, W), NEW k \in KeysOf(W)
  PROVE  \E c \in W : /\ c.key = k /\ rec'[k] \in Records /\ Exists(k)'
                      /\ rec'[k].uses = c.to.uses /\ rec'[k].span = c.to.span
                      /\ k \notin Items \cup Sources \/ a = Api => rec'[k].active = c.to.active
<1> DEFINE c == CHOOSE c \in W : c.key = k
<1>1. c \in W /\ c.key = k
  BY DEF KeysOf
<1> HIDE DEF c
<1>2. k \in Keys /\ c.to \in Records
  BY <1>1 DEF AnyChange
<1>3. rec'[k] = Written(c, a)
  BY <1>2 DEF Becomes, c
<1>4. CASE a # Api /\ k \in Items \cup Sources /\ Exists(k)
  <2>1. rec'[k] = [c.to EXCEPT !.active = rec[k].active]
    BY <1>1, <1>3, <1>4 DEF Written
  <2>2. rec[k] \in Records
    BY <1>2, <1>4 DEF TypesOK, Exists
  <2>3. rec'[k] \in Records /\ rec'[k].uses = c.to.uses /\ rec'[k].span = c.to.span
    BY <1>2, <2>1, <2>2 DEF Records
  <2> QED
    BY <1>1, <1>4, <2>3, RecordIs DEF Exists
<1>5. CASE ~(a # Api /\ k \in Items \cup Sources /\ Exists(k))
  <2>1. rec'[k] = c.to
    BY <1>1, <1>3, <1>5 DEF Written
  <2> QED
    BY <1>1, <1>2, <2>1, RecordIs DEF Exists
<1> QED
  BY <1>4, <1>5

\* A transaction commits only what its guards have read, if nobody else has changed it since.
LEMMA CommitStep ==
  ASSUME MastersInv, NEW a \in Actors, Commit(a)
  PROVE  MastersInv'
<1>1. PICK W, R : W = tx[a].to /\ R = tx[a].read
  OBVIOUS
<1>2. PICK touched : touched = KeysOf(W) \cup {k \in Keys : LosesMark(k, W)}
  OBVIOUS
<1>3. TypesOK /\ tx[a] # None /\ W \subseteq AnyChange
  BY <1>1 DEF MastersInv, TypesOK, TxOK, Commit
<1>4. rec' = Becomes(a, W)
  BY <1>1 DEF Commit, Becomes
<1>5. late' = IF tx[a].overtaken THEN late \cup KeysOf(W) ELSE late
  BY <1>1 DEF Commit
<1>6. tx' = [b \in Actors |-> IF b = a \/ tx[b] = None THEN None
                              ELSE [tx[b] EXCEPT !.overtaken = @ \/ tx[b].read \cap touched # {}]]
  BY <1>1, <1>2 DEF Commit
<1>7. ~tx[a].overtaken => Sound(a, W, R)
  BY <1>1, <1>3 DEF MastersInv, TxInv
<1>8. \A k \in Keys \ KeysOf(W) :
        /\ rec'[k] \in Records \cup {None}
        /\ Exists(k)' = Exists(k) /\ Active(k)' = Active(k)
        /\ Exists(k) => rec'[k].uses = rec[k].uses /\ rec'[k].span = rec[k].span
        /\ \A j : Needs(k, j)' = Needs(k, j)
  BY <1>3, <1>4, NotWritten
<1>9. \A k \in KeysOf(W) :
        \E c \in W : /\ c.key = k /\ rec'[k] \in Records /\ Exists(k)'
                     /\ rec'[k].uses = c.to.uses /\ rec'[k].span = c.to.span
                     /\ k \notin Items \cup Sources \/ a = Api => rec'[k].active = c.to.active
  BY <1>3, <1>4, IsWritten
<1>10. \A k \in KeysOf(W) : k \in Keys
  BY <1>3 DEF KeysOf, AnyChange
<1>11. TypesOK'
  <2>1. \A k \in Keys : rec'[k] \in Records \cup {None}
    BY <1>8, <1>9
  <2>2. rec' \in [Keys -> Records \cup {None}]
    BY <1>4, <2>1 DEF Becomes
  <2>3. ASSUME NEW b \in Actors, tx'[b] # None PROVE TxOK(tx'[b])
    <3>1. b # a /\ tx[b] # None /\ tx'[b] = [tx[b] EXCEPT !.overtaken = @ \/ tx[b].read \cap touched # {}]
      BY <1>6, <2>3
    <3>2. TxOK(tx[b])
      BY <1>3, <3>1 DEF TypesOK
    <3> QED
      BY <3>1, <3>2 DEF TxOK
  <2>4. tx' = [b \in Actors |-> tx'[b]]
    BY <1>6
  <2> QED
    BY <2>2, <2>3, <2>4 DEF TypesOK, TxOK
<1>12. NoLoop'
  <2> SUFFICES ASSUME late' \cap Boms = {} PROVE Loops(Edges({})') = {}
    BY DEF NoLoop
  <2>1. late \cap Boms = {} /\ Loops(Edges({})) = {}
    BY <1>5 DEF MastersInv, NoLoop
  <2>2. CASE KeysOf(W) \cap Boms = {}
    <3>1. \A b \in Boms : Active(b)' = Active(b) /\ (Active(b) => rec'[b].uses = rec[b].uses)
      BY <1>8, <2>2 DEF Keys, Documents, Active
    <3>2. Edges({})' \subseteq Edges({})
      <4>1. ASSUME NEW e \in Edges({})' PROVE e \in Edges({})
        <5>1. PICK b \in Boms : Active(b)' /\ e \in {b.item} \X rec'[b].uses
          BY <4>1 DEF Edges
        <5>2. Active(b) /\ e \in {b.item} \X rec[b].uses
          BY <3>1, <5>1
        <5> QED
          BY <5>2 DEF Edges, KeysOf
      <4> QED
        BY <4>1
    <3> QED
      BY <2>1, <3>2, LoopsGrow
  <2>3. CASE KeysOf(W) \cap Boms # {}
    <3>1. ~tx[a].overtaken
      BY <1>5, <2>3
    <3>2. Loops(Edges(W)) = {}
      BY <1>7, <2>1, <2>3, <3>1 DEF Sound, LoopFree
    <3>3. Edges({})' \subseteq Edges(W)
      <4>1. ASSUME NEW e \in Edges({})' PROVE e \in Edges(W)
        <5>1. PICK b \in Boms : Active(b)' /\ e \in {b.item} \X rec'[b].uses
          BY <4>1 DEF Edges
        <5>2. b \in Keys /\ b \notin Items \cup Sources
          BY KindsAssumption DEF Keys, Documents
        <5>3. CASE b \in KeysOf(W)
          <6>1. PICK c \in W : /\ c.key = b /\ rec'[b].uses = c.to.uses /\ rec'[b].active = c.to.active
            BY <1>9, <5>2, <5>3
          <6>2. c.to.active /\ e \in {c.key.item} \X c.to.uses
            BY <5>1, <6>1 DEF Active
          <6> QED
            BY <6>2 DEF Edges
        <5>4. CASE b \notin KeysOf(W)
          <6>1. Active(b) /\ e \in {b.item} \X rec[b].uses
            BY <1>8, <5>1, <5>2, <5>4 DEF Active
          <6> QED
            BY <5>4, <6>1 DEF Edges
        <5> QED
          BY <5>3, <5>4
      <4> QED
        BY <4>1
    <3> QED
      BY <3>2, <3>3, LoopsGrow
  <2> QED
    BY <2>2, <2>3
<1>13. RevisionsApart'
  <2> SUFFICES ASSUME NEW d \in Documents \ late', NEW e \in Documents \ late',
                      Rival(d, e), Active(d)', Active(e)', {d, e} \notin unchecked'
               PROVE  rec'[d].span \cap rec'[e].span = {}
    BY DEF RevisionsApart, Rival, Documents
  <2>1. /\ d \in Keys /\ d \notin Items \cup Sources /\ d \notin late
        /\ e \in Keys /\ e \notin Items \cup Sources /\ e \notin late
    BY <1>5, KindsAssumption DEF Keys, Documents
  <2>2. Rival(e, d)
    BY RivalsOfDocuments
  <2>3. \A k \in {d, e} \ KeysOf(W) : Active(k) /\ rec'[k].span = rec[k].span
    BY <1>8, <2>1 DEF Active
  <2>4. \A k \in {d, e} \cap KeysOf(W) :
           \E c \in W : c.key = k /\ rec'[k].span = c.to.span /\ c.to.active /\ k \in Documents
    BY <1>9, <2>1 DEF Active
  <2>5. d \in KeysOf(W) \/ e \in KeysOf(W) => DocumentsApart(W)
    BY <1>5, <1>7 DEF Sound
  <2>6. CASE d \notin KeysOf(W) /\ e \notin KeysOf(W)
    <3>1. unchecked' = {p \in unchecked : p \cap KeysOf(W) = {}}
      BY <1>1 DEF Commit
    <3>2. {d, e} \notin unchecked
      BY <2>6, <3>1
    <3> QED
      BY <2>1, <2>3, <2>6, <3>2 DEF MastersInv, RevisionsApart
  <2>7. CASE d \in KeysOf(W) /\ e \notin KeysOf(W)
    BY <2>2, <2>3, <2>4, <2>5, <2>7 DEF DocumentsApart
  <2>8. CASE d \notin KeysOf(W) /\ e \in KeysOf(W)
    BY <2>3, <2>4, <2>5, <2>8 DEF DocumentsApart
  <2>9. CASE d \in KeysOf(W) /\ e \in KeysOf(W)
    BY <2>2, <2>4, <2>5, <2>9 DEF DocumentsApart
  <2> QED
    BY <2>6, <2>7, <2>8, <2>9
<1>14. InUseIsActive'
  <2> SUFFICES ASSUME NEW k \in UsedKeys \ late', Exists(k)', ~Active(k)',
                      NEW u \in UsersOf(k) \ late', Needs(u, k)'
               PROVE  FALSE
    BY DEF InUseIsActive, UsedKeys, UsersOf
  <2>1. k \in Keys /\ u \in Keys /\ k \notin late /\ u \notin late /\ u \in UserKeys
    BY <1>5 DEF UsedKeys, UserKeys, Keys, UsersOf, Documents
  <2>2. k \notin Items \cup Sources
    BY KindsAssumption DEF UsedKeys
  <2>3. k \in KeysOf(W) \/ u \in KeysOf(W) => Sound(a, W, R)
    BY <1>5, <1>7
  <2>4. CASE k \in KeysOf(W)
    <3>1. PICK c \in W : c.key = k /\ ~c.to.active
      BY <1>9, <2>2, <2>4 DEF Active
    <3>2. ~Needs(u, k)
      BY <2>1, <2>3, <2>4, <3>1 DEF Sound, Unused
    <3>3. u \notin KeysOf(W)
      BY <2>3, <2>4, <3>1 DEF Sound, OneKind, KeysOf
    <3> QED
      BY <1>8, <2>1, <3>2, <3>3
  <2>5. CASE k \notin KeysOf(W) /\ u \in KeysOf(W)
    <3>1. PICK c \in W : /\ c.key = u /\ rec'[u].uses = c.to.uses
                         /\ u \notin Items \cup Sources \/ a = Api => rec'[u].active = c.to.active
      BY <1>9, <2>5
    <3>2. Refers(a, c) /\ k \in c.to.uses
      BY <2>1, <3>1 DEF Refers, Needs, Active
    <3>3. Active(k)
      BY <2>3, <2>5, <3>2 DEF Sound, UsesActive
    <3> QED
      BY <1>8, <2>1, <2>5, <3>3
  <2>6. CASE k \notin KeysOf(W) /\ u \notin KeysOf(W)
    <3>1. Exists(k) /\ ~Active(k) /\ Needs(u, k)
      BY <1>8, <2>1, <2>6
    <3> QED
      BY <2>1, <3>1 DEF MastersInv, InUseIsActive, UsedKeys
  <2> QED
    BY <2>4, <2>5, <2>6
<1>15. TxInv'
  <2>1. ASSUME NEW b \in Actors, tx'[b] # None, ~tx'[b].overtaken
        PROVE  (Sound(b, tx[b].to, tx[b].read))'
    <3>1. PICK V, Q : V = tx'[b].to /\ Q = tx'[b].read
      OBVIOUS
    <3>2. b # a /\ tx[b] # None /\ tx'[b] = [tx[b] EXCEPT !.overtaken = @ \/ tx[b].read \cap touched # {}]
      BY <1>6, <2>1
    <3>3. TxOK(tx[b])
      BY <1>3, <3>2 DEF TypesOK
    <3>4. /\ V = tx[b].to /\ Q = tx[b].read /\ V \subseteq AnyChange
          /\ ~tx[b].overtaken /\ Q \cap touched = {}
      BY <2>1, <3>1, <3>2, <3>3 DEF TxOK
    <3>5. Sound(b, V, Q)
      BY <3>2, <3>4 DEF MastersInv, TxInv
    <3>6. \A k \in Q \cap Keys : rec'[k] = rec[k]
      <4>1. \A k \in Q \cap Keys : k \notin KeysOf(W) /\ ~LosesMark(k, W)
        BY <1>2, <3>4
      <4> QED
        BY <1>4, <4>1 DEF Becomes
    <3>7. Sound(b, V, Q)'
      BY <1>5, <3>4, <3>5, <3>6, StaysSound
    <3> QED
      BY <3>1, <3>7
  <2> QED
    BY <2>1 DEF TxInv
<1> QED
  BY <1>11, <1>12, <1>13, <1>14, <1>15 DEF MastersInv

LEMMA AbortStep ==
  ASSUME MastersInv, NEW a \in Actors, Abort(a)
  PROVE  MastersInv'
<1>1. /\ rec' = rec /\ late' = late /\ unchecked' = unchecked
      /\ \A b \in Actors : tx'[b] = IF b = a THEN None ELSE tx[b]
  BY DEF MastersInv, TypesOK, Abort
<1>2. TypesOK'
  <2>1. tx' = [b \in Actors |-> tx'[b]]
    BY DEF MastersInv, TypesOK, Abort
  <2> QED
    BY <1>1, <2>1 DEF MastersInv, TypesOK, TxOK
<1>3. NoLoop' /\ RevisionsApart' /\ InUseIsActive'
  BY <1>1 DEF MastersInv, NoLoop, RevisionsApart, InUseIsActive, Edges, Active, Exists, Needs
<1>4. TxInv'
  <2>1. ASSUME NEW b \in Actors, tx'[b] # None, ~tx'[b].overtaken
        PROVE  (Sound(b, tx[b].to, tx[b].read))'
    <3>1. PICK V, Q : V = tx'[b].to /\ Q = tx'[b].read
      OBVIOUS
    <3>2. Sound(b, V, Q) /\ V \subseteq AnyChange
      BY <1>1, <2>1, <3>1 DEF MastersInv, TxInv, TypesOK, TxOK
    <3>3. Sound(b, V, Q)'
      BY <1>1, <3>2, StaysSound
    <3> QED
      BY <3>1, <3>3
  <2> QED
    BY <2>1 DEF TxInv
<1> QED
  BY <1>2, <1>3, <1>4 DEF MastersInv

\* A correction changes no BOM, takes over the resources of the routing that it ends,
\* and the other revisions it may meet are those it names.
LEMMA AdoptStep ==
  ASSUME MastersInv, NEW o \in Routings, NEW n \in Routings, NEW today \in Days,
         AdoptCycleTime(o, n, today)
  PROVE  MastersInv'
<1>1. /\ o \in Keys /\ n \in Keys /\ o # n /\ Active(o) /\ ~Exists(n) /\ Rival(o, n)
      /\ o \in Documents /\ n \in Documents
  BY DEF AdoptCycleTime, Keys, Documents, Rival
<1>2. /\ \A k \in Units \cup Items \cup Profiles \cup Settings \cup Calendars \cup Resources
                    \cup Sources \cup Boms : k # o /\ k # n
  BY KindsAssumption DEF Documents
<1>3. PICK old, cor : /\ old = [rec[o] EXCEPT !.span = {d \in @ : d < today}]
                      /\ cor = [rec[o] EXCEPT !.span = {d \in Days : d >= today}]
  OBVIOUS
<1>4. rec[o] \in Records
  BY <1>1 DEF MastersInv, TypesOK, Active, Exists
<1>5. /\ old \in Records /\ old.active = rec[o].active /\ old.uses = rec[o].uses
      /\ old.span = {d \in rec[o].span : d < today}
      /\ cor \in Records /\ cor.active = rec[o].active /\ cor.uses = rec[o].uses
      /\ cor.span = {d \in Days : d >= today}
  BY <1>3, <1>4 DEF Records
<1>6. rec' = [rec EXCEPT ![o] = old, ![n] = cor]
  BY <1>3 DEF AdoptCycleTime
<1>7. rec' = [k \in Keys |-> IF k = n THEN cor ELSE IF k = o THEN old ELSE rec[k]]
  BY <1>1, <1>6 DEF MastersInv, TypesOK
<1>8. None \notin Records
  BY MastersAssumption
<1>9. /\ \A k \in Keys \ {o, n} : rec'[k] = rec[k]
      /\ rec'[o] = old /\ rec'[n] = cor
  BY <1>1, <1>7
<1>10. \A k \in Keys \ {n} : Exists(k)' = Exists(k) /\ Active(k)' = Active(k)
  BY <1>1, <1>4, <1>5, <1>8, <1>9 DEF Active, Exists
<1>11. late' = IF o \in late THEN late \cup {n} ELSE late
  BY DEF AdoptCycleTime
<1>12. TypesOK'
  <2>1. rec' \in [Keys -> Records \cup {None}]
    BY <1>5, <1>7 DEF MastersInv, TypesOK
  <2>2. \A b \in Actors : tx'[b] = IF tx[b] = None THEN None
                ELSE [tx[b] EXCEPT !.overtaken = @ \/ tx[b].read \cap {o, n} # {}]
    BY DEF AdoptCycleTime
  <2>3. ASSUME NEW b \in Actors, tx'[b] # None PROVE TxOK(tx'[b])
    <3>1. tx[b] # None /\ tx'[b] = [tx[b] EXCEPT !.overtaken = @ \/ tx[b].read \cap {o, n} # {}]
      BY <2>2, <2>3
    <3>2. TxOK(tx[b])
      BY <3>1 DEF MastersInv, TypesOK
    <3> QED
      BY <3>1, <3>2 DEF TxOK
  <2>4. tx' = [b \in Actors |-> tx'[b]]
    BY DEF AdoptCycleTime
  <2> QED
    BY <2>1, <2>3, <2>4 DEF TypesOK, TxOK
<1>13. NoLoop'
  <2>1. \A b \in Boms : b \in Keys \ {o, n}
    BY <1>2 DEF Keys, Documents
  <2>2. {x \in Boms \ KeysOf({}) : Active(x)'} = {x \in Boms \ KeysOf({}) : Active(x)}
    BY <1>10, <2>1
  <2>3. Edges({})' = Edges({})
    BY <1>9, <2>1, <2>2 DEF Edges
  <2> QED
    BY <1>11, <2>3 DEF MastersInv, NoLoop
<1>14. RevisionsApart'
  <2> SUFFICES ASSUME NEW d \in Documents \ late', NEW e \in Documents \ late',
                      Rival(d, e), Active(d)', Active(e)', {d, e} \notin unchecked'
               PROVE  rec'[d].span \cap rec'[e].span = {}
    BY DEF RevisionsApart, Rival, Documents
  <2>1. d \in Keys /\ e \in Keys /\ d \notin late /\ e \notin late /\ d # e /\ Rival(e, d)
    BY <1>11, RivalsOfDocuments DEF Keys, Documents, Rival
  <2>2. \A k \in Routings \ {o} : Rival(k, n) /\ Active(k) => {n, k} \in unchecked'
    BY DEF AdoptCycleTime
  <2>3. unchecked \subseteq unchecked'
    BY DEF AdoptCycleTime
  <2>4. CASE d # n /\ e # n
    <3>1. rec[d].span \cap rec[e].span = {}
      BY <1>10, <2>1, <2>3, <2>4 DEF MastersInv, RevisionsApart
    <3>2. \A k \in {d, e} : rec'[k].span \subseteq rec[k].span
      BY <1>5, <1>9, <2>1, <2>4
    <3> QED
      BY <3>1, <3>2
  <2>5. \A k \in {d, e} \ {n} : Rival(k, n) => k \in Routings
    BY <1>2, KindsAssumption DEF Rival, Documents
  <2>6. \A k \in {d, e} \ {n} : Rival(k, n) /\ {n, k} = {d, e} => k = o
    BY <1>10, <2>1, <2>2, <2>5
  <2>7. old.span \cap cor.span = {}
    <3>1. \A x \in rec[o].span : x \in Nat /\ today \in Nat
      BY <1>4, MastersAssumption DEF Records
    <3> QED
      BY <1>5, <3>1
  <2>8. CASE d = n
    <3>1. e = o
      BY <2>1, <2>6, <2>8
    <3> QED
      BY <1>9, <2>7, <2>8, <3>1
  <2>9. CASE e = n
    <3>1. d = o
      BY <2>1, <2>6, <2>9
    <3> QED
      BY <1>9, <2>7, <2>9, <3>1
  <2> QED
    BY <2>4, <2>8, <2>9
<1>15. InUseIsActive'
  <2> SUFFICES ASSUME NEW k \in UsedKeys \ late', Exists(k)', ~Active(k)',
                      NEW u \in UsersOf(k) \ late', Needs(u, k)'
               PROVE  FALSE
    BY DEF InUseIsActive, UsedKeys, UsersOf
  <2>1. /\ k \in Keys \ {o, n} /\ k \notin late
        /\ k \in Units \cup Profiles \cup Resources
    BY <1>2, <1>11 DEF UsedKeys, Keys
  <2>2. Exists(k) /\ ~Active(k)
    BY <1>10, <2>1
  <2>3. \A v \in UsersOf(k) \ late : ~Needs(v, k)
    BY <2>1, <2>2 DEF MastersInv, InUseIsActive
  <2>4. CASE u = n
    <3>1. o \notin late /\ k \in rec[o].uses
      BY <1>5, <1>9, <1>11, <2>4 DEF Needs
    <3>2. o \in UsersOf(k)
      BY <1>2, <2>4, KindsAssumption DEF UsersOf, Documents
    <3>3. o \notin Settings
      BY <1>2
    <3> QED
      BY <1>1, <2>3, <3>1, <3>2, <3>3 DEF Needs
  <2>5. CASE u # n
    <3>1. u \in Keys /\ u \notin late
      BY <1>11 DEF UsersOf, Keys, Documents
    <3>2. Active(u) = Active(u)' /\ rec'[u].uses = rec[u].uses
      BY <1>5, <1>9, <1>10, <2>5, <3>1
    <3>3. u \in Settings => rec'[u] = rec[u]
      BY <1>2, <1>9, <3>1
    <3> QED
      BY <2>3, <3>1, <3>2, <3>3 DEF Needs
  <2> QED
    BY <2>4, <2>5
<1>16. TxInv'
  <2>1. ASSUME NEW b \in Actors, tx'[b] # None, ~tx'[b].overtaken
        PROVE  (Sound(b, tx[b].to, tx[b].read))'
    <3>1. PICK V, Q : V = tx'[b].to /\ Q = tx'[b].read
      OBVIOUS
    <3>2. tx[b] # None /\ tx'[b] = [tx[b] EXCEPT !.overtaken = @ \/ tx[b].read \cap {o, n} # {}]
      BY <2>1 DEF AdoptCycleTime
    <3>3. TxOK(tx[b])
      BY <3>2 DEF MastersInv, TypesOK
    <3>4. /\ V = tx[b].to /\ Q = tx[b].read /\ V \subseteq AnyChange
          /\ ~tx[b].overtaken /\ Q \cap {o, n} = {}
      BY <2>1, <3>1, <3>2, <3>3 DEF TxOK
    <3>5. Sound(b, V, Q)
      BY <3>2, <3>4 DEF MastersInv, TxInv
    <3>6. \A k \in Q \cap Keys : rec'[k] = rec[k]
      BY <1>9, <3>4
    <3>7. Sound(b, V, Q)'
      BY <1>11, <3>4, <3>5, <3>6, StaysSound
    <3> QED
      BY <3>1, <3>7
  <2> QED
    BY <2>1 DEF TxInv
<1> QED
  BY <1>12, <1>13, <1>14, <1>15, <1>16 DEF MastersInv

(***************************************************************************)
(* What the checks find.                                                   *)
(***************************************************************************)

LEMMA SoundWhen ==
  ASSUME NEW a, NEW C, NEW W, From(a, W, C), NEW kind \in Kinds, KeysOf(W) \subseteq kind,
         DocumentsApart(W), UsesActive(a, W), Unused(W), LoopFree(W)
  PROVE  Sound(a, W, ReadBy(C))
BY KindIsOne, ReadsAll DEF Sound

LEMMA KeyIn == ASSUME NEW W, NEW kind, KeysOf(W) \subseteq kind PROVE \A c \in W : c.key \in kind
BY DEF KeysOf

\* Units, profiles and resources: what is in use is not switched off.
LEMMA UsedSound ==
  ASSUME MastersInv, NEW c \in AnyChange, NEW kind \in {Units, Profiles, Resources}, c.key \in kind,
         c.to.active \/ (Exists(c.key) /\ ~(Deactivates(c) /\ InUse(c.key)))
  PROVE  Sound(Api, {c}, ReadBy({c}))
<1>1. kind \in Kinds /\ KeysOf({c}) \subseteq kind /\ From(Api, {c}, {c})
  BY DEF Kinds, KeysOf, From
<1>2. c.key \notin Documents /\ c.key \notin UserKeys /\ kind \cap Boms = {}
  BY KindsAssumption DEF Documents, UserKeys
<1>3. DocumentsApart({c}) /\ UsesActive(Api, {c}) /\ LoopFree({c})
  BY <1>1, <1>2 DEF DocumentsApart, UsesActive, Refers, LoopFree
<1>4. Unused({c})
  <2> SUFFICES ASSUME c.key \notin late, ~c.to.active, NEW u \in UsersOf(c.key) \ late, Needs(u, c.key)
               PROVE  FALSE
    BY DEF Unused
  <2>1. CASE Active(c.key)
    BY <2>1 DEF Deactivates, InUse
  <2>2. CASE ~Active(c.key)
    BY <2>2 DEF MastersInv, InUseIsActive
  <2> QED
    BY <2>1, <2>2
<1> QED
  BY <1>1, <1>3, <1>4, SoundWhen

\* Items, sources and settings, of a person or a file: what they refer to is active.
LEMMA UserSound ==
  ASSUME NEW a, NEW C, NEW W, From(a, W, C), NEW kind \in {Items, Sources, Settings},
         KeysOf(W) \subseteq kind, \A c \in W : Refers(a, c) => ReferencesActive(c)
  PROVE  Sound(a, W, ReadBy(C))
<1>1. kind \in Kinds /\ \A c \in W : c.key \in kind
  BY KeyIn DEF Kinds
<1>2. kind \cap Documents = {} /\ kind \cap UsedKeys = {} /\ kind \cap Boms = {}
  BY KindsAssumption DEF Documents, UsedKeys
<1>3. DocumentsApart(W) /\ Unused(W) /\ LoopFree(W)
  BY <1>1, <1>2 DEF DocumentsApart, Unused, LoopFree
<1>4. UsesActive(a, W)
  BY DEF UsesActive, ReferencesActive
<1> QED
  BY <1>1, <1>3, <1>4, SoundWhen

LEMMA CalendarSound ==
  ASSUME NEW a, NEW C, NEW W, From(a, W, C), KeysOf(W) \subseteq Calendars
  PROVE  Sound(a, W, ReadBy(C))
<1>1. Calendars \in Kinds /\ \A c \in W : c.key \in Calendars
  BY KeyIn DEF Kinds
<1>2. Calendars \cap Documents = {} /\ Calendars \cap UsedKeys = {} /\ Calendars \cap UserKeys = {}
  BY KindsAssumption DEF Documents, UsedKeys, UserKeys
<1>3. DocumentsApart(W) /\ Unused(W) /\ LoopFree(W) /\ UsesActive(a, W)
  BY <1>1, <1>2 DEF DocumentsApart, Unused, LoopFree, UsesActive, Refers, Documents
<1> QED
  BY <1>1, <1>3, SoundWhen

\* Resources of a file are active.
LEMMA ResourcesSound ==
  ASSUME NEW a, NEW C, NEW W, From(a, W, C), KeysOf(W) \subseteq Resources, \A c \in W : c.to.active
  PROVE  Sound(a, W, ReadBy(C))
<1>1. Resources \in Kinds /\ \A c \in W : c.key \in Resources
  BY KeyIn DEF Kinds
<1>2. Resources \cap Documents = {} /\ Resources \cap UserKeys = {}
  BY KindsAssumption DEF Documents, UserKeys
<1>3. DocumentsApart(W) /\ Unused(W) /\ LoopFree(W) /\ UsesActive(a, W)
  BY <1>1, <1>2 DEF DocumentsApart, Unused, LoopFree, UsesActive, Refers, Documents
<1> QED
  BY <1>1, <1>3, SoundWhen

\* BOMs and routings, of a person or a file.
LEMMA DocumentsSound ==
  ASSUME MastersInv, NEW a, NEW C, NEW kind \in {Boms, Routings}, KeysOf(C) \subseteq kind,
         \A c \in C : ReferencesActive(c) /\ ~Overlaps(c, C), kind = Boms => ~LoopRefuses(C)
  PROVE  Sound(a, C, ReadBy(C))
<1>1. kind \in Kinds /\ From(a, C, C) /\ \A c \in C : c.key \in kind
  BY KeyIn DEF Kinds, From
<1>2. kind \cap UsedKeys = {} /\ (kind \cap Boms # {} => kind = Boms)
  BY KindsAssumption DEF Documents, UsedKeys
<1>3. DocumentsApart(C)
  BY DEF DocumentsApart, Overlaps
<1>4. UsesActive(a, C) /\ Unused(C)
  BY <1>1, <1>2 DEF UsesActive, ReferencesActive, Unused
<1>5. LoopFree(C)
  BY <1>2, LoopSeen DEF LoopFree, MastersInv, NoLoop
<1> QED
  BY <1>1, <1>3, <1>4, <1>5, SoundWhen

(***************************************************************************)
(* The steps.                                                              *)
(***************************************************************************)

LEMMA AskStep ==
  ASSUME MastersInv, NEW c \in AnyChange, Sound(Api, {c}, ReadBy({c})), Ask(c)
  PROVE  MastersInv'
<1>1. Api \in Actors /\ {c} \subseteq AnyChange
  BY DEF Actors
<1> QED
  BY <1>1, BeginStep DEF Ask

LEMMA PersonStep ==
  ASSUME MastersInv, NEW c \in Asked,
         \/ CreateUnit(c) \/ EditUnit(c) \/ CreateMaster(c) \/ EditMaster(c)
         \/ CreateProfile(c) \/ EditProfile(c) \/ CreateSetting(c) \/ EditSetting(c)
         \/ CreateCalendar(c) \/ EditCalendar(c) \/ CreateResource(c) \/ EditResource(c)
         \/ CreateBom(c) \/ EditBom(c) \/ CreateRouting(c) \/ EditRouting(c)
  PROVE  MastersInv'
<1>1. c \in AnyChange
  BY MastersAssumption DEF Changes, AnyChange
<1>2. KeysOf({c}) = {c.key} /\ From(Api, {c}, {c})
  BY DEF KeysOf, From
<1>3. CASE CreateUnit(c) \/ EditUnit(c)
  <2>1. c.key \in Units /\ Ask(c) /\ (c.to.active \/ (Exists(c.key) /\ ~(Deactivates(c) /\ InUse(c.key))))
    BY <1>3 DEF CreateUnit, EditUnit, Creates, Edits
  <2> QED
    BY <1>1, <2>1, UsedSound, AskStep
<1>4. CASE CreateProfile(c) \/ EditProfile(c)
  <2>1. c.key \in Profiles /\ Ask(c) /\ (c.to.active \/ (Exists(c.key) /\ ~(Deactivates(c) /\ InUse(c.key))))
    BY <1>4 DEF CreateProfile, EditProfile, Creates, Edits
  <2> QED
    BY <1>1, <2>1, UsedSound, AskStep
<1>5. CASE CreateResource(c) \/ EditResource(c)
  <2>1. c.key \in Resources /\ Ask(c) /\ (c.to.active \/ (Exists(c.key) /\ ~(Deactivates(c) /\ InUse(c.key))))
    BY <1>5 DEF CreateResource, EditResource, Creates, Edits
  <2> QED
    BY <1>1, <2>1, UsedSound, AskStep
<1>6. CASE CreateMaster(c) \/ (EditMaster(c) /\ c.to.active)
  <2>1. (c.key \in Items \/ c.key \in Sources) /\ ReferencesActive(c) /\ Ask(c)
    BY <1>6 DEF CreateMaster, EditMaster, Creates, Edits, ResolveReferences
  <2>2. Sound(Api, {c}, ReadBy({c}))
    <3>1. CASE c.key \in Items
      BY <1>2, <2>1, <3>1, UserSound
    <3>2. CASE c.key \in Sources
      BY <1>2, <2>1, <3>2, UserSound
    <3> QED
      BY <2>1, <3>1, <3>2
  <2> QED
    BY <1>1, <2>1, <2>2, AskStep
<1>7. CASE EditMaster(c) /\ ~c.to.active
  <2>1. PICK t : t = [rec[c.key] EXCEPT !.active = FALSE]
    OBVIOUS
  <2>2. PICK d : d = [c EXCEPT !.to = t]
    OBVIOUS
  <2>3. /\ c.key \in Items \/ c.key \in Sources
        /\ Exists(c.key) /\ Begin(Api, {c}, {d})
    BY <1>7, <2>1, <2>2 DEF EditMaster, Edits
  <2>4. t \in Records /\ ~t.active
    BY <1>1, <2>1, <2>3 DEF MastersInv, TypesOK, Exists, AnyChange, Records
  <2>5. d.key = c.key /\ d.to = t /\ d \in AnyChange
    BY <1>1, <2>2, <2>4 DEF AnyChange
  <2>6. KeysOf({d}) = {c.key} /\ ~Refers(Api, d) /\ From(Api, {d}, {c})
    BY <2>4, <2>5 DEF KeysOf, Refers, From
  <2>7. Sound(Api, {d}, ReadBy({c}))
    <3>1. CASE c.key \in Items
      BY <2>6, <3>1, UserSound
    <3>2. CASE c.key \in Sources
      BY <2>6, <3>2, UserSound
    <3> QED
      BY <2>3, <3>1, <3>2
  <2>8. Api \in Actors /\ {d} \subseteq AnyChange
    BY <2>5 DEF Actors
  <2> QED
    BY <2>3, <2>7, <2>8, BeginStep
<1>8. CASE CreateSetting(c) \/ EditSetting(c)
  <2>1. c.key \in Settings /\ ReferencesActive(c) /\ Ask(c)
    BY <1>8 DEF CreateSetting, EditSetting, Creates, Edits, CheckBufferSettings
  <2> QED
    BY <1>1, <1>2, <2>1, UserSound, AskStep
<1>9. CASE CreateCalendar(c)
  <2>1. PICK first : first = \A k \in Calendars : ~(Active(k) /\ rec[k].flag)
    OBVIOUS
  <2>2. PICK d : d = [c EXCEPT !.to.flag = @ \/ first]
    OBVIOUS
  <2>3. c.key \in Calendars /\ Begin(Api, {c}, {d})
    BY <1>9, <2>1, <2>2 DEF CreateCalendar, Creates
  <2>4. d.key = c.key /\ d \in AnyChange
    BY <1>1, <2>1, <2>2 DEF AnyChange, Records
  <2>5. KeysOf({d}) \subseteq Calendars /\ ~Refers(Api, d) /\ From(Api, {d}, {c})
    <3>1. c.key \notin UserKeys
      BY <2>3, KindsAssumption DEF UserKeys, Documents
    <3> QED
      BY <2>3, <2>4, <3>1 DEF KeysOf, Refers, From
  <2>6. Sound(Api, {d}, ReadBy({c}))
    BY <2>5, CalendarSound
  <2>7. Api \in Actors /\ {d} \subseteq AnyChange
    BY <2>4 DEF Actors
  <2> QED
    BY <2>3, <2>6, <2>7, BeginStep
<1>10. CASE EditCalendar(c)
  <2>1. c.key \in Calendars /\ Ask(c)
    BY <1>10 DEF EditCalendar, Edits
  <2> QED
    BY <1>1, <1>2, <2>1, CalendarSound, AskStep
<1>11. CASE CreateBom(c) \/ EditBom(c)
  <2>1. /\ c.key \in Boms /\ Ask(c)
        /\ \A d \in {c} : ReferencesActive(d) /\ ~Overlaps(d, {c})
        /\ ~LoopRefuses({c})
    BY <1>11 DEF CreateBom, EditBom, Creates, Edits, CheckBoms
  <2> QED
    BY <1>1, <1>2, <2>1, DocumentsSound, AskStep
<1>12. CASE CreateRouting(c) \/ EditRouting(c)
  <2>1. /\ c.key \in Routings /\ Ask(c)
        /\ \A d \in {c} : ReferencesActive(d) /\ ~Overlaps(d, {c})
    BY <1>12 DEF CreateRouting, EditRouting, Creates, Edits, CheckRoutings
  <2>2. Routings # Boms
    BY <2>1, KindsAssumption
  <2> QED
    BY <1>1, <1>2, <2>1, <2>2, DocumentsSound, AskStep
<1> QED
  BY <1>3, <1>4, <1>5, <1>6, <1>7, <1>8, <1>9, <1>10, <1>11, <1>12

LEMMA FileStep ==
  ASSUME MastersInv, NEW s \in Slots, NEW F \in Imports,
         ImportMasters(s, F) \/ ImportSettings(s, F) \/ ImportPlantModel(s, F)
  PROVE  MastersInv'
<1>1. s \in Actors /\ F \subseteq AnyChange /\ \A c \in F : c.to.active
  BY MastersAssumption DEF Actors, Changes, AnyChange
<1>2. \A W \in SUBSET F : From(s, W, F) /\ W \subseteq AnyChange /\ KeysOf(W) \subseteq KeysOf(F)
  BY <1>1 DEF From, KeysOf
<1>3. CASE ImportMasters(s, F)
  <2>1. PICK kind \in {Items, Sources} : KeysOf(F) \subseteq kind
    BY <1>3 DEF ImportMasters, Of
  <2>2. (\A c \in F : ReferencesActive(c)) /\ Begin(s, F, F)
    BY <1>3 DEF ImportMasters, ResolveReferences
  <2>3. Sound(s, F, ReadBy(F))
    BY <1>2, <2>1, <2>2, UserSound
  <2> QED
    BY <1>1, <2>2, <2>3, BeginStep
<1>4. CASE ImportSettings(s, F)
  <2>1. PICK W \in SUBSET F : W = {c \in F : ~SameSetting(c)}
    OBVIOUS
  <2>2. KeysOf(W) \subseteq Settings /\ (\A c \in W : ReferencesActive(c)) /\ Begin(s, F, W)
    BY <1>2, <1>4, <2>1 DEF ImportSettings, Of, CheckBufferSettings
  <2>3. Sound(s, W, ReadBy(F))
    BY <1>2, <2>2, UserSound
  <2> QED
    BY <1>1, <1>2, <2>2, <2>3, BeginStep
<1>5. CASE Of(F, Resources) /\ Begin(s, F, {c \in F : ~SameResource(c)})
  <2>1. PICK W \in SUBSET F : W = {c \in F : ~SameResource(c)}
    OBVIOUS
  <2>2. KeysOf(W) \subseteq Resources /\ Begin(s, F, W)
    BY <1>2, <1>5, <2>1 DEF Of
  <2>3. Sound(s, W, ReadBy(F))
    BY <1>1, <1>2, <2>2, ResourcesSound
  <2> QED
    BY <1>1, <1>2, <2>2, <2>3, BeginStep
<1>6. CASE Of(F, Boms) /\ CheckBoms(F) /\ Begin(s, F, F)
  <2>1. KeysOf(F) \subseteq Boms /\ (\A c \in F : ReferencesActive(c) /\ ~Overlaps(c, F)) /\ ~LoopRefuses(F)
    BY <1>6 DEF Of, CheckBoms
  <2>2. Sound(s, F, ReadBy(F))
    BY <2>1, DocumentsSound
  <2> QED
    BY <1>1, <1>6, <2>2, BeginStep
<1>7. CASE Of(F, Routings) /\ CheckRoutings(F) /\ Begin(s, F, F)
  <2>1. KeysOf(F) \subseteq Routings /\ (\A c \in F : ReferencesActive(c) /\ ~Overlaps(c, F))
    BY <1>7 DEF Of, CheckRoutings
  <2>2. Sound(s, F, ReadBy(F))
    <3>1. CASE F = {}
      <4>1. KeysOf(F) \subseteq Calendars
        BY <3>1 DEF KeysOf
      <4> QED
        BY <1>2, <4>1, CalendarSound
    <3>2. CASE F # {}
      <4>1. Routings # Boms
        BY <2>1, <3>2, KindsAssumption DEF KeysOf
      <4> QED
        BY <2>1, <4>1, DocumentsSound
    <3> QED
      BY <3>1, <3>2
  <2> QED
    BY <1>1, <1>7, <2>2, BeginStep
<1> QED
  BY <1>3, <1>4, <1>5, <1>6, <1>7 DEF ImportPlantModel

LEMMA InitMastersInv == InitMasters => MastersInv
<1> SUFFICES ASSUME InitMasters PROVE MastersInv
  OBVIOUS
<1> USE DEF InitMasters
<1>1. TypesOK
  BY MastersAssumption DEF TypesOK
<1>2. NoLoop
  <2>1. Edges({}) = UNION {{b.item} \X rec[b].uses : b \in {x \in Boms : Active(x)}}
    <3>1. Boms \ KeysOf({}) = Boms
      BY DEF KeysOf
    <3> QED
      BY <3>1 DEF Edges
  <2> QED
    BY <2>1, InitiallyAssumption DEF NoLoop, Active, Exists
<1>3. RevisionsApart
  BY InitiallyAssumption DEF RevisionsApart, Active, Exists
<1>4. InUseIsActive
  BY InitiallyAssumption DEF InUseIsActive, Needs, Active, Exists
<1>5. TxInv
  BY DEF TxInv
<1> QED
  BY <1>1, <1>2, <1>3, <1>4, <1>5 DEF MastersInv

LEMMA MastersStepInv == MastersInv /\ [NextMasters]_masters => MastersInv'
<1> SUFFICES ASSUME MastersInv, [NextMasters]_masters PROVE MastersInv'
  OBVIOUS
<1>1. ASSUME NEW a \in Actors, Commit(a) \/ Abort(a) PROVE MastersInv'
  BY <1>1, CommitStep, AbortStep
<1>2. CASE UNCHANGED masters
  <2>1. rec' = rec /\ tx' = tx /\ late' = late /\ unchecked' = unchecked
    BY <1>2 DEF masters
  <2>2. ASSUME NEW b \in Actors, tx'[b] # None, ~tx'[b].overtaken
        PROVE  (Sound(b, tx[b].to, tx[b].read))'
    <3>1. PICK V, Q : V = tx'[b].to /\ Q = tx'[b].read
      OBVIOUS
    <3>2. Sound(b, V, Q) /\ V \subseteq AnyChange
      BY <2>1, <2>2, <3>1 DEF MastersInv, TxInv, TypesOK, TxOK
    <3>3. Sound(b, V, Q)'
      BY <2>1, <3>2, StaysSound
    <3> QED
      BY <3>1, <3>3
  <2> QED
    BY <2>1, <2>2 DEF MastersInv, TypesOK, TxOK, NoLoop, RevisionsApart, InUseIsActive, TxInv,
                      Edges, Active, Exists, Needs
<1> QED
  BY <1>1, <1>2, PersonStep, FileStep, AdoptStep DEF NextMasters

\* The inductive invariant.
THEOREM MastersInvariance == SpecMasters => []MastersInv
<1>1. InitMasters => MastersInv
  BY InitMastersInv
<1>2. MastersInv /\ [NextMasters]_masters => MastersInv'
  BY MastersStepInv
<1> QED
  BY <1>1, <1>2, PTL DEF SpecMasters

\* No item contains itself, whatever BOMs people and files write at the same
\* time, unless one was written behind the back of its check.
THEOREM NoItemContainsItself == SpecMasters => []NoLoop
<1>1. MastersInv => NoLoop
  BY DEF MastersInv
<1> QED
  BY <1>1, MastersInvariance, PTL

\* Two active revisions of a BOM or a routing never share a day, whatever people
\* and files create, end and reactivate and corrections copy, but for a check that
\* was overtaken and for what a correction finds beside the revision it ends.
THEOREM RevisionsKeptApart == SpecMasters => []RevisionsApart
<1>1. MastersInv => RevisionsApart
  BY DEF MastersInv
<1> QED
  BY <1>1, MastersInvariance, PTL

\* What is in use is active, whoever came and whatever went.
THEOREM UsedIsActive == SpecMasters => []InUseIsActive
<1>1. MastersInv => InUseIsActive
  BY DEF MastersInv
<1> QED
  BY <1>1, MastersInvariance, PTL

==============================================================================
