----------------------------- MODULE EventOnce -----------------------------
(***************************************************************************)
(* What the outbox promises the code that writes an outbox_events row: the *)
(* handler of the event takes effect at most once, and the business record *)
(* behind the event (an import batch, a planning run) ends as applied or   *)
(* as failed, never as first one and then the other.                       *)
(***************************************************************************)
EXTENDS Naturals

CONSTANT Events

VARIABLES
  published,   \* events whose outbox_events row is committed
  runs,        \* how often the handler of an event was committed
  verdict      \* what the business record behind the event shows

vars == <<published, runs, verdict>>

Init ==
  /\ published = {}
  /\ runs = [e \in Events |-> 0]
  /\ verdict = [e \in Events |-> "open"]

\* The API commits a business change together with its event.
Publish(e) ==
  /\ e \notin published
  /\ published' = published \cup {e}
  /\ UNCHANGED <<runs, verdict>>

\* The handler runs, once: an open record is applied, a failed one stays failed.
Run(e) ==
  /\ e \in published
  /\ runs[e] = 0
  /\ runs' = [runs EXCEPT ![e] = 1]
  /\ verdict' = [verdict EXCEPT ![e] = IF @ = "open" THEN "applied" ELSE @]
  /\ UNCHANGED published

\* The retries are over: a record the handler did not reach is marked failed.
GiveUp(e) ==
  /\ e \in published
  /\ runs[e] = 0
  /\ verdict[e] = "open"
  /\ verdict' = [verdict EXCEPT ![e] = "failed"]
  /\ UNCHANGED <<published, runs>>

Next == \E e \in Events : Publish(e) \/ Run(e) \/ GiveUp(e)

Spec == Init /\ [][Next]_vars
=============================================================================
