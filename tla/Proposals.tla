------------------------------ MODULE Proposals ------------------------------
(***************************************************************************)
(* Purchase proposals of one plant: syncProposals of                       *)
(* packages/schema/purchase-db.mjs, which a planning run calls before it   *)
(* commits, against the people who raise, change, reject and approve       *)
(* proposals (apps/api/src/purchase.controller.ts), with the rules of      *)
(* packages/engines/purchase.mjs.                                          *)
(*                                                                         *)
(* API mutations of a company are serialised by an advisory lock, planning *)
(* runs by PlanningQueue.tla; the two overlap. A SELECT reads committed    *)
(* rows; an UPDATE waits for the row lock and then changes the row by its  *)
(* id, whatever it has become. A quantity stands for the whole content of  *)
(* a proposal: supplier, unit, quantity and due date. Every item has a     *)
(* result in every run.                                                    *)
(***************************************************************************)
EXTENDS Naturals, Sequences, FiniteSets, SequencesExt

CONSTANTS
  Items,      \* bought items of the plant
  Quantities, \* quantities a run may recommend or a person may enter
  People,     \* users with the purchase permissions
  NoOne,      \* changed_by_subject NULL: the planning system
  MaxNo,      \* bound: proposals
  MaxRuns     \* bound: planning runs

ASSUME ProposalAssumption ==
  /\ IsFiniteSet(Items)
  /\ Quantities \subseteq Nat \ {0}
  /\ NoOne \notin People
  /\ MaxNo \in Nat /\ MaxRuns \in Nat

Amounts == Quantities \cup {0}

VARIABLES
  prop,     \* purchase_proposals, in order of proposal_no
  markers,  \* TRUE: an input change waits for queueRun
  queued,   \* TRUE: the next run is queued
  current,  \* planning_state.current_run_no
  need,     \* what the current run recommends to buy of each item, 0 for nothing
  sync,     \* transaction of the run: idle, it has read, it has written
  plan,     \* what it recommends, and its decision for each item
  touched,  \* proposals people wrote since the run has read (history)
  api,      \* transaction of the API mutation: idle, it read the status, it loaded
  call      \* what that mutation does and what it has read

planVars == <<markers, queued, current, need>>
syncVars == <<sync, plan, touched>>
vars == <<prop, planVars, syncVars, api, call>>

\* order: quantity of the purchase order made from the proposal, 0 for none;
\* reviewed: the quantity seen by the person who decided on it; listed: it was
\* approved in a list (both history).
Rows == [status: {"PROPOSED", "APPROVED", "REJECTED", "WITHDRAWN"},
         item: Items, qty: Quantities, source: {"SYSTEM", "MANUAL"},
         author: People \cup {NoOne}, run: 0 .. MaxRuns,
         order: Amounts, reviewed: Amounts, listed: BOOLEAN]

Actions == {"none", "create", "update", "keep", "leave", "withdraw"}
NoPlan == [i \in Items |-> [want |-> 0, action |-> "none", no |-> 0]]
NoCall == << >>

Init ==
  /\ prop = << >>
  /\ markers = TRUE /\ queued = FALSE
  /\ current = 0
  /\ need = [i \in Items |-> 0]
  /\ sync = "idle" /\ plan = NoPlan /\ touched = {}
  /\ api = "idle" /\ call = NoCall

(* ------------------------------- planning ------------------------------ *)

\* An input of planning changes and leaves a marker.
Change ==
  /\ ~markers /\ markers' = TRUE
  /\ UNCHANGED <<prop, queued, current, need, syncVars, api, call>>

\* queueRun: it waits for a run that is being promoted; a run that waits
\* already is not queued twice.
QueueRun ==
  /\ sync = "idle"
  /\ markers /\ current < MaxRuns
  /\ markers' = FALSE /\ queued' = TRUE
  /\ UNCHANGED <<prop, current, need, syncVars, api, call>>

\* planningStatus
UpToDate == current # 0 /\ ~queued /\ ~markers

(* ---------------------------- syncProposals ---------------------------- *)

Having(i, status) == {n \in DOMAIN prop : prop[n].item = i /\ prop[n].status = status}

\* The proposal with the highest number, 0 for none.
Latest(S) == IF S = {} THEN 0 ELSE CHOOSE n \in S : \A m \in S : m <= n

ByPerson(row) == row.source = "MANUAL" \/ row.author # NoOne

\* Mutant: a rejected item is not raised again, whatever the quantity.
DecideRejectedForEver(i, want) ==
  LET pending == Latest(Having(i, "PROPOSED")) IN
  CASE pending # 0 /\ ByPerson(prop[pending]) -> "keep"
    [] pending # 0 /\ ~ByPerson(prop[pending]) ->
         IF want = 0 THEN "withdraw"
         ELSE IF prop[pending].qty = want THEN "keep" ELSE "update"
    [] pending = 0 -> IF want = 0 \/ Having(i, "REJECTED") # {} THEN "none" ELSE "create"

\* proposalAction; what a person raised is kept and not even written to.
Decide(i, want) ==
  LET pending == Latest(Having(i, "PROPOSED"))
      rejected == Latest(Having(i, "REJECTED"))
  IN
  CASE pending # 0 /\ ByPerson(prop[pending]) ->
         IF prop[pending].source = "MANUAL" THEN "leave" ELSE "keep"
    [] pending # 0 /\ ~ByPerson(prop[pending]) ->
         IF want = 0 THEN "withdraw"
         ELSE IF prop[pending].qty = want THEN "keep" ELSE "update"
    [] pending = 0 ->
         IF want = 0 \/ (rejected # 0 /\ prop[rejected].qty = want) THEN "none"
         ELSE "create"

\* The run has its results; the pending and the rejected proposals are read.
SyncRead ==
  /\ queued /\ sync = "idle"
  /\ \E want \in [Items -> Amounts] :
       plan' = [i \in Items |-> [want |-> want[i], action |-> Decide(i, want[i]),
                                 no |-> Latest(Having(i, "PROPOSED"))]]
  /\ sync' = "read" /\ touched' = {}
  /\ UNCHANGED <<prop, planVars, api, call>>

Creates == {i \in Items : plan[i].action = "create"}

\* The writes lock the rows they change, until the run commits.
SyncWrite ==
  /\ sync = "read"
  /\ sync' = "written"
  /\ UNCHANGED <<prop, planVars, plan, touched, api, call>>

Locked(n) ==
  /\ sync = "written"
  /\ \E i \in Items : plan[i].no = n /\ plan[i].action \in {"update", "keep", "withdraw"}

New(i, qty, source, who, run) ==
  [status |-> "PROPOSED", item |-> i, qty |-> qty, source |-> source, author |-> who,
   run |-> run, order |-> 0, reviewed |-> 0, listed |-> FALSE]

\* The row as the UPDATE of its item leaves it.
Written(n) ==
  LET i == prop[n].item
      row == [prop[n] EXCEPT !.run = current + 1]
  IN
  IF plan[i].no # n THEN prop[n] ELSE
    CASE plan[i].action = "update" -> [row EXCEPT !.qty = plan[i].want, !.author = NoOne]
      [] plan[i].action = "withdraw" -> [row EXCEPT !.status = "WITHDRAWN"]
      [] plan[i].action = "keep" -> row
      [] OTHER -> prop[n]

\* The unique index on pending proposals: nobody raised one meanwhile.
IndexAllows == \A i \in Creates : Having(i, "PROPOSED") = {}

\* CHECK ((status = 'APPROVED') = (po_id IS NOT NULL))
CheckAllows ==
  \A i \in Items : plan[i].action = "withdraw" => prop[plan[i].no].order = 0

\* The run commits: its proposals, its promotion and its status.
SyncCommit ==
  /\ sync = "written" /\ IndexAllows /\ CheckAllows
  /\ Len(prop) + Cardinality(Creates) <= MaxNo
  /\ LET new == SetToSeq(Creates) IN
       prop' = [n \in DOMAIN prop |-> Written(n)]
                 \o [k \in DOMAIN new |->
                       New(new[k], plan[new[k]].want, "SYSTEM", NoOne, current + 1)]
  /\ need' = [i \in Items |-> plan[i].want]
  /\ current' = current + 1
  /\ queued' = FALSE
  /\ sync' = "idle" /\ plan' = NoPlan /\ touched' = {}
  /\ UNCHANGED <<markers, api, call>>

\* A constraint refuses a write, or the attempt fails: the run starts again.
SyncAbort ==
  /\ sync # "idle"
  /\ sync' = "idle" /\ plan' = NoPlan /\ touched' = {}
  /\ UNCHANGED <<prop, planVars, api, call>>

(* ------------------------------- the API ------------------------------- *)

\* A proposal raised by a person. A new number waits for a run that has
\* taken numbers for its own.
Raise(who, i, q) ==
  /\ api = "idle"
  /\ Having(i, "PROPOSED") = {}
  /\ sync = "written" => Creates = {}
  /\ Len(prop) < MaxNo
  /\ prop' = Append(prop, New(i, q, "MANUAL", who, 0))
  /\ touched' = IF sync = "idle" THEN {} ELSE touched \cup {Len(prop) + 1}
  /\ UNCHANGED <<planVars, sync, plan, api, call>>

\* approveMany reads the planning status before it loads the proposals.
ReadStatus ==
  /\ api = "idle"
  /\ api' = "status"
  /\ call' = [upToDate |-> UpToDate, current |-> current]
  /\ UNCHANGED <<prop, planVars, syncVars>>

\* A person acts on a pending proposal. Its version is compared with the one
\* the person saw: what is loaded here is what the person saw.
Load(op, who, n) ==
  /\ IF op = "approveMany" THEN api = "status" ELSE api = "idle"
  /\ prop[n].status = "PROPOSED"
  /\ api' = "loaded"
  /\ call' = [op |-> op, who |-> who, no |-> n, row |-> prop[n], status |-> call]
  /\ UNCHANGED <<prop, planVars, syncVars>>

\* UPDATE ... WHERE id: it waits for the lock of the row.
Update(row) ==
  /\ prop' = [prop EXCEPT ![call.no] = row]
  /\ touched' = IF sync = "idle" THEN {} ELSE touched \cup {call.no}
  /\ api' = "idle" /\ call' = NoCall

Decides(op) == api = "loaded" /\ call.op = op /\ ~Locked(call.no)

\* changeProposal: the person becomes its author.
ChangeProposal(q) ==
  /\ Decides("change")
  /\ Update([prop[call.no] EXCEPT !.qty = q, !.author = call.who])
  /\ UNCHANGED <<planVars, sync, plan>>

\* rejectProposal
Reject ==
  /\ Decides("reject")
  /\ Update([prop[call.no] EXCEPT !.status = "REJECTED", !.reviewed = call.row.qty])
  /\ UNCHANGED <<planVars, sync, plan>>

\* Mutant: the planning status is not asked for.
MayApproveAnytime(upToDate, run) ==
  /\ call.row.author # call.who
  /\ call.row.source = "SYSTEM" => call.row.run = run

\* Mutant: the run of the proposal is not compared with the current run.
MayApproveOldRun(upToDate, run) ==
  /\ call.row.author # call.who
  /\ call.row.source = "SYSTEM" => upToDate

\* approvalProblem
MayApprove(upToDate, run) ==
  /\ call.row.author # call.who
  /\ call.row.source = "SYSTEM" => upToDate /\ call.row.run = run

\* approveProposal: the purchase order is made from what was loaded.
Order ==
  /\ Update([prop[call.no] EXCEPT !.status = "APPROVED", !.order = call.row.qty,
                                  !.reviewed = call.row.qty,
                                  !.listed = call.op = "approveMany"])
  /\ markers' = TRUE
  /\ UNCHANGED <<queued, current, need, sync, plan>>

\* One proposal: the row is locked before the planning status is read.
Approve ==
  /\ Decides("approve")
  /\ MayApprove(UpToDate, current)
  /\ Order

\* Several proposals: the planning status was read before.
ApproveMany ==
  /\ Decides("approveMany")
  /\ MayApprove(call.status.upToDate, call.status.current)
  /\ Order

\* The request is refused or fails.
Refuse ==
  /\ api # "idle"
  /\ api' = "idle" /\ call' = NoCall
  /\ UNCHANGED <<prop, planVars, syncVars>>

(* -------------------------- the specification -------------------------- *)

Ops == {"change", "reject", "approve", "approveMany"}

Next ==
  \/ Change \/ QueueRun
  \/ SyncRead \/ SyncWrite \/ SyncCommit \/ SyncAbort
  \/ \E who \in People :
       \/ \E i \in Items, q \in Quantities : Raise(who, i, q)
       \/ \E op \in Ops, n \in DOMAIN prop : Load(op, who, n)
  \/ \E q \in Quantities : ChangeProposal(q)
  \/ ReadStatus \/ Reject \/ Approve \/ ApproveMany \/ Refuse

Spec == Init /\ [][Next]_vars

(* ----------------------------- properties ------------------------------ *)

\* There is an order exactly for an approved proposal, and for what its approver
\* saw; approved one by one, no run that was already writing changes it
\* afterwards.
ApprovedAsOrdered ==
  \A n \in DOMAIN prop :
    /\ prop[n].status = "APPROVED" <=> prop[n].order # 0
    /\ prop[n].status = "APPROVED" => prop[n].order = prop[n].reviewed
    /\ prop[n].status = "APPROVED" /\ ~prop[n].listed => prop[n].qty = prop[n].order

OrderedNow(n) == prop'[n].order # prop[n].order /\ ~ByPerson(prop[n])

\* What is ordered by a single approval of a proposal nobody changed is what the
\* current run recommends (purchase.mjs: "from an older calculation"). Approving
\* several is excepted: their planning status is read before they are locked.
OrderedFromCurrentRun ==
  [][\A n \in DOMAIN prop : OrderedNow(n) /\ ~prop'[n].listed =>
       prop'[n].order = need[prop[n].item]]_vars

\* A need of the run that becomes current has a proposal, unless it equals what
\* was rejected, or people wrote to the item's proposals while it ran
\* (purchase.controller.ts, reject: "not raised again unless the need changes").
NeedRaised ==
  [][current' # current =>
       \A i \in Items : need'[i] # 0 /\ (\A n \in touched : prop[n].item # i) =>
         \/ Having(i, "PROPOSED")' # {}
         \/ \E n \in Having(i, "REJECTED")' : prop'[n].qty = need'[i]]_vars

=============================================================================
