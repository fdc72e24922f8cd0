----------------------------- MODULE Expedites -----------------------------
(***************************************************************************)
(* Expedite requests for the material of orders, their approval and the    *)
(* supplier's answer, and the dated supply that follows from them.         *)
(*                                                                         *)
(* One plant, one component with a stock record, one purchase line that    *)
(* may be expedited and a new purchase for the rest.  Orders may need a    *)
(* second component that has no stock record.  Every request of a person   *)
(* is one step under the lock of the company.  Rights, stale versions and  *)
(* the calculation in between (PlanningQueue) are left out.                *)
(***************************************************************************)
EXTENDS Naturals, Sequences, FiniteSets, SequencesExt, FiniteSetsExt

CONSTANTS Orders,     \* a set of numbers: the order of their ids
          Unchecked,  \* orders that also need the component without a record
          Days,       \* 1 .. n
          Quantities, \* needs of an order
          LineQty,    \* quantity of the purchase line
          People,
          MaxActions, \* bound: actions
          MaxSteps,   \* bound: requests and changes from outside
          Nobody

ASSUME ExpeditesAssumption ==
    /\ Orders \subseteq Nat /\ IsFiniteSet(Orders) /\ Unchecked \subseteq Orders
    /\ Days \subseteq Nat \ {0} /\ IsFiniteSet(Days) /\ Days # {}
    /\ Quantities \subseteq Nat \ {0}
    /\ LineQty \in Nat /\ MaxActions \in Nat /\ MaxSteps \in Nat
    /\ Nobody \notin People

VARIABLES need,    \* per order: quantity, and the day it is released
          stock,   \* on hand
          line,    \* the purchase line: open quantity and due day
          action,  \* expedite_actions, in the order of their numbers
          bundle,  \* open expedite_bundles by their orders: "none" or a state
          steps    \* counts towards MaxSteps

expedites == <<need, stock, line, action, bundle, steps>>

NoAnswer == [qty |-> 0, day |-> 0]
Ended == {"rejected", "superseded"}
Smaller(a, b) == IF a < b THEN a ELSE b
Larger(a, b) == IF a > b THEN a ELSE b
Less(a, b) == IF a > b THEN a - b ELSE 0

InitExpedites ==
    /\ need \in [Orders -> [qty : Quantities, day : {Max(Days)}]]
    /\ stock = 0
    /\ line = [qty |-> LineQty, due |-> Max(Days)]
    /\ action = <<>>
    /\ bundle = [ids \in SUBSET Orders |-> "none"]
    /\ steps = 0

Step == steps < MaxSteps /\ steps' = steps + 1

-----------------------------------------------------------------------------
(* Dated supply and what is short.                                         *)

Live(acts, kind) == {i \in DOMAIN acts : acts[i].kind = kind /\ acts[i].state \notin Ended}
Answered(acts, kind) == {i \in Live(acts, kind) : acts[i].answer # NoAnswer}

\* confirmedSupply: the confirmed quantity of the line on its confirmed day and
\* the rest on the day of the line, then the confirmed new purchases.
Supply(acts) ==
    LET moved == {i \in Answered(acts, "line") : line.qty > 0}
        part == [i \in moved |-> Smaller(line.qty, acts[i].answer.qty)]
        early == SetToSeq({[key |-> "line", qty |-> part[i], day |-> acts[i].answer.day] : i \in moved})
        rest == Less(line.qty, SumFunction(part))
        new == {[key |-> "new", qty |-> acts[i].answer.qty, day |-> acts[i].answer.day]
                  : i \in Answered(acts, "new")}
    IN  early \o (IF rest > 0 THEN <<[key |-> "line", qty |-> rest, day |-> line.due]>> ELSE <<>>)
              \o SetToSeq(new)

Timely(acts, day) ==
    LET supply == Supply(acts)
    IN  SumFunction([i \in {j \in DOMAIN supply : supply[j].day <= day} |-> supply[i].qty])

\* materialReadiness: orders are served in the order of their release.
Before(o) == {p \in Orders : need[p].day < need[o].day \/ (need[p].day = need[o].day /\ p < o)}

Short(acts, o) ==
    Less(need[o].qty + SumFunction([p \in Before(o) |-> need[p].qty]),
         stock + Timely(acts, need[o].day))

-----------------------------------------------------------------------------
(* A request: expediteRows, mergeActions and writeExpediteBundle.          *)

Row(kind, qty, required) == [kind |-> kind, qty |-> qty, required |-> required]

\* The first supply of every line and purchase, if it comes too late.  A
\* request for an order looks at purchase lines only, a club at all supply.
Late(supply, required, club) ==
    {i \in DOMAIN supply : /\ \A j \in 1 .. i - 1 : supply[j].key # supply[i].key
                           /\ supply[i].day > required
                           /\ supply[i].key = "line" \/ club}

\* What is asked from late supply, the earliest first, and anew.
FromLines(supply, late, shortage, required) ==
    LET sum(S) == SumFunction([j \in S |-> supply[j].qty])
        earlier(i) == {j \in late : \/ supply[j].day < supply[i].day
                                    \/ supply[j].day = supply[i].day /\ j < i}
        qty(i) == Smaller(Less(shortage, sum(earlier(i))), supply[i].qty)
    IN  {Row(IF supply[i].key = "line" THEN "line" ELSE "moved", qty(i), required)
            : i \in {j \in late : qty(j) > 0}}
        \cup {Row("new", r, required) : r \in {Less(shortage, sum(late))} \ {0}}

Rows(ids, club) ==
    LET gated == {o \in ids : Short(action, o) > 0}
        required == Min({need[o].day : o \in gated})
        shortage == Max({Short(action, o) : o \in gated})
        supply == Supply(action)
    IN  (IF gated = {} THEN {}
         ELSE FromLines(supply, Late(supply, required, club), shortage, required))
        \cup {Row("unknown", 0, 0) : o \in ids \cap Unchecked}

New(row, ids, who) ==
    [kind |-> row.kind, qty |-> row.qty, required |-> row.required,
     state |-> IF row.kind = "unknown" THEN "cannot_validate" ELSE "requested",
     answer |-> NoAnswer, bundles |-> {ids}, requester |-> who, approver |-> Nobody]

\* Mutant: an answer stands whatever is asked after it.
MergedKeepingAnswer(a, row, ids, who) ==
    [a EXCEPT !.qty = Larger(@, row.qty + a.answer.qty),
              !.required = Smaller(@, row.required), !.bundles = @ \cup {ids},
              !.approver = IF a.state = "requested" THEN Nobody ELSE @,
              !.requester = IF a.state = "requested" THEN who ELSE @]

\* A row meets the live action for the same purchase.
Merged(a, row, ids, who) ==
    LET qty == Larger(a.qty, row.qty + a.answer.qty)
        required == Smaller(a.required, row.required)
        again == a.answer # NoAnswer /\ (a.answer.qty < qty \/ a.answer.day > required)
        state == IF again THEN "requested" ELSE a.state
    IN  [a EXCEPT !.qty = qty, !.required = required, !.bundles = @ \cup {ids},
                  !.state = state,
                  !.approver = IF state = "requested" THEN Nobody ELSE @,
                  !.requester = IF state = "requested" THEN who ELSE @]

\* The checks of expedite_actions on what is written: an action for a line names
\* one, and an action that cannot be validated has no quantity, which a merge
\* would give it.
Checks(rows) ==
    \A r \in rows : r.kind # "moved" /\ (r.kind = "unknown" => Live(action, "unknown") = {})

Written(rows, ids, who) ==
    LET merge == [i \in DOMAIN action |->
                    LET same == {r \in rows : r.kind = action[i].kind}
                    IN  IF same = {} \/ action[i].state \in Ended THEN action[i]
                        ELSE Merged(action[i], CHOOSE r \in same : TRUE, ids, who)]
        new == {r \in rows : Live(action, r.kind) = {}}
    IN  merge \o SetToSeq({New(r, ids, who) : r \in new})

-----------------------------------------------------------------------------
(* Bundles follow their actions.                                           *)

BundleState(list) ==
    IF \E a \in list : a.state \in {"rejected", "late"} THEN "quote_later_required"
    ELSE IF \A a \in list : a.state = "confirmed" THEN "confirmed"
    ELSE IF \E a \in list : a.state = "cannot_validate" THEN "pending_evidence"
    ELSE IF \A a \in list : a.state = "approved" THEN "approved"
    ELSE "requested"

Of(acts, ids) == {acts[i] : i \in {j \in DOMAIN acts : ids \in acts[j].bundles}}

\* Mutant: only the bundles that are waiting follow.
RefreshedOpen(acts, state) ==
    [ids \in DOMAIN state |->
       IF state[ids] \in {"none", "confirmed"} \/ Of(acts, ids) = {} THEN state[ids]
       ELSE BundleState(Of(acts, ids))]

\* refreshBundles: every open bundle of the plant.
Refreshed(acts, state) ==
    [ids \in DOMAIN state |->
       IF state[ids] = "none" \/ Of(acts, ids) = {} THEN state[ids]
       ELSE BundleState(Of(acts, ids))]

Save(acts, state) == action' = acts /\ bundle' = Refreshed(acts, state)

-----------------------------------------------------------------------------
(* Requests of people.                                                     *)

\* expediteRequest, and with club the request a conditional club makes.  What a
\* check refuses is rolled back as a whole.
Request(ids, who, club) ==
    LET rows == Rows(ids, club)
    IN  /\ Step
        /\ \E r \in rows : r.kind # "unknown"
        /\ club => ids \cap Unchecked = {}
        /\ Len(action) + Cardinality(rows) <= MaxActions
        /\ Checks(rows)
        /\ Save(Written(rows, ids, who), [bundle EXCEPT ![ids] = IF @ = "none" THEN "requested" ELSE @])
        /\ UNCHANGED <<need, stock, line>>

ChangeAction(i, a) ==
    /\ Step /\ Save([action EXCEPT ![i] = a], bundle)
    /\ UNCHANGED <<need, stock, line>>

Approve(i, who) ==
    /\ action[i].state = "requested" /\ action[i].requester # who
    /\ ChangeAction(i, [action[i] EXCEPT !.state = "approved", !.approver = who])

Reject(i) ==
    /\ action[i].state \notin Ended \cup {"cannot_validate"}
    /\ ChangeAction(i, [action[i] EXCEPT !.state = "rejected", !.answer = NoAnswer])

\* The supplier's answer; a later answer replaces it.
Confirm(i, qty, day) ==
    /\ action[i].state \in {"approved", "late", "confirmed"}
    /\ qty <= action[i].qty
    /\ ChangeAction(i, [action[i] EXCEPT !.answer = [qty |-> qty, day |-> day],
                    !.state = IF day <= action[i].required THEN "confirmed" ELSE "late"])

-----------------------------------------------------------------------------
(* From outside: the schedule moves an order, goods arrive on the line.    *)

Reschedule(o, day) ==
    /\ Step /\ need[o].day # day
    /\ need' = [need EXCEPT ![o].day = day]
    /\ UNCHANGED <<stock, line, action, bundle>>

Receive(qty) ==
    /\ Step /\ qty <= line.qty
    /\ line' = [line EXCEPT !.qty = @ - qty]
    /\ stock' = stock + qty
    /\ UNCHANGED <<need, action, bundle>>

NextExpedites ==
    \/ \E ids \in (SUBSET Orders) \ {{}}, who \in People, club \in BOOLEAN :
          (club \/ Cardinality(ids) = 1 \/ ids = Orders) /\ Request(ids, who, club)
    \/ \E i \in DOMAIN action :
          \/ \E who \in People : Approve(i, who)
          \/ Reject(i)
          \/ \E qty \in 1 .. action[i].qty, day \in Days : Confirm(i, qty, day)
    \/ \E o \in Orders, day \in Days : Reschedule(o, day)
    \/ \E qty \in 1 .. line.qty : Receive(qty)

SpecExpedites == InitExpedites /\ [][NextExpedites]_expedites

-----------------------------------------------------------------------------
(* Properties.                                                             *)

\* An answer counts as confirmed exactly while it comes by the day the orders
\* need it, also after a later request asked for an earlier day (confirm,
\* mergeActions).
ConfirmedInTime ==
    \A i \in DOMAIN action :
       /\ action[i].state = "confirmed" => action[i].answer.day <= action[i].required
       /\ action[i].state = "late" => action[i].answer.day > action[i].required

\* A bundle says what its actions say, also when another bundle's request or
\* answer changed an action they share (refreshBundles).
BundlesFollow ==
    \A ids \in DOMAIN bundle :
       bundle[ids] # "none" /\ Of(action, ids) # {} =>
          bundle[ids] = BundleState(Of(action, ids))

=============================================================================
