------------------------------ MODULE Receiving ------------------------------
(***************************************************************************)
(* One item at one stock location and one purchase order of it: the        *)
(* append-only ledger with its derived balance (014_demand_stock.sql),     *)
(* movements posted and reversed by people, goods receipts, edits and      *)
(* cancellation of the order, and the imports of movements and orders      *)
(* (demand-stock-db.mjs, purchase-db.mjs, demand-stock.controller.ts,      *)
(* imports.ts).                                                            *)
(*                                                                         *)
(* Handlers of the API exclude each other (the lock of the company); the   *)
(* worker's imports do not take that lock, and several run at a time.      *)
(***************************************************************************)
EXTENDS Integers, Sequences, FiniteSets, SequencesExt, FiniteSetsExt, Functions

CONSTANTS
  Lines,      \* lines of the purchase order
  Forms,      \* order forms: line |-> [quantity, factor], for the lines they have
  Docs,       \* orders in files: the same, with [received]
  Posts,      \* movements people post: [type, quantity, ref], quantity signed
  Files,      \* files of movements: sequences of such rows
  Slots,      \* worker slots
  Requests,   \* request ids of goods receipts
  Received,   \* receipts people enter: line |-> quantity
  NoRef,      \* a movement without an external reference
  Nothing,    \* no transaction is open
  MaxMoves    \* bound: movements in the ledger

RefsOf(f) == {f[k].ref : k \in DOMAIN f}
Refs == UNION {RefsOf(f) : f \in Files}

Types == {"OPENING", "RECEIPT", "ISSUE", "ADJUSTMENT"}
Rows == [type: Types, quantity: Int, ref: Refs \cup {NoRef}]

\* What a receipt brings each line, in the unit of the line and in that of the stock.
Receipts == [Lines -> [quantity: Nat, base: Nat]]

ASSUME ReceivingAssumption ==
  /\ IsFiniteSet(Lines) /\ IsFiniteSet(Requests)
  /\ MaxMoves \in Nat
  /\ NoRef \notin Refs /\ Nothing \notin Receipts
  /\ \A p \in Posts : p \in Rows /\ p.ref = NoRef
  /\ \A f \in Files : f \in Seq(Rows) /\ IsInjective([k \in DOMAIN f |-> f[k].ref])
  /\ \A v \in Forms \cup Docs :
       /\ DOMAIN v \subseteq Lines
       /\ \A l \in DOMAIN v : v[l].quantity \in Nat \ {0} /\ v[l].factor \in Nat \ {0}
  /\ \A d \in Docs : \A l \in DOMAIN d : d[l].received \in 0 .. d[l].quantity
  /\ \A got \in Received :
       DOMAIN got \subseteq Lines /\ \A l \in DOMAIN got : got[l] \in Nat \ {0}

VARIABLES
  ledger,    \* stock_movements, by movement_no
  balance,   \* stock_balances.quantity
  order,     \* purchase_orders.status, "none" before it exists
  line,      \* purchase_order_lines: status, quantity, received_quantity, unit_factor
  receipts,  \* goods_receipts by request_id: what each line received, in its unit and in base
  files,     \* status of the batch of each file of movements
  work,      \* per slot: what the open transaction of an import has checked
  api,       \* what the handler that holds the lock of the company has checked
  foreign    \* lines whose received quantity or unit no receipt accounts for (history)

stockVars == <<ledger, balance>>
orderVars == <<order, line, foreign>>
vars == <<stockVars, orderVars, receipts, files, work, api>>

NoLine == [status |-> "none", quantity |-> 0, received |-> 0, factor |-> 1]

Init ==
  /\ ledger = << >> /\ balance = 0
  /\ order = "none" /\ line = [l \in Lines |-> NoLine] /\ foreign = {}
  /\ receipts = [q \in Requests |-> Nothing]
  /\ files = [f \in Files |-> "committing"]
  /\ work = [w \in Slots |-> Nothing] /\ api = Nothing

(* ------------------------------ the ledger ----------------------------- *)

Reversed(n) == \E m \in DOMAIN ledger : ledger[m].reverses = n

\* Opening movements that no movement reverses.
Openings == {n \in DOMAIN ledger : ledger[n].type = "OPENING" /\ ~Reversed(n)}

Total(rows) == SumFunction([k \in DOMAIN rows |-> rows[k].quantity])

\* Each row in its turn leaves a balance that is not negative.
Covered(rows) == \A k \in 1 .. Len(rows) : balance + Total(SubSeq(rows, 1, k)) >= 0

\* A row of a file that is in the ledger already, by its external reference.
Posted(row) == row.ref # NoRef /\ \E n \in DOMAIN ledger : ledger[n].ref = row.ref

\* The rows that are not, in their order.
Fresh(rows) ==
  LET new[k \in 0 .. Len(rows)] ==
        IF k = 0 THEN << >>
        ELSE IF Posted(rows[k]) THEN new[k - 1] ELSE Append(new[k - 1], rows[k])
  IN new[Len(rows)]

\* A row whose reference is in the ledger has the values it was posted with.
RefsAgree(rows) ==
  \A k \in DOMAIN rows, n \in DOMAIN ledger :
    rows[k].ref # NoRef /\ ledger[n].ref = rows[k].ref =>
      ledger[n].type = rows[k].type /\ ledger[n].quantity = rows[k].quantity

\* At most one opening, and only where none stands.
OpeningsAllowed(rows) ==
  /\ Cardinality({k \in DOMAIN rows : rows[k].type = "OPENING"}) <= 1
  /\ (\E k \in DOMAIN rows : rows[k].type = "OPENING") => Openings = {}

\* checkMovements finds no error.
MovementsAllowed(rows) ==
  RefsAgree(rows) /\ OpeningsAllowed(Fresh(rows)) /\ Covered(Fresh(rows))

\* The unique index on the external reference accepts the rows.
RefsFree(rows) == Fresh(rows) = rows

Entry(r) == [type |-> r.type, quantity |-> r.quantity, ref |-> r.ref, reverses |-> 0]

\* postMovements: the rows enter the ledger and the trigger adds them to the
\* balance.
Post(rows) ==
  /\ Len(ledger) + Len(rows) <= MaxMoves
  /\ ledger' = ledger \o [k \in DOMAIN rows |-> Entry(rows[k])]
  /\ balance' = balance + Total(rows)

(* ------------------------- movements by people ------------------------- *)

CheckPost(row) ==
  /\ api = Nothing
  /\ MovementsAllowed(<<row>>)
  /\ api' = [op |-> "post", row |-> row]
  /\ UNCHANGED <<stockVars, orderVars, receipts, files, work>>

\* stock_not_negative refuses what the check no longer covers.
WritePost ==
  /\ api # Nothing /\ api.op = "post"
  /\ IF Covered(<<api.row>>) THEN Post(<<api.row>>) ELSE UNCHANGED stockVars
  /\ api' = Nothing
  /\ UNCHANGED <<orderVars, receipts, files, work>>

TakesBack(n) == -ledger[n].quantity

\* reversalFor and its posting: one reversal, none of a reversal, and the
\* stock it takes back is still there. Nothing else posts reversals.
ReverseMovement(n) ==
  /\ api = Nothing
  /\ ledger[n].type # "REVERSAL" /\ ~Reversed(n)
  /\ balance + TakesBack(n) >= 0
  /\ Len(ledger) < MaxMoves
  /\ ledger' = Append(ledger, [type |-> "REVERSAL", quantity |-> TakesBack(n),
                               ref |-> NoRef, reverses |-> n])
  /\ balance' = balance + TakesBack(n)
  /\ UNCHANGED <<orderVars, receipts, files, work, api>>

(* -------------------------- files of movements ------------------------- *)

\* The import checks its rows against the ledger as it is now.
CheckFile(w, f) ==
  /\ work[w] = Nothing /\ files[f] = "committing"
  /\ ~\E v \in Slots : work[v] # Nothing /\ work[v].job = "file" /\ work[v].file = f
  /\ IF MovementsAllowed(f)
       THEN /\ work' = [work EXCEPT ![w] = [job |-> "file", file |-> f, rows |-> Fresh(f)]]
            /\ UNCHANGED files
       ELSE files' = [files EXCEPT ![f] = "failed"] /\ UNCHANGED work
  /\ UNCHANGED <<stockVars, orderVars, receipts, api>>

\* Mutant: rows before the failing one stay.
SaveRowsPartly(f, rows) ==
  LET kept == Max({k \in 0 .. Len(rows) : Covered(SubSeq(rows, 1, k))})
  IN /\ Post(SubSeq(rows, 1, kept))
     /\ files' = [files EXCEPT ![f] = IF kept = Len(rows) THEN "committed" ELSE "failed"]

\* The rows are saved, or none: a balance below zero rolls back to the
\* savepoint and fails the batch.
SaveRows(f, rows) ==
  IF Covered(rows)
    THEN Post(rows) /\ files' = [files EXCEPT ![f] = "committed"]
    ELSE files' = [files EXCEPT ![f] = "failed"] /\ UNCHANGED stockVars

\* A reference another import posted meanwhile aborts the attempt; the next
\* one finds it.
WriteFile(w) ==
  /\ work[w] # Nothing /\ work[w].job = "file"
  /\ IF RefsFree(work[w].rows) THEN SaveRows(work[w].file, work[w].rows)
                               ELSE UNCHANGED <<stockVars, files>>
  /\ work' = [work EXCEPT ![w] = Nothing]
  /\ UNCHANGED <<orderVars, receipts, api>>

\* A person has a failed batch validated and committed again.
RetryFile(f) ==
  /\ files[f] = "failed"
  /\ files' = [files EXCEPT ![f] = "committing"]
  /\ UNCHANGED <<stockVars, orderVars, receipts, work, api>>

(* -------------------------- the purchase order ------------------------- *)

\* writeOrder: the lines of v are upserted and open, the others are cancelled;
\* got is the received quantity each line is written with. A line that has
\* received something is foreign from then on if it is in changed or its unit is another one.
WriteOrder(v, got, changed) ==
  /\ order' = IF order = "none" THEN "OPEN" ELSE order
  /\ line' = [l \in Lines |->
       IF l \in DOMAIN v
         THEN [status |-> "OPEN", quantity |-> v[l].quantity, received |-> got[l],
               factor |-> v[l].factor]
         ELSE [line[l] EXCEPT !.status = IF @ = "OPEN" THEN "CANCELLED" ELSE @]]
  /\ foreign' = foreign \cup changed \cup
       {l \in DOMAIN v : got[l] > 0 /\ v[l].factor # line[l].factor}

\* Mutant: the form says what was received.
FormReceived(v) == [l \in DOMAIN v |-> 0]

\* receivedFromRecords: an order form keeps what the lines have received.
KeptReceived(v) == [l \in DOMAIN v |-> line[l].received]

\* An order form is checked: the order is not cancelled, and no line orders
\* less than it has received.
CheckForm(v) ==
  /\ api = Nothing
  /\ order # "CANCELLED"
  /\ \A l \in DOMAIN v : KeptReceived(v)[l] <= v[l].quantity
  /\ api' = [op |-> "form", form |-> v, got |-> KeptReceived(v), new |-> order = "none"]
  /\ UNCHANGED <<stockVars, orderVars, receipts, files, work>>

\* The form is saved. An order number somebody else created meanwhile is refused.
WriteForm ==
  /\ api # Nothing /\ api.op = "form"
  /\ IF api.new /\ order # "none" THEN UNCHANGED orderVars
                                  ELSE WriteOrder(api.form, api.got, {})
  /\ api' = Nothing
  /\ UNCHANGED <<stockVars, receipts, files, work>>

\* cancelOrder: the order and all its lines.
CancelOrder ==
  /\ api = Nothing /\ order = "OPEN"
  /\ order' = "CANCELLED"
  /\ line' = [l \in Lines |-> [line[l] EXCEPT !.status = IF @ = "OPEN" THEN "CANCELLED" ELSE @]]
  /\ UNCHANGED <<stockVars, foreign, receipts, files, work, api>>

\* orderAction: the file says what the order already is.
SameOrder(d) ==
  /\ DOMAIN d = {l \in Lines : line[l].status = "OPEN"}
  /\ \A l \in DOMAIN d : /\ d[l].quantity = line[l].quantity
                         /\ d[l].received = line[l].received
                         /\ d[l].factor = line[l].factor

\* An import of the order finds it open, or new, and different.
CheckDoc(w, d) ==
  /\ work[w] = Nothing
  /\ order # "CANCELLED" /\ (order # "none" => ~SameOrder(d))
  /\ work' = [work EXCEPT ![w] = [job |-> "order", doc |-> d, new |-> order = "none"]]
  /\ UNCHANGED <<stockVars, orderVars, receipts, files, api>>

\* The import writes the order as the file has it: lines whose received
\* quantity it changes are foreign.
WriteDoc(w) ==
  /\ work[w] # Nothing /\ work[w].job = "order"
  /\ LET d == work[w].doc
     IN IF work[w].new /\ order # "none" THEN UNCHANGED orderVars
        ELSE WriteOrder(d, [l \in DOMAIN d |-> d[l].received],
                        {l \in DOMAIN d : d[l].received # line[l].received})
  /\ work' = [work EXCEPT ![w] = Nothing]
  /\ UNCHANGED <<stockVars, receipts, files, api>>

(* ---------------------------- goods receipts --------------------------- *)

\* Mutant: the whole ordered quantity counts as due.
DueAsOrdered(l) == line[l].quantity

Due(l) == line[l].quantity - line[l].received

\* receiptProblems finds none, on lines that are locked.
Receivable(got) ==
  /\ order = "OPEN"
  /\ \A l \in DOMAIN got : line[l].status = "OPEN" /\ got[l] <= Due(l)

\* The receipt, its movements and the received quantities of its lines.
Record(q, got) ==
  LET ls == SetToSeq(DOMAIN got)
  IN /\ Post([k \in DOMAIN ls |-> [type |-> "RECEIPT", quantity |-> got[ls[k]] * line[ls[k]].factor,
                                   ref |-> NoRef]])
     /\ receipts' = [receipts EXCEPT ![q] = [l \in Lines |->
          IF l \in DOMAIN got THEN [quantity |-> got[l], base |-> got[l] * line[l].factor]
                              ELSE [quantity |-> 0, base |-> 0]]]
     /\ line' = [l \in Lines |-> IF l \in DOMAIN got
                                   THEN [line[l] EXCEPT !.received = @ + got[l]] ELSE line[l]]

\* postReceipt: a request id that recorded a receipt before is answered so and
\* changes nothing, whatever became of the order since.
Receive(q, got) ==
  /\ api = Nothing /\ receipts[q] = Nothing
  /\ Receivable(got) /\ Record(q, got)
  /\ UNCHANGED <<order, foreign, files, work, api>>

(* -------------------------- the specification -------------------------- *)

People ==
  \/ \E p \in Posts : CheckPost(p)
  \/ WritePost
  \/ \E n \in DOMAIN ledger : ReverseMovement(n)
  \/ \E v \in Forms : CheckForm(v)
  \/ WriteForm
  \/ CancelOrder
  \/ \E q \in Requests, got \in Received : Receive(q, got)

Imports ==
  \/ \E w \in Slots, f \in Files : CheckFile(w, f)
  \/ \E w \in Slots, d \in Docs : CheckDoc(w, d)
  \/ \E w \in Slots : WriteFile(w) \/ WriteDoc(w)
  \/ \E f \in Files : RetryFile(f)

Next == People \/ Imports

Spec == Init /\ [][Next]_vars

(* ----------------------------- properties ------------------------------ *)

\* A file of movements is in the ledger as a whole or not at all (imports.ts:
\* "Nothing was changed"): a reference is posted by a committed file, and all
\* references of a committed file are posted.
AllOrNothing ==
  LET posted == {ledger[n].ref : n \in DOMAIN ledger} \ {NoRef}
  IN posted = UNION {RefsOf(f) : f \in {g \in Files : files[g] = "committed"}}

\* No line has received more than it orders, over receipts, edits and imports
\* (VALIDATION.md: "cannot exceed the open quantity").
WithinOrdered == \A l \in Lines : line[l].received <= line[l].quantity

\* What a line has received is what the receipts brought it, in stock units,
\* unless an import wrote another quantity or somebody changed the unit
\* (VALIDATION.md: "received quantities on orders come only from receipts").
Brought(q, l) == IF receipts[q] = Nothing THEN 0 ELSE receipts[q][l].base

ReceivedFromReceipts ==
  \A l \in Lines \ foreign :
    line[l].received * line[l].factor = SumFunction([q \in Requests |-> Brought(q, l)])

=============================================================================
