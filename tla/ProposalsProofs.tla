--------------------------- MODULE ProposalsProofs ---------------------------
(***************************************************************************)
(* Proofs about Proposals for any items, quantities and people, and any    *)
(* bounds: its inductive invariant and what follows from it.               *)
(***************************************************************************)
EXTENDS Proposals, FiniteSetTheorems, TLAPS

Plans == [want: Amounts, action: Actions, no: Nat]

TypeOK ==
  /\ prop \in Seq(Rows)
  /\ markers \in BOOLEAN /\ queued \in BOOLEAN
  /\ current \in 0 .. MaxRuns
  /\ need \in [Items -> Amounts]
  /\ sync \in {"idle", "read", "written"}
  /\ plan \in [Items -> Plans]
  /\ touched \subseteq DOMAIN prop
  /\ api \in {"idle", "status", "loaded"}

\* A run that is being synced is queued and will become the next one.
QueueInv ==
  /\ queued => current < MaxRuns
  /\ sync # "idle" => queued

\* No proposal is of a run to come, and what the current run left pending and
\* nobody changed is what it recommends.
RowInv ==
  \A n \in DOMAIN prop :
    /\ prop[n].run <= current
    /\ prop[n].status = "PROPOSED" /\ prop[n].run = current /\ ~ByPerson(prop[n]) =>
         prop[n].qty = need[prop[n].item]

\* The decision of a run is about a proposal of the item that is its own. If
\* it was approved meanwhile then in a list, and if it is not to be changed then
\* it has the quantity of the run or a person gave it another.
DecisionInv ==
  sync # "idle" =>
    \A i \in Items :
      LET n == plan[i].no
          action == plan[i].action
      IN  /\ action \in {"update", "keep", "withdraw"} =>
               n \in DOMAIN prop /\ prop[n].item = i /\ prop[n].source = "SYSTEM"
          /\ action \in {"update", "withdraw"} =>
               (prop[n].status = "APPROVED" => prop[n].listed)
          /\ action \in {"update", "create"} => plan[i].want # 0
          /\ action = "keep" => ByPerson(prop[n]) \/ prop[n].qty = plan[i].want

Untouched(i) == \A n \in touched : prop[n].item # i

\* For an item nobody wrote to, the decision is the one that would be taken now.
FreshInv ==
  sync # "idle" =>
    \A i \in Items : Untouched(i) =>
      /\ plan[i].action = Decide(i, plan[i].want)
      /\ plan[i].no = Latest(Having(i, "PROPOSED"))

\* What a person loaded was pending, and it is as it was or a newer run wrote it.
LoadInv ==
  api = "loaded" =>
    /\ call.op \in Ops /\ call.who \in People /\ call.no \in DOMAIN prop
    /\ call.row \in Rows /\ call.row.status = "PROPOSED"
    /\ prop[call.no].order = 0
    /\ prop[call.no] = call.row \/ (call.row.source = "SYSTEM" /\ call.row.run < current)

IInv ==
  /\ TypeOK /\ QueueInv /\ RowInv /\ DecisionInv /\ FreshInv /\ LoadInv
  /\ ApprovedAsOrdered

-----------------------------------------------------------------------------
(* The latest of some proposals, and the decision of a run.                *)

\* A bounded set of numbers has a largest one: the interval from it to the bound
\* is the smallest.
LEMMA BoundedHasMax ==
  ASSUME NEW S \in SUBSET Nat, S # {}, NEW bound \in Nat, \A x \in S : x <= bound
  PROVE  \E m \in S : \A y \in S : y <= m
<1> DEFINE T == {x .. bound : x \in S}
<1>1. T \subseteq FiniteSubsetsOf(Int) /\ T # {}
  <2>1. ASSUME NEW x \in S PROVE x .. bound \in FiniteSubsetsOf(Int)
    <3>1. IsFiniteSet(x .. bound)
      BY FS_Interval
    <3> QED
      BY <3>1 DEF FiniteSubsetsOf
  <2>2. T # {}
    OBVIOUS
  <2> QED
    BY <2>1, <2>2
<1>2. PICK m \in S : \A v \in T : ~(<<v, m .. bound>> \in StrictSubsetOrdering(Int))
  <2>1. PICK u \in T : \A v \in T : ~(<<v, u>> \in StrictSubsetOrdering(Int))
    <3> HIDE DEF T
    <3> QED
      BY <1>1, FS_StrictSubsetOrderingWellFounded, WFMin
  <2> QED
    BY <2>1
<1>3. \A y \in S : y <= m
  <2> SUFFICES ASSUME NEW y \in S, m < y PROVE FALSE
    OBVIOUS
  <2>1. y .. bound \subseteq m .. bound /\ m \in m .. bound /\ m \notin y .. bound
    OBVIOUS
  <2>2. y .. bound \in T
    OBVIOUS
  <2>3. <<y .. bound, m .. bound>> \in StrictSubsetOrdering(Int)
    <3>1. y .. bound \in SUBSET Int /\ m .. bound \in SUBSET Int /\ y .. bound # m .. bound
      BY <2>1
    <3> HIDE DEF T
    <3> QED
      BY <2>1, <3>1 DEF StrictSubsetOrdering
  <2> QED
    BY <1>2, <2>2, <2>3
<1> QED
  BY <1>3

LEMMA LatestIs ==
  ASSUME prop \in Seq(Rows), NEW S \in SUBSET DOMAIN prop
  PROVE  /\ Latest(S) \in Nat
         /\ S = {} => Latest(S) = 0
         /\ S # {} => Latest(S) \in S /\ Latest(S) # 0
<1>1. S \in SUBSET Nat /\ Len(prop) \in Nat /\ 0 \notin S /\ \A n \in S : n <= Len(prop)
  OBVIOUS
<1>2. S # {} => \E m \in S : \A y \in S : y <= m
  BY <1>1, BoundedHasMax
<1> QED
  BY <1>1, <1>2 DEF Latest

LEMMA HavingIs ==
  ASSUME prop \in Seq(Rows), NEW i, NEW status
  PROVE  /\ Having(i, status) \in SUBSET DOMAIN prop
         /\ \A n \in Having(i, status) : prop[n].item = i /\ prop[n].status = status
BY DEF Having

\* What a decision says about the proposal it names and the quantity of the run.
LEMMA DecideIs ==
  ASSUME prop \in Seq(Rows), NEW i \in Items, NEW want \in Amounts, NEW n, NEW action,
         n = Latest(Having(i, "PROPOSED")), action = Decide(i, want)
  PROVE  /\ n \in Nat /\ action \in Actions
         /\ action \in {"update", "keep", "withdraw"} =>
              n \in Having(i, "PROPOSED") /\ prop[n].source = "SYSTEM"
         /\ action \in {"update", "create"} => want # 0
         /\ action = "keep" => ByPerson(prop[n]) \/ prop[n].qty = want
         /\ action = "withdraw" => want = 0
         /\ action = "leave" => n \in Having(i, "PROPOSED")
         /\ action = "none" =>
              /\ n = 0
              /\ want # 0 => \E m \in Having(i, "REJECTED") : prop[m].qty = want
         /\ action = "create" => n = 0
<1>1. PICK m : m = Latest(Having(i, "REJECTED"))
  OBVIOUS
<1>2. n \in Nat /\ (n # 0 => n \in Having(i, "PROPOSED"))
  BY HavingIs, LatestIs
<1>3. m # 0 => m \in Having(i, "REJECTED")
  BY <1>1, HavingIs, LatestIs
<1>4. CASE n # 0 /\ ByPerson(prop[n])
  <2>1. action = IF prop[n].source = "MANUAL" THEN "leave" ELSE "keep"
    BY <1>4 DEF Decide
  <2>2. prop[n] \in Rows
    BY <1>2, <1>4, HavingIs
  <2> QED
    BY <1>2, <1>4, <2>1, <2>2 DEF Actions, Rows
<1>5. CASE n # 0 /\ ~ByPerson(prop[n])
  <2>1. action = IF want = 0 THEN "withdraw"
                 ELSE IF prop[n].qty = want THEN "keep" ELSE "update"
    BY <1>5 DEF Decide
  <2>2. prop[n] \in Rows /\ prop[n].source # "MANUAL"
    BY <1>2, <1>5, HavingIs DEF ByPerson
  <2> QED
    BY <1>2, <1>5, <2>1, <2>2 DEF Actions, Rows
<1>6. CASE n = 0
  <2>1. action = IF want = 0 \/ (m # 0 /\ prop[m].qty = want) THEN "none" ELSE "create"
    BY <1>1, <1>6 DEF Decide
  <2> QED
    BY <1>2, <1>3, <1>6, <2>1 DEF Actions
<1> QED
  BY <1>4, <1>5, <1>6

\* A decision only looks at the pending and the rejected proposals of its item.
LEMMA DecideSame ==
  ASSUME NEW i \in Items, prop \in Seq(Rows),
         \A status \in {"PROPOSED", "REJECTED"} :
           /\ Having(i, status)' = Having(i, status)
           /\ \A n \in Having(i, status) : prop'[n] = prop[n]
  PROVE  /\ Latest(Having(i, "PROPOSED"))' = Latest(Having(i, "PROPOSED"))
         /\ \A want \in Amounts : Decide(i, want)' = Decide(i, want)
<1>1. PICK n : n = Latest(Having(i, "PROPOSED"))
  OBVIOUS
<1>2. PICK m : m = Latest(Having(i, "REJECTED"))
  OBVIOUS
<1>3. Latest(Having(i, "PROPOSED"))' = n /\ Latest(Having(i, "REJECTED"))' = m
  <2>1. /\ Having(i, "PROPOSED")' = Having(i, "PROPOSED")
        /\ Having(i, "REJECTED")' = Having(i, "REJECTED")
    OBVIOUS
  <2> QED
    BY <1>1, <1>2, <2>1
<1>4. (n # 0 => prop'[n] = prop[n]) /\ (m # 0 => prop'[m] = prop[m])
  BY <1>1, <1>2, HavingIs, LatestIs
<1>5. ASSUME NEW want \in Amounts PROVE Decide(i, want)' = Decide(i, want)
  BY <1>1, <1>2, <1>3, <1>4 DEF Decide, ByPerson
<1> QED
  BY <1>1, <1>3, <1>5

-----------------------------------------------------------------------------
(* The steps that leave the proposals alone.                               *)

LEMMA InitInv == Init => IInv
<1> SUFFICES ASSUME Init PROVE IInv
  OBVIOUS
<1> USE ProposalAssumption DEF Init
<1>1. NoPlan \in [Items -> Plans]
  BY DEF NoPlan, Plans, Amounts, Actions
<1>2. [i \in Items |-> 0] \in [Items -> Amounts]
  BY DEF Amounts
<1>3. TypeOK
  <2>1. prop \in Seq(Rows) /\ touched \subseteq DOMAIN prop
    OBVIOUS
  <2>2. current \in 0 .. MaxRuns
    OBVIOUS
  <2>3. need \in [Items -> Amounts] /\ plan \in [Items -> Plans]
    BY <1>1, <1>2
  <2> QED
    BY <2>1, <2>2, <2>3 DEF TypeOK
<1> QED
  BY <1>3 DEF IInv, QueueInv, RowInv, DecisionInv, FreshInv, LoadInv, ApprovedAsOrdered

\* Neither the proposals nor the runs change.
LEMMA SameRows ==
  ASSUME IInv, UNCHANGED <<prop, current, need>>
  PROVE  RowInv' /\ ApprovedAsOrdered'
BY DEF IInv, RowInv, ApprovedAsOrdered, ByPerson

LEMMA SameSync ==
  ASSUME IInv, UNCHANGED <<prop, sync, plan, touched>>
  PROVE  DecisionInv' /\ FreshInv'
<1>1. DecisionInv'
  BY DEF IInv, DecisionInv, ByPerson
<1>2. \A i \in Items : Untouched(i)' = Untouched(i)
  BY DEF Untouched
<1>3. \A i, status : Having(i, status)' = Having(i, status)
  BY DEF Having
<1>4. ASSUME NEW i \in Items
      PROVE  /\ Latest(Having(i, "PROPOSED"))' = Latest(Having(i, "PROPOSED"))
             /\ \A want \in Amounts : Decide(i, want)' = Decide(i, want)
  BY <1>3, DecideSame DEF IInv, TypeOK
<1>5. \A i \in Items : plan[i].want \in Amounts
  BY DEF IInv, TypeOK, Plans
<1>6. FreshInv'
  BY <1>2, <1>4, <1>5 DEF IInv, FreshInv
<1> QED
  BY <1>1, <1>6

LEMMA SameLoad ==
  ASSUME IInv, UNCHANGED <<prop, current, api, call>>
  PROVE  LoadInv'
BY DEF IInv, LoadInv

\* A change, a run that is queued, and the first half of approving a list.
LEMMA QuietStep ==
  ASSUME IInv, Change \/ QueueRun \/ ReadStatus \/ Refuse
  PROVE  IInv'
<1>1. UNCHANGED <<prop, current, need, sync, plan, touched>>
  BY DEF Change, QueueRun, ReadStatus, Refuse, planVars, syncVars
<1>2. markers' \in BOOLEAN /\ queued' \in BOOLEAN /\ api' \in {"idle", "status", "loaded"}
  BY DEF Change, QueueRun, ReadStatus, Refuse, planVars, IInv, TypeOK
<1>3. TypeOK'
  BY <1>1, <1>2 DEF IInv, TypeOK
<1>4. QueueInv'
  <2>1. queued' = queued \/ (queued' = TRUE /\ current < MaxRuns)
    BY DEF Change, QueueRun, ReadStatus, Refuse, planVars
  <2> QED
    BY <1>1, <2>1 DEF IInv, QueueInv
<1>5. LoadInv'
  <2>1. api' # "loaded" \/ UNCHANGED <<api, call>>
    BY DEF Change, QueueRun, ReadStatus, Refuse
  <2>2. CASE api' # "loaded"
    BY <2>2 DEF LoadInv
  <2>3. CASE UNCHANGED <<api, call>>
    BY <1>1, <2>3, SameLoad
  <2> QED
    BY <2>1, <2>2, <2>3
<1> QED
  BY <1>1, <1>3, <1>4, <1>5, SameRows, SameSync DEF IInv

LEMMA LoadStep ==
  ASSUME IInv, NEW who \in People, NEW op \in Ops, NEW n \in DOMAIN prop, Load(op, who, n)
  PROVE  IInv'
<1>1. /\ prop[n].status = "PROPOSED" /\ api' = "loaded"
      /\ call' = [op |-> op, who |-> who, no |-> n, row |-> prop[n], status |-> call]
      /\ UNCHANGED <<prop, markers, queued, current, need, sync, plan, touched>>
  BY DEF Load, planVars, syncVars
<1>2. prop[n] \in Rows
  BY DEF IInv, TypeOK
<1>3. TypeOK' /\ QueueInv'
  BY <1>1 DEF IInv, TypeOK, QueueInv
<1>4. prop[n].order = 0
  BY <1>1 DEF IInv, ApprovedAsOrdered
<1>5. LoadInv'
  BY <1>1, <1>2, <1>4 DEF LoadInv
<1> QED
  BY <1>1, <1>3, <1>5, SameRows, SameSync DEF IInv

LEMMA SyncReadStep ==
  ASSUME IInv, SyncRead
  PROVE  IInv'
<1>1. PICK want \in [Items -> Amounts] :
        plan' = [i \in Items |-> [want |-> want[i], action |-> Decide(i, want[i]),
                                  no |-> Latest(Having(i, "PROPOSED"))]]
  BY DEF SyncRead
<1>2. /\ queued /\ sync' = "read" /\ touched' = {}
      /\ UNCHANGED <<prop, markers, queued, current, need, api, call>>
  BY DEF SyncRead, planVars
<1>3. ASSUME NEW i \in Items
      PROVE  /\ plan'[i] \in Plans
             /\ plan'[i].want = want[i] /\ want[i] \in Amounts
             /\ plan'[i].action = Decide(i, want[i])
             /\ plan'[i].no = Latest(Having(i, "PROPOSED"))
  <2>1. PICK n : n = Latest(Having(i, "PROPOSED"))
    OBVIOUS
  <2>2. PICK action : action = Decide(i, want[i])
    OBVIOUS
  <2>3. n \in Nat /\ action \in Actions
    BY <2>1, <2>2, DecideIs DEF IInv, TypeOK
  <2>4. plan'[i] = [want |-> want[i], action |-> action, no |-> n]
    BY <1>1, <2>1, <2>2
  <2> QED
    BY <2>1, <2>2, <2>3, <2>4 DEF Plans
<1>4. TypeOK' /\ QueueInv'
  <2>1. plan' \in [Items -> Plans]
    <3>1. DOMAIN plan' = Items /\ plan' = [i \in Items |-> plan'[i]]
      BY <1>1
    <3> QED
      BY <1>3, <3>1
  <2> QED
    BY <1>2, <2>1 DEF IInv, TypeOK, QueueInv
<1>5. DecisionInv'
  <2> SUFFICES ASSUME NEW i \in Items, NEW n, NEW action,
                      n = plan'[i].no, action = plan'[i].action
               PROVE  /\ action \in {"update", "keep", "withdraw"} =>
                           n \in DOMAIN prop /\ prop[n].item = i /\ prop[n].source = "SYSTEM"
                      /\ action \in {"update", "withdraw"} => prop[n].status # "APPROVED"
                      /\ action \in {"update", "create"} => want[i] # 0
                      /\ action = "keep" => ByPerson(prop[n]) \/ prop[n].qty = want[i]
    BY <1>2, <1>3 DEF DecisionInv, ByPerson
  <2>1. n = Latest(Having(i, "PROPOSED")) /\ action = Decide(i, want[i])
    BY <1>3
  <2>2. n \in Having(i, "PROPOSED") => n \in DOMAIN prop /\ prop[n].item = i /\ prop[n].status = "PROPOSED"
    BY DEF Having
  <2> QED
    BY <1>3, <2>1, <2>2, DecideIs DEF IInv, TypeOK
<1>6. FreshInv'
  <2>1. \A i, status : Having(i, status)' = Having(i, status)
    BY <1>2 DEF Having
  <2>2. ASSUME NEW i \in Items
        PROVE  /\ Latest(Having(i, "PROPOSED"))' = Latest(Having(i, "PROPOSED"))
               /\ \A w \in Amounts : Decide(i, w)' = Decide(i, w)
    BY <1>2, <2>1, DecideSame DEF IInv, TypeOK
  <2> QED
    BY <1>3, <2>2 DEF FreshInv
<1> QED
  BY <1>2, <1>4, <1>5, <1>6, SameRows, SameLoad DEF IInv

LEMMA SyncWriteStep ==
  ASSUME IInv, SyncWrite
  PROVE  IInv'
<1>1. /\ sync = "read" /\ sync' = "written"
      /\ UNCHANGED <<prop, markers, queued, current, need, plan, touched, api, call>>
  BY DEF SyncWrite, planVars
<1>2. TypeOK' /\ QueueInv'
  BY <1>1 DEF IInv, TypeOK, QueueInv
<1>3. DecisionInv'
  BY <1>1 DEF IInv, DecisionInv, ByPerson
<1>4. FreshInv'
  <2>1. \A i \in Items : Untouched(i)' = Untouched(i)
    BY <1>1 DEF Untouched
  <2>2. \A i, status : Having(i, status)' = Having(i, status)
    BY <1>1 DEF Having
  <2>3. ASSUME NEW i \in Items
        PROVE  /\ Latest(Having(i, "PROPOSED"))' = Latest(Having(i, "PROPOSED"))
               /\ \A want \in Amounts : Decide(i, want)' = Decide(i, want)
    BY <1>1, <2>2, DecideSame DEF IInv, TypeOK
  <2>4. \A i \in Items : plan[i].want \in Amounts
    BY DEF IInv, TypeOK, Plans
  <2> QED
    BY <1>1, <2>1, <2>3, <2>4 DEF IInv, FreshInv
<1> QED
  BY <1>1, <1>2, <1>3, <1>4, SameRows, SameLoad DEF IInv

LEMMA SyncAbortStep ==
  ASSUME IInv, SyncAbort
  PROVE  IInv'
<1>1. /\ sync' = "idle" /\ plan' = NoPlan /\ touched' = {}
      /\ UNCHANGED <<prop, markers, queued, current, need, api, call>>
  BY DEF SyncAbort, planVars
<1>2. NoPlan \in [Items -> Plans]
  BY DEF NoPlan, Plans, Amounts, Actions
<1>3. TypeOK' /\ QueueInv' /\ DecisionInv' /\ FreshInv'
  BY <1>1, <1>2 DEF IInv, TypeOK, QueueInv, DecisionInv, FreshInv
<1> QED
  BY <1>1, <1>3, SameRows, SameLoad DEF IInv

-----------------------------------------------------------------------------
(* What a person writes to one proposal.                                   *)

\* The pending and the rejected proposals of an item nobody has written to are
\* the ones the run has read.
LEMMA WriteFresh ==
  ASSUME IInv, NEW n, \A m \in DOMAIN prop \ {n} : m \in DOMAIN prop' /\ prop'[m] = prop[m],
         prop' \in Seq(Rows), DOMAIN prop' \subseteq DOMAIN prop \cup {n}, n \in DOMAIN prop',
         n \in DOMAIN prop => prop'[n].item = prop[n].item,
         touched' = (IF sync = "idle" THEN {} ELSE touched \cup {n}), UNCHANGED <<sync, plan>>
  PROVE  FreshInv'
<1> SUFFICES ASSUME sync # "idle", NEW i \in Items, Untouched(i)'
             PROVE  /\ plan'[i].action = Decide(i, plan[i].want)'
                    /\ plan'[i].no = Latest(Having(i, "PROPOSED"))'
  BY DEF FreshInv
<1>1. prop'[n].item # i /\ (n \in DOMAIN prop => prop[n].item # i)
  BY DEF Untouched
<1>2. Untouched(i)
  BY <1>1 DEF Untouched, IInv, TypeOK
<1>3. ASSUME NEW status
      PROVE  /\ Having(i, status)' = Having(i, status)
             /\ \A m \in Having(i, status) : prop'[m] = prop[m]
  BY <1>1 DEF Having
<1>4. plan[i].want \in Amounts
  BY DEF IInv, TypeOK, Plans
<1>5. /\ Latest(Having(i, "PROPOSED"))' = Latest(Having(i, "PROPOSED"))
      /\ Decide(i, plan[i].want)' = Decide(i, plan[i].want)
  BY <1>3, <1>4, DecideSame DEF IInv, TypeOK
<1> QED
  BY <1>2, <1>5 DEF IInv, FreshInv

\* A row keeps its item, its source and its run; if it stays pending then with a
\* person for its author, and while a run is synced only a list approves it.
LEMMA WriteInv ==
  ASSUME IInv, NEW n \in DOMAIN prop, NEW row \in Rows, prop' = [prop EXCEPT ![n] = row],
         touched' = (IF sync = "idle" THEN {} ELSE touched \cup {n}),
         UNCHANGED <<queued, current, need, sync, plan>>, markers' \in BOOLEAN, api' = "idle",
         row.item = prop[n].item, row.source = prop[n].source, row.run = prop[n].run,
         row.status = "PROPOSED" => row.author # NoOne,
         row.author # NoOne \/ (row.author = prop[n].author /\ row.qty = prop[n].qty),
         row.status = "APPROVED" <=> row.order # 0,
         row.status = "APPROVED" => row.order = row.reviewed /\ (row.listed \/ row.qty = row.order),
         sync # "idle" /\ row.status = "APPROVED" => row.listed \/ row.source = "MANUAL"
  PROVE  IInv'
<1>1. /\ DOMAIN prop' = DOMAIN prop /\ prop' \in Seq(Rows)
      /\ \A m \in DOMAIN prop : prop'[m] = IF m = n THEN row ELSE prop[m]
  BY DEF IInv, TypeOK
<1>2. TypeOK'
  BY <1>1 DEF IInv, TypeOK
<1>3. QueueInv' /\ LoadInv'
  BY DEF IInv, QueueInv, LoadInv
<1>4. RowInv'
  BY <1>1 DEF IInv, RowInv, ByPerson
<1>5. ApprovedAsOrdered'
  BY <1>1 DEF IInv, ApprovedAsOrdered
<1>6. FreshInv'
  BY <1>1, WriteFresh
<1>7. DecisionInv'
  <2> SUFFICES ASSUME sync # "idle", NEW i \in Items, NEW m, NEW action,
                      m = plan[i].no, action = plan[i].action
               PROVE  /\ action \in {"update", "keep", "withdraw"} =>
                           m \in DOMAIN prop' /\ prop'[m].item = i /\ prop'[m].source = "SYSTEM"
                      /\ action \in {"update", "withdraw"} =>
                           (prop'[m].status = "APPROVED" => prop'[m].listed)
                      /\ action \in {"update", "create"} => plan[i].want # 0
                      /\ action = "keep" => ByPerson(prop'[m]) \/ prop'[m].qty = plan[i].want
    BY DEF DecisionInv, ByPerson
  <2>1. /\ action \in {"update", "keep", "withdraw"} =>
             m \in DOMAIN prop /\ prop[m].item = i /\ prop[m].source = "SYSTEM"
        /\ action \in {"update", "withdraw"} => (prop[m].status = "APPROVED" => prop[m].listed)
        /\ action \in {"update", "create"} => plan[i].want # 0
        /\ action = "keep" => ByPerson(prop[m]) \/ prop[m].qty = plan[i].want
    BY DEF IInv, DecisionInv
  <2>2. CASE m # n
    BY <1>1, <2>1, <2>2 DEF ByPerson
  <2>3. CASE m = n
    BY <1>1, <2>1, <2>3 DEF ByPerson
  <2> QED
    BY <2>2, <2>3
<1> QED
  BY <1>2, <1>3, <1>4, <1>5, <1>6, <1>7 DEF IInv

LEMMA RaiseStep ==
  ASSUME IInv, NEW who \in People, NEW i \in Items, NEW q \in Quantities, Raise(who, i, q)
  PROVE  IInv'
<1>1. PICK row : row = New(i, q, "MANUAL", who, 0)
  OBVIOUS
<1>2. row \in Rows /\ row.status = "PROPOSED" /\ row.order = 0 /\ row.source = "MANUAL" /\ row.run = 0
  BY <1>1, ProposalAssumption DEF New, Rows, Amounts
<1>3. /\ api = "idle" /\ prop' = Append(prop, row)
      /\ touched' = IF sync = "idle" THEN {} ELSE touched \cup {Len(prop) + 1}
      /\ UNCHANGED <<markers, queued, current, need, sync, plan, api, call>>
  BY <1>1 DEF Raise, planVars
<1>4. PICK n : n = Len(prop) + 1
  OBVIOUS
<1>5. /\ prop' \in Seq(Rows) /\ DOMAIN prop' = DOMAIN prop \cup {n} /\ n \notin DOMAIN prop
      /\ prop'[n] = row /\ \A m \in DOMAIN prop : prop'[m] = prop[m]
  BY <1>2, <1>3, <1>4 DEF IInv, TypeOK
<1>6. TypeOK'
  <2>1. touched' \subseteq DOMAIN prop'
    BY <1>3, <1>4, <1>5 DEF IInv, TypeOK
  <2> QED
    BY <1>3, <1>5, <2>1 DEF IInv, TypeOK
<1>7. QueueInv' /\ LoadInv'
  BY <1>3 DEF IInv, QueueInv, LoadInv
<1>8. RowInv'
  <2>1. current \in Nat
    BY ProposalAssumption DEF IInv, TypeOK
  <2> QED
    BY <1>2, <1>3, <1>5, <2>1 DEF IInv, RowInv, ByPerson
<1>9. ApprovedAsOrdered'
  BY <1>2, <1>5 DEF IInv, ApprovedAsOrdered
<1>10. FreshInv'
  BY <1>3, <1>4, <1>5, WriteFresh
<1>11. DecisionInv'
  <2> SUFFICES ASSUME sync # "idle", NEW j \in Items, NEW m, NEW action,
                      m = plan[j].no, action = plan[j].action
               PROVE  /\ action \in {"update", "keep", "withdraw"} =>
                           m \in DOMAIN prop' /\ prop'[m].item = j /\ prop'[m].source = "SYSTEM"
                      /\ action \in {"update", "withdraw"} =>
                           (prop'[m].status = "APPROVED" => prop'[m].listed)
                      /\ action \in {"update", "create"} => plan[j].want # 0
                      /\ action = "keep" => ByPerson(prop'[m]) \/ prop'[m].qty = plan[j].want
    BY <1>3 DEF DecisionInv, ByPerson
  <2>1. /\ action \in {"update", "keep", "withdraw"} =>
             m \in DOMAIN prop /\ prop[m].item = j /\ prop[m].source = "SYSTEM"
        /\ action \in {"update", "withdraw"} => (prop[m].status = "APPROVED" => prop[m].listed)
        /\ action \in {"update", "create"} => plan[j].want # 0
        /\ action = "keep" => ByPerson(prop[m]) \/ prop[m].qty = plan[j].want
    BY DEF IInv, DecisionInv
  <2> QED
    BY <1>5, <2>1 DEF ByPerson
<1> QED
  BY <1>6, <1>7, <1>8, <1>9, <1>10, <1>11 DEF IInv

LEMMA ChangeStep ==
  ASSUME IInv, NEW q \in Quantities, ChangeProposal(q)
  PROVE  IInv'
<1>1. PICK n \in DOMAIN prop : n = call.no
  BY DEF ChangeProposal, Decides, IInv, LoadInv
<1>2. PICK row : row = [prop[n] EXCEPT !.qty = q, !.author = call.who]
  OBVIOUS
<1>3. api = "loaded" /\ call.who \in People /\ call.who # NoOne /\ prop[n].order = 0
  BY <1>1, ProposalAssumption DEF ChangeProposal, Decides, IInv, LoadInv
<1>4. /\ prop' = [prop EXCEPT ![n] = row] /\ api' = "idle"
      /\ touched' = (IF sync = "idle" THEN {} ELSE touched \cup {n})
      /\ UNCHANGED <<markers, queued, current, need, sync, plan>>
  BY <1>1, <1>2 DEF ChangeProposal, Update, planVars
<1>5. prop[n] \in Rows /\ prop[n].status # "APPROVED"
  BY <1>3 DEF IInv, TypeOK, ApprovedAsOrdered
<1>6. /\ row \in Rows /\ row.item = prop[n].item /\ row.source = prop[n].source
      /\ row.run = prop[n].run /\ row.author # NoOne
      /\ row.status = prop[n].status /\ row.order = 0
  BY <1>2, <1>3, <1>5 DEF Rows
<1>7. markers' \in BOOLEAN
  BY <1>4 DEF IInv, TypeOK
<1> QED
  BY <1>4, <1>5, <1>6, <1>7, WriteInv

LEMMA RejectStep ==
  ASSUME IInv, Reject
  PROVE  IInv'
<1>1. PICK n \in DOMAIN prop : n = call.no
  BY DEF Reject, Decides, IInv, LoadInv
<1>2. PICK row : row = [prop[n] EXCEPT !.status = "REJECTED", !.reviewed = call.row.qty]
  OBVIOUS
<1>3. api = "loaded" /\ call.row \in Rows /\ prop[n].order = 0
  BY <1>1 DEF Reject, Decides, IInv, LoadInv
<1>4. /\ prop' = [prop EXCEPT ![n] = row] /\ api' = "idle"
      /\ touched' = (IF sync = "idle" THEN {} ELSE touched \cup {n})
      /\ UNCHANGED <<markers, queued, current, need, sync, plan>>
  BY <1>1, <1>2 DEF Reject, Update, planVars
<1>5. prop[n] \in Rows /\ call.row.qty \in Amounts
  <2>1. prop[n] \in Rows
    BY DEF IInv, TypeOK
  <2>2. call.row.qty \in Quantities
    BY <1>3 DEF Rows
  <2> QED
    BY <2>1, <2>2 DEF Amounts
<1>6. /\ row \in Rows /\ row.item = prop[n].item /\ row.source = prop[n].source
      /\ row.run = prop[n].run /\ row.author = prop[n].author /\ row.qty = prop[n].qty
      /\ row.status = "REJECTED" /\ row.order = 0
  BY <1>2, <1>3, <1>5 DEF Rows
<1>7. markers' \in BOOLEAN
  BY <1>4 DEF IInv, TypeOK
<1> QED
  BY <1>4, <1>6, <1>7, WriteInv

\* A proposal of the system that is approved alone is as its approver saw it:
\* it is of the current run, so no run has written it since.
LEMMA ApprovedAlone ==
  ASSUME IInv, Approve
  PROVE  /\ prop[call.no] = call.row
         /\ call.row.source = "SYSTEM" => sync = "idle" /\ call.row.run = current
<1>1. LoadInv /\ api = "loaded"
  BY DEF Approve, Decides, IInv
<1>2. call.row.source = "SYSTEM" => UpToDate /\ call.row.run = current
  BY DEF Approve, MayApprove
<1>3. current \in Nat
  BY ProposalAssumption DEF IInv, TypeOK
<1>4. prop[call.no] = call.row
  BY <1>1, <1>2, <1>3 DEF LoadInv
<1>5. UpToDate => sync = "idle"
  BY DEF UpToDate, IInv, QueueInv
<1> QED
  BY <1>2, <1>4, <1>5

LEMMA OrderStep ==
  ASSUME IInv, Approve \/ ApproveMany
  PROVE  IInv'
<1>1. PICK n \in DOMAIN prop : n = call.no
  BY DEF Approve, ApproveMany, Decides, IInv, LoadInv
<1>2. PICK listed \in BOOLEAN : listed = (call.op = "approveMany")
  OBVIOUS
<1>3. PICK row : row = [prop[n] EXCEPT !.status = "APPROVED", !.order = call.row.qty,
                                       !.reviewed = call.row.qty, !.listed = listed]
  OBVIOUS
<1>4. api = "loaded" /\ call.row \in Rows /\ Order
  BY DEF Approve, ApproveMany, Decides, IInv, LoadInv
<1>5. /\ prop' = [prop EXCEPT ![n] = row] /\ api' = "idle" /\ markers' \in BOOLEAN
      /\ touched' = (IF sync = "idle" THEN {} ELSE touched \cup {n})
      /\ UNCHANGED <<queued, current, need, sync, plan>>
  BY <1>1, <1>2, <1>3, <1>4 DEF Order, Update
<1>6. prop[n] \in Rows /\ call.row.qty \in Amounts /\ call.row.qty # 0
  <2>1. prop[n] \in Rows
    BY DEF IInv, TypeOK
  <2>2. call.row.qty \in Quantities
    BY <1>4 DEF Rows
  <2> QED
    BY <2>1, <2>2, ProposalAssumption DEF Amounts
<1>7. /\ row \in Rows /\ row.item = prop[n].item /\ row.source = prop[n].source
      /\ row.run = prop[n].run /\ row.author = prop[n].author /\ row.qty = prop[n].qty
      /\ row.status = "APPROVED" /\ row.order = call.row.qty /\ row.reviewed = call.row.qty
      /\ row.listed = listed
  BY <1>3, <1>6 DEF Rows
<1>8. row.listed \/ row.qty = row.order
  <2>1. CASE Approve
    BY <1>1, <1>7, <2>1, ApprovedAlone
  <2>2. CASE ApproveMany
    BY <1>2, <1>7, <2>2 DEF ApproveMany, Decides
  <2> QED
    BY <2>1, <2>2
<1>9. sync # "idle" => row.listed \/ row.source = "MANUAL"
  <2>1. CASE Approve
    <3>1. prop[n].source = "SYSTEM" => sync = "idle"
      BY <1>1, <2>1, ApprovedAlone
    <3> QED
      BY <1>6, <1>7, <3>1 DEF Rows
  <2>2. CASE ApproveMany
    BY <1>2, <1>7, <2>2 DEF ApproveMany, Decides
  <2> QED
    BY <2>1, <2>2
<1> QED
  BY <1>5, <1>6, <1>7, <1>8, <1>9, WriteInv

-----------------------------------------------------------------------------
(* The run commits.                                                        *)

\* The new proposals are one for each item that is to have one.
LEMMA SeqOfSet ==
  ASSUME NEW S, IsFiniteSet(S), NEW s, s = SetToSeq(S)
  PROVE  /\ s \in Seq(S)
         /\ \A x \in S : \E k \in DOMAIN s : s[k] = x
<1>1. PICK n \in Nat : n = Cardinality(S) /\ ExistsBijection(1 .. n, S)
  BY FS_CardinalityType
<1>2. PICK f \in Bijection(1 .. n, S) : TRUE
  BY <1>1 DEF ExistsBijection
<1>3. f \in [1 .. n -> S] /\ IsInjective(f)
  BY <1>2 DEF Bijection, Injection, IsInjective
<1>4. s \in [1 .. n -> S] /\ IsInjective(s)
  BY <1>1, <1>3 DEF SetToSeq
<1>5. s \in Injection(1 .. n, S)
  BY <1>4 DEF Injection, IsInjective
<1>6. Cardinality(1 .. n) = n
  BY <1>1, FS_Interval
<1>7. s \in Surjection(1 .. n, S)
  BY <1>1, <1>5, <1>6, FS_Injection
<1>8. s \in Seq(S)
  BY <1>4
<1>9. \A x \in S : \E k \in 1 .. n : s[k] = x
  BY <1>7 DEF Surjection
<1> QED
  BY <1>4, <1>8, <1>9

\* The row a run leaves: what it does not write is untouched, what it writes is
\* a proposal of its own.
LEMMA WrittenIs ==
  ASSUME IInv, sync # "idle", CheckAllows, NEW n \in DOMAIN prop, NEW row, row = Written(n)
  PROVE  /\ row \in Rows
         /\ row.item = prop[n].item /\ row.order = prop[n].order /\ row.reviewed = prop[n].reviewed
         /\ row.listed = prop[n].listed
         /\ row = prop[n] \/ (prop[n].source = "SYSTEM" /\ row.run = current + 1)
         /\ row.status = prop[n].status \/ (row.status = "WITHDRAWN" /\ prop[n].order = 0)
         /\ row.qty = prop[n].qty \/ (prop[n].status = "APPROVED" => prop[n].listed)
         /\ row # prop[n] /\ row.status = "PROPOSED" =>
              ByPerson(row) \/ row.qty = plan[row.item].want
         /\ plan[prop[n].item].no = n /\ plan[prop[n].item].action \in {"update", "keep", "leave"} =>
              row.status = prop[n].status
<1>1. prop[n] \in Rows
  BY DEF IInv, TypeOK
<1>2. PICK i \in Items : i = prop[n].item
  BY <1>1 DEF Rows
<1>3. PICK run : run = current + 1
  OBVIOUS
<1>4. run \in 0 .. MaxRuns
  <2>1. current \in Nat /\ current < MaxRuns /\ MaxRuns \in Nat
    BY ProposalAssumption DEF IInv, QueueInv, TypeOK
  <2> QED
    BY <1>3, <2>1
<1>5. plan[i] \in Plans
  BY DEF IInv, TypeOK
<1>6. ASSUME NEW action, action = plan[i].action, plan[i].no = n
      PROVE  /\ action \in {"update", "keep", "withdraw"} => prop[n].source = "SYSTEM"
             /\ action \in {"update", "withdraw"} => (prop[n].status = "APPROVED" => prop[n].listed)
             /\ action = "update" => plan[i].want \in Quantities
             /\ action = "keep" => ByPerson(prop[n]) \/ prop[n].qty = plan[i].want
             /\ action = "withdraw" => prop[n].order = 0
  <2>1. action = "update" => plan[i].want # 0
    BY <1>6 DEF IInv, DecisionInv
  <2>2. plan[i].want \in Quantities \cup {0}
    BY <1>5 DEF Plans, Amounts
  <2> QED
    BY <1>6, <2>1, <2>2 DEF IInv, DecisionInv, CheckAllows
<1>7. CASE plan[i].no = n /\ plan[i].action = "update"
  <2>1. row = [prop[n] EXCEPT !.run = run, !.qty = plan[i].want, !.author = NoOne]
    <3>1. PICK r : r = [prop[n] EXCEPT !.run = run]
      OBVIOUS
    <3>2. row = [r EXCEPT !.qty = plan[i].want, !.author = NoOne]
      BY <1>2, <1>3, <1>7, <3>1 DEF Written
    <3> QED
      BY <1>1, <3>1, <3>2 DEF Rows
  <2>2. /\ row \in Rows /\ row.item = i /\ row.order = prop[n].order
        /\ row.reviewed = prop[n].reviewed /\ row.listed = prop[n].listed
        /\ row.run = run /\ row.status = prop[n].status /\ row.qty = plan[i].want
    BY <1>1, <1>2, <1>4, <1>6, <1>7, <2>1 DEF Rows
  <2> QED
    BY <1>2, <1>3, <1>6, <1>7, <2>2
<1>8. CASE plan[i].no = n /\ plan[i].action = "withdraw"
  <2>1. row = [prop[n] EXCEPT !.run = run, !.status = "WITHDRAWN"]
    <3>1. PICK r : r = [prop[n] EXCEPT !.run = run]
      OBVIOUS
    <3>2. row = [r EXCEPT !.status = "WITHDRAWN"]
      BY <1>2, <1>3, <1>8, <3>1 DEF Written
    <3> QED
      BY <1>1, <3>1, <3>2 DEF Rows
  <2>2. /\ row \in Rows /\ row.item = i /\ row.order = prop[n].order
        /\ row.reviewed = prop[n].reviewed /\ row.listed = prop[n].listed
        /\ row.run = run /\ row.status = "WITHDRAWN" /\ row.qty = prop[n].qty
    BY <1>1, <1>2, <1>4, <2>1 DEF Rows
  <2> QED
    BY <1>2, <1>3, <1>6, <1>8, <2>2
<1>9. CASE plan[i].no = n /\ plan[i].action = "keep"
  <2>1. row = [prop[n] EXCEPT !.run = run]
    BY <1>2, <1>3, <1>9 DEF Written
  <2>2. /\ row \in Rows /\ row.item = i /\ row.order = prop[n].order
        /\ row.reviewed = prop[n].reviewed /\ row.listed = prop[n].listed
        /\ row.run = run /\ row.status = prop[n].status /\ row.qty = prop[n].qty
        /\ row.source = prop[n].source /\ row.author = prop[n].author
    BY <1>1, <1>2, <1>4, <2>1 DEF Rows
  <2> QED
    BY <1>2, <1>3, <1>6, <1>9, <2>2 DEF ByPerson
<1>10. CASE ~(plan[i].no = n /\ plan[i].action \in {"update", "withdraw", "keep"})
  <2>1. row = prop[n]
    BY <1>2, <1>10 DEF Written
  <2> QED
    BY <1>1, <2>1
<1> QED
  BY <1>7, <1>8, <1>9, <1>10

\* What is proposed after the run: the rows as it leaves them and one new row for
\* each item that is to have one.
LEMMA Committed ==
  ASSUME IInv, SyncCommit
  PROVE  /\ prop' \in Seq(Rows) /\ DOMAIN prop \subseteq DOMAIN prop'
         /\ \A n \in DOMAIN prop : prop'[n] = Written(n)
         /\ \A n \in DOMAIN prop' \ DOMAIN prop :
              \E i \in Creates : /\ plan[i].want # 0
                                 /\ prop'[n] = New(i, plan[i].want, "SYSTEM", NoOne, current + 1)
         /\ \A i \in Creates : \E n \in DOMAIN prop' : prop'[n].item = i /\ prop'[n].status = "PROPOSED"
<1>1. PICK new : new = SetToSeq(Creates)
  OBVIOUS
<1>2. PICK a : a = [n \in DOMAIN prop |-> Written(n)]
  OBVIOUS
<1>3. PICK b : b = [k \in DOMAIN new |-> New(new[k], plan[new[k]].want, "SYSTEM", NoOne, current + 1)]
  OBVIOUS
<1>4. prop' = a \o b /\ sync # "idle" /\ CheckAllows
  BY <1>1, <1>2, <1>3 DEF SyncCommit
<1>5. IsFiniteSet(Creates)
  BY FS_Subset, ProposalAssumption DEF Creates
<1>6. new \in Seq(Creates) /\ \A i \in Creates : \E k \in DOMAIN new : new[k] = i
  BY <1>1, <1>5, SeqOfSet
<1>7. a \in Seq(Rows) /\ DOMAIN a = DOMAIN prop
  <2>1. \A n \in DOMAIN prop : Written(n) \in Rows
    BY <1>4, WrittenIs
  <2>2. DOMAIN prop = 1 .. Len(prop) /\ Len(prop) \in Nat
    BY DEF IInv, TypeOK
  <2> QED
    BY <1>2, <2>1, <2>2
<1>8. current + 1 \in 0 .. MaxRuns
  <2>1. current \in Nat /\ current < MaxRuns /\ MaxRuns \in Nat
    BY <1>4, ProposalAssumption DEF IInv, QueueInv, TypeOK
  <2> QED
    BY <2>1
<1>9. ASSUME NEW i \in Creates
      PROVE  /\ plan[i].want # 0 /\ i \in Items
             /\ New(i, plan[i].want, "SYSTEM", NoOne, current + 1) \in Rows
             /\ New(i, plan[i].want, "SYSTEM", NoOne, current + 1).item = i
             /\ New(i, plan[i].want, "SYSTEM", NoOne, current + 1).status = "PROPOSED"
  <2>1. i \in Items /\ plan[i].action = "create"
    BY DEF Creates
  <2>2. plan[i].want # 0 /\ plan[i].want \in Quantities \cup {0}
    BY <1>4, <2>1 DEF IInv, DecisionInv, TypeOK, Plans, Amounts
  <2> QED
    BY <1>8, <2>1, <2>2 DEF New, Rows, Amounts
<1>10. \A k \in DOMAIN new : new[k] \in Creates
  BY <1>6
<1>11. b \in Seq(Rows) /\ DOMAIN b = DOMAIN new
  <2>1. DOMAIN new = 1 .. Len(new) /\ Len(new) \in Nat
    BY <1>6
  <2>2. \A k \in DOMAIN new : b[k] \in Rows
    BY <1>3, <1>9, <1>10
  <2> QED
    BY <1>3, <2>1, <2>2
<1>12. /\ prop' \in Seq(Rows) /\ DOMAIN prop' = 1 .. (Len(a) + Len(b))
       /\ \A n \in 1 .. Len(a) : prop'[n] = a[n]
       /\ \A k \in 1 .. Len(b) : prop'[Len(a) + k] = b[k]
       /\ \A n \in DOMAIN prop' \ DOMAIN a : n - Len(a) \in DOMAIN b /\ prop'[n] = b[n - Len(a)]
  BY <1>4, <1>7, <1>11
<1>13. DOMAIN prop \subseteq DOMAIN prop' /\ \A n \in DOMAIN prop : prop'[n] = Written(n)
  <2>1. DOMAIN prop = 1 .. Len(a) /\ Len(a) \in Nat /\ Len(b) \in Nat
    BY <1>7, <1>11
  <2>2. DOMAIN prop \subseteq DOMAIN prop'
    BY <1>12, <2>1
  <2>3. \A n \in DOMAIN prop : a[n] = Written(n)
    BY <1>2
  <2>4. \A n \in DOMAIN prop : prop'[n] = a[n]
    BY <1>12, <2>1
  <2> QED
    BY <2>2, <2>3, <2>4
<1>14. ASSUME NEW n \in DOMAIN prop' \ DOMAIN prop
       PROVE  \E i \in Creates : /\ plan[i].want # 0
                                 /\ prop'[n] = New(i, plan[i].want, "SYSTEM", NoOne, current + 1)
  <2>1. PICK k \in DOMAIN b : prop'[n] = b[k]
    BY <1>7, <1>12
  <2>2. new[k] \in Creates /\ prop'[n] = New(new[k], plan[new[k]].want, "SYSTEM", NoOne, current + 1)
    BY <1>3, <1>10, <1>11, <2>1
  <2> QED
    BY <1>9, <2>2
<1>15. ASSUME NEW i \in Creates
       PROVE  \E n \in DOMAIN prop' : prop'[n].item = i /\ prop'[n].status = "PROPOSED"
  <2>1. PICK k \in DOMAIN new : new[k] = i
    BY <1>6
  <2>2. b[k] = New(i, plan[i].want, "SYSTEM", NoOne, current + 1) /\ k \in 1 .. Len(b)
    BY <1>3, <1>11, <2>1
  <2>3. Len(a) + k \in DOMAIN prop' /\ prop'[Len(a) + k] = b[k]
    <3>1. Len(a) \in Nat /\ Len(b) \in Nat
      BY <1>7, <1>11
    <3> QED
      BY <1>12, <2>2, <3>1
  <2> QED
    BY <1>9, <2>2, <2>3
<1> QED
  BY <1>12, <1>13, <1>14, <1>15

LEMMA SyncCommitStep ==
  ASSUME IInv, SyncCommit
  PROVE  IInv'
<1>1. /\ sync # "idle" /\ CheckAllows /\ queued' = FALSE /\ sync' = "idle"
      /\ plan' = NoPlan /\ touched' = {} /\ current' = current + 1
      /\ need' = [i \in Items |-> plan[i].want]
      /\ UNCHANGED <<markers, api, call>>
  BY DEF SyncCommit
<1>2. current \in Nat /\ current' \in 0 .. MaxRuns
  <2>1. current \in Nat /\ current < MaxRuns /\ MaxRuns \in Nat
    BY <1>1, ProposalAssumption DEF IInv, QueueInv, TypeOK
  <2> QED
    BY <1>1, <2>1
<1>3. TypeOK'
  <2>1. NoPlan \in [Items -> Plans]
    BY DEF NoPlan, Plans, Amounts, Actions
  <2>2. need' \in [Items -> Amounts]
    BY <1>1 DEF IInv, TypeOK, Plans
  <2>3. prop' \in Seq(Rows)
    BY Committed
  <2> QED
    BY <1>1, <1>2, <2>1, <2>2, <2>3 DEF IInv, TypeOK
<1>4. QueueInv' /\ DecisionInv' /\ FreshInv'
  BY <1>1 DEF QueueInv, DecisionInv, FreshInv
<1>5. \A n \in DOMAIN prop' \ DOMAIN prop :
        /\ prop'[n].run = current' /\ prop'[n].order = 0 /\ prop'[n].status = "PROPOSED"
        /\ prop'[n].qty = need'[prop'[n].item]
  <2> SUFFICES ASSUME NEW n \in DOMAIN prop' \ DOMAIN prop
               PROVE  /\ prop'[n].run = current' /\ prop'[n].order = 0
                      /\ prop'[n].status = "PROPOSED"
                      /\ prop'[n].qty = need'[prop'[n].item]
    OBVIOUS
  <2>1. PICK i \in Creates : prop'[n] = New(i, plan[i].want, "SYSTEM", NoOne, current + 1)
    BY Committed
  <2>2. /\ prop'[n].item = i /\ prop'[n].qty = plan[i].want /\ prop'[n].run = current + 1
        /\ prop'[n].order = 0 /\ prop'[n].status = "PROPOSED"
    BY <2>1 DEF New
  <2>3. need'[i] = plan[i].want
    BY <1>1 DEF Creates
  <2> QED
    BY <1>1, <2>2, <2>3
<1>6. RowInv'
  <2> SUFFICES ASSUME NEW n \in DOMAIN prop'
               PROVE  /\ prop'[n].run <= current'
                      /\ prop'[n].status = "PROPOSED" /\ prop'[n].run = current'
                           /\ ~ByPerson(prop'[n]) => prop'[n].qty = need'[prop'[n].item]
    BY DEF RowInv, ByPerson
  <2>1. CASE n \notin DOMAIN prop
    BY <1>2, <1>5, <2>1
  <2>2. CASE n \in DOMAIN prop
    <3>1. PICK row : row = Written(n) /\ prop'[n] = row
      BY <2>2, Committed
    <3>2. /\ row \in Rows
          /\ row = prop[n] \/ row.run = current + 1
          /\ row # prop[n] /\ row.status = "PROPOSED" =>
               ByPerson(row) \/ row.qty = plan[row.item].want
      BY <1>1, <2>2, <3>1, WrittenIs
    <3>3. CASE row = prop[n]
      <4>1. row.run <= current /\ row.run \in Nat
        BY <2>2, <3>2, <3>3, ProposalAssumption DEF IInv, RowInv, Rows
      <4>2. row.run <= current' /\ row.run # current'
        BY <1>1, <1>2, <4>1
      <4> QED
        BY <3>1, <4>2
    <3>4. CASE row # prop[n]
      <4>1. row.item \in Items /\ row.run = current'
        BY <1>1, <3>2, <3>4 DEF Rows
      <4>2. need'[row.item] = plan[row.item].want
        BY <1>1, <4>1
      <4> QED
        BY <1>2, <3>1, <3>2, <3>4, <4>1, <4>2
    <3> QED
      BY <3>3, <3>4
  <2> QED
    BY <2>1, <2>2
<1>7. ApprovedAsOrdered'
  <2> SUFFICES ASSUME NEW n \in DOMAIN prop'
               PROVE  /\ prop'[n].status = "APPROVED" <=> prop'[n].order # 0
                      /\ prop'[n].status = "APPROVED" => prop'[n].order = prop'[n].reviewed
                      /\ prop'[n].status = "APPROVED" /\ ~prop'[n].listed =>
                           prop'[n].qty = prop'[n].order
    BY DEF ApprovedAsOrdered
  <2>1. CASE n \notin DOMAIN prop
    BY <1>5, <2>1
  <2>2. CASE n \in DOMAIN prop
    <3>1. PICK row : row = Written(n) /\ prop'[n] = row
      BY <2>2, Committed
    <3>2. /\ row.order = prop[n].order /\ row.reviewed = prop[n].reviewed
          /\ row.listed = prop[n].listed
          /\ row.status = prop[n].status \/ (row.status = "WITHDRAWN" /\ prop[n].order = 0)
          /\ row.qty = prop[n].qty \/ (prop[n].status = "APPROVED" => prop[n].listed)
      BY <1>1, <2>2, <3>1, WrittenIs
    <3> QED
      BY <2>2, <3>1, <3>2 DEF IInv, ApprovedAsOrdered
  <2> QED
    BY <2>1, <2>2
<1>8. LoadInv'
  <2> SUFFICES ASSUME api = "loaded"
               PROVE  /\ call.op \in Ops /\ call.who \in People /\ call.no \in DOMAIN prop'
                      /\ call.row \in Rows /\ call.row.status = "PROPOSED"
                      /\ prop'[call.no].order = 0
                      /\ prop'[call.no] = call.row
                           \/ (call.row.source = "SYSTEM" /\ call.row.run < current')
    BY <1>1 DEF LoadInv
  <2>1. PICK n \in DOMAIN prop : n = call.no
    BY DEF IInv, LoadInv
  <2>2. /\ call.op \in Ops /\ call.who \in People /\ call.row \in Rows
        /\ call.row.status = "PROPOSED" /\ prop[n].order = 0
        /\ prop[n] = call.row \/ (call.row.source = "SYSTEM" /\ call.row.run < current)
    BY <2>1 DEF IInv, LoadInv
  <2>3. PICK row : row = Written(n) /\ prop'[n] = row /\ n \in DOMAIN prop'
    BY Committed
  <2>4. row.order = prop[n].order /\ (row = prop[n] \/ prop[n].source = "SYSTEM")
    BY <1>1, <2>3, WrittenIs
  <2>5. prop[n].run <= current /\ prop[n].run \in Nat /\ call.row.run \in Nat
    <3>1. prop[n] \in Rows /\ prop[n].run <= current
      BY DEF IInv, RowInv, TypeOK
    <3> QED
      BY <2>2, <3>1, ProposalAssumption DEF Rows
  <2> QED
    BY <1>1, <1>2, <2>1, <2>2, <2>3, <2>4, <2>5
<1> QED
  BY <1>3, <1>4, <1>6, <1>7, <1>8 DEF IInv

LEMMA StepInv == IInv /\ [Next]_vars => IInv'
<1> SUFFICES ASSUME IInv, [Next]_vars PROVE IInv'
  OBVIOUS
<1>1. CASE UNCHANGED vars
  <2>1. UNCHANGED <<prop, markers, queued, current, need, sync, plan, touched, api, call>>
    BY <1>1 DEF vars, planVars, syncVars
  <2>2. TypeOK' /\ QueueInv'
    BY <2>1 DEF IInv, TypeOK, QueueInv
  <2> QED
    BY <2>1, <2>2, SameRows, SameSync, SameLoad DEF IInv
<1>2. ASSUME NEW who \in People, NEW i \in Items, NEW q \in Quantities, Raise(who, i, q)
      PROVE  IInv'
  BY <1>2, RaiseStep
<1>3. ASSUME NEW who \in People, NEW op \in Ops, NEW n \in DOMAIN prop, Load(op, who, n)
      PROVE  IInv'
  BY <1>3, LoadStep
<1>4. ASSUME NEW q \in Quantities, ChangeProposal(q) PROVE IInv'
  BY <1>4, ChangeStep
<1> QED
  BY <1>1, <1>2, <1>3, <1>4, QuietStep, SyncReadStep, SyncWriteStep, SyncCommitStep, SyncAbortStep,
     RejectStep, OrderStep DEF Next

\* The invariant holds in every reachable state.
THEOREM Invariance == Spec => []IInv
BY InitInv, StepInv, PTL DEF Spec

\* There is an order exactly for an approved proposal and for what its approver
\* saw, over every interleaving of approvals with a run that updates, keeps or
\* withdraws the same proposals (approveProposal, syncProposals).
THEOREM OrderedAsSeen == Spec => []ApprovedAsOrdered
<1>1. IInv => ApprovedAsOrdered
  BY DEF IInv
<1> QED
  BY <1>1, Invariance, PTL

\* One row is written, and all others stay.
LEMMA OtherRows ==
  ASSUME IInv, NEW n \in DOMAIN prop, NEW row, prop' = [prop EXCEPT ![n] = row]
  PROVE  \A m \in DOMAIN prop : prop'[m] = IF m = n THEN row ELSE prop[m]
BY DEF IInv, TypeOK

LEMMA OrderedStep ==
  ASSUME IInv, [Next]_vars, NEW n \in DOMAIN prop, OrderedNow(n), ~prop'[n].listed
  PROVE  prop'[n].order = need[prop[n].item]
<1>1. prop'[n].order # prop[n].order /\ ~ByPerson(prop[n]) /\ prop[n] \in Rows
  BY DEF OrderedNow, IInv, TypeOK
<1>2. prop'[n] # prop[n]
  BY <1>1
<1>3. CASE UNCHANGED prop
  BY <1>2, <1>3
<1>4. ASSUME NEW who \in People, NEW i \in Items, NEW q \in Quantities, Raise(who, i, q) PROVE FALSE
  <2>1. PICK row : row = New(i, q, "MANUAL", who, 0)
    OBVIOUS
  <2>2. prop' = Append(prop, row)
    BY <1>4, <2>1 DEF Raise
  <2>3. prop'[n] = prop[n]
    BY <2>2 DEF IInv, TypeOK
  <2> QED
    BY <1>2, <2>3
<1>5. CASE SyncCommit
  <2>1. PICK row : row = Written(n) /\ prop'[n] = row
    BY <1>5, Committed
  <2>2. row.order = prop[n].order
    BY <1>5, <2>1, WrittenIs DEF SyncCommit
  <2> QED
    BY <1>1, <2>1, <2>2
<1>6. ASSUME (\E q \in Quantities : ChangeProposal(q)) \/ Reject PROVE FALSE
  <2>1. PICK m \in DOMAIN prop : m = call.no
    BY <1>6 DEF ChangeProposal, Reject, Decides, IInv, LoadInv
  <2>2. PICK row : /\ \/ \E q \in Quantities : row = [prop[m] EXCEPT !.qty = q, !.author = call.who]
                      \/ row = [prop[m] EXCEPT !.status = "REJECTED", !.reviewed = call.row.qty]
                   /\ prop' = [prop EXCEPT ![m] = row]
    <3>1. ASSUME NEW q \in Quantities, ChangeProposal(q)
          PROVE  prop' = [prop EXCEPT ![m] = [prop[m] EXCEPT !.qty = q, !.author = call.who]]
      BY <2>1, <3>1 DEF ChangeProposal, Update
    <3>2. ASSUME Reject
          PROVE  prop' = [prop EXCEPT ![m] =
                            [prop[m] EXCEPT !.status = "REJECTED", !.reviewed = call.row.qty]]
      BY <2>1, <3>2 DEF Reject, Update
    <3> QED
      BY <1>6, <3>1, <3>2
  <2>3. prop[m] \in Rows
    BY DEF IInv, TypeOK
  <2>4. row.order = prop[m].order
    BY <2>2, <2>3 DEF Rows
  <2> QED
    BY <1>1, <2>2, <2>4, OtherRows
<1>7. ASSUME Approve \/ ApproveMany
      PROVE  prop'[n].order = need[prop[n].item]
  <2>1. PICK m \in DOMAIN prop : m = call.no
    BY <1>7 DEF Approve, ApproveMany, Decides, IInv, LoadInv
  <2>2. PICK row : row = [prop[m] EXCEPT !.status = "APPROVED", !.order = call.row.qty,
                             !.reviewed = call.row.qty, !.listed = call.op = "approveMany"]
    OBVIOUS
  <2>3. prop' = [prop EXCEPT ![m] = row]
    BY <1>7, <2>1, <2>2 DEF Approve, ApproveMany, Order, Update
  <2>4. prop[m] \in Rows
    BY DEF IInv, TypeOK
  <2>5. row.order = call.row.qty /\ row.listed = (call.op = "approveMany")
    BY <2>2, <2>4 DEF Rows
  <2>6. n = m /\ prop'[n] = row
    BY <1>2, <2>3, OtherRows
  <2>7. Approve
    BY <1>7, <2>5, <2>6 DEF ApproveMany, Decides
  <2>8. prop[n].source = "SYSTEM"
    BY <1>1 DEF ByPerson, Rows
  <2>9. prop[n] = call.row /\ prop[n].run = current
    BY <2>1, <2>6, <2>7, <2>8, ApprovedAlone
  <2>10. prop[n].status = "PROPOSED"
    BY <2>7, <2>9 DEF Approve, Decides, IInv, LoadInv
  <2>11. prop[n].qty = need[prop[n].item]
    BY <1>1, <2>9, <2>10 DEF IInv, RowInv
  <2> QED
    BY <2>5, <2>6, <2>9, <2>11
<1>8. ASSUME Change \/ QueueRun \/ SyncRead \/ SyncWrite \/ SyncAbort \/ ReadStatus \/ Refuse
             \/ (\E who \in People, op \in Ops, m \in DOMAIN prop : Load(op, who, m)) \/ UNCHANGED vars
      PROVE  UNCHANGED prop
  BY <1>8 DEF Change, QueueRun, SyncRead, SyncWrite, SyncAbort, ReadStatus, Refuse, Load, vars
<1> QED
  BY <1>3, <1>4, <1>5, <1>6, <1>7, <1>8 DEF Next

\* What a single approval of a proposal nobody changed orders is the need of the
\* run that is current, although it may be loaded before and decided after other
\* runs (approvalProblem, the versions of rows and the lock on the row).
THEOREM OrderedAsCalculated == Spec => OrderedFromCurrentRun
<1>1. IInv /\ [Next]_vars =>
        [\A n \in DOMAIN prop : OrderedNow(n) /\ ~prop'[n].listed =>
           prop'[n].order = need[prop[n].item]]_vars
  BY OrderedStep
<1> QED
  BY <1>1, Invariance, PTL DEF Spec, OrderedFromCurrentRun

LEMMA RaisedStep ==
  ASSUME IInv, [Next]_vars, current' # current, NEW i \in Items, need'[i] # 0, Untouched(i)
  PROVE  \/ Having(i, "PROPOSED")' # {}
         \/ \E n \in Having(i, "REJECTED")' : prop'[n].qty = need'[i]
<1>1. SyncCommit
  BY DEF Next, Change, QueueRun, SyncRead, SyncWrite, SyncAbort, ReadStatus, Refuse, Load, vars,
     planVars, Raise, ChangeProposal, Reject, Approve, ApproveMany, Order
<1>2. PICK want \in Amounts : want = plan[i].want /\ need'[i] = want /\ want # 0
  BY <1>1 DEF SyncCommit, IInv, TypeOK, Plans
<1>3. PICK n : n = plan[i].no /\ n = Latest(Having(i, "PROPOSED"))
  BY <1>1 DEF SyncCommit, IInv, FreshInv
<1>4. PICK action : action = plan[i].action /\ action = Decide(i, want)
  BY <1>1, <1>2 DEF SyncCommit, IInv, FreshInv
<1>5. sync # "idle" /\ CheckAllows
  BY <1>1 DEF SyncCommit
<1>6. CASE action \in {"update", "keep", "leave"}
  <2>1. n \in Having(i, "PROPOSED")
    BY <1>2, <1>3, <1>4, <1>6, DecideIs DEF IInv, TypeOK
  <2>2. n \in DOMAIN prop /\ prop[n].item = i /\ prop[n].status = "PROPOSED"
    BY <2>1 DEF Having
  <2>3. PICK row : row = Written(n) /\ prop'[n] = row /\ n \in DOMAIN prop'
    BY <1>1, <2>2, Committed
  <2>4. row.item = i /\ row.status = "PROPOSED"
    BY <1>3, <1>4, <1>5, <1>6, <2>2, <2>3, WrittenIs
  <2> QED
    BY <2>3, <2>4 DEF Having
<1>7. CASE action = "create"
  <2>1. i \in Creates
    BY <1>4, <1>7 DEF Creates
  <2> QED
    BY <1>1, <2>1, Committed DEF Having
<1>8. CASE action = "none"
  <2>1. n = 0 /\ \E m \in Having(i, "REJECTED") : prop[m].qty = want
    <3>1. prop \in Seq(Rows)
      BY DEF IInv, TypeOK
    <3>2. Decide(i, want) = "none"
      BY <1>4, <1>8
    <3>3. want # 0 => \E m \in Having(i, "REJECTED") : prop[m].qty = want
      BY <3>1, <3>2, DecideIs
    <3>4. Latest(Having(i, "PROPOSED")) = 0
      BY <3>1, <3>2, DecideIs
    <3> QED
      BY <1>2, <1>3, <3>3, <3>4
  <2>2. PICK m \in DOMAIN prop : prop[m].item = i /\ prop[m].status = "REJECTED" /\ prop[m].qty = want
    BY <2>1 DEF Having
  <2>3. Written(m) = prop[m]
    <3>1. m # 0
      BY DEF IInv, TypeOK
    <3>2. plan[prop[m].item].no # m
      BY <1>3, <2>1, <2>2, <3>1
    <3> QED
      BY <3>2 DEF Written
  <2>4. prop'[m] = prop[m] /\ m \in DOMAIN prop'
    BY <1>1, <2>2, <2>3, Committed
  <2> QED
    BY <1>2, <2>2, <2>4 DEF Having
<1>9. action \in Actions /\ action # "withdraw"
  BY <1>2, <1>3, <1>4, DecideIs DEF IInv, TypeOK
<1> QED
  BY <1>6, <1>7, <1>8, <1>9 DEF Actions

\* A need of the run that becomes current has a proposal, or equals what was
\* rejected, unless people wrote to the proposals of the item while it ran: the
\* decisions taken before they wrote are still right for every other item.
THEOREM NeedsAreRaised == Spec => NeedRaised
<1>1. IInv /\ [Next]_vars =>
        [current' # current =>
           \A i \in Items : need'[i] # 0 /\ (\A n \in touched : prop[n].item # i) =>
             \/ Having(i, "PROPOSED")' # {}
             \/ \E n \in Having(i, "REJECTED")' : prop'[n].qty = need'[i]]_vars
  BY RaisedStep DEF Untouched
<1> QED
  BY <1>1, Invariance, PTL DEF Spec, NeedRaised

=============================================================================
