--------------------------- MODULE PlanningProofs ---------------------------
(***************************************************************************)
(* Proofs about planning, for any constants: the queue of calculations     *)
(* (any changes, callers and bounds), and the schedule inside a            *)
(* calculation (any routes, machines, stops, books and decisions of a      *)
(* planner).  Each has its inductive invariant and what follows from it.   *)
(***************************************************************************)
EXTENDS PlanningQueue, Calculation, FiniteSetTheorems, WellFoundedInduction, TLAPS

(***************************************************************************)
(* The queue of calculations.                                              *)
(***************************************************************************)

RunRows == [status: {"none", "queued", "completed", "superseded", "failed"}, input: Nat]
Calls == [at: {"idle", "chosen", "updating"}, deleted: SUBSET Changes, waiting: 0 .. MaxRuns]

TypeOK ==
  /\ version \in [Changes -> Nat]
  /\ committed \subseteq Changes /\ overtaken \subseteq committed /\ markers \subseteq committed
  /\ runs \in [RunNos -> RunRows]
  /\ current \in 0 .. MaxRuns
  /\ lock \in Queuers \cup {Nobody}
  /\ call \in [Queuers -> Calls]
  /\ attempt \in [RunNos -> {"idle", "reading", "promoting"}]
  /\ seen \in [RunNos -> SUBSET Changes]
  /\ aborts \in [RunNos -> Nat]

\* The sequence gives every change a version of its own, and there is a last one.
VersionInv ==
  /\ \E last \in {version[c] : c \in Changes} \cup {0} : \A c \in Changes : version[c] <= last
  /\ \A c \in committed : version[c] > 0
  /\ \A c, d \in Changes : version[c] = version[d] /\ version[c] > 0 => c = d

\* Runs are numbered in the order they are queued and one is queued at a time:
\* what is older than a run is finished, the current run is the newest that
\* completed.
RunInv ==
  /\ \A r \in RunNos : attempt[r] # "idle" => runs[r].status = "queued"
  /\ current # 0 => runs[current].status = "completed"
  /\ \A r, s \in RunNos :
       r < s /\ runs[s].status # "none" => runs[r].status \notin {"none", "queued"}

\* A call of queueRun holds the row of planning_state: the markers it deletes
\* are there, and the run it found is the queued one unless that has failed.
CallInv ==
  \A q \in Queuers : call[q].at # "idle" =>
    /\ lock = q
    /\ call[q].deleted \subseteq markers
    /\ call[q].waiting = 0 => call[q].at = "chosen" /\ Queued = {}
    /\ call[q].waiting # 0 =>
         /\ runs[call[q].waiting].status \in {"queued", "failed"}
         /\ call[q].waiting > current
         /\ Queued \subseteq {call[q].waiting}

\* A run stands for a version that is committed.
InputInv ==
  \A r \in RunNos : runs[r].input = 0 \/ \E c \in committed : version[c] = runs[r].input

\* A run that reads has seen every change whose marker is gone, and every change
\* up to the version it stands for.
SeenInv ==
  \A r \in Queued : attempt[r] # "idle" =>
    \A c \in committed \ overtaken :
      /\ c \in markers \cup seen[r]
      /\ version[c] <= runs[r].input => c \in seen[r]

IInv ==
  /\ TypeOK /\ VersionInv /\ RunInv /\ CallInv /\ InputInv /\ SeenInv
  /\ ChangeAccounted

-----------------------------------------------------------------------------
(* The highest version of a set of changes.                                *)

\* A bounded set of numbers has a largest one: the interval from it to the bound
\* is the smallest.
LEMMA BoundedHasMax ==
  ASSUME NEW S \in SUBSET Nat, S # {}, NEW bound \in Nat, \A x \in S : x <= bound
  PROVE  Max(S) \in S /\ \A y \in S : y <= Max(S)
<1> DEFINE T == {x .. bound : x \in S}
<1>1. T \subseteq FiniteSubsetsOf(Int) /\ T # {}
  <2>1. ASSUME NEW x \in S PROVE x .. bound \in FiniteSubsetsOf(Int)
    <3>1. IsFiniteSet(x .. bound)
      BY FS_Interval
    <3> QED
      BY <3>1 DEF FiniteSubsetsOf
  <2>2. T # {}
    OBVIOUS
  <2> QED
    BY <2>1, <2>2
<1>2. PICK m \in S : \A v \in T : ~(<<v, m .. bound>> \in StrictSubsetOrdering(Int))
  <2>1. PICK u \in T : \A v \in T : ~(<<v, u>> \in StrictSubsetOrdering(Int))
    <3> HIDE DEF T
    <3> QED
      BY <1>1, FS_StrictSubsetOrderingWellFounded, WFMin
  <2> QED
    BY <2>1
<1>3. \A y \in S : y <= m
  <2> SUFFICES ASSUME NEW y \in S, m < y PROVE FALSE
    OBVIOUS
  <2>1. y .. bound \subseteq m .. bound /\ m \in m .. bound /\ m \notin y .. bound
    OBVIOUS
  <2>2. y .. bound \in T
    OBVIOUS
  <2>3. <<y .. bound, m .. bound>> \in StrictSubsetOrdering(Int)
    <3>1. y .. bound \in SUBSET Int /\ m .. bound \in SUBSET Int /\ y .. bound # m .. bound
      BY <2>1
    <3> HIDE DEF T
    <3> QED
      BY <2>1, <3>1 DEF StrictSubsetOrdering
  <2> QED
    BY <1>2, <2>2, <2>3
<1> QED
  BY <1>3 DEF Max

LEMMA NewestIs ==
  ASSUME TypeOK, VersionInv, NEW S \in SUBSET Changes
  PROVE  /\ Newest(S) \in Nat
         /\ Newest(S) = 0 \/ \E c \in S : version[c] = Newest(S)
         /\ \A c \in S : version[c] <= Newest(S)
<1> DEFINE V == {version[c] : c \in S} \cup {0}
<1>1. PICK last \in {version[c] : c \in Changes} \cup {0} : \A c \in Changes : version[c] <= last
  BY DEF VersionInv
<1>2. last \in Nat /\ V \in SUBSET Nat
  BY DEF TypeOK
<1>3. \A x \in V : x <= last
  BY <1>1, <1>2
<1>4. Max(V) \in V /\ \A y \in V : y <= Max(V)
  <2>1. V # {}
    OBVIOUS
  <2> HIDE DEF V
  <2> QED
    BY <1>2, <1>3, <2>1, BoundedHasMax
<1>5. Newest(S) = Max(V)
  BY DEF Newest
<1> QED
  BY <1>2, <1>4, <1>5

-----------------------------------------------------------------------------
(* The runs and the calls of queueRun.                                     *)

\* One run is queued at a time, and it is newer than the current one.
LEMMA OneQueued ==
  ASSUME TypeOK, RunInv, NEW r \in Queued
  PROVE  /\ r \in RunNos /\ current < r
         /\ \A s \in Queued : s = r
         /\ \A s \in RunNos : attempt[s] # "idle" => s = r
<1>1. r \in RunNos /\ runs[r].status = "queued" /\ r \in Nat
  BY DEF Queued, RunNos
<1>2. \A s \in RunNos : runs[s].status = "queued" => s = r
  <2> SUFFICES ASSUME NEW s \in RunNos, runs[s].status = "queued", s # r PROVE FALSE
    OBVIOUS
  <2>1. s < r \/ r < s
    BY <1>1 DEF RunNos
  <2> QED
    BY <1>1, <2>1 DEF RunInv
<1>3. current < r
  <2> SUFFICES ASSUME ~(current < r) PROVE FALSE
    OBVIOUS
  <2>1. current \in RunNos /\ current # 0 /\ (r < current \/ r = current)
    BY <1>1, PlanningAssumption DEF TypeOK, RunNos
  <2> QED
    BY <1>1, <2>1 DEF RunInv
<1> QED
  BY <1>1, <1>2, <1>3 DEF Queued, RunInv

\* A call that is under way is the only one.
LEMMA OneCall ==
  ASSUME TypeOK, CallInv, NEW q \in Queuers, call[q].at # "idle"
  PROVE  /\ call[q] \in Calls /\ lock = q
         /\ \A p \in Queuers : p # q => call[p].at = "idle"
BY DEF TypeOK, CallInv

LEMMA IdleCalls ==
  ASSUME TypeOK, CallInv, lock = Nobody
  PROVE  \A p \in Queuers : call[p].at = "idle"
BY PlanningAssumption DEF TypeOK, CallInv

\* After Return no call is under way.
LEMMA Returned ==
  ASSUME TypeOK, CallInv, NEW q \in Queuers, call[q].at # "idle", Return(q)
  PROVE  /\ markers' = markers \ call[q].deleted
         /\ lock' \in Queuers \cup {Nobody}
         /\ call' \in [Queuers -> Calls]
         /\ CallInv'
<1>1. Idle \in Calls /\ Idle.at = "idle"
  BY PlanningAssumption DEF Idle, Calls
<1>2. call' = [call EXCEPT ![q] = Idle] /\ lock' = Nobody /\ markers' = markers \ call[q].deleted
  BY DEF Return
<1>3. call' \in [Queuers -> Calls]
  BY <1>1, <1>2 DEF TypeOK
<1>4. \A p \in Queuers : call'[p].at = "idle"
  <2>1. \A p \in Queuers : p # q => call[p].at = "idle"
    BY OneCall
  <2> QED
    BY <1>1, <1>2, <2>1 DEF TypeOK
<1> QED
  BY <1>2, <1>3, <1>4 DEF CallInv

\* What a call has deleted is not newer than what it stands for.
LEMMA ConsumedIs ==
  ASSUME IInv, NEW q \in Queuers, call[q].at # "idle"
  PROVE  /\ call[q].deleted \subseteq committed
         /\ Consumed(q) \in Nat
         /\ Consumed(q) = 0 \/ \E c \in committed : version[c] = Consumed(q)
         /\ \A c \in call[q].deleted : version[c] <= Consumed(q)
<1>1. call[q].deleted \subseteq committed /\ call[q].deleted \in SUBSET Changes
  BY DEF IInv, TypeOK, CallInv
<1> QED
  BY <1>1, NewestIs DEF Consumed, IInv

-----------------------------------------------------------------------------
(* The steps.                                                              *)

LEMMA InitInv == Init => IInv
<1> SUFFICES ASSUME Init PROVE IInv
  OBVIOUS
<1> USE PlanningAssumption DEF Init
<1>1. TypeOK
  BY DEF TypeOK, RunRows, Calls, Idle, RunNos
<1>2. VersionInv
  BY DEF VersionInv
<1>3. RunInv /\ Queued = {}
  BY DEF RunInv, Queued
<1>4. CallInv /\ InputInv
  BY DEF CallInv, Idle, InputInv
<1> QED
  BY <1>1, <1>2, <1>3, <1>4 DEF IInv, SeenInv, ChangeAccounted

LEMMA TouchStep ==
  ASSUME IInv, NEW c \in Changes, Touch(c)
  PROVE  IInv'
<1>1. /\ version' = [version EXCEPT ![c] = Newest(Changes) + 1] /\ c \notin committed
      /\ UNCHANGED <<committed, overtaken, markers, runs, current, lock, call, attempt, seen, aborts>>
  BY DEF Touch, runVars, IInv, VersionInv
<1>2. PICK n \in Nat : n = Newest(Changes) /\ \A d \in Changes : version[d] <= n
  BY NewestIs DEF IInv
<1>3. version' = [version EXCEPT ![c] = n + 1] /\ n + 1 \in Nat
  BY <1>1, <1>2
<1>4. TypeOK'
  BY <1>1, <1>3 DEF IInv, TypeOK
<1>5. \A d \in Changes : d # c => version'[d] = version[d]
  BY <1>3 DEF IInv, TypeOK
<1>6. version'[c] = n + 1
  BY <1>3 DEF IInv, TypeOK
<1>7. \A d \in Changes : version[d] \in Nat
  BY DEF IInv, TypeOK
<1>8. \A d \in committed : d \in Changes /\ version'[d] = version[d]
  BY <1>1, <1>5 DEF IInv, TypeOK
<1>9. VersionInv'
  <2>1. \A d \in Changes : version'[d] <= n + 1
    BY <1>2, <1>5, <1>6, <1>7
  <2>2. \A d, e \in Changes : version'[d] = version'[e] /\ version'[d] > 0 => d = e
    BY <1>2, <1>5, <1>6, <1>7 DEF IInv, VersionInv
  <2>3. \A d \in committed' : version'[d] > 0
    BY <1>1, <1>8 DEF IInv, VersionInv
  <2> QED
    BY <1>6, <2>1, <2>2, <2>3 DEF VersionInv
<1>10. RunInv' /\ CallInv' /\ ChangeAccounted'
  BY <1>1 DEF IInv, RunInv, CallInv, ChangeAccounted, Accounted, NewerRunFailed, Queued
<1>11. InputInv'
  BY <1>1, <1>8 DEF IInv, InputInv
<1>12. SeenInv'
  BY <1>1, <1>8 DEF IInv, SeenInv, Queued
<1> QED
  BY <1>4, <1>9, <1>10, <1>11, <1>12 DEF IInv

\* A change that commits after a run was told to stand for a higher version has
\* been overtaken.
LEMMA CommitStep ==
  ASSUME IInv, NEW c \in Changes, CommitChange(c)
  PROVE  IInv'
<1>1. /\ version[c] > 0 /\ c \notin committed
      /\ committed' = committed \cup {c} /\ markers' = markers \cup {c}
      /\ overtaken' = IF Newest(committed) > version[c] THEN overtaken \cup {c} ELSE overtaken
      /\ UNCHANGED <<version, runs, current, lock, call, attempt, seen, aborts>>
  BY DEF CommitChange, runVars
<1>2. TypeOK'
  BY <1>1 DEF IInv, TypeOK
<1>3. VersionInv' /\ RunInv' /\ InputInv'
  BY <1>1 DEF IInv, VersionInv, RunInv, InputInv
<1>4. CallInv'
  BY <1>1 DEF IInv, CallInv, Queued
<1>5. c \notin overtaken' => \A r \in RunNos : runs[r].input < version[c]
  <2> SUFFICES ASSUME NEW r \in RunNos, ~(runs[r].input < version[c]) PROVE c \in overtaken'
    OBVIOUS
  <2>1. runs[r].input \in Nat /\ version[c] \in Nat
    BY DEF IInv, TypeOK, RunRows
  <2>2. PICK d \in committed : version[d] = runs[r].input
    BY <1>1, <2>1 DEF IInv, InputInv
  <2>3. version[d] > version[c]
    BY <1>1, <2>1, <2>2 DEF IInv, TypeOK, VersionInv
  <2>4. Newest(committed) \in Nat /\ version[d] <= Newest(committed)
    BY NewestIs DEF IInv, TypeOK
  <2> QED
    BY <1>1, <2>1, <2>2, <2>3, <2>4
<1>6. SeenInv'
  <2> SUFFICES ASSUME NEW r \in Queued', attempt'[r] # "idle",
                      NEW d \in committed' \ overtaken'
               PROVE  /\ d \in markers' \cup seen'[r]
                      /\ version'[d] <= runs'[r].input => d \in seen'[r]
    BY DEF SeenInv
  <2>1. r \in Queued /\ r \in RunNos /\ attempt[r] # "idle"
    BY <1>1 DEF Queued
  <2>2. CASE d = c
    <3>1. runs[r].input < version[c] /\ runs[r].input \in Nat /\ version[c] \in Nat
      BY <1>5, <2>1, <2>2 DEF IInv, TypeOK, RunRows
    <3> QED
      BY <1>1, <2>2, <3>1
  <2>3. CASE d # c
    <3>1. d \in committed \ overtaken
      BY <1>1, <2>3
    <3> QED
      BY <1>1, <2>1, <3>1 DEF IInv, SeenInv
  <2> QED
    BY <2>2, <2>3
<1>7. ChangeAccounted'
  BY <1>1 DEF IInv, ChangeAccounted, Accounted, NewerRunFailed, Queued
<1> QED
  BY <1>2, <1>3, <1>4, <1>6, <1>7 DEF IInv

\* What only concerns a call leaves the changes and the runs alone.
LEMMA CallOnly ==
  ASSUME IInv, UNCHANGED <<version, committed, overtaken, markers, runs, current, attempt, seen, aborts>>
  PROVE  /\ VersionInv' /\ RunInv' /\ InputInv' /\ SeenInv' /\ ChangeAccounted'
         /\ Queued' = Queued
BY DEF IInv, VersionInv, RunInv, InputInv, SeenInv, ChangeAccounted, Accounted, NewerRunFailed, Queued

LEMMA BeginStep ==
  ASSUME IInv, NEW q \in Queuers, Begin(q)
  PROVE  IInv'
<1>1. PICK w : w = IF Queued = {} THEN 0 ELSE Min(Queued)
  OBVIOUS
<1>2. PICK k : k = [at |-> "chosen", deleted |-> markers, waiting |-> w]
  OBVIOUS
<1>3. /\ lock = Nobody /\ lock' = q /\ call' = [call EXCEPT ![q] = k]
      /\ UNCHANGED <<version, committed, overtaken, markers, runs, current, attempt, seen, aborts>>
  BY <1>1, <1>2 DEF Begin, changeVars, runVars
<1>4. /\ w \in 0 .. MaxRuns /\ (w = 0 => Queued = {})
      /\ w # 0 => /\ runs[w].status = "queued" /\ w > current
                  /\ Queued \subseteq {w}
  <2>1. CASE Queued = {}
    BY <1>1, <2>1, PlanningAssumption
  <2>2. CASE Queued # {}
    <3>1. PICK r : r \in Queued
      BY <2>2
    <3>2. r \in RunNos /\ current < r /\ \A s \in Queued : s = r
      BY <3>1, OneQueued DEF IInv
    <3>3. Queued = {r}
      BY <3>1, <3>2
    <3>4. r \in Nat /\ r # 0 /\ r <= MaxRuns
      BY <3>2, PlanningAssumption DEF RunNos
    <3>5. \A x \in Queued : r <= x
      BY <3>2, <3>4
    <3>6. w = r
      BY <1>1, <3>3, <3>5 DEF Min
    <3> QED
      BY <3>1, <3>2, <3>3, <3>4, <3>6, PlanningAssumption DEF Queued
  <2> QED
    BY <2>1, <2>2
<1>5. k \in Calls
  BY <1>2, <1>4 DEF Calls, IInv, TypeOK
<1>6. TypeOK'
  BY <1>3, <1>5 DEF IInv, TypeOK
<1>7. CallInv'
  <2>1. \A p \in Queuers : p # q => call'[p].at = "idle"
    BY <1>3, IdleCalls DEF IInv, TypeOK
  <2>2. call'[q] = k /\ Queued' = Queued
    BY <1>3, CallOnly DEF IInv, TypeOK
  <2> QED
    BY <1>2, <1>3, <1>4, <2>1, <2>2 DEF CallInv
<1> QED
  BY <1>3, <1>6, <1>7, CallOnly DEF IInv

LEMMA AskUpdateStep ==
  ASSUME IInv, NEW q \in Queuers, AskUpdate(q)
  PROVE  IInv'
<1>1. PICK k : k = [call[q] EXCEPT !.at = "updating"]
  OBVIOUS
<1>2. call[q].at = "chosen" /\ call[q].waiting # 0
  BY DEF AskUpdate
<1>3. /\ call' = [call EXCEPT ![q] = k]
      /\ UNCHANGED <<version, committed, overtaken, markers, runs, current, lock, attempt, seen, aborts>>
  BY <1>1 DEF AskUpdate, changeVars, runVars
<1>4. call[q] \in Calls
  BY DEF IInv, TypeOK
<1>5. /\ k \in Calls /\ k.at = "updating" /\ k.deleted = call[q].deleted
      /\ k.waiting = call[q].waiting
  BY <1>1, <1>4 DEF Calls
<1>6. TypeOK'
  BY <1>3, <1>5 DEF IInv, TypeOK
<1>7. CallInv'
  <2>1. \A p \in Queuers : p # q => call'[p] = call[p]
    BY <1>3 DEF IInv, TypeOK
  <2>2. call'[q] = k /\ Queued' = Queued
    BY <1>3, CallOnly DEF IInv, TypeOK
  <2> QED
    BY <1>2, <1>3, <1>5, <2>1, <2>2 DEF IInv, CallInv
<1> QED
  BY <1>3, <1>6, <1>7, CallOnly DEF IInv

LEMMA AbortCallStep ==
  ASSUME IInv, NEW q \in Queuers, AbortCall(q)
  PROVE  IInv'
<1>1. /\ call' = [call EXCEPT ![q] = Idle] /\ lock' = Nobody /\ call[q].at = "updating"
      /\ UNCHANGED <<version, committed, overtaken, markers, runs, current, attempt, seen, aborts>>
  BY DEF AbortCall, changeVars, runVars
<1>2. Idle \in Calls /\ Idle.at = "idle"
  BY PlanningAssumption DEF Idle, Calls
<1>3. TypeOK'
  BY <1>1, <1>2 DEF IInv, TypeOK
<1>4. CallInv'
  <2>1. \A p \in Queuers : call'[p].at = "idle"
    BY <1>1, <1>2, OneCall DEF IInv, TypeOK
  <2> QED
    BY <2>1 DEF CallInv
<1> QED
  BY <1>1, <1>3, <1>4, CallOnly DEF IInv

\* The waiting run stands for what the call has deleted, or will.
LEMMA KeepStep ==
  ASSUME IInv, NEW q \in Queuers, KeepWaiting(q)
  PROVE  IInv'
<1>1. /\ call[q].at = "chosen" /\ call[q].waiting # 0 /\ ~NeedsUpdate(q) /\ Return(q)
      /\ UNCHANGED <<version, committed, overtaken, runs, current, attempt, seen, aborts>>
  BY DEF KeepWaiting, changeVars, runVars
<1>2. PICK w \in RunNos : w = call[q].waiting
  BY <1>1, PlanningAssumption DEF IInv, TypeOK, Calls, RunNos
<1>3. runs[w].status \in {"queued", "failed"} /\ w > current /\ Queued \subseteq {w}
  BY <1>1, <1>2 DEF IInv, CallInv
<1>4. /\ markers' = markers \ call[q].deleted /\ lock' \in Queuers \cup {Nobody}
      /\ call' \in [Queuers -> Calls] /\ CallInv'
  BY <1>1, Returned DEF IInv
<1>5. TypeOK'
  BY <1>1, <1>4 DEF IInv, TypeOK
<1>6. VersionInv' /\ RunInv' /\ InputInv' /\ Queued' = Queued
  BY <1>1 DEF IInv, VersionInv, RunInv, InputInv, Queued
<1>7. \A c \in call[q].deleted : version[c] <= runs[w].input
  <2>1. Consumed(q) \in Nat /\ \A c \in call[q].deleted : version[c] <= Consumed(q)
    BY <1>1, ConsumedIs
  <2>2. Consumed(q) <= runs[w].input
    BY <1>1, <1>2, <2>1 DEF NeedsUpdate, IInv, TypeOK, RunRows
  <2>3. call[q].deleted \subseteq Changes
    BY DEF IInv, TypeOK, Calls
  <2> QED
    BY <1>2, <2>1, <2>2, <2>3 DEF IInv, TypeOK, RunRows
<1>8. ASSUME w \in Queued, attempt[w] # "idle", NEW c \in committed \ overtaken
      PROVE  c \in markers' \cup seen[w]
  BY <1>4, <1>7, <1>8 DEF IInv, SeenInv
<1>9. SeenInv'
  <2> SUFFICES ASSUME NEW r \in Queued', attempt'[r] # "idle",
                      NEW c \in committed' \ overtaken'
               PROVE  /\ c \in markers' \cup seen'[r]
                      /\ version'[c] <= runs'[r].input => c \in seen'[r]
    BY DEF SeenInv
  <2>1. r = w /\ w \in Queued /\ attempt[w] # "idle" /\ c \in committed \ overtaken
    BY <1>1, <1>3, <1>6
  <2> QED
    BY <1>1, <1>8, <2>1 DEF IInv, SeenInv
<1>10. ChangeAccounted'
  <2>1. CASE runs[w].status = "failed"
    BY <1>1, <1>3, <2>1 DEF ChangeAccounted, NewerRunFailed
  <2>2. CASE runs[w].status = "queued" /\ attempt[w] = "idle"
    BY <1>1, <2>2 DEF ChangeAccounted, Accounted, Queued
  <2>3. CASE runs[w].status = "queued" /\ attempt[w] # "idle"
    <3>1. w \in Queued /\ w \in Queued'
      BY <1>6, <2>3 DEF Queued
    <3>2. \A c \in committed \ overtaken : c \in markers' \cup seen[w]
      BY <1>8, <2>3, <3>1
    <3> QED
      BY <1>1, <3>1, <3>2 DEF ChangeAccounted, Accounted
  <2> QED
    BY <1>3, <2>1, <2>2, <2>3
<1> QED
  BY <1>4, <1>5, <1>6, <1>9, <1>10 DEF IInv

LEMMA UpdateStep ==
  ASSUME IInv, NEW q \in Queuers, Update(q)
  PROVE  IInv'
<1>1. PICK w \in RunNos : w = call[q].waiting
  BY PlanningAssumption DEF Update, IInv, TypeOK, CallInv, Calls, RunNos
<1>2. PICK n : n = Consumed(q)
  OBVIOUS
<1>3. PICK entry : entry = [runs[w] EXCEPT !.input = n]
  OBVIOUS
<1>4. /\ call[q].at = "updating" /\ attempt[w] = "idle" /\ Return(q)
      /\ runs' = [runs EXCEPT ![w] = entry]
      /\ UNCHANGED <<version, committed, overtaken, current, attempt, seen, aborts>>
  BY <1>1, <1>2, <1>3 DEF Update, changeVars, runVars
<1>5. call[q].waiting # 0 /\ w > current /\ runs[w].status \in {"queued", "failed"} /\ Queued \subseteq {w}
  BY <1>1, <1>4 DEF IInv, CallInv
<1>6. n \in Nat /\ (n = 0 \/ \E c \in committed : version[c] = n)
  BY <1>2, <1>4, ConsumedIs
<1>7. entry \in RunRows /\ entry.status = runs[w].status /\ entry.input = n
  BY <1>3, <1>6 DEF IInv, TypeOK, RunRows
<1>8. \A r \in RunNos : runs'[r] = IF r = w THEN entry ELSE runs[r]
  BY <1>4 DEF IInv, TypeOK
<1>9. Queued' = Queued /\ \A r \in RunNos : runs'[r].status = runs[r].status
  BY <1>7, <1>8 DEF Queued
<1>10. /\ markers' = markers \ call[q].deleted /\ lock' \in Queuers \cup {Nobody}
       /\ call' \in [Queuers -> Calls] /\ CallInv'
  BY <1>4, Returned DEF IInv
<1>11. TypeOK'
  BY <1>4, <1>7, <1>10 DEF IInv, TypeOK
<1>12. VersionInv'
  BY <1>4 DEF IInv, VersionInv
<1>13. RunInv'
  <2>1. current # 0 => current \in RunNos
    BY PlanningAssumption DEF IInv, TypeOK, RunNos
  <2> QED
    BY <1>4, <1>9, <2>1 DEF IInv, RunInv
<1>14. InputInv'
  BY <1>4, <1>6, <1>7, <1>8 DEF IInv, InputInv
<1>15. SeenInv'
  BY <1>4, <1>5, <1>9 DEF SeenInv
<1>16. ChangeAccounted'
  <2>1. CASE runs[w].status = "failed"
    BY <1>4, <1>5, <1>9, <2>1 DEF ChangeAccounted, NewerRunFailed
  <2>2. CASE runs[w].status = "queued"
    <3>1. w \in Queued'
      BY <1>9, <2>2 DEF Queued
    <3> QED
      BY <1>4, <3>1 DEF ChangeAccounted, Accounted
  <2> QED
    BY <1>5, <2>1, <2>2
<1> QED
  BY <1>10, <1>11, <1>12, <1>13, <1>14, <1>15, <1>16 DEF IInv

LEMMA CreateStep ==
  ASSUME IInv, NEW q \in Queuers, CreateRun(q)
  PROVE  IInv'
<1>1. PICK n : n = Consumed(q)
  OBVIOUS
<1>2. PICK entry : entry = [status |-> "queued", input |-> n]
  OBVIOUS
<1>3. PICK w \in RunNos : /\ \A s \in RunNos : runs[s].status = "none" <=> s >= w
                          /\ runs' = [runs EXCEPT ![w] = entry]
  BY <1>1, <1>2 DEF CreateRun
<1>4. /\ call[q].at = "chosen" /\ call[q].waiting = 0 /\ Return(q)
      /\ UNCHANGED <<version, committed, overtaken, current, attempt, seen, aborts>>
  BY DEF CreateRun, changeVars, runVars
<1>5. Queued = {}
  BY <1>4 DEF IInv, CallInv
<1>6. n \in Nat /\ (n = 0 \/ \E c \in committed : version[c] = n)
  BY <1>1, <1>4, ConsumedIs
<1>7. entry \in RunRows /\ entry.status = "queued" /\ entry.input = n
  BY <1>2, <1>6 DEF RunRows
<1>8. \A r \in RunNos : runs'[r] = IF r = w THEN entry ELSE runs[r]
  BY <1>3 DEF IInv, TypeOK
<1>9. Queued' = {w}
  BY <1>5, <1>7, <1>8 DEF Queued
<1>10. \A r \in RunNos : attempt[r] = "idle"
  BY <1>5 DEF IInv, RunInv, Queued
<1>11. /\ markers' = markers \ call[q].deleted /\ lock' \in Queuers \cup {Nobody}
       /\ call' \in [Queuers -> Calls] /\ CallInv'
  BY <1>4, Returned DEF IInv
<1>12. TypeOK'
  BY <1>3, <1>4, <1>7, <1>11 DEF IInv, TypeOK
<1>13. VersionInv'
  BY <1>4 DEF IInv, VersionInv
<1>14. RunInv'
  <2>1. current # 0 => current \in RunNos /\ current # w
    <3>1. current # 0 => current \in RunNos
      BY PlanningAssumption DEF IInv, TypeOK, RunNos
    <3>2. runs[w].status = "none"
      BY <1>3 DEF RunNos
    <3> QED
      BY <3>1, <3>2 DEF IInv, RunInv
  <2>2. current # 0 => runs'[current].status = "completed"
    BY <1>8, <2>1 DEF IInv, RunInv
  <2>3. ASSUME NEW r \in RunNos, NEW s \in RunNos, r < s, runs'[s].status # "none"
        PROVE  runs'[r].status \notin {"none", "queued"}
    <3>1. r \in Int /\ s \in Int /\ w \in Int
      BY DEF RunNos
    <3>2. r < w
      BY <1>3, <1>8, <2>3, <3>1
    <3>3. r # w /\ runs[r].status # "none"
      BY <1>3, <3>1, <3>2
    <3> QED
      BY <1>5, <1>8, <3>3 DEF Queued
  <2> QED
    BY <1>4, <1>10, <2>2, <2>3 DEF RunInv
<1>15. InputInv'
  BY <1>4, <1>6, <1>7, <1>8 DEF IInv, InputInv
<1>16. SeenInv' /\ ChangeAccounted'
  BY <1>4, <1>9, <1>10 DEF SeenInv, ChangeAccounted, Accounted
<1> QED
  BY <1>11, <1>12, <1>13, <1>14, <1>15, <1>16 DEF IInv

\* A run that begins to read sees all that is committed.
LEMMA StartStep ==
  ASSUME IInv, NEW r \in RunNos, StartReading(r)
  PROVE  IInv'
<1>1. /\ runs[r].status = "queued" /\ attempt[r] = "idle"
      /\ attempt' = [attempt EXCEPT ![r] = "reading"] /\ seen' = [seen EXCEPT ![r] = committed]
      /\ UNCHANGED <<version, committed, overtaken, markers, runs, current, lock, call, aborts>>
  BY DEF StartReading, Unlocked, changeVars
<1>2. r \in Queued
  BY <1>1 DEF Queued
<1>3. /\ \A s \in Queued : s = r
      /\ current # r
  BY <1>2, OneQueued DEF IInv, TypeOK
<1>4. Queued' = Queued
  BY <1>1 DEF Queued
<1>5. seen'[r] = committed /\ \A s \in RunNos : s # r => seen'[s] = seen[s] /\ attempt'[s] = attempt[s]
  BY <1>1 DEF IInv, TypeOK
<1>6. TypeOK'
  BY <1>1 DEF IInv, TypeOK
<1>7. VersionInv' /\ InputInv'
  BY <1>1 DEF IInv, VersionInv, InputInv
<1>8. RunInv'
  BY <1>1, <1>5 DEF IInv, RunInv
<1>9. CallInv'
  BY <1>1, <1>4 DEF IInv, CallInv
<1>10. SeenInv'
  BY <1>1, <1>3, <1>4, <1>5 DEF SeenInv
<1>11. ChangeAccounted'
  BY <1>1, <1>2, <1>4, <1>5 DEF ChangeAccounted, Accounted
<1> QED
  BY <1>6, <1>7, <1>8, <1>9, <1>10, <1>11 DEF IInv

LEMMA AskPromoteStep ==
  ASSUME IInv, NEW r \in RunNos, AskPromote(r)
  PROVE  IInv'
<1>1. /\ attempt[r] = "reading" /\ attempt' = [attempt EXCEPT ![r] = "promoting"]
      /\ UNCHANGED <<version, committed, overtaken, markers, runs, current, lock, call, seen, aborts>>
  BY DEF AskPromote, changeVars
<1>2. \A s \in RunNos : attempt'[s] = "idle" <=> attempt[s] = "idle"
  BY <1>1 DEF IInv, TypeOK
<1>3. TypeOK'
  BY <1>1 DEF IInv, TypeOK
<1>4. Queued' = Queued /\ Queued \subseteq RunNos
  BY <1>1 DEF Queued
<1>5. VersionInv' /\ InputInv' /\ RunInv' /\ CallInv'
  BY <1>1, <1>2, <1>4 DEF IInv, VersionInv, InputInv, RunInv, CallInv
<1>6. SeenInv' /\ ChangeAccounted'
  BY <1>1, <1>2, <1>4 DEF IInv, SeenInv, ChangeAccounted, Accounted, NewerRunFailed
<1> QED
  BY <1>3, <1>5, <1>6 DEF IInv

\* A run that completes becomes the current one: it has seen every change whose
\* marker is gone.
LEMMA CompleteStep ==
  ASSUME IInv, NEW r \in RunNos, Complete(r)
  PROVE  IInv'
<1>1. attempt[r] = "promoting" /\ lock = Nobody
  BY DEF Complete
<1>2. r \in Queued
  BY <1>1 DEF IInv, RunInv, Queued
<1>3. current < r /\ \A s \in Queued : s = r
  BY <1>2, OneQueued DEF IInv
<1>4. PICK entry : entry = [runs[r] EXCEPT !.status = "completed"]
  OBVIOUS
<1>5. /\ current' = r /\ runs' = [runs EXCEPT ![r] = entry]
      /\ attempt' = [attempt EXCEPT ![r] = "idle"]
      /\ UNCHANGED <<version, committed, overtaken, markers, lock, call, seen, aborts>>
  BY <1>3, <1>4 DEF Complete, Promotes, changeVars
<1>6. entry \in RunRows /\ entry.status = "completed" /\ entry.input = runs[r].input
  BY <1>4 DEF IInv, TypeOK, RunRows
<1>7. \A s \in RunNos : runs'[s] = IF s = r THEN entry ELSE runs[s]
  BY <1>5 DEF IInv, TypeOK
<1>8. \A s \in RunNos : attempt'[s] = IF s = r THEN "idle" ELSE attempt[s]
  BY <1>5 DEF IInv, TypeOK
<1>9. TypeOK'
  <2>1. r \in 0 .. MaxRuns
    BY PlanningAssumption DEF RunNos
  <2> QED
    BY <1>5, <1>6, <2>1 DEF IInv, TypeOK
<1>10. Queued' = {}
  BY <1>3, <1>6, <1>7 DEF Queued
<1>11. VersionInv'
  BY <1>5 DEF IInv, VersionInv
<1>12. RunInv'
  <2>1. \A s \in RunNos : attempt'[s] # "idle" => runs'[s].status = "queued"
    BY <1>7, <1>8 DEF IInv, RunInv
  <2>2. runs'[current'].status = "completed"
    BY <1>5, <1>6, <1>7
  <2>3. \A s, t \in RunNos : s < t /\ runs'[t].status # "none" => runs'[s].status \notin {"none", "queued"}
    <3>1. runs[r].status # "none"
      BY <1>2 DEF Queued
    <3> QED
      BY <1>6, <1>7, <3>1 DEF IInv, RunInv
  <2> QED
    BY <2>1, <2>2, <2>3 DEF RunInv
<1>13. CallInv'
  <2>1. \A q \in Queuers : call'[q].at = "idle"
    BY <1>1, <1>5, IdleCalls DEF IInv
  <2> QED
    BY <2>1 DEF CallInv
<1>14. InputInv'
  BY <1>5, <1>6, <1>7 DEF IInv, InputInv
<1>15. SeenInv'
  BY <1>10 DEF SeenInv
<1>16. ChangeAccounted'
  <2>1. \A c \in committed \ overtaken : c \in markers \cup seen[r]
    BY <1>1, <1>2 DEF IInv, SeenInv
  <2>2. r # 0
    BY DEF RunNos
  <2> QED
    BY <1>5, <2>1, <2>2 DEF ChangeAccounted, Accounted
<1> QED
  BY <1>9, <1>11, <1>12, <1>13, <1>14, <1>15, <1>16 DEF IInv

LEMMA AbortAttemptStep ==
  ASSUME IInv, NEW r \in RunNos, AbortAttempt(r)
  PROVE  IInv'
<1>1. /\ attempt[r] # "idle" /\ attempt' = [attempt EXCEPT ![r] = "idle"]
      /\ UNCHANGED <<version, committed, overtaken, markers, runs, current, lock, call, seen>>
  BY DEF AbortAttempt, changeVars
<1>2. aborts' \in [RunNos -> Nat]
  <2>1. aborts' = aborts \/ aborts' = [aborts EXCEPT ![r] = @ + 1]
    BY DEF AbortAttempt
  <2> QED
    BY <2>1 DEF IInv, TypeOK
<1>3. \A s \in RunNos : attempt'[s] = IF s = r THEN "idle" ELSE attempt[s]
  BY <1>1 DEF IInv, TypeOK
<1>4. TypeOK'
  BY <1>1, <1>2 DEF IInv, TypeOK
<1>5. Queued' = Queued /\ Queued \subseteq RunNos
  BY <1>1 DEF Queued
<1>6. VersionInv' /\ InputInv' /\ RunInv' /\ CallInv'
  BY <1>1, <1>3, <1>5 DEF IInv, VersionInv, InputInv, RunInv, CallInv
<1>7. SeenInv' /\ ChangeAccounted'
  BY <1>1, <1>3, <1>5 DEF IInv, SeenInv, ChangeAccounted, Accounted, NewerRunFailed
<1> QED
  BY <1>4, <1>6, <1>7 DEF IInv

LEMMA FailRunStep ==
  ASSUME IInv, NEW r \in RunNos, FailRun(r)
  PROVE  IInv'
<1>1. PICK entry : entry = [runs[r] EXCEPT !.status = "failed"]
  OBVIOUS
<1>2. /\ runs[r].status = "queued" /\ attempt[r] = "idle" /\ runs' = [runs EXCEPT ![r] = entry]
      /\ UNCHANGED <<version, committed, overtaken, markers, current, lock, call, attempt, seen, aborts>>
  BY <1>1 DEF FailRun, Unlocked, changeVars, runVars
<1>3. entry \in RunRows /\ entry.status = "failed" /\ entry.input = runs[r].input
  BY <1>1 DEF IInv, TypeOK, RunRows
<1>4. \A s \in RunNos : runs'[s] = IF s = r THEN entry ELSE runs[s]
  BY <1>2 DEF IInv, TypeOK
<1>5. r \in Queued
  BY <1>2 DEF Queued
<1>6. current < r /\ \A s \in Queued : s = r
  BY <1>5, OneQueued DEF IInv
<1>7. Queued' = {}
  BY <1>3, <1>4, <1>6 DEF Queued
<1>8. TypeOK'
  BY <1>2, <1>3 DEF IInv, TypeOK
<1>9. VersionInv' /\ InputInv'
  BY <1>2, <1>3, <1>4 DEF IInv, VersionInv, InputInv
<1>10. RunInv'
  <2>1. \A s \in RunNos : attempt[s] = "idle"
    BY <1>2, <1>6 DEF IInv, RunInv, Queued
  <2>2. current # 0 => current \in RunNos
    BY PlanningAssumption DEF IInv, TypeOK, RunNos
  <2>3. current # 0 => runs'[current].status = "completed"
    BY <1>2, <1>4, <2>2 DEF IInv, RunInv
  <2>4. \A s, t \in RunNos : s < t /\ runs'[t].status # "none" => runs'[s].status \notin {"none", "queued"}
    BY <1>2, <1>3, <1>4 DEF IInv, RunInv
  <2> QED
    BY <1>2, <2>1, <2>3, <2>4 DEF RunInv
<1>11. CallInv'
  <2> SUFFICES ASSUME NEW q \in Queuers, call'[q].at # "idle"
               PROVE  /\ lock' = q
                      /\ call'[q].deleted \subseteq markers'
                      /\ call'[q].waiting = 0 => call'[q].at = "chosen" /\ Queued' = {}
                      /\ call'[q].waiting # 0 =>
                           /\ runs'[call'[q].waiting].status \in {"queued", "failed"}
                           /\ call'[q].waiting > current'
                           /\ Queued' \subseteq {call'[q].waiting}
    BY DEF CallInv
  <2>1. call'[q] = call[q] /\ call[q].at # "idle"
    BY <1>2
  <2>2. call[q].waiting # 0 => call[q].waiting \in RunNos
    BY PlanningAssumption DEF IInv, TypeOK, Calls, RunNos
  <2>3. call[q].waiting # 0 => runs'[call[q].waiting].status \in {"queued", "failed"}
    BY <1>3, <1>4, <2>1, <2>2 DEF IInv, CallInv
  <2> QED
    BY <1>2, <1>7, <2>1, <2>3 DEF IInv, CallInv
<1>12. SeenInv'
  BY <1>7 DEF SeenInv
<1>13. ChangeAccounted'
  BY <1>2, <1>3, <1>4, <1>6 DEF ChangeAccounted, NewerRunFailed
<1> QED
  BY <1>8, <1>9, <1>10, <1>11, <1>12, <1>13 DEF IInv

LEMMA StepInv == IInv /\ [Next]_vars => IInv'
<1> SUFFICES ASSUME IInv, [Next]_vars PROVE IInv'
  OBVIOUS
<1>1. ASSUME NEW c \in Changes, Touch(c) \/ CommitChange(c) PROVE IInv'
  BY <1>1, TouchStep, CommitStep
<1>2. ASSUME NEW q \in Queuers, Begin(q) \/ CallStep(q) PROVE IInv'
  BY <1>2, BeginStep, KeepStep, AskUpdateStep, UpdateStep, CreateStep, AbortCallStep DEF CallStep
<1>3. ASSUME NEW r \in RunNos, RunStep(r) \/ AbortAttempt(r) \/ FailRun(r) PROVE IInv'
  BY <1>3, StartStep, AskPromoteStep, CompleteStep, AbortAttemptStep, FailRunStep DEF RunStep
<1>4. CASE UNCHANGED vars
  <2>1. UNCHANGED <<version, committed, overtaken, markers, runs, current, lock, call, attempt, seen, aborts>>
    BY <1>4 DEF vars, changeVars, runVars
  <2>2. TypeOK' /\ CallInv'
    BY <2>1 DEF IInv, TypeOK, CallInv, Queued
  <2> QED
    BY <2>1, <2>2, CallOnly DEF IInv
<1> QED
  BY <1>1, <1>2, <1>3, <1>4 DEF Next

\* The invariant holds in every reachable state.
THEOREM Invariance == Spec => []IInv
BY InitInv, StepInv, PTL DEF Spec

\* Over every interleaving of changes, queueRun and runs, deadlocks and failed
\* attempts, no committed change is forgotten that was not overtaken, unless the
\* newest run has failed (queueRun, runPlanning, failRun).
THEOREM NoChangeForgotten == Spec => []ChangeAccounted
<1>1. IInv => ChangeAccounted
  BY DEF IInv
<1> QED
  BY <1>1, Invariance, PTL

\* With the same exceptions, what is shown as up to date includes every committed
\* change (planningStatus).
THEOREM UpToDateHoldsAll == Spec => []UpToDateIsComplete
<1>1. IInv => UpToDateIsComplete
  BY DEF IInv, ChangeAccounted, Accounted, UpToDate, UpToDateIsComplete
<1> QED
  BY <1>1, Invariance, PTL

\* Runs complete in the order of their numbers: the current run is only ever
\* replaced by a newer one, and none is superseded, because queueRun creates a
\* run only when no other is queued (promote_planning_run).
NoneSuperseded == \A r \in RunNos : runs[r].status # "superseded"

NewestIsCurrent == [][current' >= current]_vars /\ []NoneSuperseded

LEMMA NewestStep ==
  ASSUME IInv, [Next]_vars
  PROVE  /\ current' >= current
         /\ \A r \in RunNos : runs'[r].status = "superseded" => runs[r].status = "superseded"
<1>1. current \in Nat /\ \A r \in RunNos : runs[r] \in RunRows
  BY PlanningAssumption DEF IInv, TypeOK
<1>2. ASSUME UNCHANGED <<current, runs>>
      PROVE  /\ current' >= current
             /\ \A r \in RunNos : runs'[r].status = "superseded" => runs[r].status = "superseded"
  BY <1>1, <1>2
<1>3. ASSUME UNCHANGED current, NEW s \in RunNos, NEW entry, entry.status # "superseded",
             runs' = [runs EXCEPT ![s] = entry]
      PROVE  /\ current' >= current
             /\ \A r \in RunNos : runs'[r].status = "superseded" => runs[r].status = "superseded"
  BY <1>1, <1>3 DEF IInv, TypeOK
<1>4. ASSUME NEW c \in Changes, Touch(c) \/ CommitChange(c) PROVE UNCHANGED <<current, runs>>
  BY <1>4 DEF Touch, CommitChange
<1>5. ASSUME NEW q \in Queuers, Begin(q) \/ KeepWaiting(q) \/ AskUpdate(q) \/ AbortCall(q)
      PROVE  UNCHANGED <<current, runs>>
  BY <1>5 DEF Begin, KeepWaiting, AskUpdate, AbortCall
<1>6. ASSUME NEW r \in RunNos, StartReading(r) \/ AskPromote(r) \/ AbortAttempt(r)
      PROVE  UNCHANGED <<current, runs>>
  BY <1>6 DEF StartReading, AskPromote, AbortAttempt
<1>7. ASSUME NEW q \in Queuers, Update(q)
      PROVE  \E s \in RunNos : \E entry : /\ entry.status # "superseded" /\ UNCHANGED current
                                        /\ runs' = [runs EXCEPT ![s] = entry]
  <2>1. PICK w \in RunNos : w = call[q].waiting
    BY <1>7, PlanningAssumption, SMTT(30) DEF Update, IInv, TypeOK, CallInv, Calls, RunNos
  <2>2. PICK entry : entry = [runs[w] EXCEPT !.input = Consumed(q)]
    OBVIOUS
  <2>3. runs' = [runs EXCEPT ![w] = entry] /\ UNCHANGED current /\ runs[w].status \in {"queued", "failed"}
    BY <1>7, <2>1, <2>2 DEF Update, IInv, CallInv
  <2>4. entry.status = runs[w].status
    BY <1>1, <2>2 DEF RunRows
  <2> QED
    BY <2>3, <2>4
<1>8. ASSUME NEW q \in Queuers, CreateRun(q)
      PROVE  \E s \in RunNos : \E entry : /\ entry.status # "superseded" /\ UNCHANGED current
                                        /\ runs' = [runs EXCEPT ![s] = entry]
  <2>1. PICK entry : entry = [status |-> "queued", input |-> Consumed(q)]
    OBVIOUS
  <2>2. entry.status # "superseded"
    BY <2>1
  <2> QED
    BY <1>8, <2>1, <2>2 DEF CreateRun
<1>9. ASSUME NEW s \in RunNos, FailRun(s)
      PROVE  \E r \in RunNos : \E entry : /\ entry.status # "superseded" /\ UNCHANGED current
                                        /\ runs' = [runs EXCEPT ![r] = entry]
  <2>1. PICK entry : entry = [runs[s] EXCEPT !.status = "failed"]
    OBVIOUS
  <2>2. entry.status = "failed"
    BY <1>1, <2>1 DEF RunRows
  <2> QED
    BY <1>9, <2>1, <2>2 DEF FailRun
<1>10. ASSUME NEW s \in RunNos, Complete(s)
       PROVE  /\ current' >= current
              /\ \A r \in RunNos : runs'[r].status = "superseded" => runs[r].status = "superseded"
  <2>1. current < s
    BY <1>10, OneQueued DEF Complete, IInv, RunInv, Queued
  <2>2. PICK entry : entry = [runs[s] EXCEPT !.status = "completed"]
    OBVIOUS
  <2>3. current' = s /\ runs' = [runs EXCEPT ![s] = entry]
    BY <1>10, <2>1, <2>2 DEF Complete, Promotes
  <2>4. entry.status = "completed"
    BY <1>1, <2>2 DEF RunRows
  <2> QED
    BY <1>1, <2>1, <2>3, <2>4 DEF IInv, TypeOK, RunNos
<1>11. CASE UNCHANGED vars
  BY <1>2, <1>11 DEF vars
<1> QED
  BY <1>2, <1>3, <1>4, <1>5, <1>6, <1>7, <1>8, <1>9, <1>10, <1>11
     DEF Next, CallStep, RunStep

\* A run only replaces an older one, in whatever order attempts fail and are
\* started again.
THEOREM CurrentOnlyNewer == Spec => NewestIsCurrent
<1>1. IInv /\ NoneSuperseded /\ [Next]_vars => NoneSuperseded'
  BY NewestStep DEF NoneSuperseded
<1>2. Init => NoneSuperseded
  BY DEF Init, NoneSuperseded
<1>3. IInv /\ [Next]_vars => [current' >= current]_vars
  BY NewestStep
<1> QED
  BY <1>1, <1>2, <1>3, Invariance, PTL DEF Spec, NewestIsCurrent

(***************************************************************************)
(* The schedule.  Its invariant has four parts.  What was read is in order *)
(* (InputsOK).  A phase finds the units of the book once, released ones    *)
(* apart (SequenceInv): without it a unit could be placed twice, before    *)
(* itself.  What is on the machines is in order and leaves room for the    *)
(* next operation (PlacingInv).  And what the pulls have kept so far is    *)
(* kept (PullsHurtNobody), against the order of work without any club.     *)
(***************************************************************************)

(* --------------------------- what is read ------------------------------ *)

\* Units with work to do.
RoutedUnit == {u \in Unit : Routes[u.item] # <<>>}

\* The inputs are what a run may read, and the book has ids of its own.
InputsOK ==
  /\ stops \subseteq [machine : Lanes, from : Nat, to : 0 .. LastStop]
  /\ manual \in Seq(Nat)
  /\ plan \in Seq([ids : Seq(Nat), day : Nat, before : Nat])
  /\ IsFiniteSet(book) /\ book \subseteq Unit
  /\ \A u, v \in book : u.id = v.id => u = v

(* ------------------------- the order of work --------------------------- *)

\* A sequence of them, each once.
Listed(s) == s \in Seq(RoutedUnit) /\ \A i, j \in DOMAIN s : s[i].id = s[j].id => i = j

\* Units that are not released, and not among those that are.
Unreleased(s) ==
  Listed(s) /\ Ids(s) \cap Ids(head) = {} /\ \A i \in DOMAIN s : s[i].released = 0

\* What each phase finds: the released units, the order of work of the others,
\* and what it has still to put into that; nothing on the machines until then.
SequenceInv ==
  /\ phase \in {"wait", "sequence", "insert", "land", "rush", "pull", "decide", "groups", "place"}
  /\ phase \notin {"wait", "sequence"} =>
       Listed(head) /\ (\A i \in DOMAIN head : head[i].released > 0) /\ Unreleased(seq)
  /\ phase \notin {"sequence", "place"} => op = 1 /\ pass = EmptyPass
  /\ phase = "insert" => Unreleased(todo) /\ Ids(todo) \cap Ids(seq) = {}
  /\ phase = "land" => Unreleased(own)
  /\ phase = "rush" => todo \in Seq(RoutedUnit) /\ \A i \in DOMAIN todo : todo[i].released = 0
  /\ phase \in {"land", "pull"} => Listed(start) /\ Range(start) = Range(seq)
  /\ phase \in {"land", "rush", "pull"} =>
       at \in (Nat \ {0}) \X Nat \X Nat /\ at[1] < at[2] /\ at[2] <= at[3]

(* ---------------------- what is on the machines ------------------------ *)

\* A block is an operation that ran in time, and its machine knows of it.
BlockOK(p, b) ==
  LET m == b.machine
  IN  /\ b.unit \in RoutedUnit /\ b.n \in Nat \ {0} /\ m \in Lanes
      /\ b.start \in Nat /\ b.finish \in Nat /\ b.start < b.finish
      /\ b.finish <= p.free[m] /\ p.last[m] # NoItem
      /\ b.unit.item # p.last[m] => b.finish + Changeover[m[1]] <= p.free[m]
      /\ Runs(m, b.start, b.finish - b.start) /\ b.start >= ReleaseMinute(b.unit)

\* b has finished, and the machine is changed over, when c begins.
Before(b, c) ==
  b.finish + (IF b.unit.item = c.unit.item THEN 0 ELSE Changeover[b.machine[1]]) <= c.start

\* The machines are in order.
PassOK(p) ==
  /\ p = [load |-> p.load, last |-> p.last, free |-> p.free, previous |-> p.previous,
          ready |-> p.ready, blocks |-> p.blocks]
  /\ p.load \in [Lanes -> Nat] /\ p.last \in [Lanes -> Items \cup {NoItem}]
  /\ p.free \in [Lanes -> Nat] /\ p.ready \in Nat
  /\ p.previous \in [Resources -> [oid : Nat, item : Items \cup {NoItem}, machine : Nat]]
  /\ \A r \in Resources : p.previous[r].machine \in 1 .. Machines[r]
  /\ IsFiniteSet(p.blocks)
  /\ \A b \in p.blocks : BlockOK(p, b)
  /\ \A b, c \in p.blocks : b.machine = c.machine /\ b # c => Before(b, c) \/ Before(c, b)
  /\ \A b, c \in p.blocks : b.unit.id = c.unit.id /\ b.n < c.n => b.finish <= c.start

\* The operations of u before the n-th are placed, and have finished.
Upto(p, u, n) == \A b \in p.blocks : b.unit.id = u.id => b.n < n /\ b.finish <= p.ready

\* They are, and have room for the next operation: only operations before it are
\* placed of its unit, and nothing of the units that follow.
PlacingInv ==
  /\ PassOK(pass)
  /\ phase = "place" =>
       /\ Listed(queue)
       /\ queue # <<>> => op \in 1 .. Len(Routes[queue[1].item]) /\ Upto(pass, queue[1], op)
       /\ queue = <<>> => op = 1
       /\ \A b \in pass.blocks : \A i \in DOMAIN queue : b.unit.id = queue[i].id => i = 1

ScheduleInv == InputsOK /\ SequenceInv /\ PlacingInv /\ PullsHurtNobody

\* Released work is being placed, after what was released before it.
PlacingHead(h, q, o, p) ==
  \E i \in DOMAIN h :
    /\ Len(h) - i + 1 <= Len(q)
    /\ \A k \in DOMAIN q : IF k <= Len(h) - i + 1 THEN q[k] = h[i + k - 1] ELSE q[k].released = 0
    /\ o \in 1 .. Len(Routes[h[i].item]) /\ p = Placings(Passes(h)[i - 1], h[i])[o - 1]

\* Released work is placed, and only other work is left.
HeadPlaced(h, q, p) ==
  /\ \A k \in DOMAIN q : q[k].released = 0
  /\ \A b \in p.blocks : b.unit.released > 0 => b \in ForwardPass(h).blocks

HeadInv == phase = "place" => PlacingHead(head, queue, op, pass) \/ HeadPlaced(head, queue, pass)

-----------------------------------------------------------------------------
(* Sets of numbers and sequences of units.                                 *)

\* Among subsets of a finite set some one has no smaller one among them.
LEMMA SmallestSet ==
  ASSUME NEW D, IsFiniteSet(D), NEW B \in SUBSET (SUBSET D), B # {}
  PROVE  \E T \in B : \A U \in B : U \subseteq T => U = T
<1>1. B \subseteq FiniteSubsetsOf(D)
  BY FS_FiniteSubsetsOfFinite
<1>2. PICK T \in B : \A U \in B : ~(<<U, T>> \in StrictSubsetOrdering(D))
  BY <1>1, FS_StrictSubsetOrderingWellFounded, WFMin
<1>3. ASSUME NEW U \in B, U \subseteq T, U # T PROVE FALSE
  <2>1. <<U, T>> \in (SUBSET D) \X (SUBSET D)
    OBVIOUS
  <2>2. <<U, T>> \in StrictSubsetOrdering(D)
    BY <2>1, <1>3 DEF StrictSubsetOrdering
  <2> QED
    BY <1>2, <2>2
<1> QED
  BY <1>3

\* Some natural numbers have a least one.
LEMMA LeastNumber ==
  ASSUME NEW S, S \subseteq Nat, S # {}
  PROVE  \E m \in S : \A y \in S : m <= y
<1>1. PICK k : k \in S
  OBVIOUS
<1> DEFINE B == {0 .. m : m \in S \cap (0 .. k)}
<1>2. PICK D : B \in SUBSET (SUBSET D) /\ B # {} /\ IsFiniteSet(D)
  <2>1. 0 .. k \in B
    BY <1>1
  <2>2. IsFiniteSet(0 .. k)
    BY <1>1, FS_Interval
  <2>3. k \in Nat /\ \A m \in 0 .. k : 0 .. m \subseteq 0 .. k
    BY <1>1
  <2>4. \A U \in B : U \subseteq 0 .. k
    BY <2>3
  <2> HIDE DEF B
  <2> QED
    BY <2>1, <2>2, <2>4
<1>3. PICK T \in B : \A U \in B : U \subseteq T => U = T
  <2> HIDE DEF B
  <2> QED
    BY <1>2, SmallestSet
<1>4. PICK m \in S \cap (0 .. k) : T = 0 .. m
  OBVIOUS
<1>5. ASSUME NEW y \in S, y < m PROVE FALSE
  <2>1. 0 .. y \in B
    <3>1. y \in S \cap (0 .. k)
      BY <1>4, <1>5, <1>1
    <3> QED
      BY <3>1
  <2>2. 0 .. y \subseteq 0 .. m /\ m \in 0 .. m /\ m \notin 0 .. y
    BY <1>4, <1>5
  <2> HIDE DEF B
  <2> QED
    BY <2>1, <2>2, <1>3, <1>4
<1>6. \A y \in S : m <= y
  BY <1>5
<1> QED
  BY <1>4, <1>6

\* What holds at 0 and is passed on holds up to n.
LEMMA UpTo ==
  ASSUME NEW n \in Nat, NEW S, 0 \in S, \A k \in 1 .. n : k - 1 \in S => k \in S
  PROVE  \A k \in 0 .. n : k \in S
<1> DEFINE B == {0 .. m : m \in (0 .. n) \ S}
<1> SUFFICES ASSUME NEW k \in 0 .. n, k \notin S PROVE FALSE
  OBVIOUS
<1>1. PICK D : B \in SUBSET (SUBSET D) /\ B # {} /\ IsFiniteSet(D)
  <2>1. 0 .. k \in B
    OBVIOUS
  <2>2. IsFiniteSet(0 .. n)
    BY FS_Interval
  <2> QED
    BY <2>1, <2>2
<1>2. PICK T \in B : \A U \in B : U \subseteq T => U = T
  <2> HIDE DEF B
  <2> QED
    BY <1>1, SmallestSet
<1>3. PICK m \in (0 .. n) \ S : T = 0 .. m
  OBVIOUS
<1>4. m # 0 /\ m - 1 \in 0 .. n
  BY <1>3
<1>5. m - 1 \notin S
  BY <1>3, <1>4
<1>6. 0 .. m - 1 \in B /\ 0 .. m - 1 \subseteq 0 .. m /\ m \notin 0 .. m - 1 /\ m \in 0 .. m
  BY <1>4, <1>5
<1> HIDE DEF B
<1> QED
  BY <1>2, <1>3, <1>6

\* What a unit with work to do consists of.
LEMMA UnitFields ==
  ASSUME NEW u \in RoutedUnit
  PROVE  /\ u \in Unit /\ u.id \in Nat /\ u.oid \in Nat /\ u.item \in Items /\ u.qty \in Nat \ {0}
         /\ u.prom \in Nat /\ u.due \in Nat /\ u.released \in Nat /\ u.lot \in Nat /\ u.hold \in Nat
         /\ u.lotDay \in Nat /\ u.plan \in Nat
         /\ ReleaseMinute(u) \in Nat
         /\ Len(Routes[u.item]) \in Nat \ {0}
  <1>1. u \in Unit /\ Routes[u.item] # <<>>
    BY DEF RoutedUnit
  <1>2. u.item \in Items /\ u.lotDay \in Nat /\ u.plan \in Nat
    BY <1>1 DEF Unit
  <1>3. Len(Routes[u.item]) \in Nat \ {0}
    BY <1>1, <1>2, SchedulerAssumption
  <1>4. DayMinutes \in Nat
    BY SchedulerAssumption
  <1>5. ReleaseMinute(u) \in Nat
    BY <1>2, <1>4 DEF ReleaseMinute, Larger
  <1>6. QED BY <1>1, <1>3, <1>5 DEF Unit

\* The elements of two sequences, one after the other.
LEMMA Joined ==
  ASSUME NEW X, NEW s \in Seq(X), NEW t \in Seq(X)
  PROVE  /\ s \o t \in Seq(X) /\ Len(s \o t) = Len(s) + Len(t)
         /\ \A k \in 1 .. Len(s) : (s \o t)[k] = s[k]
         /\ \A k \in Len(s) + 1 .. Len(s) + Len(t) : (s \o t)[k] = t[k - Len(s)]
  OBVIOUS

\* The elements of a part of a sequence.
LEMMA Piece ==
  ASSUME NEW X, NEW s \in Seq(X), NEW a \in 1 .. Len(s) + 1, NEW c \in a - 1 .. Len(s)
  PROVE  /\ SubSeq(s, a, c) \in Seq(X) /\ Len(SubSeq(s, a, c)) = c - a + 1
         /\ \A k \in 1 .. c - a + 1 : SubSeq(s, a, c)[k] = s[k + a - 1]
  <1>1. CASE c = a - 1
    <2>1. SubSeq(s, a, c) = <<>>
      BY <1>1
    <2>2. QED BY <1>1, <2>1
  <1>2. CASE c >= a
    <2>1. a \in 1 .. Len(s) /\ c \in 1 .. Len(s) /\ a <= c
      BY <1>2
    <2>2. QED BY <2>1
  <1>3. QED BY <1>1, <1>2

\* The elements of a sequence into which another is put.
LEMMA PutElements ==
  ASSUME NEW X, NEW s \in Seq(X), NEW t \in Seq(X), NEW i \in 1 .. Len(s) + 1
  PROVE  /\ Put(s, i, t) \in Seq(X) /\ Len(Put(s, i, t)) = Len(s) + Len(t)
         /\ \A k \in 1 .. Len(s) + Len(t) :
              Put(s, i, t)[k] = IF k < i THEN s[k]
                                ELSE IF k < i + Len(t) THEN t[k - i + 1] ELSE s[k - Len(t)]
  <1>1. SubSeq(s, 1, i - 1) \in Seq(X) /\ Len(SubSeq(s, 1, i - 1)) = i - 1
        /\ \A k \in 1 .. i - 1 : SubSeq(s, 1, i - 1)[k] = s[k]
    OBVIOUS
  <1>2. SubSeq(s, i, Len(s)) \in Seq(X) /\ Len(SubSeq(s, i, Len(s))) = Len(s) - i + 1
        /\ \A k \in 1 .. Len(s) - i + 1 : SubSeq(s, i, Len(s))[k] = s[k + i - 1]
    OBVIOUS
  <1>3. PICK a \in Seq(X) : a = SubSeq(s, 1, i - 1)
    BY <1>1
  <1>4. PICK c \in Seq(X) : c = SubSeq(s, i, Len(s))
    BY <1>2
  <1>5. PICK d \in Seq(X) : d = a \o t
    BY Joined
  <1>6. Len(d) = i - 1 + Len(t) /\ \A k \in 1 .. Len(d) : d[k] = IF k < i THEN s[k] ELSE t[k - i + 1]
    BY <1>1, <1>3, <1>5, Joined
  <1>7. PICK e \in Seq(X) : e = d \o c
    BY Joined
  <1>8. Len(c) = Len(s) - i + 1 /\ \A k \in 1 .. Len(c) : c[k] = s[k + i - 1]
    BY <1>2, <1>4
  <1>11. Len(e) = Len(s) + Len(t)
    BY <1>6, <1>7, <1>8, Joined
  <1>12. ASSUME NEW k \in 1 .. Len(e)
         PROVE  e[k] = IF k < i + Len(t) THEN d[k] ELSE s[k - Len(t)]
    <2>1. CASE k < i + Len(t)
      <3>1. k \in 1 .. Len(d)
        BY <2>1, <1>6, <1>11
      <3>2. QED BY <3>1, <2>1, <1>7, Joined
    <2>2. CASE ~(k < i + Len(t))
      <3>1. k \in Len(d) + 1 .. Len(d) + Len(c) /\ k - Len(d) \in 1 .. Len(c) /\ (k - Len(d)) + i - 1 = k - Len(t)
        BY <2>2, <1>6, <1>8, <1>11
      <3>2. e[k] = c[k - Len(d)]
        BY <3>1, <1>7, Joined
      <3>3. QED BY <3>1, <3>2, <2>2, <1>8
    <2>3. QED BY <2>1, <2>2
  <1>9. Put(s, i, t) = e
    BY <1>3, <1>4, <1>5, <1>7 DEF Put
  <1>13. Len(d) \in Nat /\ Len(d) = i - 1 + Len(t)
    BY <1>6
  <1>14. ASSUME NEW k \in 1 .. Len(s) + Len(t)
         PROVE  e[k] = IF k < i THEN s[k] ELSE IF k < i + Len(t) THEN t[k - i + 1] ELSE s[k - Len(t)]
    <2>1. CASE k < i + Len(t)
      <3>1. k \in 1 .. Len(d) /\ e[k] = d[k]
        BY <2>1, <1>13, <1>11, <1>12
      <3>2. QED BY <2>1, <3>1, <1>6
    <2>2. CASE ~(k < i + Len(t))
      <3>1. e[k] = s[k - Len(t)] /\ ~(k < i)
        BY <2>2, <1>11, <1>12
      <3>2. QED BY <2>2, <3>1
    <2>3. QED BY <2>1, <2>2
  <1>10. QED BY <1>11, <1>14, <1>9

\* Units of two sequences without a unit in common are listed once when one is
\* put into the other.
LEMMA PutListed ==
  ASSUME NEW s, NEW t, Listed(s), Listed(t), Ids(s) \cap Ids(t) = {}, NEW i \in 1 .. Len(s) + 1
  PROVE  /\ Listed(Put(s, i, t)) /\ Ids(Put(s, i, t)) = Ids(s) \cup Ids(t)
         /\ \A k \in DOMAIN Put(s, i, t) :
              \/ \E a \in DOMAIN s : Put(s, i, t)[k] = s[a]
              \/ \E a \in DOMAIN t : Put(s, i, t)[k] = t[a]
  <1>1. s \in Seq(RoutedUnit) /\ t \in Seq(RoutedUnit)
    BY DEF Listed
  <1> DEFINE r == Put(s, i, t)
  <1>2. /\ r \in Seq(RoutedUnit) /\ Len(r) = Len(s) + Len(t)
        /\ \A k \in 1 .. Len(s) + Len(t) :
              r[k] = IF k < i THEN s[k] ELSE IF k < i + Len(t) THEN t[k - i + 1] ELSE s[k - Len(t)]
    BY <1>1, PutElements
  <1> HIDE DEF r
  <1>3. \A k \in DOMAIN r : \/ k < i /\ k \in DOMAIN s /\ r[k] = s[k]
                            \/ k \in i .. i + Len(t) - 1 /\ k - i + 1 \in DOMAIN t /\ r[k] = t[k - i + 1]
                            \/ k >= i + Len(t) /\ k - Len(t) \in DOMAIN s /\ r[k] = s[k - Len(t)]
    BY <1>1, <1>2, SMTT(30)
  <1>4. \A a \in DOMAIN s : IF a < i THEN a \in DOMAIN r /\ r[a] = s[a]
                            ELSE a + Len(t) \in DOMAIN r /\ r[a + Len(t)] = s[a]
    BY <1>1, <1>2
  <1>5. \A a \in DOMAIN t : a + i - 1 \in DOMAIN r /\ r[a + i - 1] = t[a]
    BY <1>1, <1>2
  <1>6. \A a \in DOMAIN s, c \in DOMAIN t : s[a].id # t[c].id
    BY DEF Ids
  <1>7. ASSUME NEW k \in DOMAIN r, NEW l \in DOMAIN r, r[k].id = r[l].id
        PROVE  k = l
    <2>1. \A a, c \in DOMAIN s : s[a].id = s[c].id => a = c
      BY DEF Listed
    <2>2. \A a, c \in DOMAIN t : t[a].id = t[c].id => a = c
      BY DEF Listed
    <2>3. k \in Int /\ l \in Int /\ Len(t) \in Int /\ i \in Int
      BY <1>1, <1>2
    <2>4. CASE k < i /\ k \in DOMAIN s /\ r[k] = s[k]
      BY <2>4, <1>3, <1>6, <1>7, <2>1, <2>3
    <2>5. CASE k \in i .. i + Len(t) - 1 /\ k - i + 1 \in DOMAIN t /\ r[k] = t[k - i + 1]
      BY <2>5, <1>3, <1>6, <1>7, <2>2, <2>3
    <2>6. CASE k >= i + Len(t) /\ k - Len(t) \in DOMAIN s /\ r[k] = s[k - Len(t)]
      BY <2>6, <1>3, <1>6, <1>7, <2>1, <2>3
    <2>7. QED BY <1>3, <2>4, <2>5, <2>6
  <1>8. Listed(r)
    BY <1>2, <1>7 DEF Listed
  <1>9. Ids(r) = Ids(s) \cup Ids(t)
    <2>1. Ids(r) \subseteq Ids(s) \cup Ids(t)
      BY <1>3 DEF Ids
    <2>2. Ids(s) \subseteq Ids(r)
      BY <1>4 DEF Ids
    <2>3. Ids(t) \subseteq Ids(r)
      BY <1>5 DEF Ids
    <2>4. QED BY <2>1, <2>2, <2>3
  <1>10. \A k \in DOMAIN r : (\E a \in DOMAIN s : r[k] = s[a]) \/ (\E a \in DOMAIN t : r[k] = t[a])
    BY <1>3
  <1>11. QED BY <1>8, <1>9, <1>10 DEF r

\* One sequence lists the units of another, in any order.
LEMMA Relisted ==
  ASSUME NEW s, Listed(s), NEW r \in Seq(RoutedUnit), NEW f \in [1 .. Len(r) -> DOMAIN s],
         \A k, l \in 1 .. Len(r) : f[k] = f[l] => k = l, \A k \in 1 .. Len(r) : r[k] = s[f[k]]
  PROVE  Listed(r) /\ Ids(r) \subseteq Ids(s) /\ \A k \in DOMAIN r : \E a \in DOMAIN s : r[k] = s[a]
  <1>1. DOMAIN r = 1 .. Len(r)
    OBVIOUS
  <1>2. \A k, l \in 1 .. Len(r) : r[k].id = r[l].id => k = l
    BY DEF Listed
  <1>3. \A k \in DOMAIN r : \E a \in DOMAIN s : r[k] = s[a]
    BY <1>1
  <1>4. QED BY <1>1, <1>2, <1>3 DEF Listed, Ids

\* A unit is taken out of the order of work, and the others stay.
LEMMA WithoutListed ==
  ASSUME NEW s, Listed(s), NEW k \in DOMAIN s
  PROVE  /\ Listed(RemoveAt(s, k)) /\ Ids(RemoveAt(s, k)) = Ids(s) \ {s[k].id}
         /\ \A a \in DOMAIN RemoveAt(s, k) : \E c \in DOMAIN s : RemoveAt(s, k)[a] = s[c]
  <1>1. s \in Seq(RoutedUnit) /\ k \in 1 .. Len(s) /\ DOMAIN s = 1 .. Len(s) /\ Len(s) \in Nat
    BY DEF Listed
  <1>2. PICK d \in Seq(RoutedUnit) : d = SubSeq(s, 1, k - 1) /\ Len(d) = k - 1 /\ \A a \in 1 .. Len(d) : d[a] = s[a]
    <2>1. 1 \in 1 .. Len(s) + 1 /\ k - 1 \in 0 .. Len(s)
      BY <1>1
    <2>2. SubSeq(s, 1, k - 1) \in Seq(RoutedUnit) /\ Len(SubSeq(s, 1, k - 1)) = k - 1
          /\ \A a \in 1 .. k - 1 : SubSeq(s, 1, k - 1)[a] = s[a]
      BY <1>1, <2>1, Piece
    <2>3. QED BY <2>2
  <1>3. PICK e \in Seq(RoutedUnit) : e = SubSeq(s, k + 1, Len(s)) /\ Len(e) = Len(s) - k
                                    /\ \A a \in 1 .. Len(e) : e[a] = s[a + k]
    <2>1. k + 1 \in 1 .. Len(s) + 1 /\ Len(s) \in k .. Len(s)
      BY <1>1
    <2>2. SubSeq(s, k + 1, Len(s)) \in Seq(RoutedUnit) /\ Len(SubSeq(s, k + 1, Len(s))) = Len(s) - k
          /\ \A a \in 1 .. Len(s) - k : SubSeq(s, k + 1, Len(s))[a] = s[a + k]
      BY <1>1, <2>1, Piece, SMTT(30)
    <2>3. QED BY <2>2
  <1>17. Len(d) = k - 1 /\ \A a \in 1 .. Len(d) : d[a] = s[a]
    BY <1>2
  <1>18. Len(e) = Len(s) - k /\ \A a \in 1 .. Len(e) : e[a] = s[a + k]
    BY <1>3
  <1>4. PICK r \in Seq(RoutedUnit) : r = d \o e
    BY Joined
  <1>19. /\ Len(r) = Len(d) + Len(e)
         /\ \A a \in 1 .. Len(d) : r[a] = d[a]
         /\ \A a \in Len(d) + 1 .. Len(d) + Len(e) : r[a] = e[a - Len(d)]
    BY <1>4, Joined
  <1>5. Len(r) = Len(s) - 1
    BY <1>1, <1>17, <1>18, <1>19
  <1>6. PICK f : f = [a \in 1 .. Len(s) - 1 |-> IF a < k THEN a ELSE a + 1]
    OBVIOUS
  <1>7. f \in [1 .. Len(s) - 1 -> DOMAIN s] /\ \A a, c \in 1 .. Len(s) - 1 : f[a] = f[c] => a = c
    BY <1>1, <1>6
  <1>8. ASSUME NEW a \in 1 .. Len(s) - 1 PROVE r[a] = s[f[a]]
    <2>1. CASE a < k
      <3>1. a \in 1 .. Len(d) /\ f[a] = a
        BY <2>1, <1>1, <1>17, <1>6
      <3>2. QED BY <3>1, <1>17, <1>19
    <2>2. CASE ~(a < k)
      <3>1. a \in Len(d) + 1 .. Len(d) + Len(e) /\ f[a] = a + 1 /\ a - Len(d) \in 1 .. Len(e) /\ (a - Len(d)) + k = a + 1
        BY <2>2, <1>1, <1>17, <1>18, <1>6
      <3>2. r[a] = e[a - Len(d)]
        BY <3>1, <1>19
      <3>3. QED BY <3>1, <3>2, <1>18
    <2>3. QED BY <2>1, <2>2
  <1>9. Listed(r) /\ Ids(r) \subseteq Ids(s) /\ \A a \in DOMAIN r : \E c \in DOMAIN s : r[a] = s[c]
    <2>1. f \in [1 .. Len(r) -> DOMAIN s] /\ \A a, c \in 1 .. Len(r) : f[a] = f[c] => a = c
      BY <1>5, <1>7
    <2>2. \A a \in 1 .. Len(r) : r[a] = s[f[a]]
      BY <1>5, <1>8
    <2>3. QED BY <2>1, <2>2, Relisted, SMTT(30)
  <1>10. \A c \in DOMAIN s : c # k => \E a \in 1 .. Len(s) - 1 : f[a] = c
    <2> SUFFICES ASSUME NEW c \in DOMAIN s, c # k PROVE \E a \in 1 .. Len(s) - 1 : f[a] = c
      OBVIOUS
    <2>1. CASE c < k
      <3>1. c \in 1 .. Len(s) - 1 /\ f[c] = c
        BY <2>1, <1>1, <1>6
      <3> QED BY <3>1
    <2>2. CASE c > k
      <3>1. c - 1 \in 1 .. Len(s) - 1 /\ f[c - 1] = c
        BY <2>2, <1>1, <1>6
      <3> QED BY <3>1
    <2>3. QED BY <1>1, <2>1, <2>2
  <1>11. \A a \in 1 .. Len(s) - 1 : f[a] # k
    BY <1>1, <1>6
  <1>12. DOMAIN r = 1 .. Len(s) - 1
    BY <1>5
  <1>13. \A a \in DOMAIN r : r[a].id # s[k].id
    <2>1. \A a, c \in DOMAIN s : s[a].id = s[c].id => a = c
      BY DEF Listed
    <2>2. QED BY <1>7, <1>8, <1>11, <1>12, <2>1
  <1>14. \A c \in DOMAIN s : c # k => s[c].id \in Ids(r)
    <2> SUFFICES ASSUME NEW c \in DOMAIN s, c # k PROVE \E a \in DOMAIN r : r[a].id = s[c].id
      BY DEF Ids
    <2>1. PICK a \in 1 .. Len(s) - 1 : f[a] = c
      BY <1>10
    <2>2. r[a] = s[c] /\ a \in DOMAIN r
      BY <1>8, <1>12, <2>1
    <2>3. QED BY <2>2
  <1>15. Ids(r) = Ids(s) \ {s[k].id}
    BY <1>9, <1>13, <1>14 DEF Ids
  <1>16. r = RemoveAt(s, k)
    BY <1>2, <1>3, <1>4 DEF RemoveAt
  <1>20. QED BY <1>9, <1>15, <1>16

\* Moving a unit ahead keeps the units that are listed.
LEMMA MovedListed ==
  ASSUME NEW s, Listed(s), NEW j \in DOMAIN s, NEW end \in 1 .. j
  PROVE  Listed(Moved(s, j, end)) /\ Range(Moved(s, j, end)) = Range(s)
  <1>1. s \in Seq(RoutedUnit) /\ j \in 1 .. Len(s) /\ DOMAIN s = 1 .. Len(s) /\ Len(s) \in Nat
    BY DEF Listed
  <1>2. PICK a \in Seq(RoutedUnit) : a = SubSeq(s, 1, end - 1) /\ Len(a) = end - 1 /\ \A k \in 1 .. Len(a) : a[k] = s[k]
    <2>1. 1 \in 1 .. Len(s) + 1 /\ end - 1 \in 0 .. Len(s)
      BY <1>1
    <2>2. SubSeq(s, 1, end - 1) \in Seq(RoutedUnit) /\ Len(SubSeq(s, 1, end - 1)) = end - 1
          /\ \A k \in 1 .. end - 1 : SubSeq(s, 1, end - 1)[k] = s[k]
      BY <1>1, <2>1, Piece
    <2>3. QED BY <2>2
  <1>3. PICK c \in Seq(RoutedUnit) : c = SubSeq(s, end, j - 1) /\ Len(c) = j - end
                                     /\ \A k \in 1 .. Len(c) : c[k] = s[k + end - 1]
    <2>1. end \in 1 .. Len(s) + 1 /\ j - 1 \in end - 1 .. Len(s)
      BY <1>1
    <2>2. SubSeq(s, end, j - 1) \in Seq(RoutedUnit) /\ Len(SubSeq(s, end, j - 1)) = j - end
          /\ \A k \in 1 .. j - end : SubSeq(s, end, j - 1)[k] = s[k + end - 1]
      BY <1>1, <2>1, Piece
    <2>3. QED BY <2>2
  <1>4. PICK d \in Seq(RoutedUnit) : d = SubSeq(s, j + 1, Len(s)) /\ Len(d) = Len(s) - j
                                     /\ \A k \in 1 .. Len(d) : d[k] = s[k + j]
    <2>1. j + 1 \in 1 .. Len(s) + 1 /\ Len(s) \in j .. Len(s)
      BY <1>1
    <2>2. SubSeq(s, j + 1, Len(s)) \in Seq(RoutedUnit) /\ Len(SubSeq(s, j + 1, Len(s))) = Len(s) - j
          /\ \A k \in 1 .. Len(s) - j : SubSeq(s, j + 1, Len(s))[k] = s[k + j]
      <3>1. /\ SubSeq(s, j + 1, Len(s)) \in Seq(RoutedUnit)
            /\ Len(SubSeq(s, j + 1, Len(s))) = Len(s) - (j + 1) + 1
            /\ \A k \in 1 .. Len(s) - (j + 1) + 1 : SubSeq(s, j + 1, Len(s))[k] = s[k + (j + 1) - 1]
        <4> HIDE <1>1
        <4>1. Len(s) \in (j + 1) - 1 .. Len(s) /\ s \in Seq(RoutedUnit)
          BY <1>1
        <4>2. QED BY <2>1, <4>1, Piece
      <3>2. Len(s) - (j + 1) + 1 = Len(s) - j
        BY <1>1
      <3>3. ASSUME NEW k \in 1 .. Len(s) - j PROVE k + (j + 1) - 1 = k + j
        OBVIOUS
      <3>4. QED BY <3>1, <3>2, <3>3
    <2>3. QED BY <2>2
  <1>20. Len(a) = end - 1 /\ \A k \in 1 .. Len(a) : a[k] = s[k]
    BY <1>2
  <1>21. Len(c) = j - end /\ \A k \in 1 .. Len(c) : c[k] = s[k + end - 1]
    BY <1>3
  <1>22. Len(d) = Len(s) - j /\ \A k \in 1 .. Len(d) : d[k] = s[k + j]
    BY <1>4
  <1>5. s[j] \in RoutedUnit
    BY <1>1
  <1>6. PICK e \in Seq(RoutedUnit) : e = a \o <<s[j]>> /\ Len(e) = end
                                     /\ \A k \in 1 .. end : e[k] = IF k = end THEN s[j] ELSE s[k]
    <2>1. <<s[j]>> \in Seq(RoutedUnit) /\ Len(<<s[j]>>) = 1 /\ <<s[j]>>[1] = s[j]
      BY <1>5
    <2>2. a \o <<s[j]>> \in Seq(RoutedUnit) /\ Len(a \o <<s[j]>>) = end
      BY <1>20, <2>1, Joined
    <2>3. ASSUME NEW k \in 1 .. end PROVE (a \o <<s[j]>>)[k] = IF k = end THEN s[j] ELSE s[k]
      BY <1>20, <2>1, Joined
    <2>4. QED BY <2>2, <2>3
  <1>7. PICK g \in Seq(RoutedUnit) : g = e \o c /\ Len(g) = j
           /\ \A k \in 1 .. j : g[k] = IF k < end THEN s[k] ELSE IF k = end THEN s[j] ELSE s[k - 1]
    <2>1. PICK g \in Seq(RoutedUnit) : g = e \o c
      BY Joined
    <2>2. Len(g) = j
      BY <1>1, <1>3, <1>6, <2>1, Joined
    <2>3. ASSUME NEW k \in 1 .. j
          PROVE  g[k] = IF k < end THEN s[k] ELSE IF k = end THEN s[j] ELSE s[k - 1]
      <3>1. CASE k <= end
        <4>1. g[k] = e[k]
          BY <3>1, <1>6, <2>1, Joined
        <4>2. QED BY <3>1, <4>1, <1>6
      <3>2. CASE k > end
        <4>1. k - end \in 1 .. Len(c) /\ (k - end) + end - 1 = k - 1 /\ k \in Len(e) + 1 .. Len(e) + Len(c)
          BY <3>2, <1>1, <1>3, <1>6, SMTT(30)
        <4>2. g[k] = c[k - end]
          BY <4>1, <1>6, <2>1, Joined
        <4>3. QED BY <3>2, <4>1, <4>2, <1>3
      <3>3. QED BY <3>1, <3>2
    <2>4. QED BY <2>1, <2>2, <2>3
  <1>23. Len(g) = j
         /\ \A k \in 1 .. j : g[k] = IF k < end THEN s[k] ELSE IF k = end THEN s[j] ELSE s[k - 1]
    BY <1>7
  <1>8. PICK r \in Seq(RoutedUnit) : r = g \o d
    BY Joined
  <1>24. /\ Len(r) = Len(g) + Len(d)
         /\ \A k \in 1 .. Len(g) : r[k] = g[k]
         /\ \A k \in Len(g) + 1 .. Len(g) + Len(d) : r[k] = d[k - Len(g)]
    BY <1>8, Joined
  <1>9. r = Moved(s, j, end)
    BY <1>2, <1>3, <1>4, <1>6, <1>7, <1>8 DEF Moved
  <1>10. Len(r) = Len(s)
    BY <1>1, <1>22, <1>23, <1>24
  <1>11. ASSUME NEW k \in 1 .. Len(s) PROVE r[k] = IF k <= j THEN g[k] ELSE s[k]
    <2>1. CASE k <= j
      BY <2>1, <1>23, <1>24
    <2>2. CASE k > j
      <3>1. k - j \in 1 .. Len(d) /\ (k - j) + j = k /\ k \in Len(g) + 1 .. Len(g) + Len(d)
        BY <2>2, <1>1, <1>22, <1>23
      <3>2. r[k] = d[k - j]
        <4>1. r[k] = d[k - Len(g)]
          BY <3>1, <1>24
        <4>2. Len(g) = j
          BY <1>23
        <4>3. QED BY <4>1, <4>2
      <3>3. d[k - j] = s[(k - j) + j]
        BY <3>1, <1>22
      <3>4. d[k - j] = s[k]
        BY <3>1, <3>3
      <3>5. QED BY <2>2, <1>1, <3>2, <3>4
    <2>3. QED BY <1>1, <2>1, <2>2
  <1>12. PICK f : f = [k \in 1 .. Len(s) |-> IF k < end \/ k > j THEN k ELSE IF k = end THEN j ELSE k - 1]
    OBVIOUS
  <1>13. f \in [1 .. Len(s) -> DOMAIN s] /\ \A k, l \in 1 .. Len(s) : f[k] = f[l] => k = l
    BY <1>1, <1>12, SMTT(30)
  <1>14. ASSUME NEW k \in 1 .. Len(s) PROVE r[k] = s[f[k]]
    <2>1. f[k] = IF k < end \/ k > j THEN k ELSE IF k = end THEN j ELSE k - 1
      BY <1>12
    <2>2. CASE k <= j
      <3>1. k \in 1 .. j /\ r[k] = g[k]
        BY <1>1, <1>11, <2>2
      <3>2. g[k] = IF k < end THEN s[k] ELSE IF k = end THEN s[j] ELSE s[k - 1]
        BY <1>23, <3>1
      <3>3. QED BY <1>1, <2>1, <2>2, <3>1, <3>2
    <2>3. CASE k > j
      BY <1>1, <1>11, <2>1, <2>3
    <2>4. QED BY <1>1, <2>2, <2>3
  <1>15. ASSUME NEW k \in 1 .. Len(s) PROVE \E l \in 1 .. Len(s) : f[l] = k
    <2>1. CASE k < end \/ k > j
      BY <2>1, <1>12
    <2>2. CASE k = j
      <3>1. end \in 1 .. Len(s) /\ f[end] = j
        BY <1>1, <1>12
      <3> QED BY <3>1, <2>2
    <2>3. CASE end <= k /\ k < j
      <3>1. k + 1 \in 1 .. Len(s) /\ f[k + 1] = k
        BY <1>1, <1>12, <2>3
      <3> QED BY <3>1
    <2>4. QED BY <1>1, <2>1, <2>2, <2>3
  <1>17. DOMAIN r = 1 .. Len(s)
    BY <1>10
  <1>16. Listed(r)
    <2>1. ASSUME NEW k \in 1 .. Len(s), NEW l \in 1 .. Len(s), r[k].id = r[l].id PROVE k = l
      <3>1. \A m, n \in DOMAIN s : s[m].id = s[n].id => m = n
        BY DEF Listed
      <3>2. r[k] = s[f[k]] /\ r[l] = s[f[l]] /\ f[k] \in DOMAIN s /\ f[l] \in DOMAIN s
        BY <1>13, <1>14
      <3>3. f[k] = f[l]
        BY <2>1, <3>1, <3>2
      <3>4. QED BY <1>13, <3>3
    <2>2. QED BY <1>17, <2>1 DEF Listed
  <1>18. Range(r) = Range(s)
    <2>1. \A k \in DOMAIN r : r[k] \in {s[l] : l \in DOMAIN s}
      BY <1>13, <1>14, <1>17
    <2>2. \A l \in DOMAIN s : s[l] \in {r[k] : k \in DOMAIN r}
      <3> SUFFICES ASSUME NEW l \in 1 .. Len(s) PROVE \E k \in DOMAIN r : r[k] = s[l]
        BY <1>1
      <3>1. PICK k \in 1 .. Len(s) : f[k] = l
        BY <1>15
      <3>2. k \in DOMAIN r /\ r[k] = s[l]
        BY <1>14, <1>17, <3>1
      <3>3. QED BY <3>2
    <2>3. QED BY <2>1, <2>2 DEF Range
  <1>19. QED BY <1>9, <1>16, <1>18

-----------------------------------------------------------------------------
(* One operation on the machines.                                          *)

\* An element of a sequence is in the set the sequence is of.
LEMMA ElementOf ==
  ASSUME NEW S, NEW w \in Seq(S), NEW n \in 1 .. Len(w)
  PROVE  w[n] \in S
  OBVIOUS

StopsOK == stops \subseteq [machine : Lanes, from : Nat, to : 0 .. LastStop]

\* The machines of a resource are lanes.
LEMMA LaneIs ==
  ASSUME NEW r \in Resources, NEW k \in 1 .. Machines[r]
  PROVE  <<r, k>> \in Lanes
  BY DEF Lanes

\* With nothing placed the machines are in order.
LEMMA EmptyPassOK == PassOK(EmptyPass)
  <1>1. \A r \in Resources : Machines[r] \in Nat \ {0}
    BY SchedulerAssumption DEF Resources
  <1>2. IsFiniteSet({})
    BY FS_EmptySet
  <1>3. \A r \in Resources : 1 \in 1 .. Machines[r]
    BY <1>1
  <1>4. EmptyPass.previous \in [Resources -> [oid : Nat, item : Items \cup {NoItem}, machine : Nat]]
    BY DEF EmptyPass
  <1>5. QED BY <1>2, <1>3, <1>4 DEF PassOK, EmptyPass

\* A changeover takes a number of minutes.
LEMMA ChangeoverNat ==
  ASSUME NEW p, NEW m \in Lanes, NEW item
  PROVE  ChangeoverTo(p, m, item) \in Nat /\ m[1] \in Resources /\ Changeover[m[1]] \in Nat
  <1>1. m[1] \in Resources
    BY DEF Lanes
  <1>2. Changeover[m[1]] \in Nat
    BY <1>1, SchedulerAssumption DEF Resources
  <1>3. QED BY <1>1, <1>2 DEF ChangeoverTo

\* The machine that is chosen is one of the resource: it stays where the item ran,
\* or the costs have a least one and the first machine with it is taken.
LEMMA MachineForOK ==
  ASSUME NEW p, PassOK(p), NEW u \in RoutedUnit, NEW r \in Resources
  PROVE  MachineFor(p, u, r) \in 1 .. Machines[r]
  <1> DEFINE cost(k) == p.load[<<r, k>>] + ChangeoverTo(p, <<r, k>>, u.item)
             N == Machines[r]
             Best(k) == /\ \A j \in 1 .. N : cost(k) <= cost(j)
                        /\ \A j \in 1 .. k - 1 : cost(k) < cost(j)
  <1>1. N \in Nat \ {0}
    BY SchedulerAssumption DEF Resources
  <1>2. \A k \in 1 .. N : cost(k) \in Nat
    <2> TAKE k \in 1 .. N
    <2>1. <<r, k>> \in Lanes
      BY LaneIs
    <2>2. p.load[<<r, k>>] \in Nat
      BY <2>1 DEF PassOK
    <2>3. ChangeoverTo(p, <<r, k>>, u.item) \in Nat
      BY <2>1, ChangeoverNat
    <2>4. QED BY <2>2, <2>3
  <1>3. \E k \in 1 .. N : Best(k)
    <2> HIDE DEF cost, N
    <2> DEFINE C == {cost(k) : k \in 1 .. N}
    <2>1. C \subseteq Nat /\ C # {}
      BY <1>1, <1>2
    <2>2. PICK c \in C : \A d \in C : c <= d
      BY <2>1, LeastNumber
    <2> DEFINE K == {k \in 1 .. N : cost(k) = c}
    <2>3. K \subseteq Nat /\ K # {}
      BY <2>2
    <2>4. PICK k \in K : \A j \in K : k <= j
      BY <2>3, LeastNumber
    <2>5. k \in 1 .. N /\ cost(k) = c
      BY <2>4
    <2>6. \A j \in 1 .. N : cost(k) <= cost(j)
      BY <2>2, <2>5
    <2>7. ASSUME NEW j \in 1 .. k - 1 PROVE cost(k) < cost(j)
      <3>1. j \in 1 .. N /\ ~(k <= j)
        BY <1>1, <2>5
      <3>2. cost(j) # c
        BY <3>1, <2>4
      <3>3. cost(k) <= cost(j) /\ cost(k) \in Nat /\ cost(j) \in Nat
        BY <3>1, <2>5, <2>6, <1>2
      <3>4. QED BY <3>2, <3>3, <2>5
    <2>8. QED BY <2>5, <2>6, <2>7
  <1>4. (CHOOSE k \in 1 .. N : Best(k)) \in 1 .. N
    BY <1>3
  <1>5. p.previous[r].machine \in 1 .. Machines[r]
    BY DEF PassOK
  <1>6. MachineFor(p, u, r) = IF p.previous[r].item = u.item /\ p.previous[r].oid # u.oid THEN p.previous[r].machine
                              ELSE CHOOSE k \in 1 .. N : Best(k)
    BY DEF MachineFor
  <1> HIDE DEF N, Best
  <1>7. N = Machines[r]
    BY DEF N
  <1>8. QED BY <1>4, <1>5, <1>6, <1>7

\* After a stop there is a minute from which the machine runs long enough, and the
\* first one is found.
LEMMA AfterDowntimeOK ==
  ASSUME StopsOK, NEW m, NEW from \in Nat, NEW run \in Nat
  PROVE  LET t == AfterDowntime(m, from, run)
         IN  t \in Nat /\ t >= from /\ Runs(m, t, run)
  <1> DEFINE T == {t \in from .. from + LastStop : Runs(m, t, run)}
             First(t) == Runs(m, t, run) /\ \A t2 \in from .. t - 1 : ~Runs(m, t2, run)
  <1>1. LastStop \in Nat
    BY SchedulerAssumption
  <1>2. from + LastStop \in T
    <2>1. \A s \in stops : s.to \in 0 .. LastStop
      BY DEF StopsOK
    <2>2. \A s \in stops : ~(from + LastStop < s.to)
      BY <1>1, <2>1
    <2>3. Runs(m, from + LastStop, run)
      BY <2>2 DEF Runs
    <2>4. QED BY <1>1, <2>3
  <1>3. T \subseteq Nat /\ T # {}
    BY <1>1, <1>2
  <1>4. PICK t \in T : \A t2 \in T : t <= t2
    <2> HIDE DEF T
    <2> QED BY <1>3, LeastNumber
  <1>5. t \in from .. from + LastStop /\ First(t)
    <2>1. ASSUME NEW t2 \in from .. t - 1, Runs(m, t2, run) PROVE FALSE
      <3>1. t2 \in T /\ ~(t <= t2)
        BY <2>1, <1>1, <1>4
      <3>2. QED BY <3>1, <1>4
    <2>2. QED BY <2>1, <1>4
  <1>6. AfterDowntime(m, from, run) = CHOOSE x \in from .. from + LastStop : First(x)
    BY DEF AfterDowntime
  <1>7. PICK x : x = AfterDowntime(m, from, run)
    OBVIOUS
  <1>8. x \in from .. from + LastStop /\ First(x)
    BY <1>5, <1>6, <1>7
  <1>9. QED BY <1>1, <1>7, <1>8

\* Pieces of work take some time.
LEMMA Positive ==
  ASSUME NEW a \in Nat \ {0}, NEW c \in Nat \ {0}
  PROVE  a * c \in Nat \ {0}
  OBVIOUS

Block(u, n, m, from, run) == [unit |-> u, n |-> n, machine |-> m, start |-> from, finish |-> from + run]

\* Where and when an operation is placed.
PlacedAt(p, q, u, n, m, from, run) ==
  /\ m \in Lanes /\ from \in Nat /\ run \in Nat \ {0}
  /\ from >= p.free[m] + ChangeoverTo(p, m, u.item) /\ from >= ReleaseMinute(u)
  /\ n # 1 => from >= p.ready
  /\ Runs(m, from, run)
  /\ q = [load |-> q.load, last |-> q.last, free |-> q.free, previous |-> q.previous,
          ready |-> q.ready, blocks |-> q.blocks]
  /\ q.load \in [Lanes -> Nat]
  /\ q.last = [p.last EXCEPT ![m] = u.item]
  /\ q.free = [p.free EXCEPT ![m] = from + run]
  /\ q.previous \in [Resources -> [oid : Nat, item : Items \cup {NoItem}, machine : Nat]]
  /\ \A r \in Resources : q.previous[r].machine \in 1 .. Machines[r]
  /\ q.ready = from + run
  /\ q.blocks = p.blocks \cup {Block(u, n, m, from, run)}

\* Place in terms of the machine, the first minute and the time it takes.
LEMMA PlaceIs ==
  ASSUME StopsOK, NEW p, PassOK(p), NEW u \in RoutedUnit, NEW n \in 1 .. Len(Routes[u.item])
  PROVE  \E m, from, run : PlacedAt(p, Place(p, u, n), u, n, m, from, run)
  <1> DEFINE task == Routes[u.item][n]
             m == <<task.res, MachineFor(p, u, task.res)>>
             run == u.qty * task.work
             change == ChangeoverTo(p, m, u.item)
             from == AfterDowntime(m, Earliest(p, u, n, m), run)
             q == Place(p, u, n)
  <1>1. u.item \in Items /\ u.qty \in Nat \ {0} /\ u.oid \in Nat /\ ReleaseMinute(u) \in Nat
    BY UnitFields
  <1>2. task.res \in Resources /\ task.work \in Nat \ {0}
    <2>1. Routes[u.item] \in Seq([res : Resources, work : Nat \ {0}])
      BY <1>1, SchedulerAssumption
    <2>4. PICK w : w = Routes[u.item]
      OBVIOUS
    <2>5. w \in Seq([res : Resources, work : Nat \ {0}]) /\ n \in 1 .. Len(w)
      BY <2>1, <2>4
    <2>6. w[n] \in [res : Resources, work : Nat \ {0}]
      BY <2>5, ElementOf
    <2>2. task \in [res : Resources, work : Nat \ {0}]
      BY <2>4, <2>6
    <2>3. QED BY <2>2
  <1>3. MachineFor(p, u, task.res) \in 1 .. Machines[task.res]
    BY <1>2, MachineForOK
  <1>4. m \in Lanes /\ m[1] = task.res /\ m[2] = MachineFor(p, u, task.res)
    BY <1>2, <1>3, LaneIs
  <1>5. run \in Nat \ {0}
    BY <1>1, <1>2, Positive
  <1>6. change \in Nat
    BY <1>4, ChangeoverNat
  <1>7. p.load[m] \in Nat /\ p.free[m] \in Nat /\ p.ready \in Nat
    BY <1>4 DEF PassOK
  <1>8. /\ Earliest(p, u, n, m) \in Nat /\ Earliest(p, u, n, m) >= p.free[m] + change
        /\ Earliest(p, u, n, m) >= ReleaseMinute(u) /\ (n # 1 => Earliest(p, u, n, m) >= p.ready)
    <2> HIDE DEF m, change
    <2>1. change = ChangeoverTo(p, m, u.item)
      BY DEF change
    <2>2. QED BY <1>1, <1>6, <1>7, <2>1 DEF Earliest, Larger
  <1>9. from \in Nat /\ from >= Earliest(p, u, n, m) /\ Runs(m, from, run)
    <2> HIDE DEF m, run
    <2>1. run \in Nat
      BY <1>5
    <2>2. QED BY <1>8, <2>1, AfterDowntimeOK
  <1>10. q = [load |-> [p.load EXCEPT ![m] = @ + change + run],
              last |-> [p.last EXCEPT ![m] = u.item],
              free |-> [p.free EXCEPT ![m] = from + run],
              previous |-> [p.previous EXCEPT ![task.res] = [oid |-> u.oid, item |-> u.item, machine |-> m[2]]],
              ready |-> from + run,
              blocks |-> p.blocks \cup {[unit |-> u, n |-> n, machine |-> m,
                                         start |-> from, finish |-> from + run]}]
    BY DEF Place
  <1> HIDE DEF task, m, run, change, from, q
  <1>11. q.load = [p.load EXCEPT ![m] = p.load[m] + change + run] /\ q.load \in [Lanes -> Nat]
    <2>1. p.load \in [Lanes -> Nat]
      BY DEF PassOK
    <2>2. q.load = [p.load EXCEPT ![m] = p.load[m] + change + run]
      BY <1>10
    <2>3. p.load[m] + change + run \in Nat
      BY <1>5, <1>6, <1>7
    <2>4. QED BY <2>1, <2>2, <2>3, <1>4
  <1>12. /\ q.previous \in [Resources -> [oid : Nat, item : Items \cup {NoItem}, machine : Nat]]
         /\ \A r \in Resources : q.previous[r].machine \in 1 .. Machines[r]
    <2>1. p.previous \in [Resources -> [oid : Nat, item : Items \cup {NoItem}, machine : Nat]]
          /\ \A r \in Resources : p.previous[r].machine \in 1 .. Machines[r]
      BY DEF PassOK
    <2>2. PICK e : e = [oid |-> u.oid, item |-> u.item, machine |-> m[2]]
      OBVIOUS
    <2>3. e.machine \in 1 .. Machines[task.res] /\ e \in [oid : Nat, item : Items \cup {NoItem}, machine : Nat]
      BY <1>1, <1>3, <1>4, <2>2
    <2>4. q.previous = [p.previous EXCEPT ![task.res] = e]
      BY <1>10, <2>2
    <2>5. QED BY <1>2, <2>1, <2>3, <2>4
  <1>13. /\ q.last = [p.last EXCEPT ![m] = u.item] /\ q.free = [p.free EXCEPT ![m] = from + run]
         /\ q.ready = from + run
         /\ q.blocks = p.blocks \cup {Block(u, n, m, from, run)}
    BY <1>10 DEF Block
  <1>14. q = [load |-> q.load, last |-> q.last, free |-> q.free, previous |-> q.previous,
              ready |-> q.ready, blocks |-> q.blocks]
    BY <1>10
  <1>15. from >= p.free[m] + ChangeoverTo(p, m, u.item) /\ from >= ReleaseMinute(u) /\ (n # 1 => from >= p.ready)
    <2>1. change = ChangeoverTo(p, m, u.item)
      BY DEF change
    <2>2. QED BY <1>1, <1>6, <1>7, <1>8, <1>9, <2>1
  <1>16. PlacedAt(p, q, u, n, m, from, run)
    BY <1>4, <1>5, <1>9, <1>11, <1>12, <1>13, <1>14, <1>15 DEF PlacedAt
  <1>17. QED BY <1>16 DEF q

\* A pass stays one when an operation is placed after the ones before it.
LEMMA PlaceOK ==
  ASSUME StopsOK, NEW p, PassOK(p), NEW u \in RoutedUnit, NEW n \in 1 .. Len(Routes[u.item]), Upto(p, u, n)
  PROVE  LET q == Place(p, u, n)
         IN  /\ PassOK(q) /\ Upto(q, u, n + 1)
             /\ \E m, from, run : q.blocks = p.blocks \cup {Block(u, n, m, from, run)}
  <1>1. PICK q : q = Place(p, u, n)
    OBVIOUS
  <1>2. PICK m, from, run : PlacedAt(p, q, u, n, m, from, run)
    BY <1>1, PlaceIs
  <1>3. PICK new : new = Block(u, n, m, from, run)
    OBVIOUS
  <1>4. /\ new.unit = u /\ new.n = n /\ new.machine = m /\ new.start = from /\ new.finish = from + run
        /\ q.blocks = p.blocks \cup {new}
    BY <1>2, <1>3 DEF Block, PlacedAt
  <1>5. /\ m \in Lanes /\ from \in Nat /\ run \in Nat \ {0} /\ n \in Nat \ {0}
        /\ u.item \in Items /\ u.item # NoItem /\ u.item \in Items \cup {NoItem} /\ ReleaseMinute(u) \in Nat
    <2>1. u.item \in Items /\ ReleaseMinute(u) \in Nat /\ n \in Nat \ {0}
      BY UnitFields
    <2>2. QED BY <2>1, <1>2, SchedulerAssumption DEF PlacedAt
  <1>6. /\ p.free \in [Lanes -> Nat] /\ p.last \in [Lanes -> Items \cup {NoItem}] /\ p.ready \in Nat
        /\ IsFiniteSet(p.blocks)
    BY DEF PassOK
  <1>7. /\ q.last = [p.last EXCEPT ![m] = u.item] /\ q.free = [p.free EXCEPT ![m] = from + run]
        /\ q.ready = from + run
    BY <1>2 DEF PlacedAt
  <1>8. q.last \in [Lanes -> Items \cup {NoItem}] /\ q.free \in [Lanes -> Nat] /\ q.ready \in Nat
    <2>1. from + run \in Nat
      BY <1>5
    <2>2. QED BY <2>1, <1>5, <1>6, <1>7
  <1>9. p.free[m] \in Nat /\ Changeover[m[1]] \in Nat /\ ChangeoverTo(p, m, u.item) \in Nat
        /\ from >= p.free[m] + ChangeoverTo(p, m, u.item)
    BY <1>2, <1>5, <1>6, ChangeoverNat DEF PlacedAt
  \* What is on the machine has finished, and the machine is changed over.
  <1>10. ASSUME NEW b \in p.blocks, b.machine = m
         PROVE  b.finish + (IF b.unit.item = u.item THEN 0 ELSE Changeover[m[1]]) <= from
    <2>1. /\ b.finish \in Nat /\ b.finish <= p.free[m] /\ p.last[m] # NoItem
          /\ b.unit.item # p.last[m] => b.finish + Changeover[m[1]] <= p.free[m]
      BY <1>10 DEF PassOK, BlockOK
    <2>2. CASE b.unit.item = u.item
      BY <1>5, <1>9, <2>1, <2>2
    <2>3. CASE b.unit.item # u.item /\ b.unit.item # p.last[m]
      BY <1>5, <1>9, <2>1, <2>3
    <2>4. CASE b.unit.item # u.item /\ b.unit.item = p.last[m]
      <3>1. ChangeoverTo(p, m, u.item) = Changeover[m[1]]
        BY <2>1, <2>4 DEF ChangeoverTo
      <3>2. QED BY <1>5, <1>9, <2>1, <2>4, <3>1
    <2>5. QED BY <2>2, <2>3, <2>4
  <1>11. BlockOK(q, new)
    <2>1. new.finish - new.start = run
      BY <1>4, <1>5
    <2>2. q.free[m] = from + run /\ q.last[m] = u.item
      BY <1>5, <1>6, <1>7
    <2>3. Runs(m, from, run) /\ from >= ReleaseMinute(u)
      BY <1>2 DEF PlacedAt
    <2>4. from < from + run /\ from + run \in Nat /\ from + run <= from + run
      BY <1>5
    <2>5. QED BY <1>4, <1>5, <2>1, <2>2, <2>3, <2>4 DEF BlockOK
  <1>12. ASSUME NEW b \in p.blocks PROVE BlockOK(q, b)
    <2>1. BlockOK(p, b)
      BY DEF PassOK
    <2>2. CASE b.machine # m
      <3>1. b.machine \in Lanes
        BY <2>1 DEF BlockOK
      <3>2. q.free[b.machine] = p.free[b.machine] /\ q.last[b.machine] = p.last[b.machine]
        BY <1>5, <1>6, <1>7, <2>2, <3>1
      <3>3. QED BY <2>1, <3>2 DEF BlockOK
    <2>3. CASE b.machine = m
      <3>1. q.free[m] = from + run /\ q.last[m] = u.item
        BY <1>5, <1>6, <1>7
      <3>2. b.finish + (IF b.unit.item = u.item THEN 0 ELSE Changeover[m[1]]) <= from
        BY <1>10, <2>3
      <3>3. b.finish \in Nat
        BY <2>1 DEF BlockOK
      <3>4. b.finish <= from + run /\ (b.unit.item # u.item => b.finish + Changeover[m[1]] <= from + run)
        BY <1>5, <1>9, <3>2, <3>3
      <3>5. QED BY <2>1, <2>3, <1>5, <3>1, <3>4 DEF BlockOK
    <2>4. QED BY <2>2, <2>3
  <1>13. ASSUME NEW b \in p.blocks, b.machine = new.machine PROVE Before(b, new)
    BY <1>4, <1>10, <1>13 DEF Before
  <1>14. \A b, c \in q.blocks : b.machine = c.machine /\ b # c => Before(b, c) \/ Before(c, b)
    <2>1. \A b, c \in p.blocks : b.machine = c.machine /\ b # c => Before(b, c) \/ Before(c, b)
      BY DEF PassOK
    <2>2. QED BY <1>4, <1>13, <2>1
  <1>15. ASSUME NEW b \in p.blocks, b.unit.id = u.id PROVE b.n < n /\ b.finish <= from
    <2>1. b.n < n /\ b.finish <= p.ready /\ b.n \in Nat \ {0} /\ b.finish \in Nat
      BY <1>15 DEF Upto, PassOK, BlockOK
    <2>2. from >= p.ready
      BY <1>2, <1>5, <2>1 DEF PlacedAt
    <2>3. QED BY <1>5, <1>6, <2>1, <2>2
  <1>16. \A b, c \in q.blocks : b.unit.id = c.unit.id /\ b.n < c.n => b.finish <= c.start
    <2>1. \A b, c \in p.blocks : b.unit.id = c.unit.id /\ b.n < c.n => b.finish <= c.start
      BY DEF PassOK
    <2>2. ASSUME NEW b \in p.blocks, b.unit.id = new.unit.id PROVE b.finish <= new.start /\ ~(new.n < b.n)
      <3>1. b.n \in Nat
        BY DEF PassOK, BlockOK
      <3>2. b.n < n /\ b.finish <= from
        BY <1>4, <1>15, <2>2
      <3>3. QED BY <1>4, <1>5, <3>1, <3>2
    <2>3. ~(new.n < new.n)
      BY <1>4, <1>5
    <2>4. QED BY <1>4, <2>1, <2>2, <2>3
  <1>17. IsFiniteSet(q.blocks)
    <2>1. IsFiniteSet(p.blocks)
      BY <1>6
    <2>2. IsFiniteSet(p.blocks \cup {new})
      BY <2>1, FS_AddElement
    <2>3. QED BY <1>4, <2>2
  <1>18. PassOK(q)
    <2>1. \A b \in q.blocks : BlockOK(q, b)
      BY <1>4, <1>11, <1>12
    <2>2. QED BY <1>2, <1>8, <1>14, <1>16, <1>17, <2>1 DEF PassOK, PlacedAt
  <1>19. Upto(q, u, n + 1)
    <2>1. ASSUME NEW b \in p.blocks, b.unit.id = u.id PROVE b.n < n + 1 /\ b.finish <= q.ready
      <3>1. b.n \in Nat /\ b.finish \in Nat
        BY DEF PassOK, BlockOK
      <3>2. QED BY <1>5, <1>7, <1>15, <2>1, <3>1
    <2>2. new.n < n + 1 /\ new.finish <= q.ready
      BY <1>4, <1>5, <1>7
    <2>3. QED BY <1>4, <2>1, <2>2 DEF Upto
  <1>20. QED BY <1>1, <1>3, <1>4, <1>18, <1>19

-----------------------------------------------------------------------------
(* Whole units, and whole orders of work.                                  *)

PlacedUpTo(f, p, u, n) == f = [k \in 0 .. n |-> IF k = 0 THEN p ELSE Place(f[k - 1], u, k)]

\* The recursive function of Placings exists up to any operation.
LEMMA PlacingsExist ==
  ASSUME NEW p, NEW u, NEW n \in Nat
  PROVE  \E f : PlacedUpTo(f, p, u, n)
  <1> DEFINE S == {m \in Nat : \E f : PlacedUpTo(f, p, u, m)}
  <1>1. 0 \in S
    <2>1. PlacedUpTo([k \in 0 .. 0 |-> p], p, u, 0)
      BY DEF PlacedUpTo
    <2>2. QED BY <2>1
  <1>2. ASSUME NEW m \in 1 .. n, m - 1 \in S PROVE m \in S
    <2>1. PICK g : PlacedUpTo(g, p, u, m - 1)
      BY <1>2
    <2> DEFINE h == [k \in 0 .. m |-> IF k = m THEN Place(g[m - 1], u, m) ELSE g[k]]
    <2>2. ASSUME NEW k \in 0 .. m PROVE h[k] = IF k = 0 THEN p ELSE Place(h[k - 1], u, k)
      <3>1. CASE k = m
        <4>1. h[k] = Place(g[m - 1], u, m)
          BY <3>1
        <4>2. h[m - 1] = g[m - 1] /\ k # 0
          BY <3>1
        <4>3. QED BY <3>1, <4>1, <4>2
      <3>2. CASE k # m
        <4>1. k \in 0 .. m - 1 /\ h[k] = g[k] /\ (k # 0 => h[k - 1] = g[k - 1])
          BY <3>2
        <4>2. g[k] = IF k = 0 THEN p ELSE Place(g[k - 1], u, k)
          BY <2>1, <4>1 DEF PlacedUpTo
        <4>3. QED BY <4>1, <4>2
      <3>3. QED BY <3>1, <3>2
    <2>3. h = [k \in 0 .. m |-> h[k]]
      OBVIOUS
    <2> HIDE DEF h
    <2>4. PlacedUpTo(h, p, u, m)
      BY <2>2, <2>3 DEF PlacedUpTo
    <2>5. QED BY <2>4
  <1> HIDE DEF S
  <1>3. n \in S
    BY <1>1, <1>2, UpTo
  <1>4. QED BY <1>3 DEF S

\* Placings follows its recursion.
LEMMA PlacingsAre ==
  ASSUME NEW p, NEW u \in RoutedUnit
  PROVE  /\ Placings(p, u)[0] = p
         /\ \A n \in 1 .. Len(Routes[u.item]) : Placings(p, u)[n] = Place(Placings(p, u)[n - 1], u, n)
  <1> DEFINE placed[n \in 0 .. Len(Routes[u.item])] == IF n = 0 THEN p ELSE Place(placed[n - 1], u, n)
  <1>1. Placings(p, u) = placed
    BY DEF Placings
  <1>2. Len(Routes[u.item]) \in Nat
    BY UnitFields
  <1>3. PlacedUpTo(placed, p, u, Len(Routes[u.item]))
    <2>1. \E f : PlacedUpTo(f, p, u, Len(Routes[u.item]))
      BY <1>2, PlacingsExist
    <2>2. QED BY <2>1 DEF PlacedUpTo, placed
  <1>4. PICK f : f = placed
    OBVIOUS
  <1> HIDE DEF placed
  <1>5. f[0] = p
    BY <1>2, <1>3, <1>4 DEF PlacedUpTo
  <1>6. ASSUME NEW n \in 1 .. Len(Routes[u.item]) PROVE f[n] = Place(f[n - 1], u, n)
    <2>1. n \in 0 .. Len(Routes[u.item]) /\ n # 0
      BY <1>2
    <2>2. QED BY <1>3, <1>4, <2>1 DEF PlacedUpTo
  <1>7. QED BY <1>1, <1>4, <1>5, <1>6

PassedUpTo(f, units, n) == f = [k \in 0 .. n |-> IF k = 0 THEN EmptyPass ELSE PlaceUnit(f[k - 1], units[k])]

\* The recursive function of Passes exists up to any unit.
LEMMA PassesExist ==
  ASSUME NEW units, NEW n \in Nat
  PROVE  \E f : PassedUpTo(f, units, n)
  <1> DEFINE S == {m \in Nat : \E f : PassedUpTo(f, units, m)}
  <1>1. 0 \in S
    <2>1. PassedUpTo([k \in 0 .. 0 |-> EmptyPass], units, 0)
      BY DEF PassedUpTo
    <2>2. QED BY <2>1
  <1>2. ASSUME NEW m \in 1 .. n, m - 1 \in S PROVE m \in S
    <2>1. PICK g : PassedUpTo(g, units, m - 1)
      BY <1>2
    <2> DEFINE h == [k \in 0 .. m |-> IF k = m THEN PlaceUnit(g[m - 1], units[m]) ELSE g[k]]
    <2>2. ASSUME NEW k \in 0 .. m PROVE h[k] = IF k = 0 THEN EmptyPass ELSE PlaceUnit(h[k - 1], units[k])
      <3>1. CASE k = m
        <4>1. h[k] = PlaceUnit(g[m - 1], units[m])
          BY <3>1
        <4>2. h[m - 1] = g[m - 1] /\ k # 0
          BY <3>1
        <4>3. QED BY <3>1, <4>1, <4>2
      <3>2. CASE k # m
        <4>1. k \in 0 .. m - 1 /\ h[k] = g[k] /\ (k # 0 => h[k - 1] = g[k - 1])
          BY <3>2
        <4>2. g[k] = IF k = 0 THEN EmptyPass ELSE PlaceUnit(g[k - 1], units[k])
          BY <2>1, <4>1 DEF PassedUpTo
        <4>3. QED BY <4>1, <4>2
      <3>3. QED BY <3>1, <3>2
    <2>3. h = [k \in 0 .. m |-> h[k]]
      OBVIOUS
    <2> HIDE DEF h
    <2>4. PassedUpTo(h, units, m)
      BY <2>2, <2>3 DEF PassedUpTo
    <2>5. QED BY <2>4
  <1> HIDE DEF S
  <1>3. n \in S
    BY <1>1, <1>2, UpTo
  <1>4. QED BY <1>3 DEF S

\* Passes follows its recursion.
LEMMA PassesAre ==
  ASSUME NEW units \in Seq(RoutedUnit)
  PROVE  /\ Passes(units)[0] = EmptyPass
         /\ \A i \in 1 .. Len(units) : Passes(units)[i] = PlaceUnit(Passes(units)[i - 1], units[i])
  <1> DEFINE placed[i \in 0 .. Len(units)] == IF i = 0 THEN EmptyPass ELSE PlaceUnit(placed[i - 1], units[i])
  <1>1. Passes(units) = placed
    BY DEF Passes
  <1>2. Len(units) \in Nat
    OBVIOUS
  <1>3. PassedUpTo(placed, units, Len(units))
    <2>1. \E f : PassedUpTo(f, units, Len(units))
      BY <1>2, PassesExist
    <2>2. QED BY <2>1 DEF PassedUpTo, placed
  <1>4. PICK f : f = placed
    OBVIOUS
  <1> HIDE DEF placed
  <1>5. f[0] = EmptyPass
    BY <1>2, <1>3, <1>4 DEF PassedUpTo
  <1>6. ASSUME NEW n \in 1 .. Len(units) PROVE f[n] = PlaceUnit(f[n - 1], units[n])
    <2>1. n \in 0 .. Len(units) /\ n # 0
      BY <1>2
    <2>2. QED BY <1>3, <1>4, <2>1 DEF PassedUpTo
  <1>7. QED BY <1>1, <1>4, <1>5, <1>6

\* Operations of u are added one by one, and nothing is taken away.
Grown(p, q, u) == p.blocks \subseteq q.blocks /\ \A b \in q.blocks : b \in p.blocks \/ b.unit = u

\* The operations of a unit that is not placed yet can be placed, one by one.
LEMMA PlacingsOK ==
  ASSUME StopsOK, NEW p, PassOK(p), NEW u \in RoutedUnit, Upto(p, u, 1)
  PROVE  \A n \in 0 .. Len(Routes[u.item]) :
           LET q == Placings(p, u)[n]
           IN  /\ PassOK(q) /\ Upto(q, u, n + 1) /\ Grown(p, q, u)
               /\ n > 0 => \E b \in q.blocks : b.unit = u
  <1>1. PICK f : f = Placings(p, u)
    OBVIOUS
  <1>2. PICK N \in Nat : N = Len(Routes[u.item])
    BY UnitFields
  <1>3. f[0] = p /\ \A n \in 1 .. N : f[n] = Place(f[n - 1], u, n)
    BY <1>1, <1>2, PlacingsAre
  <1> DEFINE Good(n) == /\ PassOK(f[n]) /\ Upto(f[n], u, n + 1) /\ Grown(p, f[n], u)
                        /\ n > 0 => \E b \in f[n].blocks : b.unit = u
             S == {n \in 0 .. N : Good(n)}
  <1>4. 0 \in S
    <2>1. 0 + 1 = 1 /\ ~(0 > 0) /\ 0 \in 0 .. N
      BY <1>2
    <2>2. Grown(p, f[0], u)
      BY <1>3 DEF Grown
    <2>3. PassOK(f[0]) /\ Upto(f[0], u, 0 + 1)
      BY <1>3, <2>1
    <2>4. QED BY <2>1, <2>2, <2>3
  <1>5. ASSUME NEW n \in 1 .. N, n - 1 \in S PROVE n \in S
    <2>1. PICK g : g = f[n - 1]
      OBVIOUS
    <2>2. PassOK(g) /\ Upto(g, u, n) /\ Grown(p, g, u)
      <3>1. (n - 1) + 1 = n
        BY <1>5
      <3>2. QED BY <1>5, <2>1, <3>1
    <2>3. PICK q : q = Place(g, u, n)
      OBVIOUS
    <2>4. n \in 1 .. Len(Routes[u.item])
      BY <1>2
    <2>5. PassOK(q) /\ Upto(q, u, n + 1) /\ \E m, from, run : q.blocks = g.blocks \cup {Block(u, n, m, from, run)}
      BY <2>2, <2>3, <2>4, PlaceOK, SMTT(30)
    <2>6. PICK new : new.unit = u /\ q.blocks = g.blocks \cup {new}
      BY <2>5 DEF Block
    <2>7. Grown(p, q, u) /\ \E b \in q.blocks : b.unit = u
      BY <2>2, <2>6 DEF Grown
    <2>8. f[n] = q
      BY <1>3, <2>1, <2>3
    <2>9. n \in 0 .. N
      OBVIOUS
    <2>10. QED BY <2>5, <2>7, <2>8, <2>9
  <1>6. \A n \in 0 .. N : n \in S
    <2> HIDE DEF S
    <2>1. QED BY <1>4, <1>5, UpTo
  <1>7. QED BY <1>1, <1>2, <1>6

\* A whole unit is placed.
LEMMA PlaceUnitOK ==
  ASSUME StopsOK, NEW p, PassOK(p), NEW u \in RoutedUnit, Upto(p, u, 1)
  PROVE  LET q == PlaceUnit(p, u)
         IN  PassOK(q) /\ Grown(p, q, u) /\ \E b \in q.blocks : b.unit = u
  <1>1. Len(Routes[u.item]) \in 0 .. Len(Routes[u.item]) /\ Len(Routes[u.item]) > 0
    BY UnitFields
  <1>2. QED BY <1>1, PlacingsOK DEF PlaceUnit

\* The machines after the first units of an order of work hold these.
LEMMA PassesOK ==
  ASSUME StopsOK, NEW units, Listed(units)
  PROVE  \A i \in 0 .. Len(units) :
           LET p == Passes(units)[i]
           IN  /\ PassOK(p)
               /\ \A b \in p.blocks : \E k \in 1 .. i : b.unit = units[k]
               /\ \A k \in 1 .. i : \E b \in p.blocks : b.unit = units[k]
               /\ \A k \in 0 .. i : Passes(units)[k].blocks \subseteq p.blocks
  <1>1. PICK f : f = Passes(units)
    OBVIOUS
  <1>2. units \in Seq(RoutedUnit) /\ Len(units) \in Nat /\ \A k, l \in 1 .. Len(units) : units[k].id = units[l].id => k = l
    BY DEF Listed
  <1>3. PICK N \in Nat : N = Len(units)
    BY <1>2
  <1>4. f[0] = EmptyPass /\ \A i \in 1 .. N : f[i] = PlaceUnit(f[i - 1], units[i])
    BY <1>1, <1>2, <1>3, PassesAre
  <1> DEFINE Good(i) == /\ PassOK(f[i])
                        /\ \A b \in f[i].blocks : \E k \in 1 .. i : b.unit = units[k]
                        /\ \A k \in 1 .. i : \E b \in f[i].blocks : b.unit = units[k]
                        /\ \A k \in 0 .. i : f[k].blocks \subseteq f[i].blocks
             S == {i \in 0 .. N : Good(i)}
  <1>5. 0 \in S
    <2>1. PassOK(f[0]) /\ f[0].blocks = {}
      BY <1>4, EmptyPassOK DEF EmptyPass
    <2>2. \A k \in 0 .. 0 : f[k].blocks \subseteq f[0].blocks
      OBVIOUS
    <2>3. 1 .. 0 = {} /\ 0 \in 0 .. N
      OBVIOUS
    <2>4. QED BY <2>1, <2>2, <2>3
  <1>6. ASSUME NEW i \in 1 .. N, i - 1 \in S PROVE i \in S
    <2>1. PICK p : p = f[i - 1]
      OBVIOUS
    <2>2. PICK u \in RoutedUnit : u = units[i]
      BY <1>2, <1>3
    <2>3. /\ PassOK(p) /\ \A b \in p.blocks : \E k \in 1 .. i - 1 : b.unit = units[k]
          /\ \A k \in 1 .. i - 1 : \E b \in p.blocks : b.unit = units[k]
          /\ \A k \in 0 .. i - 1 : f[k].blocks \subseteq p.blocks
      BY <1>6, <2>1
    <2>4. Upto(p, u, 1)
      <3> SUFFICES ASSUME NEW b \in p.blocks, b.unit.id = u.id PROVE FALSE
        BY DEF Upto
      <3>1. PICK k \in 1 .. i - 1 : b.unit = units[k]
        BY <2>3
      <3>2. k \in 1 .. Len(units) /\ i \in 1 .. Len(units) /\ k # i
        BY <1>3, <3>1
      <3>3. QED BY <1>2, <2>2, <3>1, <3>2
    <2>5. PICK q : q = PlaceUnit(p, u)
      OBVIOUS
    <2>6. PassOK(q) /\ Grown(p, q, u) /\ \E b \in q.blocks : b.unit = u
      BY <2>3, <2>4, <2>5, PlaceUnitOK
    <2>7. f[i] = q
      BY <1>4, <2>1, <2>2, <2>5
    <2>8. \A b \in q.blocks : \E k \in 1 .. i : b.unit = units[k]
      <3> SUFFICES ASSUME NEW b \in q.blocks PROVE \E k \in 1 .. i : b.unit = units[k]
        OBVIOUS
      <3>1. CASE b \in p.blocks
        <4>1. PICK k \in 1 .. i - 1 : b.unit = units[k]
          BY <2>3, <3>1
        <4>2. k \in 1 .. i
          OBVIOUS
        <4>3. QED BY <4>1, <4>2
      <3>2. CASE b.unit = u
        <4>1. i \in 1 .. i
          OBVIOUS
        <4>2. QED BY <2>2, <3>2, <4>1
      <3>3. QED BY <2>6, <3>1, <3>2 DEF Grown
    <2>9. \A k \in 1 .. i : \E b \in q.blocks : b.unit = units[k]
      <3>1. \A k \in 1 .. i : k = i \/ k \in 1 .. i - 1
        OBVIOUS
      <3>2. QED BY <2>2, <2>3, <2>6, <3>1 DEF Grown
    <2>10. \A k \in 0 .. i : f[k].blocks \subseteq q.blocks
      <3>1. \A k \in 0 .. i : k = i \/ k \in 0 .. i - 1
        OBVIOUS
      <3>2. QED BY <2>3, <2>6, <2>7, <3>1 DEF Grown
    <2>11. i \in 0 .. N
      OBVIOUS
    <2>12. QED BY <2>6, <2>7, <2>8, <2>9, <2>10, <2>11
  <1>7. \A i \in 0 .. N : i \in S
    <2> HIDE DEF S
    <2>1. QED BY <1>5, <1>6, UpTo
  <1>8. QED BY <1>1, <1>3, <1>7

-----------------------------------------------------------------------------
(* Ship days, and what HurtsNobody promises.                               *)

\* Two sequences without a unit in common, one after the other.
LEMMA JoinedListed ==
  ASSUME NEW s, NEW t, Listed(s), Listed(t), Ids(s) \cap Ids(t) = {}
  PROVE  /\ Listed(s \o t) /\ Ids(s \o t) = Ids(s) \cup Ids(t) /\ Range(s \o t) = Range(s) \cup Range(t)
         /\ Len(s \o t) = Len(s) + Len(t)
         /\ \A k \in 1 .. Len(s) : (s \o t)[k] = s[k]
         /\ \A k \in Len(s) + 1 .. Len(s) + Len(t) : (s \o t)[k] = t[k - Len(s)]
  <1>1. s \in Seq(RoutedUnit) /\ t \in Seq(RoutedUnit)
    BY DEF Listed
  <1>2. PICK r \in Seq(RoutedUnit) : r = s \o t
    BY <1>1, Joined
  <1>3. PICK a \in Nat : a = Len(s)
    BY <1>1
  <1>4. PICK c \in Nat : c = Len(t)
    BY <1>1
  <1>5. Len(r) = a + c /\ \A k \in 1 .. a : r[k] = s[k]
    BY <1>1, <1>2, <1>3, <1>4, Joined
  <1>6. \A k \in a + 1 .. a + c : r[k] = t[k - a]
    BY <1>1, <1>2, <1>3, <1>4, Joined
  <1>7. DOMAIN r = 1 .. a + c /\ DOMAIN s = 1 .. a /\ DOMAIN t = 1 .. c
    BY <1>1, <1>3, <1>4, <1>5
  <1>8. \A k \in DOMAIN r : \/ k \in DOMAIN s /\ r[k] = s[k]
                            \/ k > a /\ k - a \in DOMAIN t /\ r[k] = t[k - a]
    BY <1>5, <1>6, <1>7
  <1>9. \A k \in DOMAIN s : k \in DOMAIN r /\ r[k] = s[k]
    BY <1>5, <1>7
  <1>10. \A k \in DOMAIN t : k + a \in DOMAIN r /\ r[k + a] = t[k]
    BY <1>6, <1>7
  <1>11. \A k \in DOMAIN s, l \in DOMAIN t : s[k].id # t[l].id
    BY DEF Ids
  <1>12. ASSUME NEW k \in DOMAIN r, NEW l \in DOMAIN r, r[k].id = r[l].id PROVE k = l
    <2>1. (\A m, n \in DOMAIN s : s[m].id = s[n].id => m = n) /\ (\A m, n \in DOMAIN t : t[m].id = t[n].id => m = n)
      BY DEF Listed
    <2>2. k \in Nat /\ l \in Nat
      BY <1>7
    <2>3. CASE k \in DOMAIN s /\ r[k] = s[k]
      BY <1>8, <1>11, <1>12, <2>1, <2>3
    <2>4. CASE k > a /\ k - a \in DOMAIN t /\ r[k] = t[k - a]
      BY <1>3, <1>8, <1>11, <1>12, <2>1, <2>2, <2>4
    <2>5. QED BY <1>8, <2>3, <2>4
  <1>13. Listed(r)
    BY <1>12 DEF Listed
  <1>14. Ids(r) = Ids(s) \cup Ids(t)
    <2>1. Ids(r) \subseteq Ids(s) \cup Ids(t)
      BY <1>8 DEF Ids
    <2>2. Ids(s) \subseteq Ids(r) /\ Ids(t) \subseteq Ids(r)
      BY <1>9, <1>10 DEF Ids
    <2>3. QED BY <2>1, <2>2
  <1>15. Range(r) = Range(s) \cup Range(t)
    <2>1. Range(r) \subseteq Range(s) \cup Range(t)
      BY <1>8 DEF Range
    <2>2. Range(s) \subseteq Range(r) /\ Range(t) \subseteq Range(r)
      BY <1>9, <1>10 DEF Range
    <2>3. QED BY <2>1, <2>2
  <1>16. QED BY <1>2, <1>3, <1>4, <1>5, <1>6, <1>13, <1>14, <1>15

\* A day is known for every unit that is placed.
LEMMA ShipDayNat ==
  ASSUME StopsOK, NEW units, Listed(units), NEW u \in Range(units)
  PROVE  ShipDay(ForwardPass(units), u.id) \in Nat
  <1>1. PICK p : p = ForwardPass(units)
    OBVIOUS
  <1>2. PICK k \in 1 .. Len(units) : u = units[k]
    BY DEF Range, Listed
  <1>3. Len(units) \in 0 .. Len(units)
    BY DEF Listed
  <1>4. PassOK(p) /\ \E b \in p.blocks : b.unit = u
    BY <1>1, <1>2, <1>3, PassesOK DEF ForwardPass
  <1> DEFINE Own == {x \in p.blocks : x.unit.id = u.id}
             Up(b) == {x \in Own : x.finish >= b.finish}
             B == {Up(b) : b \in Own}
  <1>5. PICK D : B \in SUBSET (SUBSET D) /\ B # {} /\ IsFiniteSet(D)
    <2>1. IsFiniteSet(p.blocks)
      BY <1>4 DEF PassOK
    <2>2. B \in SUBSET (SUBSET p.blocks) /\ B # {}
      <3>1. Own # {} /\ \A b \in Own : Up(b) \subseteq p.blocks
        BY <1>4
      <3> HIDE DEF Own, Up
      <3>2. QED BY <3>1
    <2> HIDE DEF B
    <2>3. QED BY <2>1, <2>2
  <1>6. PICK T \in B : \A U \in B : U \subseteq T => U = T
    <2> HIDE DEF B
    <2>1. QED BY <1>5, SmallestSet
  <1>7. PICK b \in Own : T = Up(b)
    OBVIOUS
  <1>8. \A x \in Own : x.finish \in Nat
    BY <1>4 DEF PassOK, BlockOK
  <1>9. ASSUME NEW y \in Own, ~(y.finish <= b.finish) PROVE FALSE
    <2>1. y.finish \in Nat /\ b.finish \in Nat /\ y.finish >= y.finish /\ y.finish >= b.finish
      BY <1>8, <1>9
    <2>2. Up(y) \subseteq Up(b)
      BY <1>8, <2>1
    <2>3. b \in Up(b) /\ b \notin Up(y)
      BY <1>9, <2>1
    <2>4. Up(y) \in B
      OBVIOUS
    <2> HIDE DEF Up, B, Own
    <2>5. QED BY <1>6, <1>7, <2>2, <2>3, <2>4
  <1>10. \E f \in {x.finish : x \in Own} : \A x \in p.blocks : x.unit.id = u.id => x.finish <= f
    BY <1>9
  <1>11. PICK f : f = CHOOSE g \in {x.finish : x \in Own} : \A x \in p.blocks : x.unit.id = u.id => x.finish <= g
    OBVIOUS
  <1>12. f \in Nat
    BY <1>8, <1>10, <1>11
  <1>13. ShipDay(p, u.id) = Larger(1, (f + DayMinutes - 1) \div DayMinutes)
    BY <1>11 DEF ShipDay
  <1>14. (f + DayMinutes - 1) \div DayMinutes \in Int
    BY <1>12, SchedulerAssumption
  <1>15. QED BY <1>1, <1>13, <1>14 DEF Larger

\* HurtsNobody is about units and not about their order.
LEMMA HurtsNobodyIs ==
  ASSUME NEW p, NEW q, NEW units, Listed(units)
  PROVE  HurtsNobody(p, q, units) <=>
           \A u \in Range(units) : ShipDay(q, u.id) > u.prom => ShipDay(q, u.id) <= ShipDay(p, u.id)
  BY DEF HurtsNobody, Range

\* An order of work hurts nobody against itself.
LEMMA HurtsNobodyItself ==
  ASSUME StopsOK, NEW s, Listed(s)
  PROVE  HurtsNobody(ForwardPass(s), ForwardPass(s), s)
  <1>1. \A u \in Range(s) : ShipDay(ForwardPass(s), u.id) \in Nat
    BY ShipDayNat
  <1>2. QED BY <1>1, HurtsNobodyIs

\* Two orders of work that hurt nobody, one after the other, hurt nobody: a unit in
\* time after the first may finish later after the second, but in time.
LEMMA HurtsNobodyTwice ==
  ASSUME StopsOK, NEW s, NEW t, NEW r, Listed(s), Listed(t), Listed(r), Range(s) = Range(t), Range(t) = Range(r),
         HurtsNobody(ForwardPass(s), ForwardPass(t), t), HurtsNobody(ForwardPass(t), ForwardPass(r), t)
  PROVE  HurtsNobody(ForwardPass(s), ForwardPass(r), r)
  <1>1. ASSUME NEW u \in Range(r), ShipDay(ForwardPass(r), u.id) > u.prom
        PROVE  ShipDay(ForwardPass(r), u.id) <= ShipDay(ForwardPass(s), u.id)
    <2>1. /\ ShipDay(ForwardPass(s), u.id) \in Nat /\ ShipDay(ForwardPass(t), u.id) \in Nat
          /\ ShipDay(ForwardPass(r), u.id) \in Nat
      BY ShipDayNat
    <2>2. u.prom \in Nat
      <3>1. u \in RoutedUnit
        BY DEF Range, Listed
      <3>2. QED BY <3>1, UnitFields
    <2>3. ShipDay(ForwardPass(r), u.id) <= ShipDay(ForwardPass(t), u.id)
      BY <1>1, HurtsNobodyIs
    <2>4. ShipDay(ForwardPass(t), u.id) > u.prom
      BY <1>1, <2>1, <2>2, <2>3
    <2>5. ShipDay(ForwardPass(t), u.id) <= ShipDay(ForwardPass(s), u.id)
      BY <2>4, HurtsNobodyIs
    <2>6. QED BY <2>1, <2>3, <2>5
  <1>2. QED BY <1>1, HurtsNobodyIs

-----------------------------------------------------------------------------
(* Sorted: the elements of a set, each once.                               *)

\* Nothing comes before itself.
LEMMA NotBeforeItself == \A u \in RoutedUnit : ~ByDue(u, u) /\ ~ByRelease(u, u)
  <1> SUFFICES ASSUME NEW u \in RoutedUnit PROVE ~ByDue(u, u) /\ ~ByRelease(u, u)
    OBVIOUS
  <1>1. u.due \in Nat /\ u.released \in Nat /\ u.id \in Nat
    BY UnitFields
  <1>2. QED BY <1>1 DEF ByDue, ByRelease

\* By due date every unit is listed once.
LEMMA DueOrder ==
  ASSUME NEW S, S \subseteq RoutedUnit, NEW s, s \in Sorted(S, ByDue)
  PROVE  s \in [1 .. Cardinality(S) -> S] /\ \A i, j \in 1 .. Cardinality(S) : i < j => s[i] # s[j]
  <1>1. s \in [1 .. Cardinality(S) -> S] /\ \A i, j \in 1 .. Cardinality(S) : i < j => ByDue(s[i], s[j])
    BY Zenon DEF Sorted
  <1>2. \A u \in S : ~ByDue(u, u)
    BY NotBeforeItself, Zenon
  <1>3. QED BY <1>1, <1>2, Zenon

\* By release every unit is listed once.
LEMMA ReleaseOrder ==
  ASSUME NEW S, S \subseteq RoutedUnit, NEW s, s \in Sorted(S, ByRelease)
  PROVE  s \in [1 .. Cardinality(S) -> S] /\ \A i, j \in 1 .. Cardinality(S) : i < j => s[i] # s[j]
  <1>1. s \in [1 .. Cardinality(S) -> S] /\ \A i, j \in 1 .. Cardinality(S) : i < j => ByRelease(s[i], s[j])
    BY Zenon DEF Sorted
  <1>2. \A u \in S : ~ByRelease(u, u)
    BY NotBeforeItself, Zenon
  <1>3. QED BY <1>1, <1>2, Zenon

\* In a planner's list nothing comes before itself.
LEMMA OrderOfItself ==
  ASSUME NEW ids \in Seq(Nat), NEW u \in RoutedUnit, In(ids, u)
  PROVE  ~InOrderOf(ids, u, u)
  <1>1. (CHOOSE i \in DOMAIN ids : ids[i] = u.oid) \in DOMAIN ids
    BY DEF In
  <1>2. (CHOOSE i \in DOMAIN ids : ids[i] = u.oid) \in Nat
    BY <1>1
  <1>3. u.lot \in Nat
    BY UnitFields
  <1>4. QED BY <1>2, <1>3 DEF InOrderOf

\* What is listed once and comes from a finite set with ids of their own.
LEMMA EachOnce ==
  ASSUME NEW S, IsFiniteSet(S), S \subseteq RoutedUnit, \A u, v \in S : u.id = v.id => u = v,
         NEW s \in [1 .. Cardinality(S) -> S], \A i, j \in 1 .. Cardinality(S) : i < j => s[i] # s[j]
  PROVE  Listed(s) /\ \A i \in DOMAIN s : s[i] \in S
  <1>1. Cardinality(S) \in Nat
    BY FS_CardinalityType
  <1>2. s \in Seq(RoutedUnit) /\ DOMAIN s = 1 .. Cardinality(S) /\ \A i \in DOMAIN s : s[i] \in S
    BY <1>1
  <1>3. ASSUME NEW i \in DOMAIN s, NEW j \in DOMAIN s, s[i].id = s[j].id PROVE i = j
    <2>1. s[i] = s[j]
      BY <1>2, <1>3
    <2>2. ~(i < j) /\ ~(j < i) /\ i \in Int /\ j \in Int
      BY <1>2, <2>1
    <2>3. QED BY <2>2
  <1>4. QED BY <1>2, <1>3 DEF Listed

-----------------------------------------------------------------------------
(* Parts of the book, and steps on the order of work.                      *)

Rest == Routed \ Running
Listing == {u \in Rest : In(manual, u)}
Mine == {u \in Rest : ~u.alone /\ ~u.rush}

\* Units of a set, each once.
From(s, S) == Listed(s) /\ \A i \in DOMAIN s : s[i] \in S

\* A cut is inside the sequence, or at its end.
LEMMA CutIsInside ==
  ASSUME NEW s, Listed(s), NEW hits, hits \subseteq DOMAIN s
  PROVE  CutBefore(s, hits) \in 1 .. Len(s) + 1
  <1>1. DOMAIN s = 1 .. Len(s) /\ Len(s) \in Nat
    BY DEF Listed
  <1>2. CASE hits = {}
    BY <1>1, <1>2 DEF CutBefore
  <1>3. CASE hits # {}
    <2>1. hits \subseteq Nat
      BY <1>1
    <2>2. \E m \in hits : \A y \in hits : m <= y
      BY <1>3, <2>1, LeastNumber
    <2>3. Min(hits) \in hits
      BY <2>2 DEF Min
    <2>4. QED BY <1>1, <1>3, <2>3 DEF CutBefore
  <1>4. QED BY <1>2, <1>3

\* One unit alone.
LEMMA OneListed ==
  ASSUME NEW u \in RoutedUnit
  PROVE  Listed(<<u>>) /\ Ids(<<u>>) = {u.id} /\ DOMAIN <<u>> = {1} /\ <<u>>[1] = u
  BY DEF Listed, Ids

\* The elements of a sequence without its first.
LEMMA TailIs ==
  ASSUME NEW X, NEW s \in Seq(X), s # <<>>
  PROVE  Tail(s) \in Seq(X) /\ Len(Tail(s)) = Len(s) - 1 /\ \A i \in 1 .. Len(s) - 1 : Tail(s)[i] = s[i + 1]
  OBVIOUS

\* The units that are left when the first is taken.
LEMMA TailListed ==
  ASSUME NEW s, Listed(s), s # <<>>
  PROVE  /\ Head(s) \in RoutedUnit /\ Head(s) = s[1] /\ 1 \in DOMAIN s /\ Listed(Tail(s)) /\ Ids(Tail(s)) = Ids(s) \ {Head(s).id}
         /\ Len(Tail(s)) = Len(s) - 1 /\ \A i \in DOMAIN Tail(s) : i + 1 \in DOMAIN s /\ Tail(s)[i] = s[i + 1]
  <1>1. s \in Seq(RoutedUnit) /\ Len(s) \in Nat \ {0} /\ DOMAIN s = 1 .. Len(s)
    BY DEF Listed
  <1>2. Head(s) = s[1] /\ 1 \in DOMAIN s /\ s[1] \in RoutedUnit
    BY <1>1
  <1>3. PICK t \in Seq(RoutedUnit) : t = Tail(s) /\ Len(t) = Len(s) - 1 /\ \A i \in 1 .. Len(s) - 1 : t[i] = s[i + 1]
    BY <1>1, TailIs
  <1>4. Len(t) = Len(s) - 1 /\ DOMAIN t = 1 .. Len(s) - 1 /\ \A i \in DOMAIN t : i + 1 \in DOMAIN s /\ t[i] = s[i + 1]
    BY <1>1, <1>3
  <1>5. \A i, j \in DOMAIN s : s[i].id = s[j].id => i = j
    BY DEF Listed
  <1>6. ASSUME NEW i \in DOMAIN t, NEW j \in DOMAIN t, t[i].id = t[j].id PROVE i = j
    <2>1. i + 1 = j + 1
      BY <1>4, <1>5, <1>6
    <2>2. QED BY <1>4, <2>1
  <1>7. Listed(t)
    BY <1>6 DEF Listed
  <1>8. Ids(t) = Ids(s) \ {s[1].id}
    <2>1. \A i \in DOMAIN t : t[i].id # s[1].id
      <3> SUFFICES ASSUME NEW i \in DOMAIN t, t[i].id = s[1].id PROVE FALSE
        OBVIOUS
      <3>1. i + 1 = 1
        BY <1>2, <1>4, <1>5
      <3>2. QED BY <1>4, <3>1
    <2>2. \A i \in DOMAIN s : i # 1 => i - 1 \in DOMAIN t /\ t[i - 1] = s[i]
      BY <1>1, <1>4
    <2>3. Ids(t) \subseteq Ids(s) \ {s[1].id}
      BY <1>4, <2>1 DEF Ids
    <2>4. Ids(s) \ {s[1].id} \subseteq Ids(t)
      BY <2>2 DEF Ids
    <2>5. QED BY <2>3, <2>4
  <1>9. QED BY <1>2, <1>3, <1>4, <1>7, <1>8

\* What a planner does to a unit leaves it the unit it is.
LEMMA ByHandOK ==
  ASSUME NEW u \in RoutedUnit
  PROVE  ByHand(u) \in RoutedUnit /\ ByHand(u).id = u.id /\ ByHand(u).released = u.released
  <1>1. u \in Unit /\ Routes[u.item] # <<>>
    BY DEF RoutedUnit
  <1>2. ByHand(u) \in Unit /\ ByHand(u).item = u.item /\ ByHand(u).id = u.id /\ ByHand(u).released = u.released
    BY <1>1 DEF ByHand, Unit
  <1>3. QED BY <1>1, <1>2 DEF RoutedUnit

\* So does the day it is held to.
LEMMA HeldToOK ==
  ASSUME NEW u \in RoutedUnit, NEW day \in Nat
  PROVE  HeldTo(u, day) \in RoutedUnit /\ HeldTo(u, day).id = u.id /\ HeldTo(u, day).released = u.released
  <1>1. u \in Unit /\ Routes[u.item] # <<>>
    BY DEF RoutedUnit
  <1>2. HeldTo(u, day) \in Unit /\ HeldTo(u, day).item = u.item /\ HeldTo(u, day).id = u.id
        /\ HeldTo(u, day).released = u.released
    BY <1>1 DEF HeldTo, Unit
  <1>3. QED BY <1>1, <1>2 DEF RoutedUnit

\* The same units after a decision about each.
LEMMA DecidedListed ==
  ASSUME NEW s, Listed(s), NEW r, DOMAIN r = DOMAIN s,
         r = [i \in DOMAIN s |-> r[i]],
         \A i \in DOMAIN s : r[i] \in RoutedUnit /\ r[i].id = s[i].id
  PROVE  Listed(r) /\ Ids(r) = Ids(s) /\ Len(r) = Len(s)
  <1>1. s \in Seq(RoutedUnit) /\ DOMAIN s = 1 .. Len(s) /\ Len(s) \in Nat
    BY DEF Listed
  <1>2. r \in Seq(RoutedUnit) /\ Len(r) = Len(s)
    BY <1>1
  <1>3. Listed(r)
    BY <1>2 DEF Listed
  <1>4. Ids(r) = Ids(s)
    BY DEF Ids
  <1>5. QED BY <1>2, <1>3, <1>4

\* The work of a list of units is the same while the stops are.
LEMMA SameForward ==
  ASSUME stops' = stops, NEW units
  PROVE  ForwardPass(units)' = ForwardPass(units)
  BY SMT DEF Place, AfterDowntime, Runs, ForwardPass, Passes, PlaceUnit, Placings

\* So is what a pull is compared with.
LEMMA PullsSame ==
  ASSUME stops' = stops, NEW h, NEW s, NEW t, head' = h, seq' = s, start' = t
  PROVE  (HurtsNobody(ForwardPass(head \o start), ForwardPass(head \o seq), head \o seq))'
            <=> HurtsNobody(ForwardPass(h \o t), ForwardPass(h \o s), h \o s)
  <1>1. (ForwardPass(head \o start))' = ForwardPass(h \o t)
    BY SMT DEF Place, AfterDowntime, Runs, ForwardPass, Passes, PlaceUnit, Placings
  <1>2. (ForwardPass(head \o seq))' = ForwardPass(h \o s)
    BY SMT DEF Place, AfterDowntime, Runs, ForwardPass, Passes, PlaceUnit, Placings
  <1>3. QED BY <1>1, <1>2 DEF HurtsNobody

\* The machines are in order while the stops are the same.
LEMMA SamePass ==
  ASSUME stops' = stops, NEW p
  PROVE  PassOK(p)' <=> PassOK(p)
  BY DEF PassOK, BlockOK, Runs

\* BeginSequence with the parts of the book by name.
LEMMA BeginCases ==
  ASSUME BeginSequence
  PROVE  /\ phase = "sequence" /\ at' = <<1, 2, 2>> /\ queue' = <<>> /\ op' = 1 /\ pass' = EmptyPass
         /\ UNCHANGED inputs
         /\ head' \in Sorted(Running, ByRelease)
         /\ \/ /\ manual # <<>> /\ phase' = "insert"
               /\ \E s \in Sorted(Listing, LAMBDA u, v : InOrderOf(manual, u, v)) :
                     seq' = [i \in DOMAIN s |-> ByHand(s[i])]
               /\ todo' \in Sorted(Rest \ Listing, ByDue)
            \/ phase' = "land" /\ seq' \in Sorted(Mine, ByDue) /\ start' = seq' /\ own' \in Sorted(Rest, ByDue)
            \/ phase' = "pull" /\ seq' \in Sorted(Rest, ByDue) /\ start' = seq'
  BY Zenon DEF BeginSequence, Rest, Listing, Mine

\* What the planner's order of work gives.
LEMMA ManualOrder ==
  ASSUME NEW s, s \in Sorted(Listing, LAMBDA u, v : InOrderOf(manual, u, v))
  PROVE  /\ s \in [1 .. Cardinality(Listing) -> Listing]
         /\ \A i, j \in 1 .. Cardinality(Listing) : i < j => InOrderOf(manual, s[i], s[j])
  BY Zenon DEF Sorted

\* Units of two parts of the book differ.
LEMMA PartsApart ==
  ASSUME InputsOK, NEW S, NEW T, S \subseteq book, T \subseteq book, S \cap T = {},
         NEW s, NEW t, From(s, S), From(t, T)
  PROVE  Ids(s) \cap Ids(t) = {}
  <1> SUFFICES ASSUME NEW i \in DOMAIN s, NEW j \in DOMAIN t, s[i].id = t[j].id PROVE FALSE
    BY DEF Ids
  <1>1. s[i] \in S /\ t[j] \in T
    BY DEF From
  <1>2. s[i] = t[j]
    BY <1>1 DEF InputsOK
  <1>3. QED BY <1>1, <1>2

\* The parts of the book, and what is known about their units.
LEMMA BookParts ==
  ASSUME InputsOK
  PROVE  /\ Routed \subseteq book /\ Running \subseteq Routed /\ Rest \subseteq Routed /\ Listing \subseteq Rest
         /\ Mine \subseteq Rest /\ Rest \cap Running = {}
         /\ Routed \subseteq RoutedUnit
         /\ \A u \in Running : u.released > 0
         /\ \A u \in Rest : u.released = 0
         /\ \A S \in SUBSET Routed : IsFiniteSet(S) /\ \A u, v \in S : u.id = v.id => u = v
  <1>1. /\ Routed \subseteq book /\ Running \subseteq Routed /\ Rest \subseteq Routed /\ Listing \subseteq Rest
        /\ Mine \subseteq Rest /\ Rest \cap Running = {} /\ \A u \in Running : u.released > 0
    BY DEF Routed, Running, Rest, Listing, Mine
  <1>2. Routed \subseteq RoutedUnit
    BY DEF Routed, RoutedUnit, InputsOK
  <1>3. ASSUME NEW u \in Rest PROVE u.released = 0
    <2>1. u \in RoutedUnit /\ ~(u.released > 0)
      BY <1>1, <1>2 DEF Rest, Running
    <2>2. u.released \in Nat
      BY <2>1, UnitFields
    <2>3. QED BY <2>1, <2>2
  <1>4. ASSUME NEW S \in SUBSET Routed PROVE IsFiniteSet(S) /\ \A u, v \in S : u.id = v.id => u = v
    <2>1. IsFiniteSet(book) /\ S \in SUBSET book
      BY <1>1 DEF InputsOK
    <2>2. IsFiniteSet(S)
      BY <2>1, FS_Subset
    <2>3. QED BY <2>1, <2>2 DEF InputsOK
  <1>5. QED BY <1>1, <1>2, <1>3, <1>4

\* A part of the book by due date.
LEMMA DueFrom ==
  ASSUME InputsOK, NEW S, S \subseteq Routed, NEW s, s \in Sorted(S, ByDue)
  PROVE  From(s, S)
  <1>1. S \subseteq RoutedUnit /\ IsFiniteSet(S) /\ \A u, v \in S : u.id = v.id => u = v
    BY BookParts, Zenon
  <1>2. s \in [1 .. Cardinality(S) -> S] /\ \A i, j \in 1 .. Cardinality(S) : i < j => s[i] # s[j]
    BY <1>1, DueOrder, Zenon
  <1>3. Listed(s) /\ \A i \in DOMAIN s : s[i] \in S
    BY <1>1, <1>2, EachOnce, Zenon
  <1>4. QED BY <1>3, Zenon DEF From

\* The released units by release.
LEMMA HeadFrom ==
  ASSUME InputsOK, NEW s, s \in Sorted(Running, ByRelease)
  PROVE  From(s, Running)
  <1>1. Running \subseteq RoutedUnit /\ IsFiniteSet(Running) /\ \A u, v \in Running : u.id = v.id => u = v
    BY BookParts, Zenon
  <1>2. s \in [1 .. Cardinality(Running) -> Running]
        /\ \A i, j \in 1 .. Cardinality(Running) : i < j => s[i] # s[j]
    BY <1>1, ReleaseOrder, Zenon
  <1>3. Listed(s) /\ \A i \in DOMAIN s : s[i] \in Running
    BY <1>1, <1>2, EachOnce, Zenon
  <1>4. QED BY <1>3, Zenon DEF From

\* The listed units in the planner's order.
LEMMA ManualFrom ==
  ASSUME InputsOK, NEW s, s \in Sorted(Listing, LAMBDA u, v : InOrderOf(manual, u, v))
  PROVE  From(s, Listing)
  <1>1. Listing \subseteq RoutedUnit /\ IsFiniteSet(Listing) /\ \A u, v \in Listing : u.id = v.id => u = v
    BY BookParts, Zenon
  <1>2. /\ s \in [1 .. Cardinality(Listing) -> Listing]
        /\ \A i, j \in 1 .. Cardinality(Listing) : i < j => InOrderOf(manual, s[i], s[j])
    BY ManualOrder, Zenon
  <1>3. \A u \in Listing : ~InOrderOf(manual, u, u)
    <2>1. manual \in Seq(Nat)
      BY Zenon DEF InputsOK
    <2>2. \A u \in Listing : In(manual, u)
      BY Zenon DEF Listing
    <2>3. QED BY <1>1, <2>1, <2>2, OrderOfItself, Zenon
  <1>4. \A i, j \in 1 .. Cardinality(Listing) : i < j => s[i] # s[j]
    BY <1>2, <1>3, Zenon
  <1>5. Listed(s) /\ \A i \in DOMAIN s : s[i] \in Listing
    BY <1>1, <1>2, <1>4, EachOnce, Zenon
  <1>6. QED BY <1>5, Zenon DEF From

\* What the order of work starts from: parts of the book, each unit once.
LEMMA BeginGives ==
  ASSUME InputsOK, BeginSequence
  PROVE  /\ phase = "sequence" /\ at' = <<1, 2, 2>> /\ queue' = <<>> /\ op' = 1 /\ pass' = EmptyPass
         /\ UNCHANGED inputs
         /\ From(head', Running)
         /\ \/ /\ phase' = "insert"
               /\ \E s : From(s, Listing) /\ seq' = [i \in DOMAIN s |-> ByHand(s[i])]
               /\ From(todo', Rest \ Listing)
            \/ phase' = "land" /\ From(seq', Mine) /\ start' = seq' /\ From(own', Rest)
            \/ phase' = "pull" /\ From(seq', Rest) /\ start' = seq'
  <1>1. /\ phase = "sequence" /\ at' = <<1, 2, 2>> /\ queue' = <<>> /\ op' = 1 /\ pass' = EmptyPass
        /\ UNCHANGED inputs
    BY BeginCases, Zenon
  <1>2. Rest \subseteq Routed /\ Mine \subseteq Routed /\ Rest \ Listing \subseteq Routed
    BY BookParts, Zenon
  <1>3. From(head', Running)
    BY BeginCases, HeadFrom, Zenon
  <1>4. CASE /\ phase' = "insert"
             /\ \E s \in Sorted(Listing, LAMBDA u, v : InOrderOf(manual, u, v)) :
                   seq' = [i \in DOMAIN s |-> ByHand(s[i])]
             /\ todo' \in Sorted(Rest \ Listing, ByDue)
    <2>1. From(todo', Rest \ Listing)
      BY <1>2, <1>4, DueFrom, Zenon
    <2>2. \E s : From(s, Listing) /\ seq' = [i \in DOMAIN s |-> ByHand(s[i])]
      BY <1>4, ManualFrom, Zenon
    <2>3. QED BY <1>1, <1>3, <1>4, <2>1, <2>2, Zenon
  <1>5. CASE phase' = "land" /\ seq' \in Sorted(Mine, ByDue) /\ start' = seq' /\ own' \in Sorted(Rest, ByDue)
    <2>1. From(seq', Mine) /\ From(own', Rest)
      BY <1>2, <1>5, DueFrom, Zenon
    <2>2. QED BY <1>1, <1>3, <1>5, <2>1, Zenon
  <1>6. CASE phase' = "pull" /\ seq' \in Sorted(Rest, ByDue) /\ start' = seq'
    <2>1. From(seq', Rest)
      BY <1>2, <1>6, DueFrom, Zenon
    <2>2. QED BY <1>1, <1>3, <1>6, <2>1, Zenon
  <1>7. QED BY <1>4, <1>5, <1>6, BeginCases, Zenon

-----------------------------------------------------------------------------
(* The steps.                                                              *)

\* The inputs stay what they are.
LEMMA InputsKept ==
  ASSUME InputsOK, UNCHANGED inputs
  PROVE  InputsOK' /\ stops' = stops /\ StopsOK
  BY DEF InputsOK, inputs, StopsOK

\* Nothing is placed.
LEMMA EmptyPlacing ==
  ASSUME stops' = stops, pass' = EmptyPass, phase' # "place"
  PROVE  PlacingInv'
  <1>1. PICK p : p = pass'
    OBVIOUS
  <1>2. PassOK(p)'
    BY <1>1, EmptyPassOK, SamePass
  <1>3. PassOK(pass)'
    BY <1>1, <1>2 DEF PassOK, BlockOK
  <1>4. QED BY <1>3 DEF PlacingInv

\* What is placed stays in order while nothing is to be placed.
LEMMA PlacingKept ==
  ASSUME stops' = stops, pass' = pass, PassOK(pass), phase' # "place"
  PROVE  PlacingInv'
  <1>1. PICK p : p = pass
    OBVIOUS
  <1>2. PassOK(p)'
    BY <1>1, SamePass
  <1>3. PassOK(pass)'
    BY <1>1, <1>2 DEF PassOK, BlockOK
  <1>4. QED BY <1>3 DEF PlacingInv

\* Nothing has been pulled yet.
LEMMA PullsBegin ==
  ASSUME StopsOK, stops' = stops, start' = seq', Listed(head'), Listed(seq'), Ids(seq') \cap Ids(head') = {}
  PROVE  PullsHurtNobody'
  <1>1. PICK h : h = head'
    OBVIOUS
  <1>2. PICK s : s = seq'
    OBVIOUS
  <1>3. Listed(h \o s)
    BY <1>1, <1>2, JoinedListed
  <1>4. HurtsNobody(ForwardPass(h \o s), ForwardPass(h \o s), h \o s)
    BY <1>3, HurtsNobodyItself
  <1>5. (HurtsNobody(ForwardPass(head \o start), ForwardPass(head \o seq), head \o seq))'
    BY <1>1, <1>2, <1>4, PullsSame
  <1>6. QED BY <1>5 DEF PullsHurtNobody

\* The order of work is started from scratch.
LEMMA BeginSequenceStep ==
  ASSUME InputsOK, BeginSequence
  PROVE  ScheduleInv'
  <1>1. /\ at' = <<1, 2, 2>> /\ op' = 1 /\ pass' = EmptyPass /\ UNCHANGED inputs
        /\ From(head', Running)
    BY BeginGives
  <1>2. InputsOK' /\ stops' = stops /\ StopsOK
    BY <1>1, InputsKept
  <1>3. /\ Routed \subseteq book /\ Running \subseteq Routed /\ Rest \subseteq Routed /\ Listing \subseteq Rest
        /\ Mine \subseteq Rest /\ Rest \cap Running = {} /\ Routed \subseteq RoutedUnit
        /\ \A u \in Running : u.released > 0
        /\ \A u \in Rest : u.released = 0
    BY BookParts
  <1>4. Listed(head') /\ \A i \in DOMAIN head' : head'[i].released > 0
    BY <1>1, <1>3 DEF From
  <1>5. ASSUME NEW S, S \subseteq Rest, NEW s, From(s, S)
        PROVE  Listed(s) /\ Ids(s) \cap Ids(head') = {} /\ \A i \in DOMAIN s : s[i].released = 0
    <2>1. PICK h : h = head'
      OBVIOUS
    <2>2. S \subseteq book /\ Running \subseteq book /\ S \cap Running = {}
      BY <1>3, <1>5
    <2>3. Ids(s) \cap Ids(h) = {}
      BY <1>1, <1>5, <2>1, <2>2, PartsApart
    <2>4. QED BY <1>3, <1>5, <2>1, <2>3 DEF From
  <1>6. at' \in (Nat \ {0}) \X Nat \X Nat /\ at'[1] < at'[2] /\ at'[2] <= at'[3]
    BY <1>1
  <1>7. phase' \in {"insert", "land", "pull"} => PlacingInv'
    BY <1>1, <1>2, EmptyPlacing
  <1>8. CASE /\ phase' = "insert"
             /\ \E s : From(s, Listing) /\ seq' = [i \in DOMAIN s |-> ByHand(s[i])]
             /\ From(todo', Rest \ Listing)
    <2>1. PICK s : From(s, Listing) /\ seq' = [i \in DOMAIN s |-> ByHand(s[i])]
      BY <1>8
    <2>2. Listed(s) /\ Ids(s) \cap Ids(head') = {} /\ \A i \in DOMAIN s : s[i].released = 0 /\ s[i] \in RoutedUnit
      BY <1>3, <1>5, <2>1 DEF From
    <2>3. PICK r : r = seq'
      OBVIOUS
    <2>4. r = [i \in DOMAIN s |-> r[i]] /\ DOMAIN r = DOMAIN s
          /\ \A i \in DOMAIN s : r[i] \in RoutedUnit /\ r[i].id = s[i].id /\ r[i].released = 0
      <3>1. \A i \in DOMAIN s : ByHand(s[i]) \in RoutedUnit /\ ByHand(s[i]).id = s[i].id /\ ByHand(s[i]).released = 0
        BY <2>2, ByHandOK
      <3>2. QED BY <2>1, <2>3, <3>1
    <2>5. Listed(r) /\ Ids(r) = Ids(s)
      BY <2>2, <2>4, DecidedListed
    <2>6. PICK t : t = todo'
      OBVIOUS
    <2>7. From(t, Rest \ Listing)
      BY <1>8, <2>6
    <2>8. Listed(t) /\ Ids(t) \cap Ids(head') = {} /\ \A i \in DOMAIN t : t[i].released = 0
      BY <1>5, <2>7
    <2>9. Ids(t) \cap Ids(r) = {}
      <3>1. Listing \subseteq book /\ Rest \ Listing \subseteq book /\ (Rest \ Listing) \cap Listing = {}
        BY <1>3
      <3>2. QED BY <2>1, <2>5, <2>7, <3>1, PartsApart
    <2>10. Unreleased(seq)' /\ Unreleased(todo)' /\ Ids(todo') \cap Ids(seq') = {}
      BY <2>2, <2>3, <2>4, <2>5, <2>6, <2>8, <2>9 DEF Unreleased
    <2>11. SequenceInv'
      BY <1>1, <1>4, <1>8, <2>10 DEF SequenceInv
    <2>12. QED BY <1>2, <1>7, <1>8, <2>11 DEF ScheduleInv, PullsHurtNobody
  <1>9. CASE phase' = "land" /\ From(seq', Mine) /\ start' = seq' /\ From(own', Rest)
    <2>1. Unreleased(seq)' /\ Unreleased(own)'
      BY <1>3, <1>5, <1>9 DEF Unreleased
    <2>2. SequenceInv'
      BY <1>1, <1>4, <1>6, <1>9, <2>1 DEF SequenceInv, Unreleased
    <2>3. PullsHurtNobody'
      BY <1>2, <1>4, <1>9, <2>1, PullsBegin DEF Unreleased
    <2>4. QED BY <1>2, <1>7, <1>9, <2>2, <2>3 DEF ScheduleInv
  <1>10. CASE phase' = "pull" /\ From(seq', Rest) /\ start' = seq'
    <2>1. Unreleased(seq)'
      BY <1>5, <1>10 DEF Unreleased
    <2>2. SequenceInv'
      BY <1>1, <1>4, <1>6, <1>10, <2>1 DEF SequenceInv, Unreleased
    <2>3. PullsHurtNobody'
      BY <1>2, <1>4, <1>10, <2>1, PullsBegin DEF Unreleased
    <2>4. QED BY <1>2, <1>7, <1>10, <2>2, <2>3 DEF ScheduleInv
  <1>11. QED BY <1>8, <1>9, <1>10, BeginGives

\* What the actions before the operations are placed leave alone.
LEMMA Ordering ==
  ASSUME ScheduleInv, UNCHANGED <<inputs, head>>, pass' = pass, op' = op,
         phase \notin {"sequence", "place"}, phase' \notin {"sequence", "place"}
  PROVE  /\ InputsOK' /\ PlacingInv' /\ stops' = stops /\ StopsOK
         /\ op' = 1 /\ pass' = EmptyPass
  <1>1. InputsOK' /\ stops' = stops /\ StopsOK
    BY InputsKept DEF ScheduleInv
  <1>2. op' = 1 /\ pass' = EmptyPass
    BY DEF ScheduleInv, SequenceInv
  <1>3. PlacingInv'
    BY <1>1, <1>2, EmptyPlacing
  <1>4. QED BY <1>1, <1>2, <1>3

\* The next unit that is not listed is put into the order of work.
LEMMA InsertStep ==
  ASSUME ScheduleInv, Insert
  PROVE  ScheduleInv'
  <1>1. phase = "insert" /\ UNCHANGED <<inputs, head>> /\ pass' = pass /\ op' = op
        /\ phase' \in {"insert", "decide"}
    BY DEF Insert, grouping, placing
  <1>2. InputsOK' /\ PlacingInv' /\ op' = 1 /\ pass' = EmptyPass
    BY <1>1, Ordering
  <1>3. /\ Listed(head) /\ (\A i \in DOMAIN head : head[i].released > 0) /\ Unreleased(seq)
        /\ Unreleased(todo) /\ Ids(todo) \cap Ids(seq) = {} /\ head' = head
    BY <1>1 DEF ScheduleInv, SequenceInv
  <1>4. CASE todo = <<>>
    <2>1. phase' = "decide" /\ seq' = seq
      BY <1>4 DEF Insert
    <2>2. Unreleased(seq)'
      BY <1>3, <2>1 DEF Unreleased
    <2>3. SequenceInv'
      BY <1>2, <1>3, <2>1, <2>2 DEF SequenceInv
    <2>4. QED BY <1>2, <2>1, <2>3 DEF ScheduleInv, PullsHurtNobody
  <1>5. CASE todo # <<>>
    <2>1. PICK later : later = {i \in DOMAIN seq : seq[i].manual /\ seq[i].due > Head(todo).due}
      OBVIOUS
    <2>2. seq' = Put(seq, CutBefore(seq, later), <<Head(todo)>>) /\ todo' = Tail(todo) /\ phase' = "insert"
      BY <1>1, <1>5, <2>1 DEF Insert
    <2>3. PICK u \in RoutedUnit : u = Head(todo) /\ u = todo[1]
      BY <1>3, <1>5, TailListed DEF Unreleased
    <2>4. /\ 1 \in DOMAIN todo /\ Listed(Tail(todo)) /\ Ids(Tail(todo)) = Ids(todo) \ {u.id}
          /\ \A i \in DOMAIN Tail(todo) : i + 1 \in DOMAIN todo /\ Tail(todo)[i] = todo[i + 1]
      BY <1>3, <1>5, <2>3, TailListed DEF Unreleased
    <2>5. u.id \in Ids(todo) /\ u.released = 0
      BY <1>3, <2>3, <2>4 DEF Unreleased, Ids
    <2>6. CutBefore(seq, later) \in 1 .. Len(seq) + 1
      BY <1>3, <2>1, CutIsInside DEF Unreleased
    <2>7. Listed(<<u>>) /\ Ids(<<u>>) = {u.id} /\ DOMAIN <<u>> = {1} /\ <<u>>[1] = u
      BY OneListed
    <2>8. Ids(seq) \cap Ids(<<u>>) = {} /\ Listed(seq)
      BY <1>3, <2>5, <2>7 DEF Unreleased
    <2>9. PICK r : r = Put(seq, CutBefore(seq, later), <<u>>)
      OBVIOUS
    <2>10. /\ Listed(r) /\ Ids(r) = Ids(seq) \cup {u.id}
           /\ \A k \in DOMAIN r : (\E a \in DOMAIN seq : r[k] = seq[a]) \/ r[k] = u
      BY <2>6, <2>7, <2>8, <2>9, PutListed
    <2>11. seq' = r /\ Unreleased(seq)'
      BY <1>3, <2>2, <2>3, <2>5, <2>9, <2>10 DEF Unreleased
    <2>12. Unreleased(todo)'
      BY <1>3, <2>2, <2>4 DEF Unreleased
    <2>13. Ids(todo') \cap Ids(seq') = {}
      BY <1>3, <2>2, <2>4, <2>10, <2>11
    <2>14. SequenceInv'
      BY <1>2, <1>3, <2>2, <2>11, <2>12, <2>13 DEF SequenceInv
    <2>15. QED BY <1>2, <2>2, <2>14 DEF ScheduleInv, PullsHurtNobody
  <1>6. QED BY <1>4, <1>5

\* A rush unit is taken out of the order of work and put back once.
LEMMA RushStep ==
  ASSUME ScheduleInv, Rush
  PROVE  ScheduleInv'
  <1>1. phase = "rush" /\ UNCHANGED <<inputs, head>> /\ pass' = pass /\ op' = op
        /\ phase' \in {"rush", "pull"} /\ at' = at
    BY DEF Rush, placing
  <1>2. InputsOK' /\ PlacingInv' /\ op' = 1 /\ pass' = EmptyPass /\ stops' = stops /\ StopsOK
    BY <1>1, Ordering
  <1>3. /\ Listed(head) /\ (\A i \in DOMAIN head : head[i].released > 0) /\ Unreleased(seq)
        /\ todo \in Seq(RoutedUnit) /\ (\A i \in DOMAIN todo : todo[i].released = 0) /\ head' = head
        /\ at \in (Nat \ {0}) \X Nat \X Nat /\ at[1] < at[2] /\ at[2] <= at[3]
    BY <1>1 DEF ScheduleInv, SequenceInv
  <1>4. CASE todo = <<>>
    <2>1. phase' = "pull" /\ seq' = seq /\ start' = seq
      BY <1>4 DEF Rush
    <2>2. Unreleased(seq)' /\ Listed(start') /\ Range(start') = Range(seq')
      BY <1>3, <2>1 DEF Unreleased
    <2>3. SequenceInv'
      BY <1>1, <1>2, <1>3, <2>1, <2>2 DEF SequenceInv
    <2>4. PullsHurtNobody'
      BY <1>2, <1>3, <2>1, <2>2, PullsBegin DEF Unreleased
    <2>5. QED BY <1>2, <2>3, <2>4 DEF ScheduleInv
  <1>5. CASE todo # <<>>
    <2>1. PICK u \in RoutedUnit : u = Head(todo) /\ u.released = 0
      <3>1. 1 \in DOMAIN todo /\ Head(todo) = todo[1] /\ todo[1] \in RoutedUnit
        BY <1>3, <1>5
      <3>2. QED BY <1>3, <3>1
    <2>2. todo' = Tail(todo) /\ phase' = "rush"
      BY <1>1, <1>5 DEF Rush
    <2>3. PICK k \in DOMAIN seq :
             /\ seq[k].id = u.id
             /\ LET rest == RemoveAt(seq, k)
                    anchor == {i \in DOMAIN rest : u.before # 0 /\ rest[i].oid = u.before}
                IN  seq' = Put(rest, CutBefore(rest, anchor), <<u>>)
      BY <1>5, <2>1 DEF Rush
    <2>17. PICK s : s = seq
      OBVIOUS
    <2>18. Listed(s) /\ k \in DOMAIN s /\ s[k].id = u.id
      BY <1>3, <2>3, <2>17 DEF Unreleased
    <2>4. PICK rest : rest = RemoveAt(s, k)
      OBVIOUS
    <2>6. Listed(rest) /\ Ids(rest) = Ids(seq) \ {u.id} /\ \A a \in DOMAIN rest : \E c \in DOMAIN seq : rest[a] = seq[c]
      BY <2>4, <2>17, <2>18, WithoutListed
    <2>5. PICK anchor : anchor = {i \in DOMAIN rest : u.before # 0 /\ rest[i].oid = u.before}
      OBVIOUS
    <2>7. CutBefore(rest, anchor) \in 1 .. Len(rest) + 1
      BY <2>5, <2>6, CutIsInside
    <2>8. Listed(<<u>>) /\ Ids(<<u>>) = {u.id} /\ DOMAIN <<u>> = {1} /\ <<u>>[1] = u
      BY OneListed
    <2>9. PICK r : r = Put(rest, CutBefore(rest, anchor), <<u>>)
      OBVIOUS
    <2>10. /\ Listed(r) /\ Ids(r) = Ids(rest) \cup {u.id}
           /\ \A c \in DOMAIN r : (\E a \in DOMAIN rest : r[c] = rest[a]) \/ r[c] = u
      BY <2>6, <2>7, <2>8, <2>9, PutListed
    <2>11. seq' = r
      BY <2>3, <2>4, <2>5, <2>9, <2>17
    <2>12. u.id \in Ids(seq)
      BY <2>3 DEF Ids
    <2>13. Unreleased(seq)'
      BY <1>3, <2>1, <2>6, <2>10, <2>11, <2>12 DEF Unreleased
    <2>14. todo' \in Seq(RoutedUnit) /\ \A i \in DOMAIN todo' : todo'[i].released = 0
      <3>1. PICK t \in Seq(RoutedUnit) : t = Tail(todo) /\ Len(t) = Len(todo) - 1 /\ \A i \in 1 .. Len(todo) - 1 : t[i] = todo[i + 1]
        BY <1>3, <1>5, TailIs
      <3>2. \A i \in DOMAIN t : i + 1 \in DOMAIN todo /\ t[i] = todo[i + 1]
        BY <1>3, <3>1
      <3>3. QED BY <1>3, <2>2, <3>1, <3>2
    <2>15. SequenceInv'
      BY <1>1, <1>2, <1>3, <2>2, <2>13, <2>14 DEF SequenceInv
    <2>16. QED BY <1>2, <2>2, <2>15 DEF ScheduleInv, PullsHurtNobody
  <1>6. QED BY <1>4, <1>5

\* What grouping leaves alone while it reads the next candidate.
LEMMA SameOrder ==
  ASSUME ScheduleInv, phase \in {"land", "pull"}, UNCHANGED <<inputs, placing, head, phase, own, start, seq>>,
         at' \in (Nat \ {0}) \X Nat \X Nat, at'[1] < at'[2], at'[2] <= at'[3]
  PROVE  ScheduleInv'
  <1>1. UNCHANGED <<inputs, head>> /\ pass' = pass /\ op' = op /\ phase' = phase /\ own' = own /\ start' = start /\ seq' = seq
    BY DEF placing
  <1>2. InputsOK' /\ PlacingInv' /\ op' = 1 /\ pass' = EmptyPass /\ stops' = stops /\ StopsOK
    BY <1>1, Ordering
  <1>3. SequenceInv
    BY DEF ScheduleInv
  <1>4. (Unreleased(seq)' <=> Unreleased(seq)) /\ (Unreleased(own)' <=> Unreleased(own))
    BY <1>1 DEF Unreleased
  <1>5. SequenceInv'
    BY <1>1, <1>2, <1>3, <1>4 DEF SequenceInv
  <1>6. PICK h : h = head
    OBVIOUS
  <1>7. PICK s : s = seq
    OBVIOUS
  <1>8. PICK t : t = start
    OBVIOUS
  <1>9. HurtsNobody(ForwardPass(h \o t), ForwardPass(h \o s), h \o s)
    BY <1>6, <1>7, <1>8 DEF ScheduleInv, PullsHurtNobody
  <1>10. (HurtsNobody(ForwardPass(head \o start), ForwardPass(head \o seq), head \o seq))'
    BY <1>1, <1>2, <1>6, <1>7, <1>8, <1>9, PullsSame
  <1>11. PullsHurtNobody'
    BY <1>10 DEF PullsHurtNobody
  <1>12. QED BY <1>2, <1>5, <1>11 DEF ScheduleInv

\* A pull keeps the promises that the pulls before it kept.
LEMMA PullStep ==
  ASSUME ScheduleInv, Pull
  PROVE  ScheduleInv'
  <1>1. /\ phase \in {"land", "pull"} /\ UNCHANGED <<inputs, placing, head, phase, todo, group, cohorts, own, start>>
        /\ at[1] <= Len(seq)
    BY DEF Pull
  <1>2. at \in (Nat \ {0}) \X Nat \X Nat /\ at[1] < at[2] /\ at[2] <= at[3]
    BY <1>1 DEF ScheduleInv, SequenceInv
  <1>3. PICK i \in Nat \ {0}, end \in Nat, j \in Nat : at = <<i, end, j>> /\ i < end /\ end <= j
    BY <1>2
  <1>4. CASE UNCHANGED seq /\ at' \in {<<i + 1, i + 2, i + 2>>, <<end, end + 1, end + 1>>, <<i, end + 1, j + 1>>,
                                       <<i, end, j + 1>>}
    <2>1. at' \in (Nat \ {0}) \X Nat \X Nat /\ at'[1] < at'[2] /\ at'[2] <= at'[3]
      BY <1>3, <1>4
    <2>2. QED BY <1>1, <1>4, <2>1, SameOrder
  <1>5. CASE j <= Len(seq) /\ PullIsSafe(j, end) /\ seq' = Moved(seq, j, end) /\ at' = <<i, end + 1, j + 1>>
    <2>1. /\ UNCHANGED <<inputs, head>> /\ pass' = pass /\ op' = op /\ phase' = phase /\ own' = own /\ start' = start
          /\ head' = head
      BY <1>1 DEF placing
    <2>2. InputsOK' /\ PlacingInv' /\ op' = 1 /\ pass' = EmptyPass /\ stops' = stops /\ StopsOK
      BY <1>1, <2>1, Ordering
    <2>3. /\ Listed(head) /\ (\A k \in DOMAIN head : head[k].released > 0) /\ Unreleased(seq)
          /\ (phase = "land" => Unreleased(own)) /\ Listed(start) /\ Range(start) = Range(seq)
      BY <1>1 DEF ScheduleInv, SequenceInv
    <2>4. at' \in (Nat \ {0}) \X Nat \X Nat /\ at'[1] < at'[2] /\ at'[2] <= at'[3]
      BY <1>3, <1>5
    <2>5. PICK h : h = head
      OBVIOUS
    <2>6. PICK s : s = seq
      OBVIOUS
    <2>7. PICK t : t = start
      OBVIOUS
    <2>8. PICK r : r = Moved(s, j, end)
      OBVIOUS
    <2>9. Listed(s) /\ Listed(t) /\ Listed(h) /\ Ids(s) \cap Ids(h) = {} /\ Range(t) = Range(s)
      BY <2>3, <2>5, <2>6, <2>7 DEF Unreleased
    <2>10. j \in DOMAIN s /\ end \in 1 .. j
      <3>1. j \in 1 .. Len(s)
        BY <1>3, <1>5, <2>6
      <3>2. QED BY <1>3, <2>9, <3>1 DEF Listed
    <2>11. Listed(r) /\ Range(r) = Range(s)
      BY <2>8, <2>9, <2>10, MovedListed
    <2>12. \A x \in {r, t} : Ids(x) = Ids(s)
      <3>1. \A x, y : Range(x) = Range(y) => Ids(x) \subseteq Ids(y)
        <4> SUFFICES ASSUME NEW x, NEW y, Range(x) = Range(y) PROVE Ids(x) \subseteq Ids(y)
          OBVIOUS
        <4> SUFFICES ASSUME NEW k \in DOMAIN x PROVE \E l \in DOMAIN y : x[k].id = y[l].id
          BY DEF Ids
        <4>1. x[k] \in Range(y)
          BY DEF Range
        <4>2. PICK l \in DOMAIN y : x[k] = y[l]
          BY <4>1 DEF Range
        <4>3. QED BY <4>2
      <3>2. QED BY <2>9, <2>11, <3>1
    <2>13. /\ Listed(h \o t) /\ Listed(h \o s) /\ Listed(h \o r)
           /\ Range(h \o t) = Range(h \o s) /\ Range(h \o s) = Range(h \o r)
      <3>1. Ids(h) \cap Ids(t) = {} /\ Ids(h) \cap Ids(s) = {} /\ Ids(h) \cap Ids(r) = {}
        BY <2>9, <2>12
      <3>2. Listed(h \o t) /\ Range(h \o t) = Range(h) \cup Range(t)
        BY <2>9, <3>1, JoinedListed
      <3>3. Listed(h \o s) /\ Range(h \o s) = Range(h) \cup Range(s)
        BY <2>9, <3>1, JoinedListed
      <3>4. Listed(h \o r) /\ Range(h \o r) = Range(h) \cup Range(r)
        BY <2>9, <2>11, <3>1, JoinedListed
      <3>5. QED BY <2>9, <2>11, <3>2, <3>3, <3>4
    <2>14. HurtsNobody(ForwardPass(h \o t), ForwardPass(h \o s), h \o s)
      BY <1>1, <2>5, <2>6, <2>7 DEF ScheduleInv, PullsHurtNobody
    <2>15. HurtsNobody(ForwardPass(h \o s), ForwardPass(h \o r), h \o s)
      BY <1>5, <2>5, <2>6, <2>8 DEF PullIsSafe, WithReleased
    <2>16. HurtsNobody(ForwardPass(h \o t), ForwardPass(h \o r), h \o r)
      BY <2>2, <2>13, <2>14, <2>15, HurtsNobodyTwice
    <2>17. head' = h /\ seq' = r /\ start' = t
      BY <1>5, <2>1, <2>5, <2>6, <2>7, <2>8
    <2>18. (HurtsNobody(ForwardPass(head \o start), ForwardPass(head \o seq), head \o seq))'
      BY <2>2, <2>16, <2>17, PullsSame
    <2>19. PullsHurtNobody'
      BY <2>18 DEF PullsHurtNobody
    <2>20. \A k \in DOMAIN r : r[k].released = 0
      <3> SUFFICES ASSUME NEW k \in DOMAIN r PROVE r[k].released = 0
        OBVIOUS
      <3>1. r[k] \in Range(s)
        BY <2>11 DEF Range
      <3>2. PICK l \in DOMAIN s : r[k] = s[l]
        BY <3>1 DEF Range
      <3>3. QED BY <2>3, <2>6, <3>2 DEF Unreleased
    <2>21. Unreleased(seq)'
      BY <2>5, <2>9, <2>11, <2>12, <2>17, <2>20 DEF Unreleased
    <2>22. phase' = "land" => Unreleased(own)'
      BY <2>1, <2>3 DEF Unreleased
    <2>23. Listed(start') /\ Range(start') = Range(seq')
      BY <2>9, <2>11, <2>17
    <2>24. SequenceInv'
      BY <1>1, <2>1, <2>2, <2>3, <2>4, <2>21, <2>22, <2>23 DEF SequenceInv
    <2>25. QED BY <2>2, <2>19, <2>24 DEF ScheduleInv
  <1>6. \/ UNCHANGED seq /\ at' \in {<<i + 1, i + 2, i + 2>>, <<end, end + 1, end + 1>>, <<i, end + 1, j + 1>>,
                                     <<i, end, j + 1>>}
        \/ j <= Len(seq) /\ PullIsSafe(j, end) /\ seq' = Moved(seq, j, end) /\ at' = <<i, end + 1, j + 1>>
    <2>1. at[1] = i /\ at[2] = end /\ at[3] = j
      BY <1>3
    <2>2. QED BY <2>1, Zenon DEF Pull
  <1>7. QED BY <1>4, <1>5, <1>6

\* The clubs without rush units are known; the book is its own order of work again.
LEMMA LandedStep ==
  ASSUME ScheduleInv, Landed
  PROVE  ScheduleInv'
  <1>1. /\ phase = "land" /\ phase' = "rush" /\ UNCHANGED <<inputs, head>> /\ pass' = pass /\ op' = op
        /\ seq' = own /\ at' = <<1, 2, 2>>
    BY Zenon DEF Landed, placing
  <1>2. InputsOK' /\ PlacingInv' /\ op' = 1 /\ pass' = EmptyPass /\ stops' = stops /\ StopsOK
    BY <1>1, Ordering
  <1>3. /\ Listed(head) /\ (\A k \in DOMAIN head : head[k].released > 0) /\ Unreleased(own) /\ head' = head
    BY <1>1 DEF ScheduleInv, SequenceInv
  <1> DEFINE S == {u \in {own[i] : i \in DOMAIN own} : u.rush}
  <1>4. todo' \in Sorted(S, ByDue)
    BY Zenon DEF Landed
  <1>5. S \subseteq RoutedUnit /\ \A u \in S : u.released = 0
    BY <1>3 DEF Unreleased, Listed
  <1>6. IsFiniteSet(S)
    <2>1. own \in Seq(RoutedUnit) /\ DOMAIN own = 1 .. Len(own) /\ Len(own) \in Nat
      BY <1>3 DEF Unreleased, Listed
    <2>2. IsFiniteSet(DOMAIN own)
      BY <2>1, FS_Interval
    <2>3. own \in Surjection(DOMAIN own, Range(own))
      BY <2>1 DEF Surjection, Range
    <2>4. IsFiniteSet(Range(own))
      BY <2>2, <2>3, FS_Surjection
    <2>5. S \in SUBSET Range(own)
      BY DEF Range
    <2>6. QED BY <2>4, <2>5, FS_Subset
  <1> HIDE DEF S
  <1>7. todo' \in [1 .. Cardinality(S) -> S]
    BY <1>4, <1>5, DueOrder, Zenon
  <1>8. todo' \in Seq(RoutedUnit) /\ \A i \in DOMAIN todo' : todo'[i].released = 0
    <2>1. Cardinality(S) \in Nat
      BY <1>6, FS_CardinalityType
    <2>2. QED BY <1>5, <1>7, <2>1
  <1>9. Unreleased(seq)'
    BY <1>1, <1>3 DEF Unreleased
  <1>10. at' \in (Nat \ {0}) \X Nat \X Nat /\ at'[1] < at'[2] /\ at'[2] <= at'[3]
    BY <1>1
  <1>11. SequenceInv'
    BY <1>1, <1>2, <1>3, <1>8, <1>9, <1>10 DEF SequenceInv
  <1>12. QED BY <1>1, <1>2, <1>11 DEF ScheduleInv, PullsHurtNobody

\* The clubs are made.
LEMMA GroupedStep ==
  ASSUME ScheduleInv, Grouped
  PROVE  ScheduleInv'
  <1>1. /\ phase = "pull" /\ phase' = "decide" /\ UNCHANGED <<inputs, head>> /\ pass' = pass /\ op' = op
        /\ seq' = seq
    BY DEF Grouped, placing
  <1>2. InputsOK' /\ PlacingInv' /\ op' = 1 /\ pass' = EmptyPass
    BY <1>1, Ordering
  <1>3. /\ Listed(head) /\ (\A k \in DOMAIN head : head[k].released > 0) /\ Unreleased(seq) /\ head' = head
    BY <1>1 DEF ScheduleInv, SequenceInv
  <1>4. Unreleased(seq)'
    BY <1>1, <1>3 DEF Unreleased
  <1>5. SequenceInv'
    BY <1>1, <1>2, <1>3, <1>4 DEF SequenceInv
  <1>6. QED BY <1>1, <1>2, <1>5 DEF ScheduleInv, PullsHurtNobody

\* The release days change units, not their order.
LEMMA ReleaseStep ==
  ASSUME ScheduleInv, Release
  PROVE  ScheduleInv'
  <1>1. /\ phase = "decide" /\ phase' = "groups" /\ UNCHANGED <<inputs, head>> /\ pass' = pass /\ op' = op
        /\ seq' = [i \in DOMAIN seq |-> HeldTo(seq[i], seq[i].hold)]
    BY DEF Release, placing
  <1>2. InputsOK' /\ PlacingInv' /\ op' = 1 /\ pass' = EmptyPass
    BY <1>1, Ordering
  <1>3. /\ Listed(head) /\ (\A k \in DOMAIN head : head[k].released > 0) /\ Unreleased(seq) /\ head' = head
    BY <1>1 DEF ScheduleInv, SequenceInv
  <1>4. PICK r : r = seq'
    OBVIOUS
  <1>5. \A i \in DOMAIN seq : seq[i] \in RoutedUnit /\ seq[i].hold \in Nat /\ seq[i].released = 0
    <2>1. \A i \in DOMAIN seq : seq[i] \in RoutedUnit /\ seq[i].released = 0
      BY <1>3 DEF Unreleased, Listed
    <2>2. QED BY <2>1, UnitFields
  <1>6. /\ r = [i \in DOMAIN seq |-> r[i]] /\ DOMAIN r = DOMAIN seq
        /\ \A i \in DOMAIN seq : r[i] \in RoutedUnit /\ r[i].id = seq[i].id /\ r[i].released = 0
    <2>1. \A i \in DOMAIN seq : /\ HeldTo(seq[i], seq[i].hold) \in RoutedUnit
                                /\ HeldTo(seq[i], seq[i].hold).id = seq[i].id
                                /\ HeldTo(seq[i], seq[i].hold).released = 0
      BY <1>5, HeldToOK
    <2>2. QED BY <1>1, <1>4, <2>1
  <1>7. PICK s : s = seq
    OBVIOUS
  <1>8. Listed(r) /\ Ids(r) = Ids(s)
    BY <1>3, <1>6, <1>7, DecidedListed DEF Unreleased
  <1>9. Unreleased(seq)'
    BY <1>3, <1>4, <1>6, <1>7, <1>8 DEF Unreleased
  <1>10. SequenceInv'
    BY <1>1, <1>2, <1>3, <1>9 DEF SequenceInv
  <1>11. QED BY <1>1, <1>2, <1>10 DEF ScheduleInv, PullsHurtNobody

\* ks goes through K in an order; r holds what is in s there.
Through(ks, K) ==
  ks \in [1 .. Cardinality(K) -> K] /\ \A i, j \in 1 .. Cardinality(K) : i < j => ks[i] # ks[j]

Selects(r, s, ks) == r = [k \in DOMAIN ks |-> s[ks[k]]]

\* The members of a group, and the others, out of the order of work.
LEMMA Picked ==
  ASSUME NEW s, Listed(s), NEW K, K \subseteq DOMAIN s, NEW ks, Through(ks, K), NEW r, Selects(r, s, ks)
  PROVE  /\ Listed(r) /\ DOMAIN r = DOMAIN ks
         /\ \A k \in DOMAIN r : ks[k] \in K /\ r[k] = s[ks[k]]
  <1>1. s \in Seq(RoutedUnit) /\ DOMAIN s = 1 .. Len(s) /\ Len(s) \in Nat
    BY DEF Listed
  <1>2. IsFiniteSet(K)
    <2>1. PICK n \in Nat : n = Len(s)
      BY <1>1
    <2>2. IsFiniteSet(1 .. n)
      BY FS_Interval
    <2>3. K \in SUBSET (1 .. n)
      BY <1>1, <2>1
    <2>4. QED BY <2>2, <2>3, FS_Subset
  <1>3. Cardinality(K) \in Nat
    BY <1>2, FS_CardinalityType
  <1>10. ks \in [1 .. Cardinality(K) -> K] /\ \A i, j \in 1 .. Cardinality(K) : i < j => ks[i] # ks[j]
    BY DEF Through
  <1>4. DOMAIN ks = 1 .. Cardinality(K) /\ \A k \in DOMAIN ks : ks[k] \in DOMAIN s /\ ks[k] \in K
    BY <1>10
  <1>5. r \in Seq(RoutedUnit) /\ DOMAIN r = DOMAIN ks /\ Len(r) = Cardinality(K)
        /\ \A k \in DOMAIN r : r[k] = s[ks[k]]
    BY <1>1, <1>3, <1>4 DEF Selects
  <1>6. ASSUME NEW i \in 1 .. Len(r), NEW j \in 1 .. Len(r), ks[i] = ks[j] PROVE i = j
    <2>1. ~(i < j) /\ ~(j < i)
      BY <1>5, <1>6, <1>10
    <2>2. QED BY <1>3, <1>5, <2>1
  <1>7. ASSUME NEW i \in DOMAIN r, NEW j \in DOMAIN r, r[i].id = r[j].id PROVE i = j
    <2>1. s[ks[i]].id = s[ks[j]].id /\ ks[i] \in DOMAIN s /\ ks[j] \in DOMAIN s
      BY <1>4, <1>5, <1>7
    <2>2. ks[i] = ks[j]
      BY <2>1 DEF Listed
    <2>3. QED BY <1>3, <1>4, <1>5, <1>6, <2>2
  <1>8. Listed(r)
    BY <1>5, <1>7 DEF Listed
  <1>9. QED BY <1>4, <1>5, <1>8

\* Listed units have work to do.
LEMMA ListedUnits ==
  ASSUME NEW s, Listed(s)
  PROVE  \A k \in DOMAIN s : s[k] \in RoutedUnit /\ ~(k < k)
  BY DEF Listed

\* The members of a group, each once.
LEMMA MembersAre ==
  ASSUME NEW s, Listed(s), NEW ids \in Seq(Nat), NEW ks \in Members(s, ids)
  PROVE  Through(ks, Among(s, ids))
  <1>1. /\ ks \in [1 .. Cardinality(Among(s, ids)) -> Among(s, ids)]
        /\ \A i, j \in 1 .. Cardinality(Among(s, ids)) : i < j => InOrderOf(ids, s[ks[i]], s[ks[j]])
    BY Zenon DEF Sorted, Members
  <1>2. ASSUME NEW k \in Among(s, ids) PROVE ~InOrderOf(ids, s[k], s[k])
    <2>1. s[k] \in RoutedUnit /\ In(ids, s[k])
      BY ListedUnits, Zenon DEF Among
    <2>2. QED BY <2>1, OrderOfItself, Zenon
  <1>3. QED BY <1>1, <1>2, Zenon DEF Through

\* The units outside a group, each once.
LEMMA OthersAre ==
  ASSUME NEW s, Listed(s), NEW ids, NEW ls \in Others(s, ids)
  PROVE  Through(ls, DOMAIN s \ Among(s, ids))
  <1>1. /\ ls \in [1 .. Cardinality(DOMAIN s \ Among(s, ids)) -> DOMAIN s \ Among(s, ids)]
        /\ \A i, j \in 1 .. Cardinality(DOMAIN s \ Among(s, ids)) : i < j => ls[i] < ls[j]
    BY Zenon DEF Sorted, Others
  <1>2. \A k \in DOMAIN s : ~(k < k)
    BY ListedUnits, Zenon
  <1>3. QED BY <1>1, <1>2, Zenon DEF Through

\* The members of a group are taken out of the order of work and put back once.
LEMMA GroupStep ==
  ASSUME ScheduleInv, group \in Nat \ {0}, Group
  PROVE  ScheduleInv'
  <1>1. /\ phase = "groups" /\ phase' = "groups" /\ UNCHANGED <<inputs, head>> /\ pass' = pass /\ op' = op
        /\ group <= Len(plan)
    BY Zenon DEF Group, placing
  <1>2. InputsOK' /\ PlacingInv' /\ op' = 1 /\ pass' = EmptyPass
    BY <1>1, Ordering
  <1>3. /\ Listed(head) /\ (\A k \in DOMAIN head : head[k].released > 0) /\ Unreleased(seq) /\ head' = head
    BY <1>1 DEF ScheduleInv, SequenceInv
  <1>4. PICK g \in [ids : Seq(Nat), day : Nat, before : Nat] : g = plan[group]
    <2>1. plan \in Seq([ids : Seq(Nat), day : Nat, before : Nat]) /\ group \in 1 .. Len(plan)
      BY <1>1 DEF ScheduleInv, InputsOK
    <2>2. QED BY <2>1, ElementOf
  <1>5. PICK s : s = seq
    OBVIOUS
  <1>6. PICK ks \in Members(s, g.ids), ls \in Others(s, g.ids) :
              LET members == [k \in DOMAIN ks |-> HeldTo(s[ks[k]], DayOf(g, s[ks[k]]))]
                  rest == [k \in DOMAIN ls |-> s[ls[k]]]
                  anchor == {k \in DOMAIN rest : g.before # 0 /\ rest[k].oid = g.before}
              IN  seq' = Put(rest, CutBefore(rest, anchor), members)
    BY <1>4, <1>5 DEF Group
  <1>24. PICK members : members = [k \in DOMAIN ks |-> HeldTo(s[ks[k]], DayOf(g, s[ks[k]]))]
    OBVIOUS
  <1>25. PICK rest : rest = [k \in DOMAIN ls |-> s[ls[k]]]
    OBVIOUS
  <1>26. PICK anchor : anchor = {k \in DOMAIN rest : g.before # 0 /\ rest[k].oid = g.before}
    OBVIOUS
  <1>27. PICK K : K = Among(s, g.ids)
    OBVIOUS
  <1>28. PICK L : L = DOMAIN s \ K
    OBVIOUS
  <1>7. K \subseteq DOMAIN s /\ L \subseteq DOMAIN s /\ K \cap L = {}
    BY <1>27, <1>28 DEF Among
  <1>8. Listed(s) /\ \A k \in DOMAIN s : s[k] \in RoutedUnit /\ s[k].released = 0
    BY <1>3, <1>5 DEF Unreleased, Listed
  <1>29. Through(ks, K) /\ Through(ls, L)
    BY <1>8, <1>27, <1>28, MembersAre, OthersAre
  <1>9. Listed(rest) /\ DOMAIN rest = DOMAIN ls /\ \A k \in DOMAIN rest : ls[k] \in L /\ rest[k] = s[ls[k]]
    <2>1. Selects(rest, s, ls)
      BY <1>25 DEF Selects
    <2>2. Listed(s) /\ L \subseteq DOMAIN s /\ Through(ls, L)
      BY <1>7, <1>8, <1>29
    <2>3. Listed(rest)
      BY <2>1, <2>2, Picked
    <2>4. DOMAIN rest = DOMAIN ls
      BY <2>1, <2>2, Picked
    <2>5. \A k \in DOMAIN rest : ls[k] \in L /\ rest[k] = s[ls[k]]
      BY <2>1, <2>2, Picked
    <2>6. QED BY <2>3, <2>4, <2>5
  <1>10. PICK mates : mates = [k \in DOMAIN ks |-> s[ks[k]]]
    OBVIOUS
  <1>11. Listed(mates) /\ DOMAIN mates = DOMAIN ks /\ \A k \in DOMAIN mates : ks[k] \in K /\ mates[k] = s[ks[k]]
    <2>1. Selects(mates, s, ks)
      BY <1>10 DEF Selects
    <2>2. Listed(s) /\ K \subseteq DOMAIN s /\ Through(ks, K)
      BY <1>7, <1>8, <1>29
    <2>3. Listed(mates)
      BY <2>1, <2>2, Picked
    <2>4. DOMAIN mates = DOMAIN ks
      BY <2>1, <2>2, Picked
    <2>5. \A k \in DOMAIN mates : ks[k] \in K /\ mates[k] = s[ks[k]]
      BY <2>1, <2>2, Picked
    <2>6. QED BY <2>3, <2>4, <2>5
  <1>12. \A k \in DOMAIN mates : mates[k] \in RoutedUnit /\ mates[k].released = 0 /\ DayOf(g, mates[k]) \in Nat
    <2> SUFFICES ASSUME NEW k \in DOMAIN mates
                 PROVE  mates[k] \in RoutedUnit /\ mates[k].released = 0 /\ DayOf(g, mates[k]) \in Nat
      OBVIOUS
    <2>1. mates[k] \in RoutedUnit /\ mates[k].released = 0
      BY <1>7, <1>8, <1>11
    <2>2. mates[k].plan \in Nat /\ mates[k].lotDay \in Nat
      BY <2>1, UnitFields
    <2>3. g.day \in Nat
      OBVIOUS
    <2>4. QED BY <2>1, <2>2, <2>3 DEF DayOf, Larger
  <1>13. /\ members = [k \in DOMAIN mates |-> members[k]] /\ DOMAIN members = DOMAIN mates
         /\ \A k \in DOMAIN mates : members[k] \in RoutedUnit /\ members[k].id = mates[k].id /\ members[k].released = 0
    <2>1. \A k \in DOMAIN mates : members[k] = HeldTo(mates[k], DayOf(g, mates[k]))
      BY <1>24, <1>11
    <2>2. ASSUME NEW k \in DOMAIN mates
          PROVE  /\ HeldTo(mates[k], DayOf(g, mates[k])) \in RoutedUnit
                 /\ HeldTo(mates[k], DayOf(g, mates[k])).id = mates[k].id
                 /\ HeldTo(mates[k], DayOf(g, mates[k])).released = 0
      <3>1. mates[k] \in RoutedUnit /\ mates[k].released = 0 /\ DayOf(g, mates[k]) \in Nat
        BY <1>12
      <3>2. QED BY <3>1, HeldToOK
    <2>3. members = [k \in DOMAIN ks |-> members[k]] /\ DOMAIN members = DOMAIN ks
      BY <1>24
    <2>4. QED BY <1>11, <2>1, <2>2, <2>3
  <1>14. Listed(members) /\ Ids(members) = Ids(mates)
    BY <1>11, <1>13, DecidedListed
  <1>15. Ids(rest) \subseteq Ids(s) /\ Ids(mates) \subseteq Ids(s) /\ Ids(rest) \cap Ids(mates) = {}
    <2>1. \A k \in DOMAIN rest : ls[k] \in DOMAIN s /\ rest[k] = s[ls[k]] /\ ls[k] \in L
      BY <1>7, <1>9
    <2>2. \A k \in DOMAIN mates : ks[k] \in DOMAIN s /\ mates[k] = s[ks[k]] /\ ks[k] \in K
      BY <1>7, <1>11
    <2>3. Ids(rest) \subseteq Ids(s)
      BY <2>1 DEF Ids
    <2>4. Ids(mates) \subseteq Ids(s)
      BY <2>2 DEF Ids
    <2>5. ASSUME NEW k \in DOMAIN rest, NEW l \in DOMAIN mates, rest[k].id = mates[l].id PROVE FALSE
      <3>1. ls[k] = ks[l]
        BY <1>8, <2>1, <2>2, <2>5 DEF Listed
      <3>2. QED BY <1>7, <2>1, <2>2, <3>1
    <2>6. Ids(rest) \cap Ids(mates) = {}
      BY <2>5 DEF Ids
    <2>7. QED BY <2>3, <2>4, <2>6
  <1>16. CutBefore(rest, anchor) \in 1 .. Len(rest) + 1
    BY <1>9, <1>26, CutIsInside
  <1>17. PICK r : r = Put(rest, CutBefore(rest, anchor), members)
    OBVIOUS
  <1>18. /\ Listed(r) /\ Ids(r) = Ids(rest) \cup Ids(members)
         /\ \A k \in DOMAIN r : (\E a \in DOMAIN rest : r[k] = rest[a]) \/ (\E a \in DOMAIN members : r[k] = members[a])
    BY <1>9, <1>14, <1>15, <1>16, <1>17, PutListed
  <1>19. \A k \in DOMAIN r : r[k].released = 0
    <2>1. \A a \in DOMAIN rest : rest[a].released = 0
      BY <1>7, <1>8, <1>9
    <2>2. \A a \in DOMAIN members : members[a].released = 0
      BY <1>13
    <2>3. QED BY <1>18, <2>1, <2>2
  <1>20. seq' = r
    BY <1>6, <1>17, <1>24, <1>25, <1>26
  <1>21. Unreleased(seq)'
    <2>1. Ids(r) \subseteq Ids(s) /\ Ids(s) \cap Ids(head) = {}
      BY <1>3, <1>5, <1>14, <1>15, <1>18 DEF Unreleased
    <2>2. QED BY <1>3, <1>18, <1>19, <1>20, <2>1 DEF Unreleased
  <1>22. SequenceInv'
    BY <1>1, <1>2, <1>3, <1>21 DEF SequenceInv
  <1>23. QED BY <1>1, <1>2, <1>22 DEF ScheduleInv, PullsHurtNobody

\* Released and other work is queued, each unit once, before anything is placed.
LEMMA SequencedStep ==
  ASSUME ScheduleInv, Sequenced
  PROVE  ScheduleInv'
  <1>1. /\ phase = "groups" /\ phase' = "place" /\ UNCHANGED <<inputs, head, seq, op, pass>>
        /\ queue' = head \o seq
    BY DEF Sequenced, WithReleased
  <1>2. InputsOK' /\ stops' = stops /\ StopsOK
    BY <1>1, InputsKept DEF ScheduleInv
  <1>3. /\ Listed(head) /\ (\A i \in DOMAIN head : head[i].released > 0) /\ Unreleased(seq)
        /\ op' = 1 /\ pass' = EmptyPass
    BY <1>1 DEF ScheduleInv, SequenceInv
  <1>4. SequenceInv'
    BY <1>1, <1>3 DEF SequenceInv, Unreleased
  <1>5. PICK q : q = queue'
    OBVIOUS
  <1>6. Listed(q)
    <2>1. PICK h : h = head
      OBVIOUS
    <2>2. PICK s : s = seq
      OBVIOUS
    <2>3. Listed(h) /\ Listed(s) /\ Ids(h) \cap Ids(s) = {}
      BY <1>3, <2>1, <2>2 DEF Unreleased
    <2>4. Listed(h \o s)
      BY <2>3, JoinedListed
    <2>5. QED BY <1>1, <1>5, <2>1, <2>2, <2>4
  <1>7. PICK p : p = pass' /\ p = EmptyPass
    BY <1>3
  <1>8. PassOK(p) /\ p.blocks = {}
    BY <1>7, EmptyPassOK DEF EmptyPass
  <1>9. PassOK(pass)'
    <2>1. PassOK(p)'
      BY <1>2, <1>8, SamePass
    <2>2. QED BY <1>7, <2>1 DEF PassOK, BlockOK
  <1>10. q # <<>> => 1 \in 1 .. Len(Routes[q[1].item]) /\ Upto(p, q[1], 1)
    <2> SUFFICES ASSUME q # <<>> PROVE 1 \in 1 .. Len(Routes[q[1].item])
      BY <1>8 DEF Upto
    <2>1. q[1] \in RoutedUnit
      BY <1>6, TailListed
    <2>2. Len(Routes[q[1].item]) \in Nat \ {0}
      BY <2>1, UnitFields
    <2>3. QED BY <2>2
  <1>11. Upto(pass, queue[1], op)' <=> Upto(p, q[1], 1)
    BY <1>3, <1>5, <1>7 DEF Upto
  <1>12. PlacingInv'
    BY <1>1, <1>3, <1>5, <1>6, <1>7, <1>8, <1>9, <1>10, <1>11 DEF PlacingInv
  <1>13. QED BY <1>1, <1>2, <1>4, <1>12 DEF ScheduleInv, PullsHurtNobody

\* The next operation is placed after the one before it.
LEMMA PlaceNextStep ==
  ASSUME ScheduleInv, PlaceNext
  PROVE  ScheduleInv'
  <1>1. /\ phase = "place" /\ phase' = "place" /\ UNCHANGED <<inputs, head, seq>> /\ queue # <<>>
        /\ pass' = Place(pass, Head(queue), op)
    BY DEF PlaceNext
  <1>2. InputsOK' /\ stops' = stops /\ StopsOK
    BY <1>1, InputsKept DEF ScheduleInv
  <1>3. SequenceInv'
    BY <1>1 DEF ScheduleInv, SequenceInv, Unreleased
  <1>4. PICK p : p = pass
    OBVIOUS
  <1>5. PICK w : w = queue
    OBVIOUS
  <1>6. PICK u : u = Head(w)
    OBVIOUS
  <1>7. PICK n : n = op
    OBVIOUS
  <1>8. Listed(w) /\ w # <<>> /\ PassOK(p)
        /\ \A b \in p.blocks : \A i \in DOMAIN w : b.unit.id = w[i].id => i = 1
    BY <1>1, <1>4, <1>5 DEF ScheduleInv, PlacingInv
  <1>9. /\ u \in RoutedUnit /\ u = w[1] /\ 1 \in DOMAIN w /\ Listed(Tail(w)) /\ Len(Tail(w)) = Len(w) - 1
        /\ \A i \in DOMAIN Tail(w) : i + 1 \in DOMAIN w /\ Tail(w)[i] = w[i + 1]
    BY <1>6, <1>8, TailListed
  <1>10. n \in 1 .. Len(Routes[u.item]) /\ Upto(p, u, n)
    BY <1>1, <1>4, <1>5, <1>7, <1>9 DEF ScheduleInv, PlacingInv
  <1>11. PICK q : q = Place(p, u, n)
    OBVIOUS
  <1>12. PICK m, from, run : /\ PassOK(q) /\ Upto(q, u, n + 1)
                             /\ q.blocks = p.blocks \cup {Block(u, n, m, from, run)}
    BY <1>2, <1>8, <1>9, <1>10, <1>11, PlaceOK
  <1>13. pass' = q
    BY <1>1, <1>4, <1>5, <1>6, <1>7, <1>11
  <1>14. \A b \in q.blocks : \A i \in DOMAIN w : b.unit.id = w[i].id => i = 1
    <2> SUFFICES ASSUME NEW b \in q.blocks, NEW i \in DOMAIN w, b.unit.id = w[i].id PROVE i = 1
      OBVIOUS
    <2>1. CASE b \in p.blocks
      BY <1>8, <2>1
    <2>2. CASE b = Block(u, n, m, from, run)
      <3>1. w[1].id = w[i].id
        BY <1>9, <2>2 DEF Block
      <3>2. QED BY <1>8, <1>9, <3>1 DEF Listed
    <2>3. QED BY <1>12, <2>1, <2>2
  <1>15. PassOK(pass)'
    <2>1. PassOK(q)'
      BY <1>2, <1>12, SamePass
    <2>2. QED BY <1>13, <2>1 DEF PassOK, BlockOK
  <1>16. CASE n < Len(Routes[u.item])
    <2>1. op' = n + 1 /\ queue' = w
      BY <1>5, <1>6, <1>7, <1>16 DEF PlaceNext
    <2>2. n + 1 \in 1 .. Len(Routes[u.item])
      BY <1>9, <1>10, <1>16, UnitFields
    <2>3. Upto(pass, queue[1], op)'
      BY <1>9, <1>12, <1>13, <2>1 DEF Upto
    <2>4. PlacingInv'
      BY <1>1, <1>8, <1>9, <1>13, <1>14, <1>15, <2>1, <2>2, <2>3 DEF PlacingInv
    <2>5. QED BY <1>1, <1>2, <1>3, <2>4 DEF ScheduleInv, PullsHurtNobody
  <1>17. CASE ~(n < Len(Routes[u.item]))
    <2>1. op' = 1 /\ queue' = Tail(w)
      BY <1>5, <1>6, <1>7, <1>17 DEF PlaceNext
    <2>2. PICK t : t = Tail(w)
      OBVIOUS
    <2>3. /\ Listed(t) /\ Len(w) \in Nat /\ DOMAIN w = 1 .. Len(w)
          /\ \A i \in DOMAIN t : i \in Nat \ {0} /\ i + 1 \in DOMAIN w /\ t[i] = w[i + 1]
      <3>1. Listed(t) /\ Len(w) \in Nat /\ DOMAIN w = 1 .. Len(w)
        BY <1>8, <1>9, <2>2 DEF Listed
      <3>2. \A i \in DOMAIN t : i \in Nat \ {0}
        BY <3>1 DEF Listed
      <3>3. QED BY <1>9, <2>2, <3>1, <3>2
    <2>4. \A b \in q.blocks : \A i \in DOMAIN t : b.unit.id # t[i].id
      <3> SUFFICES ASSUME NEW b \in q.blocks, NEW i \in DOMAIN t, b.unit.id = t[i].id PROVE FALSE
        OBVIOUS
      <3>1. i + 1 \in DOMAIN w /\ b.unit.id = w[i + 1].id /\ i \in Nat \ {0}
        BY <2>3
      <3>2. i + 1 = 1
        BY <1>14, <3>1
      <3>3. QED BY <3>1, <3>2
    <2>5. t # <<>> => 1 \in DOMAIN t /\ t[1] \in RoutedUnit /\ 1 \in 1 .. Len(Routes[t[1].item])
      <3> SUFFICES ASSUME t # <<>> PROVE 1 \in DOMAIN t /\ t[1] \in RoutedUnit /\ 1 \in 1 .. Len(Routes[t[1].item])
        OBVIOUS
      <3>1. 1 \in DOMAIN t /\ t[1] \in RoutedUnit
        BY <2>3, TailListed
      <3>2. Len(Routes[t[1].item]) \in Nat \ {0}
        BY <3>1, UnitFields
      <3>3. QED BY <3>1, <3>2
    <2>6. t # <<>> => Upto(q, t[1], 1)
      BY <2>4, <2>5 DEF Upto
    <2>7. Upto(pass, queue[1], op)' <=> Upto(q, t[1], 1)
      BY <1>13, <2>1, <2>2 DEF Upto
    <2>8. PlacingInv'
      BY <1>1, <1>13, <1>15, <2>1, <2>2, <2>3, <2>4, <2>5, <2>6, <2>7 DEF PlacingInv
    <2>9. QED BY <1>1, <1>2, <1>3, <2>8 DEF ScheduleInv, PullsHurtNobody
  <1>18. QED BY <1>16, <1>17

\* A quoted order gets a place in the book under an id of its own.
LEMMA QuoteStep ==
  ASSUME ScheduleInv, NEW item \in Items, NEW new \in NewIds, Quote(item, new)
  PROVE  ScheduleInv'
  <1>1. /\ phase = "place" /\ phase' = "sequence" /\ UNCHANGED <<stops, manual, plan>> /\ pass' = pass
        /\ \A u \in book : u.id # new
    BY DEF Quote, placing
  <1>2. PICK x \in Unit : book' = book \cup {x} /\ x.id = new
    <2>1. PICK now : now = head \o seq
      OBVIOUS
    <2>2. /\ new \in Nat /\ LastDay \in Nat
          /\ \A i \in DOMAIN now : now[i].oid \in Nat
          /\ DOMAIN now = 1 .. Len(now) /\ Len(now) \in Nat
      <3>1. PICK h : h = head
        OBVIOUS
      <3>2. PICK s : s = seq
        OBVIOUS
      <3>3. Listed(h) /\ Listed(s) /\ Ids(h) \cap Ids(s) = {}
        BY <1>1, <3>1, <3>2 DEF ScheduleInv, SequenceInv, Unreleased
      <3>4. now = h \o s /\ Listed(h \o s)
        BY <2>1, <3>1, <3>2, <3>3, JoinedListed
      <3>5. Listed(now)
        BY <3>4
      <3>6. \A i \in DOMAIN now : now[i] \in RoutedUnit
        BY <3>5 DEF Listed
      <3>7. \A i \in DOMAIN now : now[i].oid \in Nat
        BY <3>6, UnitFields
      <3>8. QED BY <3>5, <3>7, SchedulerAssumption DEF Listed
    <2> DEFINE u == [id |-> new, oid |-> new, item |-> item, qty |-> 1, due |-> 1, prom |-> 1, lot |-> 1,
                     lotDay |-> 1, front |-> FALSE, rush |-> TRUE, before |-> 0, alone |-> TRUE,
                     released |-> 0, hold |-> 0, plan |-> 0, manual |-> FALSE]
    <2>3. \E i \in 1 .. Len(now) + 1, day \in 1 .. LastDay :
             book' = book \cup {[u EXCEPT !.prom = day, !.before = IF i > Len(now) THEN 0 ELSE now[i].oid]}
      BY <2>1, Zenon DEF Quote, WithReleased
    <2>4. PICK i \in 1 .. Len(now) + 1, day \in 1 .. LastDay :
             book' = book \cup {[u EXCEPT !.prom = day, !.before = IF i > Len(now) THEN 0 ELSE now[i].oid]}
      BY <2>3
    <2>5. PICK a : a = IF i > Len(now) THEN 0 ELSE now[i].oid
      OBVIOUS
    <2>6. a \in Nat /\ day \in Nat
      BY <2>2, <2>5
    <2>7. PICK x : x = [u EXCEPT !.prom = day, !.before = a]
      OBVIOUS
    <2>8. x = [id |-> new, oid |-> new, item |-> item, qty |-> 1, due |-> 1, prom |-> day, lot |-> 1,
               lotDay |-> 1, front |-> FALSE, rush |-> TRUE, before |-> a, alone |-> TRUE,
               released |-> 0, hold |-> 0, plan |-> 0, manual |-> FALSE]
      BY <2>7
    <2>10. x \in Unit /\ x.id = new
      BY <2>2, <2>6, <2>8 DEF Unit
    <2>9. QED BY <2>4, <2>5, <2>7, <2>10
  <1>3. InputsOK'
    <2>1. IsFiniteSet(book) /\ book \subseteq Unit /\ \A u, v \in book : u.id = v.id => u = v
      BY DEF ScheduleInv, InputsOK
    <2>2. IsFiniteSet(book \cup {x})
      BY <2>1, FS_AddElement
    <2>3. \A u, v \in book \cup {x} : u.id = v.id => u = v
      BY <1>1, <1>2, <2>1
    <2>4. QED BY <1>1, <1>2, <2>1, <2>2, <2>3 DEF ScheduleInv, InputsOK
  <1>4. SequenceInv'
    BY <1>1 DEF ScheduleInv, SequenceInv
  <1>5. PlacingInv'
    BY <1>1, PlacingKept DEF ScheduleInv, PlacingInv
  <1>6. QED BY <1>1, <1>3, <1>4, <1>5 DEF ScheduleInv, PullsHurtNobody

-----------------------------------------------------------------------------
(* From the first state to the theorems.                                   *)

\* Nothing is read, ordered or placed at first.
LEMMA InitScheduleInv == InitCalculation => ScheduleInv
  <1> SUFFICES ASSUME InitCalculation PROVE ScheduleInv
    OBVIOUS
  <1>1. /\ stops = {} /\ manual = <<>> /\ plan = <<>> /\ book = {} /\ phase = "wait" /\ op = 1 /\ pass = EmptyPass
    BY DEF InitCalculation
  <1>2. InputsOK
    <2>1. IsFiniteSet(book)
      BY <1>1, FS_EmptySet
    <2>2. manual \in Seq(Nat) /\ plan \in Seq([ids : Seq(Nat), day : Nat, before : Nat])
      BY <1>1
    <2>3. QED BY <1>1, <2>1, <2>2 DEF InputsOK
  <1>3. SequenceInv
    BY <1>1 DEF SequenceInv
  <1>4. PlacingInv
    BY <1>1, EmptyPassOK DEF PlacingInv
  <1>5. QED BY <1>1, <1>2, <1>3, <1>4 DEF ScheduleInv, PullsHurtNobody

\* Nothing is on the machines, whenever they are stopped.
LEMMA NothingPlaced ==
  ASSUME NEW p, p.blocks = {}
  PROVE  PassOK(p)' <=> PassOK(p)
  BY DEF PassOK

\* Whatever is read is in order, and nothing is placed yet.
LEMMA StartScheduleStep ==
  ASSUME ScheduleInv, StartSchedule
  PROVE  ScheduleInv'
  <1>1. phase = "wait" /\ phase' = "sequence" /\ pass' = pass /\ op' = op
    BY DEF StartSchedule, placing
  <1>2. PICK c \in Cases : stops' = c.stops /\ manual' = c.manual /\ plan' = c.plan /\ book' = c.book
    BY DEF StartSchedule
  <1>3. InputsOK'
    <2>1. /\ IsFiniteSet(c.book) /\ \A u \in c.book : u \in Unit
          /\ \A u, v \in c.book : u.id = v.id => u = v
          /\ c.manual \in Seq(Nat)
          /\ \A x \in c.stops : x \in [machine : Lanes, from : Nat, to : 0 .. LastStop]
          /\ c.plan \in Seq([ids : Seq(Nat), day : Nat, before : Nat])
      BY SchedulerAssumption, Zenon
    <2>2. QED BY <1>2, <2>1 DEF InputsOK
  <1>4. SequenceInv'
    BY <1>1 DEF SequenceInv
  <1>5. PlacingInv'
    <2>1. PICK p : p = pass
      OBVIOUS
    <2>2. PassOK(p)
      BY <2>1 DEF ScheduleInv, PlacingInv
    <2>3. p.blocks = {}
      <3>1. pass = EmptyPass
        BY <1>1 DEF ScheduleInv, SequenceInv
      <3>2. QED BY <2>1, <3>1 DEF EmptyPass
    <2>4. PassOK(p)'
      BY <2>2, <2>3, NothingPlaced
    <2>5. PassOK(pass)'
      BY <1>1, <2>1, <2>4 DEF PassOK, BlockOK
    <2>6. QED BY <1>1, <2>5 DEF PlacingInv
  <1>6. QED BY <1>1, <1>3, <1>4, <1>5 DEF ScheduleInv, PullsHurtNobody

\* The steps of the buffers leave the schedule alone.
LEMMA ScheduleIdle ==
  ASSUME ScheduleInv, UNCHANGED schedule
  PROVE  ScheduleInv'
  <1>1. UNCHANGED <<inputs, head, phase, seq, todo, start, own, at, queue, op, pass>>
    BY DEF schedule, grouping, placing
  <1>2. InputsOK' /\ stops' = stops
    BY <1>1, InputsKept DEF ScheduleInv
  <1>3. SequenceInv'
    BY <1>1 DEF ScheduleInv, SequenceInv, Unreleased
  <1>4. PICK p : p = pass
    OBVIOUS
  <1>5. PassOK(pass)'
    <2>1. PassOK(p)'
      BY <1>2, <1>4, SamePass DEF ScheduleInv, PlacingInv
    <2>2. QED BY <1>1, <1>4, <2>1 DEF PassOK, BlockOK
  <1>6. Upto(pass, queue[1], op)' <=> Upto(pass, queue[1], op)
    BY <1>1 DEF Upto
  <1>7. PlacingInv'
    BY <1>1, <1>5, <1>6 DEF ScheduleInv, PlacingInv
  <1>8. PullsHurtNobody'
    <2>1. PICK h : h = head
      OBVIOUS
    <2>2. PICK s : s = seq
      OBVIOUS
    <2>3. PICK t : t = start
      OBVIOUS
    <2>4. phase \in {"land", "pull"} => HurtsNobody(ForwardPass(h \o t), ForwardPass(h \o s), h \o s)
      BY <2>1, <2>2, <2>3 DEF ScheduleInv, PullsHurtNobody
    <2>5. (HurtsNobody(ForwardPass(head \o start), ForwardPass(head \o seq), head \o seq))'
            <=> HurtsNobody(ForwardPass(h \o t), ForwardPass(h \o s), h \o s)
      BY <1>1, <1>2, <2>1, <2>2, <2>3, PullsSame
    <2>6. QED BY <1>1, <2>4, <2>5 DEF PullsHurtNobody
  <1>9. QED BY <1>2, <1>3, <1>7, <1>8 DEF ScheduleInv

\* The planner's groups are taken from the first.
GroupCounts == group \in Nat \ {0}

\* Groups are counted up, or from the first again.
LEMMA GroupCountsStep ==
  ASSUME GroupCounts, NextCalculation \/ UNCHANGED schedule
  PROVE  GroupCounts'
  <1>1. group' \in {group, group + 1, 1}
    BY DEF NextCalculation, CalculateBuffers, SaveResults, StartSchedule, CalculateSchedule, NextSchedule, schedule,
           BeginSequence, Insert, Rush, Pull, Landed, Grouped, Release, Group, Sequenced, PlaceNext, Quote
  <1>2. QED BY <1>1 DEF GroupCounts

\* Every step of the scheduler keeps the invariant.
LEMMA ScheduleStep ==
  ASSUME ScheduleInv, GroupCounts, NextSchedule
  PROVE  ScheduleInv'
  <1>1. CASE BeginSequence
    BY <1>1, BeginSequenceStep DEF ScheduleInv
  <1>2. CASE Insert
    BY <1>2, InsertStep
  <1>3. CASE Rush
    BY <1>3, RushStep
  <1>4. CASE Pull
    BY <1>4, PullStep
  <1>5. CASE Landed
    BY <1>5, LandedStep
  <1>6. CASE Grouped
    BY <1>6, GroupedStep
  <1>7. CASE Release
    BY <1>7, ReleaseStep
  <1>8. CASE Group
    BY <1>8, GroupStep DEF GroupCounts
  <1>9. CASE Sequenced
    BY <1>9, SequencedStep
  <1>10. CASE PlaceNext
    BY <1>10, PlaceNextStep
  <1>11. ASSUME NEW item \in Items, NEW new \in NewIds, Quote(item, new) PROVE ScheduleInv'
    BY <1>11, QuoteStep
  <1>12. QED BY <1>1, <1>2, <1>3, <1>4, <1>5, <1>6, <1>7, <1>8, <1>9, <1>10, <1>11 DEF NextSchedule

\* The invariant holds in every reachable state, for any routes, machines, stops,
\* book, plan of the planner and quotes: units are in the order of work once,
\* nothing is placed before its turn, and what is on the machines is in order.
THEOREM ScheduleInvariance == SpecCalculation => [](ScheduleInv /\ GroupCounts)
  <1>1. InitCalculation => ScheduleInv /\ GroupCounts
    BY InitScheduleInv DEF InitCalculation, GroupCounts
  <1>2. ScheduleInv /\ GroupCounts /\ [NextCalculation]_<<buffers, schedule>> => (ScheduleInv /\ GroupCounts)'
    <2> SUFFICES ASSUME ScheduleInv, GroupCounts, [NextCalculation]_<<buffers, schedule>>
                 PROVE  ScheduleInv' /\ GroupCounts'
      OBVIOUS
    <2>1. GroupCounts'
      BY GroupCountsStep
    <2>2. CASE StartSchedule
      BY <2>1, <2>2, StartScheduleStep
    <2>3. CASE CalculateSchedule
      BY <2>1, <2>3, ScheduleStep DEF CalculateSchedule
    <2>4. CASE UNCHANGED schedule
      BY <2>1, <2>4, ScheduleIdle
    <2>5. QED BY <2>1, <2>2, <2>3, <2>4 DEF NextCalculation, CalculateBuffers, SaveResults
  <1>3. QED BY <1>1, <1>2, PTL DEF SpecCalculation

\* Two operations never share a machine, and it is changed over in full between
\* items that differ, whatever the order of work (allocate, forwardPass).
THEOREM OneAtATime == SpecCalculation => []MachineSerial
  <1>1. ScheduleInv => MachineSerial
    <2> SUFFICES ASSUME ScheduleInv, NEW b \in pass.blocks, NEW c \in pass.blocks, b.machine = c.machine, b # c
                 PROVE  LET gap == IF b.unit.item = c.unit.item THEN 0 ELSE Changeover[b.machine[1]]
                        IN  b.finish + gap <= c.start \/ c.finish + gap <= b.start
      BY DEF MachineSerial
    <2>1. Before(b, c) \/ Before(c, b)
      BY DEF ScheduleInv, PlacingInv, PassOK
    <2>2. QED BY <2>1 DEF Before
  <1>2. QED BY <1>1, ScheduleInvariance, PTL

\* Operations of a unit follow one another, never run into a stop and never begin
\* before the day the unit is released for (forwardPass, afterDowntime).
THEOREM InOrderAndInTime == SpecCalculation => []WorkInTime
  <1>1. ScheduleInv => WorkInTime
    BY DEF ScheduleInv, PlacingInv, PassOK, BlockOK, WorkInTime
  <1>2. QED BY <1>1, ScheduleInvariance, PTL

\* However many pulls are accepted, the clubs make no order late that was in time
\* without them, or later than it was (groupedSequence).
THEOREM ClubsHurtNobody == SpecCalculation => []PullsHurtNobody
  <1>1. ScheduleInv => PullsHurtNobody
    BY DEF ScheduleInv
  <1>2. QED BY <1>1, ScheduleInvariance, PTL

-----------------------------------------------------------------------------
(* Released work.                                                          *)

\* What is placed stays placed while the operations of a unit are added.
LEMMA PlacingsGrow ==
  ASSUME NEW p, NEW u \in RoutedUnit, NEW n \in 0 .. Len(Routes[u.item])
  PROVE  Placings(p, u)[n].blocks \subseteq PlaceUnit(p, u).blocks
  <1>1. PICK f : f = Placings(p, u)
    OBVIOUS
  <1>2. PICK N \in Nat : N = Len(Routes[u.item])
    BY UnitFields
  <1>3. \A k \in 1 .. N : f[k] = Place(f[k - 1], u, k)
    BY <1>1, <1>2, PlacingsAre
  <1>4. ASSUME NEW k \in 1 .. N PROVE f[k - 1].blocks \subseteq f[k].blocks
    <2>1. PICK q : q = f[k - 1]
      OBVIOUS
    <2>2. q.blocks \subseteq Place(q, u, k).blocks
      BY DEF Place
    <2>3. QED BY <1>3, <2>1, <2>2
  <1> DEFINE S == {k \in 0 .. N : \A j \in 0 .. k : f[j].blocks \subseteq f[k].blocks}
  <1>5. 0 \in S
    <2>1. \A j \in 0 .. 0 : f[j].blocks \subseteq f[0].blocks
      OBVIOUS
    <2>2. QED BY <2>1
  <1>6. ASSUME NEW k \in 1 .. N, k - 1 \in S PROVE k \in S
    <2>1. f[k - 1].blocks \subseteq f[k].blocks
      BY <1>4
    <2>2. \A j \in 0 .. k - 1 : f[j].blocks \subseteq f[k - 1].blocks
      BY <1>6
    <2>3. ASSUME NEW j \in 0 .. k PROVE f[j].blocks \subseteq f[k].blocks
      <3>1. j = k \/ j \in 0 .. k - 1
        OBVIOUS
      <3>2. QED BY <2>1, <2>2, <3>1
    <2>4. QED BY <2>3
  <1>7. \A k \in 0 .. N : k \in S
    <2> HIDE DEF S
    <2>1. QED BY <1>5, <1>6, UpTo
  <1>8. N \in S /\ n \in 0 .. N
    BY <1>2, <1>7
  <1>9. f[n].blocks \subseteq f[N].blocks
    BY <1>8
  <1>10. QED BY <1>1, <1>2, <1>9 DEF PlaceUnit

\* The released units up to the i-th are placed as they are without the others.
LEMMA PassedGrow ==
  ASSUME StopsOK, NEW h, Listed(h), NEW i \in DOMAIN h
  PROVE  /\ Passes(h)[i] = PlaceUnit(Passes(h)[i - 1], h[i])
         /\ Passes(h)[i].blocks \subseteq ForwardPass(h).blocks
  <1>1. h \in Seq(RoutedUnit) /\ Len(h) \in Nat /\ i \in 1 .. Len(h) /\ Len(h) \in 0 .. Len(h) /\ i \in 0 .. Len(h)
    BY DEF Listed
  <1>2. Passes(h)[i] = PlaceUnit(Passes(h)[i - 1], h[i])
    BY <1>1, PassesAre
  <1>3. Passes(h)[i].blocks \subseteq Passes(h)[Len(h)].blocks
    BY <1>1, PassesOK
  <1>4. QED BY <1>2, <1>3 DEF ForwardPass

\* The work of the released units is the same while the stops are.
LEMMA SameHead ==
  ASSUME stops' = stops, NEW h, NEW q, NEW o, NEW p
  PROVE  /\ PlacingHead(h, q, o, p)' <=> PlacingHead(h, q, o, p)
         /\ HeadPlaced(h, q, p)' <=> HeadPlaced(h, q, p)
  <1>1. PlacingHead(h, q, o, p)' <=> PlacingHead(h, q, o, p)
    BY SMT DEF PlacingHead, Place, AfterDowntime, Runs, Passes, PlaceUnit, Placings
  <1>2. HeadPlaced(h, q, p)' <=> HeadPlaced(h, q, p)
    BY SMT DEF HeadPlaced, Place, AfterDowntime, Runs, ForwardPass, Passes, PlaceUnit, Placings
  <1>3. QED BY <1>1, <1>2

\* The released units are queued first.
LEMMA HeadSequenced ==
  ASSUME ScheduleInv, Sequenced
  PROVE  HeadInv'
  <1>1. /\ phase = "groups" /\ queue' = head \o seq /\ op' = 1 /\ pass' = EmptyPass /\ head' = head
        /\ UNCHANGED inputs
    BY DEF Sequenced, WithReleased, ScheduleInv, SequenceInv
  <1>2. InputsOK' /\ stops' = stops /\ StopsOK
    BY <1>1, InputsKept DEF ScheduleInv
  <1>3. PICK h : h = head
    OBVIOUS
  <1>4. PICK s : s = seq
    OBVIOUS
  <1>5. Listed(h) /\ Listed(s) /\ Ids(h) \cap Ids(s) = {} /\ \A i \in DOMAIN s : s[i].released = 0
    BY <1>1, <1>3, <1>4 DEF ScheduleInv, SequenceInv, Unreleased
  <1>6. /\ h \in Seq(RoutedUnit) /\ Len(h) \in Nat /\ DOMAIN h = 1 .. Len(h)
        /\ Len(s) \in Nat /\ DOMAIN s = 1 .. Len(s)
    BY <1>5 DEF Listed
  <1>7. PICK q : q = h \o s
    OBVIOUS
  <1>8. /\ Len(q) = Len(h) + Len(s) /\ DOMAIN q = 1 .. Len(q)
        /\ \A k \in 1 .. Len(h) : q[k] = h[k]
        /\ \A k \in Len(h) + 1 .. Len(h) + Len(s) : q[k] = s[k - Len(h)]
    BY <1>5, <1>7, JoinedListed DEF Listed
  <1>9. ASSUME NEW k \in DOMAIN q, k > Len(h) PROVE q[k].released = 0
    <2>1. k \in Len(h) + 1 .. Len(h) + Len(s) /\ k - Len(h) \in DOMAIN s
      BY <1>6, <1>8, <1>9
    <2>2. QED BY <1>5, <1>8, <2>1
  <1>10. CASE Len(h) = 0
    <2>1. \A k \in DOMAIN q : q[k].released = 0
      BY <1>8, <1>9, <1>10
    <2>2. HeadPlaced(h, q, EmptyPass)
      BY <2>1 DEF HeadPlaced, EmptyPass
    <2>3. HeadPlaced(h, q, EmptyPass)'
      BY <1>2, <2>2, SameHead DEF EmptyPass
    <2>4. HeadPlaced(head, queue, pass)'
      BY <1>1, <1>3, <1>4, <1>7, <2>3
    <2>5. QED BY <2>4 DEF HeadInv
  <1>11. CASE Len(h) # 0
    <2>1. 1 \in DOMAIN h /\ h[1] \in RoutedUnit
      BY <1>6, <1>11
    <2>2. /\ Passes(h)[0] = EmptyPass /\ Placings(EmptyPass, h[1])[0] = EmptyPass
          /\ Len(Routes[h[1].item]) \in Nat \ {0}
      BY <1>6, <2>1, PassesAre, PlacingsAre, UnitFields
    <2>3. PlacingHead(h, q, 1, EmptyPass)
      <3>1. Len(h) - 1 + 1 <= Len(q)
        BY <1>6, <1>8
      <3>2. ASSUME NEW k \in DOMAIN q
            PROVE  IF k <= Len(h) - 1 + 1 THEN q[k] = h[1 + k - 1] ELSE q[k].released = 0
        BY <1>6, <1>8, <1>9
      <3>3. 1 \in 1 .. Len(Routes[h[1].item])
        BY <2>2
      <3>4. EmptyPass = Placings(Passes(h)[1 - 1], h[1])[1 - 1]
        BY <2>2
      <3>5. QED BY <2>1, <3>1, <3>2, <3>3, <3>4 DEF PlacingHead
    <2>4. PICK e : e = EmptyPass
      OBVIOUS
    <2>5. PlacingHead(h, q, 1, e)'
      BY <1>2, <2>3, <2>4, SameHead
    <2>6. PlacingHead(head, queue, op, pass)'
      BY <1>1, <1>3, <1>4, <1>7, <2>4, <2>5
    <2>7. QED BY <2>6 DEF HeadInv
  <1>12. QED BY <1>10, <1>11

\* Placing adds an operation of that unit only.
LEMMA PlaceAdds ==
  ASSUME StopsOK, NEW p, PassOK(p), NEW u \in RoutedUnit, NEW n \in 1 .. Len(Routes[u.item]), Upto(p, u, n),
         NEW b \in Place(p, u, n).blocks
  PROVE  b \in p.blocks \/ b.unit = u
  <1>1. PICK m, from, run : Place(p, u, n).blocks = p.blocks \cup {Block(u, n, m, from, run)}
    BY PlaceOK
  <1>2. Block(u, n, m, from, run).unit = u
    BY DEF Block
  <1>3. QED BY <1>1, <1>2

\* Counting from the next released unit.
LEMMA NextPlace ==
  ASSUME NEW l \in Nat, NEW i \in Nat, NEW k \in Nat
  PROVE  i + (k + 1) - 1 = (i + 1) + k - 1 /\ (k + 1 <= l - i + 1 <=> k <= l - (i + 1) + 1)
  OBVIOUS

\* Released units are placed one after the other, then the others.
LEMMA HeadPlaceNext ==
  ASSUME ScheduleInv, HeadInv, PlaceNext
  PROVE  HeadInv'
  <1>1. /\ phase = "place" /\ phase' = "place" /\ UNCHANGED <<inputs, head>> /\ queue # <<>>
        /\ pass' = Place(pass, Head(queue), op)
    BY DEF PlaceNext
  <1>2. InputsOK' /\ stops' = stops /\ StopsOK
    BY <1>1, InputsKept DEF ScheduleInv
  <1>3. PICK h : h = head
    OBVIOUS
  <1>4. PICK p : p = pass
    OBVIOUS
  <1>5. PICK w : w = queue
    OBVIOUS
  <1>6. PICK u : u = Head(w)
    OBVIOUS
  <1>7. PICK n : n = op
    OBVIOUS
  <1>8. Listed(h) /\ Listed(w) /\ w # <<>> /\ PassOK(p)
    BY <1>1, <1>3, <1>4, <1>5 DEF ScheduleInv, SequenceInv, PlacingInv
  <1>9. /\ u \in RoutedUnit /\ u = w[1] /\ 1 \in DOMAIN w /\ Listed(Tail(w)) /\ Len(Tail(w)) = Len(w) - 1
        /\ \A i \in DOMAIN Tail(w) : i + 1 \in DOMAIN w /\ Tail(w)[i] = w[i + 1]
    BY <1>6, <1>8, TailListed
  <1>10. n \in 1 .. Len(Routes[u.item]) /\ Upto(p, u, n) /\ Len(Routes[u.item]) \in Nat \ {0}
    BY <1>1, <1>4, <1>5, <1>7, <1>9, UnitFields DEF ScheduleInv, PlacingInv
  <1>11. PICK q : q = Place(p, u, n)
    OBVIOUS
  <1>12. pass' = q
    BY <1>1, <1>4, <1>5, <1>6, <1>7, <1>11
  <1>13. PICK t : t = Tail(w)
    OBVIOUS
  <1>14. \/ n < Len(Routes[u.item]) /\ op' = n + 1 /\ queue' = w
         \/ n = Len(Routes[u.item]) /\ op' = 1 /\ queue' = t
    <2>1. n < Len(Routes[u.item]) \/ n = Len(Routes[u.item])
      BY <1>10
    <2>2. QED BY <2>1, <1>5, <1>6, <1>7, <1>13 DEF PlaceNext
  <1>15. /\ Len(h) \in Nat /\ DOMAIN h = 1 .. Len(h) /\ Len(w) \in Nat \ {0} /\ DOMAIN w = 1 .. Len(w)
         /\ Len(t) = Len(w) - 1 /\ DOMAIN t = 1 .. Len(t) /\ \A i \in DOMAIN t : t[i] = w[i + 1] /\ i + 1 \in DOMAIN w
         /\ \A i \in DOMAIN h : h[i] \in RoutedUnit
    BY <1>8, <1>9, <1>13 DEF Listed
  <1>16. CASE HeadPlaced(h, w, p)
    <2>1. u.released = 0 /\ \A k \in DOMAIN t : t[k].released = 0
      BY <1>9, <1>15, <1>16 DEF HeadPlaced
    <2>2. \A b \in q.blocks : b \in p.blocks \/ b.unit = u
      BY <1>2, <1>8, <1>9, <1>10, <1>11, PlaceAdds
    <2>4. HeadPlaced(h, w, q) /\ HeadPlaced(h, t, q)
      BY <1>16, <2>1, <2>2 DEF HeadPlaced
    <2>5. HeadPlaced(h, w, q)' /\ HeadPlaced(h, t, q)'
      BY <1>2, <2>4, SameHead
    <2>6. HeadPlaced(head, queue, pass)'
      BY <1>1, <1>3, <1>12, <1>14, <2>5
    <2>7. QED BY <2>6 DEF HeadInv
  <1>17. CASE PlacingHead(h, w, n, p)
    <2>1. PICK i \in DOMAIN h :
            /\ Len(h) - i + 1 <= Len(w)
            /\ \A k \in DOMAIN w : IF k <= Len(h) - i + 1 THEN w[k] = h[i + k - 1] ELSE w[k].released = 0
            /\ n \in 1 .. Len(Routes[h[i].item]) /\ p = Placings(Passes(h)[i - 1], h[i])[n - 1]
      BY <1>17 DEF PlacingHead
    <2>2. i \in 1 .. Len(h) /\ u = h[i]
      BY <1>9, <1>15, <2>1
    <2>3. PICK b : b = Passes(h)[i - 1]
      OBVIOUS
    <2>4. q = Placings(b, u)[n]
      <3>1. Placings(b, u)[n] = Place(Placings(b, u)[n - 1], u, n)
        BY <1>9, <1>10, PlacingsAre
      <3>2. p = Placings(b, u)[n - 1]
        BY <2>1, <2>2, <2>3
      <3>3. QED BY <1>11, <3>1, <3>2
    <2>5. CASE n < Len(Routes[u.item]) /\ op' = n + 1 /\ queue' = w
      <3>1. n + 1 \in 1 .. Len(Routes[h[i].item]) /\ q = Placings(Passes(h)[i - 1], h[i])[n + 1 - 1]
        BY <1>10, <2>2, <2>3, <2>4, <2>5
      <3>2. PlacingHead(h, w, n + 1, q)
        BY <2>1, <3>1 DEF PlacingHead
      <3>3. PICK o : o = n + 1
        OBVIOUS
      <3>4. PlacingHead(h, w, o, q)'
        BY <1>2, <3>2, <3>3, SameHead
      <3>5. PlacingHead(head, queue, op, pass)'
        BY <1>1, <1>3, <1>12, <2>5, <3>3, <3>4
      <3>6. QED BY <3>5 DEF HeadInv
    <2>6. CASE n = Len(Routes[u.item]) /\ op' = 1 /\ queue' = t
      <3>1. Passes(h)[i] = PlaceUnit(b, u) /\ Passes(h)[i].blocks \subseteq ForwardPass(h).blocks
        BY <1>2, <1>8, <2>2, <2>3, PassedGrow
      <3>2. q = Passes(h)[i]
        BY <2>4, <2>6, <3>1 DEF PlaceUnit
      <3>3. CASE i = Len(h)
        <4>1. ASSUME NEW k \in DOMAIN t PROVE t[k].released = 0
          <5>1. k + 1 \in DOMAIN w /\ t[k] = w[k + 1] /\ k \in Nat \ {0} /\ ~(k + 1 <= Len(h) - i + 1)
            BY <1>15, <3>3
          <5>2. QED BY <2>1, <5>1
        <4>2. HeadPlaced(h, t, q)
          BY <3>1, <3>2, <4>1 DEF HeadPlaced
        <4>3. HeadPlaced(h, t, q)'
          BY <1>2, <4>2, SameHead
        <4>4. HeadPlaced(head, queue, pass)'
          BY <1>1, <1>3, <1>12, <2>6, <4>3
        <4>5. QED BY <4>4 DEF HeadInv
      <3>4. CASE i # Len(h)
        <4>1. PICK j \in DOMAIN h : j = i + 1 /\ j - 1 = i
          BY <1>15, <2>2, <3>4
        <4>2. Len(h) - j + 1 <= Len(t)
          BY <1>15, <2>1, <2>2, <4>1
        <4>3. ASSUME NEW k \in DOMAIN t
              PROVE  IF k <= Len(h) - j + 1 THEN t[k] = h[j + k - 1] ELSE t[k].released = 0
          <5>1. k + 1 \in DOMAIN w /\ t[k] = w[k + 1] /\ k \in Nat \ {0}
            BY <1>15
          <5>2. IF k + 1 <= Len(h) - i + 1 THEN w[k + 1] = h[i + (k + 1) - 1] ELSE w[k + 1].released = 0
            BY <2>1, <5>1
          <5>3. i + (k + 1) - 1 = j + k - 1 /\ (k + 1 <= Len(h) - i + 1 <=> k <= Len(h) - j + 1)
            <6>1. Len(h) \in Nat /\ i \in Nat /\ k \in Nat /\ j = i + 1
              BY <1>15, <2>2, <4>1, <5>1
            <6>2. QED BY <6>1, NextPlace
          <5>4. QED BY <5>1, <5>2, <5>3
        <4>4. h[j] \in RoutedUnit /\ 1 \in 1 .. Len(Routes[h[j].item])
          <5>1. h[j] \in RoutedUnit
            BY <1>15
          <5>2. QED BY <5>1, UnitFields
        <4>5. q = Placings(Passes(h)[j - 1], h[j])[1 - 1]
          BY <3>2, <4>1, <4>4, PlacingsAre
        <4>6. PlacingHead(h, t, 1, q)
          BY <4>2, <4>3, <4>4, <4>5 DEF PlacingHead
        <4>7. PlacingHead(h, t, 1, q)'
          BY <1>2, <4>6, SameHead
        <4>8. PlacingHead(head, queue, op, pass)'
          BY <1>1, <1>3, <1>12, <2>6, <4>7
        <4>9. QED BY <4>8 DEF HeadInv
      <3>5. QED BY <3>3, <3>4
    <2>7. QED BY <1>14, <2>5, <2>6
  <1>18. QED BY <1>1, <1>3, <1>4, <1>5, <1>7, <1>16, <1>17 DEF HeadInv

\* Only queueing and placing touch what is placed.
LEMMA HeadStep ==
  ASSUME ScheduleInv, HeadInv, NextCalculation \/ UNCHANGED schedule
  PROVE  HeadInv'
  <1>1. CASE phase' # "place"
    BY <1>1 DEF HeadInv
  <1>2. CASE Sequenced
    BY <1>2, HeadSequenced
  <1>3. CASE PlaceNext
    BY <1>3, HeadPlaceNext
  <1>4. CASE UNCHANGED schedule
    <2>1. UNCHANGED <<inputs, head, queue, op, pass, phase>>
      BY <1>4 DEF schedule, placing
    <2>2. stops' = stops
      BY <2>1 DEF inputs
    <2>3. PICK h : h = head
      OBVIOUS
    <2>4. PICK w : w = queue
      OBVIOUS
    <2>5. PICK p : p = pass
      OBVIOUS
    <2>6. PICK o : o = op
      OBVIOUS
    <2>7. phase = "place" => PlacingHead(h, w, o, p)' \/ HeadPlaced(h, w, p)'
      BY <2>2, <2>3, <2>4, <2>5, <2>6, SameHead DEF HeadInv
    <2>8. phase = "place" => PlacingHead(head, queue, op, pass)' \/ HeadPlaced(head, queue, pass)'
      BY <2>1, <2>3, <2>4, <2>5, <2>6, <2>7
    <2>9. QED BY <2>1, <2>8 DEF HeadInv
  <1>5. CASE /\ NextCalculation /\ phase' = "place" /\ ~Sequenced /\ ~PlaceNext
    <2>1. UNCHANGED schedule
      BY <1>5 DEF NextCalculation, CalculateBuffers, SaveResults, StartSchedule, CalculateSchedule, NextSchedule,
                  BeginSequence, Insert, Rush, Pull, Landed, Grouped, Release, Group, Quote
    <2>2. QED BY <1>4, <2>1
  <1>6. QED BY <1>1, <1>2, <1>3, <1>4, <1>5

\* While operations are placed, the machines hold what the released units up to
\* there, and no others, would put on them.
THEOREM HeadFirst == SpecCalculation => []HeadInv
  <1>1. InitCalculation => HeadInv
    BY DEF InitCalculation, HeadInv
  <1>2. ScheduleInv /\ HeadInv /\ [NextCalculation]_<<buffers, schedule>> => HeadInv'
    BY HeadStep
  <1>3. QED BY <1>1, <1>2, ScheduleInvariance, PTL DEF SpecCalculation

\* Released work keeps the times it has without the rest of the book, whatever is
\* clubbed, rushed, grouped or ordered by hand around it (schedulePlant).
THEOREM ReleasedFirst == SpecCalculation => []ReleasedKeepsTimes
  <1>1. ScheduleInv /\ HeadInv => ReleasedKeepsTimes
    <2> SUFFICES ASSUME ScheduleInv, HeadInv, phase = "place", NEW b \in pass.blocks, b.unit.released > 0
                 PROVE  b \in ForwardPass(head).blocks
      BY DEF ReleasedKeepsTimes
    <2>1. CASE HeadPlaced(head, queue, pass)
      BY <2>1 DEF HeadPlaced
    <2>2. CASE PlacingHead(head, queue, op, pass)
      <3>1. PICK i \in DOMAIN head : /\ op \in 1 .. Len(Routes[head[i].item])
                                     /\ pass = Placings(Passes(head)[i - 1], head[i])[op - 1]
        BY <2>2 DEF PlacingHead
      <3>2. Listed(head) /\ StopsOK
        BY DEF ScheduleInv, SequenceInv, InputsOK, StopsOK
      <3>3. PICK u \in RoutedUnit : u = head[i]
        BY <3>2 DEF Listed
      <3>4. PICK k \in 0 .. Len(Routes[u.item]) : k = op - 1
        BY <3>1, <3>3, UnitFields
      <3>5. PICK p : p = Passes(head)[i - 1]
        OBVIOUS
      <3>6. pass = Placings(p, u)[k]
        BY <3>1, <3>3, <3>4, <3>5
      <3>7. pass.blocks \subseteq PlaceUnit(p, u).blocks
        BY <3>6, PlacingsGrow
      <3>8. PlaceUnit(p, u).blocks \subseteq ForwardPass(head).blocks
        BY <3>2, <3>3, <3>5, PassedGrow
      <3>9. QED BY <3>7, <3>8
    <2>3. QED BY <2>1, <2>2 DEF HeadInv
  <1>2. QED BY <1>1, ScheduleInvariance, HeadFirst, PTL

=============================================================================
