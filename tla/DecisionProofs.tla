--------------------------- MODULE DecisionProofs ---------------------------
(***************************************************************************)
(* Proofs about what planners and buyers decide, for any constants: the    *)
(* publication of plans and the decisions taken on them (Publication), and *)
(* what is asked of suppliers and plants for them (Expedites).  Each part  *)
(* has an inductive invariant and the safety properties that follow.       *)
(***************************************************************************)
EXTENDS Publication, Expedites, FiniteSetTheorems, TLAPS

(***************************************************************************)
(* Publications and decisions.                                             *)
(***************************************************************************)

Publications == [plant: Plants, run: RunNos, at: 1 .. MaxCalls]
Decisions == [plant: Plants, run: RunNos, kind: Kinds, seen: 0 .. MaxDecisions,
              afterFailure: BOOLEAN]

\* What has been recorded, and how much.
RecordsInv ==
  /\ publications \in Seq(Publications)
  /\ decisions \in Seq(Decisions) /\ Len(decisions) <= MaxDecisions
  /\ \A p \in Plants : version[p] <= Len(decisions)

\* The queued run is the newest one; everything that happened rests on the
\* current run or on an older one.
RunsInv ==
  /\ current <= lastRun /\ failed <= lastRun
  /\ queued # 0 => queued = lastRun /\ current < queued /\ failed < queued
  /\ \A i \in DOMAIN decisions : decisions[i].run <= current
  /\ \A i \in DOMAIN publications : publications[i].run <= current
  /\ \A u \in Planners : screen[u] # NoScreen => screen[u].run <= current

\* A decision makes its run stale until a newer one takes over or fails.
StaleInv ==
  \A i \in DOMAIN decisions :
    decisions[i].run = current => marked \/ queued # 0 \/ failed > current

\* Whoever previews a plan of the current version has seen all plans of the plant.
ScreenInv ==
  \A u \in Planners : screen[u] # NoScreen /\ screen[u].step = "preview" =>
    /\ screen[u].version <= version[screen[u].plant]
    /\ screen[u].version = version[screen[u].plant] =>
         \A i \in DOMAIN decisions :
           decisions[i].kind = "plan" /\ decisions[i].plant = screen[u].plant
             => i <= screen[u].seen

\* Publish requests begin one after the other; one that began before a
\* publication of its plant reviewed no newer run than was published.
CallsInv ==
  /\ \A u \in Planners : call[u] <= clock /\ (call[u] # 0 => screen[u] # NoScreen)
  /\ \A u, v \in Planners : u # v /\ call[u] # 0 => call[u] # call[v]
  /\ \A i \in DOMAIN publications : publications[i].at <= clock
  /\ \A u \in Planners, i \in DOMAIN publications :
       call[u] # 0 => publications[i].at # call[u]
  /\ \A u \in Planners, i \in DOMAIN publications :
       call[u] # 0 /\ publications[i].plant = screen[u].plant /\ call[u] < publications[i].at
         => screen[u].run <= publications[i].run

\* i is the newest publication of p.
IsNewest(i, p) ==
  /\ i \in DOMAIN publications /\ publications[i].plant = p
  /\ \A j \in DOMAIN publications : publications[j].plant = p =>
       publications[j].at <= publications[i].at

\* A plant that has publications has a newest one, whose schedule is kept.
NewestInv ==
  \A p \in Plants : Published(p) # {} =>
    \E i \in DOMAIN publications : IsNewest(i, p) /\ publications[i].run \in schedules

IInv ==
  /\ TypeOK /\ RecordsInv /\ RunsInv /\ StaleInv /\ ScreenInv /\ CallsInv /\ NewestInv
  /\ OneDecisionPerRun /\ PlansBuildOnPlans /\ LastPublishedIsNewest

LEMMA MaxOfTwo ==
  ASSUME NEW a \in Int, NEW b \in Int
  PROVE  Max({a, b}) = IF a >= b THEN a ELSE b
<1>1. PICK x \in {a, b} : \A y \in {a, b} : x >= y
  OBVIOUS
<1>2. Max({a, b}) \in {a, b} /\ \A y \in {a, b} : Max({a, b}) >= y
  BY <1>1 DEF Max
<1> QED
  BY <1>2

\* What CHOOSE picks in Newest is the newest publication.
LEMMA NewestIs ==
  ASSUME TypeOK, RecordsInv, LastPublishedIsNewest, NEW p \in Plants,
         NEW i \in DOMAIN publications, IsNewest(i, p)
  PROVE  Newest(p) = i
<1>1. i \in Published(p) /\ \A j \in Published(p) : publications[j].at <= publications[i].at
  BY DEF IsNewest, Published
<1>2. Newest(p) \in Published(p)
      /\ \A j \in Published(p) : publications[j].at <= publications[Newest(p)].at
  BY <1>1 DEF Newest
<1>3. \A j \in DOMAIN publications : publications[j].at \in Int
  BY PublicationAssumption DEF TypeOK
<1>4. publications[i].at = publications[Newest(p)].at
  BY <1>1, <1>2, <1>3 DEF Published
<1>5. DOMAIN publications = 1 .. Len(publications) /\ Len(publications) \in Nat
  BY DEF RecordsInv
<1> QED
  BY <1>1, <1>2, <1>3, <1>4, <1>5 DEF LastPublishedIsNewest, Published

LEMMA InitInv == Init => IInv
<1> SUFFICES ASSUME Init PROVE IInv
  OBVIOUS
<1> USE PublicationAssumption DEF Init
<1>1. DOMAIN publications = {} /\ DOMAIN decisions = {} /\ Len(decisions) = 0
  OBVIOUS
<1>2. TypeOK
  <2>1. 0 \in 0 .. MaxDecisions /\ 0 \in 0 .. MaxCalls
    OBVIOUS
  <2> QED
    BY <1>1, <2>1 DEF TypeOK
<1>3. RecordsInv
  BY <1>1 DEF RecordsInv
<1>4. RunsInv /\ StaleInv /\ ScreenInv
  BY <1>1 DEF RunsInv, StaleInv, ScreenInv
<1>5. CallsInv
  BY <1>1 DEF CallsInv
<1>6. NewestInv
  BY <1>1 DEF NewestInv, Published
<1>7. OneDecisionPerRun /\ PlansBuildOnPlans /\ LastPublishedIsNewest
  BY <1>1 DEF OneDecisionPerRun, PlansBuildOnPlans, LastPublishedIsNewest
<1> QED
  BY <1>2, <1>3, <1>4, <1>5, <1>6, <1>7 DEF IInv

\* What the type invariant says about the numbers that are compared.
LEMMA Numbers ==
  ASSUME TypeOK, RecordsInv
  PROVE  /\ MaxRuns \in Nat /\ MaxDecisions \in Nat /\ MaxCalls \in Nat
         /\ queued \in Nat /\ lastRun \in Nat /\ current \in Nat /\ failed \in Nat
         /\ clock \in Nat /\ \A u \in Planners : call[u] \in Nat
         /\ DOMAIN publications = 1 .. Len(publications) /\ Len(publications) \in Nat
         /\ DOMAIN decisions = 1 .. Len(decisions) /\ Len(decisions) \in Nat
         /\ \A i \in DOMAIN publications :
              publications[i].run \in Nat /\ publications[i].at \in Nat
         /\ \A i \in DOMAIN decisions : decisions[i].run \in Nat /\ decisions[i].seen \in Nat
         /\ \A u \in Planners : screen[u] # NoScreen =>
              /\ screen[u].run \in Nat /\ screen[u].version \in Nat /\ screen[u].seen \in Nat
              /\ screen[u].plant \in Plants
         /\ \A p \in Plants : version[p] \in Nat
<1> USE PublicationAssumption
<1>1. DOMAIN publications = 1 .. Len(publications) /\ Len(publications) \in Nat
      /\ DOMAIN decisions = 1 .. Len(decisions) /\ Len(decisions) \in Nat
  BY DEF RecordsInv
<1>2. \A i \in DOMAIN publications : publications[i].run \in Nat /\ publications[i].at \in Nat
  BY DEF TypeOK, RunNos
<1>3. \A i \in DOMAIN decisions : decisions[i].run \in Nat /\ decisions[i].seen \in Nat
  BY DEF TypeOK, RunNos
<1>4. \A u \in Planners : screen[u] # NoScreen =>
        /\ screen[u].run \in Nat /\ screen[u].version \in Nat /\ screen[u].seen \in Nat
        /\ screen[u].plant \in Plants
  BY DEF TypeOK, RunNos, Screens
<1>5. queued \in Nat /\ lastRun \in Nat /\ current \in Nat /\ failed \in Nat
  BY DEF TypeOK, RunNos
<1> QED
  BY <1>1, <1>2, <1>3, <1>4, <1>5 DEF TypeOK

LEMMA ChangeStep == ASSUME IInv, Change PROVE IInv'
<1> USE DEF IInv, Change
<1>1. TypeOK'
  BY DEF TypeOK
<1>2. RecordsInv' /\ RunsInv'
  BY DEF RecordsInv, RunsInv
<1>3. StaleInv' /\ ScreenInv' /\ CallsInv'
  BY DEF StaleInv, ScreenInv, CallsInv
<1>4. NewestInv'
  BY DEF NewestInv, Published, IsNewest
<1>5. OneDecisionPerRun' /\ PlansBuildOnPlans' /\ LastPublishedIsNewest'
  BY DEF OneDecisionPerRun, PlansBuildOnPlans, LastPublishedIsNewest
<1> QED
  BY <1>1, <1>2, <1>3, <1>4, <1>5

LEMMA QueueStep == ASSUME IInv, Queue PROVE IInv'
<1> USE DEF IInv
<1>1. lastRun' = (IF queued = 0 THEN lastRun + 1 ELSE lastRun)
      /\ queued' = lastRun' /\ lastRun' \in RunNos
  <2>1. CASE queued = 0
    BY <2>1, Numbers, MaxOfTwo DEF Queue, RunNos
  <2>2. CASE queued # 0
    BY <2>2, Numbers, MaxOfTwo DEF Queue, RunNos, RunsInv, TypeOK
  <2> QED
    BY <2>1, <2>2
<1>2. current < queued' /\ failed < queued' /\ current <= lastRun' /\ failed <= lastRun'
  <2>1. lastRun' \in Nat
    BY <1>1 DEF RunNos
  <2> QED
    BY <1>1, <2>1, Numbers DEF RunsInv
<1> USE DEF Queue
<1>9. TypeOK'
  BY <1>1 DEF TypeOK
<1>3. RecordsInv'
  BY DEF RecordsInv
<1>4. RunsInv'
  BY <1>1, <1>2 DEF RunsInv
<1>5. StaleInv'
  BY <1>1 DEF StaleInv, RunNos
<1>6. ScreenInv' /\ CallsInv'
  BY DEF ScreenInv, CallsInv
<1>7. NewestInv'
  BY DEF NewestInv, Published, IsNewest
<1>8. OneDecisionPerRun' /\ PlansBuildOnPlans' /\ LastPublishedIsNewest'
  BY DEF OneDecisionPerRun, PlansBuildOnPlans, LastPublishedIsNewest
<1> QED
  BY <1>3, <1>4, <1>5, <1>6, <1>7, <1>8, <1>9

\* Pruning spares the run that has just finished and the newest publications.
LEMMA FinishRunStep == ASSUME IInv, FinishRun PROVE IInv'
<1> USE DEF IInv, FinishRun
<1>1. queued \in RunNos /\ queued \in schedules' /\ schedules' \subseteq schedules \cup {queued}
  BY DEF TypeOK, Old
<1>2. TypeOK'
  BY <1>1 DEF TypeOK
<1>3. RecordsInv'
  BY DEF RecordsInv
<1>4. RunsInv'
  BY Numbers DEF RunsInv
<1>5. StaleInv'
  BY Numbers DEF StaleInv, RunsInv
<1>6. ScreenInv' /\ CallsInv'
  BY DEF ScreenInv, CallsInv
<1>7. NewestInv'
  <2> SUFFICES ASSUME NEW p \in Plants, Published(p) # {}
               PROVE  \E i \in DOMAIN publications :
                        IsNewest(i, p) /\ publications[i].run \in schedules'
    BY DEF NewestInv, Published, IsNewest
  <2>1. PICK i \in DOMAIN publications : IsNewest(i, p) /\ publications[i].run \in schedules
    BY DEF NewestInv
  <2>2. Newest(p) = i
    BY <2>1, NewestIs
  <2>3. publications[i].run \in PublishedRuns
    BY <2>2 DEF PublishedRuns
  <2> QED
    BY <2>1, <2>3
<1>8. OneDecisionPerRun' /\ PlansBuildOnPlans' /\ LastPublishedIsNewest'
  BY DEF OneDecisionPerRun, PlansBuildOnPlans, LastPublishedIsNewest
<1> QED
  BY <1>2, <1>3, <1>4, <1>5, <1>6, <1>7, <1>8

LEMMA FailRunStep == ASSUME IInv, FailRun PROVE IInv'
<1> USE DEF IInv, FailRun
<1>1. TypeOK'
  BY DEF TypeOK
<1>2. RecordsInv'
  BY DEF RecordsInv
<1>3. RunsInv' /\ StaleInv'
  BY Numbers DEF RunsInv, StaleInv
<1>4. ScreenInv' /\ CallsInv'
  BY DEF ScreenInv, CallsInv
<1>5. NewestInv'
  BY DEF NewestInv, Published, IsNewest
<1>6. OneDecisionPerRun' /\ PlansBuildOnPlans' /\ LastPublishedIsNewest'
  BY DEF OneDecisionPerRun, PlansBuildOnPlans, LastPublishedIsNewest
<1> QED
  BY <1>1, <1>2, <1>3, <1>4, <1>5, <1>6

LEMMA ViewStep == ASSUME NEW u \in Planners, NEW p \in Plants, IInv, View(u, p) PROVE IInv'
<1> USE DEF IInv, View, runVars
<1> DEFINE shown == [step |-> IF UpToDate THEN "status" ELSE "view", plant |-> p,
                     run |-> current, version |-> 0, seen |-> 0]
<1>1. screen' = [screen EXCEPT ![u] = shown]
  OBVIOUS
<1>2. shown \in Screens
  BY PublicationAssumption DEF TypeOK, Screens
<1>3. TypeOK'
  BY <1>1, <1>2 DEF TypeOK
<1>4. \A v \in Planners : screen'[v] = IF v = u THEN shown ELSE screen[v]
  BY <1>1 DEF TypeOK
<1>5. RecordsInv'
  BY DEF RecordsInv
<1>6. RunsInv'
  BY <1>4, Numbers DEF RunsInv
<1>7. StaleInv' /\ ScreenInv'
  BY <1>4 DEF StaleInv, ScreenInv
<1>8. CallsInv'
  BY SMTT(60), <1>4, Numbers DEF CallsInv
<1>9. NewestInv'
  BY DEF NewestInv, Published, IsNewest
<1>10. OneDecisionPerRun' /\ PlansBuildOnPlans' /\ LastPublishedIsNewest'
  BY DEF OneDecisionPerRun, PlansBuildOnPlans, LastPublishedIsNewest
<1> QED
  BY <1>3, <1>5, <1>6, <1>7, <1>8, <1>9, <1>10

LEMMA PreviewStep == ASSUME NEW u \in Planners, IInv, PreviewContext(u) PROVE IInv'
<1> USE DEF IInv, PreviewContext, runVars
<1> DEFINE shown == [step |-> "preview", plant |-> screen[u].plant, run |-> screen[u].run,
                     version |-> version[screen[u].plant], seen |-> Len(decisions)]
<1>1. screen[u] \in Screens
  BY DEF TypeOK
<1>2. screen' = [screen EXCEPT ![u] = shown]
  OBVIOUS
<1>3. shown \in Screens /\ shown # NoScreen
  BY <1>1, Numbers, PublicationAssumption DEF Screens, RecordsInv, TypeOK
<1>4. TypeOK'
  BY <1>2, <1>3 DEF TypeOK
<1>5. \A v \in Planners : screen'[v] = IF v = u THEN shown ELSE screen[v]
  BY <1>2 DEF TypeOK
<1>6. RecordsInv'
  BY DEF RecordsInv
<1>7. RunsInv' /\ StaleInv'
  BY <1>5 DEF RunsInv, StaleInv
<1>8. ScreenInv'
  <2> SUFFICES ASSUME NEW v \in Planners, screen'[v] # NoScreen, screen'[v].step = "preview"
               PROVE  /\ screen'[v].version <= version[screen'[v].plant]
                      /\ screen'[v].version = version[screen'[v].plant] =>
                           \A i \in DOMAIN decisions :
                             decisions[i].kind = "plan" /\ decisions[i].plant = screen'[v].plant
                               => i <= screen'[v].seen
    BY DEF ScreenInv
  <2>1. CASE v = u
    <3>1. \A i \in DOMAIN decisions : i <= Len(decisions)
      BY Numbers
    <3>2. screen[u].plant \in Plants /\ version[screen[u].plant] \in Nat
      BY Numbers
    <3> QED
      BY <1>5, <2>1, <3>1, <3>2
  <2>2. CASE v # u
    BY <1>5, <2>2 DEF ScreenInv
  <2> QED
    BY <2>1, <2>2
<1>9. CallsInv'
  BY <1>3, <1>5 DEF CallsInv
<1>10. NewestInv'
  BY DEF NewestInv, Published, IsNewest
<1>11. OneDecisionPerRun' /\ PlansBuildOnPlans' /\ LastPublishedIsNewest'
  BY DEF OneDecisionPerRun, PlansBuildOnPlans, LastPublishedIsNewest
<1> QED
  BY <1>4, <1>6, <1>7, <1>8, <1>9, <1>10, <1>11

LEMMA BeginStep == ASSUME NEW u \in Planners, IInv, Begin(u) PROVE IInv'
<1> USE DEF IInv, Begin, runVars
<1>1. clock' = clock + 1 /\ clock' \in 1 .. MaxCalls
  BY PublicationAssumption DEF TypeOK
<1>2. \A v \in Planners : call'[v] = IF v = u THEN clock' ELSE call[v]
  BY DEF TypeOK
<1>3. TypeOK'
  BY <1>1 DEF TypeOK
<1>4. RecordsInv' /\ RunsInv' /\ StaleInv' /\ ScreenInv'
  BY DEF RecordsInv, RunsInv, StaleInv, ScreenInv
<1>5. CallsInv'
  <2>1. \A v \in Planners : call'[v] <= clock' /\ (call'[v] # 0 => screen'[v] # NoScreen)
    BY <1>1, <1>2, Numbers DEF CallsInv
  <2>2. \A v, w \in Planners : v # w /\ call'[v] # 0 => call'[v] # call'[w]
    BY <1>1, <1>2, Numbers DEF CallsInv
  <2>3. \A i \in DOMAIN publications : publications[i].at < clock'
    BY <1>1, Numbers DEF CallsInv
  <2>4. \A v \in Planners, i \in DOMAIN publications :
          call'[v] # 0 => publications[i].at # call'[v]
    BY <1>1, <1>2, <2>3, Numbers DEF CallsInv
  <2>5. \A v \in Planners, i \in DOMAIN publications :
          call'[v] # 0 /\ publications[i].plant = screen[v].plant /\ call'[v] < publications[i].at
            => screen[v].run <= publications[i].run
    <3> SUFFICES ASSUME NEW v \in Planners, NEW i \in DOMAIN publications, call'[v] # 0,
                        publications[i].plant = screen[v].plant, call'[v] < publications[i].at
                 PROVE  screen[v].run <= publications[i].run
      OBVIOUS
    <3>1. v # u
      BY <1>1, <1>2, <2>3, Numbers
    <3> QED
      BY <1>2, <3>1 DEF CallsInv
  <2>6. \A i \in DOMAIN publications : publications[i].at <= clock'
    BY <1>1, <2>3, Numbers
  <2> QED
    BY <2>1, <2>2, <2>4, <2>5, <2>6 DEF CallsInv
<1>6. NewestInv'
  BY DEF NewestInv, Published, IsNewest
<1>7. OneDecisionPerRun' /\ PlansBuildOnPlans' /\ LastPublishedIsNewest'
  BY DEF OneDecisionPerRun, PlansBuildOnPlans, LastPublishedIsNewest
<1> QED
  BY <1>3, <1>4, <1>5, <1>6, <1>7

\* Nothing is published.
LEMMA RefusedStep ==
  ASSUME NEW u \in Planners, IInv, Publish(u), ~MayPublish(u)
  PROVE  IInv'
<1> USE DEF IInv, Publish, runVars
<1>1. \A v \in Planners : call'[v] = IF v = u THEN 0 ELSE call[v]
  BY DEF TypeOK
<1>2. TypeOK'
  BY PublicationAssumption DEF TypeOK
<1>3. RecordsInv' /\ RunsInv' /\ StaleInv' /\ ScreenInv'
  BY DEF RecordsInv, RunsInv, StaleInv, ScreenInv
<1>4. CallsInv'
  <2>1. \A v \in Planners : call'[v] # 0 => call'[v] = call[v] /\ v # u
    BY <1>1
  <2>2. \A v \in Planners : call'[v] <= clock /\ (call'[v] # 0 => screen[v] # NoScreen)
    BY <1>1, Numbers DEF CallsInv
  <2>3. \A v, w \in Planners : v # w /\ call'[v] # 0 => call'[v] # call'[w]
    BY <1>1 DEF CallsInv
  <2> QED
    BY <2>1, <2>2, <2>3 DEF CallsInv
<1>5. NewestInv'
  BY DEF NewestInv, Published, IsNewest
<1>6. OneDecisionPerRun' /\ PlansBuildOnPlans' /\ LastPublishedIsNewest'
  BY DEF OneDecisionPerRun, PlansBuildOnPlans, LastPublishedIsNewest
<1> QED
  BY <1>2, <1>3, <1>4, <1>5, <1>6

\* What may be published is newer than all publications of the plant, by run and by time.
LEMMA PublishedBefore ==
  ASSUME NEW u \in Planners, IInv, call[u] # 0, MayPublish(u)
  PROVE  \A i \in DOMAIN publications : publications[i].plant = screen[u].plant =>
           publications[i].at < call[u] /\ publications[i].run < current
<1> USE DEF IInv
<1>1. screen[u] # NoScreen /\ screen[u].plant \in Plants /\ screen[u].run = current
  BY Numbers DEF CallsInv, MayPublish
<1> SUFFICES ASSUME NEW i \in DOMAIN publications, publications[i].plant = screen[u].plant
             PROVE  publications[i].at < call[u] /\ publications[i].run < current
  OBVIOUS
<1>2. Published(screen[u].plant) # {}
  BY DEF Published
<1>3. PICK n \in DOMAIN publications : IsNewest(n, screen[u].plant)
  BY <1>1, <1>2 DEF NewestInv
<1>4. publications[n].run # current
  BY <1>1, <1>2, <1>3, NewestIs DEF MayPublish
<1>5. publications[i].run <= publications[n].run /\ publications[n].run <= current
  <2>1. i \in Int /\ n \in Int /\ publications[i].at \in Int /\ publications[n].at \in Int
        /\ publications[i].run \in Int /\ publications[n].run \in Int
    BY SMTT(60), Numbers
  <2>2. publications[i].at <= publications[n].at /\ publications[n].plant = screen[u].plant
    BY <1>3 DEF IsNewest
  <2>3. n < i => publications[n].at < publications[i].at
    BY <2>2 DEF LastPublishedIsNewest
  <2>4. i < n => publications[i].run < publications[n].run
    BY <2>2 DEF LastPublishedIsNewest
  <2>5. i = n \/ i < n
    BY <2>1, <2>2, <2>3
  <2>6. publications[n].run <= current
    BY DEF RunsInv
  <2> QED
    BY <2>1, <2>4, <2>5, <2>6
<1>6. current \in Int /\ publications[i].run \in Int /\ publications[i].at \in Int /\ call[u] \in Int
  BY Numbers
<1>7. publications[i].run < current
  <2>1. publications[n].run \in Int
    BY Numbers
  <2> QED
    BY <1>4, <1>5, <1>6, <2>1
<1>8. publications[i].at # call[u]
  BY DEF CallsInv
<1>9. call[u] < publications[i].at => current <= publications[i].run
  BY <1>1 DEF CallsInv
<1> QED
  BY <1>6, <1>7, <1>8, <1>9

LEMMA PublishStep ==
  ASSUME NEW u \in Planners, IInv, Publish(u), MayPublish(u)
  PROVE  IInv'
<1> USE DEF IInv
<1> DEFINE p == screen[u].plant
           new == [plant |-> p, run |-> current, at |-> call[u]]
<1>0. PICK n \in Nat : n = Len(publications) + 1
  BY Numbers
<1>1. call[u] # 0 /\ publications' = Append(publications, new)
      /\ call' = [call EXCEPT ![u] = 0]
      /\ UNCHANGED <<runVars, decisions, version, screen, clock>>
  BY DEF Publish
<1>2. p \in Plants /\ screen[u].run = current /\ current \in RunNos /\ current \in schedules
  BY <1>1, Numbers DEF CallsInv, MayPublish, UpToDate, TypeOK
<1>3. new \in Publications
  BY <1>1, <1>2 DEF Publications, TypeOK
<1>4. /\ publications' \in Seq(Publications)
      /\ DOMAIN publications' = DOMAIN publications \cup {n} /\ n \notin DOMAIN publications
      /\ publications'[n] = new
      /\ \A i \in DOMAIN publications : publications'[i] = publications[i] /\ i < n
  BY SMTT(60), <1>0, <1>1, <1>3, Numbers DEF RecordsInv
<1>5. \A v \in Planners : call'[v] = IF v = u THEN 0 ELSE call[v]
  BY <1>1 DEF TypeOK
<1>6. \A i \in DOMAIN publications : publications[i].plant = p =>
        publications[i].at < call[u] /\ publications[i].run < current
  BY <1>1, PublishedBefore
<1> HIDE DEF new
<1>7. new.plant = p /\ new.run = current /\ new.at = call[u]
  BY DEF new
<1>8. TypeOK'
  <2>1. \A i \in DOMAIN publications' : publications'[i] \in Publications
    BY <1>3, <1>4 DEF TypeOK, Publications
  <2> QED
    BY <1>1, <1>5, <2>1, PublicationAssumption DEF TypeOK, Publications, runVars
<1>9. RecordsInv'
  BY <1>1, <1>4 DEF RecordsInv
<1>10. RunsInv'
  BY <1>1, <1>4, <1>7, Numbers DEF RunsInv, runVars
<1>11. StaleInv' /\ ScreenInv'
  BY <1>1 DEF StaleInv, ScreenInv, runVars
<1>12. CallsInv'
  <2>1. \A v \in Planners : call'[v] # 0 => call'[v] = call[v] /\ v # u
    BY <1>5
  <2>2. \A v \in Planners : call'[v] <= clock /\ (call'[v] # 0 => screen[v] # NoScreen)
    BY <1>5, Numbers DEF CallsInv
  <2>3. \A v, w \in Planners : v # w /\ call'[v] # 0 => call'[v] # call'[w]
    BY <1>5 DEF CallsInv
  <2>4. \A i \in DOMAIN publications' : publications'[i].at <= clock
    BY <1>4, <1>7 DEF CallsInv
  <2>5. \A v \in Planners, i \in DOMAIN publications' :
          call'[v] # 0 => publications'[i].at # call'[v]
    BY <1>1, <1>4, <1>7, <2>1 DEF CallsInv
  <2>6. \A v \in Planners, i \in DOMAIN publications' :
          call'[v] # 0 /\ publications'[i].plant = screen[v].plant /\ call'[v] < publications'[i].at
            => screen[v].run <= publications'[i].run
    <3> SUFFICES ASSUME NEW v \in Planners, NEW i \in DOMAIN publications', call'[v] # 0,
                        publications'[i].plant = screen[v].plant, call'[v] < publications'[i].at
                 PROVE  screen[v].run <= publications'[i].run
      OBVIOUS
    <3>1. CASE i \in DOMAIN publications
      BY <1>4, <2>1, <3>1 DEF CallsInv
    <3>2. CASE i = n
      BY <1>4, <1>7, <2>1, <2>2, <3>2 DEF RunsInv
    <3> QED
      BY <1>4, <3>1, <3>2
  <2> QED
    BY <1>1, <2>2, <2>3, <2>4, <2>5, <2>6 DEF CallsInv
<1>13. NewestInv'
  <2> SUFFICES ASSUME NEW q \in Plants, Published(q)' # {}
               PROVE  \E i \in DOMAIN publications' :
                        IsNewest(i, q)' /\ publications'[i].run \in schedules
    BY <1>1 DEF NewestInv, runVars
  <2>1. CASE q = p
    <3>1. \A i \in DOMAIN publications : publications[i].plant = p => publications[i].at <= call[u]
      BY <1>6, Numbers
    <3>2. call[u] <= call[u]
      BY Numbers
    <3>3. \A j \in DOMAIN publications' : publications'[j].plant = p => publications'[j].at <= call[u]
      BY <1>4, <1>7, <3>1, <3>2
    <3>4. IsNewest(n, q)'
      BY <1>4, <1>7, <2>1, <3>3 DEF IsNewest
    <3> QED
      BY <1>2, <1>4, <1>7, <3>4
  <2>2. CASE q # p
    <3>1. Published(q) # {}
      BY <1>4, <1>7, <2>2 DEF Published
    <3>2. PICK i \in DOMAIN publications : IsNewest(i, q) /\ publications[i].run \in schedules
      BY <3>1 DEF NewestInv
    <3>3. IsNewest(i, q)'
      BY <1>4, <1>7, <2>2, <3>2 DEF IsNewest
    <3> QED
      BY <1>4, <3>2, <3>3
  <2> QED
    BY <2>1, <2>2
<1>14. OneDecisionPerRun' /\ PlansBuildOnPlans'
  BY <1>1 DEF OneDecisionPerRun, PlansBuildOnPlans
<1>15. LastPublishedIsNewest'
  <2> SUFFICES ASSUME NEW i \in DOMAIN publications', NEW j \in DOMAIN publications', i < j,
                      publications'[i].plant = publications'[j].plant
               PROVE  /\ publications'[i].at < publications'[j].at
                      /\ publications'[i].run < publications'[j].run
    BY DEF LastPublishedIsNewest
  <2>1. i \in DOMAIN publications
    BY <1>0, <1>4, Numbers
  <2>2. CASE j \in DOMAIN publications
    BY <1>4, <2>1, <2>2 DEF LastPublishedIsNewest
  <2>3. CASE j = n
    BY <1>4, <1>6, <1>7, <2>1, <2>3
  <2> QED
    BY <1>4, <2>2, <2>3
<1> QED
  BY <1>8, <1>9, <1>10, <1>11, <1>12, <1>13, <1>14, <1>15

LEMMA DecideStep ==
  ASSUME NEW u \in Planners, NEW kind \in Kinds, IInv, Decide(u, kind)
  PROVE  IInv'
<1> USE DEF IInv
<1> DEFINE p == screen[u].plant
           new == [plant |-> p, run |-> current, kind |-> kind, seen |-> screen[u].seen,
                   afterFailure |-> failed > current]
<1>0. PICK n \in Nat : n = Len(decisions) + 1
  BY Numbers
<1>1. /\ screen[u] # NoScreen /\ screen[u].step = "preview" /\ Fresh(u)
      /\ Len(decisions) < MaxDecisions
      /\ decisions' = Append(decisions, new) /\ marked' = TRUE
      /\ version' = [version EXCEPT ![p] = IF kind = "plan" THEN @ + 1 ELSE @]
      /\ UNCHANGED <<queued, lastRun, current, failed, schedules, publications, screen, call, clock>>
  BY DEF Decide
<1>2. /\ p \in Plants /\ current \in RunNos /\ screen[u].seen \in 0 .. MaxDecisions
      /\ screen[u].run = current /\ version[p] = screen[u].version /\ ~marked /\ queued = 0
  BY <1>1 DEF Fresh, UpToDate, TypeOK, Screens
<1>3. new \in Decisions
  BY <1>2 DEF Decisions
<1>4. /\ decisions' \in Seq(Decisions) /\ Len(decisions') = n /\ n <= MaxDecisions
      /\ DOMAIN decisions' = DOMAIN decisions \cup {n} /\ n \notin DOMAIN decisions
      /\ decisions'[n] = new
      /\ \A i \in DOMAIN decisions : decisions'[i] = decisions[i] /\ i < n
  BY SMTT(60), <1>0, <1>1, <1>3, Numbers DEF RecordsInv
<1>5. \A q \in Plants : version'[q] = IF q = p /\ kind = "plan" THEN version[q] + 1 ELSE version[q]
  BY <1>1, <1>2 DEF TypeOK
<1> HIDE DEF new
<1>6. new.plant = p /\ new.run = current /\ new.kind = kind /\ new.seen = screen[u].seen
      /\ new.afterFailure = (failed > current)
  BY DEF new
<1>7. \A q \in Plants : version'[q] \in Nat /\ version'[q] <= n
  <2>1. \A q \in Plants : version[q] \in Nat /\ version[q] <= n - 1
    BY <1>0, Numbers DEF RecordsInv
  <2> QED
    BY <1>5, <2>1
<1>8. TypeOK'
  <2>1. \A i \in DOMAIN decisions' : decisions'[i] \in Decisions
    BY <1>3, <1>4 DEF TypeOK, Decisions
  <2>2. version' \in [Plants -> 0 .. MaxDecisions]
    <3>1. \A q \in Plants : version'[q] \in 0 .. MaxDecisions
      BY <1>4, <1>7, Numbers
    <3>2. version' = [q \in Plants |-> version'[q]]
      BY <1>1 DEF TypeOK
    <3> QED
      BY <3>1, <3>2
  <2> QED
    BY <1>1, <2>1, <2>2 DEF TypeOK, Decisions
<1>9. RecordsInv'
  BY <1>1, <1>4, <1>7 DEF RecordsInv
<1>10. RunsInv'
  BY <1>1, <1>4, <1>6, Numbers DEF RunsInv
<1>11. StaleInv'
  BY <1>1 DEF StaleInv
<1>12. ScreenInv'
  <2> SUFFICES ASSUME NEW v \in Planners, screen[v] # NoScreen, screen[v].step = "preview"
               PROVE  /\ screen[v].version <= version'[screen[v].plant]
                      /\ screen[v].version = version'[screen[v].plant] =>
                           \A i \in DOMAIN decisions' :
                             decisions'[i].kind = "plan" /\ decisions'[i].plant = screen[v].plant
                               => i <= screen[v].seen
    BY <1>1 DEF ScreenInv
  <2>1. /\ screen[v].plant \in Plants /\ screen[v].version \in Nat
        /\ version[screen[v].plant] \in Nat /\ screen[v].version <= version[screen[v].plant]
    BY Numbers DEF ScreenInv
  <2>2. CASE screen[v].plant = p /\ kind = "plan"
    BY <1>5, <2>1, <2>2
  <2>3. CASE ~(screen[v].plant = p /\ kind = "plan")
    BY <1>4, <1>5, <1>6, <2>1, <2>3 DEF ScreenInv
  <2> QED
    BY <2>2, <2>3
<1>13. CallsInv'
  BY <1>1 DEF CallsInv
<1>14. NewestInv'
  BY <1>1 DEF NewestInv, Published, IsNewest
<1>15. OneDecisionPerRun'
  <2> SUFFICES ASSUME NEW i \in DOMAIN decisions', NEW j \in DOMAIN decisions', i < j,
                      decisions'[i].run = decisions'[j].run
               PROVE  decisions'[j].afterFailure
    BY DEF OneDecisionPerRun
  <2>1. i \in DOMAIN decisions
    BY <1>0, <1>4, Numbers
  <2>2. CASE j \in DOMAIN decisions
    BY <1>4, <2>1, <2>2 DEF OneDecisionPerRun
  <2>3. CASE j = n
    BY <1>2, <1>4, <1>6, <2>1, <2>3 DEF StaleInv
  <2> QED
    BY <1>4, <2>2, <2>3
<1>16. PlansBuildOnPlans'
  <2> SUFFICES ASSUME NEW i \in DOMAIN decisions', NEW j \in DOMAIN decisions', i < j,
                      decisions'[i].kind = "plan", decisions'[i].plant = decisions'[j].plant
               PROVE  i <= decisions'[j].seen
    BY DEF PlansBuildOnPlans
  <2>1. i \in DOMAIN decisions
    BY <1>0, <1>4, Numbers
  <2>2. CASE j \in DOMAIN decisions
    BY <1>4, <2>1, <2>2 DEF PlansBuildOnPlans
  <2>3. CASE j = n
    BY <1>1, <1>2, <1>4, <1>6, <2>1, <2>3 DEF ScreenInv
  <2> QED
    BY <1>4, <2>2, <2>3
<1>17. LastPublishedIsNewest'
  BY <1>1 DEF LastPublishedIsNewest
<1> QED
  BY <1>8, <1>9, <1>10, <1>11, <1>12, <1>13, <1>14, <1>15, <1>16, <1>17

LEMMA StepInv == IInv /\ [Next]_vars => IInv'
<1> SUFFICES ASSUME IInv, [Next]_vars PROVE IInv'
  OBVIOUS
<1>1. CASE Run
  BY <1>1, ChangeStep, QueueStep, FinishRunStep, FailRunStep DEF Run
<1>2. ASSUME NEW u \in Planners, Act(u) PROVE IInv'
  <2>1. CASE Publish(u)
    BY <2>1, RefusedStep, PublishStep
  <2>2. ASSUME NEW kind \in Kinds, Decide(u, kind) PROVE IInv'
    BY <2>2, DecideStep
  <2> QED
    BY <1>2, <2>1, <2>2, ViewStep, PreviewStep, BeginStep DEF Act
<1>3. CASE UNCHANGED vars
  <2> USE <1>3 DEF IInv, vars, runVars
  <2>1. TypeOK' /\ RecordsInv' /\ RunsInv'
    BY DEF TypeOK, RecordsInv, RunsInv
  <2>2. StaleInv' /\ ScreenInv' /\ CallsInv'
    BY DEF StaleInv, ScreenInv, CallsInv
  <2>3. NewestInv'
    BY DEF NewestInv, Published, IsNewest
  <2>4. OneDecisionPerRun' /\ PlansBuildOnPlans' /\ LastPublishedIsNewest'
    BY DEF OneDecisionPerRun, PlansBuildOnPlans, LastPublishedIsNewest
  <2> QED
    BY <2>1, <2>2, <2>3, <2>4
<1> QED
  BY <1>1, <1>2, <1>3 DEF Next

\* The inductive invariant holds whatever planners and runs do, in any number.
THEOREM Invariance == Spec => []IInv
BY InitInv, StepInv, PTL DEF Spec

\* Type correctness; the schedule of the current run is never pruned.
THEOREM TypeCorrect == Spec => []TypeOK
<1>1. IInv => TypeOK
  BY DEF IInv
<1> QED
  BY <1>1, Invariance, PTL

\* No two decisions rest on one calculation (freshContext, the markers and the
\* lock of planning_state), except after a failed run.
THEOREM DecidedOnce == Spec => []OneDecisionPerRun
<1>1. IInv => OneDecisionPerRun
  BY DEF IInv
<1> QED
  BY <1>1, Invariance, PTL

\* Nobody overwrites a plan unseen (freshContext compares the version, which
\* only grows, although a preview reads without a lock).
THEOREM NoPlanOverwritten == Spec => []PlansBuildOnPlans
<1>1. IInv => PlansBuildOnPlans
  BY DEF IInv
<1> QED
  BY <1>1, Invariance, PTL

\* The newest publication is the last one (publish), although its time is taken
\* before the lock.
THEOREM NewestIsLast == Spec => []LastPublishedIsNewest
<1>1. IInv => LastPublishedIsNewest
  BY DEF IInv
<1> QED
  BY <1>1, Invariance, PTL

\* The schedule of a published plan is never pruned (prunedSchedules).
THEOREM PublishedStays == Spec => []PublishedKept
<1>1. IInv => PublishedKept
  <2> SUFFICES ASSUME IInv, NEW p \in Plants, Published(p) # {}
               PROVE  publications[Newest(p)].run \in schedules
    BY DEF PublishedKept
  <2>1. PICK i \in DOMAIN publications : IsNewest(i, p) /\ publications[i].run \in schedules
    BY DEF IInv, NewestInv
  <2> QED
    BY <2>1, NewestIs DEF IInv
<1> QED
  BY <1>1, Invariance, PTL


(***************************************************************************)
(* Expedites: what is asked of suppliers and plants.                       *)
(***************************************************************************)

States == {"requested", "cannot_validate", "approved", "rejected", "superseded", "confirmed", "late"}

Shaped(a) ==
  a = [kind |-> a.kind, qty |-> a.qty, required |-> a.required, state |-> a.state,
       answer |-> a.answer, bundles |-> a.bundles, requester |-> a.requester, approver |-> a.approver]

InTime(a) ==
  /\ a.state = "confirmed" => a.answer.day <= a.required
  /\ a.state = "late" => a.answer.day > a.required

\* An action as it is kept.
ActionOK(a) ==
  /\ Shaped(a) /\ a.required \in Nat /\ a.answer.day \in Nat
  /\ InTime(a)

Needs == [Orders -> [qty : Quantities, day : Days]]

ExpeditesInv ==
  /\ need \in Needs
  /\ action \in Seq({action[i] : i \in DOMAIN action})
  /\ \A i \in DOMAIN action : ActionOK(action[i])
  /\ bundle = [ids \in DOMAIN bundle |-> bundle[ids]]
  /\ BundlesFollow

\* What the invariant says of each action says it of all.
LEMMA ConfirmedFollows == ExpeditesInv => ConfirmedInTime
BY DEF ExpeditesInv, ActionOK, InTime, ConfirmedInTime

(***************************************************************************)
(* Sequences, and the least number of a set.                               *)
(***************************************************************************)

\* A finite set put in some order is a list of its members (SetToSeq).
LEMMA InSomeOrder ==
  ASSUME NEW S, IsFiniteSet(S)
  PROVE  SetToSeq(S) \in Seq(S)
<1>1. Cardinality(S) \in Nat /\ ExistsBijection(1 .. Cardinality(S), S)
  BY FS_CardinalityType
<1>2. \E f \in [1 .. Cardinality(S) -> S] : IsInjective(f)
  BY <1>1 DEF ExistsBijection, Bijection, Injection, IsInjective
<1>3. SetToSeq(S) \in [1 .. Cardinality(S) -> S]
  BY <1>2 DEF SetToSeq
<1> QED
  BY <1>1, <1>3

\* What a function makes of a finite set is finite.
LEMMA ImageFinite ==
  ASSUME NEW S, IsFiniteSet(S), NEW f
  PROVE  IsFiniteSet({f[x] : x \in S})
<1> DEFINE T == {f[x] : x \in S}
           g == [x \in S |-> f[x]]
<1>1. g \in Surjection(S, T)
  BY DEF Surjection
<1> QED
  BY <1>1, FS_Surjection

\* A list has finitely many places.
LEMMA DomainFinite == ASSUME NEW s, NEW S, s \in Seq(S) PROVE IsFiniteSet(DOMAIN s)
BY FS_Interval

\* Two lists one after the other.
LEMMA Together ==
  ASSUME NEW S, NEW T, NEW s \in Seq(S), NEW t \in Seq(T)
  PROVE  s \o t \in Seq(S \cup T)
OBVIOUS

\* Of some sets in a finite one, one has no other in it.
LEMMA SmallestSet ==
  ASSUME NEW D, IsFiniteSet(D), NEW B \in SUBSET (SUBSET D), B # {}
  PROVE  \E T \in B : \A U \in B : U \subseteq T => U = T
<1>1. B \subseteq FiniteSubsetsOf(D)
  BY FS_FiniteSubsetsOfFinite
<1>2. PICK T \in B : \A U \in B : ~(<<U, T>> \in StrictSubsetOrdering(D))
  BY <1>1, FS_StrictSubsetOrderingWellFounded, WFMin
<1>3. ASSUME NEW U \in B, U \subseteq T, U # T PROVE FALSE
  <2>1. <<U, T>> \in (SUBSET D) \X (SUBSET D)
    OBVIOUS
  <2>2. <<U, T>> \in StrictSubsetOrdering(D)
    BY <2>1, <1>3 DEF StrictSubsetOrdering
  <2> QED
    BY <1>2, <2>2
<1> QED
  BY <1>3

\* Numbers have a least one, and Min is it.
LEMMA LeastNumber ==
  ASSUME NEW S, S \subseteq Nat, S # {}
  PROVE  Min(S) \in S
<1>1. PICK k : k \in S
  OBVIOUS
<1> DEFINE B == {0 .. m : m \in S \cap (0 .. k)}
<1>2. PICK D : B \in SUBSET (SUBSET D) /\ B # {} /\ IsFiniteSet(D)
  <2>1. 0 .. k \in B
    BY <1>1
  <2>2. IsFiniteSet(0 .. k)
    BY <1>1, FS_Interval
  <2>3. k \in Nat /\ \A m \in 0 .. k : 0 .. m \subseteq 0 .. k
    BY <1>1
  <2>4. \A U \in B : U \subseteq 0 .. k
    BY <2>3
  <2> HIDE DEF B
  <2> QED
    BY <2>1, <2>2, <2>4
<1>3. PICK T \in B : \A U \in B : U \subseteq T => U = T
  <2> HIDE DEF B
  <2> QED
    BY <1>2, SmallestSet
<1>4. PICK m \in S \cap (0 .. k) : T = 0 .. m
  OBVIOUS
<1>5. ASSUME NEW y \in S, y < m PROVE FALSE
  <2>1. 0 .. y \in B
    <3>1. y \in S \cap (0 .. k)
      BY <1>4, <1>5, <1>1
    <3> QED
      BY <3>1
  <2>2. 0 .. y \subseteq 0 .. m /\ m \in 0 .. m /\ m \notin 0 .. y
    BY <1>4, <1>5
  <2> HIDE DEF B
  <2> QED
    BY <2>1, <2>2, <1>3, <1>4
<1>6. \A y \in S : m <= y
  BY <1>5
<1> QED
  BY <1>4, <1>6 DEF Min

\* Finitely many numbers have a greatest one, and Max is it.
LEMMA GreatestNumber ==
  ASSUME NEW S, S \subseteq Nat, S # {}, IsFiniteSet(S)
  PROVE  Max(S) \in S
<1> DEFINE Up(m) == {y \in S : y >= m}
           B == {Up(m) : m \in S}
<1>1. PICK D : B \in SUBSET (SUBSET D) /\ B # {} /\ IsFiniteSet(D)
  <2>1. B \in SUBSET (SUBSET S) /\ B # {}
    OBVIOUS
  <2> HIDE DEF B
  <2> QED
    BY <2>1
<1>2. PICK T \in B : \A U \in B : U \subseteq T => U = T
  <2> HIDE DEF B
  <2> QED
    BY <1>1, SmallestSet
<1>3. PICK m \in S : T = Up(m)
  OBVIOUS
<1>4. ASSUME NEW y \in S, y > m PROVE FALSE
  <2>1. Up(y) \in B
    BY <1>4
  <2>2. Up(y) \subseteq Up(m) /\ m \in Up(m) /\ m \notin Up(y)
    <3>1. y \in Nat /\ m \in Nat /\ S \subseteq Nat
      OBVIOUS
    <3>2. \A z \in S : z >= y => z >= m
      BY <1>4, <3>1
    <3>3. m >= m /\ ~(m >= y)
      BY <1>4, <3>1
    <3> QED
      BY <3>2, <3>3
  <2> HIDE DEF B, Up
  <2> QED
    BY <2>1, <2>2, <1>2, <1>3
<1>5. \A y \in S : m >= y
  BY <1>4
<1> QED
  BY <1>3, <1>5 DEF Max

(***************************************************************************)
(* What is short, and what is asked for it.                                *)
(***************************************************************************)

\* The lots that supply a component are finitely many.
LEMMA SupplyIsList ==
  ASSUME IsFiniteSet(DOMAIN action)
  PROVE  IsFiniteSet(DOMAIN Supply(action))
<1> DEFINE moved == {i \in Answered(action, "line") : line.qty > 0}
           part == [i \in moved |-> Smaller(line.qty, action[i].answer.qty)]
           Early(i) == [key |-> "line", qty |-> part[i], day |-> action[i].answer.day]
           Bought(i) == [key |-> "new", qty |-> action[i].answer.qty, day |-> action[i].answer.day]
           fresh == Answered(action, "new")
           early == {Early(i) : i \in moved}
           bought == {Bought(i) : i \in fresh}
           rest == Less(line.qty, SumFunction(part))
           stays == IF rest > 0 THEN <<[key |-> "line", qty |-> rest, day |-> line.due]>> ELSE << >>
<1>1. IsFiniteSet(moved) /\ IsFiniteSet(fresh)
  <2>1. moved \subseteq DOMAIN action /\ fresh \subseteq DOMAIN action
    BY DEF Answered, Live
  <2> HIDE DEF moved, fresh
  <2> QED
    BY <2>1, FS_Subset
<1>2. IsFiniteSet(early)
  <2>1. early = {[i \in moved |-> Early(i)][x] : x \in moved}
    <3> HIDE DEF moved, Early
    <3> QED
      OBVIOUS
  <2> HIDE DEF early, moved, Early
  <2> QED
    BY <1>1, <2>1, ImageFinite
<1>3. IsFiniteSet(bought)
  <2>1. bought = {[i \in fresh |-> Bought(i)][x] : x \in fresh}
    <3> HIDE DEF fresh, Bought
    <3> QED
      OBVIOUS
  <2> HIDE DEF bought, fresh, Bought
  <2> QED
    BY <1>1, <2>1, ImageFinite
<1>4. Supply(action) = SetToSeq(early) \o stays \o SetToSeq(bought)
  <2> HIDE DEF rest
  <2> USE DEF rest
  <2> QED
    BY Zenon DEF Supply
<1>5. \E S : stays \in Seq(S)
  <2> DEFINE later == [key |-> "line", qty |-> rest, day |-> line.due]
  <2>1. <<later>> \in Seq({later}) /\ << >> \in Seq({later})
    <3> HIDE DEF later
    <3> QED
      OBVIOUS
  <2>2. stays = <<later>> \/ stays = << >>
    <3> HIDE DEF rest
    <3> QED
      OBVIOUS
  <2> HIDE DEF later, stays
  <2> QED
    BY <2>1, <2>2
<1>6. SetToSeq(early) \in Seq(early) /\ SetToSeq(bought) \in Seq(bought)
  <2> HIDE DEF early, bought
  <2> QED
    BY <1>2, <1>3, InSomeOrder
<1>7. \E S : Supply(action) \in Seq(S)
  <2> HIDE DEF early, bought, stays
  <2>1. PICK S : stays \in Seq(S)
    BY <1>5
  <2>2. SetToSeq(early) \o stays \in Seq(early \cup S)
    BY <2>1, <1>6, Together
  <2>3. (SetToSeq(early) \o stays) \o SetToSeq(bought) \in Seq((early \cup S) \cup bought)
    BY <2>2, <1>6, Together
  <2> QED
    BY <2>3, <1>4
<1> QED
  BY <1>7, DomainFinite

RowOf(r) == r = Row(r.kind, r.qty, r.required) /\ r.required \in Nat

LEMMA RowShape == ASSUME NEW k, NEW q, NEW d \in Nat PROVE RowOf(Row(k, q, d))
BY DEF RowOf, Row

LEMMA FromLinesRows ==
  ASSUME NEW supply, NEW late, IsFiniteSet(late), NEW shortage, NEW required \in Nat
  PROVE  /\ IsFiniteSet(FromLines(supply, late, shortage, required))
         /\ \A r \in FromLines(supply, late, shortage, required) : RowOf(r)
<1> DEFINE Sum(S) == SumFunction([j \in S |-> supply[j].qty])
           Earlier(i) == {j \in late : \/ supply[j].day < supply[i].day
                                       \/ supply[j].day = supply[i].day /\ j < i}
           Qty(i) == Smaller(Less(shortage, Sum(Earlier(i))), supply[i].qty)
           Part(i) == Row(IF supply[i].key = "line" THEN "line" ELSE "moved", Qty(i), required)
           asked == {j \in late : Qty(j) > 0}
           parts == {Part(i) : i \in asked}
           rest == Less(shortage, Sum(late))
           anew == {Row("new", r, required) : r \in {rest} \ {0}}
<1>1. FromLines(supply, late, shortage, required) = parts \cup anew
  BY Zenon DEF FromLines
<1>2. IsFiniteSet(parts)
  <2>1. asked \subseteq late
    <3> HIDE DEF Qty
    <3> QED
      OBVIOUS
  <2>2. parts = {[i \in asked |-> Part(i)][x] : x \in asked}
    <3> HIDE DEF asked, Part
    <3> QED
      OBVIOUS
  <2> HIDE DEF asked, Part, parts
  <2>3. IsFiniteSet(asked)
    BY <2>1, FS_Subset
  <2> QED
    BY <2>2, <2>3, ImageFinite
<1>3. IsFiniteSet(anew)
  <2>1. anew \subseteq {Row("new", rest, required)}
    <3> HIDE DEF rest
    <3> QED
      OBVIOUS
  <2>2. IsFiniteSet({Row("new", rest, required)})
    BY FS_Singleton
  <2> HIDE DEF anew
  <2> QED
    BY <2>1, <2>2, FS_Subset
<1>4. \A r \in parts : RowOf(r)
  <2> HIDE DEF Qty, asked
  <2> QED
    BY RowShape
<1>5. \A r \in anew : RowOf(r)
  <2> HIDE DEF rest
  <2> QED
    BY RowShape
<1> HIDE DEF parts, anew
<1> QED
  BY <1>1, <1>2, <1>3, <1>4, <1>5, FS_Union

\* What is asked for is finitely much, and has a day.
LEMMA RowsOK ==
  ASSUME need \in Needs, IsFiniteSet(DOMAIN action), NEW ids \in SUBSET Orders, NEW club
  PROVE  IsFiniteSet(Rows(ids, club)) /\ \A r \in Rows(ids, club) : RowOf(r)
<1> DEFINE gated == {o \in ids : Short(action, o) > 0}
           days == {need[o].day : o \in gated}
           required == Min(days)
           shortage == Max({Short(action, o) : o \in gated})
           supply == Supply(action)
           late == Late(supply, required, club)
           from == IF gated = {} THEN {} ELSE FromLines(supply, late, shortage, required)
           unknown == {Row("unknown", 0, 0) : o \in ids \cap Unchecked}
<1>1. Rows(ids, club) = from \cup unknown
  BY Zenon DEF Rows
<1>2. IsFiniteSet(unknown) /\ \A r \in unknown : RowOf(r)
  <2>1. unknown \subseteq {Row("unknown", 0, 0)}
    OBVIOUS
  <2>2. \A r \in unknown : RowOf(r)
    BY RowShape
  <2> HIDE DEF unknown
  <2> QED
    BY <2>1, <2>2, FS_Singleton, FS_Subset
<1>3. IsFiniteSet(late)
  <2>1. late \subseteq DOMAIN supply
    BY DEF Late
  <2> HIDE DEF late
  <2> QED
    BY <2>1, SupplyIsList, FS_Subset
<1>4. gated # {} => required \in Nat
  <2>1. gated \subseteq Orders
    <3> HIDE DEF required, shortage, late
    <3> QED
      OBVIOUS
  <2> SUFFICES ASSUME gated # {} PROVE required \in Nat
    OBVIOUS
  <2> HIDE DEF gated
  <2>2. \A o \in Orders : need[o].day \in Nat
    BY ExpeditesAssumption DEF Needs
  <2>3. days \subseteq Nat /\ days # {}
    BY <2>1, <2>2
  <2> HIDE DEF days
  <2> QED
    BY <2>3, LeastNumber
<1>5. IsFiniteSet(from) /\ \A r \in from : RowOf(r)
  <2> HIDE DEF gated, required, shortage, supply, late
  <2>1. CASE gated = {}
    BY <2>1, FS_EmptySet
  <2>2. CASE gated # {}
    BY <2>2, <1>3, <1>4, FromLinesRows
  <2> QED
    BY <2>1, <2>2
<1> HIDE DEF from, unknown
<1> QED
  BY <1>1, <1>2, <1>5, FS_Union

\* At the start nothing is asked for.
LEMMA InitExpeditesInv == InitExpedites => ExpeditesInv
<1> SUFFICES ASSUME InitExpedites PROVE ExpeditesInv
  OBVIOUS
<1>1. Max(Days) \in Days
  BY ExpeditesAssumption, GreatestNumber
<1>2. need \in Needs
  BY <1>1 DEF InitExpedites, Needs
<1>3. action = << >> /\ action \in Seq({action[i] : i \in DOMAIN action})
  BY DEF InitExpedites
<1>4. bundle = [ids \in DOMAIN bundle |-> bundle[ids]] /\ BundlesFollow
  BY DEF InitExpedites, BundlesFollow
<1> QED
  BY <1>2, <1>3, <1>4 DEF ExpeditesInv
(***************************************************************************)
(* The steps.                                                              *)
(***************************************************************************)

\* An action that is asked for again stays one: its answer counts only while it suffices.
LEMMA MergedOK ==
  ASSUME NEW a, ActionOK(a), NEW row, RowOf(row), NEW ids, NEW who
  PROVE  ActionOK(Merged(a, row, ids, who))
<1> DEFINE qty == Larger(a.qty, row.qty + a.answer.qty)
           required == Smaller(a.required, row.required)
           again == a.answer # NoAnswer /\ (a.answer.qty < qty \/ a.answer.day > required)
           state == IF again THEN "requested" ELSE a.state
           b == Merged(a, row, ids, who)
<1>1. required \in Nat /\ required <= a.required
  BY DEF ActionOK, RowOf, Smaller
<1>2. b = [kind |-> a.kind, qty |-> qty, required |-> required, state |-> state, answer |-> a.answer,
           bundles |-> a.bundles \cup {ids},
           requester |-> IF state = "requested" THEN who ELSE a.requester,
           approver |-> IF state = "requested" THEN Nobody ELSE a.approver]
  <2>1. PICK kind, q, req, st, ans, bs, r, p :
           a = [kind |-> kind, qty |-> q, required |-> req, state |-> st, answer |-> ans, bundles |-> bs,
                requester |-> r, approver |-> p]
    BY DEF ActionOK, Shaped
  <2> HIDE DEF qty, required, state
  <2>2. b = [a EXCEPT !.qty = qty, !.required = required, !.bundles = @ \cup {ids}, !.state = state,
                      !.approver = IF state = "requested" THEN Nobody ELSE @,
                      !.requester = IF state = "requested" THEN who ELSE @]
    BY DEF Merged, qty, required, state
  <2> HIDE DEF b
  <2> QED
    BY <2>1, <2>2
<1>3. Shaped(b) /\ b.required = required /\ b.answer = a.answer /\ b.state = state
  <2> HIDE DEF b, qty, required, state
  <2> QED
    BY <1>2 DEF Shaped
<1>4. InTime(b)
  <2>1. CASE again
    <3>1. state = "requested"
      BY <2>1
    <3> QED
      BY <1>3, <3>1 DEF InTime
  <2>2. CASE ~again
    <3>1. state = a.state
      BY <2>2
    <3>2. a.answer.day \in Nat /\ a.required \in Nat /\ InTime(a)
      BY DEF ActionOK
    <3>3. a.state = "confirmed" => a.answer.day <= required
      <4>1. CASE a.answer = NoAnswer
        BY <4>1, <1>1 DEF NoAnswer
      <4>2. CASE a.answer # NoAnswer
        <5>1. ~(a.answer.day > required)
          BY <4>2, <2>2
        <5> HIDE DEF required
        <5> QED
          BY <5>1, <3>2, <1>1
      <4> QED
        BY <4>1, <4>2
    <3>4. a.state = "late" => a.answer.day > required
      <4> HIDE DEF required
      <4> QED
        BY <3>2, <1>1 DEF InTime
    <3> QED
      BY <1>3, <3>1, <3>3, <3>4 DEF InTime
  <2> QED
    BY <2>1, <2>2
<1>5. ActionOK(b)
  <2> HIDE DEF b, required
  <2> QED
    BY <1>1, <1>3, <1>4 DEF ActionOK
<1> QED
  BY <1>5

\* What is asked for first has no answer yet.
LEMMA NewOK ==
  ASSUME NEW row, RowOf(row), NEW ids, NEW who
  PROVE  ActionOK(New(row, ids, who))
<1>1. row.required \in Nat
  BY DEF RowOf
<1> QED
  BY <1>1 DEF New, ActionOK, Shaped, InTime, NoAnswer

LEMMA SaveFollows ==
  ASSUME NEW acts, NEW state, state = [ids \in DOMAIN state |-> state[ids]], Save(acts, state)
  PROVE  /\ bundle' = [ids \in DOMAIN bundle' |-> bundle'[ids]]
         /\ BundlesFollow'
<1>1. action' = acts /\ bundle' = Refreshed(acts, state)
  BY DEF Save
<1>2. DOMAIN bundle' = DOMAIN state
  BY <1>1 DEF Refreshed
<1>3. bundle' = [ids \in DOMAIN bundle' |-> bundle'[ids]]
  BY <1>1 DEF Refreshed
<1>4. ASSUME NEW ids \in DOMAIN bundle', bundle'[ids] # "none", Of(action', ids) # {}
      PROVE  bundle'[ids] = BundleState(Of(action', ids))
  BY <1>1, <1>2, <1>4 DEF Refreshed
<1> QED
  BY <1>3, <1>4 DEF BundlesFollow

\* A list of actions that are kept.
Kept(acts) ==
  /\ acts \in Seq({acts[i] : i \in DOMAIN acts})
  /\ \A i \in DOMAIN acts : ActionOK(acts[i])

LEMMA SaveInv ==
  ASSUME ExpeditesInv, NEW acts, Kept(acts), NEW state, state = [ids \in DOMAIN state |-> state[ids]],
         Save(acts, state), need' = need
  PROVE  ExpeditesInv'
<1>1. action' = acts
  BY DEF Save
<1>2. Kept(acts)'
  BY <1>1 DEF Kept, ActionOK, Shaped, InTime
<1> QED
  BY <1>1, SaveFollows DEF ExpeditesInv, Kept, Needs

\* Actions appended to actions.
LEMMA KeptConcat ==
  ASSUME NEW s, NEW t, Kept(s), NEW T, t \in Seq(T), \A x \in T : ActionOK(x)
  PROVE  Kept(s \o t)
<1> DEFINE S == {s[i] : i \in DOMAIN s}
           u == s \o t
<1>1. s \in Seq(S) /\ \A x \in S : ActionOK(x)
  BY DEF Kept
<1> HIDE DEF S
<1>2. u \in Seq(S \cup T) /\ \A x \in S \cup T : ActionOK(x)
  BY <1>1, Together
<1> HIDE DEF u
<1>3. \A i \in DOMAIN u : u[i] \in S \cup T
  BY <1>2
<1>4. u \in Seq({u[i] : i \in DOMAIN u})
  BY <1>2
<1>5. Kept(u)
  BY <1>2, <1>3, <1>4 DEF Kept
<1> QED
  BY <1>5 DEF u

LEMMA RequestStep ==
  ASSUME ExpeditesInv, NEW ids \in SUBSET Orders, NEW who, NEW club, Request(ids, who, club)
  PROVE  ExpeditesInv'
<1> DEFINE rows == Rows(ids, club)
           same(i) == {r \in rows : r.kind = action[i].kind}
           one(i) == IF same(i) = {} \/ action[i].state \in Ended THEN action[i]
                     ELSE Merged(action[i], CHOOSE r \in same(i) : TRUE, ids, who)
           merge == [i \in DOMAIN action |-> one(i)]
           new == {r \in rows : Live(action, r.kind) = {}}
           made == {New(r, ids, who) : r \in new}
           state == [bundle EXCEPT ![ids] = IF @ = "none" THEN "requested" ELSE @]
<1>1. Save(Written(rows, ids, who), state) /\ need' = need
  BY DEF Request
<1>2. Written(rows, ids, who) = merge \o SetToSeq(made)
  BY Zenon DEF Written
<1>3. IsFiniteSet(rows) /\ \A r \in rows : RowOf(r)
  <2>1. IsFiniteSet(DOMAIN action)
    BY DomainFinite DEF ExpeditesInv
  <2>2. need \in Needs
    BY DEF ExpeditesInv
  <2> HIDE DEF rows
  <2> QED
    BY <2>1, <2>2, RowsOK DEF rows
<1> HIDE DEF rows
<1>4. \A i \in DOMAIN action : ActionOK(one(i))
  <2> SUFFICES ASSUME NEW i \in DOMAIN action PROVE ActionOK(one(i))
    OBVIOUS
  <2>1. ActionOK(action[i])
    BY DEF ExpeditesInv
  <2>2. CASE same(i) = {} \/ action[i].state \in Ended
    BY <2>1, <2>2
  <2>3. CASE ~(same(i) = {} \/ action[i].state \in Ended)
    <3> DEFINE r == CHOOSE r \in same(i) : TRUE
    <3>1. r \in rows
      BY <2>3
    <3>2. one(i) = Merged(action[i], r, ids, who)
      BY <2>3
    <3> HIDE DEF r, one
    <3> QED
      BY <3>1, <3>2, <2>1, <1>3, MergedOK
  <2> QED
    BY <2>2, <2>3
<1>5. Kept(merge)
  <2>1. PICK n \in Nat : DOMAIN action = 1 .. n
    BY DEF ExpeditesInv
  <2> HIDE DEF one
  <2>2. merge \in Seq({merge[i] : i \in DOMAIN merge})
    <3>1. merge \in [1 .. n -> {merge[i] : i \in DOMAIN merge}]
      BY <2>1
    <3> HIDE DEF merge
    <3> QED
      BY <3>1
  <2> QED
    BY <2>2, <1>4 DEF Kept
<1>6. IsFiniteSet(made) /\ \A x \in made : ActionOK(x)
  <2>1. new \subseteq rows
    OBVIOUS
  <2> HIDE DEF new
  <2>2. IsFiniteSet(new)
    BY <2>1, <1>3, FS_Subset
  <2>3. made = {[r \in new |-> New(r, ids, who)][x] : x \in new}
    OBVIOUS
  <2>4. \A x \in made : ActionOK(x)
    BY <2>1, <1>3, NewOK
  <2> HIDE DEF made
  <2> QED
    BY <2>2, <2>3, <2>4, ImageFinite
<1> HIDE DEF merge, made
<1>7. Kept(Written(rows, ids, who))
  <2>1. SetToSeq(made) \in Seq(made)
    BY <1>6, InSomeOrder
  <2> QED
    BY <1>2, <1>5, <1>6, <2>1, KeptConcat
<1>8. state = [x \in DOMAIN state |-> state[x]]
  OBVIOUS
<1> HIDE DEF state
<1> QED
  BY <1>1, <1>7, <1>8, SaveInv

LEMMA ChangeActionStep ==
  ASSUME ExpeditesInv, NEW i \in DOMAIN action, NEW a, ActionOK(a), ChangeAction(i, a)
  PROVE  ExpeditesInv'
<1> DEFINE acts == [action EXCEPT ![i] = a]
<1>1. Save(acts, bundle) /\ need' = need
  BY DEF ChangeAction
<1>2. PICK n \in Nat : DOMAIN action = 1 .. n
  BY DEF ExpeditesInv
<1>3. action = [k \in 1 .. n |-> action[k]]
  BY <1>2 DEF ExpeditesInv
<1>4. Kept(acts)
  <2>1. DOMAIN acts = 1 .. n /\ \A k \in 1 .. n : acts[k] = IF k = i THEN a ELSE action[k]
    BY <1>2
  <2>2. acts = [k \in 1 .. n |-> acts[k]]
    BY <1>3
  <2> HIDE DEF acts
  <2>3. acts \in Seq({acts[k] : k \in DOMAIN acts})
    BY <2>1, <2>2
  <2>4. \A k \in DOMAIN acts : ActionOK(acts[k])
    BY <2>1, <1>2 DEF ExpeditesInv
  <2> QED
    BY <2>3, <2>4 DEF Kept
<1> HIDE DEF acts
<1> QED
  BY <1>1, <1>4, SaveInv DEF ExpeditesInv

LEMMA ApproveStep ==
  ASSUME ExpeditesInv, NEW i \in DOMAIN action, NEW who, Approve(i, who)
  PROVE  ExpeditesInv'
<1>1. PICK a : a = [action[i] EXCEPT !.state = "approved", !.approver = who]
  OBVIOUS
<1>2. ActionOK(action[i])
  BY DEF ExpeditesInv
<1>3. a = [action[i] EXCEPT !.state = "approved", !.approver = who] /\ ChangeAction(i, a)
  BY <1>1 DEF Approve
<1>4. ActionOK(a)
  BY <1>1, <1>2 DEF ActionOK, Shaped, InTime
<1> QED
  BY <1>3, <1>4, ChangeActionStep

LEMMA RejectStep ==
  ASSUME ExpeditesInv, NEW i \in DOMAIN action, Reject(i)
  PROVE  ExpeditesInv'
<1>1. PICK a : a = [action[i] EXCEPT !.state = "rejected", !.answer = NoAnswer]
  OBVIOUS
<1>2. ActionOK(action[i])
  BY DEF ExpeditesInv
<1>3. ChangeAction(i, a)
  BY <1>1 DEF Reject
<1>4. ActionOK(a)
  BY <1>1, <1>2 DEF ActionOK, Shaped, InTime, NoAnswer
<1> QED
  BY <1>3, <1>4, ChangeActionStep

LEMMA ConfirmStep ==
  ASSUME ExpeditesInv, NEW i \in DOMAIN action, NEW qty, NEW day \in Days, Confirm(i, qty, day)
  PROVE  ExpeditesInv'
<1>1. PICK a : a = [action[i] EXCEPT !.answer = [qty |-> qty, day |-> day],
                                     !.state = IF day <= action[i].required THEN "confirmed" ELSE "late"]
  OBVIOUS
<1>2. ActionOK(action[i])
  BY DEF ExpeditesInv
<1>3. ChangeAction(i, a)
  BY <1>1 DEF Confirm
<1>4. a.required = action[i].required /\ a.answer.day = day /\ Shaped(a)
      /\ a.state = IF day <= action[i].required THEN "confirmed" ELSE "late"
  BY <1>1, <1>2 DEF ActionOK, Shaped
<1>5. day \in Nat /\ action[i].required \in Nat
  BY <1>2, ExpeditesAssumption DEF ActionOK
<1>6. ActionOK(a)
  BY <1>4, <1>5 DEF ActionOK, InTime
<1> QED
  BY <1>3, <1>6, ChangeActionStep

LEMMA OutsideStep ==
  ASSUME ExpeditesInv, action' = action, bundle' = bundle, need' \in Needs
  PROVE  ExpeditesInv'
BY DEF ExpeditesInv, Needs, ActionOK, Shaped, InTime, BundlesFollow

LEMMA ExpeditesStepInv == ExpeditesInv /\ [NextExpedites]_expedites => ExpeditesInv'
<1> SUFFICES ASSUME ExpeditesInv, [NextExpedites]_expedites PROVE ExpeditesInv'
  OBVIOUS
<1>1. ASSUME NEW ids \in (SUBSET Orders) \ {{}}, NEW who \in People, NEW club \in BOOLEAN,
             Request(ids, who, club)
      PROVE  ExpeditesInv'
  BY <1>1, RequestStep
<1>2. ASSUME NEW i \in DOMAIN action, NEW who \in People, Approve(i, who) PROVE ExpeditesInv'
  BY <1>2, ApproveStep
<1>3. ASSUME NEW i \in DOMAIN action, Reject(i) PROVE ExpeditesInv'
  BY <1>3, RejectStep
<1>4. ASSUME NEW i \in DOMAIN action, NEW qty \in 1 .. action[i].qty, NEW day \in Days, Confirm(i, qty, day)
      PROVE  ExpeditesInv'
  BY <1>4, ConfirmStep
<1>5. ASSUME NEW o \in Orders, NEW day \in Days, Reschedule(o, day) PROVE ExpeditesInv'
  <2>1. need \in Needs
    BY DEF ExpeditesInv
  <2>2. need' \in Needs
    BY <1>5, <2>1 DEF Reschedule, Needs
  <2> QED
    BY <1>5, <2>2, OutsideStep DEF Reschedule
<1>6. ASSUME NEW qty \in 1 .. line.qty, Receive(qty) PROVE ExpeditesInv'
  BY <1>6, OutsideStep DEF Receive, ExpeditesInv, Needs
<1>7. CASE UNCHANGED expedites
  BY <1>7, OutsideStep DEF expedites, ExpeditesInv, Needs
<1> QED
  BY <1>1, <1>2, <1>3, <1>4, <1>5, <1>6, <1>7 DEF NextExpedites

\* Every action is as it was asked for and answered, and bundles follow their actions, at all times.
THEOREM ExpeditesInvariance == SpecExpedites => []ExpeditesInv
<1>1. InitExpedites => ExpeditesInv
  BY InitExpeditesInv
<1>2. ExpeditesInv /\ [NextExpedites]_expedites => ExpeditesInv'
  BY ExpeditesStepInv
<1> QED
  BY <1>1, <1>2, PTL DEF SpecExpedites

\* An answer counts as confirmed exactly while it comes in time: whatever
\* requests meet an action, in whatever order answers and requests come.
THEOREM AnswersInTime == SpecExpedites => []ConfirmedInTime
<1>1. ExpeditesInv => ConfirmedInTime
  BY ConfirmedFollows
<1> QED
  BY <1>1, ExpeditesInvariance, PTL

\* A bundle says what its actions say, after every request and every answer.
THEOREM BundlesAgree == SpecExpedites => []BundlesFollow
<1>1. ExpeditesInv => BundlesFollow
  BY DEF ExpeditesInv
<1> QED
  BY <1>1, ExpeditesInvariance, PTL

================================================================================
