------------------------------- MODULE Screens --------------------------------
(***************************************************************************)
(* A screen of the web client (apps/web/src): a list or a view that is     *)
(* read with every change of what is asked for, pages reached by cursor,   *)
(* forms that are saved, calculations that are waited for.                 *)
(*                                                                         *)
(* Every effect that reads has the same shape: it starts when something    *)
(* it depends on has changed, marks the read before it as not live, and    *)
(* takes an answer only while it is live itself.  The screens differ in    *)
(* what they let a person do and when; a record says how for each.  Rows   *)
(* stand for the records of a list; a view, or a screen whose decisions    *)
(* share one version, has one that counts.  Wording, filters other than a  *)
(* search and what a form asks for are left out.                           *)
(***************************************************************************)
EXTENDS Integers, Sequences, FiniteSets, SequencesExt

CONSTANTS
    Rows,           \* records of a list, in the order of their ids
    Keys,           \* what a list is sorted by: codes, dates, ranks
    Sizes,          \* rows on a page
    Matching,       \* search -> rows
    Tables,         \* tables to begin with, by the way a list is paged
    None, Lost,
    MaxAsks,        \* searches, pages and refreshes
    MaxChanges,     \* changes by others
    MaxFailures,    \* reads and saves that fail or are lost
    MaxForms,       \* forms and actions
    MaxSaves,       \* presses of Save
    MaxAll          \* all but the last together, by screen

ASSUME ScreensAssumption ==
    /\ Rows \subseteq Nat /\ IsFiniteSet(Rows) /\ Keys \subseteq Nat /\ Sizes \subseteq Nat \ {0}
    /\ Sizes # {}
    /\ \A s \in DOMAIN Matching : Matching[s] \subseteq Rows
    /\ \A p \in DOMAIN Tables : \A t \in Tables[p] :
          /\ t \in [Rows -> [state : {"new", "on", "gone"}, key : Keys, version : Nat]]
          /\ \A r \in Rows : t[r].state = "new" => t[r].version = 0
    /\ None \notin Rows \cup [key : Keys, id : Rows]
    /\ {MaxAsks, MaxChanges, MaxFailures, MaxForms, MaxSaves} \subseteq Nat

VARIABLES
    table, working,             \* the server: the records, and whether it still calculates
    screen,                     \* what the screen lets a person do
    ask, shown, loads, failed,  \* asked for, shown, reads on their way, the last one failed
    armed,                      \* a timer waits to read again
    form, fetches, saves, busy, \* the form, details on their way, saves on their way
    made, saved,                \* form -> changes it made, row -> version it was saved with
    seen, same,                 \* rows on the pages walked, rows untouched since the first one
    used                        \* what of the bounds is used

server == <<table, working>>
client == <<ask, shown, failed, armed>>
forms == <<form, fetches, saves>>
walk == <<seen, same>>
web == <<server, screen, client, loads, forms, busy, made, saved, walk, used>>

Spend(what) ==
    /\ used.all < MaxAll[screen]
    /\ used' = [used EXCEPT ![what] = @ + 1, !.all = @ + 1]

-----------------------------------------------------------------------------
(* The screens.                                                            *)
(*   paged     no, next page and first page, or every page and size        *)
(*   searches  no, any time, or only while idle                            *)
(*   waits     the pager is disabled while the list is read                *)
(*   shared    forms and list have one busy                                *)
(*   edits     from the row, from its detail read anew, by acting on it    *)
(*   creates   no, with a key that is unique and must be given, with the   *)
(*             id of the request, or plainly (the number of an order may   *)
(*             be left to the server, which takes the next one)            *)
(*   polls     no, by a timer that runs on, or from answer to answer       *)
(*   restarts  a save goes back to the first page                          *)

View == [paged |-> "no", searches |-> "no", waits |-> FALSE, shared |-> FALSE, edits |-> {},
         creates |-> "none", polls |-> "no", restarts |-> FALSE]

\* A view with a date, a filter or a plan to choose.
Choice == [View EXCEPT !.searches = "any"]

\* Decisions on what a view shows.
Decisions == [View EXCEPT !.edits = {"act"}]

\* A list that is read as a whole, with a form.
List == [View EXCEPT !.edits = {"row"}, !.creates = "key"]

Pages == [View EXCEPT !.paged = "pages", !.searches = "any", !.waits = TRUE]

\* Administration and masters: one busy for the page.
Master == [Pages EXCEPT !.searches = "idle", !.shared = TRUE, !.edits = {"row"}, !.creates = "key"]

\* main.tsx, companies.tsx, plants.tsx, access.tsx, security.tsx
AuditLog == [Pages EXCEPT !.searches = "no", !.shared = TRUE]
Security == View
CompanyHub == [Master EXCEPT !.creates = "request"]
Plants == Master
AccessManagement == [Pages EXCEPT !.shared = TRUE, !.edits = {"act"}]
RoleForm == [List EXCEPT !.edits = {"detail"}]
UserForm == [RoleForm EXCEPT !.creates = "request"]
PlantAccess == Decisions

\* availability.tsx, raw-import.tsx
Units == Master
MasterTable == Master
Imports == [View EXCEPT !.paged = "next", !.creates = "plain", !.restarts = TRUE]
BatchDetail == [Decisions EXCEPT !.polls = "timer"]
RawImport == [Choice EXCEPT !.creates = "key"]

\* plant-model.tsx
PlantReadiness == View
Calendars == [List EXCEPT !.edits = {"detail"}]
Resources == List
DocumentList == Pages
Boms == [DocumentList EXCEPT !.edits = {"detail"}, !.creates = "key"]
Routings == [DocumentList EXCEPT !.edits = {"detail"}, !.creates = "key"]

\* demand-stock.tsx
StockLocations == List
Stock == [Pages EXCEPT !.edits = {"act"}, !.creates = "plain", !.restarts = TRUE]
Orders == [Pages EXCEPT !.edits = {"detail"}, !.creates = "plain"]
GoodsReceipts == [View EXCEPT !.creates = "request"]
DemandHistory == Pages
OrderMaterials == Decisions
ProductionOrders == Pages

\* planning.tsx, planning-tools.tsx
BufferProfiles == List
BufferSettings == [Pages EXCEPT !.edits = {"row"}, !.creates = "key"]
BufferBoard == Pages
PlanningStatus == [Decisions EXCEPT !.polls = "answer"]
PurchaseProposals == [Pages EXCEPT !.edits = {"row", "act"}]
PlanningTools == [Choice EXCEPT !.edits = {"act"}, !.creates = "plain"]
Network == View

\* schedule.tsx
PublishBar == Decisions
ClubOptions == Decisions
ExpediteOptions == Decisions
LaterOptions == [Choice EXCEPT !.edits = {"act"}]
Expedites == Decisions
PendingOrders == Decisions
Scheduler == [Pages EXCEPT !.waits = FALSE, !.edits = {"act"}, !.polls = "answer"]
Gantt == Choice
ResourceLoad == Choice
PlanningSettings == Decisions
LeadTimeReality == View
InsertOrder == Decisions

\* execution.tsx, delivery.tsx, overview.tsx
Execution == Decisions
Downtime == [Decisions EXCEPT !.creates = "plain"]
CycleTimeAudit == Decisions
Delivery == View
Overview == View

Screens == {AuditLog, Security, CompanyHub, Plants, AccessManagement, RoleForm, UserForm, PlantAccess,
            Units, MasterTable, Imports, BatchDetail, RawImport, PlantReadiness, Calendars, Resources,
            DocumentList, Boms, Routings, StockLocations, Stock, Orders, GoodsReceipts, DemandHistory,
            OrderMaterials, ProductionOrders, BufferProfiles, BufferSettings, BufferBoard, PlanningStatus,
            PurchaseProposals, PlanningTools, Network, PublishBar, ClubOptions, ExpediteOptions,
            LaterOptions, Expedites, PendingOrders, Scheduler, Gantt, ResourceLoad, PlanningSettings,
            LeadTimeReality, InsertOrder, Execution, Downtime, CycleTimeAudit, Delivery, Overview}

ASSUME TablesAssumption == \A s \in Screens : s.paged \in DOMAIN Tables

-----------------------------------------------------------------------------
(* The server.                                                             *)

On == {r \in Rows : table[r].state = "on"}

BehindByKey(cursor, r) == cursor = None \/ table[r].key > cursor.key

\* The row is behind the cursor in the order of the list.
Behind(cursor, r) ==
    \/ cursor = None
    \/ table[r].key > cursor.key
    \/ table[r].key = cursor.key /\ r > cursor.id

Precedes(a, b) == \/ table[a].key < table[b].key
                  \/ table[a].key = table[b].key /\ a < b

\* One row more than the page is read, to know whether there is a next one.
Read(question) ==
    LET rows == {r \in On \cap Matching[question.search] : Behind(question.cursor, r)}
        first == {r \in rows : Cardinality({q \in rows : Precedes(q, r)}) < question.size}
        more == screen.paged # "no" /\ Cardinality(rows) > question.size
        page == IF more THEN first ELSE rows
        last == CHOOSE r \in page : \A q \in page \ {r} : Precedes(q, r)
    IN  [items |-> {[id |-> r, version |-> table[r].version] : r \in page},
         next |-> IF more THEN [key |-> table[last].key, id |-> last] ELSE None,
         working |-> working,
         same |-> IF screen.paged = "no" THEN {} ELSE On]

Put(r, record) ==
    /\ table' = [table EXCEPT ![r] = record]
    /\ loads' = {IF l.answer \in {None, Lost} THEN l ELSE [l EXCEPT !.answer.same = @ \ {r}] : l \in loads}
    /\ same' = same \ {r}

Fresh(key) == [state |-> "on", key |-> key, version |-> 1]

Others ==
    /\ used.changes < MaxChanges
    /\ \E r \in Rows, k \in Keys :
          \/ table[r].state = "new" /\ Put(r, Fresh(k))
          \/ r \in On /\ Put(r, [table[r] EXCEPT !.key = k, !.version = @ + 1])
          \/ r \in On /\ Put(r, [table[r] EXCEPT !.state = "gone"])
    /\ Spend("changes")
    /\ UNCHANGED <<working, screen, client, forms, busy, made, saved, seen>>

\* A file is validated, a run calculated.
Done ==
    /\ working /\ working' = FALSE
    /\ UNCHANGED <<table, screen, client, loads, forms, busy, made, saved, walk, used>>

-----------------------------------------------------------------------------
(* Reading.                                                                *)

Question(a) == [search |-> a.search, size |-> a.size,
                cursor |-> IF a.cursors = <<>> THEN None ELSE Last(a.cursors)]

Reading == \E l \in loads : l.live

\* The effect runs again: the read before it is not live any more.  Of the past reads the last that
\* was answered is kept, its answer on the way.
Load(a) ==
    /\ LET past == {l \in loads : l.live /\ l.answer \notin {None, Lost}}
       IN  loads' = {[question |-> Question(a), live |-> TRUE, answer |-> None]}
                    \cup IF past # {} THEN {[l EXCEPT !.live = FALSE] : l \in past}
                                      ELSE {l \in loads : ~l.live}
    /\ failed' = FALSE

Serve(l) ==
    /\ l.answer = None
    /\ \E answer \in {Read(l.question)} \cup (IF used.failures < MaxFailures /\ used.all < MaxAll[screen] THEN {Lost} ELSE {}) :
          /\ loads' = (loads \ {l}) \cup {[l EXCEPT !.answer = answer]}
          /\ IF answer = Lost THEN Spend("failures") ELSE UNCHANGED used
    /\ UNCHANGED <<server, screen, client, forms, busy, made, saved, walk>>

TakesLate(l) == TRUE

Takes(l) == l.live

RearmsOnChange(answer) == screen.polls = "answer" /\ answer.working /\ ~shown.working

\* A screen that waits for a calculation reads again a while after an answer that still shows it.
Rearms(answer) == screen.polls = "answer" /\ answer.working

Deliver(l) ==
    /\ l.answer # None
    /\ loads' = loads \ {l}
    /\ CASE ~Takes(l) -> UNCHANGED <<shown, failed, armed, busy, walk>>
         [] Takes(l) /\ l.answer = Lost ->
              /\ failed' = TRUE
              /\ busy' = (busy /\ ~screen.shared)
              /\ UNCHANGED <<shown, armed, walk>>
         [] OTHER ->
              /\ shown' = [question |-> l.question, items |-> l.answer.items, next |-> l.answer.next,
                           working |-> l.answer.working]
              /\ armed' = Rearms(l.answer)
              /\ busy' = (busy /\ ~screen.shared)
              /\ LET rows == {i.id : i \in l.answer.items}
                     first == l.question.cursor = None
                 IN  /\ seen' = IF screen.paged = "no" THEN {} ELSE IF first THEN rows ELSE seen \cup rows
                     /\ same' = IF first THEN l.answer.same ELSE same
              /\ UNCHANGED failed
    /\ UNCHANGED <<server, screen, ask, forms, made, saved, used>>

\* What is asked for changes; what has not changed is not read again.
Go(a) ==
    /\ used.asks < MaxAsks /\ Spend("asks")
    /\ ask' = a
    /\ IF Question(a) # Question(ask) THEN Load(a) /\ busy' = (busy \/ screen.shared)
                                      ELSE UNCHANGED <<loads, failed, busy>>
    /\ IF a.search = ask.search /\ a.size = ask.size THEN UNCHANGED walk ELSE seen' = {} /\ same' = {}
    /\ UNCHANGED <<server, screen, shown, armed, forms, made, saved>>

\* Search, and the filters of a list: any time, or while nothing is read or saved.
Search ==
    /\ screen.searches = "any" \/ (screen.searches = "idle" /\ ~busy)
    /\ \E s \in DOMAIN Matching \ {ask.search} : Go([ask EXCEPT !.search = s, !.cursors = <<>>])

\* The pager is disabled while the list is busy; some lists do not tell it.
PagerOn == screen.paged # "no" /\ IF screen.shared THEN ~busy ELSE screen.waits => ~Reading

NextPage == PagerOn /\ shown.next # None /\ Go([ask EXCEPT !.cursors = Append(@, shown.next)])

PreviousPage == PagerOn /\ screen.paged = "pages" /\ ask.cursors # <<>> /\ Go([ask EXCEPT !.cursors = Front(@)])

FirstPage == PagerOn /\ ask.cursors # <<>> /\ Go([ask EXCEPT !.cursors = <<>>])

PageSize == PagerOn /\ screen.paged = "pages" /\ \E n \in Sizes \ {ask.size} : Go([ask EXCEPT !.size = n, !.cursors = <<>>])

Begun == [search |-> CHOOSE s \in DOMAIN Matching : Matching[s] = Rows, cursors |-> <<>>,
          size |-> CHOOSE n \in Sizes : \A m \in Sizes : n <= m]

Blank == [question |-> None, items |-> {}, next |-> None, working |-> FALSE]

\* The page is left and opened anew, with all it showed; what was saved is on its way still.
Refresh ==
    /\ used.asks < MaxAsks /\ Spend("asks")
    /\ ask' = Begun /\ shown' = Blank /\ armed' = FALSE
    /\ Load(Begun)
    /\ form' = None /\ fetches' = {} /\ busy' = screen.shared
    /\ saves' = {[s EXCEPT !.live = FALSE] : s \in saves}
    /\ seen' = {} /\ same' = {}
    /\ UNCHANGED <<server, screen, made, saved>>

\* The timer: it runs on by itself (timer), or from one answer to the next (answer).
Tick ==
    /\ IF screen.polls = "timer" THEN shown.working ELSE armed
    /\ armed' = FALSE
    /\ Load(ask)
    /\ UNCHANGED <<server, screen, ask, shown, forms, busy, made, saved, walk, used>>

-----------------------------------------------------------------------------
(* Forms.                                                                  *)

Open(f) ==
    /\ used.forms < MaxForms /\ Spend("forms")
    /\ form' = [f EXCEPT !.token = used.forms + 1]
    /\ UNCHANGED <<server, screen, client, loads, saves, busy, made, saved, walk>>

\* A request has its id from here on, however often it is saved.
OpenNew ==
    /\ screen.creates # "none" /\ (screen.shared => ~busy)
    /\ Open([token |-> 0, of |-> None, version |-> 0])
    /\ UNCHANGED fetches

\* With the values of the list, whether they are the last or not.
OpenRow ==
    /\ "row" \in screen.edits
    /\ \E i \in shown.items : Open([token |-> 0, of |-> i.id, version |-> i.version])
    /\ UNCHANGED fetches

OpenDetail ==
    /\ "detail" \in screen.edits
    /\ \E i \in shown.items : fetches' = fetches \cup {i.id}
    /\ fetches' # fetches /\ used.forms + Cardinality(fetches') <= MaxForms
    /\ UNCHANGED <<server, screen, client, loads, form, saves, busy, made, saved, walk, used>>

\* A detail fills the form whatever is open by then.
Detail(r) ==
    /\ r \in On
    /\ fetches' = fetches \ {r}
    /\ Open([token |-> 0, of |-> r, version |-> table[r].version])

Cancel ==
    /\ form # None /\ ~busy
    /\ form' = None
    /\ UNCHANGED <<server, screen, client, loads, fetches, saves, busy, made, saved, walk, used>>

Send(f) ==
    /\ ~busy /\ busy' = TRUE
    /\ used.saves < MaxSaves
    /\ saves' = saves \cup {[token |-> f.token, of |-> f.of, version |-> f.version,
                             try |-> used.saves, live |-> TRUE, state |-> "sent"]}
    /\ UNCHANGED <<server, screen, client, loads, fetches, made, saved, walk>>

Save == form # None /\ Send(form) /\ used' = [used EXCEPT !.saves = @ + 1] /\ UNCHANGED form

\* Approve, release, close: a row is acted on as it is shown.
Act ==
    /\ "act" \in screen.edits /\ used.forms < MaxForms
    /\ \E i \in shown.items : Send([token |-> used.forms + 1, of |-> i.id, version |-> i.version])
    /\ used.all < MaxAll[screen]
    /\ used' = [used EXCEPT !.forms = @ + 1, !.saves = @ + 1, !.all = @ + 1]
    /\ UNCHANGED form

AcceptsAgain(s) == s.of # None => s.of \in On /\ table[s.of].version = s.version

\* A record is changed from the version it was read with, and created once.
Accepts(s) ==
    IF s.of # None THEN s.of \in On /\ table[s.of].version = s.version
                   ELSE screen.creates = "plain" \/ made[s.token] = 0

\* The same request again is answered as the first was.
Replayed(s) == s.of = None /\ screen.creates = "request" /\ made[s.token] > 0

Now(s, state) == saves' = (saves \ {s}) \cup {[s EXCEPT !.state = state]}

Process(s) ==
    /\ s.state = "sent"
    /\ IF Accepts(s)
       THEN /\ IF s.of = None
               THEN \E r \in Rows, k \in Keys : table[r].state = "new" /\ Put(r, Fresh(k))
               ELSE Put(s.of, [table[s.of] EXCEPT !.version = @ + 1])
            /\ working' = (working \/ screen.polls # "no")
            /\ made' = [made EXCEPT ![s.token] = @ + 1]
            /\ Now(s, "done")
       ELSE /\ Now(s, IF Replayed(s) THEN "done" ELSE "refused")
            /\ UNCHANGED <<server, loads, made, same>>
    /\ UNCHANGED <<screen, client, form, fetches, busy, saved, seen, used>>

\* The request does not arrive, or its answer does not.
Lose(s) ==
    /\ s.state \in {"sent", "done"}
    /\ used.failures < MaxFailures /\ Spend("failures")
    /\ Now(s, "failed")
    /\ UNCHANGED <<server, screen, client, loads, form, fetches, busy, made, saved, walk>>

\* A save that succeeded closes the form and reads again; another leaves it to be saved again.
Answer(s) ==
    /\ s.state # "sent"
    /\ saves' = saves \ {s}
    /\ IF s.live /\ s.state = "done"
       THEN /\ form' = None
            /\ ask' = IF screen.restarts THEN [ask EXCEPT !.cursors = <<>>] ELSE ask
            /\ Load(ask')
            /\ busy' = screen.shared
            /\ saved' = IF s.of = None THEN saved ELSE [saved EXCEPT ![s.of] = s.version + 1]
       ELSE /\ busy' = (busy /\ ~s.live)
            /\ UNCHANGED <<form, ask, loads, failed, saved>>
    /\ UNCHANGED <<server, screen, shown, armed, fetches, made, walk, used>>

-----------------------------------------------------------------------------
InitScreens ==
    /\ screen \in Screens /\ table \in Tables[screen.paged]
    /\ working \in IF screen.polls = "no" THEN {FALSE} ELSE BOOLEAN
    /\ ask = Begun /\ shown = Blank /\ failed = FALSE /\ armed = FALSE
    /\ loads = {[question |-> Question(Begun), live |-> TRUE, answer |-> None]}
    /\ form = None /\ fetches = {} /\ saves = {} /\ busy = screen.shared
    /\ made = [f \in 1..MaxForms |-> 0] /\ saved = [r \in Rows |-> 0]
    /\ seen = {} /\ same = {}
    /\ used = [asks |-> 0, changes |-> 0, failures |-> 0, forms |-> 0, saves |-> 0, all |-> 0]

ServeLive == \E l \in loads : l.live /\ Serve(l)

DeliverLive == \E l \in loads : l.live /\ Deliver(l)

ReadAnswered == \E l \in loads : Serve(l) \/ Deliver(l)

FormAnswered == (\E r \in fetches : Detail(r)) \/ (\E s \in saves : Process(s) \/ Lose(s) \/ Answer(s))

NextScreens ==
    \/ Others \/ Done \/ ReadAnswered \/ FormAnswered \/ Tick
    \/ Search \/ NextPage \/ PreviousPage \/ FirstPage \/ PageSize \/ Refresh
    \/ OpenNew \/ OpenRow \/ OpenDetail \/ Cancel \/ Save \/ Act

\* Timers fire, and reads are answered - now and then before the timer asks again.
FairnessScreens == WF_web(Tick) /\ WF_web(ServeLive) /\ SF_web(DeliverLive)

SpecScreens == InitScreens /\ [][NextScreens]_web /\ FairnessScreens

-----------------------------------------------------------------------------
Settled == ~Reading /\ ~failed

\* Who pages through a list to its end has seen every record that was not touched meanwhile, whatever
\* came, went or moved, on whichever pages were gone back to or read again (pager.tsx, pageOf).
WalkComplete ==
    (Settled /\ shown.next = None) => same \cap Matching[shown.question.search] \subseteq seen

\* Once nothing is read any more, what is shown answers what is asked for last, however the answers
\* came in, and is not older than what this person saved (useList and its like).
ShownAnswersAsked ==
    Settled => /\ shown.question = Question(ask)
               /\ \A i \in shown.items : i.version >= saved[i.id]

\* A form changes one record once, though its answer is lost, it is saved again, or both are on
\* their way; what is created plainly (a stock movement, a downtime, an upload, an order whose
\* number is left blank) is not so protected (demand-stock.tsx:699-848, :1201, access.tsx:675).
AppliedOnce == screen.creates # "plain" => \A f \in DOMAIN made : made[f] <= 1

\* A screen that waits for a calculation learns that it is done, unless a read failed in the end or
\* another one was started.
SeesTheEnd == (screen.polls # "no" /\ ~working) ~> (~shown.working \/ failed \/ working)
=============================================================================
