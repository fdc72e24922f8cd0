# A verification project for RARE OS

RARE OS plans a plant: it keeps masters, orders and stock of a company, computes
replenishment buffers and a production schedule from them, proposes purchases,
and lets people publish, release and execute what was planned. This directory
holds TLA+ models of the parts whose correctness depends on the order in which
several actors act, the TLC configurations that check them and the proofs that
TLAPS checks. Definitions are translated from the source; `PROJECT.json` maps
each of them to its lines.

## 1. Inventory

| Component | State it keeps | Operations | Hard behaviour | What makes it correct |
|---|---|---|---|---|
| Outbox and worker (`apps/workers/src/main.ts`) | `outbox_events`, `processed_events`, BullMQ jobs | dispatch, run a job, record a failure | two processes' transactions and a Redis queue without a common commit; crashes, stalls, retries | at most one effect per event, no event lost, the record behind an event tells the truth |
| Import batches (`availability.controller.ts`, `raw-imports.controller.ts`, `workers/src/imports.ts`) | `import_batches`, `import_rows`, imported records | upload, stage, validate, commit, cancel, revalidate, fail | the worker does not take the lock of the API; stale screens; late failures | records of a batch are saved once, what was reviewed is what is saved, final states are final |
| Planning queue (`packages/schema/planning-db.mjs`) | `planning_input_events`, `planning_runs`, `planning_state` | touch, queueRun, runPlanning, failRun, planningStatus | commit order against sequence order, two row locks in opposite order | one queued run, runs promoted in order, no change forgotten, "up to date" is true |
| Purchase proposals (`purchase-db.mjs`, `engines/purchase.mjs`, `purchase.controller.ts`) | `purchase_proposals`, orders made from them | sync by a run, raise, change, reject, approve, approve several | a run reads and writes while people decide | one pending proposal per item, the order equals what was approved, people's decisions are kept |
| Goods receipts (`purchase-db.mjs`) | `goods_receipts`, order lines, stock movements | receive | retries with a request id, imports over the same lines | received at most what was ordered, once per request |
| Stock ledger (`demand-stock-db.mjs`, `014_demand_stock.sql`) | `stock_movements`, `stock_balances` | post, reverse, import | concurrent postings and a check before a write | a balance is the sum of its movements and never negative |
| Orders (`demand-stock.controller.ts`) | sales, purchase, production orders | create, edit, close, import | edits against imports and runs | quantities stay consistent with what happened |
| Schedule publication and planner decisions (`schedule.controller.ts`, `schedule-db.mjs`) | published schedules, firm orders, decisions | publish, insert, club, move | decisions on a plan that a run replaces | only a current plan is published or changed |
| Materials decisions (`materials-decisions.controller.ts`, `engines/materials-decisions.mjs`) | expedite actions and bundles | ask, merge, approve, reject, confirm | a new request meets an action that is shared, approved or answered | an answer counts only while it comes in time, a bundle says what its actions say |
| Execution (`execution.controller.ts`, `execution-db.mjs`) | production orders, order plans, downtime | release a recommendation or work, complete, stop, propose and confirm a later date, import, close | requests read the planning status in three statements while a run promotes itself | what is made is what is lacking, "up to date" is true, an accepted date stays |
| Access and provisioning (`access.controller.ts`, `identity.ts`) | users, roles, identity state | invite, change, deactivate, remove, sync | two systems without a common commit | never without an administrator; a user has the right login, a login in use stays |
| Companies and plants (`company.controller.ts`, `plants.controller.ts`) | companies, memberships, active company | create, switch, correct an email, assign plants | membership against open sessions | a session works with the access it was given |
| Sessions and sign-in (`apps/api/src/main.ts`, `core.ts`, `session-security.ts`) | sessions, login attempts | sign in, refresh, log out, back-channel logout | changes of a user against sessions that live on | an access that was taken away ends |
| Masters, plant model (`masters-db.mjs`, `plant-model-db.mjs`, `planning-db.mjs`) | units, items, sources, profiles, settings, calendars, resources, BOMs, routings | create, edit, deactivate, import, adopt a corrected cycle time | a check against what another transaction has not committed; files whose rows change what the next is checked against | no BOM loop, one revision a day, nothing inactive in use |
| Buffer engine (`engines/ddmrp.mjs`) | none; one calculation | direct, dependent and production demand, net flow, zones, recommendations | demand that reaches a component along several ways | each demand counts once for each way it is used |
| Scheduling engine (`engines/scheduler.mjs`, `insert.mjs`) | none; one calculation | order of work, clubs, rush orders, groups, released work, placement on machines | stops, changeovers, decisions that build on one another | machines do one thing at a time, clubs hurt nobody, released work stays |
| Web client (`apps/web/src`) | what is asked for, what is shown, forms | read, search, page, fill in, save, act, wait | answers that come late, in another order or not at all | what is shown answers what was asked last, a walk through the pages misses nothing, a form is applied once |
| Planning tools (`planning-tools.controller.ts`) | schemes, events, limits, notes | save, accept, decline; the rest reads | a scheme is saved again after it was accepted | an accepted scheme is in what is recommended |
| Import mapping, views, identity provider extensions, operations | their own settings, none, or a third party's | | | |

How they interact: an API handler changes rows in one transaction (`mutate`,
serialised per company by an advisory lock), writes an `outbox_events` row in it,
and database triggers leave a planning marker. The worker dispatches events to
BullMQ and runs their handlers (imports, planning runs) in transactions of its
own, without the advisory lock; its timer turns markers into queued runs. A run
reads all inputs, saves results, promotes itself and rewrites the pending
purchase proposals. Publishing, inserting and approving ask `planningStatus`
whether the current run is up to date.

## 2. Modules

| Module | Models | Composition |
|---|---|---|
| `EventOnce` | what the outbox promises: at most one effect, a final verdict | abstract specification |
| `Outbox` | `main.ts` of the worker, BullMQ as environment | implements `EventOnce` (`ImplementsOnce`) |
| `ImportBatch` | batches of one kind whose rows use one unit | assumes of its events what `Outbox` shows |
| `PlanningQueue` | change markers, queued runs, promotion | assumes of its runs what `Outbox` shows |
| `Proposals` | proposals of one plant, runs against people | assumes of its runs what `PlanningQueue` shows |
| `ProposalsProofs` | inductive invariant, safety and action proofs | extends `Proposals` |
| `Receiving` | stock ledger, one purchase order, its receipts and imports | assumes of its batches what `ImportBatch` shows |
| `QuantityProofs` | quantities that have to add up: sums over finite sets, stock and receipts, the demand of buffers | extends `Receiving`, `Calculation` |
| `Publication` | previews, decisions, publications, pruning | assumes of its runs what `PlanningQueue` shows |
| `Access` | users and their logins, companies, sessions | the identity provider as environment |
| `AccessProofs` | inductive invariant and safety proofs | extends `Access` |
| `Expedites` | requests for material, answers, bundles of one component | the calculation in between is `PlanningQueue`'s |
| `Execution` | production orders, later dates, downtime, a demand scheme against calculations | assumes of its runs what `PlanningQueue` shows, and takes them apart where a request reads them |
| `ExecutionProofs` | inductive invariant and safety proofs | extends `Execution` |
| `Masters` | records and references by people and files | assumes of its batches what `ImportBatch` shows |
| `Buffers` | `planPlant` of `ddmrp.mjs` | relies on `Masters`' `NoLoop` |
| `Scheduler` | `scheduler.mjs` and what `schedule-db.mjs` gives it | |
| `Calculation` | one run for one plant: buffers, then schedule | composes `Buffers` and `Scheduler` |
| `Screens` | the web client's screens | the server as lists, versions and one calculation |
| `DeliveryProofs` | what is late, lost or answered twice: the outbox, with its refinement, and the screens | extends `Outbox`, `Screens` |
| `MastersProofs` | what changes the records a plan is computed from: batches, and the records themselves | extends `ImportBatch`, `Masters` |
| `PlanningProofs` | calculations: their queue, and the schedule inside one | extends `PlanningQueue`, `Calculation` |
| `DecisionProofs` | what planners and buyers decide: publications, requests for material | extends `Publication`, `Expedites` |
| `MC*` | instances and symmetry for TLC | |

Two locks shape all of them. An API handler that changes something is one step
wherever nobody else can commit a change it depends on: `mutate` takes an
advisory lock per company, so handlers exclude each other. The worker does not
take that lock, nor do the setup of a login, the correction of an administrator's
email and the platform's switches: their transactions, and the reads of a handler
that such a commit can invalidate, are split into steps.

**Outbox.** One event row goes `absent`, `pending`, `delivered`. `ReadPending`,
`AddJob`, `MarkDelivered` are the three steps of `dispatch`, with any number of
other steps between them. `Take` to `Finish` are a slot's attempt: `Claim` is
the insert into `processed_events`, which waits for another open insert of the
same row; `Commit` may succeed while the slot is told that it failed. `FailJob`
has the two early returns of the `failed` listener and starts `RecordFailure`,
which `LoseFailure` and `Crash` may take away. A job may `Stall` while its slot
still runs, so two slots may run one job. The history variable `changed` holds the
events whose handler changed their record, which `VerdictHonest` compares with what
the record shows. BullMQ is modelled from what the code
asks of it: job ids, attempts, removal of finished jobs, stalled jobs. The
library is not in the repository.

**ImportBatch.** An API mutation is one step. A commit of the worker that saves
records is two: `CommitCheck` locks the batch and checks, `CommitWrite` saves or
`Rollback` undoes; in between other transactions commit. Row contents are
abstracted to one unit, active or not, and one bit "has errors". `stamp` names
the validation a batch shows, `agreed` the one its committer had on the screen.
Two checks look for duplicates, as in the code: the one at the beginning of a commit
compares the file, the unique index met by its write the file and the sheet.

**PlanningQueue.** `Touch` takes a version, `CommitChange` makes the change and
its marker visible; between them other changes may do both. `queueRun` is
`Begin` (lock of `planning_state`, deletion of visible markers, look for a
queued run) and one of `KeepWaiting`, `AskUpdate`/`Update`, `CreateRun`.
`runPlanning` is `StartReading` (lock of the run), `AskPromote`, `Complete`
(lock of `planning_state`); the opposite lock order makes `Deadlock` possible,
which `AbortCall` or `AbortAttempt` resolves. `seen` is what a run has certainly
read. The history variable `overtaken` holds the changes that committed after a
higher version was consumed; `ChangeAccounted` and `EveryChangePlanned` except
them, and with `NewerRunFailed` the time after a run has failed for good.

**Proposals.** `SyncRead`, `SyncWrite`, `SyncCommit` are the reads, the writes and
the commit of `syncProposals` inside a run. People's handlers are `Load`, the
unlocked read with its version comparison, and the update of the row by id.
Supplier, unit, quantity and due date are one quantity. Every item has a result
in every run. The history variable `touched` holds the proposals people wrote
since the run has read, `listed` marks what was approved in a list.

**Receiving.** The ledger is a sequence, the balance a number that the trigger
keeps. `CheckPost`/`WritePost` are one handler (`api` holds what it checked, and
with it the lock of the company), `CheckFile`/`WriteFile` and `CheckDoc`/`WriteDoc`
one attempt of an import each (`work`, per slot). A write that the database
refuses ends as the code ends it: `stock_not_negative` answers a conflict or
rolls a file back to its savepoint and fails the batch; a reference or order
number taken meanwhile aborts the attempt. `Receive` is one step, because it
locks the lines before it looks at them. The history variable `foreign` carries
the exception of `ReceivedFromReceipts`: lines whose received quantity an import
wrote, or whose unit was edited. Reversing the movement of a receipt takes the
stock back and leaves the received quantity, as the code does. Dates,
permissions, deactivated locations and request ids reused for another order are
left out.

**Publication.** Queueing and promotion are single steps here. A preview is
`View`, which reads the planning status, and `PreviewContext`, which reads the
plan of the plant later, without a lock in between. `Decide` is any handler that
saves a plan (club, declub, move, release: `version` rises) or inserts an order
(it does not); both leave a change marker. `Begin` is the begin of a publish
transaction, whose time becomes `published_at`, before it waits for the lock.
What a scenario computes is not modelled.

**Access.** `row` is `app_users`, `idp` the identity provider. A handler under the
company's lock is one step where what it writes does not depend on what it has read;
`updateUser` is `CheckUpdate` and `WriteUpdate`, because it reads the account without a
row lock and writes the email by id, and the setup of a login saves without that lock.
`holder` is the update or removal that holds the lock of a company. `provision` is `StartSetup`, `Lookup`, `Post`,
`Check`, `SaveLogin`, with `Fail` and `CrashSetup` at every step; it holds no lock
while it talks to the provider, so an edit or a second setup may come in between.
`removeUser` is `CheckRemoval`, `FindLogin`, `DeleteLogin`, and `CommitRemoval` or
`Abort`, under the lock of its own company only, while a login may be
shared with users of another. A session remembers the auth version of the user it
was opened for (`Accepts`). `changes` counts what should end a session; `crossed` holds the
logins whose user got another email by an edit that had read the account before they were
saved; `cut` holds
the logins that were deleted although a row kept or got them: a removal that was
undone after the deletion, one that a user was attached behind, and one whose user
was detached from the login before it was counted (section 3).

**Expedites.** An action is asked for (`Request`), merged into an action that waits
or is answered (`Merged`), approved by another person, rejected, confirmed with a
quantity and a day; each of these ends with `Refreshed`, as in the code, which
gives the bundles of all orders that share the action their state. Supply of a
component by day is stock, the purchase line and the answers.

**Execution.** The two requests that rely on the planning status without its lock
are split into its statements (`Begin`, `ReadMarkers`, `ReadRuns`) and what follows
(`ReleaseMake`, `ReleaseWork`). All orders are of one item. `Recommended` is what
`planPlant` recommends of it: `Supply` are its open orders that do not wait for a
customer's date (`InBook`, the code's `NOT_PENDING`), in the WEEKLY method none;
`Qualified` is the demand with an accepted scheme and without imported orders that
wait; above the top of yellow nothing is recommended, otherwise up to the top of green.
The item's stock and other demand are constants. `SaveScheme` and `DecideScheme` keep
the demand scheme. A run is `QueueRun`, `ReadInputs`, `Promote`, or `Retry` and in the
end `FailRun`. `marker` says whether markers are left, and whether a waiting run
stands for them already by their version (`Mark`, for changes that commit late):
`DropMarkers` then deletes them although that run has read. Of what a run found, `behind`
remembers that a change which is not in it was forgotten, by `DropMarkers` or `FailRun`;
of a request, `raced` that a file was imported between its statements.

**Masters.** A record has what all of them share: active or not, the records it
uses, the days it is effective on, and one flag. A change is checked (`Check…`) and
written in a second step (`Commit`), because an import's check and a handler's
overlap; `late` holds what was written although the check's grounds had
changed. `AdoptCycleTime` ends a routing revision yesterday and adds its correction from
today on, without an end and without a check; `unchecked` holds the pairs of revisions
that it put side by side. `LoopRefuses` walks the graph as the code does, one file or one document
at a time; `Overlaps` compares revisions; `LosesMark` takes the preferred or
default mark away from its rival.

**Buffers and Scheduler.** Both turn the loops of an engine into phases and each
iteration into a step, so that TLC checks every intermediate result of every
input that `Init` chooses. Where the order of an iteration is not fixed by the
code's own sort, any order is taken. `Calculation` runs one after the other and
explores their inputs side by side, because nothing the buffers find moves an operation of the
schedule. `forwardPass` is there twice, as in the code: `Passes` runs it at once for the
trials of the grouping and of a quote, `PlaceNext` one operation at a time for the
schedule itself; both place an operation with `Place`.

**Screens.** A screen is a record of what it lets a person do: whether and how it
pages, searches, waits, shares one busy flag, edits from the list or from a
detail read anew, creates, polls. The actions are the parts the screens are
built from: the effect that reads (`Load`, `Serve`, `Deliver`), `usePaging` and
`Pager`, forms (`Open…`, `Save`, `Answer`) and timers. Reads are answered late, in any order,
or not at all. A list's rows keep their ids, and their keys may change. The
server is what the client relies on: keyset pages, versions, keys that are
unique, requests that are replayed.

## 3. Runs

All configurations set `CHECK_DEADLOCK FALSE`: events, changes, runs, movements,
requests and a person's patience are bounded, and a calculation ends, so the
models really stop when a bound is reached or the work is done.

| Run | Shows | Bounds and why they are enough |
|---|---|---|
| `outbox` | `NoSilentLoss`, `VerdictHonest`, `ImplementsOnce`; `EventuallySettles` under fairness | one event: events share no state but slots; two slots as in the code; three attempts, so that a first, a middle and a last one differ; a stall, two crashes, two outages |
| `import_batches` | `SavedOnce`, `SavesWhatWasReviewed` | two batches of one file, one person with a stale screen, four events: both batches validate and commit, or one validates, commits and is retried twice |
| `planning` | `ChangeAccounted`, `UpToDateIsComplete`; `EveryChangePlanned` under fairness | two changes in any order: one overtakes the other; two callers, four runs, one deadlock |
| `proposals` | `ApprovedAsOrdered`, `OrderedFromCurrentRun`, `NeedRaised` | one item: items share no rows; two people, two quantities, two proposals, three runs: one to propose, one to overlap, one to see the outcome |
| `receiving` | `AllOrNothing`, `WithinOrdered`, `ReceivedFromReceipts` | one line, two quantities and two units; two slots; a file that opens the stock and one whose second row may fail; one request id, sent any number of times; four movements: a posting, a file of two and a reversal |
| `publication` | `PlansBuildOnPlans`, `LastPublishedIsNewest`, `PublishedKept` | two planners, two plants; three runs with one kept beside the current one, so that the oldest is pruned; two decisions, two publish requests that may commit in either order |
| `access` | `AlwaysAdmin`, `LoginMatches`, `LoginKept`, `SessionAsGranted` | two companies and three users, so that a login is shared across companies and a company has two administrators or one; three logins and emails: an edit may take either the free or the other one; one setup in flight, one session, four requests of people. States that differ only in what no guard and no property tells apart count as one (`Told` in `MCAccess`): the number of a version or of an auth version, of which only equality with one read earlier is asked, and whether a user who is not ready waits or has failed |
| `expedites` | `ConfirmedInTime`, `BundlesFollow` | two orders that share a component, one of which also needs another; two days: in time or late; two people, as nobody approves a request of their own; five actions, seven steps: ask, approve, answer, ask again, and what follows |
| `execution` | `MadeForLack`, `NoDoubleMake`, `ShownIsLive`, `AcceptedIsPromise` | the standard method; room for one and demand for two with a green zone of two, so that one order of three meets the need, the scheme of one makes it four, and an imported one of one or two brings it below what is worth an order or not; two orders, quantities and dates; one stop and one scheme; three runs: before, around and after a request; four operations |
| `masters` | `NoLoop`, `RevisionsApart`, `InUseIsActive` | two made items and a bought one, two of each other kind; three changes by the API and two worker slots at a time: a loop, an overlap and a broken reference each need two; three days, so that a correction falls between a revision's begin and the begin of a later one; the changes offered are those that can meet on a record |
| `calculation` | `DemandByPaths`, `MachineSerial`, `WorkInTime`, `PullsHurtNobody`, `ReleasedKeepsTimes` | four items with three ways from top to bottom, all combinations of settings, five books, three sets of production orders; schedules of three orders and up to two lots over two items, a machine with a changeover and one of two, stops that touch each other, a day of four minutes so that work crosses days |
| `screens` | `WalkComplete`, `ShownAnswersAsked`, `AppliedOnce`; `SeesTheEnd` under fairness | every screen; four records of which two share a key, pages of two and three: a page ends between the two; a change by others, a failure, a form saved twice, and up to five things a person or the network does (two for the schedule, which offers everything) |

Every property is broken by a mutant of the code's model, named in
`PROJECT.json` and kept beside the definition it changes.

### What the code does that one might not expect

Met while modelling. Where a property would be violated by it, the property names
the exception.

Worker, queue and imports

- The failure of an exhausted job is recorded once, without being awaited: a
  crash, a database error or a job that failed because it stalled leaves a batch
  in progress for ever (`main.ts:75-89`, against `imports.ts:741`).
- The second sheet of a workbook fails as a duplicate: the check at commit leaves
  the sheet out (`imports.ts:459`, against `026_raw_imports.sql:69`).
- References are checked again at commit and not locked (`imports.ts:505`).
- A change that commits after a higher version was consumed loses its marker to a
  run that has already read (`planning-db.mjs:227`); after a run has failed for
  good the older one counts as up to date (`planning-db.mjs:708`).
- A run never ends `superseded`: one run is queued at a time, so the run that
  promotes itself is newer than the current one and the other branch of
  `promote_planning_run` is dead. `CurrentOnlyNewer` proves it.

Purchases and stock

- A run overwrites a person's change made after it read (`purchase-db.mjs:92`). A
  list of approvals uses a planning status read before its proposals are locked
  (`purchase.controller.ts:190`).
- Two postings at once may both open the stock (`demand-stock-db.mjs:284`). An
  import or an edited unit changes what a line has received
  (`demand-stock-db.mjs:764`).
- Importing a completed production order again opens it
  (`demand-stock-db.mjs:1034`, against `execution-db.mjs:84`).
- The list of stock movements ignores the page size that is asked for
  (`demand-stock.controller.ts:224-238`, against `pager.tsx:20-21`).

Users and logins

- An email edit that was read before the login of the old email was saved is written
  after it: `updateUser` takes no lock on the row and `provision` not the company's
  (`access.controller.ts:539`, `:571`, `:167-199`). The user then has a
  login of another email, which later users of that email may be attached to.
- `removeUser` counts the users of a login with the removed one among them. Between
  its read and its count `correctAdminEmail`, which takes another lock, may detach
  that user; the login another company's user points at then counts as his alone
  and is deleted (`access.controller.ts:627`, `company.controller.ts:297`, against
  `027_remove_user.sql:3-4`). The proof of `LoginKept` fails without this exception.

Masters and calculations

- A BOM loop can be saved by a race, because an import of plant data takes no
  company lock, although `ddmrp.mjs` relies on loops being refused on save.
- Adopting a corrected cycle time compares the new revision with none: it has no end, and
  overlaps a revision that was entered to begin later (`execution-db.mjs:282`,
  `013_plant_model.sql`).
- An order that was released from a recommendation does not always keep its need from
  being recommended again: in the WEEKLY method open orders only reduce what their
  components are needed for (`ddmrp.mjs:430-434`, `:521`; `ddmrp.test.mjs:353` says it is
  meant so), and while it waits for a customer's date it is no supply (`planning-db.mjs:362`).
- A file that ends V1 and starts V2 is refused. A file that marks an inactive
  source as preferred takes the mark from the active one, and an inactive
  calendar can become the default.
- An item that turns bought or inactive keeps its active BOM and routing, which
  can then neither be edited nor deactivated.
- The later line that counts as a spike of a WEEKLY made item reaches its components
  twice, once by itself and once in what is recommended; demand passes through a
  buffered item whose profile is inactive, because `planSites` leaves it out. `DemandByPaths` states the
  demand of both as the code has it.
- Saving an accepted scheme with a new volume keeps it accepted. A club
  reads a component's use as 1 where no conversion exists (`schedule-db.mjs:200`).
- A rush order quoted before work that is then released goes to the end and
  ships later than promised (`scheduler.mjs:266`, against `insert.mjs:349-350`).

Web client

- After a page failed to load, Next takes the same cursor again: the page number rises
  and nothing is read. After a failed search or page size it goes on from the
  list before. In the schedule, whose pager does not wait, Next can be pressed twice,
  and while a search is read it starts the search at the old list's position.
- `BatchDetail` drops answers that take longer than its timer of 1500 ms. The
  buffer board and the schedule stop asking after one failed read
  (`planning.tsx:644`, `schedule.tsx:1185`).
- A detail that arrives late replaces a form that is being filled in; the answer to
  a save closes whatever form is open by then. More roles of an older query are
  appended to a newer one's in the user form.
- Movements and downtime entered by hand, uploads, and orders whose number is left blank
  (the server takes the next one) have no request id: saved again after a lost answer
  they are there twice (`demand-stock.tsx:799-806`, `demand-stock.controller.ts:379-380`).

## 4. Fairness

- `Outbox`: the dispatcher, the planning timer, the slots and BullMQ's check for
  stalled jobs run on timers without a condition (`main.ts:138-140`), so each of
  their steps is weakly fair. Losing a lock, crashes, outages, rollbacks by choice
  and the removal of old jobs are not fair: nothing makes them happen.
  `RecordFailure` is weakly fair while the process lives: its transaction is in flight.
- `PlanningQueue` assumes that a queued run is handled in the end or given up,
  which `outbox` shows of its event. Open transactions commit or roll back: the
  database sets a statement timeout.
- `Screens`: a timer of the browser fires (`WF` of `Tick`), a read is served or lost
  (`WF` of `ServeLive`), and answers come now and then before the timer asks again
  (`SF` of `DeliverLive`: `BatchDetail` drops the answer otherwise). What a person
  does, and that a save is answered, is not assumed.
- The other modules state safety only and assume no fairness: whatever people and
  workers leave undone, nothing wrong happens.

## 5. Proofs

Thirteen components are proved about, in eight modules: two components that meet the
same hazards, or need the same lemmas, share one (section 2). Each component has an invariant that is
inductive: it holds at first, and every action keeps it, with one lemma per action.
It is `IInv`, and its theorem `Invariance`; where a module has a second component,
that component's are named for it (`ScreensInv`, `ScreensInvariance`). The properties are
derived from it. TLC has checked every one of them on the run of its component before it
was proved. The theorems hold for any values of the constants that satisfy the
module's assumption; what the assumptions say is listed with each. Every safety
invariant and every action property that a run checks is proved, but for
`NoDoubleMake` (section 6).

**Outbox** (`DeliveryProofs`; `OutboxAssumption`: the bounds are numbers).

- `IInv` adds to the type invariant that a slot has an event exactly while it is
  busy (`SlotInv`), that at most one open transaction holds the ledger row of an
  event and a finished slot has its row committed (`ClaimInv`), that `runs` and
  the records follow the ledger (`LedgerInv`), that a completed job is processed
  and a failed one exhausted (`JobInv`), and that only committed rows go around
  (`RowInv`). `AtMostOnce` needs `ClaimInv`: without it two slots could both be
  about to commit. `NoSilentLoss` needs `RowInv` for the row between `AddJob` and
  `MarkDelivered`.
- `VerdictHonest` is one of its parts, and needs `ClaimInv` too: a late failure meets a
  record whose handler may have committed without telling, and only the comparison of the
  status keeps it from hiding that.
- `NothingLost`, `StatusIsHonest`: the invariants of the run; `TypeCorrect`,
  `HandledAtMostOnce`, `CompletedIsProcessed` beyond them. `StatusIsFinal`: a
  verdict is never taken back. `Refinement`: each step maps to a step of
  `EventOnce` or to a stutter.

**ImportBatch** (`MastersProofs`; `ImportAssumption`: "no sheet" and "no file" are none, the bounds
are numbers).

- `IInv` needs `HoldInv`: an open commit belongs to an unprocessed event and holds
  the row of a batch that is being committed, and no two hold one row, so nothing
  that `CommitCheck` found about that row changes before `CommitWrite`. It needs
  `ViewInv`: a screen with the row's version shows the row's validation, which is
  what the comparison of versions is for.
- `SavedAsShown`, `ReviewedIsSaved`: the properties of the run. `CommittedIsFinal`,
  proved by `CommittedForGood`, goes beyond them: no step touches a committed batch.

**PlanningQueue** (`PlanningProofs`; `PlanningAssumption`: the bounds are numbers, "nobody" queues
nothing).

- `IInv` says that one run is queued at a time and every older one is finished
  (`RunInv`), that a call of `queueRun` holds the row of `planning_state` and the
  run it found is still the queued one unless it failed (`CallInv`), that a run
  stands for a committed version (`InputInv`), and that a run that reads has seen
  every change whose marker is gone (`SeenInv`). `ChangeAccounted` needs all four:
  a promotion may only replace a run by one that has seen at least as much.
- `NoChangeForgotten`, `UpToDateHoldsAll`: the invariants of the run.
  `CurrentOnlyNewer` beyond them: the current run is replaced by newer ones only.
- The largest version of a set exists because among the intervals from a version
  to a bound there is a smallest one (`BoundedHasMax`).

**Proposals** (`ProposalAssumption`: finitely many items, quantities above zero,
"no one" is nobody, the bounds are numbers).

- `IInv` says what a run may rely on between its read and its commit: its decision
  is about a proposal of the run's own making that may have been approved meanwhile
  only in a list (`DecisionInv`), and for an item nobody wrote to it is the
  decision that would be taken now (`FreshInv`). `LoadInv` does the same for a
  person between the unlocked read and the update: what was loaded is there, or a
  newer run wrote it, and then the comparison of runs refuses it.
- `OrderedAsSeen`, `OrderedAsCalculated`, `NeedsAreRaised`: the properties of the
  run, the last two about steps.

**Receiving** (`QuantityProofs`; `ReceivingAssumption`: finitely many lines and requests; movements,
forms, files and receipts have the types and signs the validation of their rows
demands; within a file no external reference is repeated; a file does not receive
more than it orders).

- `IInv` says of the handler under the lock that what it checked is what the lines
  have received, unless an import changed it since (`ApiInv`), and of an import
  that what it has not to post of its file is posted already (`WorkInv`). So
  `AllOrNothing` survives the time between an import's check and its write, in
  which another import may have posted the same references. `StockIsLedger`, that
  the balance is the sum of the movements and not negative, is proved beyond the
  properties of the run (`StockIsItsMovements`).
- `FilesWhole`, `NeverOverReceived`, `ReceivedIsSum`: the properties of the run.
- Sums are recursive functions over finite sets, whose values the first part of the
  module establishes without an induction theorem: of the sets for which a
  statement about sums fails, one would be smallest (`SmallestSet`), and it holds
  for that set without one element. `UpTo` does the same for numbers and `FreshRows`
  uses it for the rows of a file.

**Publication** (`DecisionProofs`; `PublicationAssumption`: the bounds are numbers, "no screen" is
not a screen).

- `OneDecisionPerRun` needs `StaleInv` (a run with a decision is stale until a newer
  one takes over or fails) and that queued runs are newer than everything
  (`RunsInv`). `PlansBuildOnPlans` needs `ScreenInv`: a screen that shows the
  current version has seen every plan saved for that plant; it needs no order of
  the preview's two reads, because versions only grow. `LastPublishedIsNewest`
  needs `CallsInv`: a request that began before a publication of its plant reviewed
  no newer run than that one, so it is refused (`PublishedBefore`). `PublishedKept`
  needs `NewestInv`: the newest publication exists.
- `NoPlanOverwritten`, `NewestIsLast`, `PublishedStays`: the properties of the run;
  `TypeCorrect` and `DecidedOnce` (two decisions never rest on one calculation)
  beyond them.

**Access** (`AccessAssumption`: finitely many users, each of one company whose first
administrator is one of them; the markers for "none" are no user, login, email or
record; the bound is a number).

- `AlwaysAdmin` needs `RemovalInv`: while a removal holds the lock of a company
  another active administrator stays. `LoginMatches` needs `SetupInv`: the login
  that a setup is about to save has the email the user has now, if the user has
  kept the version that the setup started from; the setup holds no lock, and this
  is all the final comparison of versions leaves to rely on. An edit that has read the
  account and not yet written is no part of that version: what it writes over a login
  saved meanwhile is the exception `crossed`. `LoginKept` is
  inductive only together with the removal that has deleted the login and not yet
  the row (`KeptInv`). `SessionAsGranted` needs that the auth version counts the
  changes (`AuthInv`, `SessionInv`).
- `CompanyHasAdmin`, `LoginIsOfUser`, `NoLoginLost`, `SessionIsCurrent`: the
  properties of the run.

**Execution** (`ExecutionAssumption`: quantities, dates and the extra of a scheme
above zero, either method, the room below the top of green an integer, the demand, the green
zone and the bounds numbers, "none" is no order).

- `MadeForLack` needs `LockInv`: once a request that holds the lock has seen no
  marker, what every run has found is what it would find now, whatever is calculated
  between the statements of the planning status and the read of the recommendation, unless
  a file is imported meanwhile or a change was forgotten. `ShownIsLive` needs `FreshInv`:
  without a marker a run will still read, or what the newest one found is what it
  would find now, or a change was forgotten. `AcceptedIsPromise` needs `PromiseInv`.
  Every operation keeps `FreshInv` because it leaves a marker wherever it changes an
  input; that the marker may be one that a run stands for already is why `DropMarkers`
  has to look at what the run has read.
- `MadeForWhatIsLacking`, `UpToDateIsLive`, `PromiseKept`: the properties of the run.
  `ReleaseNumbersApart` beyond them: two released orders have two numbers, though
  the number is counted and no index forbids a second.

**Expedites** (`DecisionProofs`; `ExpeditesAssumption`: finitely many orders and days,
at least one day, quantities above zero, the bounds are numbers, "nobody" is no person).

- `ExpeditesInv` is small, because each handler ends by bringing everything in
  line: an action is confirmed or late exactly as its answer compares with the day it
  is required (`ActionOK`), and every bundle says what its actions say (`BundlesFollow`). The
  proof is about `Refreshed`, which has to find each bundle that an
  action is part of, the new ones among them, and about `Merged`, which moves the required
  day of an action that may be answered already.
- `AnswersInTime`, `BundlesAgree`: the properties of the run.

**Masters** (`MastersProofs`; `KindsAssumption`: the kinds have no key in common;
`MastersAssumption`: changes and files are of records, and the rows of a file are active,
because a file has no column for the status; `InitiallyAssumption`: the records one starts
with have no loop, no two revisions of a day and nothing inactive in use).

- Besides the three properties `MastersInv` needs `TxInv`: what an open change has
  found by its check is still so (`Sound`), unless it was `overtaken`, that is, another
  commit has written what it read. `ReadAll` says that its check has read
  everything that could make it wrong: the records it refers to, those that refer to it,
  the other revisions, and for a BOM the BOMs of all items. A correction of a cycle time
  checks nothing, so it has to be shown that the two revisions it writes overlap only with
  those that `unchecked` names.
- `NoItemContainsItself`, `RevisionsKeptApart`, `UsedIsActive`: the properties of the
  run. A loop is stated as a set of items each of which contains, and is contained in,
  another one of the set, so that the proof of the first needs no paths.

**Screens** (`DeliveryProofs`; `ScreensAssumption`: finitely many records, page sizes above
zero, the tables have the fields of a table, "none" is no record and no position;
`TablesAssumption`: each screen has a table to start with).

- `FormsInv` says that a form and the requests sent from it are about one record as it was
  read, and that this version is gone once one of them was applied (`Spent`): it is why
  the comparison of versions, or the id of the request, lets no second one through.
  `SavedInv` relates the table to what is known to be saved, and `ReadsInv` says that at most one
  read is alive and asks what the screen asks, so whatever is delivered may be shown.
- `WalkInv` is the invariant behind the pages: for each page that was walked, every record
  that is unchanged since the walk began and lies not behind the page's end has been
  seen. It has to hold of the positions one may go back to and of the answers on their way, too.
- `FormsAppliedOnce`, `ShowsWhatIsAsked`, `PagesLeaveNothingOut`: the properties of the run.

**Schedule** (`PlanningProofs`; `SchedulerAssumption`: the operations of a route take
time, each resource has a machine, a book is finite and its units have ids of their own, stops
and the planner's lists are of their types).

- `ScheduleInv` has four parts. `InputsOK`: what was read is in order. `SequenceInv`: each
  phase finds the units of the book once, the released ones apart from the others; without
  it a unit could be placed twice, and its second placing would come before its first.
  `PlacingInv`: a machine's time and its last item leave room after every block on it
  (`BlockOK`), changeover included, blocks of one machine and operations of one unit are in
  order, and only earlier operations are placed of the unit in turn and nothing of those
  that follow. `PullsHurtNobody` itself: a pull is compared with the order of work before it, and
  the property compares with the order before every pull, so the proof needs that "not
  late, nor later than before" is transitive (`HurtsNobodyTwice`), and that both orders
  have the same units.
- `ReleasedKeepsTimes` needs `HeadInv`: while released work is placed the machines are what
  the trial pass over the released units would have at that operation, and afterwards no
  released block is added.
- `Passes` and `Placings` are recursive functions over a sequence of units. That they exist, and
  that each value follows from the one before, is shown as for the sums of **Receiving**,
  from a smallest counterexample. A trial pass satisfies `PassOK` for the same reason as the
  schedule.
- `OneAtATime`, `InOrderAndInTime`, `ClubsHurtNobody`, `ReleasedFirst`: the properties of the
  schedule; `HeadFirst` beyond them. They are theorems of `SpecCalculation`, in which the steps
  of the buffers leave the schedule alone.

**Buffers** (`QuantityProofs`; `BuffersAssumption`: finitely many items, no item contains itself,
books and orders are finite sets of lines about items, quantities and lead times are numbers,
the tops of the zones lie in order).

- `BuffersInv` is a balance, kept for every planned item: what it was asked for so far, and
  what the demand still on the stack will ask of it (`OnWay`), is what the lines read and
  the quantities made so far ask of it by all ways down (`Sought`). Each handler moves an
  amount from one side to the other, or adds it on both. `PassedDown` is the step of the stack: what a
  line asks of an item by all ways is what it asks of it directly and what the lines it
  pushes ask of it. Once an item is finished nothing on the stack asks for it
  (`Conserved`), because items are finished in the order of their levels, and demand only
  goes to deeper ones (`ThroughRises`): so what it recommends was worked out from all of it.
- `BuffersByPaths`: the property of the run, `DemandByPaths`, for every structure of items.
- The assumption on `Usage` says of any items that one is made from none of them or used in
  none of them; `Masters`' `NoLoop` guarantees it. `Lowest` draws from it that the ways down and
  the levels, which are recursive functions, exist: of the items they are not defined for, one
  would have all its components (or users) among those they are.

## 6. Model-checked only, and not modelled

Model-checked only: the leads-to properties (`EventuallySettles`, `EveryChangePlanned`,
`SeesTheEnd`), because liveness under fairness and ENABLED are out of the prover's reach;
and `NoDoubleMake`, because it compares the sums of two folds over sets of orders, which
is an induction over data. `MadeForLack` is proved; what is left is that the new order adds its quantity to the supply.
The run has the standard method; the proofs hold for both.

Not modelled, and why:

- The drum, utilisation and lead times of the schedule; the tops of the zones,
  usage rates, events and lead times at planned loading of the buffers: sums and
  rounding without a state, in numbers too large to enumerate.
- The planning tools beyond demand schemes: events, space limits and notes are
  saved in one statement, the rest only reads; the evaluation of alternatives in `decisions.mjs`; what the
  cycle-time audit finds. They compute from a snapshot. The adoption of a correction writes, and is
  an action of `Masters`.
- Import mapping and the workbook reader: text in, text out, before a batch exists.
- One-time codes, logout and its back channel, rate limits: planned as a module of
  its own on top of `Access`.
- Roles and permissions other than the system role, invitations by email.
- Delivery, overview and demand views: they read and keep nothing.
- Of the web client: drawing, wording, filters, what forms ask for, the choice of
  company and plant, downloads.
- The identity provider's extensions, deployment, backup, migrations: third-party
  interfaces and scripts that run alone.
