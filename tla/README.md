# HGV Hub: specifications, model checks and proofs

HGV Hub is a web application for lorry drivers, hauliers and driver agencies: who
drives where and for whom, shifts and what they are paid, rest and weekly limits,
vehicle checks and defects, documents and their expiry. It runs in the browser
against IndexedDB, or against a small Express/PostgreSQL server; a self-hosted server
can update itself through a sidecar container and a worker on the TrueNAS host.

This directory holds TLA+ modules translated from that code, TLC configurations that
check them on small instances, and TLAPS proofs for every size of instance.
`PROJECT.json` relates each definition to the lines it stands for and lists runs,
hazards, findings and theorems. To run something:

    tlc -config UpdateFaults.cfg SelfUpdate.tla
    tlapm SelfUpdateProofs.tla

## 1. The system

Paths below are relative to the repository. Persistence is a set of *collections* of
JSON rows behind one repository interface: `insert`, `update` (merges a patch into one
row), `remove`, `query`, and one multi-row operation, `db.insertAtomic`. There are no
foreign keys and no transactions across calls: each rule that relates two rows lives in
a service function that reads, decides and then writes, with an `await` (an HTTP request
or an IndexedDB transaction) at each access.

| Component | Where | State | Operations | What makes it correct | Hard because |
|---|---|---|---|---|---|
| Updater sidecar (Phase A) | `updater/src` | a flag `phaseARunning`, the run in memory, the git checkout, `:latest` images | `POST /apply`, `GET /status`; checkout, snapshot, build, hand over, roll back | one update at a time; a failed run leaves checkout and images as they were | every step may fail; the sidecar is itself recreated by the update it started |
| Redeploy worker (Phase B) | `deploy/truenas/bin` | flock, `state.json`, one middleware job | forced SSH command, `run_worker` | success is reported only when earned; a recorded outcome is final | a detached process; time-outs of calls that took effect |
| Update route and banner | `server/src/routes/updates.js`, `services/updateService.js`, `views/shell/UpdateBanner.jsx` | a day's cache; each banner's `applyState` | check, apply, poll | no stale outcome, no endless polling | polls a process that loses its memory |
| Work structure | `siteService`, `placementService`, `engagementService`, `assignmentService` | sites, placements, engagements, assignments | create, update, end, archive, restore | providers compatible; dates contained; what an assignment stands for never changes | rules span four collections; reads and writes are separate requests |
| Rate cards | `rateCardService` | lineages, append-only versions | create, revise, resolve | a past date keeps its price | history must not be rewritten |
| Shifts and loads | `shiftService`, `loadService` | shifts with a pinned version, loads | create, update, delete, replace loads | pinned price effective and stable; no orphan or doubled loads | sequences of writes without a transaction |
| Vehicle checks, defects | `VehicleCheckApp`, `vehicleCheckService`, `defectService` | the driver's form, checks, defects | fill in, submit, advance a defect | a defect for each failed item, once, on the right vehicle | React effects reset part of the form; inserts run in parallel and may fail singly |
| Organisations, vehicles, checklist templates | `organisationService`, `vehicleService`, `checklistTemplateService` and their screens | rows; one default template per workspace | create, update, archive, set default | exactly one default | siblings are updated one by one |
| Documents, CPC training | `driverDocumentService`, `cpcTrainingService` and their screens | documents, training records | create, renew, archive, delete | one active document per physical one | renewal is two writes |
| Drivers, workspaces, session | `driverService`, `workspaceService`, `SessionContext` | persons, memberships, profiles, the session a tab has | provision, switch, solo work context | a personal workspace, and one only; a tab acts as whom it shows | check-then-insert; requests lost and late |
| Server authentication | `server/src/services/authService.js`, middleware | accounts, sessions, the browser's cookie | register, log in, log out | one account per email; nothing served after logout or expiry | tabs share a cookie |
| List-and-form screens | `views/driver`, `views/management`, `views/company` | loaded list, mode, form, row being edited | load, open, save, row buttons | a form writes to the row it was filled from; a list at rest is what is stored | loads, fetches and saves overlap, fail, and are answered after the person went elsewhere |
| Migrations, boot | `src/migrations`, `storage/bootstrap.js` | schema version, all collections | fourteen migrations | a migration interrupted anywhere is completed by the next boot | version written after each migration; two tabs |
| Storage | `src/storage`, `server/src/routes/collections.js`, `atomic.js` | IndexedDB or PostgreSQL | the repository interface | all-or-nothing `insertAtomic` | two back ends, one contract |
| Engines: hours, pay, compliance | `shiftMath`, `payEngine`, `complianceEngine`, `transportManagerService` | none | pure functions over the shifts | pay is that of the time worked; every screen judges a book of shifts alike | midnight, exact limits, UTC and summer time |
| Engines: expiry, training, reminders | `documentExpiryEngine`, `cpcTrainingEngine`, `reminderEngine`, `transportManagerEngine` | none | pure functions | limits | dates compared with today |
| Export and import | `exportImportService` | none | dump to a file, upsert from one | a bundle is whole | row after row |
| Read-only views, translations, seeds | `DriverDrilldown`, `TransportManagerApp`, `src/i18n`, `services/seed` | - | rendering | - | display |

Interactions. Views call services; services call repositories; `rateCardService` resolves
a price through assignment, placement and lineage; `shiftService` pins that price and
hands the loads to `loadService`; `vehicleCheckService` hands failed items to
`defectService`. The browser reaches the sidecar through the server's routes, and the
sidecar reaches the host by one SSH command; nothing comes back but a status file.

## 2. The modules

| Module | Models | Composes |
|---|---|---|
| `UpdateContract` | abstract: updates are accepted one after the other, prepare, may redeploy, end | |
| `SelfUpdate` | sidecar, SSH handoff, host worker, middleware job | implements `UpdateContract` |
| `UpdateBanner` | the server's route and the administrators' banners | extends `SelfUpdate` |
| `SelfUpdateProofs` | theorems about the two | extends `UpdateBanner` |
| `AssignmentContract` | abstract: an assignment, once created, stands for one provider, site, client and lineage for ever | |
| `WorkStructure` | sites, placements, engagements, assignments | implements `AssignmentContract` |
| `WorkStructureProofs` | theorems about `WorkStructure` | |
| `PricedShifts` | rate cards, shifts, loads | rests on `AssignmentContract` for its assignments |
| `MCPricedShifts` | the symmetry of ids | extends `PricedShifts` |
| `PricedShiftsProofs` | theorems about `PricedShifts` | |
| `VehicleChecks` | the check form, submission, defects | |
| `VehicleChecksProofs` | theorems about `VehicleChecks` | |
| `Migrations` | the fourteen migrations a browser runs before the application starts | |
| `MCMigrations` | the databases of earlier releases that TLC starts from | extends `Migrations` |
| `MigrationsProofs` | theorems about `Migrations` | |
| `Engines` | shift mathematics, compliance and pay, as operators | |
| `DriverHours` | a driver's book of shifts, and what the dashboard, the payslip check and the manager's roll-up make of it | extends `Engines` |
| `MCDriverHours` | the thresholds, rates, dates and times of day that TLC uses | extends `DriverHours` |
| `DriverHoursProofs` | theorems about `DriverHours`, and about the operators of `Engines` it uses | |
| `FormScreens` | twelve list-and-form components, `useAsyncData` and the services behind them | |
| `MCFormScreens` | which of them are checked, with how many calls | extends `FormScreens` |
| `FormScreensProofs` | theorems about `FormScreens` | |
| `Accounts` | registration, login, the session cookie, provisioning of the personal workspace | |
| `MCAccounts` | the symmetry of tabs and people | extends `Accounts` |
| `AccountsProofs` | theorems about `Accounts` | |

How state and actions correspond to code:

- **`SelfUpdate`.** An action is what the sidecar does between two awaits, or the worker
  between two blocking calls. `pc` is the await `runUpdate` is in (`"idle"` is
  `phaseARunning = false`); `mem` is `inMemoryState`; `plan[r]` holds the locals of run
  `r`; `file` is `state.json`; `lock` the flock; `chan[r]` the SSH command, which may be
  delayed past the death of its sender. A release, a git ref and an image id are all the
  number of the release they come from; a `runId` is the order of acceptance. `JobRuns`
  stands for TrueNAS's middleware and docker (external): a job recreates some or all
  containers, and recreating the sidecar's loses `pc`, `todo` and `mem`.
- **`UpdateBanner`.** `ui[c]` is `applyState`; `cache` is `updateService`'s
  `latestVersion`. The actions are the banner's mount, click, poll and unmount, the
  route's outcomes, and everything of `SelfUpdate` in the background.
- **`WorkStructure`.** One function per collection, from ids to rows. A service function
  without a preceding read is one action; the others are a read action that checks and
  leaves in `call[s]` what is to be written, a write action, and `Abandon`.
  `updateSite` has two reads, because `siteHasAssignmentHistory` is two queries.
- **`PricedShifts`.** A read step, then one step per awaited write, `Abandon` between
  any two. Removals and inserts of loads are sent all at once (`Promise.all`):
  `removing` and `sent` are those on their way, each of which lands by itself. When one
  fails, its call ends (`Abandon`), some of its inserts are lost, and the others still
  land, also after a later save or deletion has read the loads. `known`, `saves` and
  `missed` are history: what a pin could choose from, which save a load belongs to, and
  whether a later call read the loads before this one landed, so that the properties can
  be stated. The model chooses when an assignment appears; its lineage is then fixed,
  which is what `ChainsFrozen` establishes.
- **`VehicleChecks`.** An action is an event of the form together with the effects its
  re-rendering runs (`Rendered` is the effect that resets the items), an insert landing or
  failing, or half of `advanceDefectStatus`.
- **`Migrations`.** `version` is `SCHEMA_VERSION` in localStorage, `db[c]` an IndexedDB
  store. A row is a function from the fields it has, so `"archivedAt" in row` is
  `"archivedAt" \in DOMAIN row`. `PassesOf` lists each migration's loops; `WritesOf` gives
  the writes of one loop body for one row; `Visit` (the reads up to the first write) and
  `Write` (one `add` or `put`) are separate steps, and `Close` comes between any two. A
  write that the store refuses (an id that exists, a row that does not) ends the boot.
- **`Engines`, `DriverHours`.** An instant is a number of minutes UTC, a date the number
  of its day; the device is in the United Kingdom and the clocks go back on `ChangeDay`,
  so `ParseDateTime`, `Local` and `ToKey` are the conversions the JavaScript `Date` makes
  there. The engines are operators of the same names; `reduce` is `Sum`, a sort `Ordered`,
  and the loop of `computeCompliance` `CycleAfter` (`AfterShift` is its body): recursive
  functions and sets, which the provers can unfold, in place of `FoldLeft` and `SortSeq`.
  `shifts` is the driver's
  rows in the order the database returns them; the actions log, correct and cut shifts
  and let time pass, and the screens are operators over `shifts` and `now`, since both
  compute everything afresh.
- **`FormScreens`.** All list-and-form components are built alike, so there is one state
  machine and a record per component (`Component`) that says in what they differ: whether
  the workspace can change under them, what Edit waits for, what a row's buttons do. A row
  is its revision, what it belongs to, and whether it is current (a template's
  `isDefault`, a document that is not archived). `loads` are the runs of the effect of
  `useAsyncData` on their way, with its `cancelled` flag; `calls` the service calls, each
  the list of writes still to land; `asks` the fetches an Edit button waits for. A detail's load
  may fail, which leaves none. `Remount` is leaving the screen and coming back: what was under way goes on, with nobody
  listening.
- **`Accounts`.** A step of the server is one transaction or one read of a request; a tab
  waits for one request at a time, which may be lost before or after it was carried out
  (`orphans` are those still to be). `at` is what `AuthGate` and `AppShell` render.
  Registering is two requests of the client's, the account and then the workspace, and
  every later start looks again for the workspace.

## 3. The runs

| Run | Instance | States | Result and meaning |
|---|---|---|---|
| `UpdateFaults` | 2 runs, releases 0-2 of which one has no valid tag, 2 services, both kinds of deployment, all faults | 1.9 M | five invariants and `OutcomeIsFinal` hold whatever goes wrong |
| `UpdateBanner` | 2 runs, releases 0-1, 2 services, 2 administrators, no named fault | 0.2 M | `ImplementsContract` (refinement), whole redeploys, and the liveness properties |
| `WorkStructure` | 2 organisations, 2 sites, 1 placement, 1 engagement, 2 assignments, 2 lineages, 2 days | 1.3 M | provider rule, containment of closed assignments, `ChainsFrozen` (refinement) |
| `PricedShifts` | 2 lineages of 3 versions, 2 assignments, 1 shift at a time, 2 loads, 3 days, 2 saves; lineages, assignments and loads symmetric | 5.3 M | types, `PinIsEffective`, `LoadsAreOfOneSave` and `PricesAreHistory` |
| `VehicleChecks` | 3 vehicles (a tractor and a trailer of one workspace, a tractor of the other), 1 item code, 2 checks, 2 defects, 1 manager | 4.2 M | three safety invariants |
| `CheckWrongVehicle` | 2 tractors of one workspace | | **violated**: a check of one vehicle whose items and defects are about the other |
| `Migrations` | a first start with two `hgv-shifts`; one closed after 001; a localStorage release (version 2) with old rows; a database of version 5 with two pinned shifts, the rates of one revised since; one of version 9; 3 interrupted boots | 21 k | four safety invariants, and `UpgradesComplete`: wherever it was cut short, an upgrade completes |
| `MigrationRetry` | a first start, 1 interrupted boot | | **violated**: a boot fails, because migration 002 does not tolerate a retry |
| `DriverHours` | books of 3 shifts on 3 dates, 2 starts, 4 ends, 2 instants, around the end of summer time, by the quarter of an hour | 29 k | pay, next start, closing of the cycle, and agreement of the screens |
| `FormScreens` | 10 components, 2 rows and 2 more to insert, 2 workspaces, 2 assignments, 2 loads, 2 calls (1 in `DriverApp`) | 2.6 M | forms match their rows, lists at rest match the database, one default and one current document |
| `EditKeepsContext` | `DriverApp` alone | | **violated**: editing a shift whose assignment has ended moves it to another |
| `Accounts` | 2 people, 2 tabs of one browser, 2 sessions, 2 reloads, 1 orphan; tabs and people symmetric | 2.8 M | one account per email, a workspace before the app, requests as the person shown |

Why these bounds are enough to be interesting. Two update runs are what it takes for a
late command, status or job of one run to meet the next; the third release makes a tag
the trigger refuses. Two organisations, sites and lineages let a chain be rewritten to
something else; two assignments under one engagement let one be closed while another is
open, two days let an end precede another. Three versions and three days are the fewest
for a revision that lies before, between or after the dates of a shift; one shift id is
enough because a deleted shift's id is used again, and a stale load would then be seen
on it, and two loads and two saves for an insert of the first that lands after the
second has cleared. Two checks let the second meet the first's inserts, and three
vehicles give pairing, a change within and a change across workspaces. The localStorage
release has two sites of one client (the second must find the organisation made for the
first), assignments that share a configuration and assignments that do not, and shifts
on both sides of a rate card's start; three interruptions let one rerun be interrupted
and rerun again. `DriverHours` has a Monday thirteen days before the clocks change, the
Saturday before and the Sunday itself, shifts that go past midnight and through the hour
that occurs twice, and budgets of one, so that three shifts exceed them. Its ends,
starts and instants leave rests of 9, 10, 11 and 24 hours and too short ones: each limit
exactly, two reduced rests in one cycle, and a clock that stands at 9, 11 and 24 hours
after the last end; moving any limit of `AfterRest`, or that of the rest going on, by
its boundary breaks a property of the run. `FormScreens` lets a save overlap another or
be retried, with a load of each side of it on its way, and a second insert meet what the
first one left; the two components left out behave as `checklists` without a default
does. Two sessions in `Accounts` are a registration and a login, or one of each of two
people; two reloads let a page, its successor and another tab be under way at once.

Bounds that the code does not have, each a guard of the action that counts: `MaxRuns`,
`MaxVersion` (releases; versions of a lineage), `MaxSaves`, `MaxLoads`, `MaxChecks`,
`MaxDefects`, `MaxTemplate`, `MaxDate`, `MaxCloses`, `MaxShifts`, `MaxCalls`, `MaxReloads`,
`MaxOrphans`, the finite `Ids` and `SessionIds`; `NewIds` is the finite list of ids
`newId` returns. Runs whose ids or counters are simply used up may
stop; only where the last state is not covered by an unbounded action
(`UpdateBanner`, `CheckWrongVehicle`, `DriverHours`, `Accounts`) is the deadlock check off:
an up-to-date server, two submitted checks, a book that may be left alone for ever, and two
tabs left at "no active person" by a failed request with no reload left are all final.

**Faults of `SelfUpdate`.** Ordinary failures (a build, a restore, ssh, a redeploy job, a
health check that fails) are always possible. The constant `Faults` adds, by name, what
the code does not guard against or guards against imperfectly: `inspect`, `retag`,
`ackLost`, `slowWorker`, `callTimeout`, `pollLost`, `workerCrash`, `sidecarCrash`. The
properties of the first group hold with all of them; those of the second group
(`ImplementsContract`, `RedeploysWhole`, `SuccessMeansDeployed`, `NoStaleOutcome`,
`LockoutEnds`, `WatchingEnds`) hold with none; findings 4 and 5 below show that `ackLost`
and `workerCrash` really break what they are about. Two more properties say what is left
with the faults: `FailedNeverRedeploys` holds with all but `ackLost`, and
`MemoryMasksOldOutcomes` with all of them (`tlc -config StaleOutcome.cfg UpdateBanner.tla`,
0.6 M states); section 5 has the theorems.

**Fairness.** `SelfUpdate`: weak fairness of the sidecar's steps, each worker's steps and
each middleware job. The code justifies it: `runUpdate` runs to its end in a `finally`;
each child process it waits for has a time-out or ends by itself; the worker's loops are
bounded by `JOB_POLL_TIMEOUT_SECONDS` and `HEALTH_TIMEOUT_SECONDS`; the middleware
finishes its jobs. Nothing makes users click, releases appear or the SSH command get
through (`HandoffUnreachable` covers that it does not). `UpdateBanner` adds weak fairness
of `Poll`, a timer that re-arms itself until it sees a terminal status. `WatchingEnds` is
stated for TrueNAS only: on a generic deployment `up -d` recreates the sidecar and the
outcome is lost (a listed hazard). `Migrations`: weak fairness of the steps of a boot,
which waits for nothing but the database; nothing makes anybody open a tab. `FormScreens`,
`Accounts` and `DriverHours` state safety only: a request may stay unanswered for ever.

**What the properties except, and why.** Some hold only outside a case that the code
really has; the model keeps a history variable for it, and the property names it.

- `LoadsAreOfOneSave` (`missed`): an insert that a failed save left on its way, and that
  had not landed when a later save or deletion read the shift's loads, is not cleared by
  it: the shift has loads of two saves, or they outlive it (finding 7).
- `ShowsStored` (`unseen`): nothing loads the list again after a call that was reported as
  failed although some of it was carried out, or that was on its way when the screen was
  left; the list is then out of date until the next load.
- `FormMatchesTarget` (`hasty`): Revise of a rate card takes its values from the detail
  shown, which is that of the lineage opened before while the new one's is loading.
- `CurrentIsUnique` (`excused`): two calls overlapping, a call carried out in part, one
  begun from an outdated list, a renewal of a document that was no longer the active one
  when its form was filled, and a restored document all break it; the comments of the two
  services accept the interrupted call, and say nothing of the others.
- `HomeBeforeApp` (`raced`): two tabs that provision at once each provide a workspace.
- `ActsAsShown` (`overtaken`): a tab that was signed in before another tab signed in as
  someone else goes on showing the first person and acting as the second.
- `WeeksAgree`: "driving over 2 weeks" is the driving of fourteen days, but of thirteen
  when the clocks went back in between, because the cutoff is counted in hours.
- `NextStartIsHonest` and `RestClosesTheCycle` are about books whose shifts follow one
  another, each of some length (`Sequential`). Nothing keeps a driver from logging others;
  and because `computeDuration` makes an end past midnight the start date's plus 24 hours,
  a shift through the night the clocks go back is counted an hour short, and one that ends
  soon after may end before it starts.
- `RestClosesTheCycle`: the manager's roll-up calls `computeCompliance` without the clock,
  and may warn of a cycle that is over; for a book in order it never misses an alert. For
  rows in another order it says nothing.

## 4. Findings

Shown by the runs:

1. **Items of the wrong vehicle** (`CheckWrongVehicle`). The effect that resets the items
   depends on the template and the pairing, not on the vehicle; between two vehicles of
   one workspace the items keep the first one's id and answers, and the defects follow.
2. **A first start that is interrupted is never completed** (`MigrationRetry`). The
   comment on `runMigrations` says every migration upserts; 002 inserts strictly, so after
   an interruption within it every boot ends in "storage unavailable".
3. **An edit that moves a shift** (`EditKeepsContext`). `updateShift` promises that editing
   notes, a break or hours never re-prices a shift. `DriverApp` sends the assignment found
   among the active ones, so an edit of a shift whose assignment has ended sends the
   primary assignment, or none, and the shift is moved and priced anew.

Shown by configurations that are kept beside them:

4. **A failed update may still be deployed** (`tlc -config UpdateLostAck.cfg
   SelfUpdate.tla`, property `FailedNeverRedeploys`). The sidecar kills ssh after 20
   seconds and rolls back; the host may already have forked the worker. The self-hosting
   guide (docs/BACKEND_SELF_HOSTING.md) says the app is then never redeployed.
5. **A dead worker locks updates out** (`tlc -config UpdateDeadWorker.cfg SelfUpdate.tla`,
   `LockoutEnds`). The flock is released, as the TrueNAS README says, but `POST /apply`
   also refuses while `state.json` says `updating`, and nothing rewrites it.
6. **An open assignment under an ended engagement** (`tlc -config WorkContainment.cfg
   WorkStructure.tla`, `NothingOutlivesEngagement`). `createAssignment` compares the end
   only if there is one.
7. **Loads of two saves** (`tlc -config LateLoads.cfg PricedShifts.tla`,
   `ReplacedEntirely`). `createShift` and `updateShift` say that the loads given replace the
   shift's "entirely" (shiftService.js:22-23). The inserts of a save that failed are still
   in flight; one lands after the driver has saved again, and the shift is paid for both.
8. **A defect that goes back** (`tlc -config DefectsGoBack.cfg VehicleChecks.tla`,
   `ForwardOnly`). `advanceDefectStatus` "never skips ahead or goes backward"
   (defectService.js:68-69), but reads and writes in two requests: with two managers, the
   late write of one sets back what the other has resolved.
9. **A document renewed twice** (`tlc -config RenewTwice.cfg MCFormScreens.tla`,
   `RenewalNeverDoubles`). `renewDriverDocument` archives first, so that a failure leaves
   "never two simultaneously-active rows" (driverDocumentService.js:63-66). When the failure
   is that of the last answer, the form stays open; saving again archives the old row once
   more and inserts a second active one.

## 5. The proofs

All proofs hold for every value of the constants that meets the named assumptions of the
module: natural bounds, `Server` and `Updater` among `Services`, known faults, finite sets
of ids, and model values for "nothing" (`None`, `NoVehicle`, ...) that are none of the ids.
Every invariant named below was first checked by TLC on the module's run. None of the
properties is inductive by itself; what each proof adds to make it so is the point of it.

**`SelfUpdateProofs`**: `TypeCorrect`, `OneWorker` (`LockHeld`), `UpdatingIsReported`
(`ReportedByWorker`), `SuccessIsEarned`, `OutcomeFinality` and `RollbackIsComplete`
(`FailureRestored`), for any `Faults`. `HostInv`
strengthens the host's: a worker at work holds the lock *and its command was started*, so
no run gets two; a running Phase A is the latest run; a command is sent at most once; the
job and the file are in the state the worker they belong to is in, and a worker in
`checking` or `succeeded` has a job that succeeded. `RollbackInv` says, for every `pc`,
what still equals what the run recorded when it began: the checkout until it is changed,
the images until the build, the recorded ref and snapshots (an image id or none) from then
on; and `FailureRestored` itself.

The same module, about `UpdateBanner`: `ContractIsImplemented` (the refinement
`ImplementsContract`), `WholeReleasesAreDeployed`, `SuccessIsDeployed`, and, with
banners, `BannersShowNothingOlder` (`NoStaleOutcome`): a banner may be shown the outcome
of a later run than the one its click started or joined, never of an earlier one. They
assume `Faults \subseteq Tolerated`, that is, of the named faults only `inspect`,
`retag` and `workerCrash`; each of the others by itself breaks `NoStaleOutcome`. Two
theorems go further. `FailedStaysUndeployed` (`FailedNeverRedeploys`) excludes `ackLost`
only, which finding 4 shows to be necessary: its invariant `GivenUpInv` says that a run
reported as failed at the build or the handoff has no command that could still start a
worker, because without that fault `ssh` ends with the host's answer. `MemoryMasks`
(`MemoryMasksOldOutcomes`) excludes no fault: as long as the sidecar that accepted an
update lives, what it remembers masks what `state.json` says of an earlier one
(`RememberedInv`: its memory is of the latest run). `ContractInv` says that the run in
Phase A, in a command on its way, in a worker and in a job is one and the same
(`OneRun`), and what has been handed over when (`Handover`); `TargetInv` which release
checkout and images are of, by `pc`; `MemoryInv` and `WatchedInv` that what the status
route reads, from memory or from the file, is of a run no older than the one a watching
banner was given. The refinement has a step per action: each maps to the contract's
`Accept`, `HandOver` or `End`, or leaves the phase of every run alone.
`BannersAddNothing` (`BannerSpec => Spec`) carries the invariants of `SelfUpdate` over
to the module that extends it.

**`WorkStructureProofs`**: `TypeCorrect` for any overlap of calls;
`ProvidersStayCompatible`, `ClosedStayWithin` and `ChainsAreFrozen` (the refinement)
under `OneCaller`: all sessions are one. The inductive invariant is `Linked` (references
resolve), the two properties, and `Fresh`: what the one call in progress has checked is
still so when it writes, although sessionless writes (`CreateSite`,
`UpdatePlacementDates`, `CreateSoloWorkContext`, ...) come in between. That conjunct is
exactly what two overlapping calls break, which is why the assumption is needed.

**`PricedShiftsProofs`**: `TypeCorrect` for any overlap of calls; `PinsAreEffective`,
`LoadsStayTogether` and the action property `PricesAreFrozen` under `OneCaller`. The
invariant says of the pending call what its next write may rely on: the version it will
pin is the one in effect among those known when it read; of a replacement or deletion
that waits for its removals (`Queried`), that every load of the shift, but those it has
missed, is among them, and none is still to land. And the loads stored and those still
to land, whoever sent them, are of one save (`LoadsInStep`), again but for those missed.
It also has that versions of a lineage take effect in the order they are numbered
(`Chained`), so that the version `resolveEffectiveRateCard` finds, the latest in effect,
is numbered as many as have taken effect (`EffectiveIsCount`). That there is a latest
one needs a least element of a set of numbers, which `WellFoundedInduction` gives
without an operator parameter (`LeastNatural`).

**`VehicleChecksProofs`**: `DefectsStandForFailures` (`DefectsMatchFailures`),
`ReturnedChecksAreComplete` and `ItemsAreOfTheCheck`. `FormInv` says what the form's
items are stamped with: vehicles of the workspace of the one shown, exactly the two of a
pairing, whichever of them the effect has left from before. `SavingInv` says that of the
submission the form waits for each failed item is raised or its insert still on its way.

**`AccountsProofs`**: `TypeCorrect` (one account per e-mail among it),
`NobodyWithoutAHome` (`HomeBeforeApp`) and `TabsActAsShown` (`ActsAsShown`), for any
number of tabs, people, lost and late requests. `WellFormed` says which answers fit which
request; `HomeInv` follows the personal workspace from the request that provides it to the
page that shows it, and that two requests providing for one person are a race that
`raced` records; `ShownInv` follows the session from the answer that issues it to the
cookie: while no other tab has signed in over it, the cookie names the person the tab
shows or is about to show, or a session that is over.

**`FormScreensProofs`**: `TypeCorrect`, `FormsMatchTheirTarget`, `ListsShowWhatIsStored`
(`ShowsStored`) and `OneRowIsCurrent` (`CurrentIsUnique`), for any set of components and
any bounds. `FormInv`: the form's values and the row they will be written to come from one
place, also those an Edit still waiting for its loads will fill in, and a new shift's
assignment follows what was loaded last. `LoadInv`: a list
that is not what is stored has a load on its way that started late enough, or a call that
will start one (`Owed`). `DocumentsInv` and `ChecklistsInv` say, for each write of a call
that is still to land, how many rows are current before and after it: the documents' call
archives and then inserts, the templates' marks the chosen row and then clears its
siblings. The proof attempt found a case the property did not except: a renewal begun from
a form whose document had been archived meanwhile (`driverDocumentService.js:71` archives
again and inserts a second successor). It takes a fourth row, so the run had missed it;
the run now has four, and `Save` excuses the case.

**`DriverHoursProofs`**: `PaidAsWorkedHolds`, `NextStartIsHonestHolds`,
`RestClosesTheCycleHolds` and `WeeksAgreeHolds`, for books of any length, any dates, times
of day and breaks that are multiples of a `Slot` (a minute, in the form), any thresholds
that are in order (`RulesAreOrdered`) and any rates. The invariant of the module is only
its types; the work is about sums, sorts and loops. Induction over a *set* of numbers
(`Induction`) is within the provers' reach, since `LeastNatural` gives a least
counterexample; with it a recursive function is known to exist and to be unique
(`RecursionExists`, `RecursionUnique`), a sum to be what it adds up to on the way
(`SumIs`), and `CycleAfter` of a longer book to be one more `AfterShift` (`CycleAppend`). A
sorted list is the only one that has the order (`OrderedLists`, `OrderedUnique`), so that a
shift which begins after the others comes last (`SortedAppend`).

- For the rests: an alert is only appended, a budget only counts up, and what duty and
  driving add to a cycle does not depend on the rest before (`JudgedByRest`,
  `WorkedSame`); a rest that closes the cycle leaves an `OpenCycle`.
- For the weeks: a local midnight and its key are solved for the date (`WeekKeyIs`,
  `PayslipDays`, `WeekDays`, `FortnightDays`), separately before and after the change.
- For the pay: the clock read back from what was entered is what was entered (`ShownIs`),
  a window an instant lies in begins at one of the boundaries (`WindowStartsInBounds`), so
  the window and the day that a segment is priced by are those of each of its instants
  (`SegmentPrice`); starts, breaks and windows are whole slots apart (`OnGrid`,
  `SegmentsAre`); and a sum over segments is the sum over their slots (`SlotSums`).

Attempting these proofs corrected the model and a property. `NextStartIsHonest` looked for
any alert with the code and date of the new shift, which an earlier shift of that day may
have raised: it now looks at the alerts that were added. Shifts of the night the clocks go
back showed that `Sequential` has to ask for a length. And the `CASE`s of `AfterRest` and
of `Todo` in `FormScreens` had guards that overlapped, which TLC takes in order and TLA+
does not: they are disjoint now.

**`MigrationsProofs`**: `TypeCorrect` for any number of tabs; `ShapeTold`
(`VersionTellsShape`) and `NeverDoubled` (`NothingDoubled`) for one tab, `OneTab`, any
number of interruptions and any databases that `InstallsAreSound` describes: rows of the
shape their version promises, whose references the passes can follow (`Related`: a
site's organisation, a driver's personal workspace, an engagement's provider, an
assignment's site and card), and nothing doubled yet. TLC evaluates that assumption for
the databases of the run. `Good` says the same of the rows a boot has got to, with the
demo rows or none before
003. `TabInv` says of a tab which part of the current migration is behind it: every pass
before the current one is done for all rows, and in the current one a row is settled, or
still to be visited with the contents it was read with, or the one whose writes are
pending. What carries the proof is one lemma per pass (`FillAdvances` for those that fill a
field in, `ClientAdvances`, `SiteAdvances`, `PlacementAdvances`, `TemplateAdvances`,
`LineageAdvances`, `EarlyAdvances`): its write settles its row and unsettles none, of this
pass or an earlier one, so that a rerun finds the rows it has changed already and leaves
them. `NamesAreNotNull`, a hypothesis, is that a placement id is never `null`: it begins
with `placement-`, but concatenation of strings is beyond the provers.

`ChainsHold` (`ChainsResolve`) is about two more things: what earlier releases pinned, and
what their ids are made of. `InstallsAreChained`, which TLC evaluates for the databases of
the run, says that of the rows a release left an assignment with a placement agrees with
it and a pinned shift names a version of the line its assignment reaches. `IdsKnown` names
the ids (`Ids`) of cards, providers and sites in those rows, and `IdsApart` says that no two
configurations of them derive one placement id: `-` separates the three and may occur in
an id, so it is a property of the ids and not of `derivePlacementId`; both hold of the
run's databases. `Linked` is what holds of the rows at each version: those to be copied
until 003, the demo rows once all twelve are there (`InOrder`), and from then on the rows
themselves. `Linking` says of the one or two writes that are pending that each leaves the
chains whole wherever the tab is closed after it, and one lemma per pass that it is so
(`VersionLinks`, `LineLinks`, `PinLinks`, `EmployerLinks`, `ProviderLinks`,
`PlacementLinks`, `EarlyLinks`): 004 finds a line only for an assignment without a
placement, 006 and 008 never change a provider that is there, and a placement that 008
finds under the derived id is, by `IdsApart`, of the same configuration. The proof attempt
found the property too strong: it asked for the version in effect, but `reviseRateCard`
leaves pinned shifts alone, so that a shift whose rates were revised later, from its date
or before, keeps an earlier version. A pin is now a version that has begun; it is the one
in effect for all shifts but the `Revised` ones, and the run has one of those.

**Only model-checked**:

- liveness (`LockoutEnds`, `WatchingEnds`, `UpgradesComplete`), out of the prover's reach.
  Every other property of the passing runs is a theorem.

## 6. What is simplified or left out

- Reads issued by one `Promise.all`, and consecutive reads of one call where no property
  tells them apart, are one step.
- `updatePlacement` with a patch that mixes dates and locked fields is taken as two calls.
- Archive flags, names and notes of rows: in `FormScreens` a revision number, elsewhere
  left out, since no rule reads them. The driver of an engagement is left out too.
- Overlapping calls of several sessions are in the models (`Sessions`), and the type
  invariants cover them; the safety properties of `WorkStructure` and `PricedShifts` are
  checked for calls that do not overlap, since no service protects against overlap. The
  interleavings that break them are listed as hazards.
- `VehicleChecks`: the templates have the same item codes; the list of vehicles is fixed;
  default templates are read when the screen loads.
- `Migrations`: a pass takes its rows in any order (the code: by id), and what it reads for
  one row is one step; fields that no migration reads, and `CURRENT_PERSON_ID`, are left
  out; provider and placements of 008 are read per row instead of into a map first, which
  is the same because nothing writes engagements meanwhile. One tab boots at a time: with
  two, `NothingDoubled` and `VersionTellsShape` do not hold (a listed hazard).
- `requireServerManager` is a precondition of `UpdateBanner`'s clients.
- `DriverHours`: shifts of one driver, priced by one card; the end of summer time only,
  not its beginning; minutes, not milliseconds. A screen is computed at the instant it is
  rendered (the code memoizes it until the rows change).
- `FormScreens`: which row fields a form has is left out, so that a stale or foreign
  form is one whose values were read from another row; the answer about a site's lock
  (`editingLocked`) is only awaited: whether the form then sends the organisation is
  left out, and `WorkStructure` has both patches; a file import, which also reloads the
  list, is left out. `activeAssignments` come in the order of the database, any fixed
  one. What `archiveDriver` writes under the id of another workspace is a row no list
  shows, and left out.
- `Accounts`: one browser; password hashing only as the step between looking for the
  account and inserting it; roles and `requireServerManager` are left out.
- Not modelled: rendering, translations, seed data; which documents and CPC cards are due
  (pure comparisons with today, which the unit tests reach); export and import.

## 7. Plan

In order: (1) `ExportImport`: two devices, a bundle, an import interrupted and repeated,
over the work structure's references; (2) the expiry, training and reminder engines.
