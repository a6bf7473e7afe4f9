# AssetFlow: a TLA+ verification project

AssetFlow is an IT asset register: a NestJS API over PostgreSQL (Prisma), a React web client, a Go
agent that runs on managed computers, and a container that polls the network. This directory holds
TLA+ modules translated from that code, TLC configurations that check them on small instances, and
proofs checked by TLAPS.

Everything authoritative lives in PostgreSQL. The concurrency of the system is therefore that of
HTTP requests, background loops and operators racing on rows, and what protects the rows is a mixture
of transaction isolation levels, conditional updates, CHECK constraints, unique indexes and triggers.
That mixture is what most of the models are about. The web client holds copies of those rows, awaits
answers in no order, and decides from its copies what to offer; a second group of models is about that.

## 1. Inventory

| Component | State | Operations that change it | Modelled in |
|---|---|---|---|
| Asset lifecycle (`modules/lifecycle`) | `assets`, `asset_assignments`, `maintenance_records` | assign, assignMany, returnAsset, transfer, openMaintenance, completeMaintenance | `LifecycleRules`, `AssetLifecycle`, `AssetCustody` |
| Asset register (`modules/assets`) | `assets` | create, update (status correction), remove | `AssetLifecycle` (the columns the lifecycle depends on) |
| Disposal cases (`modules/disposals`) | `disposal_cases`, `disposal_items`, `disposal_evidence` | create, submit, approve, reject, start, addEvidence, updateSanitization, complete, cancel, remove | `DisposalWorkflow` |
| Database constraints (`prisma/migrations`) | CHECKs, partial unique indexes, triggers | - | guards of the models that write to the tables |
| Network monitoring (`modules/netmon`) | `network_subnets`, `network_devices`, `network_scans`, `network_alerts`, `network_events` | poller tick, scan, check, pause, acknowledge, remove (linking to assets is left out) | `NetworkMonitor` |
| Agent discovery (`modules/discovery`) | enrolment tokens, agents, inbox items | create and revoke token, enroll, ingest, reconcile, link, ignore, reopen, createAsset, revokeAgent | `AgentEnrollment`, `TokenBudget`, `DiscoveryInbox` |
| Go agent (`apps/agent`) | state file with the credential | enrol, save, report, restart | `AgentEnrollment` |
| Inventory counts (`modules/inventory`) | sessions, items, location history | create, scan, close, cancel, remove | `InventoryCount` |
| Asset imports (`modules/asset-imports`) | batches, rows | stage, commit, rollback | `AssetImport` |
| Incidents (`modules/incidents`) | incident, primary assignment, handler's eligibility | create, update, changeStatus, remove | `IncidentDesk` |
| Renewals and licences (`modules/renewals`) | item, assignments, renewals, policies, alerts | create, assign, revoke, renew, savePolicy, acknowledge, remove, syncAlerts | `Renewals` |
| Renewal e-mail outbox | notification deliveries | save, queue, send, mark, back off | `NotificationOutbox` |
| Compliance documents, SoA (`modules/compliance`) | documents, files, statement versions | create, edit, issue, supersede, withdraw, upload, remove file | `ComplianceRecords` |
| Risk register (`modules/risks`) | assessments, risks, treatments | create, review, update, treat, accept, close | `RiskRegister` |
| Users and sessions (`modules/users`, `modules/auth`) | accounts, sessions | create, update, reset and change password, log in and out | `Accounts` |
| Directory synchronisation (`modules/directory`) | users, people, licences, run rows | run, persist, sweep, licences by hand | `DirectorySync` |
| Web client (`apps/web/src/App.tsx`, `features/*`) | per page: list, drawer, form, busy flags; handlers awaiting calls | every button and form of twenty-three pages, loads, clicks on rows | `ScreenWork` over the `*Screen`, `*Screens` modules |
| People, master data, categories, vendors (`modules/people`, `master-data`, `categories`, `vendors`) | reference tables | create, update, switch, deactivate, remove | `AdminScreens`, as routes of their pages |
| Settings, look-ups | reference tables | single statements | not modelled: nothing to relate |
| Dashboards, metrics, health, deployment | none | - | not modelled |

How they interact. The lifecycle service and the disposal service write the same `assets` rows.
Assets are also written by imports (create) and network monitoring (copying an address, which the lifecycle
does not read); a count only records where an asset was found. Incidents refer to assets, alerts and risks. The agent and the poller reach the
register only through suggestions a person confirms. There are no messages between components other
than the agent's and the browser's HTTP calls and the outbox's mail; every other interaction is shared rows.

Which behaviour is hard, by kind (each is a row of `hazards` in `PROJECT.json`, at its line):

* **A read at the start, a write by id at the end.** Transactions at the default isolation level (Read
  Committed) and checks made before the transaction opens decide on rows that may change before
  the write: `completeMaintenance`, `transfer`, `assets.update`, `assets.remove`, and every disposal
  command except create, submit and complete; also inventory cancel, incident update, alert
  acknowledgement, licence revocation, person deactivation, compliance issue.
* **Two tables that must agree** - status, custodian and open document of an asset; case status and
  asset status; device status and alert.
* **Overlapping loops and crashes** - the poller, the mail outbox, the directory run and the agent.
* **Long sequences of legal calls** - a status restored from an old snapshot, a deleted case.
* **A browser with several handlers in flight** - answers out of order, a form sent twice, a call that
  fails after another has succeeded, an offer made from an old copy, and a page that deletes what its list lost.

## 2. What correctness means, by component

* *Lifecycle.* Whoever the register names as custodian has an open assignment in their name; an asset
  in use or on loan is documented by an open assignment of the right kind; there is at most one open
  assignment and one open repair per asset; an asset is never both in a warehouse and in a person's
  hands; no asset passes between persons without coming back; nothing that left the register is handed
  out. One request at a time, moreover: an asset not handed out has no open assignment, it is in
  MAINTENANCE exactly while a repair is open, a deleted asset has no open assignment.
* *Disposal.* A second person, an administrator, approved whatever is executed or completed; only a
  case in execution retires assets, all of them together; nothing stays open on a disposed asset; a
  completed case keeps the evidence its type asks for. One request at a time, moreover: an asset is in
  at most one active case, is RESERVED only while it is, and stays so unless somebody deletes another case that held
  nothing and lists it too; completed cases are verified as wiped.
* *Network monitoring.* A device stored as DOWN has an alert somebody can see; an outage is eventually
  reported; a scan that starts finishes unless its process dies.
* *Agent discovery.* Enrolments never exceed the token's maximum; only an operator links a device to an
  asset, and one asset has one agent; an item and the link it shows agree again after the next report; an
  agent that keeps trying reports in the end.
* *Directory.* Whoever has left the directory is disabled in the end, whatever was cut off, unless a failed run keeps its
  place in the list of runs.
* *Renewals.* Seats are never over-assigned; a renewal starts where the item really ends; a date within
  a threshold is alerted; an alert goes out, or is given up after a bounded number of tries, and is only
  mailed twice when something failed.
* *Counts and imports.* Each item of a count is recorded once and a closed count leaves nothing pending; a
  batch is registered whole, and a rollback spares assets somebody has worked on.
* *Incidents, compliance, risks, accounts.* The active assignment is the handler's and a closed incident
  keeps what closing required; every file row has its bytes, and a statement once in force is followed
  by another; a level is that of the scores and acceptance asks the criteria; an administrator remains,
  and a replaced password ends its sessions.
* *Web client.* When all is quiet a page shows what was written from it; a form closes itself only on what is
  stored, and makes one record; what is offered is refused only because the record has moved on; nothing is
  deleted that nobody asked to delete.

## 3. Modules and how they correspond to the code

| Module | Role |
|---|---|
| `LifecycleRules` | the status rules as pure operators (`lifecycle.rules.ts`, part of `disposals.rules.ts`) |
| `AssetLifecycle` | register and lifecycle commands: rows, one action per command or per Read/Commit half, properties |
| `AssetCustody` | the abstract promise: who holds what and what has left; implemented by `AssetLifecycle` |
| `DisposalWorkflow` | disposal cases over the same variables; `INSTANCE AssetLifecycle` supplies the register's actions |
| `NetworkMonitor` | subnet scans, device checks, alerts, operators' requests, the poller's crashes |
| `AgentEnrollment` | tokens, enrolment and reports of agents, and the agent process on its machine |
| `TokenBudget` | the abstract promise of a token; implemented by `AgentEnrollment` |
| `DiscoveryInbox` | devices, candidates and operators' decisions over the register's identifiers |
| `DirectorySync` | a synchronisation, statement by statement, with failures and restarts |
| `Renewals`, `NotificationOutbox` | a licence with its seats, renewals and alerts; the mails about them |
| `InventoryCount`, `AssetImport` | one count over a moving register; batches with colliding tags |
| `IncidentDesk`, `ComplianceRecords`, `RiskRegister`, `Accounts` | the record keepers with their requests |
| `Agents`, `Licences`, `Registers` | compositions: the inbox with enrolment; a licence with the outbox; the six record keepers |
| `ScreenSteps` | the vocabulary of pages: calls and what their answers do, commands, routes, kinds of drawer |
| `ScreenWork` | one page at work: list, drawer, form, handlers, the records behind the API, everybody else |
| `IncidentScreen`, `RiskScreens`, `DisposalScreen`, `RenewalScreen`, `DiscoveryScreen`, `ComplianceScreens`, `InventoryScreen`, `NetmonScreens`, `AssetScreens`, `AdminScreens` | the pages as data: which calls each handler makes in which order, who is offered what, what the API lets through |
| `*Proofs` | theorems about the module they are named after, for every value of its constants (`DiscoveryInboxProofs` about `Agents`, `RecordsProofs` about `Registers`, `WebClientProofs` about `ScreenWork`) |
| `MC*` | sets, symmetry and values for TLC; no definition of a module is replaced |

### Rows and actions

`asset[a]` is the row of `assets`: `register` says whether the row does not exist yet, is live, or has
`deletedAt` set; `place` stands for `warehouseId` and `locationId`, which the code always writes
together. `assignment[a][d]` and `repair[a][d]` are the document rows of asset `a`; `Docs` bounds how
many of each an asset gets in a run. `case[c]` is a disposal case with its items, their snapshots
and sanitization results, and its evidence. `request[h]` and `desk[k]` hold what a request in flight has
read and will write, as the JavaScript variables of its handler do.

### Why some commands are one action and others two

PostgreSQL runs a Prisma transaction at Read Committed unless the code asks otherwise.

* `assign`, `assignMany`, `returnAsset`, `openMaintenance` and the disposal commands `create`, `submit`
  and `complete` ask for Serializable. A serializable transaction that updates a row changed since its
  snapshot is aborted, and all of these but `create` write the asset or case row whose state they
  checked. So each behaves as if it ran at one instant, and is one action. The rows it only reads may be
  written by Read Committed transactions, which take no part in the serializability check; but such a read
  is one of the snapshot, so the transaction is equivalent to one placed at its snapshot with the
  other transaction's write after it, and the model contains that order.
* `transfer`, `completeMaintenance`, `assets.update`, `assets.remove` and the disposal commands `approve`,
  `reject`, `start`, `cancel`, `addEvidence`, `updateSanitization` and `remove` run at Read Committed, or
  check before they open a transaction, and then `update ... where id`. Each is a `...Read` action
  that evaluates the guards and records what will be written, and a `...Commit` action that writes it
  whatever the row has become. Constraints are evaluated at the commit, where PostgreSQL does it.
* `assets.remove` has a third instant: its first statement cancels the assignments open *then* and locks
  them (`RemoveCancel`, `Locked`), its last statement deletes the row (`RemoveCommit`).
* `Abort` and `AbortCase` are the request that fails: a refused constraint, a lost connection, a restart.

`SerialSpec`, next to each `Spec`, is the same set of actions with no request starting while another is
in flight. It separates two questions: is the command set right by itself, and what does interleaving
take away?

A few guards are worth knowing when reading the models. `submit` and `complete` check the asset's status but
not `deletedAt`, and so do the model's actions. `completeMaintenance` looks at neither `deletedAt` nor
the asset's present status when it writes. `disposals.remove` puts back every asset whose status differs
from the snapshot, whatever the case's status; a deleted case (`GONE`) that held nothing keeps its items in the model, as
the audit row does, so that the properties can name the assets it put back (`Strays`). Departments, notes, history, audit rows, photographs and
the reading endpoints are left out: no property is about them.

### NetworkMonitor

One subnet. `device[d]` is the row of an address, `alert[d]` its alert rows, `running` and `orphaned` the
RUNNING rows of `network_scans` (with and without a living process behind them). `job[w]` is what a process
is doing and the rows it has read: a tick of the poller is `Tick`, an optional sweep, `DueChecks` (the
one `findMany` that reads the due devices), then a `CheckProbe` and a `Record` per device, and `TickEnd`. The API's scan
shares the sweep. `lastScanAt` and `lastCheckedAt` are abstracted to "old enough": the first is left
open, the second is `checkDue`, which ages (`CheckAges`) and is reset by checks and sweeps. Probes
return what the host answers at that moment, and hosts change at any moment (`Flip`), so a lost reply is a host
that was away for an instant. Failure streaks are counted up to the threshold, beyond which
`resolveCheck` decides nothing new.

Fairness: the poller's steps (its `setInterval` fires for ever, and every await of a tick ends, since
ping, TCP connects and arp have timeouts) and the ageing of checks (time passes). Operators, hosts, API requests
and crashes are free. `OutageReported` and `RecoveryRecorded` speak of hosts that stay away, or stay
up, for good, on devices operators stop editing; crashes are bounded by `MaxCrashes`, since a process that
dies for ever does nothing.

What it shows: with one poller, DOWN always comes with an active alert, and `NetworkMonitorProofs` proves
that for any number of devices and threshold. The header of `netmon.poller.ts` claims more, namely concurrent pollers kept
honest by a claim on `lastCheckedAt`; nothing claims a device, and with two pollers `DownHasAlert` fails: a device is
left DOWN with its alert resolved and none to come. `NetmonStuckAlert` shows an alert that outlives
its outage because a sweep met the device first. Two more facts are visible in the model and are
not the subject of a run: a scan row left RUNNING by a dead process (`orphaned`) blocks scans of the subnet
for good, and a paused device keeps its alert, although `resolveCheck` and its test (`netmon.test.ts:119`) would
release it, because the poller never reads paused devices.

### AgentEnrollment, TokenBudget, DiscoveryInbox

`token`, `agent` and `item` are the rows of `agent_enrollment_tokens`, `endpoint_agents` and
`discovery_inbox_items`; `linked` is `endpoint_agents.linkedAssetId`; `stored` is the state file on each machine,
written to a temporary file and renamed, so a crash leaves the old one or the new one. A device *is* its
fingerprint, a credential *is* the number of the enrolment that issued it, and an asset row keeps only which devices
its identifiers (`hardware`: serial or UUID, unique; `mac`: not) name. `EnrollRead` / `EnrollCommit` are the
two instants of `enroll`: the second is the conditional `updateMany` on the token, which re-checks the row
it locks. `IngestRead` / `IngestCommit` split `ingest` where its credential check and its transaction part.
`Lose` is a lost request or reply, a refused call, or an agent that dies before it has saved its credential;
the next `Tick` starts from what is on the disk. In `DiscoveryInbox`, `Report` is what an enrolment or an
ingest does to the inbox, and each decision of an operator is its read and its commit (`reopen` has three
instants, because it looks at the link twice and locks nothing).

`BudgetKept` is a refinement: the enrolments of a token implement the two-variable counter `TokenBudget`, whatever
requests race. A revocation that fits between `ingest`'s check and its transaction lets one last report in; that is
in the model (`RevokeAgent` is always enabled) and no property forbids it, because nothing documents it.

Fairness: the agent's ticker fires for ever (`WF Tick`), transactions end (`WF EnrollCommit`, `WF
IngestCommit`), and a report that is sent again and again gets through once (`SF IngestRead`: the network is
not down for ever at the very instant of each attempt). An agent reports on every tick (`WF Report`).

### DirectorySync

One directory, entry by entry. `work["run"]` is the synchronisation the timer or the button starts (`running`
admits one), `work["hand"]` a licence synchronisation asked for by hand, which nothing keeps apart from it.
Each statement is an action: the insert of the run's row, the fetch, one account, its person, then the two sweeps over who
was not listed, then the licences. An entry without one of its four fields is `incomplete`: it is passed over and counts as
not listed. Entries join, are disabled, lose a field and leave at any moment, calls fail and the API restarts
(`MaxFaults`). From the fetch on a failure frees the place of the run (`Fail`); the insert is outside the `try`, and where
it fails the place stays taken until a restart (`HoldPlace`), which `DirectoryHeld` turns into a leaver who stays active. Fairness: the timer goes off every minute and work that was begun goes on (`WF Working`, `WF
HandWorking`). An address or code that belongs to somebody else is a choice (`PassOver`, or `WritePerson`
leaving the person alone). `Staff` stay listed throughout: with nobody listed, `MissingUsers` believes nothing,
which is why `LeaversGo` asks that somebody is listed in full; it also excepts the time a run holds its place without
running. The licence synchronisation needs an actor, an active administrator, and the model assumes there is one.

### Renewals and NotificationOutbox

One entitlement. `assign` and `renew` are Serializable: a transaction keeps the snapshot it read in `job[k]`, and is
`doomed` when another one writes what it read or writes; the operations named in `Dooming` are exactly those
whose write sets meet. `syncAlerts` is four actions, a statement each (`SyncPolicies`, `SyncRaise`, `SyncSettle`,
`SyncStatus`), and every mutating request ends in it. Time is `today`, up to `Horizon`.

The outbox has the granularity of its statements too. `row[d]` is a delivery, `tries[d]` and `mails[d]` count what left
and what arrived (they are observers: no guard reads them). Two ticks may overlap, since `process` has no lock: `overlapped`
remembers whether they did. Faults are restarts, answers lost after the server took the mail, failing
writes, and statements outside a delivery's own `try` that end the tick (`CutShort`), `MaxFaults` together. Fairness: the timer ticks, a tick goes on, `nextAttemptAt` passes; the SMTP server, the
settings and the operators owe nothing.

### InventoryCount, AssetImport

A count is one session: `item[a]` is its line, `book[a]` where the register has the asset, `events[a]` the
history rows it made. `create`, `scan` and `close` are Serializable (`doomed` as above); `cancel` and `remove` check outside
their transaction. An import batch is staged on what was free *then* (`StageRead`), committed whole or
not at all, and rolled back if nothing `Looked` at was done with any of its assets since; `Unlooked` work
(incidents, disposal drafts, discovery links) is what the code does not count.

### IncidentDesk, ComplianceRecords, RiskRegister, Accounts

One record each, its rows as variables, and a `...Read` / `...Commit` pair for every handler that checks before its
transaction, except that IncidentDesk and Accounts are checked one request at a time (`Requests` has one member in
`MCRecords`): with two, the properties fail, and section 6 says which documents that contradicts. The triggers of migration
`202608250002` are the guards of `Disqualify` and of the commits. Texts of an incident are reduced to the four
groups the status machine asks for; scores of a risk are 1..5 and the level is `riskLevelFor` of the source. Files
of a document are a path with bytes on the volume (`disk`) and a row, written in that order and removed in the
other; a `Restart` may fall between, and an unlink may fail without a word: `lost` has the paths either left behind. A
treatment is read and checked (`UpdateTreatmentRead`), written and counted (`UpdateTreatmentCount`, which holds the row's lock),
and committed with the risk's new status (`UpdateTreatment`); outcomes are a text, blanks, which pass the check and are
stored as none, or the empty text.

### ScreenSteps, ScreenWork and the pages

A page of the web client is data: a command (button or form) names who is offered it, from which statuses of the record *shown*
to which, and the list of calls its handler awaits. A call is what is asked (`edit`, `move`, `fetch`, `reload`, ...), the
route that answers it, and what the page does then: shut the form, show the answer in the drawer, put it over its row, replace the
list. Read `changeStatus` of `IncidentScreen` beside the function of that name: one `await` a call, in the same order. A
route is the guard of the API's handler (roles, statuses); roles in `Hiding` may be refused for a fact of other
records. `Lists` and `Peek` are loads that catch their errors, `Always` is a `finally`.

`ScreenWork` runs one page. `hand[h]` is a handler that awaits its call; a call is served (`Write`, `Read`, `Refuse`) and answered
(`Answer`) at different instants, or lost (`Lose`), and calls of two handlers come in any order: neither `api-client.ts` nor
the pages number, abort or drop answers. A record is its status and the number of its writes, so "older" is a comparison.
`form` is the form that is open with the status it was opened on; `no` tells a form from the one opened after it. The drawer
is of one of the kinds listed at `Screen`: fetched on its own, copied from the row, a live view of the row, and so on. `Forgotten` is
React forgetting a busy flag with the component that holds it. `Others` is everybody else. `Sweep` is the effect of the
supplier page that deletes what its list has lost. `own`, `made`, `cutShort` and `overtaken` are observers.

Only what the code does decides the exceptions in the properties: `overtaken` is set when an answer puts an older version over a newer,
`cutShort` when a call was lost or refused after another was served, and `Unmirrored` and `Unguarded` name, page by page, the
commands that section 6 lists; a mutant shows that each property fails as soon as one page is changed. `OnlyStaleIsRefused` says
nothing of the routes that may be refused for other records' facts (`Hiding`) to every role that is offered them, which are most
routes of assets, administration, disposal decisions and renewals; it bites on incidents, the start and execution of disposals,
discovery, compliance, monitoring and counts.




## 4. The runs

| Run | Specification | Checks | Shows |
|---|---|---|---|
| `Races` | `MCSpec` of `MCRaces` | `HolderSigned`, `HandedOutIsDocumented`, `OneOpenDocument`, `CustodyExcludesWarehouse`, `ApprovalSegregated`, `NothingOpenOnDisposed`, `CustodyKept` | Requests that race over one asset: two lifecycle requests with two recipients; one case, deleted in three states, against two lifecycle requests; two cases with two case requests. What holds of custody, place, paperwork, decisions and disposed assets however stale reads and late writes interleave. |
| `LifecycleSerial` | `SerialSpec` of `MCAssetLifecycle` | `HandedOutIsDocumented`, `OnlyHandedOutIsOpen`, `DeletedIsSettled` | Two assets, with handovers of both at once, and the same commands one at a time: an asset has an open assignment while it is handed out and only then, and none once it is deleted, so what the README says two racing requests leave behind is due to interleaving alone. |
| `DisposalSerial` | `SerialSpec` of `MCDisposalWorkflow` | `OneActiveCase`, `ReservedByActiveCase`, `CompletedIsSanitized` | Two cases over one asset, with repairs, removals, failed wipes and the deletion of cases in any state, one request at a time: reservation matches the one active case until a case that held nothing is deleted, and completed cases are verified as wiped. |
| `DisposalPurge` | `SerialSpec` of `MCDisposalWorkflow` | `ActiveCaseReserves` (violated) | A draft that lists an asset another case has reserved is deleted, and the asset goes back to its old status under the case that reserves it. |
| `NetmonWatch` | `FairSpec` of `NetworkMonitor` | `DownHasAlert`, `OutageReported`, `RecoveryRecorded` | One poller, with API scans, operators and a crash: a device stored DOWN always has an active alert, lasting outages and recoveries are recorded, and ticks end. |
| `NetmonStuckAlert` | `FairSpec` of `NetworkMonitor` | `RecoveryClearsAlert` (violated) | A sweep that meets a recovered device first marks it UP, and no check ever clears its alert. |
| `Agents` | `MCSpec` of `MCAgents` | `OneAgentPerAsset`, `BudgetKept`, `ITDecides`, `ReportsArrive`, `InboxHeals`, `LeaversGo` | Two agent processes on one machine with two enrolment tokens, two operators over the discovery inbox, and the synchronisation of a directory that people leave while it fails and restarts: what is admitted, what is linked, and that reports, links and departures arrive in the end. |
| `DirectoryHeld` | `Spec` of `DirectorySync` | `WhoLeavesIsInactive` (violated) | A run whose row cannot be inserted keeps its place in `running`, no later run starts, and somebody who leaves stays active. |
| `Renewals` | `MCSpec` of `MCRenewals` | `SeatsWithinTotal`, `RepeatsNeedFaults`, `RenewsWhatIsThere`, `DueIsAlerted`, `AlertsGoOut` | One licence over three days with two requests and the alert timer, beside the e-mail outbox with overlapping ticks and faults: seats, the chain of renewals, and that due dates are alerted and alerts go out. |
| `Records` | `MCSpec` of `MCRecords` | `EachItemCountedOnce`, `BatchIsWhole`, `IncidentsKept`, `ComplianceKept`, `LevelsMatch`, `AdminRemains`, `SessionsFollowPassword`, `RollbackSparesWork` | Six record keepers side by side, one of them at work at a time: counts, import batches, compliance records and risks with two requests in flight, incidents and accounts with one, each over its whole state space. |
| `RiskAcceptance` | `Spec` of `RiskRegister` | `AcceptedIsAcceptable` (violated) | A risk whose residual level is CRITICAL becomes ACCEPTED through the ordinary update, which does not ask the acceptance criteria. |
| `WebClient` | `Spec` of `MCWebClient` | `OwnWriteIsSeen`, `ClosedIsSaved`, `OneFormOneRecord`, `OnlyStaleIsRefused`, `OnlyAskedIsDeleted` | Twenty-three screens of the web client, one per behaviour, over two records, with two handlers awaiting answers that come in any order: what the screen shows after a write, which forms close, what a form makes, what is offered and refused, and what the supplier page has deleted. |

Bounds. One asset is enough for most questions, because every relation between rows is between an asset
and its own documents or cases (the proofs make this precise: a step changes assets one by one);
batches and baskets need two, and `LifecycleSerial` has two. Two recipients let a stale write hit somebody else's asset. Two documents
per asset (`Docs`) let one be finished and another open at the same time, which is where the
disagreements appear. Two handlers or clerks let one request overtake another. `Purges` and `Corrections` name the
privileged operations a run allows: an administrator's deletion of a case in these states (`DisposalSerial` and
`DisposalPurge` allow all seven; `Races` three, for the sake of its size), and status corrections,
which change the status whatever the documents say. A correction to IN_USE or ON_LOAN breaks
`HandedOutIsDocumented` by design, so the theorem assumes none; `Races` runs one to BROKEN and `LifecycleSerial` one to
LOST, which no command gives: `OnlyHandedOutIsOpen` leaves out the statuses in `Corrections`, so that it still speaks of all others.
In `Agents`, two processes share one machine, and two tokens let one run out while the other has room. `DirectoryHeld` has one fault and two entries, one of whom stays. In
`Records` a treatment may be moved to the statuses in `Moves` with the texts in `Outcomes`, which `Grid`, `Fields` and their like cut down as well; the theorems have all of them. In `Renewals`, two grants of different size fill two seats in either order;
`Horizon` gives a date room to come near, to come due and to pass.
In `WebClient` a behaviour stays on one page with two records and two handlers; `MaxEvents = 2` counts presses, clicks,
loads, lost calls, cancelled forms and writes of others together, so that any two of them meet at any point of
their handlers: two answers may overtake each other, one form may be sent twice, a call may fail under
another handler. The theorems of section 5 need no bound. `MaxFaults`, `MaxAttempts`,
`MaxRenewals` and `MaxSecret` cap counters that only grow. `CHECK_DEADLOCK FALSE` appears where the
documents, the cases, the faults or the events of a run can be used up: the real system may simply have nothing left to do.

Several components, one run. `Agents`, `Licences` and `Registers` compose components that read none of each other's
rows; the properties of these runs are defined there, so that the theorems of section 5 name the very
formulas TLC checks. Their product would only multiply states, so `MCAgents`, `MCRenewals` and `MCRecords` add a variable
`focus` that picks one component per behaviour while the others stand still; every component is explored over its
whole state space, and its fairness is stated for the behaviours that follow it. `MCRenewals` checks the timer of
`syncAlerts` on a licence of its own (`Calendar`), with one clerk and one threshold. `MCRecords` follows documents and
statements apart, since no request touches both. The incident desk and the accounts take one request at a time and the
others two. `Races` likewise follows one contest per behaviour, all of them over one asset (`MCRaces`): lifecycle requests
alone, with two recipients and two documents of a kind; one case against two lifecycle requests; or two cases against each
other while the register takes only whole commands. In the last two the asset goes out once and is repaired once,
and in the last only completed cases are deleted: the three together, unrestricted, are more than TLC
can finish, and the theorems of section 5 have no such restriction.

Passing runs and violations. A violation run checks one sentence of the repository's own documents or
comments; TLC finds a behaviour of the code that contradicts it, and `findings` quotes the sentence.

## 5. The proofs

`AssetLifecycleProofs` proves, for any sets of assets, people, places, document numbers and handlers:

* `TypeCorrect`: `Spec => []TypeOK`;
* `HolderSignedAlways`: `Spec => []HolderSigned`;
* `HandedOutDocumented`: `Spec => []HandedOutIsDocumented`, assuming
  `Corrections \cap HandedOut = {}`;
* `CustodyAlwaysExcludesWarehouse` and `OneOpenDocumentAlways`;
* `ImplementsCustody`: `Spec => CustodyKept`, that is, the register implements `AssetCustody`.

`TypeCorrect` is not a property of a run, nor are `RepairMatchesStatus`, `CompletedHasEvidence` and `RetiredByItsCase`: they are proved
for every instance, and a run would add nothing to the theorem.

The argument. `TypeOK` is inductive by itself. What makes the rest provable is a description of what a
step may do to *one* asset, whatever the command and however old the data it decided on (`StepByAsset`): it
leaves holder and papers alone (`Kept`), hands the asset out of nobody's hands to a person with one fresh
open document (`Handed`), or leaves it in nobody's hands (`Released`). `CommandByAsset` and
`CommitByAsset` establish it with one step per action. Each safety property is then written as a
property of one asset (`Signed`, `Papered`, `AtMostOneOpen`, the CHECK constraint, one open repair); each is inductive
relative to `TypeOK`, one case per way a step treats the asset, and needs none of the others. So the
four late writers are harmless to these properties for one reason: none of them ever names a new custodian
or reopens a document. That the row written is the row read is not needed, which is also why the same
argument cannot give the serial invariants: they do need it, and the violations show that it fails.
`ImplementsCustody` uses the same three cases as the steps of `AssetCustody`, plus the fact that
only a batch handover changes the holder of more than one asset at once, to one and the same person.

Of `SerialSpec`, where a request is finished before the next begins, the same module proves

* `DeletedSettled` (`[]DeletedIsSettled`), whatever statuses are corrected by hand;
* `OnlyHandedOutOpen` (`[]OnlyHandedOutIsOpen`) and `RepairsMatchStatus` (`[]RepairMatchesStatus`), assuming
  `Corrections = {}`: a correction sets a status and leaves the documents, so an asset may be MAINTENANCE, or what it was corrected to, with
  documents that say otherwise, by design.

Here it does matter that the row written is the row read. `ReadsStand` says so: at most one request is under way,
and what it read of its asset is still what the asset is (`ReadsAlwaysStand`, by `SerialIsSpec`). `SettledInv`
adds the two properties, that an asset has at most one open document of a kind, and that a row not yet created
is blank; every serial step then leaves an asset as it was for status and documents (`Unmoved`), hands it out
(`Issued`), settles it (`Settled`) or removes it.

`DisposalWorkflowProofs` proves, for any sets of cases, accounts and clerks as well:

* `TypeCorrect`, `DutiesSegregated` (`[]ApprovalSegregated`), `EvidenceKept` (`[]CompletedHasEvidence`);
* `HolderSignedAlways`, `HandedOutDocumented`, `OneOpenDocumentAlways`, `CustodyAlwaysExcludesWarehouse`,
  `ImplementsCustody`: the register's promises with cases writing to it, the form in which `Races` checks them;
* `DisposedIsSettled` (`[]NothingOpenOnDisposed`) and `CasesRetire` (`RetiredByItsCase`), assuming
  `"DISPOSED" \notin Corrections`.

It instantiates `AssetLifecycleProofs` as `Register` and takes from it what the register's own steps do; `SameTypes`
and `SameNext` say that this instance and the one `DisposalWorkflow` acts on are the same system. What is
left is what a case's own step does, to one case (`StepByCase`: raised, noted on, moved, gone) and to one asset
(`CaseStepByAsset`: untouched, restated to a status no holder has, retired by `complete`). The second needs
that every snapshot is a status disposal accepts (`SnapshotsEligible`), which no commit checks again:
`create` wrote it and nothing rewrites it. `ApprovalSegregated` is not inductive: a clerk may be about to
approve, or to start, on what it read earlier. `SegregationInv` adds that what a pending request read of
requester and approver still stands (`StillSound`), because a case never changes its requester and only
another decision, by an administrator who did not raise it, changes its approver. `CompletedHasEvidence` needs no
such help: files are only ever added. A case's step is a stutter of custody, since an asset that `complete`
finds without open assignments has no custodian (`HolderSigned`).

Of its `SerialSpec` it proves `OneActiveCaseAlways` and `CompletedSanitized`, for any corrections and purges, and
`ReservedByItsCase` (`[]ReservedByActiveCase`), for any purges, assuming `Corrections = {}`. Deleting a case that does not
hold its assets rewrites the status of assets that another case may hold: `DisposalPurge` shows it, and the
property says how far the damage goes. What is reserved still has its case, always; what an active case lists is
reserved unless it is one of the assets such a deletion named (`Strays`). `SerialInv` says that
one request is under way, of the register or of a case, and that what it read is current. For reservations the
invariant is `ShelfInv`: of the cases that hold an asset, active or completed, there is one (`HeldOnce`); a held asset is
reserved, or disposed of once its case is complete, unless it is a stray (`HeldAside`); a reserved one is held (`ReservedIsHeld`); and cases list
what was registered. A case's step takes hold of nothing and lets nothing go (`Steady`), lets go of all that the case holds, or is a
`submit` or a `complete`, or deletes a case that held nothing (`Cast`), which makes strays of its items.

`NetworkMonitorProofs` proves `TypeCorrect` and `DownAlwaysHasAlert`. `DownHasAlert` is not inductive: a
check stores DOWN again, without raising, when it *read* DOWN. The invariant `IInv` therefore adds that
whatever a running check has seen as DOWN still has an active alert. Every step but three leaves alerts
alone and stores no new DOWN (`NothingNewDown`); acknowledging only adds active alerts; removing a device
removes what was seen of it; and a check that resolves alerts is the only one its single poller is recording.

`DiscoveryInboxProofs` proves `TypeCorrect`, `OneAgentForAnAsset`, `SettledItemsAreLinked` and `OnlyITDecides` for any devices,
assets and operators, and that enrolment implements `TokenBudget` (`EnrolmentKeepsBudget`). `InboxInv` adds to the properties that what is linked, or about to be, is a row that was
registered once, so an asset just created is nobody's (`LinkedIsRegistered`), and that a link an operator has
seen while reopening an item is only ever replaced by another (`SeenLinkStays`). For the refinement, a step does one
of three things to one token or nothing to any (`TokensTurn`); the mapping needs, besides the types, that
a token that was not issued was not spent (`CountKept`), since the abstract budget is issued whole. That a token is
never spent past its maximum is the guard of the abstract `Admit`, which `Admittable`, the conditional update, meets.

`LicencesProofs` proves, of the outbox, `OutboxTypeCorrect`, `SentIsMailed` and `RepeatsAreFaults`: a delivery marked SENT was
mailed, and one that was mailed twice has seen a fault or overlapping ticks. `OutboxInv` counts: a row that is
gone has no tries, one that is SENT was mailed, one about to be marked was mailed, and while no two ticks have
overlapped no two of them hold the same delivery (`NoOverlap`).

Of the licence it proves `ContractTypeCorrect`, `SeatsSuffice` (`[]SeatsWithinTotal`) and `RenewalsChain` (`RenewsWhatIsThere`)
for any grants, clerks and timers. `SeatsWithinTotal` is not inductive: `assign` adds to what it counted. `SeatsInv` adds
that a transaction which can still commit has counted at least what is handed out now, and that a renewal
which can still commit has read the date as it is. A concurrent write keeps that or dooms it (`DoomingTurns`), which is
what Serializable isolation gives the code. Seats are counted as elements of a set, whose finiteness and
cardinality come from `FiniteSetTheorems`.

`RecordsProofs` is about the six modules that `Registers` composes; each theorem takes the named assumption of its module.

* `CountTypeCorrect`, `EachItemIsCountedOnce` and `AClosedCountStands`, of `InventoryCount`. `EachItemCountedOnce` alone is
  not inductive, since requests decide on what they read. `CountInv` adds that no history row is written before the count
  closes (`Unclosed`), that a close which may still commit has read the items as they are (`CloseFresh`), and that a
  scan which may still commit belongs to a count nobody has closed (`ScanInTime`). That is what Serializable isolation
  gives the code.
* `BatchesWhole` and `RollbacksSpareWork`, of `AssetImport`. `ImportInv`: a commit or rollback that nothing has
  doomed still finds its batch in the status it read, a rollback that found the assets untouched still finds them so
  (`ReadStands`), and only one request stages a batch (`StagedByOne`).
* `IncidentsAlwaysKept`, of `IncidentDesk`, one request at a time (`OneRequest`): the request under way may still
  write what it has decided to write (`StillSo`). With two requests it is false (section 6).
* `ComplianceAlwaysKept`, of `ComplianceRecords`, for any number of requests: a statement about to be issued covers every
  control, a path under way is in no row, and no two requests have the same path (`Fits`, `OnePathEach`), so what one
  removes from the disk is never what another lists.
* `LevelsAlwaysMatch`, of `RiskRegister`, for any number of requests: all it needs is that a risk that is there
  has scores in the grid, and that requests under way are about a risk that exists. An update writes scores and levels
  together, which is why crossing updates do no harm.
* `AnAdminRemains` and `SessionsAlwaysFollow`, of `Accounts`, one request at a time: the request
  under way is about an account the directory does not keep, and if it takes an administrator's rights
  another local one is there (`Stands`). With two requests the first is false (section 6).

`WebClientProofs` is about `ScreenWork`, and so about every page at once: not the twenty-three tables `MCWebClient` lists
but any tables that satisfy `WorkAssumption`, for any records, roles, number of handlers and order of answers. The
assumption says what the handlers of the code have in common, table by table, and is nothing a run takes on trust:
TLC evaluates it on the tables of the pages whenever `WebClient` runs.
`Orderly`: no route brings a record back, a list comes from a load, a drawer is
shown what a call about its record answers. `WritesFirst`: a form writes before it touches the page. `SentOnce`: a form that
makes a record is cleared when it is sent, or holds a flag until it is shut. `Mirrors`: what is offered passes at
the API in the status the handler's earlier calls leave. `Relists` and `Redraws`: a write is followed by a call
that brings it into the list, and into the drawer, or the drawer is left. `Unguarded` and `Unmirrored` name the pages' exceptions.

* `TypeCorrect`.
* `ShutWhenStored` (`ClosedIsSaved`). `TaskInv`: a handler of a form that has written knows it (`Honest`), so one that has not is
  at a call that does nothing to the page.
* `OfferedIsAllowed` (`OnlyStaleIsRefused`). By `TaskInv` a handler takes its record to be in the status its last move has left, which is
  where `Mirrors` says its next write passes; if the record is in that status, only `hidden` facts refuse it.
* `FormsMakeOne` (`OneFormOneRecord`). The count alone is not inductive. `FormInv` and `SentInv`: while a guarded form is open, at most one handler
  sent from it is at work, with the form's flag, and one that has made the record has yet to shut the form, with no
  fetch before that can stop it.
* `SweepsWhatWasAsked` (`OnlyAskedIsDeleted`). `VersionInv`: no row shown or on its way is newer than the record, and one that is as new
  says of it what the record says; so a row that a list no longer has is binned, gone, or newer than that list.
* `WritesAreSeen` (`OwnWriteIsSeen`). The property speaks of quiet moments only; what leads there is `ListInv` and `DrawerInv`: what
  was written here and is not shown has a handler that wrote it and either holds an answer at least as new or has such a call
  ahead (`Bringing`), or, for the drawer, will leave it (`Leaving`). `StoredInv` and `KeptInv` carry the cases where the record is gone
  and where the drawer follows its row. A drawer that opens empty needs both: if its record was deleted from this page
  meanwhile, it is the deleting handler's last call that leaves it.

Assumptions: the named assumptions of the modules (`LifecycleAssumption`, `DisposalAssumption`, `NetworkAssumption`,
`CountAssumption` and their like: the constants have their types; `WorkAssumption`: the pages have the shape above), which TLC
evaluates in every run of those modules; the assumptions on `Corrections` named above; that at most one poller runs; and, for incidents and
accounts and for the serial properties of assets and cases, one request at a time, since with two the code does break
most of them (section 6 has the schedules). The runs check each under the same restriction.

Only model-checked: every liveness property (`OutageReported`, `RecoveryRecorded`,
`ReportsArrive`, `InboxHeals`, `LeaversGo`, `DueIsAlerted`, `AlertsGoOut`), since fairness and ENABLED are out of
the prover's reach, as are induction over data and RECURSIVE operators (none is used). Every invariant and action
property of a passing run is a theorem.

## 6. Disagreements no run shows

These are visible in the models, and were found with TLC or by reading, but no run is kept for them. Each
is a choice of the code a team may want to look at; the properties of section 4 are stated so that
they hold all the same, or only one request at a time.

* Two completions of one repair with a handover between them leave an asset READY in somebody's hands
  (`lifecycle.service.ts:484`); a handover between the two statements of a removal leaves an open assignment
  on a deleted asset (`assets.service.ts:511`); IT's deletion checks idleness before its transaction (`:502`).
* An approval that read the case before a cancellation revives it (`disposals.service.ts:278`), and an asset may then be in two active cases.
* A result of wiping that was read on an executing case is written after the case was completed (`disposals.service.ts:360`): a
  completed case then shows FAILED although completion asks for VERIFIED (`disposals.rules.ts:40`). `CompletedIsSanitized` holds one
  request at a time, so no run catches it.
* Deleting a draft, rejected or cancelled case rewrites the status of any of its assets that has changed since, also one that is
  handed out or under repair (`disposals.service.ts:511`; `DisposalPurge` shows a reserved one); deleting a completed one takes its assets out of DISPOSED (against `docs/DATABASE_MODEL.md:50`); `submit` keeps the snapshot taken when the draft was raised (`:256`).
* A transfer to a bare location takes a READY asset out of every warehouse (`lifecycle.service.ts:392`, against
  `WORKFLOW_DESIGN.md:113`, "`READY` luôn thuộc về một kho"); an administrator's status correction changes the status alone (`assets.service.ts:408`).
* With two pollers, a device may stay DOWN with its alert resolved and none to come, although the header of `netmon.poller.ts` describes concurrent pollers.
* `syncAlerts` may raise, after a renewal or an acknowledgement, the alert it computed before; it reopens RESOLVED (against `LICENSE_RENEWAL_MANAGEMENT.md:10`).
* With two requests in flight an update brings an incident back from a status it has left (against `INCIDENT_MANAGEMENT.md:46`).
* Two drafts that supersede the same document may both become current, and two statements be ISSUED at once (`compliance.service.ts:250`, `:380`).
* Two administrators who demote each other at once both count two administrators (`users.service.ts:55`, against `USER_MANAGEMENT.md:38`).
* A cancellation that read an OPEN count may cancel one that has closed (`inventory.service.ts:264`, against `INVENTORY_IMPORT_API.md:16`).
* The rollback of a batch does not look at incidents, disposal drafts or discovery links of its assets (`asset-imports.service.ts:230`, against `INVENTORY_IMPORT_API.md:42`).
* Updating a treatment reopens a closed or accepted risk (`risks.service.ts:569`). Two treatments closed at once may each count the
  other as open, and leave the risk TREATING with none open (`:566`); a treatment is completed without an
  outcome when another request empties the one it read, and also by one request alone whose outcome is blanks: the check at `:554`
  lets any text that is not empty pass and `clean` (`:48`) stores blanks as null, although the refusal at `:555` says "Hoàn tất hành
  động xử lý phải ghi nhận kết quả". `RiskRegister` has both.
* An account that a run marks as disabled and whose person it does not reach keeps an ACTIVE person: the next run finds the account
  INACTIVE and passes over both (`directory.service.ts:640`). `LeaversGo` asks only the account of a disabled entry.
* A secret that can no longer be decrypted stops the outbox for good (`renewal-notification.service.ts:154`), and fifty deliveries that fail together hold
  back the rest until their time comes (`:151`); the outbox model has neither.
* Somebody may be handed an asset while being deactivated (`people.service.ts:114`); a restart leaves a directory run RUNNING, and a sweep's scan row likewise keeps its subnet from being scanned (`netmon.poller.ts:89`).


In the web client, likewise:

* The supplier page has deleted whatever its list lost (`App.tsx:5927`). A list of vendors that was asked for
  before a supplier was made and comes after it makes the page delete that supplier, although the question at `:6132` was
  never answered. `OnlyAskedIsDeleted` excepts exactly this (`overtaken`).
* An older answer that comes last stays on the page, since nothing orders answers or drops old ones; `OwnWriteIsSeen`
  excepts it. The catalogue of categories is emptied when it fails to load (`:575`).
* Offered to whom the API refuses them (`Unmirrored`): a decision on a risk, to IT, and a treatment of a decided risk; seats of an
  expired licence; taking in assets, to HCNS; removing an asset that is not ready, to IT, and any, to HCNS. An
  account of role USER is shown as IT (`auth.service.ts:103`) and refused by the services.
* Nothing keeps these forms from being sent twice (`Unguarded`): a new asset, a new subnet, a new category, a new supplier. The flag
  of the category editor is lifted by the first handler to end.
* A new asset whose photograph is refused leaves the form open and the list not loaded; sending it again makes a second
  request to create (`App.tsx:8468`). The form of the intake page and those of departments and sites clear what was
  entered before there is an answer, and the intake form's photograph is never sent although the comment at `:8388` says so.
* An administrator's edit form opened before a handover sends the old status back, though nobody touched it (`:8434`).
  `AssetScreens` leaves this correction out.
* The comments at `IncidentManagement.tsx:684` and `RenewalManagement.tsx:333` say that the API refuses to delete what is still linked,
  allocated or owned by a provider; it does not. `INCIDENT_MANAGEMENT.md:16` says that there is no deletion.
* A form that was cancelled and opened again may be closed by the handler of the first (`ClosedIsSaved` speaks of a form's own handler).

## 7. Plan

Order: what people rely on first (custody, disposal), then what runs by itself (monitoring, agent, outbox),
then the document workflows.

1. `AssetLifecycle`, `AssetCustody`, `DisposalWorkflow`, `NetworkMonitor` and their proofs - done.
2. `AgentEnrollment`, `TokenBudget`, `DiscoveryInbox`, `DirectorySync` - done; the inbox and the budget proved.
3. `Renewals`, `NotificationOutbox` - done and proved.
4. `InventoryCount`, `AssetImport`, `IncidentDesk`, `ComplianceRecords`, `RiskRegister`, `Accounts` - done
   and proved.
5. `ScreenSteps`, `ScreenWork` and the modules of the pages - done, and proved for every page of their shape.
6. Left: signing in and out in the browser; linking devices of the network to assets, and the address arithmetic of
   `network.ts`; the references counted before a person, department or category is removed.
7. Proofs: every invariant and action property of a passing run is a theorem; liveness stays with TLC.

## 8. What is not modelled, and why

Reading endpoints, dashboards, metrics, health checks and error mapping keep no state the rest relies
on. Look-ups and settings are single statements over reference tables; of people, master data and vendors only the routes
are modelled, and what a removal counts is a refusal that may come (`Hiding`). Of the web client, signing in, the
dashboards and reports, the branding, e-mail and regional settings, translations, printing, camera and barcode
reading and the demonstration mode are left out: they hold nothing that two handlers could part. Asset photographs follow the scheme of the compliance files (bytes first, then the row).
Container, backup and CI files are configuration. History and
audit rows are written in the same transaction as the change they describe and never read back by a command.

