# LanFence in TLA+

LanFence watches a local network: it sweeps it with ARP and IPv6 neighbour
discovery, listens to the packets that pass by, keeps what it learns in one SQLite
file and raises findings that are shown, logged and sent as alerts. This
directory holds TLA+ models of that program, TLC configurations that
model-check them on small instances, and proofs that TLAPS checks for every value
of the constants. Paths and line numbers refer to `src/lanfence/` in this
repository.

## The system

One process, `lanfence monitor`, runs the sweeps. Others open the same database
at any time: the command line (`lanfence device`, `reset`, `review`, a one-off
`lanfence scan`) and the web dashboard.

| Component | State | Operations | Interacts with |
| --- | --- | --- | --- |
| Device lifecycle: `db.py` (devices, events, device_presence), `engine.py` sweep | a row per MAC: online/offline, last_seen, missed sweeps, families, discovery path, presence policy, alert mark; the event log | `observe`, `mark_offline`, `evaluate_availability`, presence and deletion edits | called by the monitor loop, by `scan`, by the CLI and the dashboard |
| Scanner: `scanner.py` | none (raw sockets) | ARP scan, ND scan, unicast ARP retry, ping, passive sniffing | gives sightings to the sweep and to the loop's queues |
| Monitor loop: `cli.py` `monitor` | bounded queues of passive sightings, DHCP replies, mDNS and SSDP messages, drop counters, time of the last sweep | a round: drain up to 200 of each, report losses, sweep and detect changes when due, sleep a second | a sniffer thread fills the queues, the loop empties them |
| Alert worker: `alert_worker.py` | queue of 100 batches, drop counter, a daemon thread | `submit`, the delivery loop, `shutdown` | fed by the loop, calls `alerts.dispatch` |
| Alert gate: `engine.py` `filter_*`, `db.py` alert_log and budget tables | last alert per key, global window, SMS budget | snooze filter, cooldown, global window, SMS segments | between findings and the worker; the worker uses a second connection |
| Change detection: `baseline.py`, `changes.py` | event cursors, baselines, change events, risk state | `run_change_detection`, reviews, accept, exclude, reset | reads the tables the others write, emits findings |
| Discovery evidence: `discovery.py`, `db.py` | mDNS/SSDP/address/name evidence with expiry and withdrawal | record, withdraw, flush, prune, attribute | fed by the passive capture |
| DHCP watch: `dhcp_server.py` | servers, findings, approvals | observe, judge, find, alert | fed by the passive capture, uses the cooldown |
| Allowlist and reviews: `allowlist.py`, `engine.py`, `db.py` | YAML file, device_review | load, add, remove, save, review, snooze, delete unreviewed | edited by the CLI and the dashboard, reloaded by the loop |
| Web dashboard: `web.py` | the settings it was started with, pid file, sessions, login throttle | edits, start/stop in background | edits the same database and files |
| Channels and settings: `channels.py`, `setup_ui.py`, `alerts.py` | settings file, a draft per setup | stage, save, restart the portal, test, deliver | read by the portal and the worker |
| Policy, risk, identity, classification | none | pure functions over evidence | used by dossiers and change detection |
| Rendering, configuration, utilities | none of their own | reports, prompts, loading | read the tables |

### What is hard here

* The process commits to SQLite many times within one sweep and can be killed
  between any two commits. The row of a device and the event that explains it,
  an alert mark and the alert it stands for, are committed apart.
* Sightings come late. The passive thread queues them and the loop handles them
  after sweeps that are newer.
* Absence is inferred. A device is offline because sweeps that could have heard it
  did not, so which sweeps could have heard it (interface, subnet, address
  family, failed scans) decides whether a disconnect is true.
* The retries that guard against a false disconnect are themselves evidence, and
  addresses change hands.
* The operator edits rows the sweep is working on.
* Queues and caps drop things: passive sightings, alert batches, rows.
* Whole files and whole rows are written back from copies that were read earlier: the
  allowlist, the settings, baselines, baseline items, the risk of a device.
* The score of a device counts changes, and its rise is itself a change that a policy
  may alert on.

`PROJECT.json` lists each of these hazards at its line with the properties that
would catch it going wrong.

## Modules

| Module | What it is | Code |
| --- | --- | --- |
| `PresenceContract` | what presence tracking promises: present or absent, an absence announced at most once, a recovery exactly when an announced absence ends | abstract specification |
| `DeviceLifecycle` | the tables, the sweep, passive sightings, operator edits, crashes; implements `PresenceContract` | `db.py`, `engine.py`, `scanner.py` |
| `AlertWorker` | the delivery thread, its bounded queue and shutdown, whatever is done with a batch | `alert_worker.py` |
| `AlertPipeline` | snoozes, cooldowns, global cap, hand-over and delivery with the SMS budget; extends `AlertWorker` with what a batch goes through before and after the queue, and implements its specification | `engine.py`, `db.py`, `alerts.py`, `cli.py` |
| `ChangeCursors` | how rows of two append-only tables become change events, by several passes over shared cursors | `baseline.py` ingest functions, `db.py` |
| `Baseline` | what is normal for one device: learning, pending, accepted, removed, returned, reset | `baseline.py` comparison and operator functions, `db.py` |
| `Judgement` | pure: signatures, identity, score and level, which policy decides | `fingerprint.py`, `identity.py`, `risk.py`, `policy.py`, `changes.py` |
| `ChangeAlerts` | a whole pass of the detector over one device, from the change to the alert, with the operator and the dashboard between its transactions; extends `Judgement` | `baseline.py`, `changes.py`, `web.py`, `db.py` |
| `DiscoveryEvidence` | what mDNS and SSDP messages become: upsert, goodbye, flush, expiry, pruning, row caps, attribution to a device | `discovery.py`, `db.py` |
| `MonitorLoop` | the capture thread, the bounded queues, the round of the loop, and a DHCP reply commit by commit | `cli.py`, `scanner.py`, `dhcp_server.py`, `monitor_status.py` |
| `TrustDecisions` | the allowlist as several editors load, edit and save it, reviews, deletions, the monitor's copy | `allowlist.py`, `cli.py`, `web.py`, `db.py` |
| `Settings` | drafts and saves of the settings file, and the life of the portal processes that read it | `setup_ui.py`, `channels.py`, `web.py` |
| `MC...` | instances for TLC: swept networks, sets of findings, messages, packets, rules, symmetry | |
| `DeviceLifecycleProofs`, `AlertPipelineProofs` (with `AlertWorker`), `ChangeCursorsProofs`, `BaselineProofs`, `ChangeAlertsProofs` (with `Judgement`), `MonitorLoopProofs`, `SettingsProofs` | the theorems about these modules | |
| `TrustAndEvidenceProofs` | the theorems about `TrustDecisions` and `DiscoveryEvidence`, one part each | |

The modules meet where the code does. `MonitorLoop` says when a sweep and a detection
happen and what reaches the loop; `DeviceLifecycle`, `ChangeAlerts` and
`DiscoveryEvidence` say what they do; `AlertPipeline` says what becomes of a finding;
`TrustDecisions` assumes of the loop what `MonitorLoop` shows (`SweepsGoOn`).

`PROJECT.json` maps every definition that models code to its lines. Operators
called *faulty* are variants of the definition that follows them with a plausible
bug; they are used by no specification. For each property of a passing run there
is one that makes TLC find the property violated.

### How state and actions correspond to the code

**DeviceLifecycle.** `dev`, `presence` and `event` are a device's rows in `devices`
and `device_presence` and its newest row in `events`. `phase`, `sweep`, `replies`,
`heard`, `due` and `findings` are the local variables of `run_active_sweep`. A sweep
is a sequence of actions, one for each statement that a commit of another process can tell
from its neighbours: `StartSweep` (the scans, either of which may fail), `HandleReply`
for each answer, `EndScan` (`devices_due_for_offline`), `ProbeAnswered`/`ProbeSilent`
(`_retry_devices_due_for_offline`), `SelectMissing` and `CommitMisses` (`mark_offline`
selects its rows, keeps them in `missing` and commits a disconnect at a time),
`SelectAbsentees`, `ReadMark` and `WriteMark` (`evaluate_availability`, with `absentees`
between them), `EmitFindings`. `PassiveSighting` is a queued sighting processed up to
`MaxLag` ticks late, between sweeps as the loop does. A sighting of either kind is in `hand`
from one statement of it to the next: `Observe` commits the device row, `DeviceIsThere`
is the assertion that reads it again, `RecordEvent` the event, `ReadPresence` and
`ClearMark` the end of an announced absence. If the device was deleted meanwhile the assertion
fails and ends the process (`DeviceIsGone`); `Crash` may end it between any two actions. The
operator is another process: `StopWatching` writes a presence row without reading it, `Watch` and
`SetOfflineAfter` read one and `WriteEdit` writes it back whole, with the alert mark as it was
read (`edit` holds both); `DeleteDevice` and `ResetAll` remove rows at any moment. The
variables `reported`, `absences`, `silent`, `muddled` and `torn` are histories that only
properties read: a device is *muddled* from when its presence row was written back over a newer
one, marked though no longer watched or known, or its mark survived the crash that ended its
return, until its row is removed or written without being read; it is *torn* while its row
and its newest event contradict each other.

**AlertWorker, AlertPipeline.** `queue`, `inHand`, `worker` and `stop` are the queue, the
batch in delivery, the thread and the progress of `shutdown`; a put on the full queue,
the removal of an entry to make room and the second put are steps of their own.
`alertLog`, `window`, `smsUsed` and `snoozed` are tables; reading one and writing it back
are two actions where the code uses two statements. `pc`, `pending`, `item`, `passed`
and `refused` are `filter_rate_limited` of each sender: the monitor and scans from
other terminals. `disp` is `dispatch` channel by channel, up to each SMS recipient. A
delivery may end by an exception, or never.

**ChangeCursors.** `rows`, `inserted` and `position` are the two tables, their
AUTOINCREMENT counters and `change_cursors`. `pass[d]` holds the local variables of
detector `d`: its cursor and what is left of its batch. Each statement of
`_ingest_lifecycle` and `_ingest_dhcp_servers` that reads or commits is an action.

**Baseline.** `base`, `items` and `events` are the device's rows in `device_baselines`,
`baseline_items` and `change_events`; `pass` holds the copies that `detect_changes` has
read for all devices before it judges the first. `Begin` and `ReadItems` make the copies,
`Learn` ends learning, `Judge` is one round of the item loop (new, returned, still there,
missing), `Tell` the change event in its own transaction, `Finish` the write of the
baseline row. The operator accepts in two steps, too: `AcceptChange` or `AcceptPending` reads rows
into `hand`, `WriteAccepted` writes each back whole, over whatever a pass or a reset did to
it. `ResetBaseline` is one transaction. `missing`, `overwritten` and `disturbed` are
histories: how long ago a pass last saw a service, whose row an accept replaced by an older
copy, whether the operator wrote in the middle of a pass.

**ChangeAlerts, Judgement.** `log` is `change_events` of one device, `base` and `items` its
baseline, `risk` its stored score. `pass` and `web` are the local variables of
`detect_changes` and of the dashboard's rescore. `Begin` ingests lifecycle changes and reads
the copies, `Seed` makes the first baseline, `Compare` and `Keep` are the comparison and
its write, `Rescore` and `Store` the risk change and the stored score, `Emit` the policies
and the mark of each change's fate. `BreakOff` ends a pass between any two of them.
`Review`, `AcceptPending`, `ResetBaseline` and `Exclude` are the operator; the rest is the
world: trust, clues, circumstances and services of the device, time. `Judgement` holds the
operators that these use: `InferIdentity`, `Score`, `LevelFor`, `Match`, `BecomesAlert`.

**DiscoveryEvidence.** `rows` holds the five evidence tables, `message` the records in
hand, `evidence` is `device_addresses`. A key of `rows` says which row it is and what that
row says: the host an instance runs on and the address a USN speaks from are columns of one row
(`SameRow`), which a later record overwrites. `Take` parses a captured message, `Record`
writes its next record in a transaction with the flush and the pruning that go with it,
`Crash` ends the monitor between two of them. `RecordAddressEvidence` writes any row that the
network gives cause to, and drops one of a device that has too many; `RetryOffline` is the
unicast retry of a device about to be given up, which asks at the address `Preferred` by its
evidence and records whoever answers as that device.

**MonitorLoop.** `queue`, `dropped`, `told`, `lost` are the queues, their counts and the
state of capture; `phase` is where the loop is. `Capture` is the sniffer thread with
`PutDropping`; `Drain`, `NextQueue`, `Report`, `Sweep` and `Sleep` are the round. `hand` is the
DHCP reply being processed: `Observe`, `Judge`, `Find`, `Emit`, a commit each.

**TrustDecisions.** `file` is the allowlist, `view` the monitor's copy, `job` what each request
or command has read and is going to write. `Open`, `Trust`, `Untrust` are an edit,
`StartReview` to `Skip` a review session that keeps its copy from one device to the next,
`StartDelete` and `Delete` the removal of unreviewed devices, `Reset` and `ClearFile` a reset,
`HandEdit` and `Garble` the operator's text editor. `missed` and `muddled` record who
overlapped whom.

**Settings.** `setup[s]` is what one `lanfence setup` holds: what it read, its draft, the
bytes it compares, whether a restart is pending. Saving is `BeginSave`, `Write`, `Reread`;
what follows is `StartSwitched`, `StopSwitched`, `RestartNow`, `Exit` and the steps of stopping
and starting. `portal[p]` is a process of the portal from its start to its end, `pidfile`
the pid file it writes and removes.

### Abstractions

* Times are ages that saturate at `AgeCap`: the code only compares them with
  thresholds. Time passes between sweeps, passes and batches, since each of them works
  with one `now`.
* A sweep of several interfaces (`run_active_sweep_multi`) is several sweeps in a row.
* An operator's command is several steps where it reads what it writes back (presence rows,
  baseline items, allowlist, settings, scores), and one where it is one transaction, or where
  what lies between its statements leaves the tables as they would be without it.
* In `Baseline` what the device does is left to the time between passes, because a pass
  reads it once; in `ChangeCursors` the detectors are symmetric, and `MaxRows` bounds
  the rows inserted into both tables together.
* The removal of an item and its change event are one step: no property is about
  whether such an event gets lost.
* Names, vendors, addresses, message texts and packet formats are left out. In `Judgement`
  a text is the set of clues that a keyword or a condition looks for, and `Signatures`
  and `Rules` are small files like the bundled ones.
* In `DiscoveryEvidence` the owner of a row stands for its name and the interface it was heard
  on, since rows of two interfaces never meet; the evidence of addresses does meet, because
  it is looked up by address alone (`db.py:2360-2362`), and so has an interface of its own.
  Which row the cap on a device's addresses drops is left open. Messages of one protocol
  are handled in the order of their capture.
* `MonitorLoop` has what passes through the queues; a sweep is one step that takes a tick of
  the sleep that follows it.
* `ChangeAlerts` has one device whose services come and stay (removal is in `Baseline`);
  hostnames and addresses, compared as the identity is, are left out, a pass takes
  seconds, and the alert gate hands over or withholds as it likes (`AlertPipeline` says which).
* `Settings` has one value for the portal's switch and password and one for everything else.

## Runs

| Run | Instance | What it shows |
| --- | --- | --- |
| `lifecycle_crash` | one device, one network, 2 misses, grace 1 tick, delays {2}, sightings up to 1 tick late, 1 crash, both probes, edits and deletions between any two statements | the log explains the status, no false disconnect, no second announcement of an absence, marks stand for absences; `PresenceContract` is implemented |
| `lifecycle_networks` | one device roaming between two interfaces, one of them without a subnet, both families, pings of watched devices, its address given away, fairness | sweeps that could have heard it suffice: who left goes offline and, when watched, is reported |
| `alerts_monitor` | two findings of one cooldown key, queue of 1, 2 batches, 1 restart, cap of 1 per tick, 1 push channel and 1 SMS recipient | cooldowns and the cap hold over restarts, batches are taken, shutdown ends |
| `alerts_scans` | queue of 2, 4 batches, one scan beside the monitor, 2 recipients of 2 segments, budget of 3 | batches are all accounted for, none left behind; the SMS budget is overrun by at most one message of the other sender |
| `cursors` | two detectors, batches of 1, 2 rows, 1 pass ends early, row cap 1 | no row is passed over; none becomes two changes while passes take turns |
| `baseline` | an administration port and an ordinary service, 1 inspection, learning 1 tick, removal after 2, refresh after 1, 1 pass ends early, accepts in the middle of passes, fairness | what gets into a baseline and what is told; no removal too early; what is gone is noticed |
| `discovery` | a host with three addresses that runs a service, an SSDP device that moves, a device of another network seen at the same address and with a lease of it; up to 3 records a message, 1 tick late; tables of 2 rows, lifetimes of 2 ticks, 1 row of address evidence per device | what a response announces stays, what it replaces goes, nothing current is pruned, no sighting, claim or answer to a retry hands a service over |
| `monitor` | queues of 2 for sightings and DHCP replies, one item per round, one server, cooldown 1 tick, replies up to 2 ticks late, 1 drop, crashes at any point, fairness | sweeps go on, losses are told, an unexpected server is reported, once per cooldown |
| `trust` | the host and one device, 2 names, 2 editors, a text editor, fairness | a decision is lost only to an overlap, and reaches the monitor |
| `settings` | one setup, two portals, 2 sites, 1 change by hand | no save discards another's change; outdated portals are restarted |
| `change_alerts` | one device, services ssh and http, 2 turns of operator or world, exclusions of mDNS and identity, 7 days passing | see the properties below |
| `risk_twice` (violation) | as `change_alerts` | the stored score is not the one that `lanfence risk` shows |

Why the bounds are enough: thresholds are at least 2 where being reached is different
from being passed (misses, removal age), or 1 tick where only "reached or not" matters.
Ages go as far as the largest threshold. One crash meets every state of a sweep and of a
sighting; that a second one in the recovery changes nothing is part of the theorems, which
bound no number. Two detectors, editors and portals are the smallest number that overlap,
and batches of 1 with 2 rows make the loop fetch a second time after a full batch. A queue
of 1 is full with each batch, and a queue of 2 keeps order apart from count; a table of 2
rows is full when a third key is announced. A single turn of the operator may overlap a
pass and a second one may follow it. One setup has others beside it in the text editor;
`SettingIsKept` is proved for any number. What a bound hides, such as a third device in
one sweep, is covered by the theorems where the property has one: no theorem fixes a
bound.

Deadlock is checked everywhere. The models do not stop: time can always pass, or
the monitor be started again.

### Fairness

* `DeviceLifecycle`: the loop runs for as long as the process does and every step of a
  sweep has a timeout, so `SweepStep` is weakly fair. Time passes: `Tick` is strongly
  fair, because it is only enabled between sweeps. Every target is again and again
  swept successfully, with all families (strong fairness of `FullSweep(t)`): a network
  whose scans always fail tells nothing about absence, and the code rightly waits.
* `AlertPipeline`: the monitor's gate, the thread's start, its taking of a batch, its
  end, and the join with its timeout are weakly fair. That a delivery ends is *not*
  assumed: nothing limits a name lookup.
* `Baseline`: a pass goes on (`PassStep`, weakly fair), an accept that has read its rows writes
  them (`WriteAccepted`, weakly fair: a command runs to its end), and time passes between
  passes (`Tick`, strongly fair).
* `MonitorLoop`: the loop goes on (`Loop`, weakly fair): it blocks nowhere for ever, since
  its queues are read without waiting and a sweep has timeouts. Nothing is assumed of
  capture.
* `TrustDecisions`: the monitor reloads at each sweep (`Reload`, weakly fair); that it does is
  `SweepsGoOn`. Nothing is assumed of the operator.
* The other specifications state no fairness and have no liveness property.

## Properties by component

* Device lifecycle: the event log explains the status (`LogTellsStatus`); a disconnect is
  earned by covering sweeps and by time (`OfflineIsEarned`); an answer, also a late one,
  prevents it (`HeardIsNotMissed`); an absence is raised once (`NoDoubleFire`), and only the
  absence of a watched device is marked (`AlertedMeansAbsent`); presence follows its contract
  (`KeepsContract`); who left goes offline (`GoneGoesOffline`) and is reported
  (`GoneIsReported`).
* Alerts: `CooldownKept`, `VolumeBounded` (a fixed window, so twice the cap in any
  stretch as long), `CapSparesSevere`, `SmsOverrunBounded`, `Accounted`,
  `NothingLeftBehind`, `QueuedIsTaken`, `ShutdownEnds`.
* Change cursors: `NothingSkipped`, `OnceEach`.
* Baselines: `AdminIsApproved`, `PendingWasTold`, `AcceptedIsExpected`, `RemovalIsEarned`,
  `GoneIsNoticed`.
* Discovery evidence: `SameResponseKept`, `FlushedIsGone`, `PruneSpares`,
  `ServiceNotHandedOver`.
* Monitor loop and DHCP watch: `SweepsGoOn`, `LossIsTold`, `UnexpectedIsReported`,
  `OncePerCooldown`.
* Allowlist: `DecisionKept`, `DecisionTakesEffect`. Settings: `SettingKept`,
  `OutdatedIsRestarted`.
* Changes and risk: the default policies tell of a new service for remote
  administration, whatever the baseline is learning (`AdminIsTold`); a pass that finds
  nothing new records nothing, so that the risk does not feed itself (`QuietWhenCalm`);
  the level rises only with a change that tells of it, over unfinished passes
  (`RiseIsRecorded`); what is excluded stays silent (`ExcludedIsSilent`); overlapping
  reviews do not put the score out of date for good (`RiskSettles`).

Some exceptions are part of a property. In `DeviceLifecycle` two processes share the database
without a lock: `LogTellsStatus` excepts devices whose row and event were torn apart, by the
process dying or the device being deleted between the two commits (`db.py:1590` and 1605,
1837 and 1861). `NoDoubleFire`, `AlertedMeansAbsent`, `GoneIsReported` and `KeepsContract` except
devices whose presence row was muddled: an edit that read the row before a sweep set or
cleared the mark writes the old mark back (`db.py:1016-1020`, 1034-1038), and the sweep does
the same to an edit (1049-1053) or marks a device that is no longer watched. A mark lost fires
the absence again, a mark brought back suppresses the next one. With the exceptions the
properties say that these overlaps are the only way the log and the marks go wrong. `GoneGoesOffline` promises nothing of a device whose address was given
away: whoever has it now may answer for it for ever. `VolumeBounded` does not count an alert that was
being decided while everything was reset: its count is added to a row that is gone
(`db.py:1692`). `PendingWasTold` holds while no pass ends early:
an item is saved before its change is recorded (`baseline.py:347-355`), and a pass that
ends in between leaves it pending with no change that names it. `OnceEach` holds while passes
take turns and end: rows of a batch are recorded before the cursor moves, so a second
reader or an unfinished pass makes a second change of them, although the schema's
comment says "at most one" (`db.py:392-393`). `RemovalIsEarned` counts all time since a
pass last saw the service, the time its device was offline included, as the code does; it
excepts services whose row an accept replaced by an older copy (`baseline.py:585-587`, 595-598),
which takes back what a pass has found in between, until a pass finds them present.
`DecisionKept` and `SettingKept` except what overlapped, since neither file is locked; both
say that nothing else gets lost, a session that held its copy for minutes included.
`OutdatedIsRestarted` excepts portals that had no pid file yet, and those that were lost
sight of when another portal removed it (`web.py:406`). `UnexpectedIsReported` excepts a
crash between the recorded cooldown and the alert. `ServiceNotHandedOver` is about
addresses that stay the same and evidence that is not forgotten. It does not say that a service is
shown with the right device: the first device recorded as seen at an address has its services,
though it may be an earlier user (evidence of an address has no end, `db.py:2365`) or a
device that had left when another one answered the retry; and where two addresses of a service pointed to
two devices, a third one seen at one of them leaves the service to the other. After a deletion or
a full list of addresses an ambiguity may be forgotten.

## Proofs

TLAPS proves, for every value of the constants that satisfies their assumptions:

* `DeviceLifecycleProofs`: `TypeCorrect`, and from the inductive invariant `IInv` (`Inductive`) the
  log, the earned disconnect, the heard device, the single announcement and the mark
  (`LogCorrect` to `AlertedCorrect`), with edits and deletions between any two statements of a sweep
  and any number of crashes. `IInv` has three parts: `TableInv`, in which the table's miss count
  must not exceed the history of silent sweeps; `MarkInv`, in which a mark counts an absence;
  `OrderInv`, which ties what a statement has read to the tables it is about to write: a row
  selected for a miss is still owed one, what is missing, absent or in hand is so only in its
  phase of the sweep, and a row in hand that differs from the table's belongs to a muddled
  device. `ContractKept` says that every behaviour, crashes
  included, implements `PresenceContract` under the refinement mapping `Shown`, `Outbox` and
  `muddled`: a return that is committed and not told yet counts as told.
* `AlertPipelineProofs`: `WInv` is inductive: the queue is ordered by batch number with the
  sentinel last, and every batch is taken, queued, dropped or removed
  (`WorkerInductive`). The pipeline implements the worker's specification
  (`ImplementsWorker`) and so inherits `OrderKept`, `NoBatchVanishes` and `DrainedFirst`; with
  `SmsInv`, which bounds the messages that senders have found room for and not charged,
  the overrun of the SMS budget (`BudgetOverrun`); and with `CInv`, which relates the log
  to what was let through, the cooldowns (`CooldownCorrect`). The last assumes `OneSender`
  (the monitor alone: two senders may pass the same cooldown at once) and `OneCooldown`
  (the findings of a key share one cooldown). From `CapInv`, and for the monitor alone
  too, follow `VolumeCorrect` and `SevereSpared`: the current window accounts for all that
  was let through since it began and what came before it was one full window at most
  (`WindowKnows`), and once the cap has refused a finding it refuses the rest of the batch
  (`StaysFull`). The run has a cap of 1; larger caps are covered by the theorem.
* `ChangeCursorsProofs`: `SkipsNothing` from `SInv` (batches have no gaps, a pass has handled
  all that its copy of the cursor is past) for any number of detectors; `ChangesOnce` from
  `OInv`.
* `BaselineProofs`: `AdminApproved`, `AcceptedStays`, `TrustIsGiven`, `PendingTold` and
  `RemovalEarned`. Each needs to know what the copies of a pass say, because they are
  written back: that they are approved, that they hold what was accepted, that the
  table has not gone back behind them, that they are what the table says
  (`CopiesAreExact`) or that they are as old as it is (`CopiesAreAsOld`). The rows an accept has in
  hand need the same: `WriteAccepted` puts rows back that a reset removed, and rows that
  a pass has changed. `RemovalEarned` assumes that the refresh age is positive, as it is in the
  code (one hour).
* `MonitorLoopProofs`: `FoundOncePerCooldown` and `PassedOverOnlyAfterReport`. The cooldown is
  compared by the times of two replies, so the invariant is about order: the replies that
  wait are no newer than the one in hand nor than any that was found (`RepliesInOrder`), and
  what is logged is no older than the newest finding, and no newer than what was handed
  on unless a crash came between (`LoggedLast`). A reset between the log and the finding is
  why `RepliesInOrder` speaks of findings too.
* `ChangeAlertsProofs`: scores are folds over sets, so they come first. A fold over a finite
  set is a sum that does not depend on the order (by induction over its subsets, from
  the well-foundedness of strict inclusion), more recent changes never lower a
  level (`MoreChangesRiseNoLess`, which is why counting a change twice hides no rise), and a
  score sees of the table only what is recent, not suppressed and not reviewed. Then one
  invariant for each question. `SilenceInv`: what the operator excluded is in the row,
  and a pass goes by what it read (`ExcludedStaysSilent`). `ToldInv`: a pending service for
  remote administration has a change whose fate is known, or the pass under way holds one
  that its policies will alert on (`AdminAlwaysTold`, for all policies that alert on such a
  service, `AlertsOnAdmin`; the default ones do by `DefaultsAlertOnAdmin`, a policy file may
  not). `LevelInv`: the
  level about to be stored was told of, unless the writer was overtaken
  (`RiseStaysRecorded`). `CopyInv` says stage by stage what the copies of a pass owe to the tables
  as long as nothing interferes, and is what makes a pass find nothing new
  (`CalmStaysQuiet`) and leave the score that is shown (`RiskSettlesWhenCalm`).
* `TrustAndEvidenceProofs`: `DecisionIsKept`. The copy of an editor that may still save agrees with
  the file, but for the devices in its `missed` (`CopiesAgree`). For discovery, one lemma
  says what a record makes of each row that is left after the pruning (`RowsAfter`);
  the rest is about order. `NeverHandedOver` needs no invariant but the types: a step adds
  at most one row of address evidence (`EvidenceStep`), and one row more can only make an address
  ambiguous or give it its first device (`OneRowMore`). `PruningSpares` from `OrderInv`: the message in hand is the newest handled of its
  protocol and no row is newer, so what the row cap keeps is newer than what it drops.
  `ResponseIsKept` and `FlushIsComplete` from `HandInv`: what the records written so far announce is
  exactly as old as their message, over ticks between two records, so that the grace
  never applies to it, and what they replace is gone or within the grace.
* `SettingsProofs`: `SettingIsKept` and `OutdatedIsMinded`. With the comparison behind it
  a setup knows the file, but for the settings in its `late`; having written and not yet
  read back, it knows it by its draft (`Knows`). A setup that saved minds the outdated
  portals up to the restart, and in the restart only the one it stops (`Minds`). That a
  restart is due is not inductive: the step that starts the new portal clears it, whatever
  else is outdated by then.

The assumptions are those of the modules. Bounds are naturals, `None`, `Nothing` and `NoRow` are
not values (`None` is not what a setup holds either), `MaxLag` and the thresholds are within
`AgeCap`. `PacketAssumption` and `MessageAssumption` say what a packet and a readable message may
contain: the records of an mDNS message are about the mDNS tables, its lifetimes within
`MaxTtl`. `TableAssumption` has finitely many rows. `RuleAssumption` and `SignatureAssumption` are what
the loaders of the rule files accept, `ServiceAssumption` to `SpanAssumption` what the device, the
event table and the operator of `ChangeAlerts` may do.

`DiscoveryEvidence` calls its specification `SpecDiscovery`, so that one module can extend
it and `TrustDecisions`.

Only model-checked are the liveness properties (`GoneGoesOffline`, `GoneIsReported`, `QueuedIsTaken`,
`ShutdownEnds`, `GoneIsNoticed`, `SweepsGoOn`, `LossIsTold`, `DecisionTakesEffect`), which the provers do
not reach. Every other property of a passing run is stated by a theorem. Some of those
need an assumption beside those of the modules, which the run's instance satisfies:
`CooldownCorrect` `OneSender` and `OneCooldown`, `VolumeCorrect` and `SevereSpared` `OneSender`,
`RemovalEarned` a positive refresh age, `AdminAlwaysTold` `AlertsOnAdmin`.

## Findings

* `risk_twice`: `detect_changes` adds the changes that this pass ingested to those it has just
  read from the table (`baseline.py:185-191`), so each counts twice: two lifecycle
  changes get the reason "unreviewed changes in the last 24 hours" with a wrong number, the
  score may cross a level and alert, and `lanfence risk` and the next pass know nothing
  of it. Against `baseline.py:33-35` and `risk.py:146`.

Also seen while modelling, and without a run of their own:

* `evaluate_availability` commits the alert mark before the finding is handed over
  (`db.py:1922`): a crash loses the absence but not its recovery (`db.py:1045-1046` says
  otherwise).
* "Can never double-fire" (`db.py:1886-1888`) does not hold beside an operator: `set_offline_after`
  and `set_presence_policy` write the mark back as they read it (`db.py:1016-1020`, 1034-1038), and
  an absence whose mark is lost this way fires again. The other way round the sweep undoes an
  edit of policy or delay that was made between its reading and writing of the row (1049-1053).
* A device deleted between the commit of its row and the assertion that reads it
  (`db.py:1590-1603`) ends `lanfence monitor` with an `AssertionError`: nothing around
  `process_sighting` catches it.
* The ARP retry takes any answer from the last address for the device (`engine.py:632`,
  `scanner.py:240-260`), so a device whose address was reassigned stays online
  (`README.md:1150-1152` of the repository; `AddressReuse` of `DeviceLifecycle` shows it), and the
  answer is recorded as the device's own use of the address, by which services are
  attributed (`RetryOffline` of `DiscoveryEvidence`).
* "Zero or more than one distinct MAC has ever held it" (`db.py:2347-2353`) is asked of the rows that are
  left, of all networks at once: a device deleted, or pushed out by the cap on a device's
  addresses, no longer makes an address ambiguous, and devices of two networks with the same
  private address do.
* `http.client` exceptions leave `dispatch` (`alerts.py:260`), and the channels after it get
  nothing (`README.md:2030`).
* A pass writes whole items back from copies (`baseline.py:365`) and may undo an acceptance
  (`README.md:736`); an acceptance does the same (`baseline.py:585-587`, 595-598) and may make a
  service gone that a pass has just seen return; `save_baseline` (`baseline.py:452`) may undo an
  exclusion.
* `delete --unreviewed` works through the list it showed before the confirmation
  (`cli.py:1670`), reviewed meanwhile or not (`cli.py:1773-1774`).
* The restart at the end of a setup is lost when a later save finds the file changed
  (`setup_ui.py:760`, against `setup_ui.py:815`).
* A round takes at most 200 items of a queue (`cli.py:972`) and then sweeps: sightings that
  wait behind them are handled after the sweep that missed their device (the comment in
  `cli.py:963-967`).
* `consume_sms_budget` is called atomic (`db.py:1697`) and is two statements: the bound that
  holds is `SmsOverrunBounded`.
* `due_for_alert` records a cooldown before the global cap is asked (`engine.py:710`): what
  the cap refuses stays silent for a whole cooldown.
* `_emit_findings` (`cli.py:685`) returns a batch that `submit` refused as sent, so its changes
  are marked as handed over.
* `identity.py:99-100` says that the confidence is 0 exactly without evidence; conflicting
  rules make it 0 too. An identity that goes over "Unknown" changes without a change event
  (`baseline.py:425`).
* A rise of the score that the dashboard records is never alerted, and changes that a
  pass recorded before it ended early are never offered to a policy (`cli.py:947`).
* A portal that ends removes the pid file of a newer one (`web.py:406`).
* `delete_device` leaves cooldowns of availability, changes and policies (`db.py:1977`).

## What is not modelled

* Two processes that sweep the same network at once: the code expects one monitor.
* Pruning of events and changes by age: the rows pruned are read by nothing above.
* The web dashboard's sessions and login throttle (one lock around a dictionary), the
  firewall and systemd calls, and HTML.
* The prompts of `lanfence setup <channel>` and of the presence and metadata forms; the
  monitor's own pid file and live display.
* Name evidence and the preferred name and address of a device; its hostname and addresses
  in a baseline, which are treated like the identity; comparison with an earlier day.
* `classify.py`, and the wording of findings, contributions and reports.
* Active inspection, packet construction, the sockets, configuration, rendering, digests,
  dossiers: they are I/O, or keep no state.

## What is left

In this order: a composition of `MonitorLoop` with `DeviceLifecycle`, in which sightings that
overflow a queue are those that a sweep misses; two addresses and the hostname in
`ChangeAlerts`; name evidence; sessions and the login throttle of the dashboard.
