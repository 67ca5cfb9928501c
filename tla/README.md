# Verification of wireguard-vpn

TLA+ models of this repository: the WireGuard server's dashboard, which owns
the list of VPN clients, keeps the running interface and a backup in S3 in step
with it, samples the host, keeps time series, draws charts and sends alerts;
and the MCP server through which an assistant uses it. TLC checks the models on
small instances, TLAPS proves the most important properties for every value of
the constants.

All paths below are relative to `src/`; `D/` stands for `dashboard/internal/`.

## 1. The system

| Part | State it keeps | Operations | What makes it correct |
|---|---|---|---|
| Client service (`D/clients`) | the mutex, `storeReady` | Add, Update, Delete, ReplaceAll, Seed, Reconcile, ReconcileFromStore, RecheckStore | unique names, keys and addresses; success means live; what was acknowledged survives, what was revoked stays out |
| clients table (`D/db`) | rows, UNIQUE columns | insert, update, delete, ReplaceClients | a replacement is all or nothing |
| Live apply (`D/wgsync`, `D/wgconfig`, the helper in `scripts/install.sh`) | staged fragment, `wg0.conf`, the interface | stage, merge, `wg syncconf` | file and interface are a snapshot of one table |
| S3 store (`D/clientstore`) | one object | Load, Save | never overwritten by a process that could not read it; no kept peer is lost; heals after an outage |
| Boot (`dashboard/cmd/.../main.go`) | the loaded manifest | local: Seed + Reconcile; cloud: ReconcileFromStore | converges from any crash |
| Alert evaluator (`D/alerts`) | a state machine per key, CPU high run, transfer baselines | Evaluate, Active | no false, repeated or missing transition |
| Status view (`D/alerts/status.go`) | active list, ring of 50 | Update, Snapshot | list and ring agree |
| Poller (`D/poller`) | last samples, handshake cache, metrics snapshot, dispatch channel | sample loop, retention loop, dispatch worker | never blocked by delivery; a lasting alert is delivered; a handshake is stored once |
| Notifiers (`D/notify`, webhook handlers) | webhook seed and override, per-call retries | Notify with retries and fan-out, Set, Revert, Test | one URL per message; every transport accounted for |
| Time series (`D/db`, `D/history`, `D/p95`) | four tables | insert, prune, query, derive sessions, percentile | no lost or invented sample within the window a page may ask for |
| Host sampler (`D/proc`) | the sample before | Sample | no byte reported twice; the CPU share is the true one |
| Process table (`D/processes`) | jiffies per PID of the walk before | Sample | a process is credited only with what ran under its PID |
| Server information (`D/serverinfo`, config download) | the EC2 verdict | probe once, endpoint, key, VPC | one verdict; a configuration is never made of an error |
| HTTP pages (`D/server`) | none of their own | list, history, events, map, charts, `/metrics` | pages derived from different sources agree |
| MCP server (`mcp/`) | delete tokens | preview, delete, other mutations | one preview allows one delete of what it showed |
| GeoIP, other host readers, installer, Terraform | none, or files on the host | parse, provision | — |

Interaction. Admin requests and the poller's hourly recheck call the client
service, whose mutex is held across SQLite, the privileged helper and the aws
CLI. The boot sequence runs the same code before the HTTP server listens, while
the poller is already running. The sample loop feeds the evaluator, writes the
status view (read by HTTP goroutines), inserts rows table by table and offers
events to the dispatch worker through a bounded channel without ever waiting
for it. Pages read the tables, `wg show` and the poller's last snapshot, and
share the host sampler's prior sample with the poller. The MCP server talks to
the dashboard over HTTP, where a removal is two requests apart from its preview.

What is hard: a mutation is five effects (row, staged file, `wg0.conf`,
interface, S3) that can be cut short after each one by a crash, a reboot, a
replaced instance, a failing helper, a cancelled request or an unreachable
store; the boot has to make sense of whatever was left. In the poller every
reading and every insert can fail by itself, and state survives ticks that did
not see it. Counters restart, clocks step, PIDs are recycled, answers get lost
after the request took effect. The list of hazards, each with its line and the
properties that address it, is in `PROJECT.json`.

## 2. Modules

| Module | Models |
|---|---|
| `PeerTable` | rows, UNIQUE columns, address allocation and validation, projections to peers and to backup entries, outcome of a table replacement |
| `ClientService` | the service, the apply chain, the store, boot and the faults, one action per step |
| `ReplaceTx` | `db.ReplaceClients` statement by statement, in every map order |
| `AtomicReplace` | what `ReplaceClients` promises: one atomic step; `ReplaceTx` is shown to implement it |
| `Alerts` | `alerts.Evaluator`: one tick of every state machine |
| `Poller` | the alert path of the sample loop and the status view, over a changing host |
| `Dispatch` | `Poller` composed with the channel and the delivery worker |
| `Notify` | one message: fan-out, retries, cancellation, and the webhook URL operators change meanwhile |
| `ProcSampler` | `proc.Service.Sample`, read by read, with its unsigned arithmetic |
| `Processes` | `processes.Service.Sample`: the walk of `/proc` over a changing process table |
| `ServerInfo` | the EC2 probe, the About page, `/api/server`, the snapshot and the configuration download under concurrent requests |
| `Sorting` | lists in a fixed order: `ORDER BY ts` of the queries, `sort.Slice` of the evaluator |
| `TimeSeries` | what the tables share: clock, retention, windows |
| `Handshakes` | handshake rows: the poller's cache and inserts, pruning, and every page that tells online and last seen |
| `Series` | chart rows: `collect`'s inserts, pruning, queries, counter differences, p95 |
| `DeleteTokens` | the MCP tools that mutate, the token store, and a dashboard others use |
| `ClientServiceProofs`, `ReplaceTxProofs`, `DeleteTokensProofs`, `NotifyProofs` | theorems of one module each |
| `HostProofs` | theorems of `ProcSampler`, `Processes` and `ServerInfo` |
| `PollerProofs` | theorems of `Alerts`, `Poller` and `Dispatch` |
| `TimeSeriesProofs` | theorems of `Handshakes` and `Series` |
| `SortingProofs` | lemmas about numbers, ranks and sorted lists that the last two share |
| `MCClientService`, `MCReplaceTx`, `MCPoller`, `MCDispatch`, `MCDeleteTokens`, `MCServer` | instances for TLC |

### ClientService

`Service.mu` lets one mutation in at a time; `pc` is the step its holder (or the
boot) has reached, `cont` what follows a successful `applyLocked`.

- `Add`, `Update`, `Delete`: validation and the table write. A request that
  fails validation writes nothing and is not a step. `DeleteCheck` is the
  existence check of the handler, made without the mutex.
- `Stage`, `Merge`, `Sync`: `Applier.Apply`, the helper's rewrite of `wg0.conf`,
  and `wg syncconf`.
- `Save`, `Put`: `saveStoreLocked` with its heal probe, and `Store.Save`.
- `Start`, `LoadFails`, `LoadAnswers`, `HealStore`, `ColdSave`, `SeedTable`,
  `ReplaceAll`: the boot paths of both modes.
- `RecheckStore`: the hourly recheck, whenever the mutex is free.
- `Crash`, `HostReboot`, `Rebuild`, `StoreToggles`: the environment. `Faults`
  selects which failures an instance has.

Effects and answers come apart. The helper installs `wg0.conf` with install(1),
which does not rename (the comment at `scripts/install.sh:528` calls it
atomic), so a crash or reboot in `Merge` may leave a torn file (`Torn`). A
request cancelled while the helper is in `wg syncconf` fails although the
interface has changed (`Sync`). A save whose answer is lost has written the
object: after a mutation the failure is logged and the request succeeds, so
`Put` ends like an answered one; at boot it is an error and leaves the store
offline (`BootSaveFails`, fault `lost`). A restore may fail with the database.

`wanted`, `gone`, `revoked` and `disabled` record what the operator was told;
`seen` that this process has had an answer from the store. No action reads
them.

Abstractions: addresses are host numbers of the subnet; notes, timestamps and
ids are left out; the S3 object is a set of entries, and a missing object equals
an empty one because every reader treats them alike; keys and names are already
valid.

### ReplaceTx, AtomicReplace

The rows each loop works on are computed from the two maps the code builds
before its first statement; `todo` is what the current loop has left, in any
order. The transaction's view `work` is changed by one statement at a time;
`Execute` commits a statement or rolls everything back when a UNIQUE column is
violated, and in `Fail` a statement or the commit fails with the database. The
wanted rows are unique among themselves, because the only caller, `ReplaceAll`,
validates them first, as the comment at `D/db/db.go:785` demands.
`ClientService` uses only the outcome (`ReplaceCommits`); the run
`replace` checks that this outcome is the statements' outcome.

`AtomicReplace` is the abstract specification: `Commit` installs the wanted
table in one step, `Refuse` leaves it alone and needs a reason (a wanted row
takes a name or an address from a row that stays under another key), `Abandon`
leaves it alone because the database failed. The
refinement mapping sends every state before the end of the transaction to
`pending`; `ReplacesAtomically` is the abstract specification under it.

### Alerts, Poller, Dispatch

The evaluator stamps times and compares distances with the cooldown and the
sustain window; the model keeps the distances, cut off at their limit, so time
is unbounded and the state finite. CPU and disk readings are reduced to their
comparison with the threshold, byte counters are kept. `Tick(failed, elapsed)`
is one iteration of the sample loop in which the reads in `failed` fail. The
reads of one tick are one step: each condition depends on a single read.

`Poller` has the tick's alert path only; the rows the same tick writes are in
`Handshakes` and `Series`, whose state no alert reads. `Dispatch` adds the
channel: `Send` is the non-blocking select, `Receive`, `Deliver` and `GiveUp`
the worker, `Shutdown` what a restart abandons. What a delivery itself consists
of is `Notify`.

### Notify

A call is at a stage of `MultiNotifier.Notify` and `postJSON`: the next
transport, a request, the pause before a retry. `Answer` is what can come back,
including an answer that is lost after the receiver took the message and
Slack's 200 with `ok:false`. `handleSetWebhook`, `handleRevertWebhook` and
`handleTestWebhook` run at any time; `Cancel` is a browser that goes away or a
process that is told to stop. What operators set is validated; the seed, taken
from the environment, is not, so it may be malformed and fail every attempt.

### ProcSampler, Processes

Both hold their mutex over several reads while the kernel goes on, so the reads
are separate actions, and both difference against one prior sample that all
callers share. The histories (`moved`, `claimed`, `sincePrior`) are what really
happened. `Minus` is unsigned subtraction; `Width` is far larger than a
difference, as 2^64 is. Both let the kernel take back time it had counted as
waiting for I/O: in `Processes` the total of a walk may be that of the walk
before or lie below it.

### ServerInfo

Each request runs its reads as goroutines (`task`). The first that asks about
EC2 is inside `sync.Once` while the others wait; the verdict is kept for the
life of the process. `handleGetClientConfig` combines endpoint, key and VPC
range; it fails where no resolver can be derived from the range. `wgconfig.Build`
fails on an unsupported mode only, which `ParseMode` never yields.

### TimeSeries, Handshakes, Series

`collect` is split where it can be cut: reading, advancing the cache, and each
insert, every one of which may fail. A restart drops what was still to be
inserted: `main` closes the database without waiting for the poller
(`main.go:333`). Queries and handlers are operators over the tables, and the
properties are stated over the handlers' answers. Time is a wall clock that
does not step back.

### DeleteTokens

Names have keys, and any tool or the web page may change them at any time.
`fetchClientRow` and `Issue` are the two steps of a preview; `Verify`,
`DeleteList` and `DeleteRemove` those of a removal, the last two being the
dashboard's own unlocked check and locked delete. `stale` records the previews
whose name was given to another key after they were fetched.

## 3. Runs

| Run | Question | Result |
|---|---|---|
| `local` | local mode with failing helper, cancelled requests, failing inserts, crashes, reboots | `AddressSafety`, `LiveMatchesTable`, `AckedSurvives`, `RevokedStaysOut`, `DisabledStaysOut` hold |
| `cloud` | cloud mode, S3 reachable, helper failures, crashes, replaced instances | `LiveMatchesTable`, `AckedSurvives`, `RevokedStaysOut`, `BackupKeepsPeers` hold |
| `cloud_outage` | cloud mode with every fault | `LiveMatchesTable`, `WrittenOnlyAfterRead` hold, and a latched store comes back (`StoreHeals`) |
| `replace` | every table, every order of statements, a database that fails at any of them | `AllOrNothing`, `InsertsFit`, `OutcomeAgrees` and the refinement `ReplacesAtomically` hold |
| `alerts` | changing readings, traffic, counter resets, peers removed and added back, failing reads, restarts | `LogAgrees`, `CPUSustained`, `TransferAlertEarned` hold |
| `alerts_told` | full channel, failing deliveries, restarts | `LastingAlertTold` holds |
| `server` | the other stateful parts, one per behaviour | `Accounted`, `OneTarget` (delivery); `BytesReportedOnce`, `CPUShareEarned` (sampler); `CreditEarned` (process table); `OneVerdict`, `ConfigTruthful`, `NobodyStranded` (server information); `HandshakesKept`, `ViewsAgree`, `SessionsFaithful` (handshakes); `RatesEarned`, `ChartComplete` (charts) hold |
| `mcp_delete` | concurrent tool calls, other users, failing requests, restarts, an advancing clock | `ConsentedRemoval`, `OneRemovalPerPreview`, `ShownPeerRemoved`, `LatestPreviewWins` hold |
| `admin_resurrected` | does removing the last client last? | `AdminNotResurrected` violated: an empty table is seeded again |
| `acked_lost` | does an acknowledged client survive an outage? | violated: the boot restore drops it |
| `backup_overwritten` | is an unread backup safe? | violated: the heal probe re-arms the latch without using what it read |
| `false_recovery` | is a recovery real? | `RecoveryIsReal` violated: an unread value is evaluated as zero |

The violated properties are statements of a comment or a document of the
repository; `PROJECT.json` quotes each one.

`MCServer` puts the parts that share no state beside each other: `part` is
chosen initially, and only that part moves. So one run covers them all, and its
states are the sum and not the product of the parts.

Consequences of the code that are visible in the models and have no run of
their own:

- Two kept peers that trade names or addresses make `ReplaceTx` roll back in
  every order (the comment at `D/db/db.go:795` suggests that such a swap
  succeeds).
- A boot that finds the store empty saves a non-empty table and returns without
  applying it (`D/clients/service.go:614`): a change whose apply a crash cut
  short stays out of the interface until the next mutation. `HealStore` ends
  with `healed`, and `LiveMatchesTable` speaks of `ok`.
- A low CPU sample on a tick whose systemd read failed does not end the high
  run (`Skip`); the transfer alert of a removed peer stays active until the
  process restarts; a peer outside the install-time manifest has no transfer
  alert at all (`Samples`), no chart at `/api/metrics/client` and no place on
  the map.
- A first EC2 probe that fails for a passing reason decides for the whole
  process (`ServerInfo`, `probeFailed`), and a configuration downloaded while
  the VPC range cannot be read lacks the VPC's route and resolver.
- A delete token follows a name, not a peer: `mcp/internal/tools/tokens.go:43`
  says that a rename invalidates it, but `Verify` never looks the peer up, and
  a name that was given away meanwhile is removed with its new key. This is the
  exemption in `ShownPeerRemoved`.
- Delivery cannot be switched off at runtime as `D/notify/webhookconfig.go`
  says: `handleSetWebhook` rejects an empty URL.
- A handshake whose insert failed is lost for this process, because the cache
  has already advanced (`lost` in `HandshakesKept`); a failed prune also skips
  the hour's store recheck.
- A cold start saves the manifest to S3 before it seeds the table
  (`D/clients/service.go:647`). If an insert of the seed then fails, the box
  runs with part of the manifest, and the first mutation whose heal probe
  succeeds overwrites the full backup with that part. The same happens when
  S3 stored the manifest and only the answer was lost (`BootSaveFails`): the
  table is then not seeded at all. Hence the exclusion of failing inserts and
  lost answers in `BackupLosesNothing`.
- The comments on `maxRange` (25 h) and on the 30-day window of the Events tab
  do not match the retention of 8 days and 1 hour.

### Bounds

- `MCClientService`: two names, two keys, a /30 with the server inside. One
  address can be allocated, overrides reach the network and broadcast address,
  a second client makes every kind of conflict possible, and one manifest entry
  makes the seed matter. `MaxMutations` limits committed requests and
  `MaxEvents` faults. Four mutations allow add, rotate, delete and re-add
  around a fault; a fault in the middle of a boot that recovers from another
  fault needs two events. `cloud_outage` trades two mutations for a third
  event, because an outage takes two (S3 goes and returns).
- `MCReplaceTx`: three keys, names and addresses, every pair of tables: a swap
  beside a third row and a chain of three.
- `MCPoller`: one manifest client, cooldown and sustain of two time units, one
  or two units between ticks. Machines of different keys do not interact except
  in the ring, whose cap is two. Counters go to two with a cap of one, so a
  reset can be noticed, missed, or hidden by a baseline above zero.
- `MCDispatch`: a channel of two and two host alerts, ring of length zero (the
  view is checked in `alerts`). The channel has room for every alert at once,
  as the code's 64 slots have in practice; with fewer slots than alerts, two
  reminders in step can keep one of them out for ever.
- `MCServer`: two URLs and two attempts (a retry can meet another URL); two
  callers of the sampler, three clock values; two PIDs and one row
  shown, a total that may go back by one; two
  requests with two EC2 reads each; two peers, one of them a client of the
  table and of the manifest, the other doing one handshake at most (`Quiet`);
  a retention of two and a clock of four, so rows expire and windows of both
  lengths are asked for.
- `MCDeleteTokens`: two names, keys, tokens and concurrent calls, a lifetime of
  one and a clock of two, so a token expires and a second preview overwrites
  the first. Names, keys, tokens and calls are symmetric.

### Fairness

- `cloud_outage`: weak fairness of the process's own steps and of the start
  (systemd starts the unit and restarts it on failure); strong fairness of
  `RecheckStore`, because the ticker's goroutine queues for a mutex that Go
  hands over in order to a waiter that has starved. The recheck is also skipped
  in an hour whose prune fails; the property assumes that pruning works.
- `alerts_told`: weak fairness of both goroutines; strong fairness of delivery
  per key, that is, the webhook does not fail for ever for one alert. The
  property itself says what else it needs: the channel empties again and again,
  and the host's state settles.

## 4. Proofs

`ClientServiceProofs` (any names, keys, subnet, manifest, faults, either mode):

- `TypeCorrect`: `TypeOK`.
- `AddressesSafe`: `AddressSafety`. The property is almost inductive: every set
  of peers is `Peers` of a table that was unique when it was staged; the
  strengthening adds the manifest and uses that `Peers` and `Entries` of a
  unique table are unique.
- `LiveMatches`: `LiveMatchesTable`, from `LiveInv`, which follows the apply
  chain: between `Merge` and `Finish` the table does not change, so `conf`, then
  `kernel`, is what the table says.
- `StoreReadFirst`: `WrittenOnlyAfterRead`, from `LatchInv`: whenever the step
  that writes can be reached, this process has had an answer.
- `AckedSurvivesLocally`: `AckedSurvives` in local mode, from `AckInv`: an
  acknowledged key is in the table at every step, the boot included, because
  Seed leaves a non-empty table alone.
- `DisabledOutLocally`: `DisabledStaysOut` in local mode, with any faults. From
  `DisabledInv`: the row of a disabled key, or of one being disabled, is switched
  off, so no rendering of the table has it; the file and the interface are only
  filled from such renderings, and `LiveMatches` says that they are free of the
  key when success is reported. In cloud mode a restore enables every peer, as
  `D/clients/service.go:347` says.
- `AckedSurvivesInCloud` and `BackupLosesNothing`: `AckedSurvives` and
  `BackupKeepsPeers` in cloud mode under `BackupDependable`: the store answers
  every call and the table's inserts succeed, while applies fail and the
  process crashes, the host reboots and instances are replaced at any step.
  Neither property is inductive. `CloudInv` adds why they hold: the backup has
  every acknowledged key at all times, because success is reported after the
  save; and the table covers the backup (`Covers`) except on a replaced
  instance, whose table is empty until the boot has restored it, which is never
  refused there. Each hypothesis is needed: with an outage the statements are
  false (`acked_lost`, `backup_overwritten`), a cancelled request loses its
  save, and a failing insert or a lost answer is the cold start described in
  section 3.
- `RevokedOut`: `RevokedStaysOut`, in local mode with any faults and in cloud
  mode when the store answers every call (`StoreDependable`: no outage, no
  cancelled call; lost answers of a boot, crashes, failing applies, reboots and
  rebuilds remain). From
  `OutInv`: a key is counted as revoked when the table, the file, the interface
  and the backup are all free of it, and each of the four is only ever filled
  from another one or from the manifest; until then the operation in progress
  keeps its removed keys out of the table. With an unreachable store a rebuild
  restores the old backup, so nothing is claimed for that case.

`ReplaceTxProofs` (any tables, any order):

- `ReplaceAllOrNothing`: `AllOrNothing`, from `TxInv`: after the deletes only
  wanted keys are left, after the updates only wanted rows, so the inserts
  complete exactly the wanted table (a unique table is determined by its keys).
- `InsertsNeverRefused`: `InsertsFit`.
- `ReplaceTypeCorrect`: `TypeOK`.
- `ReplaceRefines`: `ReplacesAtomically`. The initial states map to initial
  states; a statement is a stutter, the commit is `Commit` because `TxInv` makes
  the final view the wanted table, and a rollback is `Abandon` or `Refuse`, the
  latter because a refused statement can only be an update that meets a kept
  row. What makes it inductive is `Remaining`: the rows of the current loop are
  those done and those in `todo`.
- `OutcomeIsReplaceCommits`: `OutcomeAgrees`. `ReplaceTx` executes statements,
  `ReplaceCommits` speaks of a whole order of updates. `OrderInv` keeps the
  order along: there is a listing of the rows updated so far under which no
  update was refused and which leads to the current view; a refused update is
  the next entry of a listing that every completion extends
  (`ListingCompletes`).

`DeleteTokensProofs` (any names, keys, tokens, concurrent calls, lifetime):
`RemovalConsented`, `PreviewRemovesOnce`, `RemovesWhatWasShown` and
`LatestTokenWins`, from one invariant, `TokenInv`. Its parts follow a token's
life: the store holds only minted, unredeemed tokens (`StoreInv`); a removal
under way owns its token alone, because `Redeem` takes it from the store in the
same critical section (`RemoveInv`); and as long as nobody binds the name anew,
the peer a preview showed has its name or nobody has it (`MintInv`, `IssueInv`).

`HostProofs`:

- `NoByteReportedTwice` (any callers and bounds): `BytesReportedOnce` is not
  inductive; `BytesInv` adds that the bytes moved also cover what the sample in
  progress is about to report and what the next one may report on top, which is
  what makes a reset between the two reads harmless.
- `CPUShareIsTrue`: `CPUShareEarned`, from `BusyInv`: only busy time is sure to
  grow. If idle and iowait together went back, `MinusIs` says what the
  unsigned idle difference is: almost 2^64. Then either the total grew, the
  ratio exceeds one and the share is clamped to zero; or the total wrapped as
  well, and the busy jiffies are too small a part of it to be seen.
- `CreditsEarned` (any PIDs): `CreditEarned`, from `CreditInv`: the process
  that has a PID now has run no more than the table's entry for the PID plus
  what ran under that PID since the walk that wrote the entry began. A recycled
  PID starts at zero, which keeps the inequality.
- `VerdictIsOne`, `ConfigsTruthful` and `ProbeNeverAbandoned` (any number of
  requests, any EC2 reads), from `InfoInv`. A goroutine past the verdict is on
  the side the verdict sent it to (`TaskInv`), the verdict is true unless a
  probe failed (`VerdictInv`), and the `sync.Once` is running exactly while one
  goroutine is inside it (`ProbeInv`).

`NotifyProofs` (any URLs, transports and number of attempts):
`EveryTransportAccounted` and `MessageNotSplit`, from `NotifyInv`. Every
transport is still to be called, being called, or settled (`NoneForgotten`); the
webhook comes first and once (`WebhookFirst`); while a transport is called its
target does not change, and one URL at most has the message (`TargetInv`).

`PollerProofs` (any clients, cooldown, sustain time, cap, ring and failing
reads): `PollerTypes`, `ViewAndLogAgree`, `TransferAlertsEarned` and
`HighCPUSustained`, from `PollerInv`:

- `ViewInv`: the view is the evaluator's set of active alerts, and the ring
  agrees with it. A tick appends several events in key order and cuts the ring
  at its front; both keep the agreement because a tick has one event per key at
  most.
- `RunInv`: the high run is no longer than the time without a low reading.
- `EarnedInv`: what a counter shows above its baseline was moved since the
  first sample, up to the cap. It is what a counter reset the poller does not
  notice must not break.

`DispatchKeepsAlerts` carries the invariant to the composition with the channel
and the worker, and bounds the channel.

`TimeSeriesProofs` (any peers, retention, windows, clock):

- `ChartedBytesCarried`: `RatesEarned`. `EarnedInv` says that of two rows of a
  key the later one has carried no less and lost no less to resets; the growth a
  chart credits between neighbours is then at most the bytes between them, and
  totals and p95 follow by induction along the rows.
- `CommittedRowsCharted`: `ChartComplete`, from `CommittedInv`: a committed row
  that some window still covers is in its table, alone with its key and second.
- `NothingNotedIsLost`: `HandshakesKept`; `PagesAgree`: `ViewsAgree`;
  `SessionsAreReal`: `SessionsFaithful`, all from `HandshakesInv`. Only what
  happened is written, noted or shown (`RealInv`), and what the cache has is a
  row, about to become one, lost by a failed insert, or expired with everything
  older (`KeptInv`). The pages' sorted and cut lists are handled by
  `AscendingEnumerates` and `CutIsFull` of `SortingProofs`: a list cut at its
  limit is full or has every row. For sessions, `StartsAt` says what
  `history.Derive`'s loop computes at each handshake.

Induction over data (positions of a list, orders, loops of a recursive
function) goes through the least counterexample: lemma `Least` gives the
smallest member of the set of positions at which a claim fails, and the step
before it contradicts the failure.

Assumptions are the named ones of the modules, which TLC evaluates in their
runs. Those with content:

- `SeedAssumption`: the rendered manifest has no conflicts and does not use the
  server's address.
- `ProcAssumption`: `Width` exceeds the jiffy counts by two orders of magnitude,
  as 2^64 does for any uptime; the share of a wrapped total rounds to zero
  only then.
- `NotifyAssumption`: the placeholders for no URL and a malformed one are no
  URLs, and transports are not URLs.
- `PollerAssumption`: `KeyOrder` lists every key once, as the sort by key does.
- `TimeSeriesAssumption`: finitely many peers, and no page asks for more than
  the retention keeps; `HandshakesAssumption`: every window is at least the
  online threshold; `SeriesAssumption`: neither is the longest metrics window
  longer than the retention. All three hold of the constants in the code.

`AckedSurvivesLocally`, `DisabledOutLocally`, `AckedSurvivesInCloud`,
`BackupLosesNothing` and `RevokedOut` carry a hypothesis of their own, stated in the theorem. The
theorems of `Notify`, `ProcSampler`, `Processes`, `ServerInfo`, `Handshakes` and
`Series` are about the component's own specification; `server` checks the same
properties where the components run side by side.

Every invariant and every action property of the passing runs is stated by a
theorem. Only model-checked are the liveness properties `StoreHeals` and
`LastingAlertTold`, which need fairness and ENABLED.

## 5. Not modelled

- `D/wg`, `D/systemd`, `D/disk`, `D/netdev` are stateless parsers: the models
  that use them take a reading that may fail.
- `D/geoip` is a read-only lookup in an embedded database; the map takes the
  set of peers it can locate.
- Templates, routing, message texts, the metrics text format, the text of
  client configurations and QR codes are formatting.
- The read-only MCP tools forward one GET each and keep nothing.
- The installer beyond the sync helper, and Terraform, are provisioning.
- `ResolverForVPC` and `OverlaySubnet` are arithmetic on addresses without
  state; `ServerInfo` has only whether their inputs could be read.
- Wall-clock steps are in `ProcSampler` only. `Alerts` and `TimeSeries` assume
  that the clock does not go back, although `Evaluate` drops the monotonic
  reading with `now.UTC()`.
- A torn `wg0.conf` loses peers in the model, not its `[Interface]` block, which
  the helper derives from the file itself at the next merge.
- `handleGetMetrics` makes two queries that may see different tables; no
  property relates their answers.

## 6. What is left

1. An abstract registry of clients (what the operator was told) that
   `ClientService` implements while the store is reachable, proved from
   `CloudInv` and `OutInv`.
2. A bound on how much of an outage is lost: what `AckedSurvives` still
   guarantees between a store that went away and the next boot.
3. The theorems of the `server` parts for the composition in `MCServer`, which
   needs that a step of one part leaves the others alone.
