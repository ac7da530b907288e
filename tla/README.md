# Formal models of nff-core

TLA+ specifications of the parts of nff-core whose correctness depends on the
order of things: a device's updates and its session with the broker, the
services that roll updates out, deliver commands, enrol units and watch them,
the machinery of simulated devices, and the files of the command line tools
that several processes share. TLC checks them on small instances; TLAPS proves
every safety invariant that the runs check, for every value of the constants,
some under hypotheses that *What is proved* names. Line numbers
refer to the files under `src/`.

    tlc -workers 2 -config MCDevice.cfg MCDevice
    tlapm DeploymentProofs.tla

`PROJECT.json` lists the runs with their properties, the lines of code each
definition translates (`map`), the mutants that show each property can fail,
the hazards, the findings and the theorems.

## The system

nff-core lets a developer (or an agent) flash, watch and update a fleet of
microcontrollers. An update travels

    MCP tool / poller / supervisor -> OTA service -> fleet service -> broker -> device
    device -> ota_progress, ota_result -> fleet service -> webhooks of the OTA service

and a device becomes part of the fleet by

    operator -> batch and shared header -> flashed unit announces itself ->
    its owner accepts -> the fulfilment worker issues an identity -> rollover

| component | state it keeps | operations | what is hard | module |
|---|---|---|---|---|
| **Device SDK, update and probation** (`sdk-c/src/nff_ota.c`, `nff_core.c`, ports) | two image slots and the boot selection; five NVS keys; RAM (`g_nff`) | boot check, trial tick, commit, rollback, the `ota` command, the queued report | a reset between any two durable effects; the bootloader falling back; health that comes and goes | `DeviceOta`, `EmulatedOta` |
| **Device SDK, session and crash reports** (`nff_mqtt.c`, `nff_core.c`, `nff_crash.c`) | connection, back-off, parked commands, the panic dump | connect, loop, hooks after a connect, receive, check and report | the MQTT client's own task against the loop; a session that ends while the loop is elsewhere | `DeviceSession` |
| **Device SDK, authentication** (`nff_security.c`) | ring of 16 nonces, clock | verify_cmd | the ring wrapping inside the time window | ring in `FleetCommands` |
| **Device SDK, claiming and store** (`nff_claim.c`, `nff_store.c`) | NVS blobs, the claimed flag | announce, apply rollover, load | a reset between blobs | unit of `FleetEnrolment` |
| **Device SDK, heartbeat** (`nff_heartbeat.c`) | next beat | tick | the wrap of the clock | no |
| **OTA service, deployments** (`tools/deployments/ops.py`, `transitions.py`) | rows of `deployments` and `ota_jobs` | create, start, deliver, abort, resume, report, result, progress, recompute | every database call is an await; most writes do not look again | `Deployment` |
| **OTA service, background loop** (`supervisor.py`, `reaper.py`, `poller.py`) | none of its own | three periodic sweeps | they race each other, the webhooks and the tools | `Deployment` |
| **OTA service, webhooks and inventory** (`webhooks.py`, `tools/devices/ops.py`) | `devices` rows | ota-result, ota-progress, groups | late, lost and repeated results | webhooks in `Deployment` |
| **OTA service, fix jobs** (`source/`) | `fix_jobs`, revisions, artifacts | submit, claim, build, record, deploy, poll | a worker that dies, or that is slower than its job's patience; two releases of one version | `FixJobs` |
| **Fleet service, router and commands** (`broker/router.py`, `commands.py`) | one pending future and one redelivery entry per device | register, publish, resolve, redeliver | answers without a correlation id; QoS 0; reconnects | `FleetCommands` |
| **Fleet service, enrolment** (`control.py`, `enroll_worker.py`, `provisioning/`) | batches, enrolment rows, leaf files | provision, announce, accept, fulfil, claim | a failure or restart between any two steps of the roll-over | `FleetEnrolment` |
| **Fleet service, presence** (`registry.py`, `reaper.py`, `db.py`) | registry, device rows | heartbeat, will, reap | fire-and-forget writes | `FleetPresence` |
| **Mock fleet, device** (`nff-mock/device`) | a simulated NVS, staged code, a fault | boot, commands, update, crash, crash loop | what a new session knows of the last | `MockDevice` |
| **Mock fleet, controller** (`nff-mock/controller`) | what docker shows; leases and presence in memory | seed, delete, ping, sweep | seeds that race, an old listing, a restart | `MockController` |
| **CLI, self-update** (`nff/tools/updater.py`) | `update.lock`, staging, the binary, `update.json` | update, hook, swap | processes that race or die between renames | `Updater` |
| **CLI, learned repair procedures** (`nff/tools/policy.py`) | `policy.json`, a belief per server | observe, advise, clear | several servers over one file; advice from few observations | `BenchPolicy` |
| **platformio_rs, package store** (`package/manager.rs`) | a directory per package | install, detach, uninstall | no lock, no journal; a command cut short | `PackageStore` |
| **CLI** (other), **diagnosis**, **pentester**, **platformio_rs build**, **QEMU supervisor**, **on-chip debugging** | none that outlives a call, or test equipment | | see *Not modelled* | no |

What makes each modelled component correct:

* *Update and probation.* The device always has an image to start; a new image
  is on trial until it commits or rolls back, and one of the two happens; what
  the device reports is what happened; after a trial it runs a confirmed image.
* *Session.* A device that is connected hears commands; a parked command is the
  one that was received; a crash is reported before its dump is gone.
* *Deployments.* No device is sent a command before its wave; a wave is released
  only after the earlier ones came through; an outcome is taken up by nobody, and
  final once who held the job before it is through; `success` means
  the device committed that version; a device is in one update at a time; a
  rollout ends, and the agent is told once.
* *Fix jobs.* A fix ships once, and ships its own source; `done` means deployed;
  the agent is told what happened, and is told.
* *Commands.* A caller gets an answer of its own command (or of an earlier one of
  the same device that had returned); a device runs a command once per boot.
* *Enrolment.* A claimed unit holds the identity the service has on disk, whole; an
  accepted unit in reach becomes claimed.
* *Presence.* A row says what the registry says; a silent member ends up offline.
* *Mocks.* The reaper kills no mock whose lease it holds; concurrent seeds do not
  pass the cap; what is forgotten goes away, certificate included.
* *Self-update.* There is a runnable binary at the install path; nothing older is
  put over something newer; one update at a time; an update is announced.
* *Learned procedures.* Nothing is counted that did not happen, little is lost, and
  advice rests on `min_support` observations.
* *Package store.* A whole package that was there, or was asked for, is there at the
  end; what answers as installed is whole.

## Modules

    FirmwareTrial            what an update promises           (abstract)
      ^ refined by
    DeviceOta                one device, its flash, NVS and RAM
      <- EmulatedOta         the same device under the emulator
    DeviceSession, BenchPolicy
      DeviceOta, DeviceSession, BenchPolicy        <- MCDevice (MCDeviceOta)

    Rollout                  what a phased rollout promises    (abstract)
      ^ refined by, once per deployment
    Deployment               the OTA service, its callers, devices as their outcomes
                                                   <- MCDeployment
    FleetCommands, FleetEnrolment, FleetPresence, MockDevice
    FixJobs, MockController
      all six                                      <- MCFleet
    Updater, PackageStore
      EmulatedOta, Updater, FixJobs, MockController, PackageStore  <- MCCutShort

and the theorems, each module beside what it is about:

    DeviceProofs             DeviceOta, FirmwareTrial, EmulatedOta, DeviceSession
    DeploymentProofs         Deployment: types, what holds each row, the wave bound
      <- DeploymentOutcomeProofs   outcomes of jobs and deployments, Rollout
    FleetProofs              FleetCommands, FleetEnrolment, FleetPresence
    MockFleetProofs          MockDevice, MockController
    FixJobsProofs            FixJobs
    CliProofs                Updater, PackageStore
    BenchPolicyProofs        BenchPolicy

Modules that share a run share no state: a variable `subject` says which one a
behaviour is about, the others rest. The run then explores the sum of their
states, not the product, and each property speaks of its own module. Where two
components do interact the interaction is inside a module: `FleetCommands` has
the callers, the router, the broker and the boards, `FleetEnrolment` the operator,
the worker, the router and the units, `Deployment` the service, fleet's
forwarding and the devices, `FixJobs` the agents, the workers and the two stores.

### DeviceOta

State is grouped by what a reset does to it: `flash` (slots, boot selection,
images marked valid) and `nvs` (`ota_trial`, `ota_version`, `ota_boot_count`,
`ota_pending`, `fw_adopted`) survive, `ram` does not. The control point `pc`
lies between every two effects that outlive a reset, so an action is one NVS
write, one slot or boot-selection change, or one published result; `Reset` can
strike at the control points `ResetPoints`. NVS promises no more than that a
prefix of the writes survives, and no other durable effect lies between a
`set` and its `commit`, so a key and its commit are one action.

| code | actions |
|---|---|
| bootloader, `nff_init` | `Boot` (the bootloader may start the other slot if the selected one was never marked valid), `LoadPending`, `ErasePending`, `EraseVersion` |
| `nff_ota_boot_check` | `BootCheckNoTrial`, `BootCheckFallback` + `QueueFallback`, `BootCheckArm`, `BootCheckCrashLoop` |
| `nff_ota_rollback` | `QueueRollback`, `Revert` |
| `nff_connect`, MQTT callbacks | `Connect`, `Reconnect`, `Disconnect`, with `FlushPending` |
| `nff_ota_trial_tick` | `Elapse`, `TickHealthy`, `TickUnhealthy` |
| `nff_ota_commit` | `CommitMarkValid` ... `CommitEraseBootCount` |
| `nff_ota_handle_cmd` | `ReceiveCommand`, `RefuseCommand`, `BeginDownload`, `DownloadFails`, `DownloadVerified`, `Finish`, `RecordTrial`, `RecordVersion`, `RecordBootCount`, `Reboot`; under emulation `SimulatedAdopt` |

The transfer itself (range requests, resume, hash) is one choice: it succeeds
or fails. An image is named by its version. `EmulatedOta` is the same device as
`nff-qemu-esp32`, which has one image and adopts a version in place
(`SimulatedAdopt` instead of an installation). `AdoptedConfig` is the
configuration loader of the emulated firmware (`nvs_creds.c`), which reads
`fw_adopted` back at boot.

`FirmwareTrial` says what an update is, with a trusted image, at most one
candidate and one outcome per command. `KeepsPromise` maps the device onto it:
a trial is decided when its outcome is published (commit) or first queued
(rollback), which is before its record is erased.

### Deployment

Each handler is a sequence of atomic database calls; what a handler has read
stays in its own variable until the write that depends on it.

| code | variables and actions |
|---|---|
| `deployments`, `ota_jobs`, `devices` rows | `status phase reason override soaked`, `job wave age`, `recorded` |
| `create_deployment` | `Init` (row inserted, `creating`), `CreateJobs`, `CreateFails` |
| `poll_once`, `_materialize_jobs` | `PollerPick`, `Materialize` |
| `start_deployment` | `StarterPick`, `ReadRow`, `Activate` |
| supervisor | `SupervisorPick`, `Decide`, `Halt`, `Advance` |
| `_deliver_wave`, `_deliver_one` | `Select`, `SelectNothing`, `Dispatch`, `FleetDelivers`, `FleetAnswers`, `FleetFails`, `EndDelivery` |
| device, fleet's forward | `DeviceCommits`, `DeviceRollsBack`, `DeviceSilent`, `LoseReport` |
| `finalize_ota_result`, `record_ota_progress`, `report_device_status`, `_apply_job_status` | `ReceiveResult`, `ReceiveProgress`, `ReportStatus`, then `ApplyWrite` |
| `_recompute_deployment_status` | `RecomputeRead`, then the compare-and-swap `RecomputeSwap` |
| reaper | `ReaperSelect`, `ReaperWrite` |
| abort, resume tools | `ToolRead`, then `AbortStatus`, `AbortJobs` or `Resume` |
| dashboard (outside the repository) | `DashboardOverride` |
| time | `SoakElapses`, `JobAges` |

What a device does between the command and its report is `DeviceOta`; here it
is one of `DeviceCommits`, `DeviceRollsBack` and `DeviceSilent`.

`Rollout` is the abstract rollout of one version: an outcome per device, decided
once, and a front that is promoted only past a settled, healthy cohort.
`KeepsRollout` shows that every deployment implements it when deliveries do not
overlap. It is stated as `Init` and the box of its next-state relation, for each
deployment, because a temporal formula of an instance cannot be quantified over.

Abstractions, and what they leave out:

* a deployment is identified with the version it ships;
* time is two ages of a job (past the download timeout, past the rate limit)
  and the end of a soak; a fleet call ends (120 s) before its job is old enough
  to reap (600 s), which is how `JobAges` reads the defaults of `config.py`;
* wave arithmetic is exact, the code's is in floats (see Divergences);
* phases ascend strictly and end with 100, which models/deployment.py:43-52 validates;
* the supervisor reads all active rows in one query; the model reads each when
  its turn comes, one behaviour less stale;
* a signed URL that cannot be made is `SelectNothing`, so `Fairness` asks strong
  fairness of `Select`;
* devices without a `project_id` are never part of a deployment here;
* a stop of the service between two calls is not modelled.

### DeviceSession

A device that has been claimed, from boot on: the loop of the nff task is at a
`place`, the MQTT client beside it is external. On the port "events" (ESP-IDF)
the client has a task of its own and may connect, fail or lose its session at
any `place`; on "polled" (Arduino) it moves only where the loop calls it.

| code | actions |
|---|---|
| `nff_connect`, `nff_mqtt_init`, `nff_mqtt_tick` | `StartConnect`, `FirstConnect`, `CheckFirst`, `Look`, `Retry`, `WaitEnds`, `SubscribeAgain` |
| `after_connect`, `nff_crash_check_and_report` | `CheckCrash`, `PublishCrash`, `EraseCrash`, `Stand` |
| the receive callback, `nff_ota_pending_tick` | `ReceiveOrder`, `PendingTick`, `DownloadEnds`, `Unpark` |
| MQTT client, broker (external) | `ClientConnects`, `ClientFails`, `SessionDrops`, `BrokerAcks` |
| time, power | `BackOffPasses`, `Resets`, `Panics` |

`missed` marks a session that came up where the loop does not look for one: such
a session is never subscribed, and the properties say that it is the only way
to be connected and deaf. What becomes of the last crash is kept in `arrived`,
`reported`, `lostReport`, `tornErase`.

### FleetCommands

`send_command` is a sequence of steps around awaits (`LogCommand`, `Register`,
`PublishCommand`, `CallReturns`), the router one loop over its queue
(`HandleMessage`, with `ResolveResponse` and `MaybeRedeliver`) that may lose its
connection (`RouterLoses`, `RouterReconnects`), and a board connects, subscribes,
beats, drops, crashes and runs what it receives (`RunCommand`, `RunReboot`,
`RejectReplay`). The broker's QoS 0 delivery is two queues per link; a message to
a link that is not subscribed is dropped. A nonce is the name of the call; the
ring of the device remembers `RingSize` of them and is empty after a reset.

### MockDevice

The simulated board of nff-mock, one MQTT session after another: `Boot`,
`AnnounceOnline`, `CheckAndReport` and `CheckPendingResult` begin a session;
`HandleOta`, `DownloadFails`, `Stage`, `CrashCommand`, `OtherCommand`, `Recrash` and
`RandomCrash` happen in it; `LoseSession` and `LoseResult` end it. Code is a record
of the version it adopted and whether its sketch declares a fault.

### FleetEnrolment

Onboarding (`LookUpBatch`, `CreateBatch`, `IssueBatchCert`, `ReuseBatch`), the units
(`Flash`, `ConnectUnit`, `BeatClaimed`, `ApplyRollover`, `RefuseRollover`), the router
(`RouteEnrolment`, with `RecordEnrolment` and `ClaimByPresence`) and the fulfilment
worker step by await (`Reconcile`, `Fetch`, `IssueIdentity`, `ProvisionRow`,
`PublishRollover`, `AwaitAck`, `MarkRow`). Any call in `FailingCalls` may raise;
`FleetRestarts` forgets the futures and keeps the rows and files, a file that was
being written as half a file.

### FleetPresence

A member beats or falls silent (its will may or may not reach the router), the
router updates the registry and starts one fire-and-forget task per row write
(`StartWrite`, `FinishWrite`, `LoseWrite`), the reaper marks the overdue (`Reap`).
`doubt` marks a row whose last writes were lost or may overtake each other.

### FixJobs

An agent's `submit_firmware_fix` (`ReadLatest`, `LookForRevision`, `InsertBaseline`,
`Reread`, `Enqueue`), its `Poll`, and the workers: `SelectStale`, `ReclaimAndProbe`,
`Claim`, `CompileOrReuse`, `Upload`, `RecordRevision`, `Deploy`, `BuildFails`,
`FinishJob`, `WorkerStops`; `RunsLate` is a job's patience running out under a worker.
The two build paths (compiled for an emulator, recorded as source) put the upload
on different sides of the record. An artifact is what it was built from; which
identity it is uploaded under was chosen before the compiler ran (`UploadStep`).

### MockController

Calls of `POST /mocks` (`Decided` under the project's lock, `ProvisionMock`, `RunMock`,
`Undo`), `Delete`, `Renew`, `Ping`, and the reaper's sweep split at each docker call
(`SweepLists`, `Prune`, `Walk`, `SweepOver`, `SweepKills`, `SweepStuck`, `SweepCerts`).
State is what docker shows (`box`, `home`, `labelOver`, `certs`); `lease` and `online`
are memory and go with a restart. `docker run` may be given up and its container
appear later (`StartsLate`).

### Updater

The standalone channel of `nff update`: every file operation that another process
can come between is an action, from `TakeLock` over `Peek`, `CheckLatest`, `OpenPartial`,
`ReceiveBinary`, `StageBinary`, `CopyStaged` to the swap (`Replace` on POSIX, `MoveAside`,
`PutNew`, `RollBack` on Windows), the loads and saves of `update.json`, and the hook
after a command (`ShowNotices`, `SaveNotices`, `SpawnBackground`). `Dies` at any of
them. A file is a version, half a binary, or nothing.

### BenchPolicy

Every call of a tool is recorded as an edge from the fault believed before to the
one believed after (`Observe`, `OpenTmp`, `WriteTmp`, `ReplacePolicy` or `ReplaceFails`,
`BreaksOff`); `Advise` answers with a way back that the graph supports; `ClearGraph` is
the CLI's. `Tries`, `WayBack`, `Cheapest`, `Likeliest` and `Paths` are the planner's:
value iteration with costs left free gives every proper choice of actions, so
`Ways` holds all that some costs make the cheapest. A file is what it `is` (absent,
emptied, garbled or text) and the graph `load_graph` finds in it. One board. A rename replaces the
file others hold open (POSIX), or fails while they do (Windows).

### PackageStore

The packages of one name, on a shelf of directories: `Run` a command, `LookToInstall`,
`Fetch` and `Retry`, `Place` (upgrade, detach the old one, or detach oneself), then one
action per file removed, made or copied (`RemoveFile`, `RemoveDir`, `MakeDir`,
`CopyOpens`, `CopyCloses`), `Placed`; `LookToUninstall`, `Removed`, `Fix`. `IoFails` and
`Killed` stop a command at any file. A directory holds its `.piopm` (whole, torn or
none), parts of packages, and whether it is complete.

## Runs

Every property has a mutant of the code that TLC catches under the run's own
configuration. A property named `...Sound` is the conjunction of the named
invariants above it in its module.

| run | module | subjects, instance | what it shows |
|---|---|---|---|
| `ota_safe` | `MCDevice` | *update*: 3 versions, 3 trial boots, resets at `SafePoints`; *session*: both ports, 2 orders; *bench*: one server with a history, or two | results are truthful, `fw_adopted` and the boot selection agree with what runs, the device implements `FirmwareTrial`, every trial ends; a connected device hears, parked commands and crash reports are kept; the learned graph and its advice |
| `cut_short` | `MCCutShort` | *board*, *emulated board*: 2 versions, resets anywhere; *nff*: 2 updaters and a shell; *fixes*: 2 calls or 2 workers; *mocks*: 3 ids, 2 callers; *packages*: 4 commands in one terminal, or 2 in two | what survives a program stopped anywhere: types, never bricked, the inductive invariant, no slot written during a trial, no older version reported under emulation; `UpdaterSound`, `FixJobsSound`, `MocksSound`, `StoreSound` |
| `ota_lost_report` | `MCDeviceOta` | 2 versions, `SafePoints` | **violated**: a queued outcome can be lost (finding) |
| `rollout_phased` | `MCDeployment` | up to 3 devices, canary 34 % then all, resume | later waves wait for the canary, `finished` means done, `Rollout` implemented |
| `rollout_single_shot` | `MCDeployment` | 2 deployments, 1 device, created concurrently, override | types, status follows the table, one notification |
| `rollout_rate_limit` | `MCDeployment` | 2 deployments, 1 device, poller and forced starts, ages to the rate limit | one update at a time unless someone bypassed the limit |
| `rollout_races` | `MCDeployment` | 2 devices, overlapping start and supervisor, one session of abort, lost acknowledgements; no ticks, no ageing | the wave bound with its inductive invariant, real successes, and that only who held a job before its outcome overwrites it |
| `rollout_late_writers` | `MCDeployment` | 1 device, the poller, the reaper, results, progress ticks and manual reports, two at once, lost acknowledgements | nobody takes up a job that has its outcome, except to retry it |
| `rollout_ends` | `MCDeployment` | 2 devices, lost acknowledgements and reports, fairness | the rollout ends or reaches an operator though no device ever answers |
| `rollout_empty_canary` | `MCDeployment` | 2 devices, phases 5/25/100 | **violated**: an active rollout that never starts (finding) |
| `rollout_misattributed` | `MCDeployment` | 2 deployments, 1 device, ages | **violated**: a late result finishes another deployment's job (finding) |
| `fleet_bench` | `MCFleet` | *commands*: 2 calls, 1 board that announces before it subscribes; *mock*: 3 versions, 2 crashes, 3 updates; *enrolment*: 1 unit, 2 batches, one failing call; *presence*: 1 member; *fixes*: 1 call, 2 workers; *mocks*: 1 mock, 1 caller | `OncePerBoot`, `CallsSound`, `MockSound`, `EnrolmentSound`, `PresenceSound`, and that commands land, accepted units are claimed, silent members go offline, fix jobs end and mocks go, each under its fairness |

### Bounds

A device has two slots, so three versions give one that is trusted, one that is
on trial and one still to come, and every order between them. `MaxTrialBoots` is
the code's own value 3 in `ota_safe`, and 2 in `cut_short`, whose claims about the
board are proved for any. `Soak` 1 and `Deadline` 2 let health be lost before, at and
after each limit. In a deployment a canary of one device and a wave after it is
the smallest rollout with a gate; two deployments and a device are the smallest
competition for a device. `MaxWrites` bounds the webhook handlers at once: two in
`rollout_late_writers`, the smallest race among them, one elsewhere, where the
races are of a handler with deliveries, sweeps or the one tool session that
`Callers` allows. `MaxInFlight` 1 with two
devices makes the semaphore bind. Symmetry is used
between the two deployments of `rollout_rate_limit` and the two updaters of
`cut_short`, which no action tells apart, and neither run checks liveness; devices
are not symmetric, as waves depend on the order of their ids.

Elsewhere a bound is a number of things from outside: drops, failures, restarts,
deaths, breaks. One of each kind is the smallest that separates what a
component repairs from what it merely survives; where two matter (a second
crash in a crash loop, a member that falls silent twice, a device that is sent
a second update while it reports the first) there are two or three. In
`MCCutShort` and `MCDevice` the cases named `...Cases` split a large instance: a
fault and a race are explored one at a time where both at once would take
hours (a cut short command in one terminal, or two terminals that nothing
cuts short). A fault *within* a race is therefore not covered for packages
and for the bench. `RingSize` 2 stands for 16, which is more than the
commands of a run either way. `MaxAttempts`, `ProjectCap`, `TotalCap` and `Mirrors` are 2 (1
where there is one mock), the smallest at which a second try differs from a last.
`MinSupport` 2 with a history of counts 1 and 2 puts edges on both sides of it.

`CHECK_DEADLOCK FALSE` is stated for the service and for `MCFleet` because both may
stop: when all deployments, calls or fixes are over nothing has to happen. A
device never stops and is checked for deadlock; the other subjects of `MCDevice` and
`MCCutShort` may come to rest, which their next-state relations say with an
`UNCHANGED` step of their own.

### Safe points

`SafePoints` are the control points where a reset costs no more than the work
in hand. The eleven others lie inside a change of two durable places that
belong together. The runs that claim truthful reports are stated for
`SafePoints` and those claims are **false** beyond them (see Divergences);
what holds wherever a reset strikes is in `cut_short`, and is proved.

### Fairness

Every assumption is about the code's own loops or about time, none about people,
networks or hardware, except where a device is said to be in reach.

* *Device*: the loop task runs forever (`nff_task_fn`), so its steps are weakly
  fair, and time passes. Nothing makes the broker reachable, a command arrive or
  the image healthy. `TrialEnds` holds unless the device is reset forever,
  `SessionHears` for the sessions the loop could see begin.
* *Service*: `background._run` sweeps again and again, and a handler that runs is
  not suspended for good: weak fairness for handlers. A sweep that may find its
  delivery slot taken gets it eventually: strong fairness for the picks. Nothing
  is asked of devices, their reports, or a person; `RolloutEnds` rests on the
  reaper alone, and excludes the empty first wave, which never ends.
* *Commands*: the event loop resumes a call that can go on, the router handles what
  it has and reconnects (it retries forever), and a board that is in reach
  connects, reads and goes on beating. That it beats in spite of its drops is
  strong fairness of the one beat the router hears. `CommandLands` promises
  nothing to a caller that stopped waiting.
* *Enrolment*: the worker's loop sleeps and sweeps again, its grace period for an
  accepted row ends (strong fairness of the sweep that finds one), the router
  reads, and a unit in reach connects, beats and applies the rollover it receives.
  Failures are bounded, as a database that always fails enrols nobody.
* *Presence*: the reaper sweeps, `Overdue` is time passing, tasks end, the router
  reconnects. Nothing says that a will is published.
* *Fix jobs*: `WF(WorkerStep(w))`, each worker's loop runs until it dies, and
  `WF(RunsLate(f))`, time passes over a job whose worker died. A later worker is
  assumed only if it is there in the beginning.
* *Mocks*: `WF(SweepStep)`, the reaper's loop. Everything else (a container that
  starts late, a lease that runs out) may never happen.

## Findings

Each is a run of its own, with the quoted line of the repository.

* `ota_lost_report`: `nff_init` erases `ota_pending` when it has copied the result
  to RAM, before any connection; a reset while offline loses the report.
* `rollout_empty_canary`: a first wave that rounds to no device waits forever.
* `rollout_misattributed`: when the reported version's job is over,
  `_find_active_job` falls back to any other active job of the device.

### Divergences observed, not kept as runs

TLC produced a trace for each of these while the models were built, unless it says
"not modelled"; the number of runs kept beside the code is small, so they are
listed rather than run. To see one again, widen the constant or drop the exception
named: a property that is said to except something was refuted without it.

Deployments (constants `Overlap`, `Operations`, `AcksLost`, `Threshold`, `MaxAge`):

* two overlapping deliveries select the same pending job; the second overwrites
  the outcome of the first with `downloading` (ops.py:754). `OutcomeStays` allows for
  this and for the next three items: it says that only who held the job before its
  outcome can do it, so that the outcome is final after them;
* a progress tick validated before a result is written after it (ops.py:1045);
* the reaper, which is to time out jobs "stuck in a non-terminal in-flight state"
  (reaper.py:29), writes `timed_out` by id over a result that arrived since it selected
  the job (reaper.py:52), while the device's row keeps the version it committed; with
  ages and progress together, a late tick revives a job that timed out, and
  `OneUpdateAtATime` fails;
* a fleet error after the command arrived writes `failure` over whatever the job
  is by then (ops.py:769);
* `start_deployment` re-activates a deployment aborted since it read the row
  (ops.py:636); the supervisor's halt turns `finished` into `paused` (supervisor.py:88);
  abort turns it into `aborted`; two aborts both notify the agent (ops.py:470).
  So `StatusTransitions` and `NotifiedOnce` are claimed without those tools only.
  `StatusTransitions` is not claimed over ageing either: a late, misattributed
  result, or a manual report, can finish a scheduled deployment that never started;
* a manual report is a person's claim: with "report" among the operations
  `SuccessMeansInstalled` fails, so `rollout_late_writers` does not claim it;
* a resumed rollout is halted again by the failures that halted it (supervisor.py:82);
* `failure_threshold` 0 is falsy and replaced by the default (supervisor.py:47): the
  model's `EffectiveThreshold` is the code's, not the row's;
* two deliveries under `Overlap` put one device in two updates (ops.py:716), and
  `max_devices_in_flight` bounds each delivery, not the deployment (ops.py:721);
* with `WireVersions` FALSE (a connector's artifact, whose catalog version is not the
  version the device reports, ops.py:907-912) every result takes the fallback to the
  latest open job, and two open deployments of a device suffice for a wrong
  `success`; the passing runs are stated for `WireVersions` TRUE;
* not modelled: floats, device 7 of 25 covers 28.000000000000004 %, so a 28 % phase
  takes six devices (ops.py:68); a device without `project_id` is skipped and its job
  stays pending, so the deployment never finishes (ops.py:739); an insert of the jobs
  that fails after the deployment's row is active (ops.py:170).

Updates on the device (constant `ResetPoints`; each by adding the named points to it):

* `tr_trial`: the new image is selected but not on trial, is never reported and
  never rolled back (`SettledOnConfirmed` fails); `tr_version`: its trial is
  reported under no version (`ResultsTruthful` fails);
* `fb_pending`, `fb_version`, `fb_trial`: the boot selection is repaired first, so
  the old image serves the trial of the image that never booted, and commits it
  (`ResultsTruthful` fails);
* `rb_version`, `rb_trial`: a rollback is queued, the trial resumes and may commit;
  `rb_boots`, `revert`: the rejected image boots again off probation and reports
  its own rollback (`ResultsTruthful` fails);
* `cm_adopt`, `cm_trial`: a committed image is on trial again and may yet be rolled
  back (after `cm_trial` `AdoptedNamesRunning` fails too);
* an `ota` for the running version is accepted, PROTOCOL.md:260 asks for a newer
  one: the candidate of `FirmwareTrial` may equal the trusted version;
* a session that comes up after `nff_mqtt_init` returned does not mark the image
  valid, PROTOCOL.md:338 says any connected boot does;
* with `AdoptedConfig`, RAM keeps the version of the boot until the next boot, so
  after a commit a downgrade to a version in between is accepted.

Session of the device (`missed`, `lostReport`, `tornErase` and `told` name the exceptions):

* on the IDF port the client reconnects by itself; a session that drops and comes
  back while the loop downloads, runs hooks or is between two checks is connected
  and never subscribed (nff_mqtt.c:26-28, 115);
* after a panic the reset reason stays for the whole boot, so every reconnect reports
  the crash again, with an empty detail once the dump is erased; the empty report
  replaces the retained one and inserts another row (nff_crash.c:276, fleet db.py:398);
* a report with QoS 1 is lost with a client that a back-off destroys, or by a reset;
* not modelled: `now >= next` on unsigned milliseconds, in the heartbeat
  (nff_heartbeat.c:87) and the back-off (nff_mqtt.c:130), is not safe at the wrap.

Fleet service:

* commands with `Overlapping` TRUE: two callers for one device overwrite and pop each
  other's entries (commands.py:39), and a call may get the other's answer;
* enrolment with a second project in `HandProjects`: a hand provisioning between the
  worker's issue and its reading the files gives a unit the other project's identity;
* "presence" in `FailingCalls`: the claim by presence is tried once per online
  transition (router.py:168), `AcceptedGetsClaimed` fails until there is another;
* the batch row is active before its certificate exists (control.py:202): when that
  fails, every later onboarding reuses the batch and fails, until it expires;
* a row write that is lost or overtaken is repaired by the next beat only; a silent
  member has none (reaper.py:20-28). A member whose last beat said `error` does
  not count as online and is never reaped (registry.py:64).

Mock fleet:

* the crash-loop timer arms the fault again as if it had been injected while healthy
  code of the same version is installed (crash.py:54): the board then crashes with
  code that has no fault;
* the timer's reboot waits for a message: it sets a flag the session looks at after
  the next command only (device.py:298-301, 234-236);
* `check_pending_result` erases the NVS keys before it publishes (ota.py:196-205); a
  session that ends between loses the result;
* the reaper's sweep prunes the lease of a mock that its older listing does not name
  (presence.py:74); a failing `docker run` may leave a container that appears late
  (docker.py:169); a container that docker cannot remove ends every sweep at the same
  place (reaper.py:71); the total cap is checked under a lock per project, so two
  projects exceed it together.

Fix jobs: a compiled fix uploads, under the release's name, before it records
(realcompile.py:108-149), so one that loses the version has replaced what the
winner ships; the claim beside it that the baseline is read again does not cover
a version recorded between (baseline.py:133-134); the result of `start_deployment` is
not looked at, so `done` means created, and `shipped` records whether it started.

Command line tools:

* `update.json`: the hook and `--check` write back a copy loaded before the background
  updater wrote its own (updater.py:773), although updater.py:17-19 says there is no
  race; two processes that find the same stale lock both update (updater.py:363); on
  Windows a death between the two renames leaves no binary (updater.py:571);
* `policy.json`: two servers share `policy.json.tmp` and lose calls, leave a file that
  does not parse, or bring back a cleared graph (policy.py:169, 186); after crashes
  that took turns, a procedure that returns to the crash it starts from was advised
  as "observed to fix it in 2 prior run(s)", which running the code confirms: the
  support counts tries of a step (policy.py:258-280, 366-384), where
  config.py:65-67 speaks of prior fixes;
* packages: a retry after a cut loses the only whole copy of the old package
  (manager.rs:641-646); a `.piopm` cut short fails every listing, installation and
  uninstallation (manager.rs:365, meta.rs:556-560); a partial directory answers as
  installed for good (delegate.rs:146-165); two builds mix their files; the name
  of a detached directory has no owner in it (manager.rs:932-944).

On-chip debugging (debug.py) is not modelled; reading it showed: `halted` changes only
with pause, continue and start, so that after a breakpoint was hit reads are refused
with "target is running", where docs/DEBUG.md:7 says to hit a breakpoint or pause
first; `start()` calls `session_info` outside of its `try` (debug.py:373-389), so a GDB
timeout there leaves OpenOCD and GDB running with no session to stop; errors
answered to pause, continue and step are ignored; and a late answer is taken by the
next command (debug.py:325-341, 411-414).

## What is proved

All proofs are for every value of the constants under the named assumptions, and
are checked to the last leaf. Where a theorem asks for more than the assumptions,
it says so as `ASSUME ... PROVE`, and each such hypothesis is one that TLC refutes
the property without.

**DeviceProofs**, from `VersionsAssumption`, `TimingAssumption` and
`ModeAssumption`. The first theorems hold for any set `ResetPoints` of control
points, so wherever a reset strikes.

* `TypeCorrect`: `Spec => []TypeOK`.
* `ProbationHolds`: `Spec => [](TypeOK /\ ProbationInv)`. `NeverBricked` is not
  inductive: that the slot being written is not the one to go back to follows only
  from the RAM flag refusing a command, and that the RAM flag is right only from
  what each control point knows of the record. `ProbationInv` says that, one clause
  per phase: images intact, an install knows its target, a record implies two
  images, no record while installing, the record matches RAM.
* `DeviceNeverBricked`, `ProbationFlagAgrees`, `RecordFreezesSlots`: `NeverBricked`,
  `TrialAgrees`, `TrialKeepsSlots`, from `ProbationInv`.

The others ask for `SafeResets`, that `ResetPoints \subseteq SafePoints`; what a
reset at each of the other points does is listed above.

* `SafeHolds`: `Spec => []DeviceInv`. During a trial the slot last flashed is on trial
  and selected and the other is confirmed (`TrialSlots`); outside of one the device
  runs, and will boot, a confirmed image (`SettledSlot`); each control point was
  reached from a known slot (`WhoRuns`); a queued `rolled_back` names the image last
  flashed, which does not run (`Reporting`); `fw_adopted` names the image to fall
  back on (`Adopted`). No part is inductive alone: a rollback is truthful because
  of what runs, and what runs is known because of the trial it came from.
* `ResultsAreTruthful`, `SettledIsConfirmed`, `AdoptedIsRunning`: the three invariants
  of `ota_safe`.
* `PromiseKept`: `Spec => KeepsPromise`, the refinement of `FirmwareTrial`, action by
  action, with a stutter for every NVS write that is not the one that counts. It
  asks for `~AdoptedConfig` too: with the adopted version in RAM `fw` names what an
  earlier boot ran, not the image that runs.

And of `EmulatedOta`, with `AdoptedConfig`, as the emulated board is built:
`EmulatedNeverOlder`, it never reports an older version than it did, wherever it is
reset, from an invariant (`OneImage`): no trial, download or queued outcome ever
exists there, and what is reported is what was adopted last. `cut_short` checks the
same of its subject as `EmulatedVersionMonotone`.

And of `DeviceSession`, from `SessionAssumption`: `SessionIsSound`, on either port. That
a connected session is subscribed unless it came back unseen needs the points at
which the loop will look again (`Noticed`) and what the SDK believes at each of them
(`Connecting`); that a crash is reported needs where its dump may still be when the
report is made (`DumpRemains`).

**DeploymentProofs**, from `DeploymentAssumption`: any finite fleet, any ascending
phase table, any set of deployments, deliverers, callers, tools.

* `TypeCorrect`: `Spec => []TypeOK`, proved with `HoldersInv` (who holds a deployment
  knows it), part by part: each of `RowsOK`, `JobsOK`, ... has a lemma naming the
  actions that write it.
* `WaveInvariant`: `Spec => []WaveInv`.
* `WavesRespected`: `Spec => []CohortBound`, no device is sent a command before its
  wave is released.

`CohortBound` needs an argument about stale reads. A delivery selects with the
phase it has read; that phase may be behind the row but never ahead of it
(`PhaseKnown`), and rows only grow: a supervisor writes `s.phase + 1` where
`s.phase` is the row's, because nobody else writes it (`PhaseGrows`, `PhaseWriters`).
A task queued for a device keeps its wave, because a job's wave is written only
where there is no job (`JobsFresh`, `JobsExist`): `create_deployment` and
`_materialize_jobs` cannot both insert. The proof shows the bound needs neither
exclusive deliveries nor compare-and-swaps, although much else does.

**DeploymentOutcomeProofs**, for the same constants. One theorem has no hypothesis:

* `OutcomesAreFinal`: `Spec => OutcomeStays`, whatever overlaps, times out, is aborted,
  reported by hand or lost. Every way into a job reads its row first: a delivery
  selects what is pending (`TaskMoves`), the reaper what is in flight (`ReapingWriters`),
  a result or a tick what is not over, a report what the table allows (`DecidedOn`).
  And every write is by who came in (`JobMoves`), since an abort looks at the status
  again and jobs are inserted where there are none (`JobsFresh`).

The others are under hypotheses that say which of the service's races are absent:

| hypothesis | means | what the code does otherwise |
|---|---|---|
| `TakeTurns` | `~Overlap` | a second delivery overwrites an outcome with `downloading` (ops.py:754) |
| `ResultsOnly` | no "progress", no "report" | a tick is written over a result (ops.py:1045); a report is a person's claim |
| `Exact` | one deployment, or versions on the wire, no ages and no lost acknowledgement | a late result goes to the latest open job (ops.py:907-912) |
| `Steady` | all of these and no "abort" | an abort lands between two steps of a delivery (ops.py:470, 636) |
| `Untimed` | `MaxAge = 0`, no lost acknowledgement | the reaper and `_fail` write over a result (reaper.py:52, ops.py:769) |
| `Unattended` | `Steady` and no "resume" | a rollout halted after its last result is resumed, and finishes again |
| `Unsupervised` | no supervisor over phases | its halt turns `finished` into `paused` (supervisor.py:88) |

* `UpdatesTakeTurns` (`TakeTurns`, `ResultsOnly`): `[]OneUpdateAtATime`, any ages, aborts and
  lost acknowledgements. `TurnInv` says that one delivery is at work, that a job in
  flight is younger than the rate limit (`Young`), and that a task in the queue is the
  only one of its device (`QueuedAlone`).
* `OutcomesHold` (`Steady`): `[]SteadyInv`: what each holder of a command, of an answer and
  of a swap knows of the job it is about (`Commanded`, `AnsweredOnce`, `Timely`), and that
  a finished deployment has all outcomes and no delivery about to send for it
  (`DoneStays`). `FinishedIsDone` follows.
* `SuccessIsInstalled`: `[]SuccessMeansInstalled` in a steady service of any deployments,
  or, whatever the overlaps, ticks, aborts and ages, where there is one deployment and
  no manual report; the invariant (`Earned`) follows a `success` back to the commit.
* `AgentIsToldOnce` (`Unattended`), `StatusFollowsTable` (also `Unsupervised`), from
  `StatusInv`: who may still swap a status to a final one, and that nobody was told
  before it.
* `CanaryIsPassed` (`Steady`, `MaxAge = 0`): `[]CanaryPassed`, from `PassedInv`: who has decided
  that a wave passed saw outcomes, which are final (`CohortsPassed`). With ages it is
  false: the reaper's blind write turns a success into `timed_out` after the wave
  passed.
* `RolloutsAreKept` (`Steady`, `Untimed`): `Spec => KeepsRollout`, the refinement of `Rollout`
  for every deployment at once.

The hypotheses are those of `rollout_phased`, where the steady ones are checked together.
One run checks more than is proved: `rollout_single_shot` has progress ticks, one at a
time. What is claimed under overlaps, ages, ticks and aborts together is the wave
bound, `OutcomeStays` and `SuccessIsInstalled` for one deployment, and nothing else.

**FleetProofs**

* `RunsOncePerBoot`, `CallsAreSound`, under `TakeTurns` (`~Overlapping`): a command runs
  once in a boot of its device, and a caller gets its own answer, for any number of
  redeliveries, drops and boards. The ring remembers only its last entries, so that
  a command is not run again follows from the order on the wire: copies of a command
  reach a board together, after those of the calls that returned before (`InTurn`),
  and of what a board ran only the last may come again (`RanBefore`), which the ring
  ends with (`RingEnds`).
* `EnrolmentIsSound`, under `OneProject` (nobody provisions a unit by hand for another
  project): what the worker has read, what is in the mail, and what the unit keeps
  are one identity, whole (`Messages`, `LeavesWhole`, `ClaimsRest`).
* `PresenceIsSound`: rows agree with the registry but for what is queued (`Queues`),
  and the last write of a member is its last change (`LastWrite`).

**MockFleetProofs**, from `MockAssumption` and `ControllerAssumption`: any finite set of
mocks, any projects, callers, caps, and any number of docker failures and restarts.

* `MockIsSound`: what an emulated board reports is true (`Settles`: between the restart
  and the report the record and the running version agree).
* `LeasesAreHonoured`: `ControllerSpec => []LeaseHonoured`, the reaper condemns no
  mock whose lease it holds. The reaper decides with a listing that is old: the
  mock may have exited since, and been leased since. So `LeaseInv` says what a
  promise is worth (`Kept`): it is in the store, or was lost with the mock running,
  or the mock exited and no sweep under way has it down as running; and that
  only what docker shows is promised, and what is about to run is not there yet
  (`Running`), without which a new mock could inherit an old listing.
* `MocksAreSound`: `[]MocksSound`. That concurrent calls spawn no more than was due is
  not inductive: a call counts what runs, then spawns. `Calls` says the lock leaves one
  call at work in a project, `Budgeted` that what it spawned and has yet to spawn stay
  within what was due and the cap, `Certified` that each container has had its
  certificate made before it.

**FixJobsProofs**, from `FixAssumption`: `FixJobsAreSound`, for any number of calls, workers
and attempts, with jobs reclaimed from workers that are still at them. Shipping
once rests on the revision's unique version (`VersionsUnique`): only who recorded it
may ship, and a second worker at the same job finds it recorded (`OneShipper`);
shipping one's own source on what each artifact was built from (`BuiltRight`).

**CliProofs**

* `UpdaterIsSound`, from `UpdaterAssumption`, for any number of updaters and shells and
  any kills: mutual exclusion by a lock file as long as no lock has grown old
  (`Flight`), what each process has in its hands at each step (`Carries`), which files
  may be missing when (`Files`), and that who is alone finds what it put there
  (`Alone`).
* `StoreIsSound`, from `PackageAssumption`, `NamesAssumption` and `PartsAssumption`, for any
  packages, requests, terminals, mirrors, kills and disk failures. A command is a list
  of tasks on directories, so the invariant says which lists there are and what the
  command that has one knows (`Ran`); how far it has come in each directory (`Orderly`:
  which is the only one in disorder, what is kept beside it, and that a copy goes on
  from what is there); that two commands of one package write the same into the same
  place (`Twins`, `Alike`, `EachPart`); and that what answers is whole (`AnswersWhole`).
  None holds without the others: that an upgrade may remove the old package rests on
  the copy kept beside it, which is whole because nothing else was at work there.
  What `Best` answers is empty only where nothing fits because finitely many packages
  have a newest one (`Highest`). `NamesAssumption` says of the names what the code makes
  of them: `name`, `name@version` and `name@src-hash` differ (manager.rs:932-944).

**BenchPolicyProofs**, from `BenchAssumption` (finitely many tools and crash classes, and
earlier sessions that left graphs): `BenchIsSound`, for any number of servers, calls and
breaks.

* That the file invents nothing needs the same of what each server has read and is
  about to write, and of the temporary file (`Happened`): until the graph is cleared
  everything is within what happened, and afterwards whatever a server still carries
  makes `overlapped` true.
* That little is lost needs a second count, of the graph in a server's hands, which is
  what the file will hold (`LittleLost`), and that a server that is alone finds the
  temporary file as it left it (`Alone`).
* That advice is earned is a fact about the planner, which is recursive. A choice of
  actions that ends healthy keeps to no set of states for ever (`EndsOutside`), so a
  walk that returns passed a state whose action has led out of the circle
  (`LedElsewhere`); and a walk passes each state once, so that it is over after as many
  steps as there are states (`PathsAre`).

The totals, the reachable states and the walks are functions defined by recursion. An
induction theorem with an operator as its parameter cannot be instantiated by the
provers installed, so this module proves induction over the subsets of a finite set
and over an interval of numbers for a *set* of those for which a fact holds
(`SubsetInduction`, `NumberInduction`, from the well-foundedness of strict subsets),
and from it that the recursive functions exist (`Iterates`, `TotalsExist`), and that a sum
does not depend on the order in which it is taken (`CountIs`).

Only model-checked is liveness, which the prover cannot treat: `TrialEnds`, `RolloutEnds`,
`SessionHears`, `CommandLands`, `AcceptedGetsClaimed`, `SilentGoesOffline`, `FixJobEnds`,
`MocksEnd`. `EmulatedVersionMonotone` is `EmulatedNeverOlder` for the subject of its run.

## Plan

Proofs: the outcome theorems with ticks that are validated and written in one step.

Models:

1. a stop of the OTA service between two calls (ops.py:1079: the agent is never told);
2. the nonce ring against the acceptance window of commands, with time;
3. the heartbeat's timer, with a clock that wraps;
4. dependencies between packages; a second board at the bench;
5. groups and the deploy shortcuts of the inventory.

## Not modelled

* Wording, formatting, TLS, certificate contents and signatures.
* The CLI around external programs: serial ports, compilers, `toolchain.py`, the power
  profiler and the diagnosis client keep no state between calls; `mcp_server.py` is a
  table of tools, and its one stateful step, handing each call to the policy layer,
  is in `BenchPolicy`. On-chip debugging depends on the timing of OpenOCD's and GDB's
  output within 0.2 s, more than on its own few lines.
* The build part of `platformio_rs`, a sequential port of a build tool with a parity
  suite of its own; of the package manager, dependencies, symlinks and the cache.
* The diagnosis service, a classification of one crash record at a time; the recorded
  crash scenarios; the supervisor of QEMU processes; the pentester, which is attack
  tooling.
* The flash and NVS of the Arduino, ESP8266 and POSIX ports and the crypto adapter.

The definitions stand for some 6000 of the repository's lines, comments included,
well below a third of the implementation. Most of the rest is of the kinds above: sequential parsing, rendering and calls to programs
or devices, where a model would repeat the code and its properties would hold by
construction.
