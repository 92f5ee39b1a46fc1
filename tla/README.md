# Verification of the Rockchip DRA driver

TLA+ specifications of the kubelet plugin in `cmd/kubeletplugin`, of the
discovery in `internal/discovery` and of the metrics in `pkg/metrics`, TLC
configurations that check them on small instances, and TLAPS proofs of the main
safety results for every instance.

## The system

The plugin runs once per node, as a DaemonSet. Its parts:

| Part | Source | State | Operations |
|---|---|---|---|
| Discovery | `internal/discovery` | none; reads sysfs | `Enumerate` |
| DeviceState | `state.go`, `reconcile.go` | `tracked`, `driverResources`; files `checkpoint.json`, `claim-devices.json` | `Prepare`, `Unprepare`, `Reconcile` |
| CDI handler | `cdi.go` | one CDI spec file per claim | create, delete |
| ResourceSlice content | `devices.go` | none | `devicesToResources`, `shareRequestPolicy` |
| Main program | `main.go` | the context and the signals | `RunPlugin` |
| Metrics | `pkg/metrics` | counters; an HTTP server | observe, start, stop |
| Driver | `driver.go` | channels `reconcileNow`, `healthChanged` | loop, kick, notify, publish, watch, shutdown |
| Rolling update | helm `maxSurge: 1`, `kubeletplugin.RollingUpdate` | two processes on the same files | |

The kubelet calls Prepare and Unprepare through the helper of
`k8s.io/dynamic-resource-allocation`, which serializes them. A loop polls
sysfs and calls Reconcile, which decides each device's health, keeps the
devices of prepared claims, and yields the resources to publish. Both take the
mutex of DeviceState; Reconcile enumerates before it takes it. An Unprepare
that succeeds kicks the loop. Health watchers, one per kubelet stream, send
the current health when woken by the loop and on a ticker. `RunPlugin` starts
the metrics server and the driver, waits for a signal or a fatal error of the
helper, and stops them in the reverse order.

What is hard here: three kinds of files are changed one after the other and a
crash may come between any two; Reconcile applies an enumeration that may be
older than a claim; the channels coalesce; a rolling update runs two processes
on the same files; names are numbered afresh by each scan while claims hold
devices by name. `PROJECT.json` lists each hazard at its line.

## Modules

- `DeviceHealth`: the pure part of `reconcile.go` and `devices.go`
  (`assessEnumerated`, `markUnavailable`, `nextTracked`, `toResourceDevice`,
  `healthReport`, ...). A device is an opaque value with a name and a path;
  everything else about it is what tells two values with one name apart.
- `DeviceState`: one process, its files and the node. Every action is one file
  operation with the computation up to the next one, so that a crash
  (`Crash`), a failed operation (`RpcFails`, `ReconcileFails`) and a step of
  another goroutine can come between any two. The mutex is implied by the
  control state (`Unlocked`). `writeCheckpoint` is two steps, because
  `os.WriteFile` truncates and then writes; `claim-devices.json` and CDI specs
  are replaced by a rename, one step. `durable` and `outcome` are history
  variables: the last checkpoint that was completely written, and what the last
  call on each claim returned.
- `ClaimRetention`: the abstract promise about prepared claims, which
  DeviceState implements (`KeepsRetentionPromise`).
- `Driver`: extends DeviceState with `NewDriver`, the rediscovery loop, the two
  channels of capacity 1, the kick after an Unprepare, health streams,
  publication and shutdown. Loop states are the points between which another
  goroutine can run: `select`, `reconcile`, `notify`, `publish`. `delivered`,
  `woken` and the two error flags are history variables: the last report that
  each stream has sent, the stream that took the last token since the health
  changed, and whether the last reconcile and the last publication failed.
- `RollingUpdate`: two instances of DeviceState (old and new pod) that share
  the node, the files and the history. The helper's lock file serializes calls
  across both (external); reconciles are not part of it.
- `Discovery`: what sysfs shows to the list of devices, as operators, and the
  list of mock mode. A class directory is a set of entries, each with its place
  in the listing, the number in its file name and what its files name; a sort is
  the one sequence of the matches in the order of the code's comparison.
- `NodeOwnership`: flags, discovery, reconcile, scheduler (external) and
  Prepare with each call as one step, to ask which claim gets which char device
  and how many shares of it. The history variables `whole` and `settled` say
  which claims took every share and which names have kept their nodes since.
- `RunPlugin`: the process from `main` to its exit. One variable per goroutine
  (`RunPlugin` itself, the loop, the metrics server, the call in progress); a
  claim of a call is handled in one step, with success or an error. `answers`,
  `cleared`, `signals` and `exit` are history variables.
- `DeviceStateProofs`, `DeviceHealthProofs`, `DeviceCallProofs`,
  `DriverProofs`, `RollingUpdateProofs`, `RunPluginProofs`, `DiscoveryProofs`,
  `NodeOwnershipProofs`: the theorems and their lemmas.
- `MC...`: constants for TLC (RunPlugin needs none). `MCSeenNodes` also adds
  the history of the char devices that have existed. An operator whose comment
  says "Mutant" is a plausible bug in the definition that follows it; replacing
  the definition by it makes TLC report the property that `PROJECT.json` pairs
  it with.

External, modelled from how the code uses it: kernel and udev (bind, unbind,
nodes come and go), the clock, the helper, the scheduler, `net/http`, scrapers,
signals, process death.

## Runs

| Run | Instance | Shows |
|---|---|---|
| `shared` | one name that two devices at two paths may have, two claims on it, two instants | every DeviceState invariant, `TaintTimeKept`, `UnseenNotTainted`, `RetainedForClaim`, `PreparedNotUnhealthy`, the refinement |
| `driver_faults` | one device, one claim, no streams, crashes and failures | `KickIsPending`, `SliceIsCurrent`, `ReleasedDeviceIsDropped`, `ShutdownCompletes` |
| `driver_health` | one device, no claims, two streams, a process that is not stopped | `HealthWakeup`, `HealthConverges` |
| `surge_calls` | one device, one claim, two processes | the checkpoint and the specs follow the last answer |
| `names` | four boards in six configurations, one of them in mock mode, two claims that ask for nothing, for three shares or for the default | `DistinctDevices`, `NumberedByIndex`, `DecoderClaimGetsDecoder`, `WholeCountIsExclusive`, `SettledOwnVideoNode`, `MockMatchesBoard` |
| `plugin` | one process at a time, two claims, one scraper, at most three handled claims, two signals and two fatal errors per process | `StopLeavesNoServer`, `ReturnsDrained`, `MetricsOutliveCalls`, `FirstSignalIsGraceful`, `CountersMatchAnswers`, `StopsWhenAsked` |

Six runs expect a violation; each is a finding in `PROJECT.json` with the
sentence of the repository that it contradicts:

- `torn_checkpoint`: a crash or write error inside `writeCheckpoint` leaves a
  file that no later call or start can read.
- `restart_unknown`: `nodeSeen` is lost at a restart, so a prepared device
  whose char device has gone is Unknown and untainted.
- `moved_device`: `nodeSeen` is kept by name, so a device that comes back at a
  path that has never existed is tainted as missing. `UnseenNotTainted` says
  what does hold: a name that is new to the process, or Unknown, is not tainted.
- `nodeless_spec`: a node that goes between the two stats of Prepare gives a
  successful Prepare whose spec has no node.
- `surge_snapshot`: the prune of one process's Reconcile drops the
  snapshot that the other process's Prepare records.
- `renumbered`: with two nodes of a block, binding the lower one shifts the
  names, and two claims can get the same node. `SettledOwnVideoNode` says of
  which claims the contradicted comment is true: those whose names keep their
  nodes.

Bounds. `MaxClock`, which bounds the clock, is 2 in `shared`, so that a taint's
time could move, and 1 in Driver and RollingUpdate, where no property speaks of
time. Two claims are enough for sharing, differing progress and one claim's
call meeting the other's state; one name suffices where properties speak of one
name at a time, and the theorems cover the rest: claims of several devices,
several names, two processes with several claims. Nothing bounds the number of
calls, reconciles, crashes or restarts, except in `plugin`, where `MaxHandled`,
`MaxSignals` and `MaxFatal` keep the counters and the signals of one process
finite; a call of two claims with different results and a further call fit in,
and so do a signal and a fatal error that come while the first is being obeyed.
Driver is split over two runs because streams and claims only meet in
`tracked`; health convergence with a claim's retained device is therefore not
covered by a run. `Faulty` and `Stoppable` say whether a run has faults and
shutdowns: in `driver_health` it has neither, because a restart closes the
streams and two of them with restarts are too many states; `HealthWakeup` is
proved with both. In `names` the claims are symmetric, and so they are in
`shared`. Its boards have at most five entries: two nodes of one block that the
directory lists against the order of their indices, the three Hantro blocks,
one device of each type, and entries that discovery passes over.

Fairness (`Fairness` in `Driver`). The process is restarted and gets through
its start; a call that has begun goes on; the loop and the streams get the
mutex although calls compete for it, which is strong fairness and what Go's
starvation mode of `sync.Mutex` gives; a loop whose `select` finds the context
done again and again takes that branch at last (strong fairness of `LoopDone`),
because Go chooses among ready branches at random; tickers fire; the kubelet
opens a stream and receives, and need not close it. Nothing is assumed of the
node, and no call need be made. `HealthConverges` is about the behaviours in
which the streams stop breaking and the node stays as it is.
`ReleasedDeviceIsDropped` is checked with faults: it is about the behaviours in
which they come to an end and the last publication has not failed.
`ShutdownCompletes` holds whatever fails. In `RunPlugin` every goroutine goes
on, the five seconds of the deferred Stop pass, a server that is shut down
returns from `Serve`, and a call that has begun is handled. No scrape need end,
and no signal or call need come.

## Proofs

`DeviceStateProofs` proves, for any sets of names, paths, devices and claims
and any allocation (`DeviceAssumption`, `ClaimAssumption`):

- `TypeCorrect`: `TypeOK`;
- `SnapshotsRecorded`: each checkpointed claim has its snapshot at every
  instant;
- `PublishedWhilePrepared`: a plugin that is up publishes every device of
  every checkpointed claim;
- `PreparedDurable`, `UnprepareComplete`: what a successful call has left in
  the files stays so until the next call on the claim;
- `Refinement`: DeviceState implements `ClaimRetention`.

None of these is inductive. `SnapshotRecorded`, for example, needs to know
that a Prepare about to write the checkpoint has recorded its claim, that a
call's copy of the checkpoint is current because it holds the mutex, and that
a Reconcile that is about to prune keeps the entry of every checkpointed claim. `RetentionInv`
says this of each call in progress (`PrepareInv`, `UnprepareInv`,
`ReconcileInv`), of the files between their operations (`FilesInv`), of the
mutex (`CallsInv`) and of the tracked set (`TrackedInv`); `OutcomeInv` adds
what past successes promise. Each is preserved action by action
(`TypeStep`, `RetentionStep`, `OutcomeStep`), and `RefinementStep` maps each
action to a step of the promise or a stutter.

`DeviceHealthProofs` adds, from the same assumptions:

- `UnseenIsNotTainted`: a reconcile does not turn a device that is new to the
  process, or of unknown health, into one tainted as missing (`SeenInv`: such a
  device has no `nodeSeen`, and every device is found under its own name);
- `TaintTime`: the time of a taint does not move (`TaintInv`: an unhealthy
  device has such a time);
- `RetainedOnlyForClaims`: what Reconcile keeps without finding it is held by a
  checkpointed claim, because the entries it has read are those of `durable`;
- `PreparesUsableDevices`: no device is unhealthy when Prepare succeeds,
  because Reconcile cannot apply anything while a call holds the mutex
  (`UsableInv`).

`DriverProofs` proves that every step of the running plugin is a step of
DeviceState (`DriverRunsDeviceState`), so that those results hold in it
(`DriverKeepsClaims`), and, from invariants of its own:

- `PublishedIsCurrent` (`SliceInv`): between the reconcile and the publication
  the loop carries what it will publish;
- `NoKickIsLost` (`KickInv`): a retained device that every claim has released
  has a reconcile under way, a kick in the channel or one about to be put
  there, also before the loop runs; a reconcile that read the checkpoint before
  the release holds the mutex until it is applied, so the kick comes after it;
- `NoChangeIsMissed` (`WakeInv`, which also speaks of the report that a stream
  is about to send): for any number of streams, one that waits with an outdated
  report has a wake-up on its way, or another stream took it since the health
  changed. `SingleStreamIsWoken`: with a single stream none is lost.

`RollingUpdateProofs` proves `SurgeCallsAgree`: with two processes the last
answer on a claim decides whether it is in the checkpoint and has a CDI spec,
for any claims and devices, where TLC gets through one claim only.
`SnapshotRecorded` and with it `RetentionInv` fail there (run
`surge_snapshot`), so `DeviceCallProofs` first proves that a call keeps the
weaker `CallInv`, which says nothing of `claim-devices.json`. `SurgeInv` is
`CallInv` for both processes and that one of them has no call. The steps of the
one process keep its own `CallInv` by those lemmas, instantiated for it, and
the other's because that has no call or the files of calls did not change.

`RunPluginProofs` proves, for any finite set of claims and any scrapers
(`ClaimsAssumption`), the safety properties of `RunPlugin`: `ServerStopped`,
`DriverDrained`, `MetricsLast`, `SignalsCaught` and `CountersExact`. They rest
on its `TypeCorrect` and on `DriverInv`, `SignalInv` and `ServerInv`, which say
for each point of `RunPlugin` which goroutines exist and who gets a signal;
`CountersExact` adds that one more result of a call is one more in the count of
that result.

`DiscoveryProofs` is about `Enumerate` as an operator, for any directories that
are finite and give no two entries the same video index (`Readable`):

- `SortFuncSorts`: `SortFunc` returns every element of a finite set once, in the
  order it is given, when that is a total order; that such a sequence exists is
  built from the number of elements below each one (`SortedExists`), which needs
  no induction. `VPUsAreSorted` shows that the comparison of `discoverVPU` is
  such an order on its matches, because a node is of one block and blocks and
  indices rank;
- `NumberCountsEarlier`: what the count of the block is when a node is reached;
- `NPUList`, `GPUList`, `VPUList`, `RGAList`: what each list holds, and that its
  names and nodes are distinct; `VPUsAndRGAsApart`: no node is in both lists of
  video nodes; `EnumerateSysfs`, `EnumerateMock`: the lists appended;
- `MockNPUOnBoard` and so on: on the board that mock mode stands for, each list
  is that of mock mode.

`NodeOwnershipProofs` takes those to the behaviours, for any boards and flags
(`SetupAssumption`), finitely many claims and any requests (`ClaimAssumption`):

- `DevicesAreDistinct`, `VPUNumbers`, `MockIsTheBoard` hold of every sysfs that
  shows part of a board (`SysOK`, which every step keeps);
- `DecoderClaims`, `WholeCount` rest on `IInv`: tracked devices have a node and
  a share, and untainted ones no node in common (`TrackedOK`); a prepared
  claim's name stays tracked, and a claim with a name has a share (`ClaimsOK`);
  a settled claim's container has the node that its name has now (`SettledOK`);
  a claim that took every share is alone on its name, and while that is
  published the cap is not above what it took (`WholeOK`). That nobody joins
  such a claim is arithmetic: what is in use is at least the claim's shares
  (`InUseBounds`), and a further claim would take one more at least, which is
  why the policy's minimum of 1 matters;
- `VideoNodeOwners` adds `VideoOK`: with caps of 1 a settled claim on a video
  node took every share.

`SetupAssumption` says that a class directory is finite and that no two of its
entries are the same video, accel or render node, which the kernel sees to. The
places in the listing are left open: nothing proved depends on them.

Only model-checked: the findings, which are counterexamples, and all liveness
(`HealthConverges`, `ReleasedDeviceIsDropped`, `ShutdownCompletes`,
`StopsWhenAsked`), which the prover does not handle. Every invariant and action
property of a passing run is proved.

## Not modelled

- In DeviceState: mock mode, in which every device counts as present; devices
  without a node path; log lines and health messages (the message is determined
  by status and taint value); temporary files that a crash leaves; the
  one-second resolution of a taint's time in JSON. The nodes of a claim's
  devices are statted in one step.
- CDI environment variables, names and versions: formatting. Two VPUs of one
  block in a pod set the same variables; nothing promises otherwise.
- `soc.go` and the other code that takes strings out of sysfs files: the models
  start from what it yields. Gids, models and other attributes that are copied
  into the slice.
- Convergence of health with a claim's retained device, and with two streams
  across restarts: the products are out of TLC's reach.
- A retry of a failed publication: the code has none, so a slice that could not
  be published stays outdated until the next change.
- What the process that survives a rolling update publishes: which of two
  processes' slices and registrations counts is decided by the helper and the
  API server.
- The flag declarations of `newApp`, `pkg/flags`, the API types, generated code,
  charts: no state.
- Release scripts: tooling of the build pipeline; the driver does not depend on
  them.
- The duration histograms: observed with the counters, and only times.
