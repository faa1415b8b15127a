# A formal model of the Nomad cloud-hypervisor driver

TLA+ modules, TLC configurations and TLAPS proofs about the driver in `src/`: the life
cycle of a task from `StartTask` to `DestroyTask` over crashes of the plugin and of the
processes it depends on, what of it Nomad may rely on, the image cache that task starts share,
what a VM is started with, and what the plugin streams to Nomad about itself and its tasks.

## 1. Inventory

The driver is a plugin process that a Nomad client starts and restarts. Nomad calls it by
RPC; each call runs on a goroutine of its own. For every task it starts one *executor* (a
process of Nomad's) which launches one `cloud-hypervisor` process, the VM. Both outlive the
plugin. What Nomad persists of a task is the `TaskHandle` that `StartTask` returned.

| Component | Source | State | Operations |
|---|---|---|---|
| Task life cycle | `chdriver/driver.go` | the RPCs under way | `StartTask`, `RecoverTask`, `WaitTask`, `StopTask`, `SignalTask`, `DestroyTask`, `InspectTask` |
| Task store | `chdriver/state.go` | map from task ID to handle, under a lock | `Get`, `Set`, `Delete` |
| Task handle, monitor | `chdriver/handle.go` | `procState`, `exitResult`, `doneCh`, pid, executor, configuration | `run` (one goroutine per handle), `IsRunning`, `TaskStatus` |
| Tap devices | `chdriver/autotuntap.go` | network devices of the host | `Up`, `Down` |
| Seed image | `internal/cloudinit/cloudinit.go` | a file in the allocation's local directory | `CreateISO`, removal in `DestroyTask` |
| Start configuration, launch | `chdriver/cloudhypervisor.go`, `diskutils.go` | `driverConfig` during a start, overlay files | `startCloudHypervisor`, `buildCHArgs`, overlays |
| OCI payload | `chdriver/oci_payload.go` | none | read the configuration from the image, merge the job's over it |
| OCI image cache | `internal/oci/oci.go` | per-digest directory, lock file, `.complete` marker | `PullIntoCache`, `FetchMetadata` |
| Plugin configuration | `driver.go` | `config`, `nomadConfig`, without a lock | `SetConfig` |
| Fingerprint | `driver.go` | a goroutine per stream: a timer, a channel, a context | `Fingerprint`, `handleFingerprint`, `buildFingerprint` |
| Statistics | `driver.go` | a goroutine per stream, the executor's channel | `TaskStats`, `sanitizeTaskResourceUsage` |
| API client and types | `chclient.go`, `chtypes.go` | the socket it dials | `GetVMInfo`; the rest has no caller |
| Entry point, tests, harness | `main.go`, `e2e/`, `internal/nomadtest`, `internal/test_utils`, `internal/oci/*testutil.go` | not part of the driver's behaviour | |

Interactions: the RPCs share the store and the handles (locks), the handle's monitor and the
waiters share `doneCh` and `exitResult` (channel, lock), all of them share the host (pids,
signals, devices, files) with the VMs, and starts share the image cache with the starts of every
other plugin process on the node (`flock`). Nomad holds a copy of each task's `TaskState` and
gives it back to `RecoverTask`. The streams share the plugin's configuration with `SetConfig`, the
tasks' sockets with the starts, and their channels with Nomad.

What is hard here, and which property is responsible:

* A VM outlives the plugin, the executor and the handle: nobody may lose it (`NoOrphan`,
  `NeverDropRunningVm`, `LostOnlyByStart`, `OneMonitor`), nor declare it dead while it runs
  (`ExitedVmIsDead`). Seen from Nomad all of it must look like one simple machine
  (`KeepsContract`).
* Three goroutines take part in reporting an exit, and a recovered handle starts with an empty
  result: what reaches Nomad must be how the VM ended (`ReportIsReal`, `WaiterAnswered`).
* Clean-up is spread over a deferred function, a body and a handle's memory: what a task owned
  must have an owner and be gone after `DestroyTask` (`HostResourcesOwned`, `DestroyCleansUp`),
  must be there while the VM runs (`NetworkUp`, `NetworkCutOnlyByDestroy`), and only what is known to
  fail may leave it behind (`LeaksOnlyByFailure`).
* A grace period races the end of the VM (`StopEndsTask`), and goroutines wait for one another and
  for the host: nobody who has something to do may be held up (`NobodyStalls`).
* Downloads overlap, fail half-way and die, while tags move: the marker decides what is trusted
  (`CompleteIsWhole`, `CacheInv`, `OneWriter`, `CompleteIsStable`, `LockIsFreed`).
* A start merges job and image twice, before and after the host is prepared, and rewrites the result
  in place; seeds and overlays of earlier starts lie in the same directory (`JobWins`,
  `PathsResolved`, `OverlaysAgree`, `FreshAtLaunch`, `BasesKept`, `SeedOfJob`,
  `HostMatches`).

* The plugin can be configured again while a report is being built, and its goroutines send
  on unbuffered channels whose reader may have gone: a report must not mix two binaries
  (`VersionIsOfPath`), Nomad must come to know the state that stays (`CatchesUp`), and a stream
  ends or hangs in that one send (`StreamEnds`, `NeverHeldUp`). A sample with a NaN cannot be encoded
  (`SentIsFinite`); a recovered client must look where the VM was started (`SocketDirSurvives`).

`PROJECT.json` lists every hazard at its line, those no property covers yet with the reason.

## 2. Modules

    VmHost  <-EXTENDS-  TaskDriver  <-  TaskProperties  <-  MCTaskDriver       (TLC)
                                          |             <-  TaskDriverProofs   (TLAPS)
    TaskContract  <------INSTANCE---------+                   <-  TaskContractProofs  <-  QuietProofs  <-  LeakProofs
    ImageStore <-INSTANCE- OciCache  <-  MCOciCache       (TLC)
                                     <-  OciCacheProofs   (TLAPS)
    StartConfig  <-  MCStartConfig       (TLC)
                 <-  StartConfigProofs  <-  LaunchProofs   (TLAPS)
    Streams  <-  MCStreams       (TLC)
             <-  StreamsProofs   (TLAPS)

### `VmHost`: the host
`vm[v]` is what one `StartTask` creates: task, executor (`none`, `alive`, `dead`), process, exit
status, whether a SIGKILL is pending, whether its command line names a tap. `tap[t]` is the device
named after the task's ID: `absent`, `down` (left by a failed `Up` or `Down`) or `up`. `seed[t]`
is the seed image. `Hazards` is the set of faults a configuration allows, so one module serves
the quiet and the hostile runs, and theorems name what they exclude. A dead VM's pid may be given
to another process (`reused`), which the driver may then signal (`struck`).

### `TaskDriver`: the plugin
`tasks` is the store, `handle` the handles of this plugin process, `call` the RPC goroutines with
their program counter and locals, `up` whether the plugin runs, `saved` Nomad's copy of the
`TaskState` (the VM it names). A step is the code between two points where somebody else can be
observed:

| Code | Actions |
|---|---|
| `StartTask` | `StartTask` (store check, decode, first read of the image), `CreateExecutor`, `CreateSeed`, `RaiseTap`, `Materialize` (pull, merge again, overlays), `Launch`, `Register` (handle, `SetDriverState`, `Set`, `go run`), `Reply` |
| `RecoverTask` | `RecoverTask` (store check, decode; it gives up what it cannot decode), `Reattach` (nobody looks at its error), `Probe` (`kill(pid, 0)`), `Adopt` (handle, `Set`, `go run`) |
| `run` | `RecordExit` (executor's `Wait`, then the locked block), `CloseDone`, `RunPanics` (nil executor) |
| `WaitTask`, `handleWait` | `WaitTask`, `WaitRead`, `WaitSend`, `CancelWait`, `WaitAbandon` |
| `StopTask` | `StopTask` (first signal), `StopPoll`, `StopDeadline` |
| `SignalTask` | `SignalTask` |
| `DestroyTask` | `DestroyTask` (look up, decide), `DestroyKill`, `DestroyForget` (seed, which may stay; `Delete`), `DestroyDown` (the deferred tap clean-up; also after a refusal) |
| plugin process | `PluginCrash`, `PluginRestart` (store and handles are gone, host and `saved` stay) |

Abstractions. Of a configuration only what decides the life cycle is kept: an auto-tuntap
network, a cloud-init block, whether it comes from an image (`Config`). A job may name SIGINT,
SIGTERM or SIGKILL; after the first two the VM may end, or not, after the last it will. A task has one auto-tuntap network; the `ip`
commands of `Up` and `Down` are one step with the device state a failure leaves. Nomad's client is
modelled by what it lets happen: every start has a fresh ID, and starts, recoveries and destroys
of one task do not overlap (`MayStart`, `NotBusy`, `Known`); the hazard `duplicateCalls` removes
that discipline. The pull of an image is one step of `Materialize`; what justifies it is
`ImageStore`, below.

### `TaskContract`: what Nomad relies on
The driver without store, handles, goroutines and pids: a VM is claimed for one task, boots, may be
doomed by SIGKILL, ends with an outcome, may lose the executor that would know it; Nomad holds
the VM of a `StartTask` that answered, forgets it only when it has ended, is doomed or is out of
sight, and a `WaitTask` is told how the VM it asked for ended, or an error if that cannot be known.
`TaskProperties` maps `TaskDriver` to it: `owner`, `life`, `outcome` and `blind` are read off `vm`,
`holds` is `saved`, and a waiter is a goroutine of `WaitTask` with the VM of its handle. So a
recovery that adopted another VM, a wait answered from the wrong handle or too early, and a
`RecoverTask` or `DestroyTask` that gives up a live VM are all steps the contract does not have.

### `OciCache` and `ImageStore`: the cache
One element of `Puller` is one `PullIntoCache` call, in any plugin process. `Resolve` names the
directory, `TakeLock` is `flock`, `Check` the look at the marker under the lock (`Stats`: any error counts as no marker), `FetchManifest` the
second resolution of the reference, `FetchBlob` truncates a file and `CopyBlob` fills it, `Mark`
writes `.complete`, `Return` unlocks. `Fails` is an error return from anywhere in between,
`Crash` the death of the process; both free the lock and leave the files. A file's content is
named by the manifest it was fetched for, so mixtures of images show. `ImageStore` is what a caller
may rely on: it asks for a digest and gets it only if it is stored whole, and stored images stay.

### `StartConfig`: what a VM is started with
`TaskDriver` abstracts `StartTask` to what decides the life cycle; `StartConfig` opens it for one task,
whose starts follow each other in one local directory. `cfg` is `driverConfig`, `job` the job
(`jobConfig` and the resources), `tag` what the image reference names, `resolved` and `pulled` the
images the two builds saw, `seed` and `overlay` the files in the local directory, `tap` the device,
`args` the command line, `written` what guests wrote to.

| Code | Actions |
|---|---|
| `StartTask` up to the copy to `jobConfig` | `Decode` |
| `resolveOCIPayload` | `ResolvePayload` with `FetchMetadata`, `BuildConfig`, `ApplyJob` (relative paths stay so) |
| `cloudinit.CreateISO` and the appended disk | `CreateSeed` with `CreateISO` |
| the loop over networks | `RaiseTap`, `NetworkReady` |
| `materializeOCIPayload` | `PullPayload` with `ReadMetadata`: built anew against the working directory |
| the loop over disks | `CreateOverlay` (`IsSameXFSPartition` decides between reflink copy and qcow2 chain, `Created` is the file), `DisksReady` |
| `startCloudHypervisor`, `buildCHArgs` | `Launch` with `BuildArgs`, `Vcpus`, `GuestMB`, `MemoryRefused` |
| error returns | `Fail`: what was made stays, whole or half |
| around it | `GuestWrites`, `Destroy`, `Retag` |

A configuration is a function of the fields of `TaskConfig`, so that the merge is one line. A path is a
place and a number: `absolute`, `relative`, an image's working directory, or one of the driver's own
files. Texts the driver only hands on are values; MAC addresses, the API socket and the flags of the
balloon are left out. `jobConfig := driverConfig` shares the disks, but no step writes to them before
the last read of `jobConfig`, so the model copies. A pull delivers the image the tag names at that
moment: `OciCache` says when it does.

### `Streams`: configuration, fingerprint, statistics
`config` is `d.config`, `setup` how far `SetConfig` has come, `binary[p]` what is at a path of the
host, `vms[t]` the socket a task's VM listens on and its executor, `client[t]` the socket its handle's
client dials, `saved[t]` the `SocketPath` Nomad keeps. `stream[s]` is a goroutine with its
locals, the state of its timer or sample channel (`source`), whether its context is done
(`cancelled`) and whether somebody still receives (`reading`); `heard[s]` is what Nomad got last.

| Code | Actions |
|---|---|
| `SetConfig` | `SetConfig` (the assignment), `CheckConfig` (validation, after it) |
| sockets in `StartTask`, `RecoverTask` | `StartTask`, `RecoverTask` |
| `Fingerprint`, `handleFingerprint` | `Fingerprint`, `Wake` (timer case and `Reset`), `Deliver` (the send), `Done` |
| `buildFingerprint` | `Wake` (reads the path), `Which`, `RunVersion`, `Attributes` (reads the directories) |
| `TaskStats`, its goroutine | `TaskStats`, `Receive`, `Query` (`GetVMInfo`, `Sanitize`), `Deliver`, `InClosed`, `Done` |
| the environment | `Tick`, `Cancel`, `Leave`, `Upgrade`, `ExecutorCrash`, `PluginRestart` |

A sample is a number or a NaN for the task and for its processes, and whether the VM's memory is in
it. An answer from the API depends only on whether a VMM listens where the client dials. How tasks end
is `TaskDriver`'s business; here only their sockets and executors count.

### `TaskProperties`, `*Proofs`, `MC*`
Properties of the life cycle; theorems; small instances.

## 3. What is checked

All runs are exhaustive for their constants. Deadlock is checked in `start` and `streams`; elsewhere a
system without tasks, or whose bounded starts are used up, rightly stops.

| Run | Instance | Shows |
|---|---|---|
| `calm` | 2 tasks, 2 starts, 3 goroutines, no faults | `HostResourcesOwned`, `NetworkUp`, `DestroyCleansUp`: with two tasks' calls overlapping, taps and seeds always have an owner and are gone after a destroy; the inductive invariant `QuietInv` |
| `crash` | 1 task, 3 goroutines, 2 handles; host failures, moved tags, plugin crashes, reused pids, early destroys, cancelled waits | refinement `KeepsContract`; `OneMonitor`, `ExitedVmIsDead`, `NeverDropRunningVm`, `LostOnlyByStart`, `LeaksOnlyByFailure`, `NetworkCutOnlyByDestroy`; the inductive invariant `OwnInv` |
| `faulty` | 1 ID, 2 VMs, 2 goroutines, undisciplined callers, plugin and executor crashes, saved states that cannot be read, reused pids | `ReportIsReal` and the inductive invariant `ExitInv` |
| `live` | 1 task, 3 goroutines, executor crashes, early destroys, cancelled waits, reused pids | `NoOrphan`, `NobodyStalls`; `StopEndsTask` (stops, and destroys past their kill), `WaiterAnswered` (every wait whose VM has ended or that is cancelled) under fairness |
| `pulls` | 2 calls, 2 references, 2 images sharing a file name; errors, crashes, tags that move while no call is between its two resolutions | `CompleteIsWhole`, `CompleteIsStable`, `OneWriter`, refinement `KeepsPromise`, the inductive invariant `CacheInv`; `LockIsFreed` under fairness |
| `start` | 8 jobs (4 configurations, with and without an image) times 5 allocations (without memory, 512 MB, just below, at and above the minimum), 4 images (two with disks, one without configuration, one without metadata), a moving tag | `JobWins`, `PathsResolved`, `OverlaysAgree`, `BasesKept`, `FreshAtLaunch`, `HostMatches`, `SeedOfJob`, `GuestFits`, and the inductive invariant `PreparedInv`, which contains `StartInv` |
| `streams` | 1 stream, 1 task, 2 configurations that differ in everything; reconfiguration, changing binaries, cancellation, executor and plugin crashes | `VersionIsOfPath`, `SentIsFinite`, `SocketDirSurvives`, `NeverHeldUp`, the inductive invariant `StreamsInv`; `CatchesUp`, `StreamEnds` under fairness |

Runs in which the code contradicts its own documentation (TLC finds a counterexample;
`PROJECT.json` quotes the lines):

| Run | What happens |
|---|---|
| `executor_gone` | nobody looks at the error of `ReattachToExecutor`; `run` then panics on a nil executor |
| `tag_move` | the tag moves between two resolutions of one pull: another image under the digest, for good |
| `lost_seed` | a task from an image runs without the seed image made for it |
| `small_guest` | a job of 512 MB, as in `TestBuildCHArgs` and the end-to-end fixtures, is refused at its launch: `buildCHArgs` subtracts 512 MB and wants 256 MB left |
| `stats_socket` | the VM listens on `<base>.sock`, its client dials `<base>`: no sample has the VM's memory |

Seen while modelling, without a run of their own: `DestroyTask` defers the tap clean-up before it
refuses a running task, so a refused call takes the tap from under the VM (`driver.go:674`; add
`"destroyRunning"` to `calm`'s hazards and `NetworkUp` fails; `NetworkCutOnlyByDestroy` says that nothing
but such a destroy does it); a recovered handle has no
configuration, so its destroy cleans up nothing (`driver.go:591`; add `"pluginCrash"` and
`DestroyCleansUp` fails); a forced `DestroyTask` reaches the tap while the
dying VM holds it, the error is assigned to a shadowed variable and the device stays
(`driver.go:680`); nothing ends a task's executor (`driver.go:442`); a seed image that cannot be removed is left without
anybody who knows of it (`driver.go:700`); `TestBuildCHArgs` expects no balloon where `buildCHArgs` adds
the default one; the progress reader steps by 3 percent where its
comment says 5 (`oci.go:214`).

Bounds. One task is enough where the property is about one ID, since tasks share only goroutines
and the store's keys; `calm` has two to show that. Two VMs of one ID are the least for a mix-up of
outcomes, two handles the least for a second monitor. Three goroutines let a waiter, a stopper
and a destroyer meet. Two images with one common and one different file are the least from which
a mixture can be made. For `start`, three disks are the least with an overlay, a plain disk and a seed;
two automatic networks show the shared name; starts repeat without bound. For `streams`, one goroutine is enough
since two share only what `SetConfig` and the host write; two paths and directories are the least
for a mixture. Goroutines and handles are reused when free, so their number bounds
what overlaps, not the length of a history; `Vm` bounds the number of starts.

Fairness. Each condition has a name. `RunFairness(h)`, `WF(RunStep \/ RunPanics)` of each handle's
goroutine, `WaitFairness(c)`, `WF(WaitRead \/ WaitSend \/ WaitAbandon)`, and `StopFairness(c)`, `WF(StopStep)`: the
Go scheduler runs what can run, a `select` takes a case that is ready, a receiver that was not cancelled receives, and a deadline passes.
`KillFairness(v)`, `WF(KillLands(v))`: the kernel delivers SIGKILL. Nothing makes Nomad call, a guest stop or a host
command return, so there is no fairness for starts. For the streams, `StreamFairness(s)`: `WF` of a goroutine's own steps, of the
timer and of a receiver that has not left, and `SF(Done)`: a `select` with several ready cases
chooses among them at random, so it does not pass over a context that is done for ever, though a
ready timer can disable that step between two of its chances. For the cache, `WF(Work \/ Fails)`: the registry
answers, if only with an error. The code has no timeout of its own there, so a registry that never
answers keeps a lock for ever, and `TakeLock` gets no fairness: `flock` promises no order.

What the quiet assumptions hide is in the violation runs or among the hazards. In particular
`HostResourcesOwned` needs starts and removals that do not fail (neither undoes or retries), `NoOrphan`
needs a plugin that does not crash between launch and reply (`LostOnlyByStart` says that
this window is the only one), and `ExitedVmIsDead` needs executors that
outlive their VMs: `run` takes any error of `Wait` for the end of the VM.

## 4. What is proved

For every value of the constants, by TLAPS:

* `TaskDriverProofs`: `TypeCorrect`; `ExitInvariant`; from it `ReportsAreReal`, under every set of
  hazards, and `ExitedIsDead`, if no executor dies. `ReportIsReal` is not inductive: that a waiter
  sends the right result needs that `doneCh` is closed only after the outcome was recorded, that
  the recorded outcome is that of the handle's own VM (`Recorded`), that an ended VM keeps its status
  (`StatusKept`), that a start never relaunches or reuses another start's VM (`Fresh`), and that
  goroutines keep the task, VM and handle they began with (`Wired`). `ExitInv` is their conjunction,
  checked by `faulty` before it was proved. The proof has one lemma per conjunct, in which the
  actions are grouped by what they can disturb.
* `OciCacheProofs`: `LockInvariant`, under every set of faults: calls work on what they resolved, a
  lock is held by exactly the calls in the critical section, and the blobs before the next one are in
  place. It gives `WritersExclude`. `CacheInvariant` adds that there is no marker while a download runs
  and that a marked directory has the whole of one image. It needs markers that can be looked at
  (`statFails`: any error of `os.Stat` counts as no marker, and the download starts again over a
  directory in use), not tags that stay: they may move in the middle of a call. It gives
  `MarkedHasImage` and `MarkedIsStable`. If no tag moves between the two resolutions of a call
  (`tagRaces`) both agree (`SameImage`), hence `MarkedIsWhole` and, step by step,
  `CacheImplementsStore`: every action of `OciCache` is an action of `ImageStore` or invisible. `HoldersComeCloser` is what `LockIsFreed` rests on: under every
  set of faults, each step of a call that holds a lock frees it, leaves a phase of the call behind or
  half a blob, and nobody else's step changes that call.
* `StartConfigProofs`: `StartInvariant`, for every job, image and number of disks, under moving tags and
  failures; from it `JobAlwaysWins`, `OverlaysAlwaysAgree` and `LaunchesAreFresh`. `JobWins` speaks of
  the command line only; to survive the steps it needs that a disk of the job is in its place or
  replaced by an overlay made of it (`MergeInv`), that the disks the loop has passed, and no others, are
  overlays that exist and are what the configuration says (`DiskInv`), that the seed is the one disk
  the driver adds (`BoundsInv`), and that the command line is that of the configuration (`LaunchInv`).
  Lemmas state what the two builds and the merge preserve (`BuildPlain`, `ApplyPlain`,
  `MergeIsSound`).
* `LaunchProofs`: `PreparedInvariant`, which is `StartInv` and what follows; from it `HostAlwaysMatches`, `SeedIsOfJob`,
  `PathsAreResolved`, `BasesAreKept` and `GuestsFit`. These relate the VM to what was done before the second
  build, so the invariant follows it: the networks the loop has passed are raised, and networks and
  cloud-init are those a merge of the same image would give, wherever its files lie (`NetInv`,
  `MergedFields`), so the second merge asks for no tap and no seed that the first did not (`AskedInv`): this is why
  `TaskDriver` may keep one configuration per start unless tags move (`Rebuilt`); the seed is of the job and
  its disk is never replaced (`SeedMade`); and behind every disk, overlay or not, is a file of the job
  or of the pulled image (`OriginInv`).

* `StreamsProofs`: `StreamsInvariant`, under every set of hazards and for any number of streams and
  tasks; from it `VersionsAreOfPaths`, `SamplesAreFinite` and `SocketDirsSurvive`. That a report names one binary needs
  that each program point says what was read (`Reading`): at `attributes` the item holds the version
  of the goroutine's own copy of the path. `SocketKept` carries the directory of the start from
  `TaskState` to a recovered client.
* `TaskContractProofs`: `OwnInvariant`, and from it `OneMonitorHolds`, `NoLiveVmDropped` (if no executor
  dies), `OnlyStartsLose` and the refinement `DriverKeepsContract`. All assume that Nomad does not make two calls
  for one ID at once (`Disciplined`), the last three also that the state Nomad has saved can be read
  (`StateReadable`): `RecoverTask` gives up at once what it cannot decode, running or not. Every other hazard
  is allowed. `KeepsContract` is not a matter of one step:
  that `Reply` finds Nomad without a handle, that a failed `Probe` is about a VM that ended, that a
  destroy forgets a VM that ended or is doomed, needs to know who owns what at every stage of
  every call. `OwnInv` says it: a task has one VM and Nomad, the store and each handle hold that one
  (`OneStart`, `SavedIsOwn`, `StoreOwn`, `HandleOwn`); a VM has no handle before `Register` or `Adopt`
  (`StartOwn`, `RecoverOwn`); a destroy past its signal has a finished VM (`UseOwn`); recoveries, destroys and
  the start of one task exclude each other (`Exclusive`). The proof takes `OwnInv` action by
  action: lemmas say what a step does to the VMs (`VmsGrow`) and that the calls of other tasks neither see
  nor disturb it; then each action is an action of the contract or invisible.

* `QuietProofs`: `NoVmIsOrphaned`, if the plugin does not die, no host command fails and calls do not
  overlap (`NothingFails`): executors may die, tags move, running tasks be destroyed. It needs
  `Steady`, that nothing is recovered as long as the store has what Nomad has, and then only two steps
  matter: a `DestroyForget`, whose VM `OwnInv` knows to be finished, and a start that ends, which by
  then has its handle in the store or no VM under a living executor. On the `QuietHost`, where
  also executors live, tags stay and only tasks seen to exit are destroyed, `QuietInvariant` adds what each
  stage finds of the host (`CallClean`), and gives `ResourcesAreOwned` and `DestroysCleanUp`. A tap passes from its start to the handle with the configuration that asked for
  it, and from there to the destroy; that one takes it down while no VM holds it because a task has
  one VM and this one has ended.
* `LeakProofs`: `OnlyFailuresLeak`, if calls do not overlap, whatever else fails. The handle that a start
  answers with and the one a destroy works on are the one in the store, and a destroy that has left the
  store has removed its seed image if host commands succeed (`LeakInv`). An owner then passes from start to
  store to destroy, and disappears only in a start that returns an error, a start whose image changes
  under it, or a destroy that could not remove the seed image or whose `Down` fails. `OnlyDestroysCutNetworks`
  needs no more: only a destroy of the task takes a tap down that is up (`TapsFall`), its handle is of the one
  VM of the task, and if it was not refused, that VM has ended, been sent SIGKILL or lost its executor. `NetworksStayUp` needs less than the quiet host: tags and executors stay and a task
  is destroyed once, when it is seen to have exited (`OrderlyDestroys`), but host commands may fail, pids be
  reused and the plugin die. Its invariant `TapInv` says that a start past its tap has the one its
  configuration asks for, and that whoever may take a tap down has no VM that runs; what fails gives no tap up, and a
  recovered handle knows of none.

Liveness. Four of the liveness properties are theorems under the fairness of section 3:
`StopsEndTasks` and `WaitersAreAnswered` (`TaskDriverProofs`), `StreamsEnd` and
`FingerprintsCatchUp` (`StreamsProofs`), under every set of hazards. What TLAPS cannot do is to find
out when an action is enabled: to it `ENABLED` is an unknown predicate. So each theorem has one
hypothesis, that whoever has something to do can do it: `[]NobodyStalls` and `[]NeverHeldUp`. They
say of each action under fairness that the condition under which the code goes on
(`RunDue`, `WaitDue`, `KillDue`; `Runnable`, `Due`) implies `ENABLED` of the action, and TLC checks
them as invariants of `live` and `streams`. They can fail: a monitor that writes no result
but waits for a second try holds up its waiters. Everything else is proved.

* `StopsEndTasks`: a `StopTask` that polls leaves its loop because the pid is gone, or because the
  grace period is and it sends a SIGKILL, which is delivered; or the plugin dies, and the call with
  it. A `DestroyTask` past its kill needs no plugin any more: its VM has ended, or a SIGKILL is under
  way. Both rest on `SealedInv`: whoever holds a VM holds one that was launched (`KnownLaunched`), and
  a destroy past its kill one that is dead, killed or watched by no executor (`DestroysFinish`). The VM stays the
  one that was signalled (`Wired`); a launched VM runs until it has ended, and a pending SIGKILL
  stays pending till then (`VmsGoOn`).
* `WaitersAreAnswered`: a waiter whose VM or executor has ended stays one (`IdlersStay`, `OverdueMoves`),
  while the handle's monitor first records the exit and then closes `doneCh`, each once and for good, or panics
  and takes the plugin down with its calls; with `doneCh` closed the waiter reads, and sends. A cancelled
  wait leaves by `ctx.Done` (`LeavingMoves`), and nothing but a cancellation makes one (`Cancels`), so only a host on which waits are
  cancelled can leave a goroutine stuck in its send.
* `StreamsEnd`: a stream whose receiver stays is attended, so its sends get through and it comes
  back to `select` again and again; there a context that is done is among the ready cases, and
  `SF(Done)` ends it, while the channel of a dead executor is closed once its last sample is out.
* `FingerprintsCatchUp`: once nothing changes any more, a report that was begun before is delivered
  first; the next one reads only the settled state (`OnTrack`), so it is what Nomad hears, and what it
  hears from then on.

Assumptions: `HostAssumption`, `DriverAssumption`, `CacheAssumption`, `ConfigAssumption` and `StreamsAssumption` (the null value is outside the
sets it joins, hazards and configurations are known ones, no job or image names the driver's own files, a manifest lists file names), evaluated in the
runs.

The faults `statFails` and `tagRaces` are in no passing run: with the one `CompleteIsStable` fails, with the
other `CompleteIsWhole` does (run `tag_move`). What remains true with them is proved only: with `tagRaces`
`CacheInvariant`, `MarkedHasImage` and `MarkedIsStable`, with both `WritersExclude` and `HoldersComeCloser`.

Only model-checked: `NobodyStalls` and `NeverHeldUp`, because they contain `ENABLED`; and
`LockIsFreed`, which needs an induction over the number of blobs with a temporal formula as its
hypothesis, for which no rule is available here. `HoldersComeCloser` is its safety half.

## 5. Not modelled

Several networks per task in the life cycle (`StartConfig` has them) and the `ip` commands of `Up` and
`Down` one by one (a step leaves what a failure in between would); which tool makes the seed image;
registry credentials and progress messages; the agent's configuration and the texts of a
fingerprint; the requests of the API client that nobody calls, and the types of `chtypes.go`, which are
data; a crash of the whole host, whose effect on files is the file system's; `InspectTask`, which
only reads; the entry point and the test harness.

## 6. Plan

1. Done: `VmHost`, `TaskDriver`; `OciCache` with `ImageStore`; `StartConfig`; `Streams`; `TaskContract`
   and the refinement; the theorems above, of safety and of liveness.
2. `TapDevice`: the `ip` commands one by one, with failure at each, implementing the taps of `VmHost`.
