----------------------------- MODULE TaskDriver -----------------------------
(***************************************************************************)
(* The task life cycle of the plugin: chdriver/driver.go (StartTask,       *)
(* RecoverTask, WaitTask, StopTask, SignalTask, DestroyTask), the task     *)
(* store of chdriver/state.go and the handles of chdriver/handle.go, on    *)
(* the host of VmHost.                                                     *)
(*                                                                         *)
(* Every RPC runs on a goroutine of its own (an element of Call); pc says  *)
(* what it does next.  One step is the code between two points where       *)
(* another goroutine or the host can be observed: a host command, a system *)
(* call, a lock of the store or of a handle, a channel operation.          *)
(***************************************************************************)
EXTENDS VmHost

CONSTANTS
    Call,        \* goroutines serving RPCs; bounds how many overlap
    Handle,      \* taskHandle objects; bounds how many one plugin allocates
    JobConfigs   \* the task configurations jobs are submitted with

\* What of TaskConfig decides the life cycle: a network with auto-tuntap, a
\* cloud-init block, and whether these come from the metadata of an OCI image.
Config == [net : BOOLEAN, seed : BOOLEAN, oci : BOOLEAN]

ZeroConfig == [net |-> FALSE, seed |-> FALSE, oci |-> FALSE]

ASSUME DriverAssumption ==
    /\ JobConfigs \subseteq Config
    /\ None \notin Handle

VARIABLES
    tasks,    \* taskStore.store: [Task -> Handle or None]
    handle,   \* the taskHandle objects of this plugin process
    call,     \* the RPC goroutines and their local variables
    up,       \* the plugin process is running
    saved     \* Nomad's copy of each TaskHandle: the start it belongs to

pluginVars == <<tasks, handle, call, up>>
vars == <<vm, tap, seed, tasks, handle, call, up, saved>>

\* "zero" is the empty ExitResult of a recovered handle, "error" an
\* ExitResult with Err set.
Result == ExitStatus \union {None, "zero", "error"}

HandleRecord ==
    [ vm         : Vm \union {None},    \* pid and socketPath
      exec       : BOOLEAN,             \* exec is not nil
      cfg        : Config,              \* driverConfig
      procState  : {"running", "exited"},
      exitResult : Result,
      done       : BOOLEAN ]            \* doneCh is closed

StartPc == {"executor", "seed", "tap", "payload", "launch", "register", "reply"}
RecoverPc == {"reattach", "probe", "adopt"}
StopPc == {"poll"}
DestroyPc == {"kill", "forget", "down", "refuse"}
WaitPc == {"wait", "send", "cancelled", "stuck"}
Pc == {"idle"} \union StartPc \union RecoverPc \union StopPc \union DestroyPc \union WaitPc

CallRecord ==
    [ pc     : Pc,
      task   : Task \union {None},
      vm     : Vm \union {None},
      handle : Handle \union {None},
      cfg    : Config,
      exec   : BOOLEAN,
      result : Result ]

IdleCall == [pc |-> "idle", task |-> None, vm |-> None, handle |-> None,
             cfg |-> ZeroConfig, exec |-> FALSE, result |-> None]

FreeHandle == [vm |-> None, exec |-> FALSE, cfg |-> ZeroConfig,
               procState |-> "running", exitResult |-> None, done |-> FALSE]

TypeOK ==
    /\ HostTypeOK
    /\ tasks \in [Task -> Handle \union {None}]
    /\ handle \in [Handle -> HandleRecord]
    /\ call \in [Call -> CallRecord]
    /\ up \in BOOLEAN
    /\ saved \in [Task -> Vm \union {None}]

Init ==
    /\ HostInit
    /\ tasks = [t \in Task |-> None]
    /\ handle = [h \in Handle |-> FreeHandle]
    /\ call = [c \in Call |-> IdleCall]
    /\ up = TRUE
    /\ saved = [t \in Task |-> None]

-----------------------------------------------------------------------------
(* Goroutines.                                                             *)

At(c, pc) == call[c].pc = pc
Goto(c, pc) == call' = [call EXCEPT ![c].pc = pc]
Return(c) == call' = [call EXCEPT ![c] = IdleCall]
Fails(c) == "hostFails" \in Hazards /\ Return(c)

\* A new RPC for task t takes a goroutine.
Begins(c, t) == up /\ At(c, "idle") /\ t \in Task

IsFree(h) == handle[h].vm = None
IsRunning(h) == handle[h].procState = "running"
PidOf(c) == handle[call[c].handle].vm

\* Nomad gives every start a fresh invocation ID, starts, recovers and destroys
\* a task in one goroutine, and makes the other calls on a handle it holds.
\* "duplicateCalls" is an RPC client without that discipline.
MayStart(t) == "duplicateCalls" \in Hazards \/ \A v \in Vm : vm[v].task # t
NotBusy(t) ==
    \/ "duplicateCalls" \in Hazards
    \/ \A c \in Call : ~(call[c].task = t /\ call[c].pc \in StartPc \union RecoverPc \union DestroyPc)
Known(t) == saved[t] # None

-----------------------------------------------------------------------------
(* StartTask.                                                              *)

\* The store is checked here and written in Register, without a lock held
\* between the two.  Decoding the configuration, or reading the image's
\* metadata, may fail: then nothing has happened yet.
StartTask(c, t) ==
    /\ Begins(c, t)
    /\ MayStart(t)
    /\ tasks[t] = None
    /\ \E v \in Vm, k \in JobConfigs :
         /\ vm[v].task = None
         /\ vm' = [vm EXCEPT ![v].task = t]
         /\ call' = [call EXCEPT ![c] = [IdleCall EXCEPT !.pc = "executor",
                                                         !.task = t,
                                                         !.vm = v,
                                                         !.cfg = k]]
    /\ UNCHANGED <<tap, seed, tasks, handle, up, saved>>

CreateExecutor(c) ==
    /\ At(c, "executor")
    /\ \/ Goto(c, "seed") /\ vm' = [vm EXCEPT ![call[c].vm].exec = "alive"]
       \/ Fails(c) /\ UNCHANGED vm
    /\ UNCHANGED <<tap, seed, tasks, handle, up, saved>>

\* CreateISO; one that fails may leave a file behind.
CreateSeed(c) ==
    /\ At(c, "seed")
    /\ \/ Goto(c, "tap") /\ seed' = [seed EXCEPT ![call[c].task] = @ \/ call[c].cfg.seed]
       \/ call[c].cfg.seed /\ Fails(c) /\ seed' \in {seed, [seed EXCEPT ![call[c].task] = TRUE]}
    /\ UNCHANGED <<vm, tap, tasks, handle, up, saved>>

RaiseTap(c) ==
    /\ At(c, "tap")
    /\ \/ ~call[c].cfg.net /\ Goto(c, "payload") /\ UNCHANGED tap
       \/ call[c].cfg.net /\ Goto(c, "payload") /\ TapUpOk(call[c].task)
       \/ call[c].cfg.net /\ Return(c) /\ TapUpFails(call[c].task)
    /\ UNCHANGED <<vm, seed, tasks, handle, up, saved>>

\* materializeOCIPayload rebuilds the configuration from the image it pulled,
\* which is not the image of the first read if the tag has moved.
Rebuilt(k) ==
    IF k.oci /\ "tagMoves" \in Hazards THEN [net : BOOLEAN, seed : BOOLEAN, oci : {TRUE}] ELSE {k}

\* Pull the image and create the overlay disks.
Materialize(c) ==
    /\ At(c, "payload")
    /\ \/ \E k \in Rebuilt(call[c].cfg) :
            call' = [call EXCEPT ![c].pc = "launch", ![c].cfg = k]
       \/ Fails(c)
    /\ UNCHANGED <<vm, tap, seed, tasks, handle, up, saved>>

\* The launch is a call to the executor; it also fails when the arguments
\* cannot be built (not enough memory for a guest).
Launch(c) ==
    /\ At(c, "launch")
    /\ \/ /\ vm[call[c].vm].exec = "alive"
          /\ Goto(c, "register")
          /\ vm' = [vm EXCEPT ![call[c].vm].proc = "running",
                              ![call[c].vm].net = call[c].cfg.net]
       \/ vm[call[c].vm].exec = "dead" /\ Return(c) /\ UNCHANGED vm
       \/ Fails(c) /\ UNCHANGED vm
    /\ UNCHANGED <<tap, seed, tasks, handle, up, saved>>

\* A handle enters the store and its run() goroutine starts.
Publish(c, h) ==
    /\ IsFree(h)
    /\ tasks' = [tasks EXCEPT ![call[c].task] = h]

\* The handle has no driverConfig.
RegisterMutant(c) ==
    /\ At(c, "register")
    /\ \/ /\ Goto(c, "reply")
          /\ \E h \in Handle :
               /\ Publish(c, h)
               /\ handle' = [handle EXCEPT ![h] = [FreeHandle EXCEPT !.vm = call[c].vm,
                                                                     !.exec = TRUE]]
       \/ Fails(c) /\ UNCHANGED <<tasks, handle>>
    /\ UNCHANGED <<vm, tap, seed, up, saved>>

Register(c) ==
    /\ At(c, "register")
    /\ \/ /\ Goto(c, "reply")
          /\ \E h \in Handle :
               /\ Publish(c, h)
               /\ handle' = [handle EXCEPT ![h] = [FreeHandle EXCEPT !.vm = call[c].vm,
                                                                     !.exec = TRUE,
                                                                     !.cfg = call[c].cfg]]
       \/ Fails(c) /\ UNCHANGED <<tasks, handle>>
    /\ UNCHANGED <<vm, tap, seed, up, saved>>

\* The handle that is returned has no TaskState in it.
ReplyMutant(c) ==
    /\ At(c, "reply")
    /\ Return(c)
    /\ UNCHANGED <<vm, tap, seed, tasks, handle, up, saved>>

\* Nomad receives the TaskHandle with its TaskState and persists it.
Reply(c) ==
    /\ At(c, "reply")
    /\ Return(c)
    /\ saved' = [saved EXCEPT ![call[c].task] = call[c].vm]
    /\ UNCHANGED <<vm, tap, seed, tasks, handle, up>>

-----------------------------------------------------------------------------
(* RecoverTask.                                                            *)

\* The store is not consulted.
RecoverTaskMutant(c, t) ==
    /\ Begins(c, t)
    /\ NotBusy(t)
    /\ Known(t)
    /\ call' = [call EXCEPT ![c] = [IdleCall EXCEPT !.pc = "reattach",
                                                    !.task = t,
                                                    !.vm = saved[t]]]
    /\ UNCHANGED <<vm, tap, seed, tasks, handle, up, saved>>

\* GetDriverState and ReattachConfigToGoPlugin fail on a state that cannot be
\* read: RecoverTask returns the error, and Nomad gives the task up.
RecoverTask(c, t) ==
    /\ Begins(c, t)
    /\ NotBusy(t)
    /\ Known(t)
    /\ tasks[t] = None
    /\ \/ /\ call' = [call EXCEPT ![c] = [IdleCall EXCEPT !.pc = "reattach",
                                                          !.task = t,
                                                          !.vm = saved[t]]]
          /\ UNCHANGED saved
       \/ "badState" \in Hazards /\ saved' = [saved EXCEPT ![t] = None] /\ UNCHANGED call
    /\ UNCHANGED <<vm, tap, seed, tasks, handle, up>>

\* ReattachToExecutor returns a nil Executor and an error when the executor is
\* gone; the error is never looked at (the next if declares an err of its own).
Reattach(c) ==
    /\ At(c, "reattach")
    /\ call' = [call EXCEPT ![c].pc = "probe", ![c].exec = vm[call[c].vm].exec = "alive"]
    /\ UNCHANGED <<vm, tap, seed, tasks, handle, up, saved>>

\* kill(pid, 0).  When it fails Nomad gives the task up.
Probe(c) ==
    /\ At(c, "probe")
    /\ \/ PidExists(call[c].vm) /\ Goto(c, "adopt") /\ UNCHANGED saved
       \/ /\ ~PidExists(call[c].vm)
          /\ Return(c)
          /\ saved' = [saved EXCEPT ![call[c].task] = None]
    /\ UNCHANGED <<vm, tap, seed, tasks, handle, up>>

\* procState is not set to running.
AdoptMutant(c) ==
    /\ At(c, "adopt")
    /\ Return(c)
    /\ \E h \in Handle :
         /\ Publish(c, h)
         /\ handle' = [handle EXCEPT ![h] = [FreeHandle EXCEPT !.vm = call[c].vm,
                                                               !.exec = call[c].exec,
                                                               !.procState = "exited",
                                                               !.exitResult = "zero"]]
    /\ UNCHANGED <<vm, tap, seed, up, saved>>

\* The new handle has no driverConfig.
Adopt(c) ==
    /\ At(c, "adopt")
    /\ Return(c)
    /\ \E h \in Handle :
         /\ Publish(c, h)
         /\ handle' = [handle EXCEPT ![h] = [FreeHandle EXCEPT !.vm = call[c].vm,
                                                               !.exec = call[c].exec,
                                                               !.exitResult = "zero"]]
    /\ UNCHANGED <<vm, tap, seed, up, saved>>

-----------------------------------------------------------------------------
(* taskHandle.run, one goroutine per handle.                               *)

\* Wait returns before the process has ended.
RecordExitMutant(h) ==
    /\ ~IsFree(h) /\ IsRunning(h) /\ handle[h].exec
    /\ handle' = [handle EXCEPT ![h].procState = "exited", ![h].exitResult = vm[handle[h].vm].status]
    /\ UNCHANGED <<vm, tap, seed, tasks, call, up, saved>>

\* A Wait that fails is tried again.
RecordExitRetryMutant(h) ==
    /\ ~IsFree(h) /\ IsRunning(h) /\ handle[h].exec
    /\ LET v == handle[h].vm IN
         /\ vm[v].exec = "alive" /\ Exited(v)
         /\ handle' = [handle EXCEPT ![h].procState = "exited", ![h].exitResult = vm[v].status]
    /\ UNCHANGED <<vm, tap, seed, tasks, call, up, saved>>

\* executor.Wait returns, and the outcome is recorded under stateLock.
RecordExit(h) ==
    /\ ~IsFree(h) /\ IsRunning(h) /\ handle[h].exec
    /\ LET v == handle[h].vm IN
         \/ /\ vm[v].exec = "alive" /\ Exited(v)
            /\ handle' = [handle EXCEPT ![h].procState = "exited", ![h].exitResult = vm[v].status]
         \/ /\ vm[v].exec = "dead"
            /\ handle' = [handle EXCEPT ![h].procState = "exited", ![h].exitResult = "error"]
    /\ UNCHANGED <<vm, tap, seed, tasks, call, up, saved>>

\* doneCh is closed before the outcome is recorded, ...
CloseDoneEarlyMutant(h) ==
    /\ ~IsFree(h) /\ ~handle[h].done
    /\ handle' = [handle EXCEPT ![h].done = TRUE]
    /\ UNCHANGED <<vm, tap, seed, tasks, call, up, saved>>

\* ... or not at all when Wait failed.
CloseDoneSkippedMutant(h) ==
    /\ ~IsFree(h) /\ ~IsRunning(h) /\ ~handle[h].done
    /\ handle[h].exitResult # "error"
    /\ handle' = [handle EXCEPT ![h].done = TRUE]
    /\ UNCHANGED <<vm, tap, seed, tasks, call, up, saved>>

CloseDone(h) ==
    /\ ~IsFree(h) /\ ~IsRunning(h) /\ ~handle[h].done
    /\ handle' = [handle EXCEPT ![h].done = TRUE]
    /\ UNCHANGED <<vm, tap, seed, tasks, call, up, saved>>

-----------------------------------------------------------------------------
(* WaitTask and its handleWait goroutine.                                  *)

\* An RPC that begins by looking its handle up.
Holds(c, t, pc) == [IdleCall EXCEPT !.pc = pc, !.task = t, !.handle = tasks[t]]

WaitTask(c, t) ==
    /\ Begins(c, t)
    /\ Known(t)
    /\ tasks[t] # None
    /\ call' = [call EXCEPT ![c] = Holds(c, t, "wait")]
    /\ UNCHANGED <<vm, tap, seed, tasks, handle, up, saved>>

\* The result is read without waiting.
WaitReadMutant(c) ==
    /\ call[c].pc \in {"wait", "cancelled"}
    /\ call' = [call EXCEPT ![c].pc = IF @ = "wait" THEN "send" ELSE "stuck",
                            ![c].result = handle[call[c].handle].exitResult]
    /\ UNCHANGED <<vm, tap, seed, tasks, handle, up, saved>>

\* The select takes the doneCh case and reads exitResult.  If the context is
\* also done the case may still be taken, and nobody receives what is sent.
WaitRead(c) ==
    /\ call[c].pc \in {"wait", "cancelled"}
    /\ handle[call[c].handle].done
    /\ call' = [call EXCEPT ![c].pc = IF @ = "wait" THEN "send" ELSE "stuck",
                            ![c].result = handle[call[c].handle].exitResult]
    /\ UNCHANGED <<vm, tap, seed, tasks, handle, up, saved>>

WaitSend(c) ==
    /\ At(c, "send")
    /\ Return(c)
    /\ UNCHANGED <<vm, tap, seed, tasks, handle, up, saved>>

\* Nomad cancels the wait's context: the receiver is gone.
CancelWait(c) ==
    /\ "waitCancel" \in Hazards
    /\ \/ At(c, "wait") /\ Goto(c, "cancelled")
       \/ At(c, "send") /\ Goto(c, "stuck")
    /\ UNCHANGED <<vm, tap, seed, tasks, handle, up, saved>>

WaitAbandon(c) ==
    /\ At(c, "cancelled")
    /\ Return(c)
    /\ UNCHANGED <<vm, tap, seed, tasks, handle, up, saved>>

-----------------------------------------------------------------------------
(* StopTask and SignalTask.                                                *)

\* What a job may name; cloud-hypervisor cannot ignore SIGKILL only.
Signal == {"INT", "TERM", "KILL"}

\* The signal goes to handle.pid whatever procState says; kill fails when
\* there is no such process, and StopTask returns the error.
StopTask(c, t) ==
    /\ Begins(c, t)
    /\ Known(t)
    /\ tasks[t] # None
    /\ LET v == handle[tasks[t]].vm IN
         /\ PidExists(v)
         /\ \E sig \in Signal : vm' = Signalled(v, sig)
    /\ call' = [call EXCEPT ![c] = Holds(c, t, "poll")]
    /\ UNCHANGED <<tap, seed, tasks, handle, up, saved>>

\* kill(pid, 0) fails: the process is gone.
StopPoll(c) ==
    /\ At(c, "poll")
    /\ ~PidExists(PidOf(c))
    /\ Return(c)
    /\ UNCHANGED <<vm, tap, seed, tasks, handle, up, saved>>

\* StopTask gives up at the deadline.
StopDeadlineMutant(c) ==
    /\ At(c, "poll")
    /\ Return(c)
    /\ UNCHANGED <<vm, tap, seed, tasks, handle, up, saved>>

\* The deadline passes.
StopDeadline(c) ==
    /\ At(c, "poll")
    /\ vm' = Signalled(PidOf(c), "KILL")
    /\ Return(c)
    /\ UNCHANGED <<tap, seed, tasks, handle, up, saved>>

SignalTask(t) ==
    /\ up
    /\ Known(t)
    /\ tasks[t] # None
    /\ \E sig \in Signal : vm' = Signalled(handle[tasks[t]].vm, sig)
    /\ UNCHANGED <<tap, seed, tasks, handle, call, up, saved>>

-----------------------------------------------------------------------------
(* DestroyTask.                                                            *)

\* The deferred tap clean-up runs on every path from here on, the refusal of
\* a running task included.
DestroyTask(c, t, force) ==
    /\ Begins(c, t)
    /\ NotBusy(t)
    /\ Known(t)
    /\ tasks[t] # None
    /\ "destroyRunning" \in Hazards \/ ~IsRunning(tasks[t])
    /\ call' = [call EXCEPT ![c] =
         Holds(c, t, IF IsRunning(tasks[t]) /\ ~force THEN "refuse" ELSE "kill")]
    /\ UNCHANGED <<vm, tap, seed, tasks, handle, up, saved>>

\* A forced destroy sends no signal.
DestroyKillMutant(c) ==
    /\ At(c, "kill")
    /\ Goto(c, "forget")
    /\ UNCHANGED <<vm, tap, seed, tasks, handle, up, saved>>

DestroyKill(c) ==
    /\ At(c, "kill")
    /\ vm' = IF IsRunning(call[c].handle) THEN Signalled(PidOf(c), "KILL") ELSE vm
    /\ Goto(c, "forget")
    /\ UNCHANGED <<tap, seed, tasks, handle, up, saved>>

\* The seed image stays.
DestroyForgetMutant(c) ==
    /\ At(c, "forget")
    /\ tasks' = [tasks EXCEPT ![call[c].task] = None]
    /\ Goto(c, "down")
    /\ UNCHANGED <<vm, tap, seed, handle, up, saved>>

\* Remove the seed image, go on if that fails, and delete the ID from the store,
\* whichever handle is there by now.
DestroyForget(c) ==
    /\ At(c, "forget")
    /\ LET asked == handle[call[c].handle].cfg.seed IN
         \/ seed' = [seed EXCEPT ![call[c].task] = @ /\ ~asked]
         \/ asked /\ "hostFails" \in Hazards /\ UNCHANGED seed
    /\ tasks' = [tasks EXCEPT ![call[c].task] = None]
    /\ Goto(c, "down")
    /\ UNCHANGED <<vm, tap, handle, up, saved>>

\* The deferred function.  After a destroy that was not refused Nomad forgets
\* the task.
DestroyDown(c) ==
    /\ call[c].pc \in {"down", "refuse"}
    /\ \/ ~handle[call[c].handle].cfg.net /\ UNCHANGED tap
       \/ handle[call[c].handle].cfg.net /\ TapDown(call[c].task)
    /\ saved' = IF At(c, "down") THEN [saved EXCEPT ![call[c].task] = None] ELSE saved
    /\ Return(c)
    /\ UNCHANGED <<vm, seed, tasks, handle, up>>

-----------------------------------------------------------------------------
(* The plugin process.                                                     *)

LosesMemory ==
    /\ up' = FALSE
    /\ tasks' = [t \in Task |-> None]
    /\ handle' = [h \in Handle |-> FreeHandle]
    /\ call' = [c \in Call |-> IdleCall]
    /\ UNCHANGED <<vm, tap, seed, saved>>

PluginCrash == "pluginCrash" \in Hazards /\ up /\ LosesMemory

\* run() calls Wait on a nil Executor; the panic takes the whole plugin down.
RunPanics(h) == ~IsFree(h) /\ ~handle[h].exec /\ LosesMemory

PluginRestart ==
    /\ ~up
    /\ up' = TRUE
    /\ UNCHANGED <<vm, tap, seed, tasks, handle, call, saved>>

-----------------------------------------------------------------------------
Rpc(c, t) ==
    \/ StartTask(c, t) \/ RecoverTask(c, t) \/ WaitTask(c, t) \/ StopTask(c, t)
    \/ \E force \in BOOLEAN : DestroyTask(c, t, force)

StartStep(c) ==
    \/ CreateExecutor(c) \/ CreateSeed(c) \/ RaiseTap(c) \/ Materialize(c)
    \/ Launch(c) \/ Register(c) \/ Reply(c)
RecoverStep(c) == Reattach(c) \/ Probe(c) \/ Adopt(c)
WaitStep(c) == WaitRead(c) \/ WaitSend(c) \/ CancelWait(c) \/ WaitAbandon(c)
StopStep(c) == StopPoll(c) \/ StopDeadline(c)
DestroyStep(c) == DestroyKill(c) \/ DestroyForget(c) \/ DestroyDown(c)
RunStep(h) == RecordExit(h) \/ CloseDone(h)

Next ==
    \/ \E c \in Call, t \in Task : Rpc(c, t)
    \/ \E t \in Task : SignalTask(t)
    \/ \E c \in Call :
         StartStep(c) \/ RecoverStep(c) \/ WaitStep(c) \/ StopStep(c) \/ DestroyStep(c)
    \/ \E h \in Handle : RunStep(h) \/ RunPanics(h)
    \/ PluginCrash \/ PluginRestart
    \/ HostNext /\ UNCHANGED <<tasks, handle, call, up, saved>>

Spec == Init /\ [][Next]_vars

\* The Go scheduler runs every goroutine that can run, a deadline passes, and
\* the kernel ends a process that was sent SIGKILL.  Nothing makes Nomad call,
\* a guest stop on its own, or a start's host commands return.
RunFairness(h) == WF_vars(RunStep(h) \/ RunPanics(h))
WaitFairness(c) == WF_vars(WaitRead(c) \/ WaitSend(c) \/ WaitAbandon(c))
StopFairness(c) == WF_vars(StopStep(c))
KillLands(v) == KilledVmExit(v) /\ UNCHANGED <<tasks, handle, call, up, saved>>
KillFairness(v) == WF_vars(KillLands(v))
Fairness ==
    /\ \A h \in Handle : RunFairness(h)
    /\ \A c \in Call : WaitFairness(c) /\ StopFairness(c)
    /\ \A v \in Vm : KillFairness(v)

FairSpec == Spec /\ Fairness
=============================================================================
