--------------------------- MODULE TaskProperties ---------------------------
(***************************************************************************)
(* What the task life cycle of TaskDriver must keep.  Every property names *)
(* the code that has to keep it; the MC*.cfg files say under which hazards *)
(* it does.                                                                *)
(***************************************************************************)
EXTENDS TaskDriver

Monitors(h, v) == handle[h].vm = v
InStore(v) == \E t \in Task : tasks[t] # None /\ Monitors(tasks[t], v)
Starting(c, v) == call[c].vm = v /\ call[c].pc \in StartPc

-----------------------------------------------------------------------------
(* Exit reporting: run, handleWait, and ExecutorCrash.                     *)

\* What a WaitTask hands to Nomad is how the VM really ended, or an error if
\* the executor that would know has died; never an empty result, never the
\* placeholder of a recovered handle, never the end of another VM.
\* (doneCh is closed after exitResult is set: handle.go run, driver.go handleWait.)
TrueEnd(v, r) ==
    \/ Exited(v) /\ r = vm[v].status /\ r # None
    \/ vm[v].exec = "dead" /\ r = "error"

ReportIsReal ==
    \A c \in Call : call[c].pc \in {"send", "stuck"} => TrueEnd(PidOf(c), call[c].result)

\* Why: a goroutine keeps the task, VM or handle it began with, ...
HoldsItsTask(r) ==
    /\ r.pc \in StartPc \union RecoverPc => r.task \in Task /\ r.vm \in Vm
    /\ r.pc \in StopPc \union DestroyPc \union WaitPc =>
         r.task \in Task /\ r.handle \in Handle /\ handle[r.handle].vm \in Vm
Wired ==
    /\ \A t \in Task : tasks[t] # None => handle[tasks[t]].vm # None
    /\ \A c \in Call : HoldsItsTask(call[c])

\* ... a start has an executor and a process of its own, made once, ...
Unlaunched == {"executor", "seed", "tap", "payload", "launch"}
Fresh ==
    /\ \A v \in Vm : vm[v].task = None => vm[v].exec = "none" /\ vm[v].proc = "none"
    /\ \A c \in Call : call[c].pc \in StartPc =>
         /\ vm[call[c].vm].task # None
         /\ call[c].pc = "executor" => vm[call[c].vm].exec = "none"
         /\ call[c].pc \in Unlaunched => vm[call[c].vm].proc = "none"
         /\ \A d \in Call : call[d].pc \in StartPc /\ call[d].vm = call[c].vm => d = c

\* ... a VM that has ended keeps its status, ...
StatusKept == \A v \in Vm : Exited(v) => vm[v].status # None

\* ... the outcome is recorded whole, and before doneCh is closed.
Recorded ==
    \A h \in Handle :
      /\ ~IsFree(h) /\ ~IsRunning(h) => TrueEnd(handle[h].vm, handle[h].exitResult)
      /\ handle[h].done => ~IsFree(h) /\ ~IsRunning(h)

\* The inductive invariant behind ReportIsReal and ExitedVmIsDead.
ExitInv == TypeOK /\ Wired /\ Fresh /\ StatusKept /\ Recorded /\ ReportIsReal

\* A task the driver calls exited has no VM running: Nomad releases its
\* resources and DestroyTask no longer kills it.  (procState in handle.go run.)
ExitedVmIsDead ==
    \A h \in Handle : ~IsFree(h) /\ ~IsRunning(h) => Exited(handle[h].vm)

-----------------------------------------------------------------------------
(* Ownership of VMs and host resources.                                    *)

\* A VM that runs can be reached through the store, or is about to be put
\* there by its StartTask, or has been sent SIGKILL: DestroyTask never drops
\* the last reference to a live VM.  (One whose executor has died is lost: run
\* reports it exited, and DestroyTask does not kill what has exited.)
NoOrphan ==
    up => \A v \in Vm : Running(v) /\ ~vm[v].killed /\ vm[v].exec = "alive" =>
            InStore(v) \/ \E c \in Call : Starting(c, v)

\* One run() goroutine waits on each VM; RecoverTask never adds a second.
OneMonitor ==
    \A g, h \in Handle : ~IsFree(g) /\ Monitors(h, handle[g].vm) => g = h

\* Someone is to take down the tap and remove the seed image of a task: the
\* StartTask that made them, the handle that remembers its configuration, or
\* a DestroyTask until it returns.
OwnedBy(t, Asks(_)) ==
    \/ tasks[t] # None /\ Asks(handle[tasks[t]].cfg)
    \/ \E c \in Call :
         /\ call[c].task = t
         /\ \/ call[c].pc \in StartPc /\ Asks(call[c].cfg)
            \/ call[c].pc \in DestroyPc /\ Asks(handle[call[c].handle].cfg)

HostResourcesOwned ==
    up => \A t \in Task :
            /\ tap[t] # "absent" => OwnedBy(t, LAMBDA k : k.net)
            /\ seed[t] => OwnedBy(t, LAMBDA k : k.seed)

\* A VM that runs has its network: nothing takes its tap down under it.
NetworkUp == \A v \in Vm : Running(v) /\ vm[v].net => tap[vm[v].task] = "up"

\* A VM loses its tap while it runs only to a DestroyTask: one that goes through,
\* whose kill is pending or whose executor could not say that the VM runs; or one
\* refused because the task runs, which takes the tap down all the same.  No other
\* task's destroy, no start and no recovery does it.  (driver.go DestroyTask, the
\* deferred Down.)
NetworkCutOnlyByDestroy ==
    [][\A v \in Vm : LET t == vm[v].task IN
         Running(v) /\ Running(v)' /\ vm[v].net /\ tap[t] = "up" /\ tap'[t] # "up" =>
           \E c \in Call :
             /\ call[c].task = t
             /\ At(c, "refuse") \/ (At(c, "down") /\ (vm[v].killed \/ vm[v].exec = "dead"))]_vars

\* "DestroyTask cleans up": when it returns successfully the task's tap and
\* seed image are gone.
Destroyed(c) == At(c, "down") /\ call'[c].pc = "idle" /\ up'
DestroyCleansUp ==
    [][\A c \in Call : Destroyed(c) => LET t == call[c].task IN tap'[t] = "absent" /\ ~seed'[t]]_vars

\* While its VM runs Nomad keeps the handle of a task, over crashes of the
\* plugin: neither a RecoverTask nor a DestroyTask loses a live VM.  (As long as
\* the state Nomad kept can be read: RecoverTask gives up at once otherwise.)
NeverDropRunningVm ==
    [][\A t \in Task : saved[t] # None /\ saved'[t] # saved[t] =>
         ~Running(saved[t]) \/ vm[saved[t]].killed]_vars

\* A start that fails or is cut short is the only thing that can lose a VM: one
\* that runs can be reached through the store or the handle Nomad holds, or is
\* still being started.  (The windows of StartTask between the launch and the
\* reply; from then on RecoverTask finds it.)
Reachable(v) ==
    InStore(v) \/ (\E t \in Task : saved[t] = v) \/ \E c \in Call : Starting(c, v)
AtLarge(v) == Running(v) /\ ~vm[v].killed /\ vm[v].exec = "alive" /\ ~Reachable(v)
LostOnlyByStart ==
    [][\A v \in Vm : AtLarge(v)' /\ ~AtLarge(v) => \E c \in Call : Starting(c, v)]_vars

\* A tap or a seed image is left without an owner by a start that fails or whose
\* image changes under it, and by the DestroyTask that could not delete it (and
\* still forgets the handle); nothing else but the death of the plugin leaves one.
Leaked(t, made, Asks(_)) == made /\ ~OwnedBy(t, Asks)
TapLeaked(t) == Leaked(t, tap[t] # "absent", LAMBDA k : k.net)
SeedLeaked(t) == Leaked(t, seed[t], LAMBDA k : k.seed)
StartFailed(c, t) ==
    /\ call[c].task = t
    /\ call[c].pc \in StartPc
    /\ \/ ~At(c, "reply") /\ call'[c].pc = "idle"
       \/ At(c, "payload") /\ call'[c].cfg # call[c].cfg
DeletionFailed(c, t) ==
    call[c].task = t /\ At(c, "down") /\ (TapBusy(t) \/ "hostFails" \in Hazards)
RemovalFailed(c, t) ==
    /\ call[c].task = t /\ At(c, "down") /\ seed[t] /\ handle[call[c].handle].cfg.seed
    /\ "hostFails" \in Hazards
LeaksOnlyByFailure ==
    [][up' => \A t \in Task :
         /\ SeedLeaked(t)' /\ ~SeedLeaked(t) =>
              \E c \in Call : StartFailed(c, t) \/ RemovalFailed(c, t)
         /\ TapLeaked(t)' /\ ~TapLeaked(t) =>
              \E c \in Call : StartFailed(c, t) \/ DeletionFailed(c, t)]_vars

-----------------------------------------------------------------------------
(* The life cycle implements TaskContract.                                 *)

LifeOf(v) ==
    CASE vm[v].proc = "none" -> "fresh"
      [] Running(v) -> IF vm[v].killed THEN "doomed" ELSE "running"
      [] Exited(v) -> "ended"

WaiterOf(c) ==
    CASE call[c].pc \in {"wait", "cancelled"} ->
           [state |-> "asked", vm |-> PidOf(c), told |-> None]
      [] call[c].pc \in {"send", "stuck"} ->
           [state |-> "told", vm |-> PidOf(c), told |-> call[c].result]
      [] OTHER -> [state |-> "idle", vm |-> None, told |-> None]

Contract ==
    INSTANCE TaskContract
      WITH Wait    <- Call,
           owner   <- [v \in Vm |-> vm[v].task],
           life    <- [v \in Vm |-> LifeOf(v)],
           outcome <- [v \in Vm |-> vm[v].status],
           blind   <- [v \in Vm |-> vm[v].exec = "dead"],
           holds   <- saved,
           waiter  <- [c \in Call |-> WaiterOf(c)]

\* Whatever store, handles and goroutines do, and although the plugin dies at
\* any moment, Nomad sees a driver that keeps TaskContract: it holds a task's
\* own VM, gives none up that runs, and its waits are told the truth.
KeepsContract == Contract!Spec

\* Why, as long as nobody calls twice for one ID: a task has one VM, and whoever
\* holds a task (Nomad, the store, a goroutine) holds that one, launched; ...
Launched(v) == vm[v].proc # "none"
Finished(v) == vm[v].killed \/ Exited(v) \/ vm[v].exec = "dead"
Owns(t, v) == vm[v].task = t /\ Launched(v)
Monitored(v) == \E h \in Handle : Monitors(h, v)

OneStart ==
    /\ \A u, v \in Vm : vm[u].task = vm[v].task /\ vm[u].task # None => u = v
    /\ \A v \in Vm : ~Launched(v) => ~vm[v].killed
SavedIsOwn == \A t \in Task : saved[t] # None => Owns(t, saved[t])

\* ... a VM gets its handle once, when it is registered or adopted, and a
\* DestroyTask that goes through with it has seen to the VM's end; ...
StartOwn(r) ==
    /\ vm[r.vm].task = r.task /\ saved[r.task] = None
    /\ r.pc \in {"register", "reply"} => Launched(r.vm)
    /\ r.pc # "reply" => ~Monitored(r.vm)
    /\ r.pc = "reply" => tasks[r.task] # None /\ Monitors(tasks[r.task], r.vm)
RecoverOwn(r) ==
    saved[r.task] = r.vm /\ tasks[r.task] = None /\ ~Monitored(r.vm)
UseOwn(r) ==
    /\ Owns(r.task, handle[r.handle].vm)
    /\ r.pc \in {"forget", "down"} => Finished(handle[r.handle].vm)
    /\ r.pc = "down" => tasks[r.task] = None
CallOwn(r) ==
    /\ r.pc \in StartPc => StartOwn(r)
    /\ r.pc \in RecoverPc => RecoverOwn(r)
    /\ r.pc \in StopPc \union DestroyPc \union WaitPc => UseOwn(r)

\* ... a task in the store is held by Nomad too, but while its start has not
\* answered; a handle leaves the store only if Nomad gives its task up; ...
StoreOwn ==
    \A t \in Task : tasks[t] # None =>
      LET v == handle[tasks[t]].vm IN
        /\ Owns(t, v)
        /\ saved[t] = v \/ \E c \in Call : At(c, "reply") /\ call[c].vm = v
HandleOwn ==
    \A h \in Handle : ~IsFree(h) =>
      LET t == vm[handle[h].vm].task IN
        /\ Launched(handle[h].vm) /\ t # None
        /\ tasks[t] = h \/ saved[t] = None \/ \E c \in Call : At(c, "down") /\ call[c].task = t

\* ... and recoveries and destroys of a task exclude each other and its start.
Exclusive ==
    \A c, d \in Call :
      /\ call[c].pc \in RecoverPc \union DestroyPc
      /\ call[d].pc \in StartPc \union RecoverPc \union DestroyPc
      /\ call[c].task = call[d].task
      => c = d

\* The inductive invariant behind KeepsContract, OneMonitor, NeverDropRunningVm
\* and LostOnlyByStart, on top of ExitInv.
OwnInv ==
    /\ OneStart /\ SavedIsOwn /\ StoreOwn /\ HandleOwn /\ Exclusive /\ OneMonitor
    /\ \A c \in Call : CallOwn(call[c])

\* While the plugin lives nothing is recovered: every handle has an executor,
\* and the store has what Nomad has, but for a destroy that has not answered.
Steady ==
    /\ up /\ \A c \in Call : call[c].pc \notin RecoverPc
    /\ \A h \in Handle : ~IsFree(h) => handle[h].exec
    /\ \A t \in Task : saved[t] # None =>
         tasks[t] # None \/ \E c \in Call : At(c, "down") /\ call[c].task = t

\* On a host where nothing fails a start finds no tap and leaves the one its VM
\* needs; only VMs that have ended are destroyed, and the seed image goes first.
CallClean(r) ==
    /\ r.pc \in {"executor", "seed", "tap"} => tap[r.task] = "absent"
    /\ r.pc \in StartPc \ {"executor"} => vm[r.vm].exec = "alive"
    /\ r.pc \in {"payload", "launch", "register", "reply"} /\ r.cfg.net => tap[r.task] = "up"
    /\ r.pc = "reply" => handle[tasks[r.task]].cfg = r.cfg
    /\ r.pc \in DestroyPc => r.pc # "refuse" /\ Exited(handle[r.handle].vm)
    /\ r.pc = "down" => ~seed[r.task]

\* The inductive invariant behind HostResourcesOwned, NetworkUp and
\* DestroyCleansUp, on top of ExitInv and OwnInv.
QuietInv ==
    Steady /\ HostResourcesOwned /\ NetworkUp /\ \A c \in Call : CallClean(call[c])

-----------------------------------------------------------------------------
(* What a comment says of a step and the environment can break.            *)

\* "Recreate the executor client so we can monitor the process": a handle in
\* the store has an executor to wait on.
MonitorAttached == \A h \in Handle : ~IsFree(h) => handle[h].exec

-----------------------------------------------------------------------------
(* Progress.                                                               *)

\* Nobody waits for what has happened: once its VM or its executor has ended
\* run() comes to close doneCh (or panics), a handleWait whose doneCh is closed or
\* whose context is done goes on, a StopTask is at its next poll, and SIGKILL ends
\* a VM.
Over(v) == Exited(v) \/ vm[v].exec = "dead"
RunDue(h) == ~IsFree(h) /\ ~handle[h].done /\ Over(handle[h].vm)
WaitDue(c) == call[c].pc \in {"send", "cancelled"} \/ (At(c, "wait") /\ handle[call[c].handle].done)
KillDue(v) == vm[v].killed /\ Running(v)
RunGoesOn(h) == RunDue(h) => ENABLED <<RunStep(h) \/ RunPanics(h)>>_vars
CallGoesOn(c) ==
    /\ WaitDue(c) => ENABLED <<WaitRead(c) \/ WaitSend(c) \/ WaitAbandon(c)>>_vars
    /\ At(c, "poll") => ENABLED <<StopStep(c)>>_vars
KillGoesOn(v) == KillDue(v) => ENABLED <<KillLands(v)>>_vars
NobodyStalls ==
    /\ \A h \in Handle : RunGoesOn(h)
    /\ \A c \in Call : CallGoesOn(c)
    /\ \A v \in Vm : KillGoesOn(v)

\* A StopTask that got its first signal through ends the VM, in the grace period
\* or by SIGKILL, unless the plugin dies before; a DestroyTask that got past its
\* own kill ends it even then, if the executor was there to say whether it runs.
Stopping(c, v) == At(c, "poll") /\ PidOf(c) = v
Destroying(c, v) == call[c].pc \in {"forget", "down"} /\ PidOf(c) = v /\ vm[v].exec = "alive"
StopEndsTask ==
    \A c \in Call, v \in Vm :
      /\ Stopping(c, v) ~> Exited(v) \/ ~up
      /\ Destroying(c, v) ~> Exited(v)

\* A WaitTask whose VM ends, whose executor dies or whose context is cancelled
\* comes to an end.  Only the goroutine whose receiver has left just as it sends
\* ("stuck": the send has no ctx.Done alternative) stays behind.
WaitsOn(c, h) == call[c].pc \in {"wait", "send", "cancelled"} /\ call[c].handle = h
WaitEnds(c) == At(c, "idle") \/ ("waitCancel" \in Hazards /\ At(c, "stuck"))
WaiterAnswered ==
    \A c \in Call, h \in Handle :
      WaitsOn(c, h) /\ (Over(handle[h].vm) \/ ~At(c, "wait")) ~> WaitEnds(c)
=============================================================================
