---------------------------- MODULE QuietProofs -----------------------------
(***************************************************************************)
(* What the driver keeps while the plugin lives and the host does as it is *)
(* told: no VM is orphaned, and every tap and seed image has an owner that *)
(* takes it down; for any number of tasks, starts, goroutines and handles. *)
(***************************************************************************)
EXTENDS TaskContractProofs

\* No host command fails, the plugin lives, and nobody calls twice for one ID.
NothingFails == {"hostFails", "pluginCrash", "duplicateCalls"} \cap Hazards = {}

\* Nor does an executor die, a tag move, or a task get destroyed that has not
\* been seen to exit.
QuietHost ==
    NothingFails /\ {"executorCrash", "tagMoves", "destroyRunning"} \cap Hazards = {}

-----------------------------------------------------------------------------
(* What a step may do while the plugin lives.                              *)

\* A handle in use keeps its VM, its configuration and its executor.
HandlesKept ==
    \A h \in Handle : ~IsFree(h) =>
      /\ handle'[h].vm = handle[h].vm
      /\ handle'[h].cfg = handle[h].cfg
      /\ handle'[h].exec = handle[h].exec

\* Nobody starts or destroys a task, and store and host resources stay.
Apart ==
    /\ UNCHANGED <<tasks, tap, seed, up, saved>>
    /\ UNCHANGED handle \/ \E h \in Handle : RunStep(h)
    /\ \A d \in Call : call'[d] = call[d] \/ (call[d].pc \notin Busy /\ call'[d].pc \notin Busy)

\* The step is one of goroutine c alone.
Alone(c) == \A d \in Call \ {c} : call'[d] = call[d]

\* The task of a destroy that has not answered is busy, so no recovery begins.
LEMMA NoRecovery ==
    ASSUME NothingFails, ExitInv, Steady, NEW c \in Call, NEW t \in Task, RecoverTask(c, t)
    PROVE  FALSE
<1>1. saved[t] # None /\ tasks[t] = None /\ NotBusy(t)
  BY DEF RecoverTask, Known
<1>2. PICK d \in Call : At(d, "down") /\ call[d].task = t
  BY <1>1 DEF Steady
<1> QED
  BY <1>1, <1>2 DEF NotBusy, NothingFails, At, DestroyPc

\* Steps of waits and stops touch no store.
LEMMA WaitsApart ==
    ASSUME TypeOK, NEW c \in Call,
           \/ WaitStep(c) \/ StopStep(c)
           \/ \E t \in Task : WaitTask(c, t) \/ StopTask(c, t)
    PROVE  Apart
<1>c. call \in [Call -> CallRecord]
  BY DEF TypeOK
<1>b. \A p \in Busy : p # "idle" /\ p \notin WaitPc \union StopPc
  BY DEF Busy, StartPc, RecoverPc, DestroyPc, WaitPc, StopPc
<1>1. CASE WaitStep(c)
  <2>1. UNCHANGED <<tasks, tap, seed, up, saved, handle>>
    BY <1>1 DEF WaitStep, WaitRead, WaitSend, CancelWait, WaitAbandon
  <2>2. Alone(c) /\ call[c].pc \in WaitPc /\ call'[c].pc \in WaitPc \union {"idle"}
    BY <1>c, <1>1 DEF WaitStep, WaitRead, WaitSend, CancelWait, WaitAbandon, Alone, At, Goto, Return,
                      IdleCall, WaitPc, CallRecord
  <2> QED
    BY <1>b, <2>1, <2>2 DEF Apart, Alone
<1>2. CASE StopStep(c)
  <2>1. UNCHANGED <<tasks, tap, seed, up, saved, handle>>
    BY <1>2 DEF StopStep, StopPoll, StopDeadline
  <2>2. Alone(c) /\ call[c].pc \in StopPc /\ call'[c].pc = "idle"
    BY <1>c, <1>2 DEF StopStep, StopPoll, StopDeadline, Alone, At, Return, IdleCall, StopPc
  <2> QED
    BY <1>b, <2>1, <2>2 DEF Apart, Alone
<1>3. ASSUME NEW t \in Task, WaitTask(c, t) \/ StopTask(c, t) PROVE Apart
  <2>1. UNCHANGED <<tasks, tap, seed, up, saved, handle>>
    BY <1>3 DEF WaitTask, StopTask
  <2>2. call[c].pc = "idle" /\ \E pc \in WaitPc \union StopPc : call' = [call EXCEPT ![c] = Holds(c, t, pc)]
    BY <1>3 DEF WaitTask, StopTask, Begins, At, WaitPc, StopPc
  <2>3. Alone(c) /\ call'[c].pc \in WaitPc \union StopPc
    BY <1>c, <2>2 DEF Alone, Holds, IdleCall
  <2> QED
    BY <1>b, <2>1, <2>2, <2>3 DEF Apart, Alone
<1> QED
  BY <1>1, <1>2, <1>3

\* The steps of a start and of a destroy are one goroutine's.
LEMMA StepsAlone ==
    ASSUME TypeOK, NEW c \in Call,
           \/ StartStep(c) \/ DestroyStep(c)
           \/ \E t \in Task : StartTask(c, t) \/ \E force \in BOOLEAN : DestroyTask(c, t, force)
    PROVE  Alone(c)
<1>c. call \in [Call -> CallRecord]
  BY DEF TypeOK
<1>1. ASSUME NEW t \in Task, StartTask(c, t) PROVE Alone(c)
  BY <1>c, <1>1 DEF StartTask, Alone
<1>2. ASSUME NEW t \in Task, NEW force \in BOOLEAN, DestroyTask(c, t, force) PROVE Alone(c)
  BY <1>c, <1>2 DEF DestroyTask, Alone
<1>3. CASE StartStep(c)
  BY <1>c, <1>3 DEF StartStep, CreateExecutor, CreateSeed, RaiseTap, Materialize, Launch, Register, Reply,
                    Alone, Goto, Return, Fails
<1>4. CASE DestroyStep(c)
  BY <1>c, <1>4 DEF DestroyStep, DestroyKill, DestroyForget, DestroyDown, Alone, Goto, Return
<1> QED
  BY <1>1, <1>2, <1>3, <1>4

\* What is left of Next while the plugin lives.
LEMMA QuietSteps ==
    ASSUME NothingFails, ExitInv, Steady, [Next]_vars
    PROVE  \/ \E c \in Call, t \in Task : StartTask(c, t)
           \/ \E c \in Call : StartStep(c)
           \/ \E c \in Call, t \in Task, force \in BOOLEAN : DestroyTask(c, t, force)
           \/ \E c \in Call : DestroyStep(c)
           \/ Apart
<1>t. TypeOK
  BY DEF ExitInv
<1>1. ASSUME NEW c \in Call, RecoverStep(c) PROVE FALSE
  BY <1>1 DEF RecoverStep, Reattach, Probe, Adopt, At, Steady, RecoverPc
<1>2. ASSUME NEW h \in Handle, RunPanics(h) PROVE FALSE
  BY <1>2 DEF RunPanics, Steady
<1>3. ~PluginCrash /\ ~PluginRestart
  BY DEF PluginCrash, PluginRestart, NothingFails, Steady
<1>4. ASSUME \/ \E t \in Task : SignalTask(t)
             \/ \E h \in Handle : RunStep(h)
             \/ HostNext /\ UNCHANGED <<tasks, handle, call, up, saved>>
             \/ UNCHANGED vars
      PROVE  Apart
  <2>1. UNCHANGED <<tasks, tap, seed, up, saved, call>>
    BY <1>4 DEF SignalTask, RunStep, RecordExit, CloseDone, vars, HostNext, VmExit, PidReuse, ExecutorCrash
  <2>2. UNCHANGED handle \/ \E h \in Handle : RunStep(h)
    BY <1>4 DEF SignalTask, vars
  <2> QED
    BY <2>1, <2>2 DEF Apart
<1> QED
  BY <1>t, <1>1, <1>2, <1>3, <1>4, NoRecovery, WaitsApart DEF Next, Rpc

\* A goroutine that moves is the one whose step it is.
LEMMA Mover ==
    ASSUME NothingFails, ExitInv, Steady, [Next]_vars, NEW d \in Call
    PROVE  \/ call'[d] = call[d]
           \/ call[d].pc \notin Busy /\ call'[d].pc \notin Busy
           \/ \E t \in Task : StartTask(d, t)
           \/ StartStep(d)
           \/ \E t \in Task, force \in BOOLEAN : DestroyTask(d, t, force)
           \/ DestroyStep(d)
<1>1. CASE Apart
  BY <1>1 DEF Apart
<1>2. ASSUME NEW c \in Call,
             \/ StartStep(c) \/ DestroyStep(c)
             \/ \E t \in Task : StartTask(c, t) \/ \E force \in BOOLEAN : DestroyTask(c, t, force)
      PROVE  c = d \/ call'[d] = call[d]
  <2>1. Alone(c)
    BY <1>2, StepsAlone DEF ExitInv
  <2> QED
    BY <2>1 DEF Alone
<1> QED
  BY <1>1, <1>2, QuietSteps

\* Only Register and run() touch a handle.
LEMMA HandlesStay ==
    ASSUME NothingFails, ExitInv, Steady, [Next]_vars
    PROVE  /\ HandlesKept
           /\ \/ UNCHANGED handle
              \/ \E h \in Handle : RunStep(h)
              \/ \E c \in Call : Register(c)
<1>t. handle \in [Handle -> HandleRecord]
  BY DEF ExitInv, TypeOK
<1>1. ASSUME NEW h \in Handle, RunStep(h) PROVE HandlesKept
  BY <1>t, <1>1 DEF RunStep, RecordExit, CloseDone, HandlesKept, HandleRecord
<1>2. ASSUME NEW c \in Call, Register(c) PROVE HandlesKept
  BY <1>t, <1>2 DEF Register, Publish, IsFree, HandlesKept
<1>3. UNCHANGED handle => HandlesKept
  BY DEF HandlesKept
<1>4. \/ UNCHANGED handle
      \/ \E h \in Handle : RunStep(h)
      \/ \E c \in Call : Register(c)
  <2>1. ASSUME NEW c \in Call, StartStep(c), ~Register(c) PROVE UNCHANGED handle
    BY <2>1 DEF StartStep, CreateExecutor, CreateSeed, RaiseTap, Materialize, Launch, Reply
  <2>2. ASSUME NEW c \in Call, DestroyStep(c) PROVE UNCHANGED handle
    BY <2>2 DEF DestroyStep, DestroyKill, DestroyForget, DestroyDown
  <2>3. ASSUME NEW c \in Call, NEW t \in Task,
               StartTask(c, t) \/ \E force \in BOOLEAN : DestroyTask(c, t, force)
        PROVE  UNCHANGED handle
    BY <2>3 DEF StartTask, DestroyTask
  <2> QED
    BY <2>1, <2>2, <2>3, QuietSteps DEF Apart
<1> QED
  BY <1>1, <1>2, <1>3, <1>4

-----------------------------------------------------------------------------
(* No VM is orphaned.                                                      *)

\* A task is registered when it is not in the store, and only a destroy of
\* the task takes it out again.
LEMMA StoreStays ==
    ASSUME NothingFails, ExitInv, OwnInv, Steady, [Next]_vars, NEW t \in Task
    PROVE  \/ tasks'[t] = tasks[t]
           \/ \E c \in Call : /\ Register(c) /\ At(c, "register") /\ call[c].task = t
                              /\ tasks[t] = None /\ tasks'[t] # None
           \/ \E c \in Call : /\ DestroyForget(c) /\ At(c, "forget") /\ call[c].task = t
                              /\ tasks'[t] = None
<1>t. TypeOK /\ Wired /\ tasks \in [Task -> Handle \union {None}]
  BY DEF ExitInv, TypeOK
<1>1. ASSUME NEW c \in Call, Register(c), tasks'[t] # tasks[t]
      PROVE  At(c, "register") /\ call[c].task = t /\ tasks[t] = None /\ tasks'[t] # None
  <2>1. At(c, "register")
    BY <1>1 DEF Register
  <2>2. PICK h \in Handle : tasks' = [tasks EXCEPT ![call[c].task] = h]
    BY <1>1 DEF Register, Publish
  <2>3. call[c].task = t /\ tasks'[t] = h
    BY <1>t, <1>1, <2>2
  <2>4. call[c].vm \in Vm /\ StartOwn(call[c])
    BY <1>t, <2>1, CallTypes DEF At, StartPc, OwnInv, CallOwn
  <2>5. ASSUME tasks[t] # None PROVE FALSE
    <3>1. Owns(t, handle[tasks[t]].vm) /\ tasks[t] \in Handle
      BY <1>t, <2>5 DEF OwnInv, StoreOwn
    <3>2. vm[call[c].vm].task = t /\ ~Monitored(call[c].vm)
      BY <2>1, <2>3, <2>4 DEF StartOwn, At
    <3>3. handle[tasks[t]].vm \in Vm
      BY <1>t, <2>5, <3>1 DEF Wired, TypeOK, HandleRecord
    <3>4. handle[tasks[t]].vm = call[c].vm
      BY <2>4, <3>1, <3>2, <3>3, HostAssumption DEF OwnInv, OneStart, Owns
    <3> QED
      BY <3>1, <3>2, <3>4 DEF Monitored, Monitors
  <2> QED
    BY <2>1, <2>3, <2>5, DriverAssumption
<1>2. ASSUME NEW c \in Call, DestroyForget(c), tasks'[t] # tasks[t]
      PROVE  At(c, "forget") /\ call[c].task = t /\ tasks'[t] = None
  BY <1>t, <1>2 DEF DestroyForget
<1>3. ASSUME NEW c \in Call, StartStep(c), ~Register(c) PROVE UNCHANGED tasks
  BY <1>3 DEF StartStep, CreateExecutor, CreateSeed, RaiseTap, Materialize, Launch, Reply
<1>4. ASSUME NEW c \in Call, DestroyKill(c) \/ DestroyDown(c) PROVE UNCHANGED tasks
  BY <1>4 DEF DestroyKill, DestroyDown
<1>5. ASSUME NEW c \in Call, NEW s \in Task,
             StartTask(c, s) \/ \E force \in BOOLEAN : DestroyTask(c, s, force)
      PROVE  UNCHANGED tasks
  BY <1>5 DEF StartTask, DestroyTask
<1> QED
  BY <1>1, <1>2, <1>3, <1>4, <1>5, QuietSteps DEF Apart, DestroyStep

\* Nothing is recovered while the plugin lives.
LEMMA SteadyStep ==
    ASSUME NothingFails, ExitInv, OwnInv, Steady, [Next]_vars
    PROVE  Steady'
<1>t. TypeOK /\ Wired /\ call \in [Call -> CallRecord]
  BY DEF ExitInv, TypeOK
<1>1. up'
  <2>1. ASSUME NEW c \in Call, NEW t \in Task,
               StartTask(c, t) \/ \E force \in BOOLEAN : DestroyTask(c, t, force)
        PROVE  UNCHANGED up
    BY <2>1 DEF StartTask, DestroyTask
  <2>2. ASSUME NEW c \in Call, StartStep(c) PROVE UNCHANGED up
    BY <2>2 DEF StartStep, CreateExecutor, CreateSeed, RaiseTap, Materialize, Launch, Register, Reply
  <2>3. ASSUME NEW c \in Call, DestroyStep(c) PROVE UNCHANGED up
    BY <2>3 DEF DestroyStep, DestroyKill, DestroyForget, DestroyDown
  <2> QED
    BY <2>1, <2>2, <2>3, QuietSteps DEF Apart, Steady
<1>2. ASSUME NEW d \in Call PROVE call'[d].pc \notin RecoverPc
  <2>1. CASE \E t \in Task : StartTask(d, t)
    BY <1>t, <2>1 DEF StartTask, IdleCall, RecoverPc
  <2>2. CASE StartStep(d)
    BY <1>t, <2>2 DEF StartStep, CreateExecutor, CreateSeed, RaiseTap, Materialize, Launch, Register, Reply,
                      Goto, Return, Fails, IdleCall, RecoverPc, CallRecord
  <2>3. CASE \E t \in Task, force \in BOOLEAN : DestroyTask(d, t, force)
    BY <1>t, <2>3 DEF DestroyTask, Holds, IdleCall, RecoverPc
  <2>4. CASE DestroyStep(d)
    BY <1>t, <2>4 DEF DestroyStep, DestroyKill, DestroyForget, DestroyDown, Goto, Return, IdleCall,
                      RecoverPc, CallRecord
  <2> QED
    BY <2>1, <2>2, <2>3, <2>4, Mover DEF Steady, Busy
<1>3. ASSUME NEW h \in Handle, ~IsFree(h)' PROVE handle'[h].exec
  <2>1. CASE ~IsFree(h)
    BY <2>1, HandlesStay DEF HandlesKept, Steady
  <2>2. CASE IsFree(h)
    <3>1. ASSUME NEW g \in Handle, RunStep(g) PROVE FALSE
      BY <1>t, <1>3, <2>2, <3>1 DEF RunStep, RecordExit, CloseDone, IsFree, TypeOK, HandleRecord
    <3>2. ASSUME NEW c \in Call, Register(c) PROVE handle'[h].exec
      BY <1>t, <1>3, <2>2, <3>2 DEF Register, IsFree, TypeOK, FreeHandle
    <3> QED
      BY <1>3, <2>2, <3>1, <3>2, HandlesStay DEF IsFree
  <2> QED
    BY <2>1, <2>2
<1>4. ASSUME NEW t \in Task, saved'[t] # None
      PROVE  tasks'[t] # None \/ \E c \in Call : At(c, "down")' /\ call'[c].task = t
  <2>1. CASE saved[t] = None
    <3>1. PICK c \in Call : Reply(c)
      <4>1. ASSUME NEW c \in Call, GivesUp(c) PROVE saved'[t] = None
        BY <1>t, <2>1, <4>1 DEF GivesUp, TypeOK
      <4>2. ASSUME NEW s \in Task, saved' = [saved EXCEPT ![s] = None] PROVE saved'[t] = None
        BY <1>t, <2>1, <4>2 DEF TypeOK
      <4> QED
        BY <1>t, <1>4, <2>1, <4>1, <4>2, SavedChanges
    <3>2. At(c, "reply") /\ StartOwn(call[c])
      BY <3>1 DEF Reply, At, OwnInv, CallOwn, StartPc
    <3>3. call[c].task = t
      BY <1>t, <1>4, <2>1, <3>1 DEF Reply, TypeOK
    <3> QED
      BY <3>1, <3>2, <3>3 DEF Reply, StartOwn, At
  <2>2. CASE saved[t] # None /\ tasks[t] # None
    <3>1. CASE tasks'[t] = tasks[t]
      BY <2>2, <3>1
    <3>2. ASSUME NEW c \in Call, DestroyForget(c), At(c, "forget"), call[c].task = t
          PROVE  At(c, "down")' /\ call'[c].task = t
      BY <1>t, <3>2 DEF DestroyForget, Goto, At, CallRecord
    <3> QED
      BY <2>2, <3>1, <3>2, StoreStays
  <2>3. CASE saved[t] # None /\ tasks[t] = None
    <3>1. PICK c \in Call : At(c, "down") /\ call[c].task = t
      BY <2>3 DEF Steady
    <3>2. call'[c] = call[c]
      <4>1. ~DestroyDown(c)
        BY <1>t, <1>4, <3>1 DEF DestroyDown, At, TypeOK
      <4>2. ~StartStep(c) /\ ~DestroyKill(c) /\ ~DestroyForget(c)
        BY <3>1 DEF StartStep, CreateExecutor, CreateSeed, RaiseTap, Materialize, Launch, Register, Reply,
                    DestroyKill, DestroyForget, At
      <4>3. ASSUME NEW s \in Task, StartTask(c, s) \/ \E force \in BOOLEAN : DestroyTask(c, s, force)
            PROVE  FALSE
        BY <3>1, <4>3 DEF StartTask, DestroyTask, Begins, At
      <4> QED
        BY <3>1, <4>1, <4>2, <4>3, Mover DEF At, Busy, DestroyPc, DestroyStep
    <3> QED
      BY <3>1, <3>2 DEF At
  <2> QED
    BY <2>1, <2>2, <2>3
<1> QED
  BY <1>1, <1>2, <1>3, <1>4 DEF Steady

\* A start keeps its VM until it answers; one that ends earlier has no VM that
\* runs under a living executor.
LEMMA StartsHold ==
    ASSUME NothingFails, ExitInv, OwnInv, Steady, [Next]_vars,
           NEW c \in Call, NEW v \in Vm, Starting(c, v), Running(v)', vm'[v].exec = "alive"
    PROVE  Starting(c, v)' \/ InStore(v)'
<1>t. TypeOK /\ Wired /\ Fresh /\ call \in [Call -> CallRecord]
  BY DEF ExitInv, TypeOK
<1>1. CASE CreateExecutor(c) \/ CreateSeed(c) \/ Materialize(c) \/ Register(c)
  BY <1>t, <1>1 DEF CreateExecutor, CreateSeed, Materialize, Register, Fails, Goto, NothingFails,
                    Starting, StartPc, CallRecord
<1>2. CASE RaiseTap(c)
  <2>1. vm'[v].proc = "none"
    BY <1>t, <1>2 DEF RaiseTap, At, Starting, Fresh, StartPc, Unlaunched
  <2> QED
    BY <2>1 DEF Running
<1>3. CASE Launch(c)
  BY <1>t, <1>3 DEF Launch, Fails, Goto, NothingFails, Starting, StartPc, CallRecord
<1>4. CASE Reply(c)
  <2>1. call[c].task \in Task /\ tasks[call[c].task] # None /\ handle[tasks[call[c].task]].vm = v
    BY <1>t, <1>4, CallTypes DEF Reply, At, OwnInv, CallOwn, StartOwn, StartPc, Starting, Monitors
  <2> QED
    BY <1>4, <2>1 DEF Reply, InStore, Monitors
<1>5. CASE ~StartStep(c)
  <2>1. call[c].pc \in Busy /\ call[c].pc \in StartPc /\ call[c].vm = v
    BY DEF Starting, Busy
  <2>2. ~DestroyStep(c)
    BY <2>1 DEF DestroyStep, DestroyKill, DestroyForget, DestroyDown, At, StartPc
  <2>3. ASSUME NEW s \in Task, StartTask(c, s) \/ \E force \in BOOLEAN : DestroyTask(c, s, force)
        PROVE  FALSE
    BY <2>1, <2>3 DEF StartTask, DestroyTask, Begins, At, StartPc
  <2>4. call'[c] = call[c]
    BY <1>5, <2>1, <2>2, <2>3, Mover
  <2> QED
    BY <2>1, <2>4 DEF Starting
<1> QED
  BY <1>1, <1>2, <1>3, <1>4, <1>5 DEF StartStep

\* A destroy drops only VMs that are finished.
LEMMA StoreHolds ==
    ASSUME NothingFails, ExitInv, OwnInv, Steady, [Next]_vars,
           NEW v \in Vm, InStore(v), ~Finished(v)
    PROVE  InStore(v)'
<1>t. TypeOK /\ Wired
  BY DEF ExitInv
<1>1. PICK t \in Task : tasks[t] # None /\ Monitors(tasks[t], v)
  BY DEF InStore
<1>2. tasks[t] \in Handle /\ ~IsFree(tasks[t]) /\ handle[tasks[t]].vm = v
  BY <1>t, <1>1 DEF TypeOK, Wired, IsFree, Monitors
<1>3. ASSUME NEW c \in Call, DestroyForget(c), At(c, "forget"), call[c].task = t PROVE FALSE
  <2>1. UseOwn(call[c]) /\ handle[call[c].handle].vm \in Vm
    BY <1>t, <1>3, CallTypes DEF At, OwnInv, CallOwn, DestroyPc
  <2>2. Owns(t, handle[call[c].handle].vm) /\ Finished(handle[call[c].handle].vm)
    BY <1>3, <2>1 DEF UseOwn, At
  <2>3. Owns(t, v)
    BY <1>1, <1>2 DEF OwnInv, StoreOwn
  <2>4. handle[call[c].handle].vm = v
    BY <2>1, <2>2, <2>3, HostAssumption DEF OwnInv, OneStart, Owns
  <2> QED
    BY <2>2, <2>4
<1>4. tasks'[t] = tasks[t]
  BY <1>1, <1>3, StoreStays
<1>5. handle'[tasks[t]].vm = v
  BY <1>2, HandlesStay DEF HandlesKept
<1> QED
  BY <1>1, <1>4, <1>5 DEF InStore, Monitors

\* So every VM that runs stays within reach.
LEMMA NoOrphanStep ==
    ASSUME NothingFails, ExitInv, OwnInv, Steady, NoOrphan, [Next]_vars
    PROVE  NoOrphan'
<1> SUFFICES ASSUME NEW v \in Vm, Running(v)', ~vm'[v].killed, vm'[v].exec = "alive"
             PROVE  InStore(v)' \/ \E c \in Call : Starting(c, v)'
  BY DEF NoOrphan
<1>1. ~Finished(v)
  <2>1. VmsGrow
    BY VmsOnlyGrow DEF ExitInv, OwnInv, NothingFails, Disciplined
  <2> QED
    BY <2>1 DEF VmsGrow, Finished, Exited, Running
<1>2. InStore(v) \/ \E c \in Call : Starting(c, v)
  <2>1. CASE Running(v) /\ vm[v].exec = "alive"
    BY <1>1, <2>1 DEF NoOrphan, Steady, Finished
  <2>2. CASE ~(Running(v) /\ vm[v].exec = "alive")
    BY <2>2, MadeByStart DEF NothingFails, Disciplined
  <2> QED
    BY <2>1, <2>2
<1> QED
  BY <1>1, <1>2, StoreHolds, StartsHold

\* At the start nothing runs and nothing is stored.
LEMMA InitSteady == Init => Steady /\ NoOrphan
<1> SUFFICES ASSUME Init PROVE Steady /\ NoOrphan
  OBVIOUS
<1>1. Steady
  BY DEF Init, Steady, IdleCall, RecoverPc, FreeHandle, IsFree
<1>2. NoOrphan
  BY DEF Init, HostInit, NoOrphan, Running
<1> QED
  BY <1>1, <1>2

\* While the plugin lives and no host command fails, every VM that runs under a
\* living executor is in the store or on its way there, or has been sent
\* SIGKILL, over any number of starts, waits, stops and forced destroys.
THEOREM NoVmIsOrphaned ==
    ASSUME NothingFails
    PROVE  Spec => []NoOrphan
<1>1. ExitInv /\ OwnInv /\ Steady /\ NoOrphan /\ [Next]_vars => Steady' /\ NoOrphan'
  BY SteadyStep, NoOrphanStep
<1>2. Disciplined
  BY DEF NothingFails, Disciplined
<1> QED
  BY <1>1, <1>2, InitSteady, ExitInvariant, OwnInvariant, PTL DEF Spec

-----------------------------------------------------------------------------
(* Who takes down the tap and the seed image of a task.                    *)

\* All that is known between two steps on the quiet host.
QuietState == ExitInv /\ OwnInv /\ ExecutorsLive /\ QuietInv

Nets == {k \in Config : k.net}
Seeds == {k \in Config : k.seed}

\* OwnedBy, with the configurations that ask for the thing as a set.
Owned(t, S) ==
    \/ tasks[t] # None /\ handle[tasks[t]].cfg \in S
    \/ \E c \in Call :
         /\ call[c].task = t
         /\ \/ call[c].pc \in StartPc /\ call[c].cfg \in S
            \/ call[c].pc \in DestroyPc /\ handle[call[c].handle].cfg \in S

\* In either form HostResourcesOwned says the same, ...
LEMMA OwnedSets ==
    ASSUME TypeOK, Wired, NEW t \in Task
    PROVE  /\ OwnedBy(t, LAMBDA k : k.net) <=> Owned(t, Nets)
           /\ OwnedBy(t, LAMBDA k : k.seed) <=> Owned(t, Seeds)
<1>1. tasks[t] # None => handle[tasks[t]].cfg \in Config
  BY DEF TypeOK, HandleRecord
<1>2. \A c \in Call : /\ call[c].cfg \in Config
                      /\ call[c].pc \in DestroyPc => handle[call[c].handle].cfg \in Config
  BY CallTypes DEF TypeOK, CallRecord, HandleRecord
<1> QED
  BY <1>1, <1>2 DEF OwnedBy, Owned, Nets, Seeds

\* ... before a step and after it.
LEMMA OwnedSetsNext ==
    ASSUME TypeOK', Wired', NEW t \in Task
    PROVE  /\ OwnedBy(t, LAMBDA k : k.net)' <=> Owned(t, Nets)'
           /\ OwnedBy(t, LAMBDA k : k.seed)' <=> Owned(t, Seeds)'
<1>1. tasks'[t] # None => handle'[tasks'[t]].cfg \in Config
  BY DEF TypeOK, HandleRecord
<1>2. \A c \in Call : /\ call'[c].cfg \in Config
                      /\ call'[c].pc \in DestroyPc => handle'[call'[c].handle].cfg \in Config
  BY DEF TypeOK, Wired, HoldsItsTask, CallRecord, HandleRecord
<1> QED
  BY <1>1, <1>2 DEF OwnedBy, Owned, Nets, Seeds

\* Two goroutines busy with one task are one.
LEMMA OneBusy ==
    ASSUME ExitInv, OwnInv, NEW c \in Call, NEW d \in Call,
           call[c].pc \in Busy, call[d].pc \in Busy, call[c].task = call[d].task
    PROVE  c = d
BY BusyAlone DEF ExitInv, OwnInv, CallsOwn

\* A task that has a tap, a seed image or an owner has been started.
LEMMA UnstartedHasNone ==
    ASSUME QuietState, NEW t \in Task, \A v \in Vm : vm[v].task # t
    PROVE  tap[t] = "absent" /\ ~seed[t]
<1>t. TypeOK /\ Wired
  BY DEF QuietState, ExitInv
<1>1. ASSUME NEW S, Owned(t, S) PROVE FALSE
  <2>1. ASSUME tasks[t] # None PROVE FALSE
    <3>1. Owns(t, handle[tasks[t]].vm) /\ handle[tasks[t]].vm \in Vm
      BY <1>t, <2>1 DEF QuietState, OwnInv, StoreOwn, TypeOK, Wired, HandleRecord
    <3> QED
      BY <3>1 DEF Owns
  <2>2. ASSUME NEW c \in Call, call[c].task = t, call[c].pc \in StartPc PROVE FALSE
    <3>1. StartOwn(call[c]) /\ call[c].vm \in Vm
      BY <1>t, <2>2, CallTypes DEF QuietState, OwnInv, CallOwn
    <3> QED
      BY <2>2, <3>1 DEF StartOwn
  <2>3. ASSUME NEW c \in Call, call[c].task = t, call[c].pc \in DestroyPc PROVE FALSE
    <3>1. UseOwn(call[c]) /\ handle[call[c].handle].vm \in Vm
      BY <1>t, <2>3, CallTypes DEF QuietState, OwnInv, CallOwn
    <3> QED
      BY <2>3, <3>1 DEF UseOwn, Owns
  <2> QED
    BY <1>1, <2>1, <2>2, <2>3 DEF Owned
<1> QED
  BY <1>t, <1>1, OwnedSets DEF QuietState, QuietInv, Steady, HostResourcesOwned

\* A destroy that answers has taken down its task's tap.
LEMMA DownRemoves ==
    ASSUME QuietHost, QuietState, NEW c \in Call, DestroyDown(c)
    PROVE  /\ At(c, "down") /\ call[c].task \in Task /\ ~seed[call[c].task]
           /\ tap' = [tap EXCEPT ![call[c].task] = "absent"]
           /\ Exited(handle[call[c].handle].vm) /\ handle[call[c].handle].vm \in Vm
           /\ Owns(call[c].task, handle[call[c].handle].vm)
<1>t. TypeOK /\ Wired /\ tap \in [Task -> TapState]
  BY DEF QuietState, ExitInv, TypeOK, HostTypeOK
<1>1. call[c].pc \in DestroyPc /\ call[c].pc \in {"down", "refuse"}
  BY DEF DestroyDown, DestroyPc
<1>2. At(c, "down") /\ ~seed[call[c].task] /\ Exited(handle[call[c].handle].vm)
  BY <1>1 DEF QuietState, QuietInv, CallClean, At
<1>3. call[c].task \in Task /\ handle[call[c].handle].vm \in Vm /\ UseOwn(call[c])
  BY <1>t, <1>1, CallTypes DEF QuietState, OwnInv, CallOwn
<1> PICK t \in Task, v \in Vm : t = call[c].task /\ v = handle[call[c].handle].vm
  BY <1>3
<1>4. Owns(t, v) /\ tasks[t] = None
  BY <1>2, <1>3 DEF UseOwn, At
<1>5. ~TapBusy(t)
  <2>1. ASSUME NEW w \in Vm, vm[w].task = t, Running(w) PROVE FALSE
    <3>1. w = v
      BY <1>4, <2>1, HostAssumption DEF QuietState, OwnInv, OneStart, Owns
    <3> QED
      BY <1>2, <2>1, <3>1 DEF Running, Exited
  <2> QED
    BY <2>1 DEF TapBusy
<1>6. ASSUME handle[call[c].handle].cfg.net PROVE tap' = [tap EXCEPT ![t] = "absent"]
  BY <1>t, <1>5, <1>6 DEF DestroyDown, TapDown, QuietHost, NothingFails
<1>7. ASSUME ~handle[call[c].handle].cfg.net PROVE tap' = [tap EXCEPT ![t] = "absent"]
  <2>1. ~Owned(t, Nets)
    <3>1. ASSUME NEW d \in Call, call[d].task = t, call[d].pc \in Busy PROVE d = c
      BY <1>1, <3>1, OneBusy DEF QuietState, Busy
    <3>2. call[c].pc \notin StartPc
      BY <1>2 DEF At, StartPc
    <3> QED
      BY <1>4, <1>7, <3>1, <3>2 DEF Owned, Nets, Busy
  <2>2. tap[t] = "absent"
    BY <1>t, <2>1, OwnedSets DEF QuietState, QuietInv, Steady, HostResourcesOwned
  <2> QED
    BY <1>t, <1>7, <2>2 DEF DestroyDown
<1> QED
  BY <1>2, <1>3, <1>4, <1>6, <1>7

\* A start finds no tap, and raises the one it asks for.
LEMMA TapRaises ==
    ASSUME QuietHost, QuietState, NEW c \in Call, RaiseTap(c)
    PROVE  /\ At(c, "tap") /\ Goto(c, "payload") /\ call[c].task \in Task
           /\ \/ ~call[c].cfg.net /\ UNCHANGED tap
              \/ call[c].cfg.net /\ tap' = [tap EXCEPT ![call[c].task] = "up"]
<1>1. At(c, "tap") /\ call[c].task \in Task
  BY CallTypes DEF RaiseTap, At, StartPc, QuietState, ExitInv
<1>2. tap[call[c].task] = "absent"
  BY <1>1 DEF At, QuietState, QuietInv, CallClean
<1> QED
  BY <1>1, <1>2 DEF RaiseTap, TapUpOk, TapUpFails, QuietHost, NothingFails

\* Nothing else touches a tap.
LEMMA TapStays ==
    ASSUME QuietHost, QuietState, [Next]_vars, NEW t \in Task
    PROVE  \/ tap'[t] = tap[t]
           \/ \E c \in Call : /\ RaiseTap(c) /\ call[c].task = t /\ call[c].cfg.net
                              /\ tap'[t] = "up"
           \/ \E c \in Call : DestroyDown(c) /\ call[c].task = t /\ tap'[t] = "absent"
<1>t. tap \in [Task -> TapState]
  BY DEF QuietState, ExitInv, TypeOK, HostTypeOK
<1>1. ASSUME NEW c \in Call, RaiseTap(c), tap'[t] # tap[t]
      PROVE  call[c].task = t /\ call[c].cfg.net /\ tap'[t] = "up"
  BY <1>t, <1>1, TapRaises
<1>2. ASSUME NEW c \in Call, DestroyDown(c), tap'[t] # tap[t]
      PROVE  call[c].task = t /\ tap'[t] = "absent"
  BY <1>t, <1>2, DownRemoves
<1>3. ASSUME NEW c \in Call, StartStep(c), ~RaiseTap(c) PROVE UNCHANGED tap
  BY <1>3 DEF StartStep, CreateExecutor, CreateSeed, Materialize, Launch, Register, Reply
<1>4. ASSUME NEW c \in Call, DestroyKill(c) \/ DestroyForget(c) PROVE UNCHANGED tap
  BY <1>4 DEF DestroyKill, DestroyForget
<1>5. ASSUME NEW c \in Call, NEW s \in Task,
             StartTask(c, s) \/ \E force \in BOOLEAN : DestroyTask(c, s, force)
      PROVE  UNCHANGED tap
  BY <1>5 DEF StartTask, DestroyTask
<1>6. NothingFails /\ ExitInv /\ Steady
  BY DEF QuietHost, QuietState, QuietInv
<1> QED
  BY <1>1, <1>2, <1>3, <1>4, <1>5, <1>6, QuietSteps DEF Apart, DestroyStep

\* A seed image is written by the start that asks for one and removed by the
\* destroy of its task.
LEMMA SeedStays ==
    ASSUME QuietHost, QuietState, [Next]_vars, NEW t \in Task
    PROVE  \/ seed'[t] = seed[t]
           \/ \E c \in Call : CreateSeed(c) /\ call[c].task = t /\ call[c].cfg.seed
           \/ \E c \in Call : DestroyForget(c) /\ call[c].task = t /\ ~seed'[t]
<1>t. seed \in [Task -> BOOLEAN] /\ TypeOK
  BY DEF QuietState, ExitInv, TypeOK, HostTypeOK
<1>1. ASSUME NEW c \in Call, CreateSeed(c), seed'[t] # seed[t]
      PROVE  call[c].task = t /\ call[c].cfg.seed
  BY <1>t, <1>1 DEF CreateSeed, Fails, TypeOK, CallRecord, Config
<1>2. ASSUME NEW c \in Call, DestroyForget(c), seed'[t] # seed[t]
      PROVE  call[c].task = t /\ ~seed'[t]
  BY <1>t, <1>2 DEF DestroyForget
<1>3. ASSUME NEW c \in Call, StartStep(c), ~CreateSeed(c) PROVE UNCHANGED seed
  BY <1>3 DEF StartStep, CreateExecutor, RaiseTap, Materialize, Launch, Register, Reply
<1>4. ASSUME NEW c \in Call, DestroyKill(c) \/ DestroyDown(c) PROVE UNCHANGED seed
  BY <1>4 DEF DestroyKill, DestroyDown
<1>5. ASSUME NEW c \in Call, NEW s \in Task,
             StartTask(c, s) \/ \E force \in BOOLEAN : DestroyTask(c, s, force)
      PROVE  UNCHANGED seed
  BY <1>5 DEF StartTask, DestroyTask
<1>6. NothingFails /\ ExitInv /\ Steady
  BY DEF QuietHost, QuietState, QuietInv
<1> QED
  BY <1>1, <1>2, <1>3, <1>4, <1>5, <1>6, QuietSteps DEF Apart, DestroyStep

-----------------------------------------------------------------------------
(* Taps and seed images keep an owner.                                     *)

\* A start goes on to its next stage with its task and configuration, and
\* answers when the handle in the store has that configuration.
LEMMA StartGoesOn ==
    ASSUME QuietHost, QuietState, NEW c \in Call, StartStep(c)
    PROVE  /\ call[c].pc \in StartPc
           /\ \/ call'[c].pc \in StartPc /\ call'[c].task = call[c].task
                 /\ call'[c].vm = call[c].vm /\ call'[c].cfg = call[c].cfg
              \/ /\ Reply(c) /\ At(c, "reply")
                 /\ tasks[call[c].task] # None /\ handle[tasks[call[c].task]].cfg = call[c].cfg
                 /\ UNCHANGED <<tasks, handle>>
<1>t. call \in [Call -> CallRecord] /\ NothingFails
  BY DEF QuietState, ExitInv, TypeOK, QuietHost
<1>g. ASSUME NEW pc \in StartPc, Goto(c, pc)
      PROVE  /\ call'[c].pc = pc /\ call'[c].task = call[c].task
             /\ call'[c].vm = call[c].vm /\ call'[c].cfg = call[c].cfg
  BY <1>t, <1>g DEF Goto, CallRecord
<1>1. CASE CreateExecutor(c) \/ CreateSeed(c) \/ Register(c)
  <2>1. call[c].pc \in StartPc /\ \E pc \in StartPc : Goto(c, pc)
    BY <1>t, <1>1 DEF CreateExecutor, CreateSeed, Register, Fails, At, NothingFails, StartPc
  <2> QED
    BY <1>g, <2>1
<1>2. CASE RaiseTap(c)
  BY <1>t, <1>2, TapRaises DEF At, Goto, StartPc, CallRecord
<1>3. CASE Materialize(c)
  <2>1. call' = [call EXCEPT ![c].pc = "launch", ![c].cfg = call[c].cfg]
    BY <1>t, <1>3 DEF Materialize, Rebuilt, Fails, NothingFails, QuietHost
  <2>2. call[c].pc = "payload"
    BY <1>3 DEF Materialize, At
  <2> QED
    BY <1>t, <2>1, <2>2 DEF StartPc, CallRecord
<1>4. CASE Launch(c)
  <2>1. vm[call[c].vm].exec = "alive"
    BY <1>4 DEF Launch, At, QuietState, QuietInv, CallClean, StartPc
  <2> QED
    BY <1>t, <1>4, <2>1 DEF Launch, Fails, Goto, At, NothingFails, StartPc, CallRecord
<1>5. CASE Reply(c)
  <2>1. StartOwn(call[c]) /\ CallClean(call[c])
    BY <1>5 DEF Reply, At, QuietState, QuietInv, OwnInv, CallOwn, StartPc
  <2> QED
    BY <1>5, <2>1 DEF Reply, At, StartOwn, CallClean, StartPc
<1> QED
  BY <1>1, <1>2, <1>3, <1>4, <1>5 DEF StartStep

\* A destroy goes on with its handle, which stays as it is.
LEMMA DestroyGoesOn ==
    ASSUME QuietHost, QuietState, NEW c \in Call, DestroyKill(c) \/ DestroyForget(c)
    PROVE  /\ call[c].pc \in DestroyPc /\ call'[c].pc \in DestroyPc
           /\ call'[c].task = call[c].task /\ call'[c].handle = call[c].handle
           /\ UNCHANGED handle
BY DEF QuietState, ExitInv, TypeOK, DestroyKill, DestroyForget, At, Goto, DestroyPc, CallRecord

\* Only a destroy that answers gives up what its handle asks for.
LEMMA OwnerStays ==
    ASSUME QuietHost, QuietState, [Next]_vars, NEW t \in Task, NEW S, Owned(t, S)
    PROVE  Owned(t, S)' \/ \E c \in Call : DestroyDown(c) /\ call[c].task = t
<1>t. TypeOK /\ Wired /\ NothingFails /\ ExitInv /\ OwnInv /\ Steady
  BY DEF QuietHost, QuietState, QuietInv, ExitInv
<1>1. CASE tasks[t] # None /\ handle[tasks[t]].cfg \in S
  <2>1. tasks[t] \in Handle /\ ~IsFree(tasks[t]) /\ handle[tasks[t]].vm \in Vm
    BY <1>t, <1>1 DEF TypeOK, Wired, IsFree, HandleRecord
  <2>2. CASE tasks'[t] = tasks[t]
    BY <1>t, <1>1, <2>1, <2>2, HandlesStay DEF HandlesKept, Owned
  <2>3. ASSUME NEW c \in Call, DestroyForget(c), At(c, "forget"), call[c].task = t PROVE Owned(t, S)'
    <3>1. /\ UseOwn(call[c]) /\ call[c].handle \in Handle
          /\ handle[call[c].handle].vm \in Vm
      BY <1>t, <2>3, CallTypes DEF At, OwnInv, CallOwn, DestroyPc
    <3>2. Owns(t, handle[call[c].handle].vm) /\ Owns(t, handle[tasks[t]].vm)
      BY <1>t, <1>1, <2>3, <3>1 DEF UseOwn, OwnInv, StoreOwn
    <3>3. handle[call[c].handle].vm = handle[tasks[t]].vm
      BY <1>t, <2>1, <3>1, <3>2, HostAssumption DEF OwnInv, OneStart, Owns
    <3>4. call[c].handle = tasks[t]
      BY <1>t, <2>1, <3>1, <3>3 DEF OwnInv, OneMonitor, Monitors
    <3> QED
      BY <1>1, <2>3, <3>4, DestroyGoesOn DEF Owned
  <2> QED
    BY <1>t, <1>1, <2>2, <2>3, StoreStays
<1>2. ASSUME NEW c \in Call, call[c].task = t, call[c].pc \in StartPc, call[c].cfg \in S
      PROVE  Owned(t, S)'
  <2>1. CASE call'[c] = call[c]
    BY <1>2, <2>1 DEF Owned
  <2>2. CASE StartStep(c)
    BY <1>2, <2>2, StartGoesOn DEF Owned
  <2>3. ~DestroyStep(c)
    BY <1>2 DEF DestroyStep, DestroyKill, DestroyForget, DestroyDown, At, StartPc
  <2>4. ASSUME NEW s \in Task, StartTask(c, s) \/ \E force \in BOOLEAN : DestroyTask(c, s, force)
        PROVE  FALSE
    BY <1>2, <2>4 DEF StartTask, DestroyTask, Begins, At, StartPc
  <2> QED
    BY <1>t, <1>2, <2>1, <2>2, <2>3, <2>4, Mover DEF Busy
<1>3. ASSUME NEW c \in Call, call[c].task = t, call[c].pc \in DestroyPc,
             handle[call[c].handle].cfg \in S, ~DestroyDown(c)
      PROVE  Owned(t, S)'
  <2>1. CASE call'[c] = call[c]
    <3>1. call[c].handle \in Handle /\ ~IsFree(call[c].handle)
      BY <1>t, <1>3, CallTypes, HostAssumption DEF IsFree
    <3>2. handle'[call[c].handle].cfg = handle[call[c].handle].cfg
      BY <1>t, <3>1, HandlesStay DEF HandlesKept
    <3> QED
      BY <1>3, <2>1, <3>2 DEF Owned
  <2>2. CASE DestroyStep(c)
    BY <1>3, <2>2, DestroyGoesOn DEF Owned, DestroyStep
  <2>3. ~StartStep(c)
    BY <1>3 DEF StartStep, CreateExecutor, CreateSeed, RaiseTap, Materialize, Launch, Register, Reply,
                At, DestroyPc
  <2>4. ASSUME NEW s \in Task, StartTask(c, s) \/ \E force \in BOOLEAN : DestroyTask(c, s, force)
        PROVE  FALSE
    BY <1>3, <2>4 DEF StartTask, DestroyTask, Begins, At, DestroyPc
  <2> QED
    BY <1>t, <1>3, <2>1, <2>2, <2>3, <2>4, Mover DEF Busy
<1> QED
  BY <1>1, <1>2, <1>3 DEF Owned

\* So what a start makes keeps an owner until it is gone.
LEMMA ResourcesStep ==
    ASSUME QuietHost, QuietState, [Next]_vars
    PROVE  HostResourcesOwned'
<1>t. TypeOK /\ Wired /\ TypeOK' /\ Wired' /\ call \in [Call -> CallRecord]
  BY NextWired DEF QuietState, ExitInv, TypeOK
<1>d. ASSUME NEW c \in Call, DestroyDown(c), NEW t \in Task, call[c].task = t
      PROVE  tap'[t] = "absent" /\ ~seed[t] /\ ~seed'[t]
  BY <1>d, DownRemoves DEF QuietState, ExitInv, TypeOK, HostTypeOK, DestroyDown
<1>1. ASSUME NEW t \in Task, tap'[t] # "absent" PROVE Owned(t, Nets)'
  <2>1. CASE tap'[t] = tap[t]
    <3>1. Owned(t, Nets)
      BY <1>t, <1>1, <2>1, OwnedSets DEF QuietState, QuietInv, Steady, HostResourcesOwned
    <3> QED
      BY <1>d, <1>1, <3>1, OwnerStays
  <2>2. ASSUME NEW c \in Call, RaiseTap(c), call[c].task = t, call[c].cfg.net PROVE Owned(t, Nets)'
    <3>1. At(c, "tap") /\ Goto(c, "payload")
      BY <2>2, TapRaises
    <3>2. call'[c].pc \in StartPc /\ call'[c].task = t /\ call'[c].cfg = call[c].cfg
      BY <1>t, <2>2, <3>1 DEF Goto, StartPc, CallRecord
    <3> QED
      BY <1>t, <2>2, <3>2 DEF Owned, Nets, CallRecord
  <2> QED
    BY <1>1, <2>1, <2>2, TapStays
<1>2. ASSUME NEW t \in Task, seed'[t] PROVE Owned(t, Seeds)'
  <2>1. CASE seed'[t] = seed[t]
    <3>1. Owned(t, Seeds)
      BY <1>t, <1>2, <2>1, OwnedSets DEF QuietState, QuietInv, Steady, HostResourcesOwned
    <3> QED
      BY <1>d, <1>2, <3>1, OwnerStays
  <2>2. ASSUME NEW c \in Call, CreateSeed(c), call[c].task = t, call[c].cfg.seed PROVE Owned(t, Seeds)'
    <3>1. call'[c].pc \in StartPc /\ call'[c].task = t /\ call'[c].cfg = call[c].cfg
      BY <1>t, <2>2 DEF CreateSeed, Fails, Goto, StartPc, CallRecord, QuietHost, NothingFails
    <3> QED
      BY <1>t, <2>2, <3>1 DEF Owned, Seeds, CallRecord
  <2> QED
    BY <1>2, <2>1, <2>2, SeedStays
<1> QED
  BY <1>t, <1>1, <1>2, OwnedSetsNext DEF HostResourcesOwned

-----------------------------------------------------------------------------
(* A VM keeps its network.                                                 *)

\* A VM comes to run by a launch, which gives it the network its start asked for.
LEMMA NetsAreLaunched ==
    ASSUME ExitInv, [Next]_vars, NEW v \in Vm, Running(v)', vm'[v].net
    PROVE  \/ Running(v) /\ vm[v].net
           \/ \E c \in Call : Launch(c) /\ At(c, "launch") /\ call[c].vm = v /\ call[c].cfg.net
<1>t. TypeOK /\ Wired /\ vm \in [Vm -> VmRecord]
  BY DEF ExitInv, TypeOK, HostTypeOK
<1> DEFINE Goal == \/ Running(v) /\ vm[v].net
                   \/ \E c \in Call : Launch(c) /\ At(c, "launch") /\ call[c].vm = v /\ call[c].cfg.net
<1>1. ASSUME NEW c \in Call, NEW t \in Task, StartTask(c, t) PROVE Goal
  BY <1>t, <1>1 DEF StartTask, Running, VmRecord
<1>2. ASSUME NEW c \in Call, CreateExecutor(c) PROVE Goal
  BY <1>t, <1>2 DEF CreateExecutor, Running, VmRecord
<1>3. ASSUME NEW c \in Call, Launch(c) PROVE Goal
  BY <1>t, <1>3 DEF Launch, Running, At, VmRecord
<1>4. ASSUME NEW w \in Vm, NEW sig, vm' = Signalled(w, sig) PROVE Goal
  BY <1>t, <1>4 DEF Signalled, Running, VmRecord
<1>5. CASE HostNext
  BY <1>t, <1>5 DEF HostNext, VmExit, PidReuse, ExecutorCrash, Running, VmRecord
<1>6. CASE UNCHANGED vm
  BY <1>6 DEF Running
<1> QED
  BY <1>t, <1>1, <1>2, <1>3, <1>4, <1>5, <1>6, StepKinds DEF VmStep

\* On the quiet host no executor is lost.
LEMMA VmsKept ==
    ASSUME QuietHost, QuietState, [Next]_vars, NEW v \in Vm, vm[v].exec = "alive"
    PROVE  vm'[v].exec = "alive"
<1>t. TypeOK /\ Wired /\ vm \in [Vm -> VmRecord] /\ "executorCrash" \notin Hazards
  BY DEF QuietHost, QuietState, ExitInv, TypeOK, HostTypeOK
<1>1. ASSUME NEW c \in Call, NEW t \in Task, StartTask(c, t) PROVE vm'[v].exec = "alive"
  BY <1>t, <1>1 DEF StartTask, VmRecord
<1>2. ASSUME NEW c \in Call, CreateExecutor(c) \/ Launch(c) PROVE vm'[v].exec = "alive"
  BY <1>t, <1>2 DEF CreateExecutor, Launch, VmRecord
<1>3. ASSUME NEW w \in Vm, NEW sig, vm' = Signalled(w, sig) PROVE vm'[v].exec = "alive"
  BY <1>t, <1>3 DEF Signalled, VmRecord
<1>4. CASE HostNext
  BY <1>t, <1>4 DEF HostNext, ExecutorCrash, VmExit, PidReuse, VmRecord
<1> QED
  BY <1>t, <1>1, <1>2, <1>3, <1>4, StepKinds DEF VmStep

\* What has ended stays ended, and a VM keeps its task.
LEMMA VmsPast ==
    ASSUME QuietHost, QuietState, [Next]_vars
    PROVE  EndsAreFinal /\ VmsGrow
BY FreshStep, VmsOnlyGrow DEF QuietHost, NothingFails, Disciplined, QuietState, ExitInv, OwnInv

\* Nobody takes a tap down under a VM that runs.
LEMMA NetworkStep ==
    ASSUME QuietHost, QuietState, [Next]_vars
    PROVE  NetworkUp'
<1>t. TypeOK /\ Wired /\ Fresh
  BY DEF QuietState, ExitInv
<1> SUFFICES ASSUME NEW v \in Vm, Running(v)', vm'[v].net
             PROVE  tap'[vm'[v].task] = "up"
  BY DEF NetworkUp
<1>1. CASE Running(v) /\ vm[v].net
  <2>1. vm[v].task \in Task /\ vm'[v].task = vm[v].task
    <3>1. vm[v].task \in Task
      BY <1>t, <1>1 DEF Fresh, Running, TypeOK, HostTypeOK, VmRecord
    <3> QED
      BY <3>1, VmsPast, HostAssumption DEF VmsGrow
  <2> PICK t \in Task : t = vm[v].task
    BY <2>1
  <2>2. tap[t] = "up"
    BY <1>1 DEF QuietState, QuietInv, NetworkUp
  <2>3. ASSUME NEW c \in Call, DestroyDown(c), call[c].task = t PROVE FALSE
    <3>1. /\ Exited(handle[call[c].handle].vm) /\ handle[call[c].handle].vm \in Vm
          /\ Owns(t, handle[call[c].handle].vm)
      BY <2>3, DownRemoves
    <3>2. handle[call[c].handle].vm = v
      BY <3>1, HostAssumption DEF QuietState, OwnInv, OneStart, Owns
    <3> QED
      BY <1>1, <3>1, <3>2 DEF Running, Exited
  <2> QED
    BY <2>1, <2>2, <2>3, TapStays
<1>2. ASSUME NEW c \in Call, Launch(c), At(c, "launch"), call[c].vm = v, call[c].cfg.net
      PROVE  tap'[vm'[v].task] = "up"
  <2>1. call[c].task \in Task /\ vm[v].task = call[c].task
    BY <1>t, <1>2, CallTypes DEF At, StartPc, QuietState, OwnInv, CallOwn, StartOwn
  <2>2. vm'[v].task = call[c].task
    BY <2>1, VmsPast, HostAssumption DEF VmsGrow
  <2>3. tap[call[c].task] = "up"
    BY <1>2 DEF At, QuietState, QuietInv, CallClean
  <2> QED
    BY <1>2, <2>2, <2>3 DEF Launch
<1> QED
  BY <1>t, <1>1, <1>2, NetsAreLaunched DEF QuietState

-----------------------------------------------------------------------------
(* Every goroutine finds the host as it needs it.                          *)

\* One that does not move while another one does.
LEMMA CleanStays ==
    ASSUME QuietHost, QuietState, [Next]_vars, NEW d \in Call, call'[d] = call[d]
    PROVE  CallClean(call[d])'
<1>t. TypeOK /\ Wired /\ NothingFails /\ ExitInv /\ OwnInv /\ Steady
  BY DEF QuietHost, QuietState, QuietInv, ExitInv
<1>c. CallClean(call[d]) /\ CallOwn(call[d])
  BY DEF QuietState, QuietInv, OwnInv
<1>n. CASE call[d].pc \notin Busy
  BY <1>n DEF CallClean, Busy, StartPc, DestroyPc
<1>b. ASSUME call[d].pc \in Busy PROVE CallClean(call[d])'
  <2>0. call[d].task \in Task
    BY <1>t, <1>b, CallTypes
  <2> PICK t \in Task : t = call[d].task
    BY <2>0
  <2>1. ASSUME NEW c \in Call, call[c].pc \in Busy, call[c].task = t, call'[c].pc # call[c].pc
        PROVE  FALSE
    BY <1>t, <1>b, <2>1, OneBusy
  <2>2. tap'[t] = tap[t]
    <3>1. ASSUME NEW c \in Call, RaiseTap(c) PROVE call[c].pc \in Busy /\ call'[c].pc # call[c].pc
      BY <1>t, <3>1, TapRaises DEF At, Goto, Busy, StartPc, TypeOK, CallRecord
    <3>2. ASSUME NEW c \in Call, DestroyDown(c) PROVE call[c].pc \in Busy /\ call'[c].pc # call[c].pc
      BY <1>t, <3>2 DEF DestroyDown, At, Return, IdleCall, Busy, DestroyPc, TypeOK
    <3> QED
      BY <2>1, <3>1, <3>2, TapStays
  <2>3. CASE call[d].pc \in StartPc
    <3>1. call[d].vm \in Vm
      BY <1>t, <2>3, CallTypes
    <3>2. call[d].pc # "executor" => vm'[call[d].vm].exec = "alive"
      BY <1>c, <2>3, <3>1, VmsKept DEF CallClean
    <3>3. ASSUME call[d].pc = "reply" PROVE handle'[tasks'[t]].cfg = call[d].cfg
      <4>1. tasks[t] # None /\ handle[tasks[t]].cfg = call[d].cfg
        BY <1>c, <3>3 DEF CallClean, CallOwn, StartOwn, StartPc
      <4>2. ASSUME NEW c \in Call, DestroyForget(c), At(c, "forget"), call[c].task = t PROVE FALSE
        <5>1. call[c].pc \in Busy /\ call'[c].pc # call[c].pc
          BY <1>t, <4>2 DEF DestroyForget, At, Goto, Busy, DestroyPc, TypeOK, CallRecord
        <5> QED
          BY <2>1, <4>2, <5>1
      <4>3. tasks'[t] = tasks[t]
        BY <1>t, <4>1, <4>2, StoreStays
      <4>4. tasks[t] \in Handle /\ ~IsFree(tasks[t])
        BY <1>t, <4>1 DEF TypeOK, Wired, IsFree
      <4> QED
        BY <1>t, <4>1, <4>3, <4>4, HandlesStay DEF HandlesKept
    <3>4. call[d].pc \notin DestroyPc
      BY <2>3 DEF StartPc, DestroyPc
    <3>5. call[d].pc # "down"
      BY <2>3 DEF StartPc
    <3> QED
      BY <1>c, <2>2, <3>2, <3>3, <3>4, <3>5 DEF CallClean
  <2>4. CASE call[d].pc \in DestroyPc
    <3>1. /\ call[d].handle \in Handle /\ handle[call[d].handle].vm \in Vm
          /\ ~IsFree(call[d].handle)
      BY <1>t, <2>4, CallTypes, HostAssumption DEF IsFree
    <3>2. handle'[call[d].handle].vm = handle[call[d].handle].vm
      BY <1>t, <3>1, HandlesStay DEF HandlesKept
    <3>3. Exited(handle[call[d].handle].vm)'
      BY <1>c, <2>4, <3>1, <3>2, VmsPast DEF CallClean, EndsAreFinal, Exited
    <3>4. ASSUME call[d].pc = "down" PROVE ~seed'[t]
      <4>1. ASSUME NEW c \in Call, CreateSeed(c) PROVE call[c].pc \in Busy /\ call'[c].pc # call[c].pc
        BY <1>t, <4>1 DEF CreateSeed, Fails, At, Goto, Return, IdleCall, Busy, StartPc, TypeOK, CallRecord
      <4>2. seed'[t] = seed[t] \/ ~seed'[t]
        BY <2>1, <4>1, SeedStays
      <4> QED
        BY <1>c, <3>4, <4>2 DEF CallClean
    <3>5. call[d].pc \notin StartPc
      BY <2>4 DEF StartPc, DestroyPc
    <3>6. call[d].pc \notin {"executor", "seed", "tap", "payload", "launch", "register", "reply"}
      BY <3>5 DEF StartPc
    <3> QED
      BY <1>c, <2>4, <3>3, <3>4, <3>5, <3>6 DEF CallClean
  <2>5. CASE call[d].pc \in RecoverPc
    BY <1>t, <2>5 DEF Steady
  <2> QED
    BY <1>b, <2>3, <2>4, <2>5 DEF Busy
<1> QED
  BY <1>n, <1>b

\* A start, stage by stage.
LEMMA StartClean ==
    ASSUME QuietHost, QuietState, [Next]_vars, NEW c \in Call, StartStep(c)
    PROVE  CallClean(call[c])'
<1>t. TypeOK /\ Wired /\ NothingFails /\ call \in [Call -> CallRecord]
      /\ vm \in [Vm -> VmRecord] /\ tap \in [Task -> TapState] /\ handle \in [Handle -> HandleRecord]
      /\ tasks \in [Task -> Handle \union {None}]
  BY DEF QuietHost, QuietState, ExitInv, TypeOK, HostTypeOK
<1>c. CallClean(call[c])
  BY DEF QuietState, QuietInv
<1>0. call[c].pc \in StartPc /\ call[c].task \in Task /\ call[c].vm \in Vm
  BY <1>t, StartGoesOn, CallTypes
<1> PICK t \in Task, v \in Vm : t = call[c].task /\ v = call[c].vm
  BY <1>0
<1>1. CASE CreateExecutor(c)
  <2>1. call'[c].pc = "seed" /\ call'[c].task = t /\ call'[c].vm = v
    BY <1>t, <1>1 DEF CreateExecutor, Fails, Goto, NothingFails, CallRecord
  <2>2. vm'[v].exec = "alive" /\ tap'[t] = "absent"
    BY <1>t, <1>c, <1>1 DEF CreateExecutor, Fails, At, NothingFails, CallClean, VmRecord
  <2> QED
    BY <2>1, <2>2 DEF CallClean, DestroyPc
<1>2. CASE CreateSeed(c)
  <2>1. call'[c].pc = "tap" /\ call'[c].task = t /\ call'[c].vm = v
    BY <1>t, <1>2 DEF CreateSeed, Fails, Goto, NothingFails, CallRecord
  <2>2. vm'[v].exec = "alive" /\ tap'[t] = "absent"
    BY <1>c, <1>2 DEF CreateSeed, At, CallClean, StartPc
  <2> QED
    BY <2>1, <2>2 DEF CallClean, DestroyPc
<1>3. CASE RaiseTap(c)
  <2>1. call'[c].pc = "payload" /\ call'[c].task = t /\ call'[c].vm = v /\ call'[c].cfg = call[c].cfg
    BY <1>t, <1>3, TapRaises DEF Goto, CallRecord
  <2>2. vm'[v].exec = "alive" /\ (call[c].cfg.net => tap'[t] = "up")
    BY <1>t, <1>c, <1>3, TapRaises DEF RaiseTap, At, CallClean, StartPc
  <2> QED
    BY <2>1, <2>2 DEF CallClean, DestroyPc
<1>4. CASE Materialize(c) \/ Launch(c)
  <2>1. /\ \/ At(c, "payload") /\ call'[c].pc = "launch"
           \/ At(c, "launch") /\ call'[c].pc = "register"
        /\ call'[c].task = t /\ call'[c].vm = v /\ call'[c].cfg = call[c].cfg
    <3>1. CASE Materialize(c)
      <4>1. call' = [call EXCEPT ![c].pc = "launch", ![c].cfg = call[c].cfg]
        BY <1>t, <3>1 DEF Materialize, Rebuilt, Fails, NothingFails, QuietHost
      <4>2. At(c, "payload")
        BY <3>1 DEF Materialize
      <4> QED
        BY <1>t, <4>1, <4>2 DEF CallRecord
    <3>2. CASE Launch(c)
      <4>1. vm[v].exec = "alive"
        BY <1>c, <3>2 DEF Launch, At, CallClean, StartPc
      <4> QED
        BY <1>t, <3>2, <4>1 DEF Launch, Fails, At, Goto, NothingFails, CallRecord
    <3> QED
      BY <1>4, <3>1, <3>2
  <2>2. vm'[v].exec = "alive" /\ (call[c].cfg.net => tap'[t] = "up")
    <3>1. vm[v].exec = "alive" /\ (call[c].cfg.net => tap[t] = "up")
      BY <1>c, <2>1 DEF At, CallClean, StartPc
    <3>2. UNCHANGED tap
      BY <1>4 DEF Materialize, Launch
    <3> QED
      BY <3>1, <3>2, VmsKept
  <2>3. call'[c].pc \notin {"executor", "seed", "tap", "reply", "down"} /\ call'[c].pc \notin DestroyPc
    BY <2>1 DEF DestroyPc
  <2> QED
    BY <2>1, <2>2, <2>3 DEF CallClean
<1>5. CASE Register(c)
  <2>1. call'[c].pc = "reply" /\ call'[c].task = t /\ call'[c].vm = v /\ call'[c].cfg = call[c].cfg
    BY <1>t, <1>5 DEF Register, Fails, Goto, NothingFails, CallRecord
  <2>2. vm'[v].exec = "alive" /\ (call[c].cfg.net => tap'[t] = "up")
    BY <1>c, <1>5 DEF Register, At, CallClean, StartPc
  <2>3. PICK h \in Handle :
          /\ tasks' = [tasks EXCEPT ![t] = h]
          /\ handle' = [handle EXCEPT ![h] = [FreeHandle EXCEPT !.vm = v, !.exec = TRUE,
                                                                 !.cfg = call[c].cfg]]
    BY <1>t, <1>5 DEF Register, Fails, Publish, NothingFails
  <2>4. tasks'[t] = h /\ handle'[h].cfg = call[c].cfg
    BY <1>t, <2>3 DEF FreeHandle
  <2> QED
    BY <2>1, <2>2, <2>4 DEF CallClean, DestroyPc
<1>6. CASE Reply(c)
  <2>1. call'[c].pc = "idle"
    BY <1>t, <1>6 DEF Reply, Return, IdleCall
  <2> QED
    BY <2>1 DEF CallClean, StartPc, DestroyPc
<1> QED
  BY <1>1, <1>2, <1>3, <1>4, <1>5, <1>6 DEF StartStep

\* A start and a destroy as they begin: the first finds no tap, the second only
\* a VM that has ended.
LEMMA BeginsClean ==
    ASSUME QuietHost, QuietState, NEW c \in Call, NEW t \in Task,
           StartTask(c, t) \/ \E force \in BOOLEAN : DestroyTask(c, t, force)
    PROVE  CallClean(call[c])'
<1>t. TypeOK /\ Wired /\ NothingFails /\ call \in [Call -> CallRecord]
  BY DEF QuietHost, QuietState, ExitInv, TypeOK
<1>1. CASE StartTask(c, t)
  <2>1. call'[c].pc = "executor" /\ call'[c].task = t
    BY <1>t, <1>1, ClaimFields DEF Claims, NothingFails, Disciplined
  <2>2. \A v \in Vm : vm[v].task # t
    BY <1>t, <1>1 DEF StartTask, MayStart, NothingFails
  <2>3. tap'[t] = "absent"
    BY <1>1, <2>2, UnstartedHasNone DEF StartTask
  <2> QED
    BY <2>1, <2>3 DEF CallClean, DestroyPc
<1>2. ASSUME NEW force \in BOOLEAN, DestroyTask(c, t, force) PROVE CallClean(call[c])'
  <2>1. tasks[t] \in Handle /\ ~IsRunning(tasks[t]) /\ handle[tasks[t]].vm \in Vm
    BY <1>t, <1>2 DEF DestroyTask, QuietHost, TypeOK, Wired, HandleRecord
  <2>2. call'[c].pc = "kill" /\ call'[c].handle = tasks[t] /\ UNCHANGED <<tasks, handle, vm>>
    BY <1>t, <1>2, <2>1 DEF DestroyTask, Holds, IdleCall
  <2>3. Exited(handle[tasks[t]].vm)
    BY <1>t, <2>1, HostAssumption DEF QuietState, ExitInv, Recorded, IsFree, TrueEnd, ExecutorsLive
  <2>4. Exited(handle[tasks[t]].vm)'
    BY <2>2, <2>3 DEF Exited
  <2> QED
    BY <2>2, <2>4, Zenon DEF CallClean, StartPc
<1> QED
  BY <1>1, <1>2

\* A destroy, stage by stage.
LEMMA DestroyClean ==
    ASSUME QuietHost, QuietState, [Next]_vars, NEW c \in Call, DestroyStep(c)
    PROVE  CallClean(call[c])'
<1>t. TypeOK /\ Wired /\ ExitInv /\ OwnInv /\ call \in [Call -> CallRecord] /\ seed \in [Task -> BOOLEAN]
  BY DEF QuietHost, QuietState, ExitInv, TypeOK, HostTypeOK
<1>c. CallClean(call[c])
  BY DEF QuietState, QuietInv
<1>1. CASE DestroyDown(c)
  <2>1. call'[c].pc = "idle"
    BY <1>t, <1>1 DEF DestroyDown, Return, IdleCall
  <2> QED
    BY <2>1 DEF CallClean, StartPc, DestroyPc
<1>2. CASE DestroyKill(c) \/ DestroyForget(c)
  <2>0. call[c].pc \in DestroyPc
    BY <1>2, DestroyGoesOn
  <2> PICK t \in Task, h \in Handle : t = call[c].task /\ h = call[c].handle /\ handle[h].vm \in Vm
    BY <1>t, <2>0, CallTypes
  <2>1. /\ \/ At(c, "kill") /\ call'[c].pc = "forget"
           \/ At(c, "forget") /\ call'[c].pc = "down"
        /\ call'[c].task = t /\ call'[c].handle = h /\ handle' = handle
    BY <1>t, <1>2 DEF DestroyKill, DestroyForget, At, Goto, CallRecord
  <2>2. Exited(handle[h].vm)'
    BY <1>c, <2>0, <2>1, VmsPast DEF CallClean, EndsAreFinal, Exited
  <2>3. ASSUME DestroyForget(c) PROVE ~seed'[t]
    <3>1. CASE handle[h].cfg.seed
      BY <1>t, <2>3, <3>1 DEF DestroyForget, QuietHost, NothingFails
    <3>2. CASE ~handle[h].cfg.seed
      <4>1. Owns(t, handle[h].vm)
        BY <1>t, <2>0 DEF OwnInv, CallOwn, UseOwn
      <4>2. ASSUME tasks[t] # None PROVE tasks[t] = h
        <5>1. Owns(t, handle[tasks[t]].vm) /\ tasks[t] \in Handle /\ handle[tasks[t]].vm \in Vm
          BY <1>t, <4>2 DEF OwnInv, StoreOwn, TypeOK, Wired, HandleRecord
        <5>2. handle[tasks[t]].vm = handle[h].vm
          BY <1>t, <4>1, <5>1, HostAssumption DEF OwnInv, OneStart, Owns
        <5> QED
          BY <1>t, <5>1, <5>2, HostAssumption DEF OwnInv, OneMonitor, Monitors, IsFree
      <4>3. ASSUME NEW d \in Call, call[d].task = t, call[d].pc \in Busy PROVE d = c
        BY <1>t, <2>0, <4>3, OneBusy DEF Busy
      <4>4. call[c].pc \notin StartPc
        BY <2>0 DEF StartPc, DestroyPc
      <4>5. ~Owned(t, Seeds)
        BY <3>2, <4>2, <4>3, <4>4 DEF Owned, Seeds, Busy
      <4>6. ~seed[t]
        BY <1>t, <4>5, OwnedSets DEF QuietState, QuietInv, Steady, HostResourcesOwned
      <4> QED
        BY <1>t, <2>3, <4>6 DEF DestroyForget
    <3> QED
      BY <3>1, <3>2
  <2>4. call'[c].pc = "down" => ~seed'[t]
    BY <1>2, <2>1, <2>3 DEF DestroyKill, At
  <2>5. call'[c].pc \notin StartPc
    BY <2>1 DEF StartPc
  <2>6. call'[c].pc \notin {"executor", "seed", "tap", "payload", "launch", "register", "reply", "refuse"}
    BY <2>1
  <2> QED
    BY <2>1, <2>2, <2>4, <2>5, <2>6 DEF CallClean
<1> QED
  BY <1>1, <1>2 DEF DestroyStep

\* The invariant is inductive on top of the others.
LEMMA QuietKept ==
    ASSUME QuietHost, QuietState, [Next]_vars
    PROVE  QuietInv'
<1>t. NothingFails /\ ExitInv /\ OwnInv /\ Steady
  BY DEF QuietHost, QuietState, QuietInv
<1>1. ASSUME NEW d \in Call PROVE CallClean(call[d])'
  <2>1. CASE call'[d].pc \notin Busy
    BY <2>1 DEF CallClean, Busy, StartPc, DestroyPc
  <2> QED
    BY <1>t, <2>1, Mover, CleanStays, StartClean, BeginsClean, DestroyClean
<1> QED
  BY <1>t, <1>1, SteadyStep, ResourcesStep, NetworkStep DEF QuietInv

\* At the start there is no tap, no seed image and no VM.
LEMMA InitQuiet == Init => QuietInv /\ ExecutorsLive
<1> SUFFICES ASSUME Init PROVE QuietInv /\ ExecutorsLive
  OBVIOUS
<1>1. \A c \in Call : CallClean(call[c])
  BY DEF Init, IdleCall, CallClean, StartPc, DestroyPc
<1>2. HostResourcesOwned /\ NetworkUp /\ ExecutorsLive
  BY DEF Init, HostInit, HostResourcesOwned, NetworkUp, Running, ExecutorsLive
<1> QED
  BY <1>1, <1>2, InitSteady DEF QuietInv

\* On the quiet host starts, destroys, taps and seed images stay in step.
THEOREM QuietInvariant ==
    ASSUME QuietHost
    PROVE  Spec => []QuietInv
<1>1. Disciplined /\ "executorCrash" \notin Hazards
  BY DEF QuietHost, NothingFails, Disciplined
<1>2. ExitInv /\ OwnInv /\ ExecutorsLive /\ QuietInv /\ [Next]_vars => QuietInv' /\ ExecutorsLive'
  BY <1>1, QuietKept, ExecutorsLiveStep DEF QuietState, ExitInv
<1> QED
  BY <1>1, <1>2, InitQuiet, ExitInvariant, OwnInvariant, PTL DEF Spec

\* On the quiet host every tap and seed image has someone who removes it.
THEOREM ResourcesAreOwned ==
    ASSUME QuietHost
    PROVE  Spec => []HostResourcesOwned
<1>1. QuietInv => HostResourcesOwned
  BY DEF QuietInv
<1> QED
  BY <1>1, QuietInvariant, PTL

\* On the quiet host a destroy that answers has removed tap and seed image.
THEOREM DestroysCleanUp ==
    ASSUME QuietHost
    PROVE  Spec => DestroyCleansUp
<1>1. Disciplined /\ "executorCrash" \notin Hazards
  BY DEF QuietHost, NothingFails, Disciplined
<1>2. ExitInv /\ OwnInv /\ ExecutorsLive /\ QuietInv /\ [Next]_vars => ExecutorsLive'
  BY <1>1, ExecutorsLiveStep DEF ExitInv
<1>3. ExitInv /\ OwnInv /\ ExecutorsLive /\ QuietInv /\ [Next]_vars =>
        \A c \in Call : Destroyed(c) =>
          LET t == call[c].task IN tap'[t] = "absent" /\ ~seed'[t]
  <2> SUFFICES ASSUME ExitInv, OwnInv, ExecutorsLive, QuietInv, [Next]_vars,
                      NEW c \in Call, Destroyed(c)
               PROVE  tap'[call[c].task] = "absent" /\ ~seed'[call[c].task]
    OBVIOUS
  <2>1. NothingFails /\ Steady /\ QuietState
    BY DEF QuietHost, QuietInv, QuietState
  <2>2. At(c, "down") /\ call'[c].pc = "idle"
    BY DEF Destroyed
  <2>3. ~StartStep(c) /\ ~DestroyKill(c) /\ ~DestroyForget(c)
    BY <2>2 DEF StartStep, CreateExecutor, CreateSeed, RaiseTap, Materialize, Launch, Register, Reply,
                DestroyKill, DestroyForget, At
  <2>4. ASSUME NEW s \in Task, StartTask(c, s) \/ \E force \in BOOLEAN : DestroyTask(c, s, force)
        PROVE  FALSE
    BY <2>2, <2>4 DEF StartTask, DestroyTask, Begins, At
  <2>5. DestroyDown(c)
    BY <2>1, <2>2, <2>3, <2>4, Mover DEF At, Busy, DestroyPc, DestroyStep
  <2>6. UNCHANGED seed /\ tap \in [Task -> TapState]
    BY <2>5 DEF DestroyDown, ExitInv, TypeOK, HostTypeOK
  <2> QED
    BY <2>1, <2>5, <2>6, DownRemoves
<1> QED
  BY <1>1, <1>2, <1>3, InitQuiet, ExitInvariant, OwnInvariant, QuietInvariant, PTL DEF Spec, DestroyCleansUp

=============================================================================
