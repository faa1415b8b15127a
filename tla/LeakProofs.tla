----------------------------- MODULE LeakProofs -----------------------------
(***************************************************************************)
(* What is left of the ownership of taps and seed images when host         *)
(* commands fail, tags move and the plugin dies: only a start that fails,  *)
(* or whose image changes under it, and a destroy that cannot delete them  *)
(* leave one behind; and a VM that runs loses its tap to nothing but a     *)
(* destroy of its task.  For any number of tasks, starts, goroutines and   *)
(* handles.                                                                *)
(***************************************************************************)
EXTENDS QuietProofs

\* The handle a start answers with, and the one a destroy works on, is the one
\* in the store; a destroy that has left the store has removed its seed image,
\* unless the removal failed.
LeakClean(r) ==
    /\ r.pc = "reply" => handle[tasks[r.task]].cfg = r.cfg
    /\ r.pc \in {"kill", "forget", "refuse"} => tasks[r.task] = r.handle
    /\ r.pc = "down" /\ seed[r.task] => ~handle[r.handle].cfg.seed \/ "hostFails" \in Hazards
LeakInv == \A c \in Call : LeakClean(call[c])

-----------------------------------------------------------------------------
(* What a step may do as long as the plugin does not die.                  *)

\* Nobody starts, recovers or destroys a task, and store and host stay.
Still ==
    /\ UNCHANGED <<tasks, tap, seed>>
    /\ UNCHANGED handle \/ \E h \in Handle : RunStep(h)
    /\ \A d \in Call : call'[d] = call[d] \/ (call[d].pc \notin Busy /\ call'[d].pc \notin Busy)

Recovers(c) == RecoverStep(c) \/ \E t \in Task : RecoverTask(c, t)
Destroys(c) == DestroyStep(c) \/ \E t \in Task, force \in BOOLEAN : DestroyTask(c, t, force)
Starts(c) == StartStep(c) \/ \E t \in Task : StartTask(c, t)

\* The kinds of step there are.
LEMMA Kinds ==
    ASSUME TypeOK, [Next]_vars, ~LosesMemory
    PROVE  Still \/ \E c \in Call : Starts(c) \/ Recovers(c) \/ Destroys(c)
<1>1. ASSUME \/ \E t \in Task : SignalTask(t)
             \/ \E h \in Handle : RunStep(h)
             \/ HostNext /\ UNCHANGED <<tasks, handle, call, up, saved>>
             \/ PluginRestart
             \/ UNCHANGED vars
      PROVE  Still
  <2>1. UNCHANGED <<tasks, tap, seed, call>>
    BY <1>1 DEF SignalTask, RunStep, RecordExit, CloseDone, vars, HostNext, VmExit, PidReuse, ExecutorCrash,
                PluginRestart
  <2>2. UNCHANGED handle \/ \E h \in Handle : RunStep(h)
    BY <1>1 DEF SignalTask, vars, PluginRestart
  <2> QED
    BY <2>1, <2>2 DEF Still
<1>2. Apart => Still
  BY DEF Apart, Still
<1> QED
  BY <1>1, <1>2, WaitsApart DEF Next, Rpc, Starts, Recovers, Destroys, RunPanics, PluginCrash

\* The step of a recovery is one goroutine's, which neither starts nor destroys,
\* and touches the store only to adopt.
LEMMA RecoverAlone ==
    ASSUME TypeOK, NEW c \in Call, Recovers(c)
    PROVE  /\ Alone(c) /\ UNCHANGED <<tap, seed>>
           /\ call[c].pc \in RecoverPc \union {"idle"} /\ call'[c].pc \in RecoverPc \union {"idle"}
           /\ UNCHANGED <<tasks, handle>> \/ Adopt(c)
<1>c. call \in [Call -> CallRecord]
  BY DEF TypeOK
<1>1. ASSUME NEW t \in Task, RecoverTask(c, t)
      PROVE  /\ Alone(c) /\ UNCHANGED <<tap, seed, tasks, handle>>
             /\ call[c].pc \in RecoverPc \union {"idle"} /\ call'[c].pc \in RecoverPc \union {"idle"}
  BY <1>c, <1>1 DEF RecoverTask, Begins, At, Alone, IdleCall, RecoverPc
<1>2. CASE Reattach(c)
  BY <1>c, <1>2 DEF Reattach, At, Alone, RecoverPc, CallRecord
<1>3. CASE Probe(c)
  BY <1>c, <1>3 DEF Probe, Goto, Return, IdleCall, At, Alone, RecoverPc, CallRecord
<1>4. CASE Adopt(c)
  BY <1>c, <1>4 DEF Adopt, Return, IdleCall, At, Alone, RecoverPc
<1> QED
  BY <1>1, <1>2, <1>3, <1>4 DEF Recovers, RecoverStep

\* A goroutine that starts or destroys moves by a step of its own.
LEMMA Actor ==
    ASSUME TypeOK, [Next]_vars, ~LosesMemory, NEW d \in Call
    PROVE  \/ call'[d] = call[d]
           \/ call[d].pc \notin StartPc \union DestroyPc /\ call'[d].pc \notin StartPc \union DestroyPc
           \/ Starts(d) \/ Destroys(d)
<1>1. CASE Still
  BY <1>1 DEF Still, Busy
<1>2. ASSUME NEW c \in Call, Starts(c) \/ Destroys(c) PROVE c = d \/ call'[d] = call[d]
  <2>1. Alone(c)
    BY <1>2, StepsAlone DEF Starts, Destroys
  <2> QED
    BY <2>1 DEF Alone
<1>3. ASSUME NEW c \in Call, Recovers(c)
      PROVE  \/ call'[d] = call[d]
             \/ call[d].pc \notin StartPc \union DestroyPc /\ call'[d].pc \notin StartPc \union DestroyPc
  <2>1. \A p \in RecoverPc \union {"idle"} : p \notin StartPc \union DestroyPc
    BY DEF RecoverPc, StartPc, DestroyPc
  <2> QED
    BY <1>3, <2>1, RecoverAlone DEF Alone
<1> QED
  BY <1>1, <1>2, <1>3, Kinds

\* The stages of starts and destroys do not begin the other's steps.
LEMMA OwnSteps ==
    ASSUME NEW c \in Call
    PROVE  /\ call[c].pc \in StartPc /\ (Starts(c) \/ Destroys(c)) => StartStep(c)
           /\ call[c].pc \in DestroyPc /\ (Starts(c) \/ Destroys(c)) => DestroyStep(c)
           /\ StartStep(c) => call[c].pc \in StartPc
           /\ DestroyStep(c) => call[c].pc \in DestroyPc
<1>1. StartStep(c) => call[c].pc \in StartPc
  BY DEF StartStep, CreateExecutor, CreateSeed, RaiseTap, Materialize, Launch, Register, Reply, At, StartPc
<1>2. DestroyStep(c) => call[c].pc \in DestroyPc
  BY DEF DestroyStep, DestroyKill, DestroyForget, DestroyDown, At, DestroyPc
<1>3. ASSUME NEW s \in Task, StartTask(c, s) \/ \E force \in BOOLEAN : DestroyTask(c, s, force)
      PROVE  call[c].pc = "idle"
  BY <1>3 DEF StartTask, DestroyTask, Begins, At
<1>4. \A p \in StartPc : p \notin DestroyPc /\ p # "idle"
  BY DEF StartPc, DestroyPc
<1>5. "idle" \notin DestroyPc
  BY DEF DestroyPc
<1> QED
  BY <1>1, <1>2, <1>3, <1>4, <1>5 DEF Starts, Destroys

\* A handle in use stays as it is; only new ones are stored.
LEMMA HandlesLast ==
    ASSUME TypeOK, [Next]_vars, ~LosesMemory
    PROVE  HandlesKept
<1>t. handle \in [Handle -> HandleRecord]
  BY DEF TypeOK
<1>1. ASSUME NEW h \in Handle, RunStep(h) PROVE HandlesKept
  BY <1>t, <1>1 DEF RunStep, RecordExit, CloseDone, HandlesKept, HandleRecord
<1>2. ASSUME NEW c \in Call, Register(c) \/ Adopt(c) PROVE HandlesKept
  <2>1. UNCHANGED handle \/ \E h \in Handle : IsFree(h) /\ \E r : handle' = [handle EXCEPT ![h] = r]
    BY <1>2 DEF Register, Adopt, Publish
  <2> QED
    BY <1>t, <2>1 DEF IsFree, HandlesKept
<1>3. UNCHANGED handle => HandlesKept
  BY DEF HandlesKept
<1>4. ASSUME NEW c \in Call, Starts(c), ~Register(c) PROVE UNCHANGED handle
  BY <1>4 DEF Starts, StartTask, StartStep, CreateExecutor, CreateSeed, RaiseTap, Materialize, Launch, Reply
<1>5. ASSUME NEW c \in Call, Destroys(c) PROVE UNCHANGED handle
  BY <1>5 DEF Destroys, DestroyTask, DestroyStep, DestroyKill, DestroyForget, DestroyDown
<1> QED
  BY <1>1, <1>2, <1>3, <1>4, <1>5, Kinds, RecoverAlone DEF Still

\* A task in the store stays there until a destroy of it.
LEMMA StoreLasts ==
    ASSUME ExitInv, OwnInv, [Next]_vars, ~LosesMemory, NEW t \in Task, tasks[t] # None
    PROVE  \/ tasks'[t] = tasks[t]
           \/ \E c \in Call : DestroyForget(c) /\ At(c, "forget") /\ call[c].task = t
<1>t. TypeOK /\ Wired /\ tasks \in [Task -> Handle \union {None}]
  BY DEF ExitInv, TypeOK
<1>1. ASSUME NEW c \in Call, Register(c) \/ Adopt(c) PROVE tasks'[t] = tasks[t]
  <2>1. CASE UNCHANGED tasks
    BY <2>1
  <2>2. CASE \E h \in Handle : tasks' = [tasks EXCEPT ![call[c].task] = h]
    <3>1. ASSUME call[c].task = t PROVE FALSE
      <4>1. CASE Adopt(c)
        BY <3>1, <4>1 DEF Adopt, At, OwnInv, CallOwn, RecoverOwn, RecoverPc
      <4>2. CASE Register(c)
        <5>1. call[c].vm \in Vm /\ vm[call[c].vm].task = t /\ ~Monitored(call[c].vm)
          BY <1>t, <3>1, <4>2, CallTypes DEF Register, At, OwnInv, CallOwn, StartOwn, StartPc
        <5>2. Owns(t, handle[tasks[t]].vm) /\ tasks[t] \in Handle /\ handle[tasks[t]].vm \in Vm
          BY <1>t DEF OwnInv, StoreOwn, TypeOK, Wired, HandleRecord
        <5>3. handle[tasks[t]].vm = call[c].vm
          BY <5>1, <5>2, HostAssumption DEF OwnInv, OneStart, Owns
        <5> QED
          BY <5>1, <5>2, <5>3 DEF Monitored, Monitors
      <4> QED
        BY <1>1, <4>1, <4>2
    <3> QED
      BY <1>t, <2>2, <3>1
  <2> QED
    BY <1>1, <2>1, <2>2 DEF Register, Adopt, Publish
<1>2. ASSUME NEW c \in Call, DestroyForget(c), tasks'[t] # tasks[t] PROVE At(c, "forget") /\ call[c].task = t
  BY <1>t, <1>2 DEF DestroyForget
<1>3. ASSUME NEW c \in Call, Starts(c), ~Register(c) PROVE UNCHANGED tasks
  BY <1>3 DEF Starts, StartTask, StartStep, CreateExecutor, CreateSeed, RaiseTap, Materialize, Launch, Reply
<1>4. ASSUME NEW c \in Call, Destroys(c), ~DestroyForget(c) PROVE UNCHANGED tasks
  BY <1>4 DEF Destroys, DestroyTask, DestroyStep, DestroyKill, DestroyDown
<1> QED
  BY <1>t, <1>1, <1>2, <1>3, <1>4, Kinds, RecoverAlone DEF Still

-----------------------------------------------------------------------------
(* The handle a start or a destroy speaks of is the one in the store.      *)

\* One goroutine that does not move while another one does.
LEMMA LeakStays ==
    ASSUME ExitInv, OwnInv, LeakInv, [Next]_vars, ~LosesMemory, NEW d \in Call, call'[d] = call[d]
    PROVE  LeakClean(call[d])'
<1>t. TypeOK /\ Wired /\ call \in [Call -> CallRecord]
  BY DEF ExitInv, TypeOK
<1>c. LeakClean(call[d]) /\ CallOwn(call[d])
  BY DEF LeakInv, OwnInv
<1>n. CASE call[d].pc \notin StartPc \union DestroyPc
  BY <1>n DEF LeakClean, StartPc, DestroyPc
<1>b. ASSUME call[d].pc \in StartPc \union DestroyPc PROVE LeakClean(call[d])'
  <2>0. call[d].task \in Task /\ call[d].pc \in Busy
    BY <1>t, <1>b, CallTypes DEF Busy
  <2> PICK t \in Task : t = call[d].task
    BY <2>0
  <2>1. ASSUME NEW c \in Call, call[c].pc \in Busy, call[c].task = t, call'[c].pc # call[c].pc
        PROVE  FALSE
    BY <2>0, <2>1, OneBusy
  <2>2. ASSUME tasks[t] # None PROVE tasks'[t] = tasks[t]
    <3>1. ASSUME NEW c \in Call, DestroyForget(c), At(c, "forget"), call[c].task = t PROVE FALSE
      <4>1. call[c].pc \in Busy /\ call'[c].pc # call[c].pc
        BY <1>t, <3>1 DEF DestroyForget, At, Goto, Busy, DestroyPc, CallRecord
      <4> QED
        BY <2>1, <3>1, <4>1
    <3> QED
      BY <2>2, <3>1, StoreLasts
  <2>3. ASSUME call[d].pc = "reply" PROVE handle'[tasks'[t]].cfg = call[d].cfg
    <3>1. tasks[t] # None /\ handle[tasks[t]].cfg = call[d].cfg
      BY <1>c, <2>3 DEF LeakClean, CallOwn, StartOwn, StartPc
    <3>2. tasks[t] \in Handle /\ ~IsFree(tasks[t])
      BY <1>t, <3>1 DEF TypeOK, Wired, IsFree
    <3> QED
      BY <1>t, <2>2, <3>1, <3>2, HandlesLast DEF HandlesKept
  <2>4. ASSUME call[d].pc \in {"kill", "forget", "refuse"} PROVE tasks'[t] = call[d].handle
    <3>1. call[d].handle \in Handle /\ tasks[t] = call[d].handle
      BY <1>t, <1>c, <2>4, CallTypes DEF LeakClean, DestroyPc
    <3> QED
      BY <2>2, <3>1, DriverAssumption
  <2>5. ASSUME call[d].pc = "down", seed'[t] PROVE ~handle'[call[d].handle].cfg.seed \/ "hostFails" \in Hazards
    <3>1. call[d].handle \in Handle /\ ~IsFree(call[d].handle)
      BY <1>t, <2>5, CallTypes, HostAssumption DEF IsFree, DestroyPc
    <3>2. handle'[call[d].handle].cfg = handle[call[d].handle].cfg
      BY <1>t, <3>1, HandlesLast DEF HandlesKept
    <3>3. seed[t]
      <4>1. ASSUME NEW c \in Call, CreateSeed(c), ~seed[t] PROVE FALSE
        <5>1. call[c].pc \in Busy /\ call'[c].pc # call[c].pc
          BY <1>t, <4>1 DEF CreateSeed, Fails, At, Goto, Return, IdleCall, Busy, StartPc, CallRecord
        <5>2. call[c].task = t
          BY <1>t, <2>5, <4>1 DEF CreateSeed, TypeOK, HostTypeOK
        <5> QED
          BY <2>1, <5>1, <5>2
      <4>2. ASSUME NEW c \in Call, DestroyForget(c), ~seed[t] PROVE FALSE
        BY <1>t, <2>5, <4>2 DEF DestroyForget, TypeOK, HostTypeOK
      <4>3. ASSUME NEW c \in Call, Starts(c), ~CreateSeed(c) PROVE UNCHANGED seed
        BY <4>3 DEF Starts, StartTask, StartStep, CreateExecutor, RaiseTap, Materialize, Launch, Register, Reply
      <4>4. ASSUME NEW c \in Call, Destroys(c), ~DestroyForget(c) PROVE UNCHANGED seed
        BY <4>4 DEF Destroys, DestroyTask, DestroyStep, DestroyKill, DestroyDown
      <4> QED
        BY <1>t, <2>5, <4>1, <4>2, <4>3, <4>4, Kinds, RecoverAlone DEF Still
    <3> QED
      BY <1>c, <2>5, <3>2, <3>3 DEF LeakClean
  <2> QED
    BY <2>3, <2>4, <2>5 DEF LeakClean
<1> QED
  BY <1>n, <1>b

\* One that does.
LEMMA LeakMoves ==
    ASSUME ExitInv, OwnInv, LeakInv, NEW c \in Call, Starts(c) \/ Destroys(c)
    PROVE  LeakClean(call[c])'
<1>t. TypeOK /\ Wired /\ call \in [Call -> CallRecord] /\ handle \in [Handle -> HandleRecord]
      /\ tasks \in [Task -> Handle \union {None}] /\ seed \in [Task -> BOOLEAN]
  BY DEF ExitInv, TypeOK, HostTypeOK
<1>c. LeakClean(call[c])
  BY DEF LeakInv
<1>n. ASSUME call'[c].pc \notin {"reply", "kill", "forget", "refuse", "down"} PROVE LeakClean(call[c])'
  BY <1>n DEF LeakClean
<1>r. ASSUME Return(c) PROVE LeakClean(call[c])'
  BY <1>t, <1>r, <1>n DEF Return, IdleCall
<1>1. CASE Register(c)
  <2>1. CASE Return(c)
    BY <1>r, <2>1
  <2>2. ASSUME Goto(c, "reply"), NEW h \in Handle, Publish(c, h),
               handle' = [handle EXCEPT ![h] = [FreeHandle EXCEPT !.vm = call[c].vm,
                                                                   !.exec = TRUE,
                                                                   !.cfg = call[c].cfg]]
        PROVE  LeakClean(call[c])'
    <3>1. call[c].task \in Task
      BY <1>t, <1>1, CallTypes DEF Register, At, StartPc
    <3>2. call'[c].pc = "reply" /\ call'[c].task = call[c].task /\ call'[c].cfg = call[c].cfg
      BY <1>t, <2>2 DEF Goto, CallRecord
    <3>3. tasks'[call[c].task] = h /\ handle'[h].cfg = call[c].cfg
      BY <1>t, <2>2, <3>1 DEF Publish, FreeHandle
    <3> QED
      BY <3>2, <3>3 DEF LeakClean
  <2> QED
    BY <1>1, <2>1, <2>2 DEF Register, Fails
<1>2. ASSUME StartStep(c), ~Register(c) PROVE LeakClean(call[c])'
  <2>1. CASE Return(c)
    BY <1>r, <2>1
  <2>2. ASSUME NEW pc \in {"seed", "tap", "payload", "launch", "register"}, Goto(c, pc)
        PROVE  LeakClean(call[c])'
    BY <1>t, <1>n, <2>2 DEF Goto, CallRecord
  <2>3. ASSUME NEW k, call' = [call EXCEPT ![c].pc = "launch", ![c].cfg = k] PROVE LeakClean(call[c])'
    BY <1>t, <1>n, <2>3 DEF CallRecord
  <2> QED
    BY <1>2, <2>1, <2>2, <2>3
    DEF StartStep, CreateExecutor, CreateSeed, RaiseTap, Materialize, Launch, Reply, Fails
<1>3. ASSUME NEW t \in Task, StartTask(c, t) PROVE LeakClean(call[c])'
  <2>1. call'[c].pc = "executor"
    BY <1>t, <1>3 DEF StartTask, IdleCall
  <2> QED
    BY <1>n, <2>1
<1>4. ASSUME NEW t \in Task, NEW force \in BOOLEAN, DestroyTask(c, t, force) PROVE LeakClean(call[c])'
  <2>1. /\ call'[c].pc \in {"kill", "refuse"} /\ call'[c].task = t /\ call'[c].handle = tasks[t]
        /\ UNCHANGED tasks
    BY <1>t, <1>4 DEF DestroyTask, Holds, IdleCall
  <2> QED
    BY <2>1 DEF LeakClean
<1>5. CASE DestroyKill(c)
  <2>1. /\ call'[c].pc = "forget" /\ call'[c].task = call[c].task /\ call'[c].handle = call[c].handle
        /\ UNCHANGED tasks /\ call[c].pc = "kill"
    BY <1>t, <1>5 DEF DestroyKill, At, Goto, CallRecord
  <2> QED
    BY <1>c, <2>1 DEF LeakClean
<1>6. CASE DestroyForget(c)
  <2>1. /\ call'[c].pc = "down" /\ call'[c].task = call[c].task /\ call'[c].handle = call[c].handle
        /\ UNCHANGED handle /\ call[c].task \in Task
    BY <1>t, <1>6, CallTypes DEF DestroyForget, At, Goto, CallRecord, DestroyPc
  <2>2. seed'[call[c].task] => ~handle[call[c].handle].cfg.seed \/ "hostFails" \in Hazards
    BY <1>t, <1>6, <2>1 DEF DestroyForget
  <2> QED
    BY <2>1, <2>2 DEF LeakClean
<1>7. CASE DestroyDown(c)
  BY <1>r, <1>7 DEF DestroyDown
<1> QED
  BY <1>1, <1>2, <1>3, <1>4, <1>5, <1>6, <1>7 DEF Starts, Destroys, DestroyStep

\* The death of the plugin leaves no goroutine.
LEMMA LeakLoss ==
    ASSUME LosesMemory
    PROVE  LeakInv'
BY DEF LosesMemory, IdleCall, LeakInv, LeakClean

\* So it is inductive.
LEMMA LeakStep ==
    ASSUME ExitInv, OwnInv, LeakInv, [Next]_vars
    PROVE  LeakInv'
<1>1. ASSUME ~LosesMemory, NEW d \in Call PROVE LeakClean(call[d])'
  <2>1. CASE call'[d].pc \notin StartPc \union DestroyPc
    BY <2>1 DEF LeakClean, StartPc, DestroyPc
  <2> QED
    BY <1>1, <2>1, Actor, LeakStays, LeakMoves DEF ExitInv
<1> QED
  BY <1>1, LeakLoss DEF LeakInv

-----------------------------------------------------------------------------
(* Who can leave a tap or a seed image without an owner.                   *)

\* A start goes on as it was, answers, or fails in the sense of StartFailed.
LEMMA StartGoesOnOrFails ==
    ASSUME TypeOK, NEW c \in Call, StartStep(c)
    PROVE  \/ /\ call'[c].pc \in StartPc /\ call'[c].task = call[c].task
              /\ call'[c].cfg = call[c].cfg
           \/ Reply(c) /\ At(c, "reply") /\ UNCHANGED <<tasks, handle>>
           \/ StartFailed(c, call[c].task)
<1>t. call \in [Call -> CallRecord]
  BY DEF TypeOK
<1>p. call[c].pc \in StartPc
  BY OwnSteps
<1>g. ASSUME NEW pc \in StartPc, Goto(c, pc)
      PROVE  /\ call'[c].pc \in StartPc /\ call'[c].task = call[c].task
             /\ call'[c].cfg = call[c].cfg
  BY <1>t, <1>g DEF Goto, CallRecord
<1>r. ASSUME Return(c), ~At(c, "reply") PROVE StartFailed(c, call[c].task)
  BY <1>t, <1>p, <1>r DEF Return, IdleCall, StartFailed
<1>1. CASE CreateExecutor(c) \/ CreateSeed(c) \/ RaiseTap(c) \/ Launch(c) \/ Register(c)
  <2>1. ~At(c, "reply") /\ (Return(c) \/ \E pc \in StartPc : Goto(c, pc))
    BY <1>1 DEF CreateExecutor, CreateSeed, RaiseTap, Launch, Register, Fails, At, StartPc
  <2> QED
    BY <1>g, <1>r, <2>1
<1>2. CASE Materialize(c)
  <2>1. ASSUME NEW k, call' = [call EXCEPT ![c].pc = "launch", ![c].cfg = k]
        PROVE  \/ /\ call'[c].pc \in StartPc /\ call'[c].task = call[c].task
                  /\ call'[c].cfg = call[c].cfg
               \/ StartFailed(c, call[c].task)
    <3>1. call'[c].pc = "launch" /\ call'[c].task = call[c].task
      BY <1>t, <2>1 DEF CallRecord
    <3> QED
      BY <1>p, <1>2, <3>1 DEF Materialize, StartFailed, StartPc
  <2>2. ~At(c, "reply") /\ (Return(c) \/ \E k : call' = [call EXCEPT ![c].pc = "launch", ![c].cfg = k])
    BY <1>2 DEF Materialize, Fails, At
  <2> QED
    BY <1>r, <2>1, <2>2
<1>3. CASE Reply(c)
  BY <1>3 DEF Reply
<1> QED
  BY <1>1, <1>2, <1>3 DEF StartStep

\* A destroy that goes on keeps its handle.
LEMMA DestroyKeepsHandle ==
    ASSUME TypeOK, NEW c \in Call, DestroyKill(c) \/ DestroyForget(c)
    PROVE  /\ call'[c].pc \in DestroyPc /\ call'[c].task = call[c].task
           /\ call'[c].handle = call[c].handle /\ UNCHANGED handle
BY DEF TypeOK, DestroyKill, DestroyForget, At, Goto, DestroyPc, CallRecord

\* An owner is lost by a start that fails, or when a destroy that has left the
\* store returns.
LEMMA OwnerLasts ==
    ASSUME ExitInv, OwnInv, LeakInv, [Next]_vars, ~LosesMemory, NEW t \in Task, NEW S, Owned(t, S)
    PROVE  \/ Owned(t, S)'
           \/ \E c \in Call : StartFailed(c, t)
           \/ \E c \in Call : /\ DestroyDown(c) /\ At(c, "down") /\ call[c].task = t
                              /\ handle[call[c].handle].cfg \in S
<1>t. TypeOK /\ Wired
  BY DEF ExitInv
<1>1. CASE tasks[t] # None /\ handle[tasks[t]].cfg \in S
  <2>1. tasks[t] \in Handle /\ ~IsFree(tasks[t])
    BY <1>t, <1>1 DEF TypeOK, Wired, IsFree
  <2>2. CASE tasks'[t] = tasks[t]
    BY <1>t, <1>1, <2>1, <2>2, HandlesLast DEF HandlesKept, Owned
  <2>3. ASSUME NEW c \in Call, DestroyForget(c), At(c, "forget"), call[c].task = t PROVE Owned(t, S)'
    <3>1. tasks[t] = call[c].handle
      BY <2>3 DEF LeakInv, LeakClean, At
    <3> QED
      BY <1>t, <1>1, <2>3, <3>1, DestroyKeepsHandle DEF Owned
  <2> QED
    BY <1>1, <2>2, <2>3, StoreLasts
<1>2. ASSUME NEW c \in Call, call[c].task = t, call[c].pc \in StartPc, call[c].cfg \in S
      PROVE  Owned(t, S)' \/ StartFailed(c, t)
  <2>1. CASE call'[c] = call[c]
    BY <1>2, <2>1 DEF Owned
  <2>2. CASE StartStep(c)
    <3>1. ASSUME Reply(c), At(c, "reply"), UNCHANGED <<tasks, handle>> PROVE Owned(t, S)'
      <4>1. tasks[t] # None /\ handle[tasks[t]].cfg = call[c].cfg
        BY <1>2, <3>1 DEF At, LeakInv, LeakClean, OwnInv, CallOwn, StartOwn
      <4> QED
        BY <1>2, <3>1, <4>1 DEF Owned
    <3> QED
      BY <1>t, <1>2, <2>2, <3>1, StartGoesOnOrFails DEF Owned
  <2> QED
    BY <1>t, <1>2, <2>1, <2>2, Actor, OwnSteps
<1>3. ASSUME NEW c \in Call, call[c].task = t, call[c].pc \in DestroyPc,
             handle[call[c].handle].cfg \in S, ~(DestroyDown(c) /\ At(c, "down"))
      PROVE  Owned(t, S)'
  <2>1. CASE call'[c] = call[c]
    <3>1. call[c].handle \in Handle /\ ~IsFree(call[c].handle)
      BY <1>t, <1>3, CallTypes, HostAssumption DEF IsFree
    <3>2. handle'[call[c].handle].cfg = handle[call[c].handle].cfg
      BY <1>t, <3>1, HandlesLast DEF HandlesKept
    <3> QED
      BY <1>3, <2>1, <3>2 DEF Owned
  <2>2. CASE DestroyKill(c) \/ DestroyForget(c)
    BY <1>t, <1>3, <2>2, DestroyKeepsHandle DEF Owned
  <2>3. CASE DestroyDown(c)
    <3>1. call[c].pc = "refuse" /\ UNCHANGED <<tasks, handle>>
      BY <1>3, <2>3 DEF DestroyDown, At
    <3>2. tasks[t] = call[c].handle /\ call[c].handle \in Handle
      BY <1>t, <1>3, <3>1, CallTypes DEF LeakInv, LeakClean
    <3> QED
      BY <1>3, <3>1, <3>2, DriverAssumption DEF Owned
  <2> QED
    BY <1>t, <1>3, <2>1, <2>2, <2>3, Actor, OwnSteps DEF DestroyStep
<1> QED
  BY <1>1, <1>2, <1>3 DEF Owned

\* A tap is made by a start, which owns it or fails.
LEMMA TapHasMaker ==
    ASSUME TypeOK, Wired, [Next]_vars, ~LosesMemory, NEW t \in Task, tap[t] = "absent", tap'[t] # "absent"
    PROVE  Owned(t, Nets)' \/ \E c \in Call : StartFailed(c, t)
<1>t. tap \in [Task -> TapState] /\ call \in [Call -> CallRecord]
  BY DEF TypeOK, HostTypeOK
<1>1. ASSUME NEW c \in Call, RaiseTap(c) PROVE Owned(t, Nets)' \/ StartFailed(c, t)
  <2>1. At(c, "tap") /\ call[c].task \in Task
    BY <1>1, CallTypes DEF RaiseTap, At, StartPc
  <2>2. call[c].task = t /\ call[c].cfg.net
    BY <1>t, <1>1, <2>1 DEF RaiseTap, TapUpOk, TapUpFails
  <2>3. CASE Return(c)
    BY <1>t, <2>1, <2>2, <2>3 DEF StartFailed, Return, IdleCall, At, StartPc
  <2>4. CASE Goto(c, "payload")
    <3>1. call'[c].pc \in StartPc /\ call'[c].task = t /\ call'[c].cfg = call[c].cfg
      BY <1>t, <2>2, <2>4 DEF Goto, StartPc, CallRecord
    <3> QED
      BY <1>t, <2>2, <3>1 DEF Owned, Nets, CallRecord
  <2> QED
    BY <1>1, <2>3, <2>4 DEF RaiseTap
<1>2. ASSUME NEW c \in Call, DestroyDown(c) PROVE FALSE
  <2>1. call[c].task \in Task
    BY <1>2, CallTypes DEF DestroyDown, DestroyPc
  <2> QED
    BY <1>t, <1>2, <2>1 DEF DestroyDown, TapDown
<1>3. ASSUME NEW c \in Call, Starts(c), ~RaiseTap(c) PROVE UNCHANGED tap
  BY <1>3 DEF Starts, StartTask, StartStep, CreateExecutor, CreateSeed, Materialize, Launch, Register, Reply
<1>4. ASSUME NEW c \in Call, Destroys(c), ~DestroyDown(c) PROVE UNCHANGED tap
  BY <1>4 DEF Destroys, DestroyTask, DestroyStep, DestroyKill, DestroyForget
<1> QED
  BY <1>1, <1>2, <1>3, <1>4, Kinds, RecoverAlone DEF Still

\* A seed image is made by a start, which owns it or fails.
LEMMA SeedHasMaker ==
    ASSUME TypeOK, Wired, [Next]_vars, ~LosesMemory, NEW t \in Task, ~seed[t], seed'[t]
    PROVE  Owned(t, Seeds)' \/ \E c \in Call : StartFailed(c, t)
<1>t. seed \in [Task -> BOOLEAN] /\ call \in [Call -> CallRecord]
  BY DEF TypeOK, HostTypeOK
<1>1. ASSUME NEW c \in Call, CreateSeed(c) PROVE Owned(t, Seeds)' \/ StartFailed(c, t)
  <2>1. At(c, "seed") /\ call[c].task = t /\ call[c].cfg.seed
    BY <1>t, <1>1 DEF CreateSeed, CallRecord, Config
  <2>2. CASE Goto(c, "tap")
    <3>1. call'[c].pc \in StartPc /\ call'[c].task = t /\ call'[c].cfg = call[c].cfg
      BY <1>t, <2>1, <2>2 DEF Goto, StartPc, CallRecord
    <3> QED
      BY <1>t, <2>1, <3>1 DEF Owned, Seeds, CallRecord
  <2>3. CASE Return(c)
    BY <1>t, <2>1, <2>3 DEF StartFailed, Return, IdleCall, At, StartPc
  <2> QED
    BY <1>1, <2>2, <2>3 DEF CreateSeed, Fails
<1>2. ASSUME NEW c \in Call, DestroyForget(c) PROVE FALSE
  BY <1>t, <1>2 DEF DestroyForget
<1>3. ASSUME NEW c \in Call, Starts(c), ~CreateSeed(c) PROVE UNCHANGED seed
  BY <1>3 DEF Starts, StartTask, StartStep, CreateExecutor, RaiseTap, Materialize, Launch, Register, Reply
<1>4. ASSUME NEW c \in Call, Destroys(c), ~DestroyForget(c) PROVE UNCHANGED seed
  BY <1>4 DEF Destroys, DestroyTask, DestroyStep, DestroyKill, DestroyDown
<1> QED
  BY <1>1, <1>2, <1>3, <1>4, Kinds, RecoverAlone DEF Still

\* A destroy that returns leaves a seed image or a tap only if it could not delete
\* it.
LEMMA DownLeaves ==
    ASSUME TypeOK, LeakInv, NEW c \in Call, DestroyDown(c), At(c, "down"), NEW t \in Task, call[c].task = t
    PROVE  /\ handle[call[c].handle].cfg \in Seeds /\ seed'[t] => RemovalFailed(c, t)
           /\ handle[call[c].handle].cfg \in Nets /\ tap'[t] # "absent" => DeletionFailed(c, t)
<1>1. handle[call[c].handle].cfg \in Seeds /\ seed'[t] => RemovalFailed(c, t)
  BY DEF DestroyDown, At, LeakInv, LeakClean, Seeds, RemovalFailed
<1>2. ASSUME handle[call[c].handle].cfg \in Nets, tap'[t] # "absent" PROVE DeletionFailed(c, t)
  BY <1>2 DEF DestroyDown, TapDown, Nets, DeletionFailed, TypeOK, HostTypeOK
<1> QED
  BY <1>1, <1>2

\* Every step that leaves a tap or a seed image without an owner is one of those.
LEMMA LeakCause ==
    ASSUME ExitInv, OwnInv, LeakInv, [Next]_vars, up', NEW t \in Task
    PROVE  /\ SeedLeaked(t)' /\ ~SeedLeaked(t) =>
                \E c \in Call : StartFailed(c, t) \/ RemovalFailed(c, t)
           /\ TapLeaked(t)' /\ ~TapLeaked(t) =>
                \E c \in Call : StartFailed(c, t) \/ DeletionFailed(c, t)
<1>t. TypeOK /\ Wired /\ TypeOK' /\ Wired'
  BY NextWired DEF ExitInv
<1>l. ~LosesMemory
  BY DEF LosesMemory
<1>1. ASSUME SeedLeaked(t)', ~SeedLeaked(t)
      PROVE  \E c \in Call : StartFailed(c, t) \/ RemovalFailed(c, t)
  <2>1. seed'[t] /\ ~Owned(t, Seeds)'
    BY <1>t, <1>1, OwnedSetsNext DEF SeedLeaked, Leaked
  <2>2. CASE ~seed[t]
    BY <1>t, <1>l, <2>1, <2>2, SeedHasMaker
  <2>3. CASE seed[t]
    <3>1. Owned(t, Seeds)
      BY <1>t, <1>1, <2>3, OwnedSets DEF SeedLeaked, Leaked
    <3> QED
      BY <1>t, <1>l, <2>1, <3>1, OwnerLasts, DownLeaves
  <2> QED
    BY <2>2, <2>3
<1>2. ASSUME TapLeaked(t)', ~TapLeaked(t)
      PROVE  \E c \in Call : StartFailed(c, t) \/ DeletionFailed(c, t)
  <2>1. tap'[t] # "absent" /\ ~Owned(t, Nets)'
    BY <1>t, <1>2, OwnedSetsNext DEF TapLeaked, Leaked
  <2>2. CASE tap[t] = "absent"
    BY <1>t, <1>l, <2>1, <2>2, TapHasMaker
  <2>3. CASE tap[t] # "absent"
    <3>1. Owned(t, Nets)
      BY <1>t, <1>2, <2>3, OwnedSets DEF TapLeaked, Leaked
    <3> QED
      BY <1>t, <1>l, <2>1, <3>1, OwnerLasts, DownLeaves
  <2> QED
    BY <2>2, <2>3
<1> QED
  BY <1>1, <1>2

\* Unless Nomad overlaps its calls, a tap or a seed image loses its owner only by a
\* start that fails or whose image changes, a destroy that could not delete it, or
\* the death of the plugin.
THEOREM OnlyFailuresLeak ==
    ASSUME Disciplined
    PROVE  Spec => LeaksOnlyByFailure
<1>1. Init => LeakInv
  BY DEF Init, IdleCall, LeakInv, LeakClean
<1>2. ExitInv /\ OwnInv /\ LeakInv /\ [Next]_vars => LeakInv'
  BY LeakStep
<1>3. ExitInv /\ OwnInv /\ LeakInv /\ [Next]_vars =>
        (up' => \A t \in Task :
           /\ SeedLeaked(t)' /\ ~SeedLeaked(t) =>
                \E c \in Call : StartFailed(c, t) \/ RemovalFailed(c, t)
           /\ TapLeaked(t)' /\ ~TapLeaked(t) =>
                \E c \in Call : StartFailed(c, t) \/ DeletionFailed(c, t))
  BY LeakCause
<1> QED
  BY <1>1, <1>2, <1>3, ExitInvariant, OwnInvariant, PTL DEF Spec, LeaksOnlyByFailure

-----------------------------------------------------------------------------
(* A VM keeps its network although host commands fail, the plugin dies and *)
(* pids are reused: what fails gives no tap up, and a recovered handle     *)
(* knows of none.                                                          *)

\* Tags and executors stay, and a task is destroyed once, when it is seen to have exited.
OrderlyDestroys ==
    {"tagMoves", "executorCrash", "destroyRunning", "duplicateCalls"} \cap Hazards = {}

\* A start has the tap its VM will need; only a VM that has ended is destroyed.
TapSafe(r) ==
    /\ r.pc \in {"payload", "launch"} /\ r.cfg.net => tap[r.task] = "up"
    /\ r.pc \in DestroyPc => r.pc # "refuse" /\ Exited(handle[r.handle].vm)
TapInv == NetworkUp /\ \A c \in Call : TapSafe(call[c])
TapsOwned == ExitInv /\ OwnInv /\ ExecutorsLive /\ TapInv

\* Only a destroy takes a tap down.
LEMMA TapsFall ==
    ASSUME TypeOK, [Next]_vars, NEW t \in Task, tap[t] = "up", tap'[t] # "up"
    PROVE  \E c \in Call : DestroyDown(c) /\ call[c].task = t
<1>t. tap \in [Task -> TapState]
  BY DEF TypeOK, HostTypeOK
<1>1. ~LosesMemory /\ ~Still
  BY DEF LosesMemory, Still
<1>2. ASSUME NEW c \in Call, Starts(c) PROVE tap'[t] = tap[t]
  BY <1>t, <1>2 DEF Starts, StartTask, StartStep, CreateExecutor, CreateSeed, RaiseTap, Materialize,
                    Launch, Register, Reply, TapUpOk, TapUpFails
<1>3. ASSUME NEW c \in Call, Recovers(c) PROVE UNCHANGED tap
  BY <1>3, RecoverAlone
<1>4. ASSUME NEW c \in Call, Destroys(c), ~(DestroyDown(c) /\ call[c].task = t) PROVE tap'[t] = tap[t]
  BY <1>t, <1>4 DEF Destroys, DestroyTask, DestroyStep, DestroyKill, DestroyForget, DestroyDown, TapDown
<1> QED
  BY <1>1, <1>2, <1>3, <1>4, Kinds

\* Unless Nomad overlaps its calls, a VM that runs loses its tap only to a destroy
\* of its own task that was refused, that has sent SIGKILL, or that took the VM for
\* ended because its executor had died.
THEOREM OnlyDestroysCutNetworks ==
    ASSUME Disciplined
    PROVE  Spec => NetworkCutOnlyByDestroy
<1>1. ASSUME ExitInv, OwnInv, [Next]_vars, NEW v \in Vm, NEW t \in Task, t = vm[v].task,
             Running(v), tap[t] = "up", tap'[t] # "up"
      PROVE  \E c \in Call :
               /\ call[c].task = t
               /\ At(c, "refuse") \/ (At(c, "down") /\ (vm[v].killed \/ vm[v].exec = "dead"))
  <2>t. TypeOK /\ Wired
    BY <1>1 DEF ExitInv
  <2> PICK c \in Call : DestroyDown(c) /\ call[c].task = t
    BY <1>1, <2>t, TapsFall
  <2>1. call[c].pc \in {"down", "refuse"} /\ call[c].pc \in DestroyPc
    BY DEF DestroyDown, DestroyPc
  <2>2. handle[call[c].handle].vm \in Vm /\ UseOwn(call[c])
    BY <1>1, <2>t, <2>1, CallTypes DEF OwnInv, CallOwn
  <2>3. handle[call[c].handle].vm = v
    BY <1>1, <2>2, HostAssumption DEF UseOwn, Owns, OwnInv, OneStart
  <2>4. call[c].pc = "down" => vm[v].killed \/ vm[v].exec = "dead"
    BY <1>1, <2>2, <2>3 DEF UseOwn, Finished, Exited, Running
  <2> QED
    BY <2>1, <2>4 DEF At
<1>2. ExitInv /\ OwnInv /\ [Next]_vars =>
        \A v \in Vm : LET t == vm[v].task IN
          Running(v) /\ Running(v)' /\ vm[v].net /\ tap[t] = "up" /\ tap'[t] # "up" =>
            \E c \in Call :
              /\ call[c].task = t
              /\ At(c, "refuse") \/ (At(c, "down") /\ (vm[v].killed \/ vm[v].exec = "dead"))
  <2> SUFFICES ASSUME ExitInv, OwnInv, [Next]_vars, NEW v \in Vm, Running(v),
                      tap[vm[v].task] = "up", tap'[vm[v].task] # "up"
               PROVE  \E c \in Call :
                        /\ call[c].task = vm[v].task
                        /\ At(c, "refuse") \/ (At(c, "down") /\ (vm[v].killed \/ vm[v].exec = "dead"))
    OBVIOUS
  <2>1. vm[v].task \in Task
    BY DEF ExitInv, Fresh, Running, TypeOK, HostTypeOK, VmRecord
  <2> QED
    BY <1>1, <2>1
<1> QED
  BY <1>2, ExitInvariant, OwnInvariant, PTL DEF Spec, NetworkCutOnlyByDestroy

\* A destroy takes no tap from a VM that runs, nor from a start.
LEMMA TapsHold ==
    ASSUME TapsOwned, [Next]_vars, NEW t \in Task, tap[t] = "up",
           \/ \E v \in Vm : vm[v].task = t /\ Running(v)
           \/ \E d \in Call : call[d].task = t /\ call[d].pc \in StartPc
    PROVE  tap'[t] = "up"
<1>t. TypeOK /\ Wired /\ ExitInv /\ OwnInv
  BY DEF TapsOwned, ExitInv
<1> SUFFICES ASSUME NEW c \in Call, DestroyDown(c), call[c].task = t PROVE FALSE
  BY <1>t, TapsFall
<1>1. call[c].pc \in DestroyPc /\ handle[call[c].handle].vm \in Vm
  BY <1>t, CallTypes DEF DestroyDown, DestroyPc
<1>2. Exited(handle[call[c].handle].vm) /\ Owns(t, handle[call[c].handle].vm)
  BY <1>t, <1>1 DEF TapsOwned, TapInv, TapSafe, OwnInv, CallOwn, UseOwn
<1>3. ASSUME NEW v \in Vm, vm[v].task = t, Running(v) PROVE FALSE
  <2>1. v = handle[call[c].handle].vm
    BY <1>t, <1>1, <1>2, <1>3, HostAssumption DEF OwnInv, OneStart, Owns
  <2> QED
    BY <1>2, <1>3, <2>1 DEF Running, Exited
<1>4. ASSUME NEW d \in Call, call[d].task = t, call[d].pc \in StartPc PROVE FALSE
  <2>1. d = c
    BY <1>t, <1>1, <1>4, OneBusy DEF Busy
  <2> QED
    BY <1>1, <1>4, <2>1 DEF StartPc, DestroyPc
<1> QED
  BY <1>3, <1>4

\* A VM that runs keeps its tap, and one that is launched finds it.
LEMMA NetworkLasts ==
    ASSUME Disciplined, TapsOwned, [Next]_vars
    PROVE  NetworkUp'
<1>t. TypeOK /\ Wired /\ Fresh /\ ExitInv /\ OwnInv /\ VmsGrow
  BY VmsOnlyGrow DEF TapsOwned, ExitInv, OwnInv
<1> SUFFICES ASSUME NEW v \in Vm, Running(v)', vm'[v].net
             PROVE  tap'[vm'[v].task] = "up"
  BY DEF NetworkUp
<1>1. CASE Running(v) /\ vm[v].net
  <2>1. vm[v].task \in Task
    BY <1>t, <1>1 DEF Fresh, Running, TypeOK, HostTypeOK, VmRecord
  <2>2. tap[vm[v].task] = "up"
    BY <1>1 DEF TapsOwned, TapInv, NetworkUp
  <2>3. tap'[vm[v].task] = "up"
    BY <1>1, <2>1, <2>2, TapsHold
  <2> QED
    BY <1>t, <2>1, <2>3, HostAssumption DEF VmsGrow
<1>2. ASSUME NEW c \in Call, Launch(c), At(c, "launch"), call[c].vm = v, call[c].cfg.net
      PROVE  tap'[vm'[v].task] = "up"
  <2>1. call[c].task \in Task /\ vm[v].task = call[c].task
    BY <1>t, <1>2, CallTypes DEF At, StartPc, OwnInv, CallOwn, StartOwn
  <2>2. vm'[v].task = call[c].task
    BY <1>t, <2>1, HostAssumption DEF VmsGrow
  <2>3. tap[call[c].task] = "up"
    BY <1>2 DEF At, TapsOwned, TapInv, TapSafe
  <2> QED
    BY <1>2, <2>2, <2>3 DEF Launch
<1> QED
  BY <1>t, <1>1, <1>2, NetsAreLaunched

\* A goroutine that does not move while another one does.
LEMMA TapSafeStays ==
    ASSUME TapsOwned, [Next]_vars, ~LosesMemory, NEW d \in Call, call'[d] = call[d]
    PROVE  TapSafe(call[d])'
<1>t. TypeOK /\ Wired /\ Fresh /\ EndsAreFinal /\ HandlesKept /\ TapSafe(call[d])
  BY FreshStep, HandlesLast DEF TapsOwned, ExitInv, TapInv
<1>1. ASSUME call[d].pc \in {"payload", "launch"}, call[d].cfg.net PROVE tap'[call[d].task] = "up"
  <2>1. call[d].task \in Task /\ call[d].pc \in StartPc
    BY <1>t, <1>1, CallTypes DEF StartPc
  <2> QED
    BY <1>t, <1>1, <2>1, TapsHold DEF TapSafe
<1>2. ASSUME call[d].pc \in DestroyPc PROVE Exited(handle[call[d].handle].vm)'
  <2>1. call[d].handle \in Handle /\ handle[call[d].handle].vm \in Vm /\ ~IsFree(call[d].handle)
    BY <1>t, <1>2, CallTypes, HostAssumption DEF IsFree
  <2>2. handle'[call[d].handle].vm = handle[call[d].handle].vm
    BY <1>t, <2>1 DEF HandlesKept
  <2> QED
    BY <1>t, <1>2, <2>1, <2>2 DEF TapSafe, EndsAreFinal, Exited
<1> QED
  BY <1>t, <1>1, <1>2 DEF TapSafe

\* One that starts or destroys.
LEMMA TapSafeMoves ==
    ASSUME OrderlyDestroys, TapsOwned, [Next]_vars, ~LosesMemory, NEW c \in Call, Starts(c) \/ Destroys(c)
    PROVE  TapSafe(call[c])'
<1>t. /\ TypeOK /\ Wired /\ Fresh /\ ExitInv /\ EndsAreFinal /\ HandlesKept /\ TapSafe(call[c])
      /\ call \in [Call -> CallRecord] /\ tap \in [Task -> TapState]
  BY FreshStep, HandlesLast DEF TapsOwned, ExitInv, TapInv, TypeOK, HostTypeOK
<1>0. call'[c].pc \notin {"payload", "launch"} \union DestroyPc => TapSafe(call[c])'
  BY DEF TapSafe
<1>1. CASE RaiseTap(c)
  <2>1. CASE Return(c)
    BY <1>t, <1>0, <2>1 DEF Return, IdleCall, DestroyPc
  <2>2. CASE Goto(c, "payload") /\ (call[c].cfg.net => TapUpOk(call[c].task))
    <3>1. /\ call'[c].pc = "payload" /\ call'[c].task = call[c].task /\ call'[c].cfg = call[c].cfg
          /\ call[c].task \in Task
      BY <1>t, <1>1, <2>2, CallTypes DEF RaiseTap, At, StartPc, Goto, CallRecord
    <3>2. call[c].cfg.net => tap'[call[c].task] = "up"
      BY <1>t, <2>2, <3>1 DEF TapUpOk
    <3> QED
      BY <3>1, <3>2 DEF TapSafe, DestroyPc
  <2> QED
    BY <1>1, <2>1, <2>2 DEF RaiseTap
<1>2. CASE Materialize(c)
  <2>1. CASE Return(c)
    BY <1>t, <1>0, <2>1 DEF Return, IdleCall, DestroyPc
  <2>2. CASE call' = [call EXCEPT ![c].pc = "launch", ![c].cfg = call[c].cfg]
    <3>1. /\ call'[c].pc = "launch" /\ call'[c].task = call[c].task /\ call'[c].cfg = call[c].cfg
          /\ At(c, "payload") /\ UNCHANGED tap
      BY <1>t, <1>2, <2>2 DEF Materialize, CallRecord
    <3> QED
      BY <1>t, <3>1 DEF TapSafe, At, DestroyPc
  <2> QED
    BY <1>2, <2>1, <2>2 DEF Materialize, Rebuilt, Fails, OrderlyDestroys
<1>3. CASE CreateExecutor(c) \/ CreateSeed(c) \/ Launch(c) \/ Register(c) \/ Reply(c)
  <2>1. call'[c].pc \in {"seed", "tap", "register", "reply", "idle"}
    BY <1>t, <1>3 DEF CreateExecutor, CreateSeed, Launch, Register, Reply, Goto, Fails, Return, IdleCall, CallRecord
  <2> QED
    BY <1>0, <2>1 DEF DestroyPc
<1>4. ASSUME NEW t \in Task, StartTask(c, t) PROVE TapSafe(call[c])'
  <2>1. call'[c].pc = "executor"
    BY <1>t, <1>4 DEF StartTask, IdleCall
  <2> QED
    BY <1>0, <2>1 DEF DestroyPc
<1>5. ASSUME NEW t \in Task, NEW force \in BOOLEAN, DestroyTask(c, t, force) PROVE TapSafe(call[c])'
  <2>1. tasks[t] \in Handle /\ ~IsRunning(tasks[t]) /\ handle[tasks[t]].vm \in Vm
    BY <1>t, <1>5 DEF DestroyTask, OrderlyDestroys, TypeOK, Wired, HandleRecord
  <2>2. call'[c].pc = "kill" /\ call'[c].handle = tasks[t] /\ UNCHANGED <<handle, vm>>
    BY <1>t, <1>5, <2>1 DEF DestroyTask, Holds, IdleCall
  <2>3. Exited(handle[tasks[t]].vm)
    BY <1>t, <2>1, HostAssumption DEF TapsOwned, ExitInv, Recorded, IsFree, TrueEnd, ExecutorsLive
  <2>4. Exited(handle[call[c].handle].vm)'
    BY <2>2, <2>3 DEF Exited
  <2> QED
    BY <2>2, <2>4 DEF TapSafe
<1>6. CASE DestroyKill(c) \/ DestroyForget(c)
  <2>1. /\ call[c].pc \in DestroyPc /\ call'[c].pc \in {"forget", "down"}
        /\ call'[c].handle = call[c].handle /\ UNCHANGED handle
    BY <1>t, <1>6 DEF DestroyKill, DestroyForget, At, Goto, DestroyPc, CallRecord
  <2>2. handle[call[c].handle].vm \in Vm
    BY <1>t, <2>1, CallTypes
  <2>3. Exited(handle[call[c].handle].vm)'
    BY <1>t, <2>1, <2>2 DEF TapSafe, EndsAreFinal, Exited
  <2> QED
    BY <2>1, <2>3 DEF TapSafe
<1>7. CASE DestroyDown(c)
  <2>1. call'[c].pc = "idle"
    BY <1>t, <1>7 DEF DestroyDown, Return, IdleCall
  <2> QED
    BY <1>0, <2>1 DEF DestroyPc
<1> QED
  BY <1>1, <1>2, <1>3, <1>4, <1>5, <1>6, <1>7 DEF Starts, StartStep, Destroys, DestroyStep

\* The invariant is inductive on top of the others.
LEMMA TapStep ==
    ASSUME OrderlyDestroys, TapsOwned, [Next]_vars
    PROVE  TapInv'
<1>t. TypeOK /\ Disciplined
  BY DEF TapsOwned, ExitInv, OrderlyDestroys, Disciplined
<1>1. ASSUME NEW d \in Call, ~LosesMemory PROVE TapSafe(call[d])'
  <2>1. CASE call'[d].pc \notin StartPc \union DestroyPc
    BY <2>1 DEF TapSafe, StartPc
  <2> QED
    BY <1>t, <1>1, <2>1, Actor, TapSafeStays, TapSafeMoves
<1>2. ASSUME NEW d \in Call, LosesMemory PROVE TapSafe(call[d])'
  BY <1>2 DEF LosesMemory, IdleCall, TapSafe, DestroyPc
<1> QED
  BY <1>t, <1>1, <1>2, NetworkLasts DEF TapInv

\* As long as no tag moves, no executor dies, and a task is destroyed once and only
\* when it is seen to have exited, a VM that runs has its tap up, whatever host
\* commands fail and whenever the plugin dies.
THEOREM NetworksStayUp ==
    ASSUME OrderlyDestroys
    PROVE  Spec => []NetworkUp
<1>1. Disciplined /\ "executorCrash" \notin Hazards
  BY DEF OrderlyDestroys, Disciplined
<1>2. Init => TapInv /\ ExecutorsLive
  BY DEF Init, HostInit, IdleCall, NetworkUp, Running, ExecutorsLive, TapInv, TapSafe, DestroyPc
<1>3. ExitInv /\ OwnInv /\ ExecutorsLive /\ TapInv /\ [Next]_vars => TapInv' /\ ExecutorsLive'
  BY <1>1, TapStep, ExecutorsLiveStep DEF TapsOwned, ExitInv
<1>4. TapInv => NetworkUp
  BY DEF TapInv
<1> QED
  BY <1>1, <1>2, <1>3, <1>4, ExitInvariant, OwnInvariant, PTL DEF Spec

=============================================================================
