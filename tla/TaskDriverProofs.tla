-------------------------- MODULE TaskDriverProofs --------------------------
(***************************************************************************)
(* Theorems about TaskDriver, for any number of tasks, starts, goroutines  *)
(* and handles, and under any set of hazards unless a theorem says so.     *)
(***************************************************************************)
EXTENDS TaskProperties, TLAPS

USE HostAssumption, DriverAssumption

-----------------------------------------------------------------------------
(* Type correctness.                                                       *)

\* The records a new config, an idle call and a free handle hold are well typed.
LEMMA BlankRecords ==
    /\ ZeroConfig \in Config
    /\ IdleCall \in CallRecord
    /\ FreeHandle \in HandleRecord
BY DEF ZeroConfig, Config, IdleCall, CallRecord, FreeHandle, HandleRecord, Pc, Result

\* The initial state is well typed.
LEMMA InitTypeOK == Init => TypeOK
<1> SUFFICES ASSUME Init PROVE TypeOK
  OBVIOUS
<1>1. HostTypeOK
  BY DEF Init, HostInit, HostTypeOK, VmRecord, TapState, ProcState
<1>2. /\ tasks \in [Task -> Handle \union {None}]
      /\ handle \in [Handle -> HandleRecord]
      /\ call \in [Call -> CallRecord]
      /\ up \in BOOLEAN
      /\ saved \in [Task -> Vm \union {None}]
  BY BlankRecords DEF Init
<1> QED
  BY <1>1, <1>2 DEF TypeOK

\* Signals and the host's own steps keep the types of the host.
LEMMA SignalledType ==
    ASSUME HostTypeOK, NEW v \in Vm, NEW sig
    PROVE  Signalled(v, sig) \in [Vm -> VmRecord]
<1> DEFINE p == IF vm[v].proc = "reused" THEN "struck" ELSE vm[v].proc
           k == vm[v].killed \/ (sig = "KILL" /\ vm[v].proc = "running")
           r == [vm[v] EXCEPT !.proc = p, !.killed = k]
<1>1. vm \in [Vm -> VmRecord] /\ vm[v] \in VmRecord
  BY DEF HostTypeOK
<1>2. p \in ProcState
  BY <1>1 DEF VmRecord, ProcState
<1>3. k \in BOOLEAN
  OBVIOUS
<1> HIDE DEF p, k
<1>4. r \in VmRecord
  BY <1>1, <1>2, <1>3 DEF VmRecord
<1>5. Signalled(v, sig) = [vm EXCEPT ![v] = r]
  BY <1>1 DEF Signalled, p, k
<1> QED
  BY <1>1, <1>4, <1>5

\* The host's own steps (exit, pid reuse, executor crash) keep its types.
LEMMA HostNextType ==
    ASSUME HostTypeOK, HostNext
    PROVE  HostTypeOK'
<1> PICK v \in Vm : VmExit(v) \/ PidReuse(v) \/ ExecutorCrash(v)
  BY DEF HostNext
<1>1. CASE VmExit(v)
  <2> PICK s \in ExitStatus : vm' = [vm EXCEPT ![v].proc = "gone", ![v].status = s]
    BY <1>1 DEF VmExit
  <2>1. vm[v] \in VmRecord
    BY DEF HostTypeOK
  <2>2. [vm[v] EXCEPT !.proc = "gone", !.status = s] \in VmRecord
    BY <2>1 DEF VmRecord, ProcState
  <2>3. vm' = [vm EXCEPT ![v] = [vm[v] EXCEPT !.proc = "gone", !.status = s]]
    BY DEF HostTypeOK
  <2>4. UNCHANGED <<tap, seed>>
    BY <1>1 DEF VmExit
  <2> QED
    BY <2>2, <2>3, <2>4 DEF HostTypeOK
<1>2. CASE PidReuse(v)
  <2>1. vm[v] \in VmRecord /\ "reused" \in ProcState
    BY DEF HostTypeOK, ProcState
  <2>2. [vm[v] EXCEPT !.proc = "reused"] \in VmRecord
    BY <2>1 DEF VmRecord
  <2>3. vm' = [vm EXCEPT ![v] = [vm[v] EXCEPT !.proc = "reused"]]
    BY <1>2 DEF PidReuse, HostTypeOK
  <2> QED
    BY <1>2, <2>2, <2>3 DEF PidReuse, HostTypeOK
<1>3. CASE ExecutorCrash(v)
  BY <1>3 DEF ExecutorCrash, HostTypeOK, VmRecord
<1> QED
  BY <1>1, <1>2, <1>3

\* Bringing a tap up, failing to, and taking it down keep the tap table typed.
LEMMA TapTypes ==
    ASSUME HostTypeOK, NEW t
    PROVE  /\ TapUpOk(t) => tap' \in [Task -> TapState]
           /\ TapUpFails(t) => tap' \in [Task -> TapState]
           /\ TapDown(t) => tap' \in [Task -> TapState]
BY DEF HostTypeOK, TapUpOk, TapUpFails, TapDown, TapState

-----------------------------------------------------------------------------
(* Type and wiring: TypeOK alone is not inductive, since a goroutine uses  *)
(* the handle and the VM it holds.                                         *)

CallsOK == call \in [Call -> CallRecord] /\ \A c \in Call : HoldsItsTask(call[c])

\* A handle in use keeps its VM.
KeepsVms == \A h \in Handle : handle[h].vm \in Vm => handle'[h].vm = handle[h].vm

\* One goroutine moves to a record that holds its task.
LEMMA CallStep ==
    ASSUME TypeOK, Wired, KeepsVms, NEW c \in Call, NEW r \in CallRecord, HoldsItsTask(r),
           call' = [call EXCEPT ![c] = r]
    PROVE  CallsOK'
<1>1. \A d \in Call : call'[d] = IF d = c THEN r ELSE call[d]
  BY DEF TypeOK
<1>2. call' \in [Call -> CallRecord]
  BY DEF TypeOK
<1>3. ASSUME NEW d \in Call PROVE HoldsItsTask(call[d])'
  <2>1. CASE d = c
    <3>1. call'[d] = r
      BY <1>1, <2>1
    <3> QED
      BY <3>1 DEF HoldsItsTask, KeepsVms
  <2>2. CASE d # c
    <3>1. call'[d] = call[d] /\ HoldsItsTask(call[d])
      BY <1>1, <2>2 DEF Wired
    <3> QED
      BY <3>1 DEF HoldsItsTask, KeepsVms
  <2> QED
    BY <2>1, <2>2
<1> QED
  BY <1>2, <1>3 DEF CallsOK

\* Returning, failing and moving to the next step of its own handler keep a call sound.
LEMMA CallMoves ==
    ASSUME TypeOK, Wired, KeepsVms, NEW c \in Call
    PROVE  /\ Return(c) \/ Fails(c) => CallsOK'
           /\ \A pc \in StartPc : call[c].pc \in StartPc /\ Goto(c, pc) => CallsOK'
           /\ \A pc \in RecoverPc : call[c].pc \in RecoverPc /\ Goto(c, pc) => CallsOK'
           /\ \A pc \in DestroyPc : call[c].pc \in DestroyPc /\ Goto(c, pc) => CallsOK'
           /\ \A pc \in WaitPc : call[c].pc \in WaitPc /\ Goto(c, pc) => CallsOK'
<1>1. call \in [Call -> CallRecord] /\ call[c] \in CallRecord /\ HoldsItsTask(call[c])
  BY DEF TypeOK, Wired
<1>2. HoldsItsTask(IdleCall)
  BY DEF HoldsItsTask, IdleCall, StartPc, RecoverPc, StopPc, DestroyPc, WaitPc
<1>3. Return(c) \/ Fails(c) => CallsOK'
  BY <1>2, BlankRecords, CallStep DEF Return, Fails
<1>4. ASSUME NEW pc \in Pc, Goto(c, pc),
             \/ call[c].pc \in StartPc /\ pc \in StartPc
             \/ call[c].pc \in RecoverPc /\ pc \in RecoverPc
             \/ call[c].pc \in DestroyPc /\ pc \in DestroyPc
             \/ call[c].pc \in WaitPc /\ pc \in WaitPc
      PROVE  CallsOK'
  <2> DEFINE r == [call[c] EXCEPT !.pc = pc]
  <2>1. r \in CallRecord
    BY <1>1 DEF CallRecord
  <2>2. HoldsItsTask(r)
    BY <1>1, <1>4 DEF HoldsItsTask, CallRecord, StartPc, RecoverPc, StopPc, DestroyPc, WaitPc
  <2>3. call' = [call EXCEPT ![c] = r]
    BY <1>1, <1>4 DEF Goto
  <2> QED
    BY <2>1, <2>2, <2>3, CallStep
<1> QED
  BY <1>3, <1>4 DEF Pc

\* What is left to show when the tasks and the handles stay as they are.
LEMMA SameHandles ==
    ASSUME TypeOK, Wired, UNCHANGED <<tasks, handle, up>>, CallsOK', HostTypeOK',
           saved' \in [Task -> Vm \union {None}]
    PROVE  TypeOK' /\ Wired'
BY DEF TypeOK, Wired, CallsOK

\* What is left to show when a handle is published.
LEMMA NewHandle ==
    ASSUME TypeOK, Wired, NEW c \in Call, HoldsItsTask(call[c]), call[c].vm \in Vm,
           call[c].task \in Task, NEW h \in Handle, NEW r \in HandleRecord,
           r.vm = call[c].vm, Publish(c, h), handle' = [handle EXCEPT ![h] = r],
           (Return(c) \/ (call[c].pc \in StartPc /\ Goto(c, "reply"))),
           UNCHANGED <<vm, tap, seed, up, saved>>
    PROVE  TypeOK' /\ Wired'
<1>1. KeepsVms
  BY DEF KeepsVms, Publish, IsFree, TypeOK
<1>2. CallsOK'
  BY <1>1, CallMoves DEF StartPc
<1>3. handle' \in [Handle -> HandleRecord] /\ tasks' \in [Task -> Handle \union {None}]
  BY DEF TypeOK, Publish
<1>4. ASSUME NEW t \in Task, tasks'[t] # None
      PROVE  handle'[tasks'[t]].vm # None
  <2>1. tasks'[t] = h \/ (tasks'[t] = tasks[t] /\ tasks[t] \in Handle)
    BY <1>4 DEF Publish, TypeOK
  <2>2. handle'[h].vm # None
    BY DEF TypeOK
  <2>3. ASSUME tasks'[t] = tasks[t], tasks[t] \in Handle PROVE handle'[tasks[t]].vm # None
    BY <1>4, <2>2, <2>3 DEF TypeOK, Wired
  <2> QED
    BY <2>1, <2>2, <2>3
<1> QED
  BY <1>2, <1>3, <1>4 DEF TypeOK, Wired, CallsOK, HostTypeOK

\* Steps of StartTask.
LEMMA StartWired ==
    ASSUME TypeOK, Wired, NEW c \in Call, NEW t, StartTask(c, t) \/ StartStep(c)
    PROVE  TypeOK' /\ Wired'
<1>t. /\ vm \in [Vm -> VmRecord]
      /\ call \in [Call -> CallRecord] /\ call[c] \in CallRecord
      /\ saved \in [Task -> Vm \union {None}]
      /\ HostTypeOK
      /\ call[c].pc \in StartPc => call[c].task \in Task /\ call[c].vm \in Vm
  BY DEF TypeOK, HostTypeOK, Wired, HoldsItsTask
<1>k. UNCHANGED handle => KeepsVms
  BY DEF KeepsVms
<1>1. CASE StartTask(c, t)
  <2> PICK v \in Vm, k \in JobConfigs :
         /\ vm' = [vm EXCEPT ![v].task = t]
         /\ call' = [call EXCEPT ![c] = [IdleCall EXCEPT !.pc = "executor", !.task = t,
                                                         !.vm = v, !.cfg = k]]
    BY <1>1 DEF StartTask
  <2>t. t \in Task
    BY <1>1 DEF StartTask, Begins
  <2> DEFINE r == [IdleCall EXCEPT !.pc = "executor", !.task = t, !.vm = v, !.cfg = k]
  <2>1. r \in CallRecord
    BY <2>t, BlankRecords DEF CallRecord, Pc, StartPc
  <2>2. HoldsItsTask(r)
    BY <2>t DEF HoldsItsTask, IdleCall, StopPc, DestroyPc, WaitPc
  <2>3. CallsOK'
    BY <1>1, <1>k, <2>1, <2>2, CallStep DEF StartTask
  <2>4. vm' \in [Vm -> VmRecord]
    BY <1>t, <2>t DEF VmRecord
  <2> QED
    BY <1>1, <1>t, <2>3, <2>4, SameHandles DEF StartTask, HostTypeOK
<1>2. CASE CreateExecutor(c)
  <2>1. CallsOK'
    BY <1>2, <1>k, CallMoves DEF CreateExecutor, At, StartPc
  <2>2. vm' \in [Vm -> VmRecord]
    BY <1>2, <1>t DEF CreateExecutor, VmRecord
  <2> QED
    BY <1>2, <1>t, <2>1, <2>2, SameHandles DEF CreateExecutor, HostTypeOK
<1>3. CASE CreateSeed(c)
  <2>1. CallsOK'
    BY <1>3, <1>k, CallMoves DEF CreateSeed, At, StartPc
  <2>2. seed' \in [Task -> BOOLEAN]
    BY <1>3, <1>t DEF CreateSeed, HostTypeOK
  <2> QED
    BY <1>3, <1>t, <2>1, <2>2, SameHandles DEF CreateSeed, HostTypeOK
<1>4. CASE RaiseTap(c)
  <2>1. CallsOK'
    BY <1>4, <1>k, CallMoves DEF RaiseTap, At, StartPc
  <2>2. tap' \in [Task -> TapState]
    BY <1>4, <1>t, TapTypes DEF RaiseTap, HostTypeOK
  <2> QED
    BY <1>4, <1>t, <2>1, <2>2, SameHandles DEF RaiseTap, HostTypeOK
<1>5. CASE Materialize(c)
  <2>1. CASE Fails(c)
    BY <1>5, <1>k, <1>t, <2>1, CallMoves, SameHandles DEF Materialize, HostTypeOK
  <2>2. ASSUME NEW k \in Rebuilt(call[c].cfg),
               call' = [call EXCEPT ![c].pc = "launch", ![c].cfg = k]
        PROVE  TypeOK' /\ Wired'
    <3> DEFINE r == [call[c] EXCEPT !.pc = "launch", !.cfg = k]
    <3>1. k \in Config
      BY <1>t DEF Rebuilt, Config, CallRecord
    <3>2. r \in CallRecord
      BY <1>t, <3>1 DEF CallRecord, Pc, StartPc
    <3>3. HoldsItsTask(r)
      BY <1>5, <1>t DEF Materialize, At, HoldsItsTask, CallRecord, StartPc, StopPc, DestroyPc, WaitPc
    <3>4. call' = [call EXCEPT ![c] = r]
      BY <1>t, <2>2
    <3>5. CallsOK'
      BY <1>5, <1>k, <3>2, <3>3, <3>4, CallStep DEF Materialize
    <3> QED
      BY <1>5, <1>t, <3>5, SameHandles DEF Materialize, HostTypeOK
  <2> QED
    BY <1>5, <2>1, <2>2 DEF Materialize
<1>6. CASE Launch(c)
  <2>1. CallsOK'
    BY <1>6, <1>k, CallMoves DEF Launch, At, StartPc
  <2>2. vm' \in [Vm -> VmRecord]
    <3> DEFINE v == call[c].vm
               r == [vm[v] EXCEPT !.proc = "running", !.net = call[c].cfg.net]
    <3>1. v \in Vm /\ vm[v] \in VmRecord /\ call[c].cfg.net \in BOOLEAN
      BY <1>6, <1>t DEF Launch, At, StartPc, CallRecord, Config
    <3>2. r \in VmRecord
      BY <3>1 DEF VmRecord, ProcState
    <3>3. UNCHANGED vm \/ vm' = [vm EXCEPT ![v] = r]
      BY <1>6, <1>t, <3>1 DEF Launch
    <3> QED
      BY <1>t, <3>1, <3>2, <3>3
  <2> QED
    BY <1>6, <1>t, <2>1, <2>2, SameHandles DEF Launch, HostTypeOK
<1>7. CASE Register(c)
  <2>1. CASE Fails(c) /\ UNCHANGED <<tasks, handle>>
    BY <1>7, <1>k, <1>t, <2>1, CallMoves, SameHandles DEF Register, HostTypeOK
  <2>2. ASSUME NEW h \in Handle, Goto(c, "reply"), Publish(c, h),
               handle' = [handle EXCEPT ![h] = [FreeHandle EXCEPT !.vm = call[c].vm,
                                                  !.exec = TRUE, !.cfg = call[c].cfg]]
        PROVE  TypeOK' /\ Wired'
    <3> DEFINE r == [FreeHandle EXCEPT !.vm = call[c].vm, !.exec = TRUE, !.cfg = call[c].cfg]
    <3>1. r \in HandleRecord /\ r.vm = call[c].vm
      BY <1>t, BlankRecords DEF HandleRecord, CallRecord
    <3>2. call[c].pc \in StartPc /\ HoldsItsTask(call[c])
      BY <1>7 DEF Register, At, StartPc, Wired
    <3> QED
      BY <1>7, <1>t, <2>2, <3>1, <3>2, NewHandle DEF Register
  <2> QED
    BY <1>7, <2>1, <2>2 DEF Register
<1>8. CASE Reply(c)
  <2>1. CallsOK'
    BY <1>8, <1>k, CallMoves DEF Reply
  <2>2. saved' \in [Task -> Vm \union {None}]
    BY <1>8, <1>t DEF Reply, At, StartPc
  <2> QED
    BY <1>8, <1>t, <2>1, <2>2, SameHandles DEF Reply, HostTypeOK
<1> QED
  BY <1>1, <1>2, <1>3, <1>4, <1>5, <1>6, <1>7, <1>8 DEF StartStep

\* Steps of RecoverTask.
LEMMA RecoverWired ==
    ASSUME TypeOK, Wired, NEW c \in Call, NEW t, RecoverTask(c, t) \/ RecoverStep(c)
    PROVE  TypeOK' /\ Wired'
<1>t. /\ call \in [Call -> CallRecord] /\ call[c] \in CallRecord
      /\ saved \in [Task -> Vm \union {None}]
      /\ HostTypeOK
      /\ HoldsItsTask(call[c])
      /\ call[c].pc \in RecoverPc => call[c].task \in Task /\ call[c].vm \in Vm
  BY DEF TypeOK, HostTypeOK, Wired, HoldsItsTask
<1>k. UNCHANGED handle => KeepsVms
  BY DEF KeepsVms
<1>1. CASE RecoverTask(c, t)
  <2> DEFINE r == [IdleCall EXCEPT !.pc = "reattach", !.task = t, !.vm = saved[t]]
  <2>1. t \in Task /\ saved[t] \in Vm
    BY <1>1, <1>t DEF RecoverTask, Begins, Known
  <2>2. r \in CallRecord
    BY <2>1, BlankRecords DEF CallRecord, Pc, RecoverPc
  <2>3. HoldsItsTask(r)
    BY <2>1 DEF HoldsItsTask, IdleCall, StopPc, DestroyPc, WaitPc
  <2>4. CallsOK'
    <3>1. UNCHANGED call => CallsOK'
      BY <1>1 DEF RecoverTask, CallsOK, TypeOK, Wired, HoldsItsTask
    <3>2. call' = [call EXCEPT ![c] = r] => CallsOK'
      BY <1>1, <1>k, <2>2, <2>3, CallStep DEF RecoverTask
    <3> QED
      BY <1>1, <3>1, <3>2 DEF RecoverTask
  <2>5. saved' \in [Task -> Vm \union {None}]
    BY <1>1, <1>t DEF RecoverTask
  <2> QED
    BY <1>1, <1>t, <2>4, <2>5, SameHandles DEF RecoverTask, HostTypeOK
<1>2. CASE Reattach(c)
  <2> DEFINE alive == vm[call[c].vm].exec = "alive"
             r == [call[c] EXCEPT !.pc = "probe", !.exec = alive]
  <2>1. alive \in BOOLEAN
    OBVIOUS
  <2> HIDE DEF alive
  <2>2. r \in CallRecord
    BY <1>t, <2>1 DEF CallRecord, Pc, RecoverPc
  <2>3. HoldsItsTask(r)
    BY <1>2, <1>t DEF Reattach, At, HoldsItsTask, CallRecord, RecoverPc, StopPc, DestroyPc, WaitPc
  <2>4. call' = [call EXCEPT ![c] = r]
    BY <1>2, <1>t DEF Reattach, alive
  <2>5. CallsOK'
    BY <1>2, <1>k, <2>2, <2>3, <2>4, CallStep DEF Reattach
  <2> QED
    BY <1>2, <1>t, <2>5, SameHandles DEF Reattach, HostTypeOK
<1>3. CASE Probe(c)
  <2>1. CallsOK'
    BY <1>3, <1>k, CallMoves DEF Probe, At, RecoverPc
  <2>2. saved' \in [Task -> Vm \union {None}]
    BY <1>3, <1>t DEF Probe
  <2> QED
    BY <1>3, <1>t, <2>1, <2>2, SameHandles DEF Probe, HostTypeOK
<1>4. CASE Adopt(c)
  <2> DEFINE r == [FreeHandle EXCEPT !.vm = call[c].vm, !.exec = call[c].exec, !.exitResult = "zero"]
  <2> PICK h \in Handle : Publish(c, h) /\ handle' = [handle EXCEPT ![h] = r]
    BY <1>4 DEF Adopt
  <2>1. r \in HandleRecord /\ r.vm = call[c].vm
    BY <1>t, BlankRecords DEF HandleRecord, CallRecord, Result
  <2>2. call[c].pc \in RecoverPc
    BY <1>4 DEF Adopt, At, RecoverPc
  <2> QED
    BY <1>4, <1>t, <2>1, <2>2, NewHandle DEF Adopt
<1> QED
  BY <1>1, <1>2, <1>3, <1>4 DEF RecoverStep

\* A handle changes but keeps its VM: run().
LEMMA RunWired ==
    ASSUME TypeOK, Wired, NEW h \in Handle, RunStep(h)
    PROVE  TypeOK' /\ Wired'
<1>t. /\ handle \in [Handle -> HandleRecord] /\ handle[h] \in HandleRecord
      /\ vm \in [Vm -> VmRecord]
  BY DEF TypeOK, HostTypeOK
<1>1. /\ handle' \in [Handle -> HandleRecord]
      /\ \A g \in Handle : handle'[g].vm = handle[g].vm
  <2>1. CASE RecordExit(h)
    <3> DEFINE v == handle[h].vm
    <3>1. v \in Vm /\ vm[v].status \in Result
      BY <1>t, <2>1 DEF RecordExit, IsFree, HandleRecord, VmRecord, Result
    <3> QED
      BY <1>t, <2>1, <3>1 DEF RecordExit, HandleRecord, Result
  <2>2. CASE CloseDone(h)
    BY <1>t, <2>2 DEF CloseDone, HandleRecord
  <2> QED
    BY <2>1, <2>2 DEF RunStep
<1>2. UNCHANGED <<vm, tap, seed, tasks, call, up, saved>>
  BY DEF RunStep, RecordExit, CloseDone
<1>3. HostTypeOK' /\ CallsOK'
  BY <1>1, <1>2 DEF TypeOK, HostTypeOK, Wired, CallsOK, HoldsItsTask
<1> QED
  BY <1>1, <1>2, <1>3 DEF TypeOK, Wired, CallsOK

\* An RPC that looks its handle up.
LEMMA HoldsWired ==
    ASSUME TypeOK, Wired, UNCHANGED handle, NEW c \in Call, NEW t \in Task, tasks[t] # None,
           NEW pc \in StopPc \union DestroyPc \union WaitPc,
           call' = [call EXCEPT ![c] = Holds(c, t, pc)]
    PROVE  CallsOK'
<1>1. tasks[t] \in Handle /\ handle[tasks[t]].vm \in Vm
  BY DEF TypeOK, Wired, HandleRecord
<1>2. Holds(c, t, pc) \in CallRecord
  BY <1>1, BlankRecords DEF Holds, CallRecord, Pc
<1>3. HoldsItsTask(Holds(c, t, pc))
  BY <1>1 DEF HoldsItsTask, Holds, IdleCall, StartPc, RecoverPc, StopPc, DestroyPc, WaitPc
<1> QED
  BY <1>2, <1>3, CallStep DEF KeepsVms

\* Steps of WaitTask.
LEMMA WaitWired ==
    ASSUME TypeOK, Wired, NEW c \in Call, NEW t, WaitTask(c, t) \/ WaitStep(c)
    PROVE  TypeOK' /\ Wired'
<1>t. /\ call \in [Call -> CallRecord] /\ call[c] \in CallRecord
      /\ handle \in [Handle -> HandleRecord]
      /\ HoldsItsTask(call[c])
  BY DEF TypeOK, Wired
<1>s. /\ UNCHANGED <<vm, tap, seed, tasks, handle, up, saved>>
      /\ KeepsVms
  BY DEF WaitTask, WaitStep, WaitRead, WaitSend, CancelWait, WaitAbandon, KeepsVms
<1>1. CASE WaitTask(c, t)
  BY <1>1, <1>s, HoldsWired, SameHandles DEF WaitTask, Begins, WaitPc, TypeOK, HostTypeOK
<1>2. CASE WaitRead(c)
  <2> DEFINE g == call[c].handle
             r == [call[c] EXCEPT !.pc = IF @ = "wait" THEN "send" ELSE "stuck",
                                  !.result = handle[g].exitResult]
  <2>1. g \in Handle
    BY <1>2, <1>t DEF WaitRead, HoldsItsTask, WaitPc
  <2>2. handle[g].exitResult \in Result
    BY <1>t, <2>1 DEF HandleRecord
  <2>3. r \in CallRecord
    BY <1>t, <2>2 DEF CallRecord, Pc, WaitPc
  <2>4. HoldsItsTask(r)
    <3>1. call[c].pc \in WaitPc /\ r.pc \in {"send", "stuck"}
      BY <1>2, <1>t DEF WaitRead, WaitPc, CallRecord
    <3>2. r.handle = call[c].handle /\ r.task = call[c].task /\ r.vm = call[c].vm
      BY <1>t DEF CallRecord
    <3> HIDE DEF r
    <3> QED
      BY <1>t, <3>1, <3>2 DEF HoldsItsTask, StartPc, RecoverPc, StopPc, DestroyPc, WaitPc
  <2>5. call' = [call EXCEPT ![c] = r]
    BY <1>2, <1>t DEF WaitRead
  <2>6. CallsOK'
    BY <1>s, <2>3, <2>4, <2>5, CallStep
  <2> QED
    BY <1>s, <2>6, SameHandles DEF TypeOK, HostTypeOK
<1>3. CASE WaitSend(c) \/ WaitAbandon(c)
  <2>1. CallsOK'
    BY <1>3, <1>s, CallMoves DEF WaitSend, WaitAbandon
  <2> QED
    BY <1>s, <2>1, SameHandles DEF TypeOK, HostTypeOK
<1>4. CASE CancelWait(c)
  <2>1. CallsOK'
    BY <1>4, <1>s, CallMoves DEF CancelWait, At, WaitPc
  <2> QED
    BY <1>s, <2>1, SameHandles DEF TypeOK, HostTypeOK
<1> QED
  BY <1>1, <1>2, <1>3, <1>4 DEF WaitStep

\* Steps of StopTask and SignalTask.
LEMMA StopWired ==
    ASSUME TypeOK, Wired, NEW c \in Call, NEW t, StopTask(c, t) \/ StopStep(c)
    PROVE  TypeOK' /\ Wired'
<1>t. /\ HostTypeOK
      /\ saved \in [Task -> Vm \union {None}]
      /\ t \in Task /\ tasks[t] # None => handle[tasks[t]].vm \in Vm
      /\ call[c].pc \in StopPc => PidOf(c) \in Vm
  BY DEF TypeOK, Wired, HoldsItsTask, HandleRecord, PidOf
<1>s. /\ UNCHANGED <<tap, seed, tasks, handle, up, saved>>
      /\ KeepsVms
  BY DEF StopTask, StopStep, StopPoll, StopDeadline, KeepsVms
<1>1. CASE StopTask(c, t)
  <2>1. vm' \in [Vm -> VmRecord]
    BY <1>1, <1>t, SignalledType DEF StopTask, Begins
  <2>2. CallsOK'
    BY <1>1, <1>s, HoldsWired DEF StopTask, Begins, StopPc
  <2> QED
    BY <1>s, <1>t, <2>1, <2>2, SameHandles DEF HostTypeOK
<1>2. CASE StopPoll(c)
  <2>1. CallsOK'
    BY <1>2, <1>s, CallMoves DEF StopPoll
  <2> QED
    BY <1>2, <1>s, <1>t, <2>1, SameHandles DEF StopPoll, HostTypeOK
<1>3. CASE StopDeadline(c)
  <2>1. vm' \in [Vm -> VmRecord]
    BY <1>3, <1>t, SignalledType DEF StopDeadline, At, StopPc
  <2>2. CallsOK'
    BY <1>3, <1>s, CallMoves DEF StopDeadline
  <2> QED
    BY <1>s, <1>t, <2>1, <2>2, SameHandles DEF HostTypeOK
<1> QED
  BY <1>1, <1>2, <1>3 DEF StopStep

\* SignalTask keeps types and wiring: it signals the VM of a registered handle.
LEMMA SignalWired ==
    ASSUME TypeOK, Wired, NEW t \in Task, SignalTask(t)
    PROVE  TypeOK' /\ Wired'
<1>1. handle[tasks[t]].vm \in Vm
  BY DEF SignalTask, TypeOK, Wired, HandleRecord
<1>2. vm' \in [Vm -> VmRecord]
  BY <1>1, SignalledType DEF SignalTask, TypeOK
<1>3. CallsOK'
  BY DEF SignalTask, TypeOK, Wired, CallsOK, HoldsItsTask
<1> QED
  BY <1>2, <1>3, SameHandles DEF SignalTask, TypeOK, HostTypeOK

\* Steps of DestroyTask.
LEMMA DestroyWired ==
    ASSUME TypeOK, Wired, NEW c \in Call, NEW t,
           (\E force \in BOOLEAN : DestroyTask(c, t, force)) \/ DestroyStep(c)
    PROVE  TypeOK' /\ Wired'
<1>t. /\ HostTypeOK
      /\ saved \in [Task -> Vm \union {None}]
      /\ call[c].pc \in DestroyPc => PidOf(c) \in Vm
  BY DEF TypeOK, Wired, HoldsItsTask, HandleRecord, PidOf
<1>s. UNCHANGED <<handle, up>> /\ KeepsVms
  BY DEF DestroyTask, DestroyStep, DestroyKill, DestroyForget, DestroyDown, KeepsVms
<1>1. ASSUME NEW force \in BOOLEAN, DestroyTask(c, t, force) PROVE TypeOK' /\ Wired'
  <2>1. CallsOK'
    BY <1>1, <1>s, HoldsWired DEF DestroyTask, Begins, DestroyPc
  <2> QED
    BY <1>1, <1>s, <1>t, <2>1, SameHandles DEF DestroyTask, HostTypeOK
<1>2. CASE DestroyKill(c)
  <2>1. vm' \in [Vm -> VmRecord]
    BY <1>2, <1>t, SignalledType DEF DestroyKill, At, DestroyPc, HostTypeOK
  <2>2. CallsOK'
    BY <1>2, <1>s, CallMoves DEF DestroyKill, At, DestroyPc
  <2> QED
    BY <1>2, <1>s, <1>t, <2>1, <2>2, SameHandles DEF DestroyKill, HostTypeOK
<1>3. CASE DestroyForget(c)
  <2>1. CallsOK'
    BY <1>3, <1>s, CallMoves DEF DestroyForget, At, DestroyPc
  <2>2. seed' \in [Task -> BOOLEAN]
    BY <1>3, <1>t DEF DestroyForget, HostTypeOK
  <2>3. /\ tasks' \in [Task -> Handle \union {None}]
        /\ \A u \in Task : tasks'[u] # None => tasks'[u] = tasks[u]
    BY <1>3 DEF DestroyForget, TypeOK
  <2> QED
    BY <1>3, <1>s, <2>1, <2>2, <2>3 DEF DestroyForget, TypeOK, HostTypeOK, Wired, CallsOK
<1>4. CASE DestroyDown(c)
  <2>1. CallsOK'
    BY <1>4, <1>s, CallMoves DEF DestroyDown
  <2>2. tap' \in [Task -> TapState]
    BY <1>4, <1>t, TapTypes DEF DestroyDown, HostTypeOK
  <2>3. saved' \in [Task -> Vm \union {None}]
    BY <1>4, <1>t DEF DestroyDown
  <2> QED
    BY <1>4, <1>s, <1>t, <2>1, <2>2, <2>3, SameHandles DEF DestroyDown, HostTypeOK
<1> QED
  BY <1>1, <1>2, <1>3, <1>4 DEF DestroyStep

\* The plugin process.
LEMMA PluginWired ==
    ASSUME TypeOK, Wired, LosesMemory \/ PluginRestart
    PROVE  TypeOK' /\ Wired'
<1>1. CASE LosesMemory
  <2>1. TypeOK'
    BY <1>1, BlankRecords DEF LosesMemory, TypeOK, HostTypeOK
  <2>2. Wired'
    BY <1>1 DEF LosesMemory, Wired, HoldsItsTask, IdleCall, StartPc, RecoverPc, StopPc, DestroyPc, WaitPc
  <2> QED
    BY <2>1, <2>2
<1>2. CASE PluginRestart
  BY <1>2 DEF PluginRestart, TypeOK, HostTypeOK, Wired, HoldsItsTask
<1> QED
  BY <1>1, <1>2

\* Types and wiring are inductive.
LEMMA NextWired == TypeOK /\ Wired /\ [Next]_vars => TypeOK' /\ Wired'
<1> SUFFICES ASSUME TypeOK, Wired, [Next]_vars PROVE TypeOK' /\ Wired'
  OBVIOUS
<1>1. ASSUME NEW c \in Call, NEW t \in Task, Rpc(c, t) PROVE TypeOK' /\ Wired'
  BY <1>1, StartWired, RecoverWired, WaitWired, StopWired, DestroyWired DEF Rpc
<1>2. ASSUME NEW t \in Task, SignalTask(t) PROVE TypeOK' /\ Wired'
  BY <1>2, SignalWired
<1>3. ASSUME NEW c \in Call,
             StartStep(c) \/ RecoverStep(c) \/ WaitStep(c) \/ StopStep(c) \/ DestroyStep(c)
      PROVE  TypeOK' /\ Wired'
  BY <1>3, StartWired, RecoverWired, WaitWired, StopWired, DestroyWired
<1>4. ASSUME NEW h \in Handle, RunStep(h) \/ RunPanics(h) PROVE TypeOK' /\ Wired'
  BY <1>4, RunWired, PluginWired DEF RunPanics
<1>5. CASE PluginCrash \/ PluginRestart
  BY <1>5, PluginWired DEF PluginCrash
<1>6. CASE HostNext /\ UNCHANGED <<tasks, handle, call, up, saved>>
  BY <1>6, HostNextType DEF TypeOK, Wired, HoldsItsTask
<1>7. CASE UNCHANGED vars
  BY <1>7 DEF vars, TypeOK, HostTypeOK, Wired, HoldsItsTask
<1> QED
  BY <1>1, <1>2, <1>3, <1>4, <1>5, <1>6, <1>7 DEF Next

\* Every variable keeps its type, whatever hazard strikes.
THEOREM TypeCorrect == Spec => []TypeOK
<1>1. Init => TypeOK /\ Wired
  BY InitTypeOK DEF Init, Wired, HoldsItsTask, IdleCall, StartPc, RecoverPc, StopPc, DestroyPc, WaitPc
<1> QED
  BY <1>1, NextWired, PTL DEF Spec

-----------------------------------------------------------------------------
(* What a step may do to a VM: an end is final, and a start makes its own. *)

\* A VM that has ended stays so, with its status; a dead executor stays dead.
EndsAreFinal ==
    \A v \in Vm : /\ Exited(v) => Exited(v)' /\ vm'[v].status = vm[v].status
                  /\ Exited(v)' => Exited(v) \/ vm'[v].status \in ExitStatus
                  /\ vm[v].exec = "dead" => vm'[v].exec = "dead"

\* The starts under way go forward, each with its VM, and none begins; a
\* goroutine has a result to send because it has just read one.
Answering(r) == r.pc \in {"send", "stuck"}
Advances(old, new) ==
    /\ new.pc \in StartPc =>
         /\ old.pc \in StartPc /\ new.vm = old.vm
         /\ new.pc = "executor" => old.pc = "executor"
         /\ new.pc \in Unlaunched => old.pc \in Unlaunched
    /\ Answering(new) => Answering(old) /\ new.handle = old.handle /\ new.result = old.result
CallsAdvance == \A d \in Call : Advances(call[d], call'[d]) \/ WaitRead(d)

\* The kinds of step there are for the VMs.
VmStep ==
    \/ UNCHANGED vm
    \/ \E c \in Call : CreateExecutor(c) \/ Launch(c)
    \/ \E v \in Vm, sig \in Signal : vm' = Signalled(v, sig)
    \/ HostNext

\* A step that moves one call forward moves no call backward.
LEMMA OneCallAdvances ==
    ASSUME TypeOK, NEW c \in Call, NEW r, call' = [call EXCEPT ![c] = r], Advances(call[c], r)
    PROVE  CallsAdvance
<1>1. \A d \in Call : call'[d] = IF d = c THEN r ELSE call[d]
  BY DEF TypeOK
<1>2. \A q : Advances(q, q)
  BY DEF Advances
<1> QED
  BY <1>1, <1>2 DEF CallsAdvance

\* The ways a call moves on are advances, from the program counters they are used at.
LEMMA MovesAdvance ==
    ASSUME TypeOK, NEW c \in Call
    PROVE  /\ Return(c) \/ Fails(c) => CallsAdvance
           /\ \A pc \in Pc \ (StartPc \union {"send", "stuck"}) : Goto(c, pc) => CallsAdvance
           /\ \A pc \in StartPc \ {"executor"} :
                call[c].pc \in Unlaunched /\ Goto(c, pc) => CallsAdvance
           /\ call[c].pc = "register" /\ Goto(c, "reply") => CallsAdvance
           /\ call[c].pc = "send" /\ Goto(c, "stuck") => CallsAdvance
<1>1. Return(c) \/ Fails(c) => CallsAdvance
  BY OneCallAdvances DEF Return, Fails, IdleCall, StartPc, Advances, Answering
<1>2. ASSUME NEW pc \in Pc, Goto(c, pc),
             \/ pc \notin StartPc \union {"send", "stuck"}
             \/ pc \in StartPc \ {"executor"} /\ call[c].pc \in Unlaunched
             \/ pc = "reply" /\ call[c].pc = "register"
             \/ pc = "stuck" /\ call[c].pc = "send"
      PROVE  CallsAdvance
  <2> DEFINE r == [call[c] EXCEPT !.pc = pc]
  <2>1. /\ call' = [call EXCEPT ![c] = r]
        /\ r.pc = pc /\ r.vm = call[c].vm /\ r.handle = call[c].handle /\ r.result = call[c].result
    BY <1>2 DEF Goto, TypeOK, CallRecord
  <2> HIDE DEF r
  <2>2. Advances(call[c], r)
    BY <1>2, <2>1 DEF StartPc, Unlaunched, Advances, Answering
  <2> QED
    BY <2>1, <2>2, OneCallAdvances
<1> QED
  BY <1>1, <1>2 DEF Pc, StartPc, WaitPc

\* Every step of StartTask is an advance and one of the kinds of VM step.
LEMMA StartSteps ==
    ASSUME TypeOK, NEW c \in Call, StartStep(c)
    PROVE  CallsAdvance /\ VmStep
<1>1. CASE CreateExecutor(c)
  BY <1>1, MovesAdvance DEF CreateExecutor, At, StartPc, Unlaunched, VmStep
<1>2. CASE CreateSeed(c)
  BY <1>2, MovesAdvance DEF CreateSeed, At, StartPc, Unlaunched, VmStep
<1>3. CASE RaiseTap(c)
  BY <1>3, MovesAdvance DEF RaiseTap, At, StartPc, Unlaunched, VmStep
<1>4. CASE Materialize(c)
  <2>1. ASSUME NEW k, call' = [call EXCEPT ![c].pc = "launch", ![c].cfg = k]
        PROVE  CallsAdvance
    <3> DEFINE r == [call[c] EXCEPT !.pc = "launch", !.cfg = k]
    <3>1. call' = [call EXCEPT ![c] = r]
      BY <2>1 DEF TypeOK
    <3>2. r.pc = "launch" /\ r.vm = call[c].vm
      BY DEF TypeOK, CallRecord
    <3> HIDE DEF r
    <3> QED
      BY <1>4, <3>1, <3>2, OneCallAdvances DEF Materialize, At, StartPc, Unlaunched, Advances, Answering
  <2> QED
    BY <1>4, <2>1, MovesAdvance DEF Materialize, VmStep
<1>5. CASE Launch(c)
  BY <1>5, MovesAdvance DEF Launch, At, StartPc, Unlaunched, VmStep
<1>6. CASE Register(c)
  BY <1>6, MovesAdvance DEF Register, At, VmStep
<1>7. CASE Reply(c)
  BY <1>7, MovesAdvance DEF Reply, VmStep
<1> QED
  BY <1>1, <1>2, <1>3, <1>4, <1>5, <1>6, <1>7 DEF StartStep

\* The same for RecoverTask.
LEMMA RecoverSteps ==
    ASSUME TypeOK, NEW c \in Call, NEW t, RecoverTask(c, t) \/ RecoverStep(c)
    PROVE  CallsAdvance /\ VmStep
<1>1. CASE RecoverTask(c, t)
  <2>1. UNCHANGED call => CallsAdvance
    BY DEF CallsAdvance, Advances
  <2> QED
    BY <1>1, <2>1, OneCallAdvances DEF RecoverTask, IdleCall, StartPc, Advances, Answering, VmStep
<1>2. CASE Reattach(c)
  <2> DEFINE r == [call[c] EXCEPT !.pc = "probe", !.exec = vm[call[c].vm].exec = "alive"]
  <2>1. call' = [call EXCEPT ![c] = r] /\ r.pc = "probe"
    BY <1>2 DEF Reattach, TypeOK, CallRecord
  <2> HIDE DEF r
  <2> QED
    BY <1>2, <2>1, OneCallAdvances DEF Reattach, StartPc, Advances, Answering, VmStep
<1>3. CASE Probe(c)
  BY <1>3, MovesAdvance DEF Probe, Pc, StartPc, RecoverPc, VmStep
<1>4. CASE Adopt(c)
  BY <1>4, MovesAdvance DEF Adopt, VmStep
<1> QED
  BY <1>1, <1>2, <1>3, <1>4 DEF RecoverStep

\* A call that takes a handle to wait for, stop or destroy its task is an advance.
LEMMA HoldsAdvance ==
    ASSUME TypeOK, NEW c \in Call, NEW t, NEW pc \in StopPc \union DestroyPc \union WaitPc,
           call' = [call EXCEPT ![c] = Holds(c, t, pc)], ~Answering(Holds(c, t, pc))
    PROVE  CallsAdvance
BY OneCallAdvances DEF Holds, IdleCall, StartPc, StopPc, DestroyPc, WaitPc, Advances

\* The same as StartSteps for WaitTask.
LEMMA WaitSteps ==
    ASSUME TypeOK, NEW c \in Call, NEW t, WaitTask(c, t) \/ WaitStep(c)
    PROVE  CallsAdvance /\ VmStep
<1>1. CASE WaitTask(c, t)
  BY <1>1, HoldsAdvance DEF WaitTask, WaitPc, Holds, IdleCall, Answering, VmStep
<1>2. CASE WaitRead(c)
  <2>1. \A d \in Call : d # c => call'[d] = call[d]
    BY <1>2 DEF WaitRead, TypeOK
  <2>2. \A q : Advances(q, q)
    BY DEF Advances
  <2> QED
    BY <1>2, <2>1, <2>2 DEF CallsAdvance, WaitRead, VmStep
<1>3. CASE WaitSend(c) \/ WaitAbandon(c)
  BY <1>3, MovesAdvance DEF WaitSend, WaitAbandon, VmStep
<1>4. CASE CancelWait(c)
  BY <1>4, MovesAdvance DEF CancelWait, At, Pc, StartPc, WaitPc, VmStep
<1> QED
  BY <1>1, <1>2, <1>3, <1>4 DEF WaitStep

\* The same as StartSteps for StopTask.
LEMMA StopSteps ==
    ASSUME TypeOK, Wired, NEW c \in Call, NEW t, StopTask(c, t) \/ StopStep(c)
    PROVE  CallsAdvance /\ VmStep
<1>1. CASE StopTask(c, t)
  <2>1. handle[tasks[t]].vm \in Vm
    BY <1>1 DEF StopTask, Begins, TypeOK, Wired, HandleRecord
  <2> QED
    BY <1>1, <2>1, HoldsAdvance DEF StopTask, StopPc, Holds, IdleCall, Answering, VmStep
<1>2. CASE StopPoll(c)
  BY <1>2, MovesAdvance DEF StopPoll, VmStep
<1>3. CASE StopDeadline(c)
  <2>1. PidOf(c) \in Vm
    BY <1>3 DEF StopDeadline, At, StopPc, PidOf, Wired, HoldsItsTask
  <2> QED
    BY <1>3, <2>1, MovesAdvance DEF StopDeadline, Signal, VmStep
<1> QED
  BY <1>1, <1>2, <1>3 DEF StopStep

\* The same as StartSteps for DestroyTask.
LEMMA DestroySteps ==
    ASSUME TypeOK, Wired, NEW c \in Call, NEW t,
           (\E force \in BOOLEAN : DestroyTask(c, t, force)) \/ DestroyStep(c)
    PROVE  CallsAdvance /\ VmStep
<1>1. ASSUME NEW force \in BOOLEAN, DestroyTask(c, t, force) PROVE CallsAdvance /\ VmStep
  <2>1. PICK pc \in {"refuse", "kill"} : call' = [call EXCEPT ![c] = Holds(c, t, pc)]
    BY <1>1 DEF DestroyTask
  <2>2. ~Answering(Holds(c, t, pc))
    BY DEF Holds, IdleCall, Answering
  <2> QED
    BY <1>1, <2>1, <2>2, HoldsAdvance DEF DestroyTask, DestroyPc, VmStep
<1>2. CASE DestroyKill(c)
  <2>1. PidOf(c) \in Vm
    BY <1>2 DEF DestroyKill, At, DestroyPc, PidOf, Wired, HoldsItsTask
  <2> QED
    BY <1>2, <2>1, MovesAdvance DEF DestroyKill, Pc, StartPc, DestroyPc, Signal, VmStep
<1>3. CASE DestroyForget(c)
  BY <1>3, MovesAdvance DEF DestroyForget, Pc, StartPc, DestroyPc, VmStep
<1>4. CASE DestroyDown(c)
  BY <1>4, MovesAdvance DEF DestroyDown, VmStep
<1> QED
  BY <1>1, <1>2, <1>3, <1>4 DEF DestroyStep

\* Every step but the beginning of a start is one of these.
LEMMA StepKinds ==
    ASSUME TypeOK, Wired, [Next]_vars,
           ~ \E c \in Call, t \in Task : StartTask(c, t)
    PROVE  CallsAdvance /\ VmStep
<1>s. UNCHANGED call => CallsAdvance
  BY DEF CallsAdvance, Advances
<1>1. ASSUME NEW c \in Call, NEW t \in Task, Rpc(c, t) PROVE CallsAdvance /\ VmStep
  BY <1>1, RecoverSteps, WaitSteps, StopSteps, DestroySteps DEF Rpc
<1>2. ASSUME NEW t \in Task, SignalTask(t) PROVE CallsAdvance /\ VmStep
  <2>1. handle[tasks[t]].vm \in Vm
    BY <1>2 DEF SignalTask, TypeOK, Wired, HandleRecord
  <2> QED
    BY <1>2, <1>s, <2>1 DEF SignalTask, VmStep
<1>3. ASSUME NEW c \in Call,
             StartStep(c) \/ RecoverStep(c) \/ WaitStep(c) \/ StopStep(c) \/ DestroyStep(c)
      PROVE  CallsAdvance /\ VmStep
  BY <1>3, StartSteps, RecoverSteps, WaitSteps, StopSteps, DestroySteps
<1>4. ASSUME NEW h \in Handle, RunStep(h) PROVE CallsAdvance /\ VmStep
  BY <1>4, <1>s DEF RunStep, RecordExit, CloseDone, VmStep
<1>5. CASE LosesMemory
  BY <1>5 DEF LosesMemory, CallsAdvance, Advances, Answering, IdleCall, StartPc, VmStep
<1>6. CASE PluginRestart
  BY <1>6, <1>s DEF PluginRestart, VmStep
<1>7. CASE HostNext /\ UNCHANGED <<tasks, handle, call, up, saved>>
  BY <1>7, <1>s DEF VmStep
<1>8. CASE UNCHANGED vars
  BY <1>8, <1>s DEF vars, VmStep
<1> QED
  BY <1>1, <1>2, <1>3, <1>4, <1>5, <1>6, <1>7, <1>8 DEF Next, RunPanics, PluginCrash

\* The half of CallsAdvance that speaks of starts.
StartsAdvance ==
    \A d \in Call : call'[d].pc \in StartPc =>
        /\ call[d].pc \in StartPc /\ call'[d].vm = call[d].vm
        /\ call'[d].pc = "executor" => call[d].pc = "executor"
        /\ call'[d].pc \in Unlaunched => call[d].pc \in Unlaunched

\* What an advance says of the calls that are starting a VM.
LEMMA StartsOnly ==
    ASSUME TypeOK, CallsAdvance
    PROVE  StartsAdvance
<1>1. ASSUME NEW d \in Call, WaitRead(d) PROVE call'[d].pc \in {"send", "stuck"}
  BY <1>1 DEF WaitRead, TypeOK, CallRecord
<1> QED
  BY <1>1 DEF CallsAdvance, Advances, StartsAdvance, StartPc

\* Who a VM belongs to and whether it has been made.
KeepsMakings ==
    \A v \in Vm : /\ vm'[v].task = vm[v].task
                  /\ vm'[v].exec = "none" <=> vm[v].exec = "none"
                  /\ vm'[v].proc = "none" <=> vm[v].proc = "none"

\* A signal undoes no end of a VM and leaves the VMs being made as they are.
LEMMA SignalEffect ==
    ASSUME HostTypeOK, NEW v \in Vm, NEW sig, vm' = Signalled(v, sig)
    PROVE  EndsAreFinal /\ KeepsMakings
<1>1. \A w \in Vm : /\ vm'[w].task = vm[w].task
                    /\ vm'[w].exec = vm[w].exec
                    /\ vm'[w].status = vm[w].status
                    /\ vm'[w].proc = IF w = v /\ vm[v].proc = "reused" THEN "struck" ELSE vm[w].proc
  BY DEF Signalled, HostTypeOK, VmRecord
<1> QED
  BY <1>1 DEF EndsAreFinal, KeepsMakings, Exited

\* A step of the host undoes no end of a VM and leaves the VMs being made as they are.
LEMMA HostEffect ==
    ASSUME HostTypeOK, HostNext
    PROVE  EndsAreFinal /\ KeepsMakings
<1> PICK v \in Vm : VmExit(v) \/ PidReuse(v) \/ ExecutorCrash(v)
  BY DEF HostNext
<1>1. CASE VmExit(v)
  <2>0. PICK s \in ExitStatus : vm' = [vm EXCEPT ![v].proc = "gone", ![v].status = s]
    BY <1>1 DEF VmExit
  <2>1. \A w \in Vm : /\ vm'[w].task = vm[w].task
                      /\ vm'[w].exec = vm[w].exec
                      /\ vm'[w].status = IF w = v THEN s ELSE vm[w].status
                      /\ vm'[w].proc = IF w = v THEN "gone" ELSE vm[w].proc
    BY <2>0 DEF HostTypeOK, VmRecord
  <2>2. vm[v].proc = "running"
    BY <1>1 DEF VmExit, Running
  <2>3. EndsAreFinal
    BY <2>1, <2>2 DEF EndsAreFinal, Exited
  <2>4. KeepsMakings
    BY <2>1, <2>2 DEF KeepsMakings
  <2> QED
    BY <2>3, <2>4
<1>2. CASE PidReuse(v)
  <2>1. \A w \in Vm : /\ vm'[w].task = vm[w].task
                      /\ vm'[w].exec = vm[w].exec
                      /\ vm'[w].status = vm[w].status
                      /\ vm'[w].proc = IF w = v THEN "reused" ELSE vm[w].proc
    BY <1>2 DEF PidReuse, HostTypeOK, VmRecord
  <2> QED
    BY <1>2, <2>1 DEF PidReuse, EndsAreFinal, KeepsMakings, Exited
<1>3. CASE ExecutorCrash(v)
  <2>1. \A w \in Vm : /\ vm'[w].task = vm[w].task
                      /\ vm'[w].proc = vm[w].proc
                      /\ vm'[w].status = vm[w].status
                      /\ vm'[w].exec = IF w = v THEN "dead" ELSE vm[w].exec
    BY <1>3 DEF ExecutorCrash, HostTypeOK, VmRecord
  <2> QED
    BY <1>3, <2>1 DEF ExecutorCrash, EndsAreFinal, KeepsMakings, Exited
<1> QED
  BY <1>1, <1>2, <1>3

\* A start takes a VM nobody has.
LEMMA BeginEffect ==
    ASSUME TypeOK, Wired, Fresh, NEW c \in Call, NEW t \in Task, StartTask(c, t)
    PROVE  EndsAreFinal /\ Fresh'
<1> PICK v \in Vm, k \in JobConfigs :
         /\ vm[v].task = None
         /\ vm' = [vm EXCEPT ![v].task = t]
         /\ call' = [call EXCEPT ![c] = [IdleCall EXCEPT !.pc = "executor", !.task = t,
                                                         !.vm = v, !.cfg = k]]
  BY DEF StartTask
<1>1. \A w \in Vm : /\ vm'[w].task = IF w = v THEN t ELSE vm[w].task
                    /\ vm'[w].proc = vm[w].proc
                    /\ vm'[w].status = vm[w].status
                    /\ vm'[w].exec = vm[w].exec
  BY DEF TypeOK, HostTypeOK, VmRecord
<1>2. /\ call'[c].pc = "executor" /\ call'[c].vm = v
      /\ \A d \in Call : d # c => call'[d] = call[d]
  BY DEF TypeOK, IdleCall
<1>3. \A d \in Call : call[d].pc \in StartPc => call[d].vm \in Vm /\ call[d].vm # v
  BY DEF Wired, HoldsItsTask, Fresh
<1>4. t # None
  BY DEF HostAssumption
<1> QED
  BY <1>1, <1>2, <1>3, <1>4 DEF EndsAreFinal, Exited, Fresh, Unlaunched

\* The executor and the process of a start are new.
LEMMA MakeEffect ==
    ASSUME TypeOK, Wired, Fresh, StartsAdvance, NEW c \in Call, CreateExecutor(c) \/ Launch(c)
    PROVE  EndsAreFinal /\ Fresh'
<1> DEFINE v == call[c].vm
<1>1. /\ v \in Vm /\ vm[v].task # None /\ vm[v].proc = "none"
      /\ call[c].pc = "executor" => vm[v].exec = "none"
      /\ call[c].pc \in StartPc
  BY DEF Fresh, Wired, HoldsItsTask, CreateExecutor, Launch, At, StartPc, Unlaunched
<1>2. \A d \in Call : d # c /\ call[d].pc \in StartPc => call[d].vm \in Vm /\ call[d].vm # v
  BY <1>1 DEF Fresh, Wired, HoldsItsTask
<1>3. UNCHANGED vm => EndsAreFinal /\ Fresh'
  BY DEF Fresh, StartsAdvance, EndsAreFinal, Exited
<1>4. CASE CreateExecutor(c) /\ ~UNCHANGED vm
  <2>1. /\ vm' = [vm EXCEPT ![v].exec = "alive"]
        /\ call'[c].pc = "seed"
        /\ call[c].pc = "executor"
    BY <1>4 DEF CreateExecutor, Goto, At, TypeOK, CallRecord
  <2>2. \A w \in Vm : /\ vm'[w].task = vm[w].task
                      /\ vm'[w].proc = vm[w].proc
                      /\ vm'[w].status = vm[w].status
                      /\ vm'[w].exec = IF w = v THEN "alive" ELSE vm[w].exec
    BY <2>1 DEF TypeOK, HostTypeOK, VmRecord
  <2>3. EndsAreFinal
    BY <1>1, <2>1, <2>2 DEF EndsAreFinal, Exited
  <2>4. Fresh'
    BY <1>1, <1>2, <2>1, <2>2 DEF Fresh, StartsAdvance
  <2> QED
    BY <2>3, <2>4
<1>5. CASE Launch(c) /\ ~UNCHANGED vm
  <2>1. /\ vm' = [vm EXCEPT ![v].proc = "running", ![v].net = call[c].cfg.net]
        /\ call'[c].pc = "register"
        /\ call[c].pc = "launch"
    BY <1>5 DEF Launch, Goto, At, TypeOK, CallRecord
  <2>2. \A w \in Vm : /\ vm'[w].task = vm[w].task
                      /\ vm'[w].exec = vm[w].exec
                      /\ vm'[w].status = vm[w].status
                      /\ vm'[w].proc = IF w = v THEN "running" ELSE vm[w].proc
    BY <2>1 DEF TypeOK, HostTypeOK, VmRecord
  <2>3. EndsAreFinal
    BY <1>1, <2>2 DEF EndsAreFinal, Exited
  <2>4. Fresh'
    <3>1. \A w \in Vm : vm'[w].task = None => vm'[w].exec = "none" /\ vm'[w].proc = "none"
      BY <1>1, <2>2 DEF Fresh
    <3>2. ASSUME NEW d \in Call, call'[d].pc \in StartPc
          PROVE  /\ vm'[call'[d].vm].task # None
                 /\ call'[d].pc = "executor" => vm'[call'[d].vm].exec = "none"
                 /\ call'[d].pc \in Unlaunched => vm'[call'[d].vm].proc = "none"
      <4>1. CASE d = c
        BY <1>1, <2>1, <2>2, <3>2, <4>1 DEF StartsAdvance, Unlaunched
      <4>2. CASE d # c
        BY <1>2, <2>2, <3>2, <4>2 DEF Fresh, StartsAdvance
      <4> QED
        BY <4>1, <4>2
    <3>3. \A d, e \in Call : call'[d].pc \in StartPc /\ call'[e].pc \in StartPc
                               /\ call'[e].vm = call'[d].vm => e = d
      BY DEF Fresh, StartsAdvance
    <3> QED
      BY <3>1, <3>2, <3>3 DEF Fresh
  <2> QED
    BY <2>3, <2>4
<1> QED
  BY <1>3, <1>4, <1>5

\* No step undoes the end of a VM, and a VM being made stays its start's own.
LEMMA FreshStep ==
    ASSUME TypeOK, Wired, Fresh, [Next]_vars
    PROVE  EndsAreFinal /\ Fresh'
<1>1. CASE \E c \in Call, t \in Task : StartTask(c, t)
  BY <1>1, BeginEffect
<1>2. CASE ~ \E c \in Call, t \in Task : StartTask(c, t)
  <2>1. CallsAdvance /\ StartsAdvance /\ VmStep
    BY <1>2, StepKinds, StartsOnly
  <2>2. KeepsMakings => Fresh'
    <3> SUFFICES ASSUME KeepsMakings PROVE Fresh'
      OBVIOUS
    <3>1. \A c \in Call : call[c].pc \in StartPc => call[c].vm \in Vm
      BY DEF Wired, HoldsItsTask
    <3> QED
      BY <2>1, <3>1 DEF KeepsMakings, Fresh, StartsAdvance
  <2>3. UNCHANGED vm => EndsAreFinal /\ KeepsMakings
    BY DEF EndsAreFinal, KeepsMakings, Exited
  <2> QED
    BY <2>1, <2>2, <2>3, MakeEffect, SignalEffect, HostEffect DEF VmStep, TypeOK
<1> QED
  BY <1>1, <1>2

-----------------------------------------------------------------------------
(* What a step may do to the handles.                                      *)

Blank(r) == r \in HandleRecord /\ r.procState = "running" /\ ~r.done
HandleStep ==
    \/ UNCHANGED handle
    \/ \E h \in Handle, r \in HandleRecord :
         IsFree(h) /\ Blank(r) /\ handle' = [handle EXCEPT ![h] = r]
    \/ \E h \in Handle : RunStep(h)
    \/ LosesMemory

\* The two ways into the task store, StartTask's and RecoverTask's, are handle steps.
LEMMA PublishSteps ==
    ASSUME TypeOK, NEW c \in Call, Register(c) \/ Adopt(c)
    PROVE  HandleStep
<1>t. call[c] \in CallRecord
  BY DEF TypeOK
<1>1. CASE Register(c)
  <2> DEFINE r == [FreeHandle EXCEPT !.vm = call[c].vm, !.exec = TRUE, !.cfg = call[c].cfg]
  <2>1. Blank(r)
    BY <1>t, BlankRecords DEF Blank, FreeHandle, HandleRecord, CallRecord
  <2>2. r \in HandleRecord
    BY <2>1 DEF Blank
  <2> QED
    BY <1>1, <2>1, <2>2 DEF Register, Publish, HandleStep
<1>2. CASE Adopt(c)
  <2> DEFINE r == [FreeHandle EXCEPT !.vm = call[c].vm, !.exec = call[c].exec, !.exitResult = "zero"]
  <2>1. Blank(r)
    BY <1>t, BlankRecords DEF Blank, FreeHandle, HandleRecord, CallRecord, Result
  <2>2. r \in HandleRecord
    BY <2>1 DEF Blank
  <2> QED
    BY <1>2, <2>1, <2>2 DEF Adopt, Publish, HandleStep
<1> QED
  BY <1>1, <1>2

\* Every step treats the handles in one of the ways HandleStep lists.
LEMMA HandleSteps ==
    ASSUME TypeOK, [Next]_vars
    PROVE  HandleStep
<1>1. ASSUME NEW c \in Call, NEW t \in Task, Rpc(c, t) PROVE HandleStep
  BY <1>1 DEF Rpc, StartTask, RecoverTask, WaitTask, StopTask, DestroyTask, HandleStep
<1>2. ASSUME NEW t \in Task, SignalTask(t) PROVE HandleStep
  BY <1>2 DEF SignalTask, HandleStep
<1>3. ASSUME NEW c \in Call, StartStep(c) \/ RecoverStep(c) PROVE HandleStep
  BY <1>3, PublishSteps DEF StartStep, CreateExecutor, CreateSeed, RaiseTap, Materialize, Launch, Reply,
                            RecoverStep, Reattach, Probe, HandleStep
<1>4. ASSUME NEW c \in Call, WaitStep(c) \/ StopStep(c) \/ DestroyStep(c) PROVE HandleStep
  BY <1>4 DEF WaitStep, WaitRead, WaitSend, CancelWait, WaitAbandon, StopStep, StopPoll, StopDeadline,
              DestroyStep, DestroyKill, DestroyForget, DestroyDown, HandleStep
<1>5. ASSUME NEW h \in Handle, RunStep(h) \/ RunPanics(h) PROVE HandleStep
  BY <1>5 DEF RunPanics, HandleStep
<1>6. CASE PluginCrash \/ PluginRestart
  BY <1>6 DEF PluginCrash, PluginRestart, HandleStep
<1>7. CASE (HostNext /\ UNCHANGED <<tasks, handle, call, up, saved>>) \/ UNCHANGED vars
  BY <1>7 DEF vars, HandleStep
<1> QED
  BY <1>1, <1>2, <1>3, <1>4, <1>5, <1>6, <1>7 DEF Next

-----------------------------------------------------------------------------
(* Exit reporting.                                                         *)

\* How a VM ended stays how it ended.
LEMMA TrueEndLasts ==
    ASSUME EndsAreFinal, NEW v \in Vm, NEW r, TrueEnd(v, r)
    PROVE  TrueEnd(v, r)'
BY DEF EndsAreFinal, TrueEnd

\* The executor's exit status of a VM stays true.
LEMMA StatusStep ==
    ASSUME StatusKept, EndsAreFinal
    PROVE  StatusKept'
BY DEF StatusKept, EndsAreFinal, HostAssumption

\* The exit result a handle records stays that of its VM.
LEMMA RecordedStep ==
    ASSUME TypeOK, Wired, StatusKept, Recorded, EndsAreFinal, [Next]_vars
    PROVE  Recorded'
<1> DEFINE Ok(q) == /\ q.vm # None /\ q.procState # "running" => TrueEnd(q.vm, q.exitResult)
                    /\ q.done => q.vm # None /\ q.procState # "running"
<1>1. Recorded <=> \A h \in Handle : Ok(handle[h])
  BY DEF Recorded, IsFree, IsRunning
<1>2. Recorded' <=> \A h \in Handle : (Ok(handle[h]))'
  BY DEF Recorded, IsFree, IsRunning
<1>t. /\ handle \in [Handle -> HandleRecord]
      /\ \A h \in Handle : handle[h].vm # None => handle[h].vm \in Vm
  BY DEF TypeOK, HandleRecord
<1>3. ASSUME NEW h \in Handle, handle'[h] = handle[h] PROVE (Ok(handle[h]))'
  <2>1. Ok(handle[h])
    BY <1>1
  <2>2. handle[h].vm # None /\ handle[h].procState # "running" =>
           TrueEnd(handle[h].vm, handle[h].exitResult)'
    BY <1>t, <1>3, <2>1, TrueEndLasts DEF TrueEnd, Exited, EndsAreFinal
  <2> QED
    BY <1>3, <2>1, <2>2
<1> HIDE DEF Ok
<1>4. CASE UNCHANGED handle
  BY <1>2, <1>3, <1>4
<1>5. ASSUME NEW h \in Handle, NEW r \in HandleRecord, Blank(r), handle' = [handle EXCEPT ![h] = r]
      PROVE  Recorded'
  <2>1. handle'[h] = r /\ \A g \in Handle : g # h => handle'[g] = handle[g]
    BY <1>5, <1>t
  <2>2. (Ok(handle[h]))'
    BY <1>5, <2>1 DEF Ok, Blank
  <2> QED
    BY <1>2, <1>3, <2>1, <2>2
<1>6. ASSUME NEW h \in Handle, RecordExit(h) PROVE Recorded'
  <2> DEFINE v == handle[h].vm
  <2>1. /\ v \in Vm /\ ~handle[h].done /\ UNCHANGED vm
        /\ \A g \in Handle : g # h => handle'[g] = handle[g]
    BY <1>6, <1>1, <1>t DEF RecordExit, IsFree, IsRunning, Ok
  <2>2. /\ handle'[h].vm = v /\ handle'[h].procState = "exited" /\ ~handle'[h].done
        /\ \/ Exited(v) /\ handle'[h].exitResult = vm[v].status
           \/ vm[v].exec = "dead" /\ handle'[h].exitResult = "error"
    BY <1>6, <1>t, <2>1 DEF RecordExit, HandleRecord
  <2>3. (Ok(handle[h]))'
    BY <2>1, <2>2 DEF Ok, TrueEnd, Exited, StatusKept
  <2> QED
    BY <1>2, <1>3, <2>1, <2>3
<1>7. ASSUME NEW h \in Handle, CloseDone(h) PROVE Recorded'
  <2>1. /\ handle[h].vm # None /\ handle[h].procState # "running" /\ UNCHANGED vm
        /\ \A g \in Handle : g # h => handle'[g] = handle[g]
    BY <1>7, <1>t DEF CloseDone, IsFree, IsRunning
  <2>2. /\ handle'[h].vm = handle[h].vm
        /\ handle'[h].procState = handle[h].procState
        /\ handle'[h].exitResult = handle[h].exitResult
    BY <1>7, <1>t DEF CloseDone, HandleRecord
  <2>3. (Ok(handle[h]))'
    BY <1>1, <2>1, <2>2 DEF Ok, TrueEnd, Exited
  <2> QED
    BY <1>2, <1>3, <2>1, <2>3
<1>8. CASE LosesMemory
  BY <1>2, <1>8 DEF LosesMemory, FreeHandle, Ok
<1> QED
  BY <1>4, <1>5, <1>6, <1>7, <1>8, HandleSteps DEF HandleStep, RunStep

\* As long as the plugin keeps its memory, a handle keeps its VM.
LEMMA HandlesKeepVms ==
    ASSUME TypeOK, [Next]_vars, ~LosesMemory
    PROVE  KeepsVms
<1>t. handle \in [Handle -> HandleRecord]
  BY DEF TypeOK
<1>1. ASSUME NEW h \in Handle, RunStep(h) PROVE KeepsVms
  BY <1>t, <1>1 DEF RunStep, RecordExit, CloseDone, KeepsVms, HandleRecord
<1>2. ASSUME NEW h \in Handle, NEW r \in HandleRecord, IsFree(h), handle' = [handle EXCEPT ![h] = r]
      PROVE  KeepsVms
  BY <1>t, <1>2 DEF IsFree, KeepsVms, HostAssumption
<1> QED
  BY <1>1, <1>2, HandleSteps DEF HandleStep, KeepsVms

\* The result WaitTask is about to send stays that of its task's VM.
LEMMA ReportStep ==
    ASSUME TypeOK, Wired, Recorded, ReportIsReal, EndsAreFinal, [Next]_vars
    PROVE  ReportIsReal'
<1>w. \A c \in Call : call[c].pc \in WaitPc =>
        call[c].handle \in Handle /\ handle[call[c].handle].vm \in Vm
  BY DEF Wired, HoldsItsTask
<1>1. CASE LosesMemory
  BY <1>1 DEF LosesMemory, ReportIsReal, IdleCall
<1>2. CASE \E c \in Call, t \in Task : StartTask(c, t)
  <2> PICK c \in Call, t \in Task : StartTask(c, t)
    BY <1>2
  <2>1. /\ UNCHANGED handle
        /\ call'[c].pc = "executor"
        /\ \A d \in Call : d # c => call'[d] = call[d]
    BY DEF StartTask, TypeOK, IdleCall
  <2>2. ASSUME NEW d \in Call, call'[d].pc \in {"send", "stuck"}
        PROVE  TrueEnd(PidOf(d), call[d].result)'
    <3> DEFINE v == PidOf(d)
               r == call[d].result
    <3>1. d # c /\ call'[d] = call[d]
      BY <2>1, <2>2
    <3>2. v \in Vm /\ TrueEnd(v, r)
      BY <1>w, <2>2, <3>1 DEF PidOf, ReportIsReal, WaitPc
    <3> QED
      BY <2>1, <3>1, <3>2 DEF PidOf, TrueEnd, EndsAreFinal
  <2> QED
    BY <2>2 DEF ReportIsReal
<1>3. CASE ~LosesMemory /\ ~ \E c \in Call, t \in Task : StartTask(c, t)
  <2>1. CallsAdvance /\ KeepsVms
    BY <1>3, StepKinds, HandlesKeepVms
  <2>2. ASSUME NEW d \in Call, call'[d].pc \in {"send", "stuck"}
        PROVE  TrueEnd(PidOf(d), call[d].result)'
    <3>1. CASE Advances(call[d], call'[d])
      <4>1. /\ call[d].pc \in {"send", "stuck"}
            /\ call'[d].handle = call[d].handle /\ call'[d].result = call[d].result
        BY <2>2, <3>1 DEF Advances, Answering
      <4>2. PidOf(d) \in Vm /\ TrueEnd(PidOf(d), call[d].result) /\ PidOf(d)' = PidOf(d)
        BY <1>w, <2>1, <4>1 DEF PidOf, ReportIsReal, WaitPc, KeepsVms
      <4> QED
        BY <4>1, <4>2 DEF TrueEnd, EndsAreFinal
    <3>2. CASE WaitRead(d)
      <4> DEFINE h == call[d].handle
      <4>1. h \in Handle /\ handle[h].vm \in Vm /\ handle[h].done
        BY <1>w, <3>2 DEF WaitRead, WaitPc
      <4>2. TrueEnd(handle[h].vm, handle[h].exitResult)
        BY <4>1 DEF Recorded
      <4>3. /\ call'[d].handle = h /\ call'[d].result = handle[h].exitResult
            /\ UNCHANGED <<handle, vm>>
        BY <3>2 DEF WaitRead, TypeOK, CallRecord
      <4> QED
        BY <4>2, <4>3 DEF PidOf, TrueEnd, Exited
    <3> QED
      BY <2>1, <3>1, <3>2 DEF CallsAdvance
  <2> QED
    BY <2>2 DEF ReportIsReal
<1> QED
  BY <1>1, <1>2, <1>3

\* The invariant that TLC checks in small is inductive.
THEOREM ExitInvariant == Spec => []ExitInv
<1>1. Init => ExitInv
  <2> SUFFICES ASSUME Init PROVE ExitInv
    OBVIOUS
  <2>1. TypeOK
    BY InitTypeOK
  <2>2. Wired
    BY DEF Init, Wired, HoldsItsTask, IdleCall, StartPc, RecoverPc, StopPc, DestroyPc, WaitPc
  <2>3. Fresh /\ StatusKept
    BY DEF Init, HostInit, Fresh, IdleCall, StartPc, StatusKept, Exited
  <2>4. Recorded /\ ReportIsReal
    BY DEF Init, Recorded, FreeHandle, IsFree, IsRunning, ReportIsReal, IdleCall
  <2> QED
    BY <2>1, <2>2, <2>3, <2>4 DEF ExitInv
<1>2. ExitInv /\ [Next]_vars => ExitInv'
  BY NextWired, FreshStep, StatusStep, RecordedStep, ReportStep DEF ExitInv
<1> QED
  BY <1>1, <1>2, PTL DEF Spec

\* What Nomad is told about the end of a task is true, whatever crashes,
\* restarts, reused pids and concurrent calls there are.
THEOREM ReportsAreReal == Spec => []ReportIsReal
<1>1. ExitInv => ReportIsReal
  BY DEF ExitInv
<1> QED
  BY <1>1, ExitInvariant, PTL

\* Without executor crashes no executor is ever dead ...
ExecutorsLive == \A v \in Vm : vm[v].exec # "dead"

\* If executors never crash, none is ever dead.
LEMMA ExecutorsLiveStep ==
    ASSUME "executorCrash" \notin Hazards, TypeOK, Wired, ExecutorsLive, [Next]_vars
    PROVE  ExecutorsLive'
<1>t. vm \in [Vm -> VmRecord]
  BY DEF TypeOK, HostTypeOK
<1>1. ASSUME NEW c \in Call, NEW t \in Task, StartTask(c, t) PROVE ExecutorsLive'
  BY <1>t, <1>1 DEF StartTask, ExecutorsLive, VmRecord
<1>2. ASSUME NEW c \in Call, CreateExecutor(c) \/ Launch(c) PROVE ExecutorsLive'
  <2>1. CASE CreateExecutor(c)
    BY <1>t, <2>1 DEF CreateExecutor, ExecutorsLive, VmRecord
  <2>2. CASE Launch(c)
    BY <1>t, <2>2 DEF Launch, ExecutorsLive, VmRecord
  <2> QED
    BY <1>2, <2>1, <2>2
<1>3. ASSUME NEW v \in Vm, NEW sig, vm' = Signalled(v, sig) PROVE ExecutorsLive'
  BY <1>t, <1>3 DEF Signalled, ExecutorsLive, VmRecord
<1>4. CASE HostNext
  <2>1. PICK v \in Vm : VmExit(v) \/ PidReuse(v)
    BY <1>4 DEF HostNext, ExecutorCrash
  <2> QED
    BY <1>t, <2>1 DEF VmExit, PidReuse, ExecutorsLive, VmRecord
<1>5. CASE UNCHANGED vm
  BY <1>5 DEF ExecutorsLive
<1> QED
  BY <1>1, <1>2, <1>3, <1>4, <1>5, StepKinds DEF VmStep

\* ... and a task that the driver calls exited has no VM running.
THEOREM ExitedIsDead ==
    ASSUME "executorCrash" \notin Hazards
    PROVE  Spec => []ExitedVmIsDead
<1>1. Init => ExecutorsLive
  BY DEF Init, HostInit, ExecutorsLive
<1>2. ExecutorsLive /\ ExitInv /\ [Next]_vars => ExecutorsLive'
  BY ExecutorsLiveStep DEF ExitInv
<1>3. ExecutorsLive /\ ExitInv => ExitedVmIsDead
  BY DEF ExitInv, TypeOK, HandleRecord, IsFree, Recorded, TrueEnd, ExecutorsLive, ExitedVmIsDead
<1> QED
  BY <1>1, <1>2, <1>3, ExitInvariant, PTL DEF Spec

-----------------------------------------------------------------------------
(* Progress.  TLAPS knows nothing of ENABLED: what is used of it is        *)
(* NobodyStalls, an invariant TLC checks.                                  *)

\* A process runs until it ends, and a pending SIGKILL stays pending till then.
VmsGoOn ==
    \A v \in Vm : /\ Running(v) => Running(v)' \/ Exited(v)'
                  /\ KillDue(v) => KillDue(v)' \/ Exited(v)'
LEMMA VmsGoOnStep ==
    ASSUME ExitInv, [Next]_vars
    PROVE  VmsGoOn
<1>t. vm \in [Vm -> VmRecord]
  BY DEF ExitInv, TypeOK, HostTypeOK
<1>1. ASSUME NEW c \in Call, NEW t \in Task, StartTask(c, t) PROVE VmsGoOn
  BY <1>t, <1>1 DEF StartTask, VmsGoOn, Running, KillDue, VmRecord
<1>2. ASSUME NEW c \in Call, CreateExecutor(c) \/ Launch(c) PROVE VmsGoOn
  <2>1. CASE CreateExecutor(c)
    BY <1>t, <2>1 DEF CreateExecutor, VmsGoOn, Running, KillDue, VmRecord
  <2>2. CASE Launch(c)
    BY <1>t, <2>2 DEF Launch, VmsGoOn, Running, KillDue, VmRecord
  <2> QED
    BY <1>2, <2>1, <2>2
<1>3. ASSUME NEW v \in Vm, NEW sig, vm' = Signalled(v, sig) PROVE VmsGoOn
  BY <1>t, <1>3 DEF Signalled, VmsGoOn, Running, KillDue, VmRecord
<1>4. CASE HostNext
  <2>1. PICK v \in Vm : VmExit(v) \/ PidReuse(v) \/ ExecutorCrash(v)
    BY <1>4 DEF HostNext
  <2>2. CASE VmExit(v)
    BY <1>t, <2>2 DEF VmExit, VmsGoOn, Running, Exited, KillDue, VmRecord
  <2>3. CASE PidReuse(v)
    BY <1>t, <2>3 DEF PidReuse, VmsGoOn, Running, Exited, KillDue, VmRecord
  <2>4. CASE ExecutorCrash(v)
    BY <1>t, <2>4 DEF ExecutorCrash, VmsGoOn, Running, KillDue, VmRecord
  <2> QED
    BY <2>1, <2>2, <2>3, <2>4
<1>5. CASE UNCHANGED vm
  BY <1>5 DEF VmsGoOn, Running, KillDue
<1> QED
  BY <1>1, <1>2, <1>3, <1>4, <1>5, StepKinds DEF VmStep, ExitInv

\* A goroutine is moved on by its own steps only.
MovesOn(c) ==
    \/ \E t \in Task : Rpc(c, t)
    \/ StartStep(c) \/ RecoverStep(c) \/ WaitStep(c) \/ StopStep(c) \/ DestroyStep(c)
LEMMA MovesAreOwn ==
    ASSUME TypeOK, [Next]_vars, NEW c \in Call
    PROVE  call'[c] = call[c] \/ MovesOn(c) \/ LosesMemory
<1>t. call \in [Call -> CallRecord]
  BY DEF TypeOK
<1>1. ASSUME NEW d \in Call, d # c, NEW t \in Task, Rpc(d, t) PROVE call'[c] = call[c]
  BY <1>t, <1>1 DEF Rpc, StartTask, RecoverTask, WaitTask, StopTask, DestroyTask
<1>2. ASSUME NEW d \in Call, d # c, StartStep(d) PROVE call'[c] = call[c]
  BY <1>t, <1>2 DEF StartStep, CreateExecutor, CreateSeed, RaiseTap, Materialize, Launch, Register,
                    Reply, Goto, Fails, Return
<1>3. ASSUME NEW d \in Call, d # c, RecoverStep(d) \/ DestroyStep(d) PROVE call'[c] = call[c]
  BY <1>t, <1>3 DEF RecoverStep, Reattach, Probe, Adopt, DestroyStep, DestroyKill, DestroyForget,
                    DestroyDown, Goto, Return
<1>4. ASSUME NEW d \in Call, d # c, WaitStep(d) \/ StopStep(d) PROVE call'[c] = call[c]
  BY <1>t, <1>4 DEF WaitStep, WaitRead, WaitSend, CancelWait, WaitAbandon, StopStep, StopPoll,
                    StopDeadline, Goto, Return
<1>5. CASE \/ \E t \in Task : SignalTask(t)
           \/ \E h \in Handle : RunStep(h)
           \/ PluginRestart \/ (HostNext /\ UNCHANGED <<tasks, handle, call, up, saved>>)
           \/ UNCHANGED vars
  BY <1>5 DEF SignalTask, RunStep, RecordExit, CloseDone, PluginRestart, vars
<1> QED
  BY <1>1, <1>2, <1>3, <1>4, <1>5 DEF Next, MovesOn, RunPanics, PluginCrash

\* A goroutine that waits or polls does nothing else.
Waiting(c) == call[c].pc \in {"wait", "send", "cancelled"}
LEMMA IdlersStay ==
    ASSUME TypeOK, [Next]_vars, NEW c \in Call
    PROVE  /\ Waiting(c) => call'[c] = call[c] \/ WaitStep(c) \/ LosesMemory
           /\ At(c, "poll") => call'[c] = call[c] \/ StopStep(c) \/ LosesMemory
<1>1. ASSUME Waiting(c) \/ At(c, "poll"), NEW t \in Task PROVE ~Rpc(c, t)
  BY <1>1 DEF Rpc, StartTask, RecoverTask, WaitTask, StopTask, DestroyTask, Begins, At, Waiting
<1>2. ASSUME Waiting(c) \/ At(c, "poll") PROVE ~(StartStep(c) \/ RecoverStep(c) \/ DestroyStep(c))
  BY <1>2 DEF StartStep, CreateExecutor, CreateSeed, RaiseTap, Materialize, Launch, Register, Reply,
              RecoverStep, Reattach, Probe, Adopt, DestroyStep, DestroyKill, DestroyForget,
              DestroyDown, At, Waiting
<1>3. Waiting(c) => ~StopStep(c)
  BY DEF StopStep, StopPoll, StopDeadline, At, Waiting
<1>4. At(c, "poll") => ~WaitStep(c)
  BY DEF WaitStep, WaitRead, WaitSend, CancelWait, WaitAbandon, At
<1> QED
  BY <1>1, <1>2, <1>3, <1>4, MovesAreOwn DEF MovesOn

\* A VM in a handle, in Nomad's hands or being recovered has been launched, ...
KnownLaunched ==
    /\ \A h \in Handle : ~IsFree(h) => Launched(handle[h].vm)
    /\ \A t \in Task : saved[t] # None => Launched(saved[t])
    /\ \A c \in Call : call[c].pc \in {"register", "reply"} \union RecoverPc => Launched(call[c].vm)

\* ... and a DestroyTask past its kill has seen to the end of its VM, or could not
\* know it for want of an executor.
DestroysFinish == \A c \in Call : call[c].pc \in {"forget", "down"} => Finished(PidOf(c))

\* What has been launched stays so, and the end of a VM stays sealed.
VmsLast == \A v \in Vm : /\ Launched(v) => Launched(v)'
                         /\ Launched(v) /\ Finished(v) => Finished(v)'
LEMMA VmsLastStep ==
    ASSUME ExitInv, [Next]_vars
    PROVE  VmsLast
<1>t. vm \in [Vm -> VmRecord]
  BY DEF ExitInv, TypeOK, HostTypeOK
<1>1. VmsGoOn /\ EndsAreFinal
  BY VmsGoOnStep, FreshStep DEF ExitInv
<1>2. ASSUME NEW v \in Vm, Launched(v) PROVE Running(v) \/ Exited(v)
  BY <1>t, <1>2 DEF Launched, Running, Exited, VmRecord, ProcState
<1>3. ASSUME NEW v \in Vm, Running(v)' \/ Exited(v)' PROVE Launched(v)'
  BY <1>3 DEF Launched, Running, Exited
<1>4. ASSUME NEW v \in Vm, Launched(v) PROVE Launched(v)'
  BY <1>1, <1>2, <1>3, <1>4 DEF VmsGoOn, EndsAreFinal
<1>5. ASSUME NEW v \in Vm, Launched(v), Finished(v) PROVE Finished(v)'
  BY <1>1, <1>2, <1>5 DEF VmsGoOn, EndsAreFinal, KillDue, Finished
<1> QED
  BY <1>4, <1>5 DEF VmsLast

\* Where a goroutine has a launched VM from, how one gets past the kill, and who
\* cancels a wait.
HasLaunched(r) == r.pc \in {"register", "reply"} \union RecoverPc
PastKill(r) == r.pc \in {"forget", "down"}
LEMMA CallOrigins ==
    ASSUME TypeOK, [Next]_vars, NEW c \in Call
    PROVE  /\ HasLaunched(call'[c]) =>
                \/ HasLaunched(call[c]) /\ call'[c].vm = call[c].vm
                \/ Launch(c)
                \/ \E t \in Task : saved[t] # None /\ call'[c].vm = saved[t]
           /\ PastKill(call'[c]) =>
                \/ PastKill(call[c]) /\ call'[c].handle = call[c].handle
                \/ DestroyKill(c)
           /\ At(c, "cancelled")' => At(c, "cancelled") \/ "waitCancel" \in Hazards
<1> DEFINE Goal ==
             /\ HasLaunched(call'[c]) =>
                  \/ HasLaunched(call[c]) /\ call'[c].vm = call[c].vm
                  \/ Launch(c)
                  \/ \E t \in Task : saved[t] # None /\ call'[c].vm = saved[t]
             /\ PastKill(call'[c]) =>
                  \/ PastKill(call[c]) /\ call'[c].handle = call[c].handle
                  \/ DestroyKill(c)
             /\ At(c, "cancelled")' => At(c, "cancelled") \/ "waitCancel" \in Hazards
<1>t. call \in [Call -> CallRecord]
  BY DEF TypeOK
<1>0. call'[c].pc \in {"idle", "executor", "seed", "tap", "payload", "launch", "poll", "kill", "refuse",
                       "wait", "send", "stuck"} => Goal
  BY DEF HasLaunched, PastKill, RecoverPc, At
<1> HIDE DEF Goal
<1>i. Return(c) \/ Fails(c) => Goal
  BY <1>t, <1>0 DEF Return, Fails, IdleCall
<1>1. ASSUME NEW t \in Task, Rpc(c, t) PROVE Goal
  <2>1. StartTask(c, t) \/ WaitTask(c, t) \/ StopTask(c, t) => Goal
    BY <1>t, <1>0 DEF StartTask, WaitTask, StopTask, Holds, IdleCall
  <2>2. RecoverTask(c, t) => Goal
    BY <1>t DEF RecoverTask, Known, IdleCall, PastKill, At, Goal
  <2>3. (\E force \in BOOLEAN : DestroyTask(c, t, force)) => Goal
    BY <1>t, <1>0 DEF DestroyTask, Holds, IdleCall
  <2> QED
    BY <1>1, <2>1, <2>2, <2>3 DEF Rpc
<1>2. ASSUME StartStep(c) PROVE Goal
  <2>1. CreateExecutor(c) \/ CreateSeed(c) \/ RaiseTap(c) \/ Materialize(c) => Goal
    BY <1>t, <1>0, <1>i DEF CreateExecutor, CreateSeed, RaiseTap, Materialize, Goto, CallRecord
  <2>2. Launch(c) => Goal
    BY <1>t, <1>i DEF Launch, Goto, At, CallRecord, PastKill, Goal
  <2>3. Register(c) => Goal
    BY <1>t, <1>i DEF Register, Goto, At, CallRecord, HasLaunched, PastKill, Goal
  <2>4. Reply(c) => Goal
    BY <1>i DEF Reply
  <2> QED
    BY <1>2, <2>1, <2>2, <2>3, <2>4 DEF StartStep
<1>3. ASSUME RecoverStep(c) PROVE Goal
  BY <1>t, <1>i, <1>3 DEF RecoverStep, Reattach, Probe, Adopt, Goto, At, CallRecord, HasLaunched, PastKill,
                          RecoverPc, Goal
<1>4. ASSUME WaitStep(c) PROVE Goal
  BY <1>t, <1>0, <1>i, <1>4 DEF WaitStep, WaitRead, WaitSend, CancelWait, WaitAbandon, Goto, At, CallRecord,
                                HasLaunched, PastKill, RecoverPc, Goal
<1>5. ASSUME StopStep(c) PROVE Goal
  BY <1>i, <1>5 DEF StopStep, StopPoll, StopDeadline
<1>6. ASSUME DestroyStep(c) PROVE Goal
  BY <1>t, <1>i, <1>6 DEF DestroyStep, DestroyKill, DestroyForget, DestroyDown, Goto, At, CallRecord,
                          HasLaunched, PastKill, RecoverPc, Goal
<1>7. call'[c] = call[c] => Goal
  BY DEF At, Goal
<1>8. LosesMemory => Goal
  BY <1>0 DEF LosesMemory, IdleCall
<1> QED
  BY <1>1, <1>2, <1>3, <1>4, <1>5, <1>6, <1>7, <1>8, MovesAreOwn DEF MovesOn, Goal

\* Where a handle, or Nomad's copy of one, has its VM from.
LEMMA HoldOrigins ==
    ASSUME TypeOK, [Next]_vars
    PROVE  /\ \A h \in Handle : handle'[h].vm # None =>
                \/ handle'[h].vm = handle[h].vm
                \/ \E c \in Call : HasLaunched(call[c]) /\ handle'[h].vm = call[c].vm
           /\ \A t \in Task : saved'[t] # None =>
                \/ saved'[t] = saved[t]
                \/ \E c \in Call : HasLaunched(call[c]) /\ saved'[t] = call[c].vm
<1> DEFINE Goal ==
             /\ \A h \in Handle : handle'[h].vm # None =>
                  \/ handle'[h].vm = handle[h].vm
                  \/ \E c \in Call : HasLaunched(call[c]) /\ handle'[h].vm = call[c].vm
             /\ \A t \in Task : saved'[t] # None =>
                  \/ saved'[t] = saved[t]
                  \/ \E c \in Call : HasLaunched(call[c]) /\ saved'[t] = call[c].vm
<1>t. handle \in [Handle -> HandleRecord] /\ saved \in [Task -> Vm \union {None}]
  BY DEF TypeOK
<1>1. ASSUME NEW c \in Call, Register(c) \/ Adopt(c) PROVE Goal
  BY <1>t, <1>1 DEF Register, Adopt, FreeHandle, At, HasLaunched, RecoverPc
<1>2. ASSUME NEW c \in Call, Reply(c) \/ Probe(c) \/ DestroyDown(c) PROVE Goal
  BY <1>t, <1>2 DEF Reply, Probe, DestroyDown, At, HasLaunched
<1>3. ASSUME NEW h \in Handle, RunStep(h) PROVE Goal
  BY <1>t, <1>3 DEF RunStep, RecordExit, CloseDone, HandleRecord
<1>4. LosesMemory => Goal
  BY DEF LosesMemory, FreeHandle
<1>5. UNCHANGED <<handle, saved>> => Goal
  OBVIOUS
<1> HIDE DEF Goal
<1>6. ASSUME NEW c \in Call, NEW t \in Task, Rpc(c, t) PROVE Goal
  <2>1. UNCHANGED handle /\ (UNCHANGED saved \/ saved' = [saved EXCEPT ![t] = None])
    BY <1>6 DEF Rpc, StartTask, RecoverTask, WaitTask, StopTask, DestroyTask
  <2>2. ASSUME UNCHANGED handle, saved' = [saved EXCEPT ![t] = None] PROVE Goal
    BY <1>t, <2>2 DEF Goal
  <2> QED
    BY <1>5, <2>1, <2>2
<1>7. ASSUME NEW c \in Call, StartStep(c) \/ RecoverStep(c) PROVE Goal
  BY <1>1, <1>2, <1>5, <1>7 DEF StartStep, CreateExecutor, CreateSeed, RaiseTap, Materialize, Launch,
                                RecoverStep, Reattach
<1>8. ASSUME NEW c \in Call, WaitStep(c) \/ StopStep(c) \/ DestroyStep(c) PROVE Goal
  BY <1>2, <1>5, <1>8 DEF WaitStep, WaitRead, WaitSend, CancelWait, WaitAbandon, StopStep, StopPoll,
                          StopDeadline, DestroyStep, DestroyKill, DestroyForget
<1> QED
  BY <1>3, <1>4, <1>5, <1>6, <1>7, <1>8
     DEF Next, SignalTask, RunPanics, PluginCrash, PluginRestart, vars, Goal

\* Nobody comes to hold a VM that has not been launched.
LEMMA KnownLaunchedStep ==
    ASSUME ExitInv, KnownLaunched, [Next]_vars
    PROVE  KnownLaunched'
<1>t. TypeOK /\ Wired /\ vm \in [Vm -> VmRecord] /\ VmsLast
  BY VmsLastStep DEF ExitInv, TypeOK, HostTypeOK
<1>l. ASSUME NEW v \in Vm, Launched(v) PROVE Launched(v)'
  BY <1>t, <1>l DEF VmsLast
<1>c. ASSUME NEW c \in Call, HasLaunched(call[c])
      PROVE  call[c].vm \in Vm /\ Launched(call[c].vm)
  BY <1>t, <1>c DEF HasLaunched, KnownLaunched, Wired, HoldsItsTask, StartPc
<1>1. ASSUME NEW h \in Handle, ~IsFree(h)' PROVE Launched(handle[h].vm)'
  <2>1. CASE handle'[h].vm = handle[h].vm
    <3>1. handle[h].vm \in Vm /\ ~IsFree(h)
      BY <1>1, <1>t, <2>1 DEF TypeOK, HandleRecord, IsFree
    <3>2. Launched(handle[h].vm)'
      BY <1>l, <2>1, <3>1 DEF KnownLaunched, Launched
    <3> QED
      BY <3>2
  <2>2. ASSUME NEW c \in Call, HasLaunched(call[c]), handle'[h].vm = call[c].vm
        PROVE  Launched(handle[h].vm)'
    BY <1>c, <1>l, <2>2 DEF Launched
  <2> QED
    BY <1>1, <1>t, <2>1, <2>2, HoldOrigins DEF IsFree
<1>2. ASSUME NEW t \in Task, saved'[t] # None PROVE Launched(saved[t])'
  <2>1. CASE saved'[t] = saved[t]
    BY <1>2, <1>t, <1>l, <2>1 DEF TypeOK, KnownLaunched, Launched
  <2>2. ASSUME NEW c \in Call, HasLaunched(call[c]), saved'[t] = call[c].vm
        PROVE  Launched(saved[t])'
    BY <1>c, <1>l, <2>2 DEF Launched
  <2> QED
    BY <1>2, <1>t, <2>1, <2>2, HoldOrigins
<1>3. ASSUME NEW c \in Call, HasLaunched(call'[c]) PROVE Launched(call[c].vm)'
  <2>1. CASE HasLaunched(call[c]) /\ call'[c].vm = call[c].vm
    BY <1>c, <1>l, <2>1 DEF Launched
  <2>2. CASE Launch(c)
    <3>1. call[c].vm \in Vm
      BY <1>t, <2>2 DEF Launch, At, Wired, HoldsItsTask, StartPc
    <3>2. ~Return(c)
      BY <1>3, <1>t DEF Return, IdleCall, HasLaunched, RecoverPc, TypeOK
    <3> QED
      BY <1>t, <2>2, <3>1, <3>2 DEF Launch, Goto, Fails, Launched, VmRecord, TypeOK, CallRecord
  <2>3. ASSUME NEW t \in Task, saved[t] # None, call'[c].vm = saved[t]
        PROVE  Launched(call[c].vm)'
    BY <1>t, <1>l, <2>3 DEF TypeOK, KnownLaunched, Launched
  <2> QED
    BY <1>3, <1>t, <2>1, <2>2, <2>3, CallOrigins
<1> QED
  BY <1>1, <1>2, <1>3 DEF KnownLaunched, HasLaunched

\* A DestroyTask passes its kill with the end of its VM sealed.
LEMMA DestroysFinishStep ==
    ASSUME ExitInv, KnownLaunched, DestroysFinish, [Next]_vars
    PROVE  DestroysFinish'
<1>t. TypeOK /\ Wired /\ vm \in [Vm -> VmRecord] /\ VmsLast
  BY VmsLastStep DEF ExitInv, TypeOK, HostTypeOK
<1> SUFFICES ASSUME NEW c \in Call, PastKill(call'[c]) PROVE Finished(PidOf(c))'
  BY DEF DestroysFinish, PastKill
<1>h. ASSUME call[c].pc \in DestroyPc
      PROVE  /\ call[c].handle \in Handle /\ PidOf(c) \in Vm
             /\ ~IsFree(call[c].handle) /\ Launched(PidOf(c))
  BY <1>t, <1>h DEF Wired, HoldsItsTask, PidOf, IsFree, KnownLaunched, HostAssumption
<1>l. ~LosesMemory
  BY DEF LosesMemory, IdleCall, PastKill
<1>1. CASE PastKill(call[c]) /\ call'[c].handle = call[c].handle
  <2>1. PidOf(c)' = PidOf(c)
    BY <1>t, <1>h, <1>l, <1>1, HandlesKeepVms DEF KeepsVms, PidOf, PastKill, DestroyPc
  <2>2. PidOf(c) \in Vm /\ Launched(PidOf(c)) /\ Finished(PidOf(c))
    BY <1>h, <1>1 DEF PastKill, DestroyPc, DestroysFinish
  <2> QED
    BY <1>t, <2>1, <2>2 DEF VmsLast, Finished, Exited
<1>2. CASE DestroyKill(c)
  <2>1. PidOf(c) \in Vm /\ Launched(PidOf(c)) /\ call[c].handle \in Handle /\ ~IsFree(call[c].handle)
    BY <1>h, <1>2 DEF DestroyKill, At, DestroyPc
  <2>2. PidOf(c)' = PidOf(c)
    BY <1>t, <1>2 DEF DestroyKill, Goto, PidOf, TypeOK, CallRecord
  <2>3. CASE ~IsRunning(call[c].handle)
    <3>1. Finished(PidOf(c))
      BY <2>1, <2>3 DEF ExitInv, Recorded, TrueEnd, Finished, PidOf
    <3> QED
      BY <1>2, <2>2, <2>3, <3>1 DEF DestroyKill, Finished, Exited
  <2>4. CASE IsRunning(call[c].handle)
    <3>1. Running(PidOf(c)) \/ Exited(PidOf(c))
      BY <1>t, <2>1 DEF Launched, Running, Exited, VmRecord, ProcState
    <3>2. vm' = Signalled(PidOf(c), "KILL")
      BY <1>2, <2>4 DEF DestroyKill
    <3>3. CASE Running(PidOf(c))
      BY <1>t, <2>1, <2>2, <3>2, <3>3 DEF Signalled, Running, Finished, VmRecord
    <3>4. CASE Exited(PidOf(c))
      BY <1>t, <2>1, <2>2, <3>4 DEF VmsLast, Finished, Exited
    <3> QED
      BY <3>1, <3>3, <3>4
  <2> QED
    BY <2>3, <2>4
<1> QED
  BY <1>t, <1>1, <1>2, CallOrigins DEF PastKill

\* Whoever holds a VM holds one that was launched, no DestroyTask gives up on one,
\* and only Nomad cancels a wait.
Cancels == \A c \in Call : At(c, "cancelled") => "waitCancel" \in Hazards
SealedInv == ExitInv /\ KnownLaunched /\ DestroysFinish /\ Cancels
LEMMA EndsAreSealed == Spec => []SealedInv
<1>1. Init => KnownLaunched /\ DestroysFinish /\ Cancels
  BY DEF Init, KnownLaunched, DestroysFinish, Cancels, At, IsFree, FreeHandle, IdleCall, RecoverPc
<1>2. ExitInv /\ KnownLaunched /\ DestroysFinish /\ [Next]_vars => KnownLaunched' /\ DestroysFinish'
  BY KnownLaunchedStep, DestroysFinishStep
<1>3. ExitInv /\ Cancels /\ [Next]_vars => Cancels'
  BY CallOrigins DEF ExitInv, Cancels
<1> QED
  BY <1>1, <1>2, <1>3, ExitInvariant, PTL DEF Spec, SealedInv

\* What a step leads a StopTask that polls to.
Stopped(v) == Exited(v) \/ ~up
LEMMA StopMoves ==
    ASSUME ExitInv, KnownLaunched, NEW c \in Call, NEW v \in Vm, Stopping(c, v)
    PROVE  /\ [Next]_vars => Stopping(c, v)' \/ Stopped(v)' \/ KillDue(v)'
           /\ StopStep(c) => Stopped(v)' \/ KillDue(v)'
<1>t. vm \in [Vm -> VmRecord]
  BY DEF ExitInv, TypeOK, HostTypeOK
<1>h. call[c].handle \in Handle /\ handle[call[c].handle].vm = v
  BY DEF ExitInv, Wired, HoldsItsTask, StopPc, Stopping, At, PidOf
<1>l. Running(v) \/ Exited(v)
  <2>1. Launched(v)
    BY <1>h DEF KnownLaunched, IsFree, HostAssumption
  <2> QED
    BY <1>t, <2>1 DEF Launched, Running, Exited, VmRecord, ProcState
<1>1. StopPoll(c) => Stopped(v)'
  BY <1>l DEF StopPoll, Stopping, PidExists, Running, Exited, Stopped
<1>2. StopDeadline(c) => Stopped(v)' \/ KillDue(v)'
  BY <1>t, <1>l DEF StopDeadline, Stopping, Signalled, Running, Exited, KillDue, Stopped, VmRecord
<1>3. LosesMemory => Stopped(v)'
  BY DEF LosesMemory, Stopped
<1>4. ASSUME [Next]_vars, ~LosesMemory, call'[c] = call[c] PROVE Stopping(c, v)'
  BY <1>4, <1>h, HandlesKeepVms DEF ExitInv, KeepsVms, Stopping, At, PidOf
<1> QED
  BY <1>1, <1>2, <1>3, <1>4, IdlersStay DEF StopStep, ExitInv, Stopping

\* A SIGKILL that is pending ends its VM.
LEMMA KillsLand ==
    ASSUME NEW v \in Vm
    PROVE  FairSpec /\ []NobodyStalls => (KillDue(v) ~> Exited(v))
<1>1. ExitInv /\ [Next]_vars /\ KillDue(v) => KillDue(v)' \/ Exited(v)'
  BY VmsGoOnStep DEF VmsGoOn
<1>2. ExitInv /\ <<KillLands(v)>>_vars => Exited(v)'
  BY DEF ExitInv, TypeOK, HostTypeOK, KillLands, KilledVmExit, VmExit, Exited
<1>3. NobodyStalls /\ KillDue(v) => ENABLED <<KillLands(v)>>_vars
  BY DEF NobodyStalls, KillGoesOn
<1>4. Fairness => KillFairness(v)
  BY DEF Fairness
<1> QED
  BY <1>1, <1>2, <1>3, <1>4, ExitInvariant, PTL DEF FairSpec, Spec, KillFairness

\* A StopTask and a DestroyTask end their VM, under any set of hazards: they find
\* it gone, or send the SIGKILL that ends it; the StopTask unless the plugin dies first.
THEOREM StopsEndTasks == FairSpec /\ []NobodyStalls => StopEndsTask
<1> SUFFICES ASSUME NEW c \in Call, NEW v \in Vm
             PROVE  FairSpec /\ []NobodyStalls =>
                      /\ Stopping(c, v) ~> Exited(v) \/ ~up
                      /\ Destroying(c, v) ~> Exited(v)
  BY DEF StopEndsTask
<1>1. SealedInv /\ Stopping(c, v) =>
        /\ [Next]_vars => Stopping(c, v)' \/ Stopped(v)' \/ KillDue(v)'
        /\ <<StopStep(c)>>_vars => Stopped(v)' \/ KillDue(v)'
  BY StopMoves DEF SealedInv
<1>2. NobodyStalls /\ Stopping(c, v) => ENABLED <<StopStep(c)>>_vars
  BY DEF NobodyStalls, CallGoesOn, Stopping
<1>3. Fairness => StopFairness(c)
  BY DEF Fairness
<1>4. (Exited(v) => Stopped(v)) /\ (Stopped(v) => Exited(v) \/ ~up)
  BY DEF Stopped
<1>5. FairSpec /\ []NobodyStalls => (Stopping(c, v) ~> Stopped(v) \/ KillDue(v))
  BY <1>1, <1>2, <1>3, EndsAreSealed, PTL DEF FairSpec, Spec, StopFairness
<1>6. SealedInv /\ Destroying(c, v) => Exited(v) \/ KillDue(v)
  <2> SUFFICES ASSUME SealedInv, Destroying(c, v) PROVE Exited(v) \/ KillDue(v)
    OBVIOUS
  <2>1. Launched(v) /\ Finished(v) /\ vm[v].exec = "alive"
    BY DEF SealedInv, ExitInv, Wired, HoldsItsTask, KnownLaunched, DestroysFinish, Destroying,
           DestroyPc, PidOf, IsFree, HostAssumption
  <2> QED
    BY <2>1 DEF SealedInv, ExitInv, TypeOK, HostTypeOK, VmRecord, ProcState, Launched, Finished,
                Running, Exited, KillDue
<1>7. FairSpec /\ []NobodyStalls => (Destroying(c, v) ~> Exited(v))
  BY <1>6, EndsAreSealed, KillsLand, PTL DEF FairSpec
<1> QED
  BY <1>4, <1>5, <1>7, KillsLand, PTL

\* A wait for a VM that is over: the handle records the end and closes doneCh, ...
Overdue(c, h) == WaitsOn(c, h) /\ At(c, "wait") /\ Over(handle[h].vm)
Announced(h) == handle[h].done
Leaving(c) == call[c].pc \in {"send", "cancelled"}
LEMMA OverdueMoves ==
    ASSUME ExitInv, NEW c \in Call, NEW h \in Handle, Overdue(c, h)
    PROVE  /\ [Next]_vars =>
                \/ Leaving(c)' \/ WaitEnds(c)'
                \/ /\ Overdue(c, h)'
                   /\ ~IsRunning(h) => ~IsRunning(h)'
                   /\ Announced(h) => Announced(h)'
           /\ RunStep(h) \/ RunPanics(h) =>
                \/ WaitEnds(c)' \/ Announced(h)'
                \/ IsRunning(h) /\ ~IsRunning(h)'
           /\ WaitRead(c) \/ WaitSend(c) \/ WaitAbandon(c) => Leaving(c)'
           /\ ~Announced(h) => RunDue(h)
           /\ Announced(h) => WaitDue(c)
<1>t. /\ call \in [Call -> CallRecord] /\ handle \in [Handle -> HandleRecord]
      /\ handle[h].vm \in Vm /\ ~IsFree(h) /\ At(c, "wait")
  BY DEF ExitInv, TypeOK, Wired, HoldsItsTask, WaitPc, Overdue, WaitsOn, At, IsFree
<1>m. LosesMemory => WaitEnds(c)'
  BY DEF LosesMemory, WaitEnds, At, IdleCall
<1>w. WaitStep(c) => Leaving(c)'
  BY <1>t DEF WaitStep, WaitRead, WaitSend, CancelWait, WaitAbandon, Goto, At, CallRecord, Leaving
<1>1. ASSUME [Next]_vars, ~LosesMemory, call'[c] = call[c]
      PROVE  /\ Overdue(c, h)'
             /\ ~IsRunning(h) => ~IsRunning(h)'
             /\ Announced(h) => Announced(h)'
  <2>1. handle'[h].vm = handle[h].vm
    BY <1>1, <1>t, HandlesKeepVms DEF ExitInv, KeepsVms
  <2>2. Overdue(c, h)'
    BY <1>1, <1>t, <2>1, FreshStep DEF ExitInv, EndsAreFinal, Overdue, WaitsOn, Over, Exited, At
  <2>3. ASSUME NEW g \in Handle, RunStep(g)
        PROVE  (~IsRunning(h) => ~IsRunning(h)') /\ (Announced(h) => Announced(h)')
    BY <1>t, <2>3 DEF RunStep, RecordExit, CloseDone, IsRunning, Announced, HandleRecord
  <2>4. (~IsRunning(h) => ~IsRunning(h)') /\ (Announced(h) => Announced(h)')
    BY <1>1, <1>t, <2>3, HandleSteps DEF ExitInv, HandleStep, IsRunning, Announced
  <2> QED
    BY <2>2, <2>4
<1>2. RecordExit(h) => IsRunning(h) /\ ~IsRunning(h)'
  BY <1>t DEF RecordExit, IsRunning, HandleRecord
<1>3. CloseDone(h) => Announced(h)'
  BY <1>t DEF CloseDone, Announced, HandleRecord
<1>4. (~Announced(h) => RunDue(h)) /\ (Announced(h) => WaitDue(c))
  BY <1>t DEF Announced, RunDue, WaitDue, Overdue, WaitsOn, At
<1> QED
  BY <1>t, <1>w, <1>1, <1>2, <1>3, <1>4, <1>m, IdlersStay
     DEF ExitInv, RunStep, RunPanics, WaitStep, Waiting, At

\* ... and handleWait sends it, or leaves with the context.
LEMMA LeavingMoves ==
    ASSUME ExitInv, Cancels, NEW c \in Call, Leaving(c)
    PROVE  /\ [Next]_vars => Leaving(c)' \/ WaitEnds(c)'
           /\ WaitRead(c) \/ WaitSend(c) \/ WaitAbandon(c) => WaitEnds(c)'
           /\ WaitDue(c)
<1>t. call \in [Call -> CallRecord]
  BY DEF ExitInv, TypeOK
<1>1. WaitSend(c) \/ WaitAbandon(c) => WaitEnds(c)'
  BY <1>t DEF WaitSend, WaitAbandon, Return, IdleCall, At, WaitEnds
<1>2. WaitRead(c) => WaitEnds(c)'
  BY <1>t DEF WaitRead, Leaving, At, CallRecord, Cancels, WaitEnds
<1>3. LosesMemory => WaitEnds(c)'
  BY DEF LosesMemory, WaitEnds, At, IdleCall
<1>4. CancelWait(c) => WaitEnds(c)'
  BY <1>t DEF CancelWait, Goto, Leaving, At, CallRecord, WaitEnds
<1> QED
  BY <1>1, <1>2, <1>3, <1>4, IdlersStay DEF ExitInv, WaitStep, Waiting, Leaving, WaitDue

\* A WaitTask comes to an end once its VM or its executor has ended or its context
\* is cancelled, under any set of hazards: run() records the end and closes doneCh,
\* handleWait reads and sends it or leaves; only the goroutine whose receiver left
\* as it sent stays behind.
THEOREM WaitersAreAnswered == FairSpec /\ []NobodyStalls => WaiterAnswered
<1> SUFFICES ASSUME NEW c \in Call, NEW h \in Handle
             PROVE  FairSpec /\ []NobodyStalls =>
                      (WaitsOn(c, h) /\ (Over(handle[h].vm) \/ ~At(c, "wait")) ~> WaitEnds(c))
  BY DEF WaiterAnswered
<1>1. SealedInv /\ Overdue(c, h) =>
        /\ [Next]_vars =>
             \/ Leaving(c)' \/ WaitEnds(c)'
             \/ /\ Overdue(c, h)'
                /\ ~IsRunning(h) => ~IsRunning(h)'
                /\ Announced(h) => Announced(h)'
        /\ <<RunStep(h) \/ RunPanics(h)>>_vars =>
             \/ WaitEnds(c)' \/ Announced(h)'
             \/ IsRunning(h) /\ ~IsRunning(h)'
        /\ <<WaitRead(c) \/ WaitSend(c) \/ WaitAbandon(c)>>_vars => Leaving(c)'
        /\ ~Announced(h) => RunDue(h)
        /\ Announced(h) => WaitDue(c)
  BY OverdueMoves DEF SealedInv
<1>2. SealedInv /\ Leaving(c) =>
        /\ [Next]_vars => Leaving(c)' \/ WaitEnds(c)'
        /\ <<WaitRead(c) \/ WaitSend(c) \/ WaitAbandon(c)>>_vars => WaitEnds(c)'
        /\ WaitDue(c)
  BY LeavingMoves DEF SealedInv
<1>3. NobodyStalls =>
        /\ RunDue(h) => ENABLED <<RunStep(h) \/ RunPanics(h)>>_vars
        /\ WaitDue(c) => ENABLED <<WaitRead(c) \/ WaitSend(c) \/ WaitAbandon(c)>>_vars
  BY DEF NobodyStalls, RunGoesOn, CallGoesOn
<1>4. Fairness => RunFairness(h) /\ WaitFairness(c)
  BY DEF Fairness
<1>5. FairSpec /\ []NobodyStalls =>
        [][Next]_vars /\ []SealedInv /\ []NobodyStalls /\ RunFairness(h) /\ WaitFairness(c)
  BY <1>4, EndsAreSealed, PTL DEF FairSpec, Spec
<1>6. FairSpec /\ []NobodyStalls => (Leaving(c) ~> WaitEnds(c))
  BY <1>2, <1>3, <1>5, PTL DEF WaitFairness
<1>7. FairSpec /\ []NobodyStalls => (Overdue(c, h) ~> Leaving(c) \/ WaitEnds(c))
  BY <1>1, <1>3, <1>5, PTL DEF RunFairness, WaitFairness
<1>8. WaitsOn(c, h) /\ (Over(handle[h].vm) \/ ~At(c, "wait")) => Overdue(c, h) \/ Leaving(c)
  BY DEF WaitsOn, Overdue, Leaving, At
<1> QED
  BY <1>6, <1>7, <1>8, PTL
=============================================================================
