------------------------- MODULE TaskContractProofs -------------------------
(***************************************************************************)
(* Who owns a VM: theorems about the task life cycle for any number of     *)
(* tasks, starts, goroutines and handles, as long as nobody calls twice    *)
(* for one ID.  The driver implements TaskContract, and nothing but a      *)
(* start that fails loses a VM.                                            *)
(***************************************************************************)
EXTENDS TaskDriverProofs

Disciplined == "duplicateCalls" \notin Hazards
StateReadable == "badState" \notin Hazards

-----------------------------------------------------------------------------
(* What a step may do to the VMs.                                          *)

\* A VM keeps its task, stays launched and stays finished.
VmsGrow ==
    \A v \in Vm : /\ vm[v].task # None => vm'[v].task = vm[v].task
                  /\ Launched(v) => Launched(v)'
                  /\ Finished(v) => Finished(v)'

\* Each step of the host and each signal, VM by VM.
LEMMA SignalFields ==
    ASSUME HostTypeOK, NEW v \in Vm, NEW sig, vm' = Signalled(v, sig)
    PROVE  \A w \in Vm :
             /\ vm'[w].task = vm[w].task
             /\ vm'[w].exec = vm[w].exec
             /\ vm'[w].status = vm[w].status
             /\ vm'[w].proc = IF w = v /\ vm[v].proc = "reused" THEN "struck" ELSE vm[w].proc
             /\ vm[w].killed => vm'[w].killed
             /\ vm'[w].killed /\ ~vm[w].killed => w = v /\ sig = "KILL" /\ vm[v].proc = "running"
             /\ w = v /\ sig = "KILL" /\ vm[v].proc = "running" => vm'[w].killed
BY DEF Signalled, HostTypeOK, VmRecord

\* The host's own steps touch the process, the status or the executor of one VM.
Ends(v) ==
    /\ vm[v].proc = "running" /\ vm'[v].proc = "gone"
    /\ vm'[v].status \in ExitStatus /\ vm'[v].exec = vm[v].exec
IsReused(v) ==
    /\ vm[v].proc = "gone" /\ vm'[v].proc = "reused"
    /\ vm'[v].status = vm[v].status /\ vm'[v].exec = vm[v].exec
LosesExecutor(v) ==
    /\ vm'[v].proc = vm[v].proc /\ vm'[v].status = vm[v].status
    /\ vm[v].exec = "alive" /\ vm'[v].exec = "dead"
HostStep(v) ==
    /\ \A w \in Vm \ {v} : vm'[w] = vm[w]
    /\ vm'[v].task = vm[v].task /\ vm'[v].killed = vm[v].killed
    /\ Ends(v) \/ IsReused(v) \/ LosesExecutor(v)

\* A step of the host is one of the three.
LEMMA HostFields ==
    ASSUME HostTypeOK, HostNext
    PROVE  \E v \in Vm : HostStep(v)
<1> PICK v \in Vm : VmExit(v) \/ PidReuse(v) \/ ExecutorCrash(v)
  BY DEF HostNext
<1>t. vm \in [Vm -> VmRecord]
  BY DEF HostTypeOK
<1>1. CASE VmExit(v)
  <2> PICK s \in ExitStatus : vm' = [vm EXCEPT ![v].proc = "gone", ![v].status = s]
    BY <1>1 DEF VmExit
  <2>1. \A w \in Vm : /\ vm'[w].task = vm[w].task
                      /\ vm'[w].exec = vm[w].exec
                      /\ vm'[w].status = IF w = v THEN s ELSE vm[w].status
                      /\ vm'[w].proc = IF w = v THEN "gone" ELSE vm[w].proc
    BY <1>t DEF VmRecord
  <2>2. vm'[v].killed = vm[v].killed
    BY <1>t DEF VmRecord
  <2>3. \A w \in Vm \ {v} : vm'[w] = vm[w]
    BY <1>t
  <2>4. Ends(v) /\ vm'[v].task = vm[v].task
    BY <1>1, <2>1 DEF VmExit, Running, Ends
  <2> QED
    BY <2>2, <2>3, <2>4 DEF HostStep
<1>2. CASE PidReuse(v)
  BY <1>2, <1>t DEF PidReuse, VmRecord, HostStep, IsReused
<1>3. CASE ExecutorCrash(v)
  BY <1>3, <1>t DEF ExecutorCrash, VmRecord, HostStep, LosesExecutor
<1> QED
  BY <1>1, <1>2, <1>3

\* The two steps of a start that make something, if they do.
LEMMA MakeFields ==
    ASSUME TypeOK, Wired, Fresh, NEW c \in Call, CreateExecutor(c) \/ Launch(c)
    PROVE  \/ UNCHANGED vm
           \/ LET v == call[c].vm IN
                /\ v \in Vm
                /\ \A w \in Vm \ {v} : vm'[w] = vm[w]
                /\ vm'[v].task = vm[v].task /\ vm'[v].killed = vm[v].killed
                /\ vm'[v].status = vm[v].status
                /\ \/ /\ call[c].pc = "executor" /\ vm[v].exec = "none"
                      /\ vm'[v].exec = "alive" /\ vm'[v].proc = vm[v].proc
                   \/ /\ call[c].pc = "launch" /\ vm[v].exec = "alive" /\ vm[v].proc = "none"
                      /\ vm'[v].exec = "alive" /\ vm'[v].proc = "running"
<1> DEFINE v == call[c].vm
<1>1. /\ v \in Vm /\ vm[v].proc = "none"
      /\ call[c].pc = "executor" => vm[v].exec = "none"
  BY DEF Fresh, Wired, HoldsItsTask, CreateExecutor, Launch, At, StartPc, Unlaunched
<1>t. vm \in [Vm -> VmRecord]
  BY DEF TypeOK, HostTypeOK
<1>2. CASE CreateExecutor(c)
  BY <1>1, <1>2, <1>t DEF CreateExecutor, At, VmRecord
<1>3. CASE Launch(c)
  BY <1>1, <1>3, <1>t DEF Launch, At, VmRecord
<1> QED
  BY <1>2, <1>3

\* A start takes a VM nobody has, for a task nobody has started.
Claims(c, t, v) ==
    /\ vm[v].task = None /\ vm'[v].task = t
    /\ \A w \in Vm : vm[w].task # t
    /\ \A w \in Vm \ {v} : vm'[w] = vm[w]
    /\ vm'[v].exec = vm[v].exec /\ vm'[v].proc = vm[v].proc
    /\ vm'[v].status = vm[v].status /\ vm'[v].killed = vm[v].killed
    /\ call'[c].pc = "executor" /\ call'[c].task = t /\ call'[c].vm = v
    /\ \A d \in Call \ {c} : call'[d] = call[d]

\* That is what StartTask does when nobody calls twice.
LEMMA ClaimFields ==
    ASSUME TypeOK, Disciplined, NEW c \in Call, NEW t \in Task, StartTask(c, t)
    PROVE  \E v \in Vm : Claims(c, t, v)
<1> PICK v \in Vm, k \in JobConfigs :
      /\ vm[v].task = None
      /\ vm' = [vm EXCEPT ![v].task = t]
      /\ call' = [call EXCEPT ![c] = [IdleCall EXCEPT !.pc = "executor", !.task = t,
                                                      !.vm = v, !.cfg = k]]
  BY DEF StartTask
<1>1. \A w \in Vm : vm[w].task # t
  BY DEF StartTask, MayStart, Disciplined
<1>2. vm \in [Vm -> VmRecord] /\ call \in [Call -> CallRecord]
  BY DEF TypeOK, HostTypeOK
<1>3. Claims(c, t, v)
  BY <1>1, <1>2 DEF VmRecord, IdleCall, Claims
<1> QED
  BY <1>3

\* No step takes a VM from its task, undoes its launch or revives it; and no
\* two VMs come to have one task.
LEMMA VmsOnlyGrow ==
    ASSUME TypeOK, Wired, Fresh, OneStart, Disciplined, [Next]_vars
    PROVE  VmsGrow /\ OneStart'
<1>t. vm \in [Vm -> VmRecord] /\ HostTypeOK
  BY DEF TypeOK, HostTypeOK
<1>1. ASSUME NEW c \in Call, NEW t \in Task, StartTask(c, t) PROVE VmsGrow /\ OneStart'
  <2> PICK v \in Vm : Claims(c, t, v)
    BY <1>1, ClaimFields
  <2> QED
    BY DEF Claims, VmsGrow, OneStart, Launched, Finished, Exited
<1>2. ASSUME NEW c \in Call, CreateExecutor(c) \/ Launch(c), ~UNCHANGED vm PROVE VmsGrow /\ OneStart'
  BY <1>2, MakeFields DEF VmsGrow, OneStart, Launched, Finished, Exited
<1>3. ASSUME NEW v \in Vm, NEW sig, vm' = Signalled(v, sig) PROVE VmsGrow /\ OneStart'
  BY <1>3, <1>t, SignalFields DEF VmsGrow, OneStart, Launched, Finished, Exited
<1>4. CASE HostNext
  BY <1>4, <1>t, HostFields DEF HostStep, Ends, IsReused, LosesExecutor, VmsGrow, OneStart, Launched, Finished, Exited
<1>5. CASE UNCHANGED vm
  BY <1>5 DEF VmsGrow, OneStart, Launched, Finished, Exited
<1> QED
  BY <1>1, <1>2, <1>3, <1>4, <1>5, StepKinds DEF VmStep

-----------------------------------------------------------------------------
(* What the others keep while one goroutine moves.                         *)

Busy == StartPc \union RecoverPc \union DestroyPc
CallsOwn == \A c \in Call : CallOwn(call[c])

\* A handle in use keeps its VM, and a new one is for a VM of task t.
HandlesFor(t) ==
    /\ KeepsVms
    /\ \A h \in Handle : handle'[h].vm # None =>
         handle'[h].vm = handle[h].vm \/ vm[handle'[h].vm].task = t
\* Store and Nomad's copies change at task t only.
TableFor(t) ==
    \A u \in Task : u # t => tasks'[u] = tasks[u] /\ saved'[u] = saved[u]
\* Nothing is stored, saved or given a handle.
NoneStored == UNCHANGED <<tasks, saved>> /\ \A h \in Handle : handle'[h].vm = handle[h].vm

\* The VM and the handle of a goroutine exist.
LEMMA CallTypes ==
    ASSUME TypeOK, Wired, NEW d \in Call
    PROVE  /\ call[d] \in CallRecord
           /\ call[d].pc \in StartPc \union RecoverPc => call[d].task \in Task /\ call[d].vm \in Vm
           /\ call[d].pc \in StopPc \union DestroyPc \union WaitPc =>
                call[d].task \in Task /\ call[d].handle \in Handle /\ handle[call[d].handle].vm \in Vm
           /\ call[d].pc \in Busy => call[d].task \in Task
BY DEF TypeOK, Wired, HoldsItsTask, Busy

\* The stages of the handlers are apart.
UsePc == StopPc \union DestroyPc \union WaitPc
\* No handler has a stage of another.
LEMMA Stages ==
    /\ \A p \in StartPc : p \notin RecoverPc \union UsePc
    /\ \A p \in RecoverPc : p \notin StartPc \union UsePc
    /\ \A p \in UsePc : p \notin StartPc \union RecoverPc
    /\ "idle" \notin StartPc \union RecoverPc \union UsePc
    /\ \A p \in Pc : p \in StartPc \union RecoverPc \union UsePc \union {"idle"}
BY DEF Pc, StartPc, RecoverPc, StopPc, DestroyPc, WaitPc, UsePc

\* What each stage has to show is all there is to show.
LEMMA OwnByStage ==
    ASSUME NEW d \in Call
    PROVE  /\ call[d].pc \in StartPc /\ StartOwn(call[d]) => CallOwn(call[d])
           /\ call[d].pc \in RecoverPc /\ RecoverOwn(call[d]) => CallOwn(call[d])
           /\ call[d].pc \in UsePc /\ UseOwn(call[d]) => CallOwn(call[d])
           /\ call[d].pc = "idle" => CallOwn(call[d])
BY Stages DEF CallOwn, UsePc

\* The same after a step.
LEMMA OwnByStageNext ==
    ASSUME NEW d \in Call
    PROVE  /\ call'[d].pc \in StartPc /\ StartOwn(call[d])' => CallOwn(call[d])'
           /\ call'[d].pc \in RecoverPc /\ RecoverOwn(call[d])' => CallOwn(call[d])'
           /\ call'[d].pc \in UsePc /\ UseOwn(call[d])' => CallOwn(call[d])'
           /\ call'[d].pc = "idle" => CallOwn(call[d])'
BY Stages DEF CallOwn, UsePc

\* What stays true of a VM that somebody has.
LEMMA GrowFacts ==
    ASSUME VmsGrow, NEW v \in Vm
    PROVE  /\ \A t \in Task : vm[v].task = t => vm'[v].task = t
           /\ \A t \in Task : Owns(t, v) => Owns(t, v)'
           /\ Launched(v) => Launched(v)'
           /\ Finished(v) => Finished(v)'
<1>1. vm[v].task # None => vm'[v].task = vm[v].task
  BY DEF VmsGrow
<1>2. (Launched(v) => Launched(v)') /\ (Finished(v) => Finished(v)')
  BY DEF VmsGrow
<1>3. \A t \in Task : vm[v].task = t => vm'[v].task = t
  BY <1>1, HostAssumption
<1> QED
  BY <1>2, <1>3 DEF Owns

\* A goroutine that does not move, while nothing is stored.
LEMMA OthersStay ==
    ASSUME TypeOK, Wired, CallsOwn, VmsGrow, NoneStored, NEW d \in Call, call'[d] = call[d]
    PROVE  CallOwn(call[d])'
<1> DEFINE r == call[d]
<1>1. CallOwn(r)
  BY DEF CallsOwn
<1>2. \A v \in Vm : Monitored(v)' <=> Monitored(v)
  BY DEF NoneStored, Monitored, Monitors
<1>3. \A h \in Handle : handle'[h].vm = handle[h].vm
  BY DEF NoneStored
<1>4. CASE r.pc \in StartPc
  <2>1. r.task \in Task /\ r.vm \in Vm /\ StartOwn(r)
    BY <1>1, <1>4, CallTypes DEF CallOwn
  <2> PICK u \in Task, w \in Vm : u = r.task /\ w = r.vm
    BY <2>1
  <2>2. tasks[u] # None => tasks[u] \in Handle
    BY DEF TypeOK
  <2>3. /\ vm[w].task = u => vm'[w].task = u
        /\ vm[w].proc # "none" => vm'[w].proc # "none"
        /\ Monitored(w)' <=> Monitored(w)
    BY <1>2, GrowFacts DEF Launched
  <2>4. StartOwn(call[d])'
    BY <1>3, <2>1, <2>2, <2>3 DEF StartOwn, NoneStored, Launched, Monitors, Monitored
  <2> QED
    BY <1>4, <2>4, OwnByStageNext
<1>5. CASE r.pc \in RecoverPc
  <2>1. r.task \in Task /\ r.vm \in Vm /\ RecoverOwn(r)
    BY <1>1, <1>5, CallTypes DEF CallOwn
  <2>2. RecoverOwn(call[d])'
    BY <1>3, <2>1 DEF RecoverOwn, NoneStored, Monitored, Monitors
  <2> QED
    BY <1>5, <2>2, OwnByStageNext
<1>6. CASE r.pc \in UsePc
  <2>1. r.task \in Task /\ handle[r.handle].vm \in Vm /\ UseOwn(r)
    BY <1>1, <1>6, CallTypes DEF CallOwn, UsePc
  <2> PICK u \in Task, w \in Vm : u = r.task /\ w = handle[r.handle].vm
    BY <2>1
  <2>2. handle'[r.handle].vm = w
    BY <1>3, <1>6, CallTypes DEF UsePc
  <2>3. Owns(u, w)' /\ (Finished(w) => Finished(w)')
    BY <2>1, GrowFacts DEF UseOwn
  <2>4. UseOwn(call[d])'
    BY <2>1, <2>2, <2>3 DEF UseOwn, NoneStored, Owns, Finished, Launched, Exited
  <2> QED
    BY <1>6, <2>4, OwnByStageNext
<1>7. CASE r.pc = "idle"
  BY <1>7, OwnByStageNext
<1> QED
  BY <1>4, <1>5, <1>6, <1>7, CallTypes, Stages DEF CallRecord

\* Two goroutines that start, recover or destroy one task are one.
LEMMA BusyAlone ==
    ASSUME TypeOK, Wired, Fresh, OneStart, Exclusive, CallsOwn,
           NEW c \in Call, NEW d \in Call,
           call[c].pc \in Busy, call[d].pc \in Busy, call[c].task = call[d].task
    PROVE  c = d
<1>1. CASE call[c].pc \in StartPc /\ call[d].pc \in StartPc
  <2>1. vm[call[c].vm].task = call[c].task /\ vm[call[d].vm].task = call[d].task
    BY <1>1 DEF CallsOwn, CallOwn, StartOwn
  <2>2. /\ call[c].task \in Task /\ call[c].vm \in Vm
        /\ call[d].task \in Task /\ call[d].vm \in Vm
    BY <1>1, CallTypes
  <2> PICK v \in Vm, w \in Vm : v = call[c].vm /\ w = call[d].vm
    BY <2>2
  <2>3. vm[v].task = vm[w].task /\ vm[v].task # None
    BY <2>1, <2>2, HostAssumption
  <2>4. v = w
    BY <2>3 DEF OneStart
  <2> QED
    BY <1>1, <2>4 DEF Fresh
<1>2. CASE call[c].pc \in RecoverPc \union DestroyPc
  BY <1>2 DEF Exclusive, Busy
<1>3. CASE call[d].pc \in RecoverPc \union DestroyPc
  BY <1>3 DEF Exclusive, Busy
<1> QED
  BY <1>1, <1>2, <1>3 DEF Busy

\* A goroutine that does not move, while another one stores, saves or forgets
\* its own task.
LEMMA OthersApart ==
    ASSUME TypeOK, Wired, Fresh, OneStart, SavedIsOwn, Exclusive, CallsOwn, VmsGrow,
           NEW c \in Call, call[c].pc \in Busy,
           HandlesFor(call[c].task), TableFor(call[c].task),
           NEW d \in Call, d # c, call'[d] = call[d]
    PROVE  CallOwn(call[d])'
<1> DEFINE t == call[c].task
           r == call[d]
<1>1. CallOwn(r)
  BY DEF CallsOwn
<1>2. r.pc \in Busy => r.task \in Task /\ r.task # t
  BY BusyAlone, CallTypes
<1>3. ASSUME NEW u \in Task, u = r.task, u # t, NEW w \in Vm, w = r.vm, vm[w].task = u
      PROVE  /\ tasks'[u] = tasks[u] /\ saved'[u] = saved[u]
             /\ vm'[w].task = u
             /\ vm[w].proc # "none" => vm'[w].proc # "none"
             /\ \A h \in Handle : handle'[h].vm = w <=> handle[h].vm = w
  <2>1. tasks'[u] = tasks[u] /\ saved'[u] = saved[u]
    BY <1>3 DEF TableFor
  <2>2. /\ vm'[w].task = u
        /\ vm[w].proc # "none" => vm'[w].proc # "none"
    BY <1>3, GrowFacts DEF Launched
  <2>3. ASSUME NEW h \in Handle PROVE handle'[h].vm = w <=> handle[h].vm = w
    <3>1. handle[h].vm = w => handle'[h].vm = w
      BY DEF HandlesFor, KeepsVms
    <3>2. w # None /\ u # t /\ vm[w].task = u
      BY <1>3, HostAssumption
    <3>3. handle'[h].vm = w => handle[h].vm = w
      BY <3>2 DEF HandlesFor
    <3> QED
      BY <3>1, <3>3
  <2> QED
    BY <2>1, <2>2, <2>3
<1>4. CASE r.pc \in StartPc
  <2>1. r.task \in Task /\ r.vm \in Vm /\ r.task # t /\ StartOwn(r)
    BY <1>1, <1>2, <1>4, CallTypes DEF CallOwn, Busy
  <2> PICK u \in Task, w \in Vm : u = r.task /\ w = r.vm
    BY <2>1
  <2>2. vm[w].task = u
    BY <2>1 DEF StartOwn
  <2>3. tasks[u] # None => tasks[u] \in Handle
    BY DEF TypeOK
  <2>4. StartOwn(call[d])'
    BY <1>3, <2>1, <2>2, <2>3 DEF StartOwn, Launched, Monitors, Monitored
  <2> QED
    BY <1>4, <2>4, OwnByStageNext
<1>5. CASE r.pc \in RecoverPc
  <2>1. r.task \in Task /\ r.vm \in Vm /\ r.task # t /\ RecoverOwn(r)
    BY <1>1, <1>2, <1>5, CallTypes DEF CallOwn, Busy
  <2> PICK u \in Task, w \in Vm : u = r.task /\ w = r.vm
    BY <2>1
  <2>2. vm[w].task = u
    <3>1. saved[u] = w /\ w # None
      BY <2>1, HostAssumption DEF RecoverOwn
    <3> QED
      BY <3>1 DEF SavedIsOwn, Owns
  <2>3. RecoverOwn(call[d])'
    BY <1>3, <2>1, <2>2 DEF RecoverOwn, Monitors, Monitored
  <2> QED
    BY <1>5, <2>3, OwnByStageNext
<1>6. CASE r.pc \in UsePc
  <2>1. r.task \in Task /\ handle[r.handle].vm \in Vm /\ UseOwn(r)
    BY <1>1, <1>6, CallTypes DEF CallOwn, UsePc
  <2> PICK u \in Task, w \in Vm : u = r.task /\ w = handle[r.handle].vm
    BY <2>1
  <2>2. handle'[r.handle].vm = w
    BY <1>6, CallTypes DEF UsePc, HandlesFor, KeepsVms
  <2>3. Owns(u, w)' /\ (Finished(w) => Finished(w)')
    BY <2>1, GrowFacts DEF UseOwn
  <2>4. r.pc = "down" => tasks'[u] = tasks[u]
    BY <1>2 DEF TableFor, Busy, DestroyPc
  <2>5. UseOwn(call[d])'
    BY <2>1, <2>2, <2>3, <2>4 DEF UseOwn, Owns, Finished, Launched, Exited
  <2> QED
    BY <1>6, <2>5, OwnByStageNext
<1>7. CASE r.pc = "idle"
  BY <1>7, OwnByStageNext
<1> QED
  BY <1>4, <1>5, <1>6, <1>7, CallTypes, Stages DEF CallRecord

-----------------------------------------------------------------------------
(* Steps of one goroutine.                                                 *)

NobodyBusy(t) == \A d \in Call : ~(call[d].task = t /\ call[d].pc \in Busy)

\* Who starts, recovers or destroys a task did so before, or nobody did.
StaysBusy(c) ==
    call'[c].pc \in Busy =>
      \/ /\ call[c].pc \in Busy /\ call'[c].task = call[c].task
         /\ call'[c].pc \in StartPc <=> call[c].pc \in StartPc
      \/ NobodyBusy(call'[c].task)

\* One goroutine that moves so takes no task from another.
LEMMA ExclusiveStep ==
    ASSUME Exclusive, NEW c, \A d \in Call : call'[d] = call[d] \/ (d = c /\ StaysBusy(d))
    PROVE  Exclusive'
<1> SUFFICES ASSUME NEW a \in Call, NEW b \in Call,
                    call'[a].pc \in RecoverPc \union DestroyPc,
                    call'[b].pc \in StartPc \union RecoverPc \union DestroyPc,
                    call'[a].task = call'[b].task
             PROVE  a = b
  BY DEF Exclusive
<1>1. call'[a].pc \in Busy /\ call'[a].pc \notin StartPc /\ call'[b].pc \in Busy
  BY DEF Busy, StartPc, RecoverPc, DestroyPc
<1>2. CASE call'[a] = call[a] /\ call'[b] = call[b]
  BY <1>2 DEF Exclusive
<1>3. CASE a = c /\ StaysBusy(a) /\ call'[b] = call[b]
  <2>1. ~NobodyBusy(call'[a].task)
    BY <1>1, <1>3 DEF NobodyBusy
  <2>2. call[a].pc \in RecoverPc \union DestroyPc /\ call'[a].task = call[a].task
    BY <1>1, <1>3, <2>1 DEF StaysBusy, Busy
  <2> QED
    BY <1>3, <2>2 DEF Exclusive
<1>4. CASE b = c /\ StaysBusy(b) /\ call'[a] = call[a]
  <2>1. ~NobodyBusy(call'[b].task)
    BY <1>1, <1>4 DEF NobodyBusy
  <2>2. call[b].pc \in Busy /\ call'[b].task = call[b].task
    BY <1>1, <1>4, <2>1 DEF StaysBusy
  <2> QED
    BY <1>4, <2>2 DEF Exclusive, Busy
<1> QED
  BY <1>2, <1>3, <1>4

\* A goroutine that has not stored anything moves where it may.
Moves(d) == call[d].pc \notin {"reply", "down"} /\ CallOwn(call[d])' /\ StaysBusy(d)

\* Such a move, or none, keeps the whole invariant.
LEMMA QuietStep ==
    ASSUME TypeOK, Wired, OwnInv, VmsGrow, OneStart', NoneStored,
           NEW c, \A d \in Call : call'[d] = call[d] \/ (d = c /\ Moves(d))
    PROVE  OwnInv'
<1>1. SavedIsOwn'
  <2> SUFFICES ASSUME NEW t \in Task, saved[t] # None PROVE Owns(t, saved[t])'
    BY DEF SavedIsOwn, NoneStored, Owns, Launched
  <2>1. saved[t] \in Vm /\ Owns(t, saved[t])
    BY DEF TypeOK, OwnInv, SavedIsOwn
  <2> PICK v \in Vm : v = saved[t]
    BY <2>1
  <2>2. Owns(t, v)'
    BY <2>1, GrowFacts
  <2> QED
    BY <2>2 DEF NoneStored, Owns, Launched
<1>2. ASSUME NEW t \in Task, tasks[t] # None
      PROVE  /\ tasks[t] \in Handle /\ handle'[tasks[t]].vm = handle[tasks[t]].vm
             /\ handle[tasks[t]].vm \in Vm
  BY <1>2 DEF TypeOK, Wired, NoneStored, HandleRecord
<1>3. StoreOwn'
  <2> SUFFICES ASSUME NEW t \in Task, tasks[t] # None, NEW v \in Vm, v = handle[tasks[t]].vm
               PROVE  Owns(t, v)' /\ (saved[t] = v \/ \E d \in Call : call'[d].pc = "reply" /\ call'[d].vm = v)
    BY <1>2 DEF StoreOwn, NoneStored, At, Owns, Launched
  <2>1. Owns(t, v) /\ (saved[t] = v \/ \E d \in Call : At(d, "reply") /\ call[d].vm = v)
    BY DEF OwnInv, StoreOwn
  <2>2. Owns(t, v)'
    BY <2>1, GrowFacts
  <2> QED
    BY <2>1, <2>2 DEF At, Moves
<1>4. HandleOwn'
  <2> SUFFICES ASSUME NEW h \in Handle, ~IsFree(h), NEW v \in Vm, v = handle[h].vm
               PROVE  LET t == vm'[v].task IN
                        /\ Launched(v)' /\ t # None
                        /\ tasks[t] = h \/ saved[t] = None \/ \E d \in Call : call'[d].pc = "down" /\ call'[d].task = t
    BY DEF HandleOwn, NoneStored, At, IsFree, TypeOK, HandleRecord, Launched
  <2>1. LET t == vm[v].task IN
          /\ Launched(v) /\ t # None
          /\ tasks[t] = h \/ saved[t] = None \/ \E d \in Call : At(d, "down") /\ call[d].task = t
    BY DEF OwnInv, HandleOwn
  <2>2. vm'[v].task = vm[v].task /\ Launched(v)'
    BY <2>1 DEF VmsGrow
  <2> QED
    BY <2>1, <2>2 DEF At, Moves
<1>5. Exclusive'
  BY ExclusiveStep DEF Moves, OwnInv
<1>6. OneMonitor'
  BY DEF OwnInv, OneMonitor, NoneStored, Monitors, IsFree
<1>7. CallsOwn
  BY DEF OwnInv, CallsOwn
<1>8. \A d \in Call : CallOwn(call[d])'
  BY <1>7, OthersStay DEF Moves
<1> QED
  BY <1>1, <1>3, <1>4, <1>5, <1>6, <1>8 DEF OwnInv

\* A goroutine that returns, before it has stored anything.
LEMMA ReturnMoves ==
    ASSUME NEW c \in Call, call[c].pc \notin {"reply", "down"}, call'[c].pc = "idle"
    PROVE  Moves(c)
BY OwnByStageNext DEF Moves, StaysBusy, Busy, StartPc, RecoverPc, DestroyPc

\* A start on its way to the store.
LEMMA StartMoves ==
    ASSUME TypeOK, Wired, OwnInv, VmsGrow, NoneStored, NEW c \in Call,
           call[c].pc \in StartPc \ {"reply"}, call'[c].pc \in StartPc \ {"reply"},
           call'[c].task = call[c].task, call'[c].vm = call[c].vm,
           call'[c].pc = "register" => vm'[call[c].vm].proc = "running"
    PROVE  Moves(c)
<1>1. call[c].task \in Task /\ call[c].vm \in Vm /\ StartOwn(call[c])
  BY CallTypes DEF OwnInv, CallOwn
<1> PICK t \in Task, v \in Vm : t = call[c].task /\ v = call[c].vm
  BY <1>1
<1>2. vm'[v].task = t /\ (Launched(v) => vm'[v].proc # "none")
  BY <1>1, GrowFacts DEF StartOwn, Launched
<1>3. StartOwn(call[c])'
  BY <1>1, <1>2 DEF StartOwn, NoneStored, Monitored, Monitors, Launched
<1>4. CallOwn(call[c])'
  BY <1>3, OwnByStageNext
<1> QED
  BY <1>4 DEF Moves, StaysBusy, Busy, StartPc

\* A recovery on its way to the store.
LEMMA RecoverMoves ==
    ASSUME TypeOK, Wired, OwnInv, NoneStored, NEW c \in Call,
           call[c].pc \in RecoverPc, call'[c].pc \in RecoverPc,
           call'[c].task = call[c].task, call'[c].vm = call[c].vm
    PROVE  Moves(c)
<1>1. RecoverOwn(call[c])
  BY DEF OwnInv, CallOwn
<1>2. RecoverOwn(call[c])'
  BY <1>1 DEF RecoverOwn, NoneStored, Monitored, Monitors
<1>3. CallOwn(call[c])'
  BY <1>2, OwnByStageNext
<1> QED
  BY <1>3, Stages DEF Moves, StaysBusy, Busy, StartPc, RecoverPc

\* A wait, stop or destroy that goes on with its handle.
LEMMA UseMoves ==
    ASSUME TypeOK, Wired, OwnInv, VmsGrow, NoneStored, NEW c \in Call,
           call[c].pc \in UsePc \ {"down"}, call'[c].pc \in UsePc \ {"down"},
           call'[c].task = call[c].task, call'[c].handle = call[c].handle,
           call'[c].pc \in DestroyPc => call[c].pc \in DestroyPc,
           call'[c].pc = "forget" => Finished(handle[call[c].handle].vm)'
    PROVE  Moves(c)
<1>1. /\ call[c].task \in Task /\ call[c].handle \in Handle /\ handle[call[c].handle].vm \in Vm
      /\ UseOwn(call[c])
  BY CallTypes DEF OwnInv, CallOwn, UsePc
<1> PICK t \in Task, h \in Handle, v \in Vm : t = call[c].task /\ h = call[c].handle /\ v = handle[h].vm
  BY <1>1
<1>2. handle'[h].vm = v
  BY DEF NoneStored
<1>3. Owns(t, v)'
  BY <1>1, GrowFacts DEF UseOwn
<1>4. call'[c].pc = "forget" => vm'[v].killed \/ vm'[v].proc \in {"gone", "reused", "struck"} \/ vm'[v].exec = "dead"
  BY DEF NoneStored, Finished, Exited
<1>5. UseOwn(call[c])'
  BY <1>2, <1>3, <1>4 DEF UseOwn, Owns, Launched, Finished, Exited
<1>6. CallOwn(call[c])'
  BY <1>5, OwnByStageNext
<1> QED
  BY <1>6, Stages DEF Moves, StaysBusy, Busy, UsePc, StartPc

\* An RPC that looks up the handle of a task Nomad knows.
LEMMA UseBegins ==
    ASSUME TypeOK, Wired, OwnInv, VmsGrow, NoneStored, NEW c \in Call, NEW t \in Task,
           call[c].pc = "idle", tasks[t] # None,
           call'[c].pc \in UsePc \ {"forget", "down"},
           call'[c].task = t, call'[c].handle = tasks[t],
           call'[c].pc \in DestroyPc => NobodyBusy(t)
    PROVE  Moves(c)
<1>1. tasks[t] \in Handle /\ handle[tasks[t]].vm \in Vm /\ Owns(t, handle[tasks[t]].vm)
  BY DEF TypeOK, Wired, HandleRecord, OwnInv, StoreOwn
<1> PICK h \in Handle, v \in Vm : h = tasks[t] /\ v = handle[h].vm
  BY <1>1
<1>2. handle'[h].vm = v /\ Owns(t, v)'
  BY <1>1, GrowFacts DEF NoneStored
<1>3. UseOwn(call[c])'
  BY <1>2 DEF UseOwn, Owns, Launched
<1>4. CallOwn(call[c])'
  BY <1>3, OwnByStageNext
<1> QED
  BY <1>4, Stages DEF Moves, StaysBusy, Busy, UsePc

\* A recovery finds no handle of its VM.
LEMMA RecoverBegins ==
    ASSUME TypeOK, Wired, OwnInv, NoneStored, NEW c \in Call, NEW t \in Task,
           call[c].pc = "idle", tasks[t] = None, saved[t] # None, NobodyBusy(t),
           call'[c].pc = "reattach", call'[c].task = t, call'[c].vm = saved[t]
    PROVE  Moves(c)
<1>1. saved[t] \in Vm /\ Owns(t, saved[t])
  BY DEF TypeOK, OwnInv, SavedIsOwn
<1>2. ASSUME NEW h \in Handle, handle[h].vm = saved[t] PROVE FALSE
  <2>1. ~IsFree(h) /\ vm[handle[h].vm].task = t
    BY <1>1, <1>2 DEF IsFree, Owns
  <2>2. \E d \in Call : At(d, "down") /\ call[d].task = t
    BY <2>1, DriverAssumption DEF OwnInv, HandleOwn
  <2> QED
    BY <2>2 DEF NobodyBusy, At, Busy, DestroyPc
<1>3. RecoverOwn(call[c])'
  BY <1>2 DEF RecoverOwn, NoneStored, Monitored, Monitors
<1>4. CallOwn(call[c])'
  BY <1>3, OwnByStageNext DEF RecoverPc
<1> QED
  BY <1>4 DEF Moves, StaysBusy

\* A start finds nothing of its task.
LEMMA StartBegins ==
    ASSUME TypeOK, Wired, Fresh, OwnInv, NoneStored, NEW c \in Call, NEW t \in Task, NEW v \in Vm,
           call[c].pc = "idle", Claims(c, t, v)
    PROVE  Moves(c)
<1>1. \A w \in Vm : ~Owns(t, w)
  BY DEF Claims, Owns
<1>2. saved[t] = None
  BY <1>1 DEF TypeOK, OwnInv, SavedIsOwn
<1>3. ASSUME NEW h \in Handle, handle[h].vm = v PROVE FALSE
  <2>1. ~IsFree(h) /\ vm[handle[h].vm].task = None
    BY <1>3, HostAssumption DEF IsFree, Claims
  <2> QED
    BY <2>1 DEF OwnInv, HandleOwn
<1>4. StartOwn(call[c])'
  BY <1>2, <1>3 DEF Claims, StartOwn, NoneStored, Monitored, Monitors
<1>5. ASSUME NEW d \in Call, call[d].task = t, call[d].pc \in Busy PROVE FALSE
  <2>1. CASE call[d].pc \in StartPc
    BY <1>5, <2>1, CallTypes DEF OwnInv, CallOwn, StartOwn, Claims
  <2>2. CASE call[d].pc \in RecoverPc
    BY <1>2, <1>5, <2>2, CallTypes, HostAssumption DEF OwnInv, CallOwn, RecoverOwn
  <2>3. CASE call[d].pc \in DestroyPc
    BY <1>1, <1>5, <2>3, CallTypes DEF OwnInv, CallOwn, UseOwn
  <2> QED
    BY <1>5, <2>1, <2>2, <2>3 DEF Busy
<1>6. CallOwn(call[c])'
  BY <1>4, OwnByStageNext DEF Claims, StartPc
<1> QED
  BY <1>5, <1>6 DEF Moves, StaysBusy, NobodyBusy, Claims

-----------------------------------------------------------------------------
(* The steps that store nothing.                                           *)

\* A RecoverTask that cannot read the state: Nomad forgets a task nobody works on.
LEMMA UnreadKeepsOwn ==
    ASSUME TypeOK, Wired, OwnInv, NEW t \in Task, NobodyBusy(t), tasks[t] = None,
           UNCHANGED <<vm, tasks, handle, call>>, saved' = [saved EXCEPT ![t] = None]
    PROVE  OwnInv'
<1>t. saved \in [Task -> Vm \union {None}] /\ call \in [Call -> CallRecord]
  BY DEF TypeOK
<1>s. saved'[t] = None /\ \A u \in Task : u # t => saved'[u] = saved[u]
  BY <1>t
<1>1. OneStart' /\ OneMonitor' /\ Exclusive'
  BY DEF OwnInv, OneStart, OneMonitor, Exclusive, Launched, Monitors, IsFree
<1>2. SavedIsOwn'
  BY <1>s DEF OwnInv, SavedIsOwn, Owns, Launched
<1>3. StoreOwn'
  BY <1>s DEF OwnInv, StoreOwn, Owns, Launched, At
<1>4. HandleOwn'
  <2> SUFFICES ASSUME NEW h \in Handle, ~IsFree(h)
               PROVE  LET u == vm[handle[h].vm].task IN
                        /\ Launched(handle[h].vm) /\ u # None
                        /\ tasks[u] = h \/ saved'[u] = None \/ \E c \in Call : At(c, "down") /\ call[c].task = u
    BY DEF HandleOwn, IsFree, Launched, At
  <2>1. vm[handle[h].vm].task \in Task
    BY DEF IsFree, OwnInv, HandleOwn, TypeOK, HostTypeOK, HandleRecord, VmRecord
  <2> QED
    BY <1>s, <2>1 DEF OwnInv, HandleOwn
<1>5. ASSUME NEW c \in Call PROVE CallOwn(call[c])'
  <2>1. call[c].pc \in StartPc => StartOwn(call[c])'
    <3>1. call[c].pc \in StartPc => call[c].task \in Task
      BY CallTypes
    <3> QED
      BY <1>s, <3>1 DEF OwnInv, CallOwn, StartOwn, Launched, Monitored, Monitors
  <2>2. call[c].pc \in RecoverPc => RecoverOwn(call[c])'
    <3>1. call[c].pc \in RecoverPc => call[c].task \in Task /\ call[c].task # t
      BY CallTypes DEF NobodyBusy, Busy
    <3> QED
      BY <1>s, <3>1 DEF OwnInv, CallOwn, RecoverOwn, Monitored, Monitors
  <2>3. call[c].pc \in StopPc \union DestroyPc \union WaitPc => UseOwn(call[c])'
    BY DEF OwnInv, CallOwn, UseOwn, Owns, Launched, Finished, Exited
  <2> QED
    BY <2>1, <2>2, <2>3 DEF CallOwn
<1> QED
  BY <1>1, <1>2, <1>3, <1>4, <1>5 DEF OwnInv

\* RPCs as they begin.
LEMMA RpcKeepsOwn ==
    ASSUME ExitInv, OwnInv, VmsGrow, OneStart', Disciplined,
           NEW c \in Call, NEW t \in Task, Rpc(c, t)
    PROVE  OwnInv'
<1>t. TypeOK /\ Wired /\ Fresh
  BY DEF ExitInv
<1>c. call \in [Call -> CallRecord] /\ call[c].pc = "idle"
  BY <1>t DEF TypeOK, Rpc, StartTask, RecoverTask, WaitTask, StopTask, DestroyTask, Begins, At
<1>b. NotBusy(t) => NobodyBusy(t)
  BY DEF NotBusy, NobodyBusy, Busy, Disciplined
<1>0. CASE RecoverTask(c, t) /\ UNCHANGED call
  <2>1. ASSUME call' = [call EXCEPT ![c] = [IdleCall EXCEPT !.pc = "reattach", !.task = t, !.vm = saved[t]]]
        PROVE  FALSE
    <3>1. call'[c].pc = "reattach"
      BY <1>c, <2>1 DEF IdleCall
    <3> QED
      BY <1>c, <1>0, <3>1
  <2>2. saved' = [saved EXCEPT ![t] = None]
    BY <1>0, <2>1 DEF RecoverTask
  <2> QED
    BY <1>t, <1>b, <1>0, <2>2, UnreadKeepsOwn DEF RecoverTask
<1>r. SUFFICES ASSUME ~(RecoverTask(c, t) /\ UNCHANGED call) PROVE OwnInv'
  BY <1>0
<1>n. NoneStored
  BY <1>r DEF NoneStored, Rpc, StartTask, RecoverTask, WaitTask, StopTask, DestroyTask
<1>1. CASE StartTask(c, t)
  <2> PICK v \in Vm : Claims(c, t, v)
    BY <1>1, <1>t, ClaimFields
  <2>1. Moves(c)
    BY <1>t, <1>c, <1>n, StartBegins
  <2>2. \A d \in Call : call'[d] = call[d] \/ (d = c /\ Moves(d))
    BY <2>1 DEF Claims
  <2> QED
    BY <1>t, <1>n, <2>2, QuietStep
<1>2. CASE RecoverTask(c, t)
  <2>1. /\ call'[c].pc = "reattach" /\ call'[c].task = t /\ call'[c].vm = saved[t]
        /\ \A d \in Call \ {c} : call'[d] = call[d]
    <3>1. call' = [call EXCEPT ![c] = [IdleCall EXCEPT !.pc = "reattach", !.task = t, !.vm = saved[t]]]
      BY <1>2, <1>r DEF RecoverTask
    <3> QED
      BY <1>c, <3>1 DEF IdleCall
  <2>2. Moves(c)
    BY <1>2, <1>t, <1>c, <1>n, <1>b, <2>1, RecoverBegins DEF RecoverTask, Known
  <2>3. \A d \in Call : call'[d] = call[d] \/ (d = c /\ Moves(d))
    BY <2>1, <2>2
  <2> QED
    BY <1>t, <1>n, <2>3, QuietStep
<1>3. ASSUME NEW pc \in UsePc \ {"forget", "down"}, pc \in DestroyPc => NobodyBusy(t),
             tasks[t] # None, call' = [call EXCEPT ![c] = Holds(c, t, pc)]
      PROVE  OwnInv'
  <2>1. /\ call'[c].pc = pc /\ call'[c].task = t /\ call'[c].handle = tasks[t]
        /\ \A d \in Call \ {c} : call'[d] = call[d]
    BY <1>3, <1>c DEF Holds, IdleCall
  <2>2. Moves(c)
    BY <1>3, <1>t, <1>c, <1>n, <2>1, UseBegins
  <2>3. \A d \in Call : call'[d] = call[d] \/ (d = c /\ Moves(d))
    BY <2>1, <2>2
  <2> QED
    BY <1>t, <1>n, <2>3, QuietStep
<1>4. CASE WaitTask(c, t)
  BY <1>3, <1>4 DEF WaitTask, UsePc, WaitPc, DestroyPc
<1>5. CASE StopTask(c, t)
  BY <1>3, <1>5 DEF StopTask, UsePc, StopPc, DestroyPc
<1>6. ASSUME NEW force \in BOOLEAN, DestroyTask(c, t, force) PROVE OwnInv'
  <2> DEFINE pc == IF IsRunning(tasks[t]) /\ ~force THEN "refuse" ELSE "kill"
  <2>1. pc \in UsePc \ {"forget", "down"}
    BY DEF UsePc, DestroyPc
  <2>2. NobodyBusy(t) /\ tasks[t] # None /\ call' = [call EXCEPT ![c] = Holds(c, t, pc)]
    BY <1>6, <1>b DEF DestroyTask
  <2> QED
    BY <1>3, <2>1, <2>2
<1> QED
  BY <1>1, <1>2, <1>4, <1>5, <1>6 DEF Rpc

\* A start up to the launch.
LEMMA StartKeepsOwn ==
    ASSUME ExitInv, OwnInv, VmsGrow, OneStart', NEW c \in Call,
           CreateExecutor(c) \/ CreateSeed(c) \/ RaiseTap(c) \/ Materialize(c) \/ Launch(c)
    PROVE  OwnInv'
<1>t. TypeOK /\ Wired
  BY DEF ExitInv
<1>c. call \in [Call -> CallRecord] /\ call[c].pc \in Unlaunched
  BY <1>t DEF TypeOK, CreateExecutor, CreateSeed, RaiseTap, Materialize, Launch, At, Unlaunched
<1>n. NoneStored
  BY DEF NoneStored, CreateExecutor, CreateSeed, RaiseTap, Materialize, Launch
<1>v. vm \in [Vm -> VmRecord] /\ call[c].vm \in Vm
  BY <1>t, <1>c, CallTypes DEF TypeOK, HostTypeOK, Unlaunched, StartPc
<1>1. \A d \in Call \ {c} : call'[d] = call[d]
  BY <1>c DEF CreateExecutor, CreateSeed, RaiseTap, Materialize, Launch, Goto, Fails, Return
<1>2. \/ call'[c].pc = "idle"
      \/ /\ call'[c].task = call[c].task /\ call'[c].vm = call[c].vm
         /\ \/ call'[c].pc \in {"seed", "tap", "payload", "launch"}
            \/ call'[c].pc = "register" /\ vm'[call[c].vm].proc = "running"
  <2>1. CASE Launch(c)
    BY <1>c, <1>v, <2>1 DEF Launch, Goto, Fails, Return, CallRecord, VmRecord, IdleCall
  <2>2. CASE Materialize(c)
    BY <1>c, <2>2 DEF Materialize, Goto, Fails, Return, CallRecord, IdleCall
  <2>3. CASE CreateExecutor(c) \/ CreateSeed(c) \/ RaiseTap(c)
    BY <1>c, <2>3 DEF CreateExecutor, CreateSeed, RaiseTap, Goto, Fails, Return, CallRecord, IdleCall
  <2> QED
    BY <2>1, <2>2, <2>3
<1>3. Moves(c)
  <2>1. CASE call'[c].pc = "idle"
    BY <1>c, <2>1, ReturnMoves DEF Unlaunched
  <2>2. CASE call'[c].pc # "idle"
    BY <1>c, <1>t, <1>n, <1>2, <2>2, StartMoves DEF Unlaunched, StartPc
  <2> QED
    BY <2>1, <2>2
<1>4. \A d \in Call : call'[d] = call[d] \/ (d = c /\ Moves(d))
  BY <1>1, <1>3
<1> QED
  BY <1>t, <1>n, <1>4, QuietStep

\* Waits, stops, the kill of a destroy and its refusal; and the first two
\* steps of a recovery.
LEMMA UseKeepsOwn ==
    ASSUME ExitInv, OwnInv, VmsGrow, OneStart', NEW c \in Call,
           \/ WaitStep(c) \/ StopStep(c) \/ DestroyKill(c) \/ Reattach(c)
           \/ Probe(c) /\ PidExists(call[c].vm)
           \/ DestroyDown(c) /\ At(c, "refuse")
    PROVE  OwnInv'
<1>t. TypeOK /\ Wired
  BY DEF ExitInv
<1>c. call \in [Call -> CallRecord] /\ call[c].pc \notin {"reply", "down"}
  BY <1>t DEF TypeOK, WaitStep, WaitRead, WaitSend, CancelWait, WaitAbandon, StopStep, StopPoll, StopDeadline,
              DestroyKill, Reattach, Probe, DestroyDown, At
<1>n. NoneStored
  BY DEF NoneStored, WaitStep, WaitRead, WaitSend, CancelWait, WaitAbandon, StopStep, StopPoll, StopDeadline,
         DestroyKill, Reattach, Probe, DestroyDown, At
<1>1. \A d \in Call \ {c} : call'[d] = call[d]
  BY <1>c DEF WaitStep, WaitRead, WaitSend, CancelWait, WaitAbandon, StopStep, StopPoll, StopDeadline,
              DestroyKill, Reattach, Probe, DestroyDown, Goto, Return
<1>q. Moves(c) => OwnInv'
  <2> SUFFICES ASSUME Moves(c) PROVE OwnInv'
    OBVIOUS
  <2>1. \A d \in Call : call'[d] = call[d] \/ (d = c /\ Moves(d))
    BY <1>1
  <2> QED
    BY <1>t, <1>n, <2>1, QuietStep
<1>2. CASE WaitSend(c) \/ WaitAbandon(c) \/ StopStep(c) \/ DestroyDown(c)
  <2>1. call'[c].pc = "idle"
    BY <1>2, <1>c DEF WaitSend, WaitAbandon, StopStep, StopPoll, StopDeadline, DestroyDown, Return, IdleCall
  <2> QED
    BY <1>c, <1>q, <2>1, ReturnMoves
<1>3. CASE WaitRead(c) \/ CancelWait(c)
  <2>1. /\ call[c].pc \in WaitPc /\ call'[c].pc \in WaitPc
        /\ call'[c].task = call[c].task /\ call'[c].handle = call[c].handle
    BY <1>3, <1>c DEF WaitRead, CancelWait, At, Goto, WaitPc, CallRecord
  <2>2. Moves(c)
    BY <1>t, <1>n, <2>1, UseMoves DEF UsePc, WaitPc, DestroyPc
  <2> QED
    BY <1>q, <2>2
<1>4. CASE DestroyKill(c)
  <2>1. /\ call[c].pc = "kill" /\ call'[c].pc = "forget"
        /\ call'[c].task = call[c].task /\ call'[c].handle = call[c].handle
    BY <1>4, <1>c DEF DestroyKill, At, Goto, CallRecord
  <2>2. call[c].handle \in Handle /\ handle[call[c].handle].vm \in Vm /\ UseOwn(call[c])
    BY <1>t, <2>1, CallTypes DEF DestroyPc, OwnInv, CallOwn
  <2> PICK h \in Handle, v \in Vm : h = call[c].handle /\ v = handle[h].vm
    BY <2>2
  <2>3. Finished(v)'
    <3>1. CASE IsRunning(h) /\ vm[v].proc = "running"
      <4>1. vm' = Signalled(v, "KILL") /\ HostTypeOK
        BY <1>4, <1>t, <3>1 DEF DestroyKill, PidOf, TypeOK
      <4>2. vm'[v].killed
        BY <3>1, <4>1, SignalFields
      <4> QED
        BY <4>2 DEF Finished
    <3>2. CASE vm[v].proc # "running"
      <4>1. Exited(v)
        BY <1>t, <2>2, <3>2 DEF UseOwn, Owns, Launched, Exited, TypeOK, HostTypeOK, VmRecord, ProcState
      <4> QED
        BY <4>1, GrowFacts DEF Finished
    <3>3. CASE ~IsRunning(h)
      <4>1. TrueEnd(v, handle[h].exitResult)
        BY <3>3, HostAssumption DEF ExitInv, Recorded, IsFree
      <4>2. Finished(v)
        BY <4>1 DEF TrueEnd, Finished
      <4> QED
        BY <4>2, GrowFacts
    <3> QED
      BY <3>1, <3>2, <3>3
  <2>4. handle'[call'[c].handle].vm = v
    BY <1>4, <2>1 DEF DestroyKill
  <2>5. Finished(handle[call[c].handle].vm)'
    BY <2>3, <2>4 DEF Finished, Exited
  <2>6. Moves(c)
    BY <1>t, <1>n, <2>1, <2>5, UseMoves DEF UsePc, DestroyPc
  <2> QED
    BY <1>q, <2>6
<1>5. CASE Reattach(c) \/ (Probe(c) /\ PidExists(call[c].vm))
  <2>1. /\ call[c].pc \in RecoverPc /\ call'[c].pc \in RecoverPc
        /\ call'[c].task = call[c].task /\ call'[c].vm = call[c].vm
    BY <1>5, <1>c DEF Reattach, Probe, At, Goto, RecoverPc, CallRecord
  <2>2. Moves(c)
    BY <1>t, <1>n, <2>1, RecoverMoves
  <2> QED
    BY <1>q, <2>2
<1> QED
  BY <1>2, <1>3, <1>4, <1>5 DEF WaitStep

\* Nobody moves and nothing is stored: the host, a signal, run, the restart.
LEMMA StillKeepsOwn ==
    ASSUME ExitInv, OwnInv, VmsGrow, OneStart', UNCHANGED <<tasks, call, saved>>,
           UNCHANGED handle \/ \E h \in Handle : RunStep(h)
    PROVE  OwnInv'
<1>1. TypeOK /\ Wired
  BY DEF ExitInv
<1>2. NoneStored
  <2>1. CASE UNCHANGED handle
    BY <2>1 DEF NoneStored
  <2>2. ASSUME NEW h \in Handle, RunStep(h), NEW g \in Handle PROVE handle'[g].vm = handle[g].vm
    <3>1. handle \in [Handle -> HandleRecord]
      BY <1>1 DEF TypeOK
    <3> QED
      BY <2>2, <3>1 DEF RunStep, RecordExit, CloseDone, HandleRecord
  <2> QED
    BY <2>1, <2>2 DEF NoneStored
<1>3. \A d \in Call : call'[d] = call[d] \/ (d = None /\ Moves(d))
  OBVIOUS
<1> QED
  BY <1>1, <1>2, <1>3, QuietStep

-----------------------------------------------------------------------------
(* The steps that store, save or forget.                                   *)

\* What is left to show of such a step.
LEMMA ApartStep ==
    ASSUME ExitInv, OwnInv, UNCHANGED vm, NEW c \in Call, call[c].pc \in Busy,
           HandlesFor(call[c].task), TableFor(call[c].task),
           \A d \in Call \ {c} : call'[d] = call[d],
           StaysBusy(c), CallOwn(call[c])',
           SavedIsOwn', StoreOwn', HandleOwn', OneMonitor'
    PROVE  OwnInv'
<1>1. VmsGrow /\ OneStart'
  BY DEF VmsGrow, OwnInv, OneStart, Launched, Finished, Exited
<1>2. Exclusive'
  BY ExclusiveStep DEF OwnInv
<1>3. CallsOwn /\ TypeOK /\ Wired /\ Fresh
  BY DEF OwnInv, CallsOwn, ExitInv
<1>4. \A d \in Call : CallOwn(call[d])'
  BY <1>1, <1>3, OthersApart DEF OwnInv
<1> QED
  BY <1>1, <1>2, <1>4 DEF OwnInv

\* A handle of a VM that has none enters the store.
EntersStore(c, h, v) ==
    /\ IsFree(h) /\ handle'[h].vm = v
    /\ \A g \in Handle \ {h} : handle'[g] = handle[g]
    /\ tasks' = [tasks EXCEPT ![call[c].task] = h]
    /\ \A d \in Call \ {c} : call'[d] = call[d]
    /\ UNCHANGED <<vm, saved>>

\* The VM had no handle before and belongs to the task it is stored for.
LEMMA EntersKeepsOwn ==
    ASSUME ExitInv, OwnInv, NEW c \in Call, call[c].pc \in {"register", "adopt"},
           NEW h \in Handle, NEW v \in Vm, EntersStore(c, h, v),
           Owns(call[c].task, v), ~Monitored(v),
           saved[call[c].task] = v \/ (call'[c].pc = "reply" /\ call'[c].vm = v),
           StaysBusy(c), CallOwn(call[c])'
    PROVE  OwnInv'
<1>t. TypeOK /\ Wired
  BY DEF ExitInv
<1>1. call[c].pc \in Busy /\ call[c].task \in Task
  BY <1>t, CallTypes DEF Busy, StartPc, RecoverPc
<1> PICK t \in Task : t = call[c].task
  BY <1>1
<1>2. tasks'[t] = h /\ \A u \in Task : u # t => tasks'[u] = tasks[u]
  BY <1>t DEF EntersStore, TypeOK
<1>3. \A g \in Handle : /\ g # h => handle'[g].vm = handle[g].vm
                        /\ handle[g].vm # None => g # h
  BY DEF EntersStore, IsFree
<1>4. v # None /\ vm[v].task = t /\ Launched(v) /\ \A g \in Handle : handle[g].vm # v
  BY HostAssumption DEF Owns, Monitored, Monitors
<1>5. HandlesFor(t) /\ TableFor(t)
  <2>1. KeepsVms
    BY <1>3, HostAssumption DEF KeepsVms
  <2>2. ASSUME NEW g \in Handle, handle'[g].vm # None
        PROVE  handle'[g].vm = handle[g].vm \/ vm[handle'[g].vm].task = t
    BY <1>3, <1>4 DEF EntersStore
  <2> QED
    BY <1>2, <2>1, <2>2 DEF HandlesFor, TableFor, EntersStore
<1>6. SavedIsOwn'
  BY DEF OwnInv, SavedIsOwn, EntersStore, Owns, Launched
<1>7. StoreOwn'
  <2> SUFFICES ASSUME NEW u \in Task, tasks'[u] # None
               PROVE  LET w == handle'[tasks'[u]].vm IN
                        /\ vm[w].task = u /\ vm[w].proc # "none"
                        /\ saved[u] = w \/ \E d \in Call : call'[d].pc = "reply" /\ call'[d].vm = w
    BY DEF StoreOwn, EntersStore, At, Owns, Launched
  <2>1. CASE u = t
    BY <1>2, <1>4, <2>1 DEF EntersStore, Launched
  <2>2. CASE u # t
    <3>1. tasks[u] \in Handle /\ handle[tasks[u]].vm # None
      BY <1>t, <1>2, <2>2 DEF TypeOK, Wired
    <3>2. handle'[tasks'[u]].vm = handle[tasks[u]].vm
      BY <1>2, <1>3, <2>2, <3>1
    <3>3. /\ Owns(u, handle[tasks[u]].vm)
          /\ \/ saved[u] = handle[tasks[u]].vm
             \/ \E d \in Call : At(d, "reply") /\ call[d].vm = handle[tasks[u]].vm
      BY <1>2, <2>2 DEF OwnInv, StoreOwn
    <3> QED
      BY <3>2, <3>3 DEF EntersStore, Owns, Launched, At
  <2> QED
    BY <2>1, <2>2
<1>8. HandleOwn'
  <2> SUFFICES ASSUME NEW g \in Handle, handle'[g].vm # None, g # h
               PROVE  LET u == vm[handle[g].vm].task IN
                        /\ vm[handle[g].vm].proc # "none" /\ u # None
                        /\ tasks'[u] = g \/ saved[u] = None
                           \/ \E d \in Call : call'[d].pc = "down" /\ call'[d].task = u
    <3>1. vm[v].proc # "none" /\ vm[v].task # None /\ tasks'[vm[v].task] = h
      BY <1>2, <1>4, HostAssumption DEF Launched
    <3> QED
      BY <1>3, <3>1 DEF HandleOwn, EntersStore, At, IsFree, Launched
  <2>1. handle[g].vm \in Vm
    BY <1>t, <1>3 DEF TypeOK, HandleRecord
  <2> PICK w \in Vm : w = handle[g].vm
    BY <2>1
  <2>2. LET u == vm[w].task IN
          /\ Launched(w) /\ u # None
          /\ tasks[u] = g \/ saved[u] = None \/ \E d \in Call : At(d, "down") /\ call[d].task = u
    BY HostAssumption DEF OwnInv, HandleOwn, IsFree
  <2>3. vm[w].task # t
    BY <1>4, <2>2 DEF OwnInv, OneStart
  <2>4. vm[w].task \in Task
    BY <1>t, <2>2 DEF TypeOK, HostTypeOK, VmRecord
  <2> QED
    BY <1>2, <2>2, <2>3, <2>4 DEF At, EntersStore, Launched
<1>9. OneMonitor'
  BY <1>3, <1>4 DEF OwnInv, OneMonitor, Monitors, IsFree, EntersStore
<1> QED
  BY <1>1, <1>5, <1>6, <1>7, <1>8, <1>9, ApartStep DEF EntersStore

\* Nomad gives up a task that is not in the store.
GivesUp(c) ==
    /\ saved' = [saved EXCEPT ![call[c].task] = None]
    /\ \A d \in Call \ {c} : call'[d] = call[d]
    /\ call'[c].pc = "idle"
    /\ UNCHANGED <<vm, tasks, handle>>

\* Nobody in the store or in a call counted on that copy.
LEMMA GivesUpKeepsOwn ==
    ASSUME ExitInv, OwnInv, NEW c \in Call, call[c].pc \in {"probe", "down"}, GivesUp(c)
    PROVE  OwnInv'
<1>t. TypeOK /\ Wired
  BY DEF ExitInv
<1>1. call[c].pc \in Busy /\ call[c].task \in Task
  BY <1>t, CallTypes DEF Busy, DestroyPc, RecoverPc
<1> PICK t \in Task : t = call[c].task
  BY <1>1
<1>2. tasks[t] = None
  BY DEF OwnInv, CallOwn, RecoverOwn, UseOwn, RecoverPc, DestroyPc
<1>3. saved'[t] = None /\ \A u \in Task : u # t => saved'[u] = saved[u]
  BY <1>t DEF GivesUp, TypeOK
<1>4. HandlesFor(t) /\ TableFor(t)
  BY <1>3 DEF HandlesFor, KeepsVms, TableFor, GivesUp
<1>5. SavedIsOwn'
  BY <1>3 DEF OwnInv, SavedIsOwn, Owns, Launched, GivesUp
<1>6. StoreOwn'
  <2> SUFFICES ASSUME NEW u \in Task, tasks[u] # None
               PROVE  LET w == handle[tasks[u]].vm IN
                        /\ Owns(u, w)
                        /\ saved'[u] = w \/ \E d \in Call : call'[d].pc = "reply" /\ call'[d].vm = w
    BY DEF StoreOwn, GivesUp, At, Owns, Launched
  <2> QED
    BY <1>2, <1>3 DEF OwnInv, StoreOwn, GivesUp, At
<1>7. HandleOwn'
  <2> SUFFICES ASSUME NEW h \in Handle, ~IsFree(h)
               PROVE  LET u == vm[handle[h].vm].task IN
                        /\ Launched(handle[h].vm) /\ u # None
                        /\ \/ tasks[u] = h \/ saved'[u] = None
                           \/ \E d \in Call : call'[d].pc = "down" /\ call'[d].task = u
    BY DEF HandleOwn, GivesUp, At, Launched, IsFree
  <2>1. LET u == vm[handle[h].vm].task IN
          /\ Launched(handle[h].vm) /\ u # None
          /\ tasks[u] = h \/ saved[u] = None \/ \E d \in Call : At(d, "down") /\ call[d].task = u
    BY DEF OwnInv, HandleOwn
  <2>2. vm[handle[h].vm].task \in Task
    BY <1>t, <2>1 DEF TypeOK, HandleRecord, HostTypeOK, VmRecord, IsFree
  <2> QED
    BY <1>3, <2>1, <2>2 DEF GivesUp, At
<1>8. OneMonitor'
  BY DEF OwnInv, OneMonitor, Monitors, IsFree, GivesUp
<1>9. StaysBusy(c) /\ CallOwn(call[c])'
  BY OwnByStageNext DEF GivesUp, StaysBusy, Busy, StartPc, RecoverPc, DestroyPc
<1> QED
  BY <1>1, <1>4, <1>5, <1>6, <1>7, <1>8, <1>9, ApartStep DEF GivesUp

\* Register and Adopt.
LEMMA PublishKeepsOwn ==
    ASSUME ExitInv, OwnInv, NEW c \in Call, Register(c) \/ Adopt(c)
    PROVE  OwnInv'
<1>t. TypeOK /\ Wired
  BY DEF ExitInv
<1>c. call \in [Call -> CallRecord] /\ handle \in [Handle -> HandleRecord]
  BY <1>t DEF TypeOK
<1>1. /\ call[c].pc \in {"register", "adopt"}
      /\ call[c].task \in Task /\ call[c].vm \in Vm
      /\ UNCHANGED <<vm, saved>> /\ \A d \in Call \ {c} : call'[d] = call[d]
  BY <1>t, <1>c, CallTypes DEF Register, Adopt, At, Goto, Return, Fails, StartPc, RecoverPc
<1> PICK t \in Task, v \in Vm : t = call[c].task /\ v = call[c].vm
  BY <1>1
<1>2. ASSUME NEW h \in Handle, Publish(c, h),
             NEW r \in HandleRecord, r.vm = v, handle' = [handle EXCEPT ![h] = r]
      PROVE  EntersStore(c, h, v)
  BY <1>c, <1>1, <1>2 DEF EntersStore, Publish
<1>3. CASE Register(c) /\ call'[c].pc # "idle"
  <2>1. call'[c].pc = "reply" /\ call'[c].task = t /\ call'[c].vm = v
    BY <1>c, <1>3 DEF Register, Goto, Fails, Return, IdleCall, CallRecord
  <2>2. Owns(t, v) /\ ~Monitored(v) /\ saved[t] = None
    BY <1>3 DEF Register, At, OwnInv, CallOwn, StartOwn, StartPc, Owns
  <2> PICK h \in Handle :
        /\ Publish(c, h)
        /\ handle' = [handle EXCEPT ![h] = [FreeHandle EXCEPT !.vm = call[c].vm, !.exec = TRUE,
                                                              !.cfg = call[c].cfg]]
    BY <1>c, <1>3 DEF Register, Fails, Return, IdleCall
  <2>3. EntersStore(c, h, v)
    BY <1>c, <1>1 DEF EntersStore, Publish, FreeHandle
  <2>4. StartOwn(call[c])'
    <3>1. tasks'[t] = h /\ handle'[h].vm = v /\ h # None /\ vm' = vm /\ saved' = saved
      BY <1>t, <2>3, DriverAssumption DEF EntersStore, TypeOK
    <3>2. vm'[v].task = t /\ saved'[t] = None /\ vm'[v].proc # "none"
      BY <2>2, <3>1 DEF Owns, Launched
    <3> QED
      BY <2>1, <3>1, <3>2 DEF StartOwn, Monitors, Launched
  <2>5. StaysBusy(c) /\ CallOwn(call[c])'
    BY <1>3, <2>1, <2>4, OwnByStageNext DEF StaysBusy, Busy, StartPc, Register, At
  <2> QED
    BY <1>1, <2>1, <2>2, <2>3, <2>5, EntersKeepsOwn
<1>4. CASE Register(c) /\ call'[c].pc = "idle"
  <2>1. UNCHANGED <<vm, tasks, handle, saved>>
    BY <1>c, <1>4 DEF Register, Goto, CallRecord
  <2>2. NoneStored /\ VmsGrow /\ OneStart'
    BY <2>1 DEF NoneStored, VmsGrow, OwnInv, OneStart, Launched, Finished, Exited
  <2>3. Moves(c)
    BY <1>4, ReturnMoves DEF Register, At
  <2>4. \A d \in Call : call'[d] = call[d] \/ (d = c /\ Moves(d))
    BY <1>1, <2>3
  <2> QED
    BY <1>t, <2>2, <2>4, QuietStep
<1>5. CASE Adopt(c)
  <2>1. call'[c].pc = "idle"
    BY <1>c, <1>5 DEF Adopt, Return, IdleCall
  <2>2. saved[t] = v /\ ~Monitored(v)
    BY <1>5 DEF Adopt, At, OwnInv, CallOwn, RecoverOwn, RecoverPc
  <2>3. Owns(t, v)
    BY <2>2, HostAssumption DEF OwnInv, SavedIsOwn
  <2> PICK h \in Handle :
        /\ Publish(c, h)
        /\ handle' = [handle EXCEPT ![h] = [FreeHandle EXCEPT !.vm = call[c].vm, !.exec = call[c].exec,
                                                              !.exitResult = "zero"]]
    BY <1>5 DEF Adopt
  <2>4. EntersStore(c, h, v)
    BY <1>c, <1>1 DEF EntersStore, Publish, FreeHandle
  <2>5. StaysBusy(c) /\ CallOwn(call[c])'
    BY <2>1, OwnByStageNext DEF StaysBusy, Busy, StartPc, RecoverPc, DestroyPc
  <2> QED
    BY <1>1, <2>2, <2>3, <2>4, <2>5, EntersKeepsOwn
<1> QED
  BY <1>3, <1>4, <1>5

\* The answer to StartTask.
LEMMA ReplyKeepsOwn ==
    ASSUME ExitInv, OwnInv, NEW c \in Call, Reply(c)
    PROVE  OwnInv'
<1>t. TypeOK /\ Wired
  BY DEF ExitInv
<1>1. /\ call[c].pc = "reply" /\ call[c].task \in Task /\ call[c].vm \in Vm /\ StartOwn(call[c])
      /\ call'[c].pc = "idle" /\ \A d \in Call \ {c} : call'[d] = call[d]
      /\ UNCHANGED <<vm, tasks, handle>>
  BY <1>t, CallTypes DEF Reply, At, Return, IdleCall, StartPc, TypeOK, OwnInv, CallOwn
<1> PICK t \in Task, v \in Vm : t = call[c].task /\ v = call[c].vm
  BY <1>1
<1>2. saved'[t] = v /\ \A u \in Task : u # t => saved'[u] = saved[u]
  BY <1>t DEF Reply, TypeOK
<1>3. Owns(t, v) /\ tasks[t] # None /\ handle[tasks[t]].vm = v
  BY <1>1 DEF StartOwn, Owns, Monitors
<1>4. HandlesFor(t) /\ TableFor(t)
  BY <1>1, <1>2 DEF HandlesFor, KeepsVms, TableFor
<1>5. SavedIsOwn'
  <2> SUFFICES ASSUME NEW u \in Task, saved'[u] # None PROVE Owns(u, saved'[u])
    BY <1>1 DEF SavedIsOwn, Owns, Launched
  <2> QED
    BY <1>2, <1>3 DEF OwnInv, SavedIsOwn
<1>6. StoreOwn'
  <2> SUFFICES ASSUME NEW u \in Task, tasks[u] # None
               PROVE  LET w == handle[tasks[u]].vm IN
                        /\ Owns(u, w)
                        /\ saved'[u] = w \/ \E d \in Call : call'[d].pc = "reply" /\ call'[d].vm = w
    BY <1>1 DEF StoreOwn, At, Owns, Launched
  <2>1. LET w == handle[tasks[u]].vm IN
          /\ Owns(u, w)
          /\ saved[u] = w \/ \E d \in Call : At(d, "reply") /\ call[d].vm = w
    BY DEF OwnInv, StoreOwn
  <2>2. u # t => handle[tasks[u]].vm # v
    BY <1>3, <2>1 DEF Owns
  <2> QED
    BY <1>1, <1>2, <1>3, <2>1, <2>2 DEF At
<1>7. HandleOwn'
  <2> SUFFICES ASSUME NEW h \in Handle, ~IsFree(h)
               PROVE  LET u == vm[handle[h].vm].task IN
                        /\ Launched(handle[h].vm) /\ u # None
                        /\ \/ tasks[u] = h \/ saved'[u] = None
                           \/ \E d \in Call : call'[d].pc = "down" /\ call'[d].task = u
    BY <1>1 DEF HandleOwn, At, Launched, IsFree
  <2>1. handle[h].vm \in Vm
    BY <1>t DEF TypeOK, HandleRecord, IsFree
  <2>2. LET u == vm[handle[h].vm].task IN
          /\ Launched(handle[h].vm) /\ u # None
          /\ tasks[u] = h \/ saved[u] = None \/ \E d \in Call : At(d, "down") /\ call[d].task = u
    BY DEF OwnInv, HandleOwn
  <2>3. vm[handle[h].vm].task \in Task
    BY <1>t, <2>1, <2>2 DEF TypeOK, HostTypeOK, VmRecord
  <2>4. ASSUME vm[handle[h].vm].task = t PROVE tasks[t] = h
    <3>1. handle[h].vm = v
      BY <1>3, <2>1, <2>2, <2>4 DEF OwnInv, OneStart, Owns
    <3>2. tasks[t] \in Handle /\ ~IsFree(tasks[t])
      BY <1>t, <1>3, HostAssumption DEF TypeOK, IsFree
    <3> QED
      BY <1>3, <3>1, <3>2 DEF OwnInv, OneMonitor, Monitors
  <2> QED
    BY <1>1, <1>2, <2>2, <2>3, <2>4 DEF At
<1>8. OneMonitor'
  BY <1>1 DEF OwnInv, OneMonitor, Monitors, IsFree
<1>9. StaysBusy(c) /\ CallOwn(call[c])' /\ call[c].pc \in Busy
  BY <1>1, OwnByStageNext DEF StaysBusy, Busy, StartPc, RecoverPc, DestroyPc
<1> QED
  BY <1>1, <1>4, <1>5, <1>6, <1>7, <1>8, <1>9, ApartStep

\* A destroy deletes its task from the store.
LEMMA ForgetKeepsOwn ==
    ASSUME ExitInv, OwnInv, NEW c \in Call, DestroyForget(c)
    PROVE  OwnInv'
<1>t. TypeOK /\ Wired
  BY DEF ExitInv
<1>1. /\ call[c].pc = "forget" /\ call[c].task \in Task /\ call[c].handle \in Handle
      /\ UseOwn(call[c])
      /\ call'[c].pc = "down" /\ call'[c].task = call[c].task /\ call'[c].handle = call[c].handle
      /\ \A d \in Call \ {c} : call'[d] = call[d]
      /\ UNCHANGED <<vm, saved, handle>>
  BY <1>t, CallTypes DEF DestroyForget, At, Goto, CallRecord, DestroyPc, TypeOK, OwnInv, CallOwn
<1> PICK t \in Task, h \in Handle : t = call[c].task /\ h = call[c].handle
  BY <1>1
<1>2. tasks'[t] = None /\ \A u \in Task : u # t => tasks'[u] = tasks[u]
  BY <1>t DEF DestroyForget, TypeOK
<1>3. HandlesFor(t) /\ TableFor(t)
  BY <1>1, <1>2 DEF HandlesFor, KeepsVms, TableFor
<1>4. SavedIsOwn'
  BY <1>1 DEF OwnInv, SavedIsOwn, Owns, Launched
<1>5. StoreOwn'
  <2> SUFFICES ASSUME NEW u \in Task, tasks'[u] # None
               PROVE  LET w == handle[tasks'[u]].vm IN
                        /\ Owns(u, w)
                        /\ saved[u] = w \/ \E d \in Call : call'[d].pc = "reply" /\ call'[d].vm = w
    BY <1>1 DEF StoreOwn, At, Owns, Launched
  <2> QED
    BY <1>1, <1>2 DEF OwnInv, StoreOwn, At
<1>6. HandleOwn'
  <2> SUFFICES ASSUME NEW g \in Handle, ~IsFree(g)
               PROVE  LET u == vm[handle[g].vm].task IN
                        /\ Launched(handle[g].vm) /\ u # None
                        /\ \/ tasks'[u] = g \/ saved[u] = None
                           \/ \E d \in Call : call'[d].pc = "down" /\ call'[d].task = u
    BY <1>1 DEF HandleOwn, At, Launched, IsFree
  <2>1. LET u == vm[handle[g].vm].task IN
          /\ Launched(handle[g].vm) /\ u # None
          /\ tasks[u] = g \/ saved[u] = None \/ \E d \in Call : At(d, "down") /\ call[d].task = u
    BY DEF OwnInv, HandleOwn
  <2>2. vm[handle[g].vm].task \in Task
    BY <1>t, <2>1 DEF TypeOK, HandleRecord, HostTypeOK, VmRecord, IsFree
  <2> QED
    BY <1>1, <1>2, <2>1, <2>2 DEF At
<1>7. OneMonitor'
  BY <1>1 DEF OwnInv, OneMonitor, Monitors, IsFree
<1>8. UseOwn(call[c])'
  <2>1. Owns(t, handle[h].vm) /\ Finished(handle[h].vm)
    BY <1>1 DEF UseOwn
  <2> QED
    BY <1>1, <1>2, <2>1 DEF UseOwn, Owns, Launched, Finished, Exited
<1>9. StaysBusy(c) /\ CallOwn(call[c])' /\ call[c].pc \in Busy
  <2>1. CallOwn(call[c])'
    BY <1>1, <1>8, OwnByStageNext DEF UsePc, DestroyPc
  <2> QED
    BY <1>1, <2>1 DEF StaysBusy, Busy, StartPc, DestroyPc
<1> QED
  BY <1>1, <1>3, <1>4, <1>5, <1>6, <1>7, <1>9, ApartStep

\* The plugin dies.
LEMMA LossKeepsOwn ==
    ASSUME ExitInv, OwnInv, LosesMemory
    PROVE  OwnInv'
<1>1. /\ \A t \in Task : tasks'[t] = None
      /\ \A h \in Handle : handle'[h].vm = None
      /\ \A c \in Call : call'[c].pc = "idle"
      /\ UNCHANGED <<vm, saved>>
  BY DEF LosesMemory, FreeHandle, IdleCall
<1>2. OneStart' /\ SavedIsOwn'
  BY <1>1 DEF OwnInv, OneStart, SavedIsOwn, Owns, Launched
<1>3. StoreOwn' /\ HandleOwn' /\ OneMonitor'
  BY <1>1 DEF StoreOwn, HandleOwn, OneMonitor, IsFree
<1>4. Exclusive' /\ \A c \in Call : CallOwn(call[c])'
  BY <1>1, OwnByStageNext DEF Exclusive, RecoverPc, DestroyPc
<1> QED
  BY <1>2, <1>3, <1>4 DEF OwnInv

-----------------------------------------------------------------------------
(* The invariant.                                                          *)

\* Every step of the driver and its host keeps it.
LEMMA OwnStep ==
    ASSUME Disciplined, ExitInv, OwnInv, [Next]_vars
    PROVE  OwnInv'
<1>g. VmsGrow /\ OneStart'
  BY VmsOnlyGrow DEF ExitInv, OwnInv
<1>t. TypeOK
  BY DEF ExitInv
<1>1. ASSUME NEW c \in Call, NEW t \in Task, Rpc(c, t) PROVE OwnInv'
  BY <1>1, <1>g, RpcKeepsOwn
<1>2. ASSUME NEW t \in Task, SignalTask(t) PROVE OwnInv'
  BY <1>2, <1>g, StillKeepsOwn DEF SignalTask
<1>3. ASSUME NEW c \in Call, StartStep(c) PROVE OwnInv'
  BY <1>3, <1>g, StartKeepsOwn, PublishKeepsOwn, ReplyKeepsOwn DEF StartStep
<1>4. ASSUME NEW c \in Call, RecoverStep(c) PROVE OwnInv'
  <2>1. CASE Probe(c) /\ ~PidExists(call[c].vm)
    <3>1. GivesUp(c) /\ call[c].pc = "probe"
      BY <1>t, <2>1 DEF Probe, GivesUp, Return, IdleCall, At, TypeOK
    <3> QED
      BY <3>1, GivesUpKeepsOwn
  <2> QED
    BY <1>4, <1>g, <2>1, UseKeepsOwn, PublishKeepsOwn DEF RecoverStep
<1>5. ASSUME NEW c \in Call, WaitStep(c) \/ StopStep(c) PROVE OwnInv'
  BY <1>5, <1>g, UseKeepsOwn
<1>6. ASSUME NEW c \in Call, DestroyStep(c) PROVE OwnInv'
  <2>1. CASE DestroyDown(c) /\ At(c, "down")
    <3>1. GivesUp(c) /\ call[c].pc = "down"
      BY <1>t, <2>1 DEF DestroyDown, GivesUp, Return, IdleCall, At, TypeOK
    <3> QED
      BY <3>1, GivesUpKeepsOwn
  <2>2. CASE DestroyDown(c) /\ At(c, "refuse")
    BY <1>g, <2>2, UseKeepsOwn
  <2>3. DestroyDown(c) => At(c, "down") \/ At(c, "refuse")
    BY DEF DestroyDown, At
  <2> QED
    BY <1>6, <1>g, <2>1, <2>2, <2>3, UseKeepsOwn, ForgetKeepsOwn DEF DestroyStep
<1>7. ASSUME NEW h \in Handle, RunStep(h) PROVE OwnInv'
  BY <1>7, <1>g, StillKeepsOwn DEF RunStep, RecordExit, CloseDone
<1>8. CASE LosesMemory
  BY <1>8, LossKeepsOwn
<1>9. CASE PluginRestart \/ (HostNext /\ UNCHANGED <<tasks, handle, call, up, saved>>) \/ UNCHANGED vars
  BY <1>9, <1>g, StillKeepsOwn DEF PluginRestart, vars
<1> QED
  BY <1>1, <1>2, <1>3, <1>4, <1>5, <1>6, <1>7, <1>8, <1>9 DEF Next, RunPanics, PluginCrash

\* At the start nobody owns anything.
LEMMA InitOwn == Init => OwnInv
<1> SUFFICES ASSUME Init PROVE OwnInv
  OBVIOUS
<1>1. /\ \A v \in Vm : vm[v].task = None /\ ~vm[v].killed
      /\ \A t \in Task : tasks[t] = None /\ saved[t] = None
      /\ \A h \in Handle : handle[h].vm = None
      /\ \A c \in Call : call[c].pc = "idle"
  BY DEF Init, HostInit, FreeHandle, IdleCall
<1>2. OneStart /\ SavedIsOwn /\ StoreOwn
  BY <1>1 DEF OneStart, SavedIsOwn, StoreOwn
<1>3. HandleOwn /\ OneMonitor
  BY <1>1 DEF HandleOwn, OneMonitor, IsFree
<1>4. Exclusive /\ \A c \in Call : CallOwn(call[c])
  BY <1>1, OwnByStage DEF Exclusive, RecoverPc, DestroyPc
<1> QED
  BY <1>2, <1>3, <1>4 DEF OwnInv

\* Nomad, the store and every goroutine agree on the VM of a task.
THEOREM OwnInvariant ==
    ASSUME Disciplined
    PROVE  Spec => []OwnInv
<1>1. ExitInv /\ OwnInv /\ [Next]_vars => OwnInv'
  BY OwnStep
<1> QED
  BY <1>1, InitOwn, ExitInvariant, PTL DEF Spec

\* One run() goroutine waits on each VM, over any number of recoveries.
THEOREM OneMonitorHolds ==
    ASSUME Disciplined
    PROVE  Spec => []OneMonitor
<1>1. OwnInv => OneMonitor
  BY DEF OwnInv
<1> QED
  BY <1>1, OwnInvariant, PTL

-----------------------------------------------------------------------------
(* What Nomad holds, and what is lost.                                     *)

\* The four steps that touch Nomad's copies.
LEMMA SavedChanges ==
    ASSUME TypeOK, [Next]_vars
    PROVE  \/ UNCHANGED saved
           \/ "badState" \in Hazards /\ \E t \in Task : saved' = [saved EXCEPT ![t] = None]
           \/ \E c \in Call : Reply(c)
           \/ \E c \in Call : Probe(c) /\ ~PidExists(call[c].vm) /\ GivesUp(c)
           \/ \E c \in Call : DestroyDown(c) /\ At(c, "down") /\ GivesUp(c)
<1>1. ASSUME NEW c \in Call, Probe(c), ~UNCHANGED saved
      PROVE  ~PidExists(call[c].vm) /\ GivesUp(c)
  BY <1>1 DEF Probe, GivesUp, Return, IdleCall, TypeOK
<1>2. ASSUME NEW c \in Call, DestroyDown(c), ~UNCHANGED saved
      PROVE  At(c, "down") /\ GivesUp(c)
  BY <1>2 DEF DestroyDown, GivesUp, Return, IdleCall, TypeOK
<1>3. ASSUME NEW c \in Call, NEW t \in Task, Rpc(c, t)
      PROVE  UNCHANGED saved \/ ("badState" \in Hazards /\ saved' = [saved EXCEPT ![t] = None])
  BY <1>3 DEF Rpc, StartTask, RecoverTask, WaitTask, StopTask, DestroyTask
<1>4. ASSUME NEW c \in Call, StartStep(c), ~Reply(c) PROVE UNCHANGED saved
  BY <1>4 DEF StartStep, CreateExecutor, CreateSeed, RaiseTap, Materialize, Launch, Register
<1>5. ASSUME NEW c \in Call, WaitStep(c) \/ StopStep(c) \/ Reattach(c) \/ Adopt(c) PROVE UNCHANGED saved
  BY <1>5 DEF WaitStep, WaitRead, WaitSend, CancelWait, WaitAbandon, StopStep, StopPoll, StopDeadline,
              Reattach, Adopt
<1>6. ASSUME NEW c \in Call, DestroyKill(c) \/ DestroyForget(c) PROVE UNCHANGED saved
  BY <1>6 DEF DestroyKill, DestroyForget
<1>7. (\E h \in Handle : RunStep(h)) \/ LosesMemory \/ PluginRestart \/ (\E t \in Task : SignalTask(t))
        => UNCHANGED saved
  BY DEF RunStep, RecordExit, CloseDone, LosesMemory, PluginRestart, SignalTask
<1> QED
  BY <1>1, <1>2, <1>3, <1>4, <1>5, <1>6, <1>7
  DEF Next, vars, RecoverStep, DestroyStep, RunPanics, PluginCrash

\* Nomad gives up the VM of a task only when it is finished.
LEMMA GivesUpFinished ==
    ASSUME ExitInv, OwnInv, NEW c \in Call,
           (Probe(c) /\ ~PidExists(call[c].vm)) \/ (DestroyDown(c) /\ At(c, "down")),
           saved[call[c].task] # None
    PROVE  /\ call[c].task \in Task /\ saved[call[c].task] \in Vm
           /\ Launched(saved[call[c].task]) /\ Finished(saved[call[c].task])
<1>t. TypeOK /\ Wired
  BY DEF ExitInv
<1>1. call[c].task \in Task
  BY <1>t, CallTypes DEF Probe, At, RecoverPc, DestroyPc
<1> PICK t \in Task : t = call[c].task
  BY <1>1
<1>2. saved[t] \in Vm /\ Owns(t, saved[t])
  BY <1>t DEF TypeOK, OwnInv, SavedIsOwn
<1>3. CASE Probe(c) /\ ~PidExists(call[c].vm)
  <2>1. call[c].vm = saved[t]
    BY <1>3 DEF Probe, At, OwnInv, CallOwn, RecoverOwn, RecoverPc
  <2> QED
    BY <1>t, <1>2, <1>3, <2>1 DEF PidExists, Owns, Launched, Finished, Exited, TypeOK, HostTypeOK, VmRecord, ProcState
<1>4. CASE DestroyDown(c) /\ At(c, "down")
  <2>1. UseOwn(call[c]) /\ handle[call[c].handle].vm \in Vm
    BY <1>t, <1>4, CallTypes DEF At, OwnInv, CallOwn, DestroyPc
  <2>2. Owns(t, handle[call[c].handle].vm) /\ Finished(handle[call[c].handle].vm)
    BY <1>4, <2>1 DEF UseOwn, At
  <2>3. handle[call[c].handle].vm = saved[t]
    BY <1>2, <2>1, <2>2, HostAssumption DEF OwnInv, OneStart, Owns
  <2> QED
    BY <1>2, <2>2, <2>3 DEF Owns
<1> QED
  BY <1>3, <1>4

\* So what Nomad holds changes only when its VM is finished.
LEMMA SavedStep ==
    ASSUME StateReadable, ExitInv, OwnInv, [Next]_vars, NEW t \in Task, saved[t] # None, saved'[t] # saved[t]
    PROVE  Finished(saved[t])
<1>1. ASSUME NEW c \in Call, Reply(c) PROVE FALSE
  <2>1. call[c].task \in Task /\ saved[call[c].task] = None
    BY <1>1, CallTypes DEF Reply, At, OwnInv, CallOwn, StartOwn, StartPc, ExitInv
  <2> QED
    BY <1>1, <2>1 DEF Reply, ExitInv, TypeOK
<1>2. PICK c \in Call : /\ (Probe(c) /\ ~PidExists(call[c].vm)) \/ (DestroyDown(c) /\ At(c, "down"))
                        /\ GivesUp(c)
  BY <1>1, SavedChanges DEF ExitInv, StateReadable
<1>3. t = call[c].task
  BY <1>2 DEF GivesUp, ExitInv, TypeOK
<1> QED
  BY <1>2, <1>3, GivesUpFinished

\* Only a start launches a VM or makes its executor.
LEMMA MadeByStart ==
    ASSUME ExitInv, OwnInv, Disciplined, [Next]_vars, NEW v \in Vm,
           \/ Running(v)' /\ ~Running(v)
           \/ vm'[v].exec = "alive" /\ vm[v].exec # "alive"
    PROVE  \E c \in Call : Starting(c, v)
<1>t. HostTypeOK /\ TypeOK /\ Wired /\ Fresh
  BY DEF ExitInv, TypeOK
<1>1. ASSUME NEW c \in Call, NEW t \in Task, StartTask(c, t) PROVE FALSE
  BY <1>1, <1>t, ClaimFields DEF Claims, Running
<1>2. ASSUME NEW c \in Call, CreateExecutor(c) \/ Launch(c) PROVE Starting(c, v)
  BY <1>2, <1>t, MakeFields DEF Running, Starting, StartPc
<1>3. ASSUME NEW w \in Vm, NEW sig, vm' = Signalled(w, sig) PROVE FALSE
  BY <1>3, <1>t, SignalFields DEF Running
<1>4. CASE HostNext
  BY <1>4, <1>t, HostFields DEF HostStep, Ends, IsReused, LosesExecutor, Running
<1>5. CASE UNCHANGED vm
  BY <1>5 DEF Running
<1> QED
  BY <1>1, <1>2, <1>3, <1>4, <1>5, <1>t, StepKinds DEF VmStep

\* Neither a recovery nor a destroy loses a live VM, as long as executors live and
\* RecoverTask can read the state Nomad kept.
THEOREM NoLiveVmDropped ==
    ASSUME Disciplined, StateReadable, "executorCrash" \notin Hazards
    PROVE  Spec => NeverDropRunningVm
<1>1. ExecutorsLive /\ ExitInv /\ [Next]_vars => ExecutorsLive'
  BY ExecutorsLiveStep DEF ExitInv
<1>2. Init => ExecutorsLive
  BY DEF Init, HostInit, ExecutorsLive
<1>3. ExitInv /\ OwnInv /\ ExecutorsLive /\ [Next]_vars =>
        \A t \in Task : saved[t] # None /\ saved'[t] # saved[t] =>
          ~Running(saved[t]) \/ vm[saved[t]].killed
  <2> SUFFICES ASSUME ExitInv, OwnInv, ExecutorsLive, [Next]_vars,
                      NEW t \in Task, saved[t] # None, saved'[t] # saved[t]
               PROVE  ~Running(saved[t]) \/ vm[saved[t]].killed
    OBVIOUS
  <2>1. Finished(saved[t]) /\ saved[t] \in Vm
    BY SavedStep DEF ExitInv, TypeOK
  <2> QED
    BY <2>1 DEF Finished, Exited, Running, ExecutorsLive
<1> QED
  BY <1>1, <1>2, <1>3, ExitInvariant, OwnInvariant, PTL DEF Spec, NeverDropRunningVm

\* A start that fails is the only thing that can lose a VM, as long as RecoverTask
\* can read the state Nomad kept.
THEOREM OnlyStartsLose ==
    ASSUME Disciplined, StateReadable
    PROVE  Spec => LostOnlyByStart
<1>1. ExitInv /\ OwnInv /\ [Next]_vars =>
        \A v \in Vm : AtLarge(v)' /\ ~AtLarge(v) => \E c \in Call : Starting(c, v)
  <2> SUFFICES ASSUME ExitInv, OwnInv, [Next]_vars, NEW v \in Vm, AtLarge(v)', ~AtLarge(v),
                      \A c \in Call : ~Starting(c, v)
               PROVE  FALSE
    OBVIOUS
  <2>1. Running(v) /\ vm[v].exec = "alive"
    BY MadeByStart DEF AtLarge
  <2>2. ~Finished(v)
    <3>1. VmsGrow
      BY VmsOnlyGrow DEF ExitInv, OwnInv
    <3> QED
      BY <3>1 DEF VmsGrow, AtLarge, Finished, Exited, Running
  <2>3. Reachable(v)
    BY <2>1, <2>2 DEF AtLarge, Finished
  <2>4. PICK t \in Task : saved[t] = v
    <3>1. ASSUME NEW t \in Task, tasks[t] # None, handle[tasks[t]].vm = v PROVE saved[t] = v
      BY <3>1 DEF OwnInv, StoreOwn, Starting, StartPc, At
    <3> QED
      BY <2>3, <3>1 DEF Reachable, InStore, Monitors
  <2>5. saved'[t] # v
    BY DEF AtLarge, Reachable
  <2> QED
    BY <2>2, <2>4, <2>5, SavedStep, HostAssumption
<1> QED
  BY <1>1, ExitInvariant, OwnInvariant, PTL DEF Spec, LostOnlyByStart

-----------------------------------------------------------------------------
(* The refinement.  What TaskContract sees of a step, VM by VM and wait by *)
(* wait.                                                                   *)

SameVm(v) ==
    /\ vm'[v].task = vm[v].task /\ vm'[v].status = vm[v].status
    /\ LifeOf(v)' = LifeOf(v)
    /\ vm'[v].exec = "dead" <=> vm[v].exec = "dead"
SameWaits == \A d \in Call : WaiterOf(d)' = WaiterOf(d)

\* A wait changes only with its goroutine.
Waits(d) == call[d].pc \in WaitPc
\* Whoever does not wait, before and after, and whoever does not move.
LEMMA WaitsStay ==
    ASSUME TypeOK, Wired, KeepsVms,
           \A d \in Call : call'[d] = call[d] \/ (~Waits(d) /\ ~Waits(d)')
    PROVE  SameWaits
<1> SUFFICES ASSUME NEW d \in Call PROVE WaiterOf(d)' = WaiterOf(d)
  BY DEF SameWaits
<1>1. CASE ~Waits(d) /\ ~Waits(d)'
  BY <1>1 DEF Waits, WaitPc, WaiterOf
<1>2. CASE Waits(d) /\ call'[d] = call[d]
  <2>1. call[d].handle \in Handle /\ handle[call[d].handle].vm \in Vm
    BY <1>2, CallTypes DEF Waits
  <2>2. handle'[call[d].handle].vm = handle[call[d].handle].vm
    BY <2>1 DEF KeepsVms
  <2> QED
    BY <1>2, <2>2 DEF WaiterOf, PidOf
<1>3. call'[d] = call[d] => (Waits(d)' <=> Waits(d))
  BY DEF Waits
<1> QED
  BY <1>1, <1>2, <1>3

\* The states of a VM's life.
LEMMA Lives ==
    ASSUME TypeOK, NEW v \in Vm
    PROVE  /\ ~Launched(v) => LifeOf(v) = "fresh"
           /\ Running(v) /\ ~vm[v].killed => LifeOf(v) = "running"
           /\ Running(v) /\ vm[v].killed => LifeOf(v) = "doomed"
           /\ Exited(v) => LifeOf(v) = "ended"
           /\ Launched(v) => Running(v) \/ Exited(v)
           /\ vm[v].killed \in BOOLEAN
<1>1. vm[v].proc \in ProcState /\ vm[v].killed \in BOOLEAN
  BY DEF TypeOK, HostTypeOK, VmRecord
<1> QED
  BY <1>1 DEF Launched, Running, Exited, LifeOf, ProcState

\* A step of the model that TaskContract does not see.
LEMMA Stutters ==
    ASSUME \A v \in Vm : SameVm(v), SameWaits, UNCHANGED saved
    PROVE  UNCHANGED Contract!vars
<1>1. [v \in Vm |-> LifeOf(v)]' = [v \in Vm |-> LifeOf(v)]
  BY DEF SameVm
<1>2. [v \in Vm |-> vm'[v].task] = [v \in Vm |-> vm[v].task]
  BY DEF SameVm
<1>3. [v \in Vm |-> vm'[v].status] = [v \in Vm |-> vm[v].status]
  BY DEF SameVm
<1>4. [v \in Vm |-> vm'[v].exec = "dead"] = [v \in Vm |-> vm[v].exec = "dead"]
  BY Zenon DEF SameVm
<1>5. [c \in Call |-> WaiterOf(c)]' = [c \in Call |-> WaiterOf(c)]
  BY DEF SameWaits
<1> QED
  BY <1>1, <1>2, <1>3, <1>4, <1>5 DEF Contract!vars

\* The same record is the same VM.
LEMMA SameRecord ==
    ASSUME NEW v \in Vm, vm'[v] = vm[v]
    PROVE  SameVm(v)
BY DEF SameVm, LifeOf, Running, Exited

\* Nothing but one VM's life changes, ...
LivesOn(v, s) ==
    /\ \A w \in Vm \ {v} : SameVm(w)
    /\ vm'[v].task = vm[v].task
    /\ vm'[v].exec = "dead" <=> vm[v].exec = "dead"
    /\ LifeOf(v)' = s

\* ... by a launch or by SIGKILL, ...
LEMMA BootOrDoom ==
    ASSUME NEW v \in Vm, NEW s, LivesOn(v, s), vm'[v].status = vm[v].status,
           SameWaits, UNCHANGED saved,
           \/ s = "running" /\ LifeOf(v) = "fresh" /\ vm[v].task # None /\ vm[v].exec # "dead"
           \/ s = "doomed" /\ LifeOf(v) = "running"
    PROVE  Contract!Next
<1>1. [w \in Vm |-> LifeOf(w)]' = [[w \in Vm |-> LifeOf(w)] EXCEPT ![v] = s]
  BY DEF SameVm, LivesOn
<1>2. [w \in Vm |-> vm'[w].task] = [w \in Vm |-> vm[w].task]
  BY DEF SameVm, LivesOn
<1>3. [w \in Vm |-> vm'[w].status] = [w \in Vm |-> vm[w].status]
  BY DEF SameVm, LivesOn
<1>4. [w \in Vm |-> vm'[w].exec = "dead"] = [w \in Vm |-> vm[w].exec = "dead"]
  BY Zenon DEF SameVm, LivesOn
<1>5. [c \in Call |-> WaiterOf(c)]' = [c \in Call |-> WaiterOf(c)]
  BY DEF SameWaits
<1>6. Contract!Boot(v) \/ Contract!Doom(v)
  BY <1>1, <1>2, <1>3, <1>4, <1>5 DEF Contract!Boot, Contract!Doom
<1> QED
  BY <1>6 DEF Contract!Next

\* ... or by its end.
LEMMA EndsContract ==
    ASSUME NEW v \in Vm, LivesOn(v, "ended"), vm'[v].status \in ExitStatus,
           SameWaits, UNCHANGED saved, LifeOf(v) \in {"running", "doomed"}
    PROVE  Contract!Next
<1>1. [w \in Vm |-> LifeOf(w)]' = [[w \in Vm |-> LifeOf(w)] EXCEPT ![v] = "ended"]
  BY DEF SameVm, LivesOn
<1>2. [w \in Vm |-> vm'[w].task] = [w \in Vm |-> vm[w].task]
  BY DEF SameVm, LivesOn
<1>3. [w \in Vm |-> vm'[w].status] = [[w \in Vm |-> vm[w].status] EXCEPT ![v] = vm'[v].status]
  BY DEF SameVm, LivesOn
<1>4. [w \in Vm |-> vm'[w].exec = "dead"] = [w \in Vm |-> vm[w].exec = "dead"]
  BY Zenon DEF SameVm, LivesOn
<1>5. [c \in Call |-> WaiterOf(c)]' = [c \in Call |-> WaiterOf(c)]
  BY DEF SameWaits
<1>6. Contract!End(v)
  BY <1>1, <1>2, <1>3, <1>4, <1>5 DEF Contract!End
<1> QED
  BY <1>6 DEF Contract!Next

\* The executor of a VM dies.
LEMMA BlindContract ==
    ASSUME NEW v \in Vm, \A w \in Vm \ {v} : SameVm(w),
           vm'[v].task = vm[v].task, vm'[v].status = vm[v].status, LifeOf(v)' = LifeOf(v),
           vm'[v].exec = "dead", vm[v].exec # "dead", vm[v].task # None,
           SameWaits, UNCHANGED saved
    PROVE  Contract!Next
<1>1. [w \in Vm |-> LifeOf(w)]' = [w \in Vm |-> LifeOf(w)]
  BY DEF SameVm
<1>2. [w \in Vm |-> vm'[w].task] = [w \in Vm |-> vm[w].task]
  BY DEF SameVm
<1>3. [w \in Vm |-> vm'[w].status] = [w \in Vm |-> vm[w].status]
  BY DEF SameVm
<1>4. [w \in Vm |-> vm'[w].exec = "dead"] = [[w \in Vm |-> vm[w].exec = "dead"] EXCEPT ![v] = TRUE]
  <2>1. \A w \in Vm : (vm'[w].exec = "dead") = (IF w = v THEN TRUE ELSE vm[w].exec = "dead")
    BY Zenon DEF SameVm
  <2> QED
    BY <2>1
<1>5. [c \in Call |-> WaiterOf(c)]' = [c \in Call |-> WaiterOf(c)]
  BY DEF SameWaits
<1>6. Contract!Blind(v)
  BY <1>1, <1>2, <1>3, <1>4, <1>5 DEF Contract!Blind
<1> QED
  BY <1>6 DEF Contract!Next

\* The steps that leave the VMs as they are: the answer to a start and the end
\* of a task, ...
LEMMA HoldsContract ==
    ASSUME UNCHANGED vm, SameWaits, NEW t \in Task, saved \in [Task -> Vm \union {None}],
           \/ \E v \in Vm : /\ saved' = [saved EXCEPT ![t] = v] /\ saved[t] = None
                            /\ vm[v].task = t /\ LifeOf(v) # "fresh"
           \/ /\ saved' = [saved EXCEPT ![t] = None] /\ saved[t] \in Vm
              /\ LifeOf(saved[t]) \in {"doomed", "ended"} \/ vm[saved[t]].exec = "dead"
    PROVE  Contract!Next
<1>1. [w \in Vm |-> LifeOf(w)]' = [w \in Vm |-> LifeOf(w)]
  BY SameRecord DEF SameVm
<1>2. [c \in Call |-> WaiterOf(c)]' = [c \in Call |-> WaiterOf(c)]
  BY DEF SameWaits
<1>3. ASSUME NEW v \in Vm, saved' = [saved EXCEPT ![t] = v], saved[t] = None,
             vm[v].task = t, LifeOf(v) # "fresh"
      PROVE  Contract!Reply(t, v)
  BY <1>1, <1>2, <1>3 DEF Contract!Reply, Contract!vmVars
<1>4. ASSUME saved' = [saved EXCEPT ![t] = None], saved[t] \in Vm,
             LifeOf(saved[t]) \in {"doomed", "ended"} \/ vm[saved[t]].exec = "dead"
      PROVE  Contract!Forget(t)
  BY <1>1, <1>2, <1>4, HostAssumption DEF Contract!Forget, Contract!vmVars
<1> QED
  BY <1>3, <1>4 DEF Contract!Next

\* ... and the waits.
LEMMA WaitContract ==
    ASSUME UNCHANGED <<vm, saved>>, NEW c \in Call,
           \A d \in Call \ {c} : WaiterOf(d)' = WaiterOf(d),
           \/ \E t \in Task : /\ WaiterOf(c) = Contract!NoWait /\ saved[t] # None
                              /\ WaiterOf(c)' = [state |-> "asked", vm |-> saved[t], told |-> None]
           \/ \E v \in Vm, r \in ExitStatus \union {"error"} :
                /\ WaiterOf(c) = [state |-> "asked", vm |-> v, told |-> None]
                /\ \/ LifeOf(v) = "ended" /\ r = vm[v].status
                   \/ vm[v].exec = "dead" /\ r = "error"
                /\ WaiterOf(c)' = [state |-> "told", vm |-> v, told |-> r]
           \/ WaiterOf(c) # Contract!NoWait /\ WaiterOf(c)' = Contract!NoWait
    PROVE  Contract!Next
<1>1. [w \in Vm |-> LifeOf(w)]' = [w \in Vm |-> LifeOf(w)]
  BY SameRecord DEF SameVm
<1>2. [d \in Call |-> WaiterOf(d)]' = [[d \in Call |-> WaiterOf(d)] EXCEPT ![c] = WaiterOf(c)']
  OBVIOUS
<1>3. ASSUME NEW t \in Task, WaiterOf(c) = Contract!NoWait, saved[t] # None,
             WaiterOf(c)' = [state |-> "asked", vm |-> saved[t], told |-> None]
      PROVE  Contract!Ask(c, t)
  BY <1>1, <1>2, <1>3 DEF Contract!Ask, Contract!vmVars
<1>4. ASSUME NEW v \in Vm, NEW r \in ExitStatus \union {"error"},
             WaiterOf(c) = [state |-> "asked", vm |-> v, told |-> None],
             (LifeOf(v) = "ended" /\ r = vm[v].status) \/ (vm[v].exec = "dead" /\ r = "error"),
             WaiterOf(c)' = [state |-> "told", vm |-> v, told |-> r]
      PROVE  Contract!Answer(c)
  <2> DEFINE w == [d \in Call |-> WaiterOf(d)]
  <2>1. w[c].state = "asked" /\ w[c].vm = v
    BY <1>4
  <2>2. \/ [u \in Vm |-> LifeOf(u)][w[c].vm] = "ended" /\ r = [u \in Vm |-> vm[u].status][w[c].vm]
        \/ [u \in Vm |-> vm[u].exec = "dead"][w[c].vm] /\ r = "error"
    BY <1>4, <2>1
  <2>3. w' = [w EXCEPT ![c] = [state |-> "told", vm |-> w[c].vm, told |-> r]]
    BY <1>2, <1>4, <2>1
  <2>4. UNCHANGED <<Contract!vmVars, saved>>
    BY <1>1 DEF Contract!vmVars
  <2> QED
    BY <2>1, <2>2, <2>3, <2>4 DEF Contract!Answer
<1>5. ASSUME WaiterOf(c) # Contract!NoWait, WaiterOf(c)' = Contract!NoWait
      PROVE  Contract!Leave(c)
  BY <1>1, <1>2, <1>5 DEF Contract!Leave, Contract!vmVars
<1> QED
  BY <1>3, <1>4, <1>5 DEF Contract!Next

\* A start begins.
LEMMA ClaimContract ==
    ASSUME TypeOK, NEW c \in Call, NEW t \in Task, NEW v \in Vm, Claims(c, t, v),
           SameWaits, UNCHANGED saved
    PROVE  Contract!Next
<1>1. \A w \in Vm \ {v} : SameVm(w)
  BY SameRecord DEF Claims
<1>2. LifeOf(v)' = LifeOf(v)
  BY DEF Claims, LifeOf, Running, Exited
<1>3. [w \in Vm |-> LifeOf(w)]' = [w \in Vm |-> LifeOf(w)]
  BY <1>1, <1>2 DEF SameVm
<1>4. [w \in Vm |-> vm'[w].task] = [[w \in Vm |-> vm[w].task] EXCEPT ![v] = t]
  BY <1>1 DEF SameVm, Claims
<1>5. [w \in Vm |-> vm'[w].status] = [w \in Vm |-> vm[w].status]
  BY <1>1 DEF SameVm, Claims
<1>6. [w \in Vm |-> vm'[w].exec = "dead"] = [w \in Vm |-> vm[w].exec = "dead"]
  <2>1. \A w \in Vm : vm'[w].exec = vm[w].exec
    BY DEF Claims
  <2> QED
    BY <2>1
<1>7. [d \in Call |-> WaiterOf(d)]' = [d \in Call |-> WaiterOf(d)]
  BY DEF SameWaits
<1>8. Contract!Claim(v, t)
  BY <1>3, <1>4, <1>5, <1>6, <1>7 DEF Contract!Claim, Claims
<1> QED
  BY <1>8 DEF Contract!Next

\* Executors and launches.
LEMMA MakeContract ==
    ASSUME ExitInv, OwnInv, NEW c \in Call, CreateExecutor(c) \/ Launch(c), SameWaits, UNCHANGED saved
    PROVE  [Contract!Next]_Contract!vars
<1>t. TypeOK /\ Wired /\ Fresh
  BY DEF ExitInv
<1>1. CASE UNCHANGED vm
  BY <1>1, SameRecord, Stutters
<1>2. CASE ~UNCHANGED vm
  <2> PICK v \in Vm : v = call[c].vm
    BY <1>t, <1>2, MakeFields
  <2>1. /\ \A w \in Vm \ {v} : SameVm(w)
        /\ vm'[v].task = vm[v].task /\ (vm'[v].killed <=> vm[v].killed)
        /\ vm'[v].status = vm[v].status /\ vm'[v].exec = "alive"
        /\ \/ vm[v].exec = "none" /\ vm'[v].proc = vm[v].proc
           \/ vm[v].exec = "alive" /\ vm[v].proc = "none" /\ vm'[v].proc = "running"
    BY <1>t, <1>2, MakeFields, SameRecord
  <2>2. CASE vm[v].exec = "none" /\ vm'[v].proc = vm[v].proc
    <3>1. LifeOf(v)' = LifeOf(v)
      BY <2>1, <2>2 DEF LifeOf, Running, Exited
    <3>2. SameVm(v)
      BY <2>1, <2>2, <3>1 DEF SameVm
    <3> QED
      BY <2>1, <3>2, Stutters
  <2>3. CASE vm[v].exec = "alive" /\ vm[v].proc = "none" /\ vm'[v].proc = "running"
    <3>1. ~vm[v].killed
      BY <2>1, <2>3 DEF OwnInv, OneStart, Launched
    <3>2. LifeOf(v) = "fresh" /\ LifeOf(v)' = "running"
      BY <2>1, <2>3, <3>1 DEF LifeOf, Running, Exited
    <3>3. vm[v].task # None
      BY <1>t, <2>1, <2>3 DEF Fresh
    <3> QED
      BY <2>1, <2>3, <3>2, <3>3, BootOrDoom DEF LivesOn
  <2> QED
    BY <2>1, <2>2, <2>3
<1> QED
  BY <1>1, <1>2

\* Signals.
LEMMA SignalContract ==
    ASSUME TypeOK, NEW v \in Vm, NEW sig, vm' = Signalled(v, sig), SameWaits, UNCHANGED saved
    PROVE  [Contract!Next]_Contract!vars
<1>1. HostTypeOK /\ vm \in [Vm -> VmRecord]
  BY DEF TypeOK, HostTypeOK
<1>2. \A w \in Vm \ {v} : SameVm(w)
  <2>1. \A w \in Vm \ {v} : vm'[w] = vm[w]
    BY <1>1 DEF Signalled
  <2> QED
    BY <2>1, SameRecord
<1>3. /\ vm'[v].task = vm[v].task /\ vm'[v].exec = vm[v].exec /\ vm'[v].status = vm[v].status
      /\ vm'[v].proc = IF vm[v].proc = "reused" THEN "struck" ELSE vm[v].proc
      /\ vm[v].killed => vm'[v].killed
      /\ vm'[v].killed /\ ~vm[v].killed => vm[v].proc = "running"
  BY <1>1, SignalFields
<1>4. CASE vm[v].proc = "running" /\ vm'[v].killed /\ ~vm[v].killed
  <2>1. LifeOf(v) = "running" /\ LifeOf(v)' = "doomed"
    BY <1>3, <1>4 DEF LifeOf, Running, Exited
  <2> QED
    BY <1>2, <1>3, <2>1, BootOrDoom DEF LivesOn
<1>5. CASE ~(vm'[v].killed /\ ~vm[v].killed)
  <2>1. LifeOf(v)' = LifeOf(v)
    BY <1>3, <1>5 DEF LifeOf, Running, Exited
  <2>2. SameVm(v)
    BY <1>3, <2>1 DEF SameVm
  <2> QED
    BY <1>2, <2>2, Stutters
<1> QED
  BY <1>3, <1>4, <1>5

\* The host.
LEMMA HostContract ==
    ASSUME ExitInv, HostNext, SameWaits, UNCHANGED saved
    PROVE  [Contract!Next]_Contract!vars
<1>t. TypeOK /\ HostTypeOK /\ Fresh
  BY DEF ExitInv, TypeOK
<1> PICK v \in Vm : HostStep(v)
  BY <1>t, HostFields
<1>1. /\ \A w \in Vm \ {v} : SameVm(w)
      /\ vm'[v].task = vm[v].task /\ (vm'[v].killed <=> vm[v].killed)
  BY SameRecord DEF HostStep
<1>2. CASE Ends(v)
  <2>1. LifeOf(v) \in {"running", "doomed"} /\ LifeOf(v)' = "ended"
    BY <1>2 DEF Ends, LifeOf, Running, Exited
  <2> QED
    BY <1>1, <1>2, <2>1, EndsContract DEF Ends, LivesOn
<1>3. CASE IsReused(v)
  <2>1. LifeOf(v)' = LifeOf(v)
    BY <1>3 DEF IsReused, LifeOf, Running, Exited
  <2>2. SameVm(v)
    BY <1>1, <1>3, <2>1 DEF IsReused, SameVm
  <2> QED
    BY <1>1, <2>2, Stutters
<1>4. CASE LosesExecutor(v)
  <2>1. LifeOf(v)' = LifeOf(v)
    BY <1>1, <1>4 DEF LosesExecutor, LifeOf, Running, Exited
  <2>2. vm[v].task # None
    BY <1>t, <1>4 DEF LosesExecutor, Fresh
  <2> QED
    BY <1>1, <1>4, <2>1, <2>2, BlindContract DEF LosesExecutor
<1> QED
  BY <1>2, <1>3, <1>4 DEF HostStep

-----------------------------------------------------------------------------
(* The refinement, step by step.                                           *)

\* No goroutine begins, ends or moves in a wait.
Unseen == \A d \in Call : call'[d] = call[d] \/ (~Waits(d) /\ ~Waits(d)')

\* All but the steps of WaitTask.
LEMMA UnseenSteps ==
    ASSUME TypeOK, NEW c \in Call,
           \/ StartStep(c) \/ RecoverStep(c) \/ StopStep(c) \/ DestroyStep(c)
           \/ \E t \in Task : Rpc(c, t) /\ ~WaitTask(c, t)
    PROVE  Unseen
<1>c. call \in [Call -> CallRecord]
  BY DEF TypeOK
<1>1. ASSUME NEW r, call' = [call EXCEPT ![c] = r], call[c].pc \notin WaitPc, r.pc \notin WaitPc
      PROVE  Unseen
  BY <1>c, <1>1 DEF Unseen, Waits
<1>g. ASSUME NEW pc, call' = [call EXCEPT ![c].pc = pc], call[c].pc \notin WaitPc, pc \notin WaitPc
      PROVE  Unseen
  <2>1. call'[c].pc = pc /\ \A d \in Call \ {c} : call'[d] = call[d]
    BY <1>c, <1>g DEF CallRecord
  <2> QED
    BY <1>g, <2>1 DEF Unseen, Waits
<1>r. ASSUME Return(c), call[c].pc \notin WaitPc PROVE Unseen
  BY <1>1, <1>r DEF Return, IdleCall, WaitPc
<1>2. ASSUME NEW t \in Task, Rpc(c, t), ~WaitTask(c, t) PROVE Unseen
  <2>1. CASE StartTask(c, t)
    BY <1>c, <2>1 DEF StartTask, Begins, At, Unseen, Waits, IdleCall, WaitPc
  <2>2. CASE RecoverTask(c, t)
    <3>1. UNCHANGED call => Unseen
      BY DEF Unseen
    <3>2. ASSUME call' = [call EXCEPT ![c] = [IdleCall EXCEPT !.pc = "reattach", !.task = t, !.vm = saved[t]]]
          PROVE  Unseen
      BY <1>c, <2>2, <3>2 DEF RecoverTask, Begins, At, Unseen, Waits, IdleCall, WaitPc
    <3> QED
      BY <2>2, <3>1, <3>2 DEF RecoverTask
  <2>3. CASE StopTask(c, t)
    BY <1>c, <2>3 DEF StopTask, Begins, At, Unseen, Waits, Holds, IdleCall, WaitPc
  <2>4. ASSUME NEW force \in BOOLEAN, DestroyTask(c, t, force) PROVE Unseen
    BY <1>c, <2>4 DEF DestroyTask, Begins, At, Unseen, Waits, Holds, IdleCall, WaitPc
  <2> QED
    BY <1>2, <2>1, <2>2, <2>3, <2>4 DEF Rpc
<1>3. CASE StartStep(c)
  <2>1. CASE Materialize(c)
    <3>1. ASSUME NEW k, call' = [call EXCEPT ![c].pc = "launch", ![c].cfg = k], At(c, "payload") PROVE Unseen
      BY <1>c, <3>1 DEF At, Unseen, Waits, WaitPc, CallRecord
    <3> QED
      BY <1>r, <2>1, <3>1 DEF Materialize, Fails, At, WaitPc
  <2>2. CASE CreateExecutor(c) \/ CreateSeed(c) \/ RaiseTap(c) \/ Launch(c) \/ Register(c) \/ Reply(c)
    BY <1>g, <1>r, <2>2 DEF CreateExecutor, CreateSeed, RaiseTap, Launch, Register, Reply, Goto, Fails, At, WaitPc
  <2> QED
    BY <1>3, <2>1, <2>2 DEF StartStep
<1>4. CASE RecoverStep(c)
  <2>1. CASE Reattach(c)
    BY <1>c, <2>1 DEF Reattach, At, Unseen, Waits, WaitPc, CallRecord
  <2> QED
    BY <1>4, <1>g, <1>r, <2>1 DEF RecoverStep, Probe, Adopt, Goto, At, WaitPc
<1>5. CASE StopStep(c)
  BY <1>5, <1>r DEF StopStep, StopPoll, StopDeadline, At, WaitPc
<1>6. CASE DestroyStep(c)
  BY <1>6, <1>g, <1>r DEF DestroyStep, DestroyKill, DestroyForget, DestroyDown, Goto, At, WaitPc
<1> QED
  BY <1>2, <1>3, <1>4, <1>5, <1>6

\* A WaitTask begins with the VM Nomad holds, is told how that VM ended, or
\* leaves.
LEMMA WaitKeepsContract ==
    ASSUME ExitInv, OwnInv, NEW c \in Call, WaitStep(c) \/ \E t \in Task : WaitTask(c, t)
    PROVE  [Contract!Next]_Contract!vars
<1>t. TypeOK /\ Wired
  BY DEF ExitInv
<1>c. call \in [Call -> CallRecord]
  BY <1>t DEF TypeOK
<1>u. UNCHANGED <<vm, tasks, handle, saved>>
  BY DEF WaitStep, WaitRead, WaitSend, CancelWait, WaitAbandon, WaitTask
<1>1. \A d \in Call \ {c} : call'[d] = call[d]
  BY <1>c DEF WaitStep, WaitRead, WaitSend, CancelWait, WaitAbandon, WaitTask, Goto, Return
<1>2. \A d \in Call \ {c} : WaiterOf(d)' = WaiterOf(d)
  BY <1>u, <1>1 DEF WaiterOf, PidOf
<1>3. ASSUME NEW t \in Task, WaitTask(c, t) PROVE Contract!Next
  <2>1. tasks[t] # None /\ saved[t] # None /\ saved[t] \in Vm
    BY <1>3, <1>t DEF WaitTask, Known, TypeOK
  <2>2. handle[tasks[t]].vm = saved[t]
    <3>1. ASSUME NEW d \in Call, At(d, "reply"), call[d].vm = handle[tasks[t]].vm PROVE FALSE
      <4>1. StartOwn(call[d])
        BY <3>1 DEF At, OwnInv, CallOwn, StartPc
      <4>2. vm[call[d].vm].task = t
        BY <2>1, <3>1 DEF OwnInv, StoreOwn, Owns
      <4> QED
        BY <2>1, <4>1, <4>2 DEF StartOwn
    <3> QED
      BY <2>1, <3>1 DEF OwnInv, StoreOwn
  <2>3. WaiterOf(c) = Contract!NoWait
    BY <1>3 DEF WaitTask, Begins, At, WaiterOf, Contract!NoWait
  <2>4. WaiterOf(c)' = [state |-> "asked", vm |-> saved[t], told |-> None]
    <3>1. call'[c].pc = "wait" /\ call'[c].handle = tasks[t]
      BY <1>3, <1>c DEF WaitTask, Holds, IdleCall
    <3> QED
      BY <1>u, <2>2, <3>1 DEF WaiterOf, PidOf
  <2> QED
    BY <1>u, <1>2, <2>1, <2>3, <2>4, WaitContract
<1>4. CASE WaitRead(c)
  <2>1. call[c].pc \in {"wait", "cancelled"} /\ handle[call[c].handle].done
    BY <1>4 DEF WaitRead
  <2>2. call[c].handle \in Handle /\ handle[call[c].handle].vm \in Vm
    BY <1>t, <2>1, CallTypes DEF WaitPc
  <2> PICK h \in Handle, v \in Vm : h = call[c].handle /\ v = handle[h].vm
    BY <2>2
  <2>3. TrueEnd(v, handle[h].exitResult)
    BY <2>1 DEF ExitInv, Recorded
  <2>4. /\ call'[c].pc \in {"send", "stuck"} /\ call'[c].handle = h
        /\ call'[c].result = handle[h].exitResult
    BY <1>4, <1>c DEF WaitRead, CallRecord
  <2>5. WaiterOf(c) = [state |-> "asked", vm |-> v, told |-> None]
    BY <2>1 DEF WaiterOf, PidOf
  <2>6. WaiterOf(c)' = [state |-> "told", vm |-> v, told |-> handle[h].exitResult]
    BY <1>u, <2>4 DEF WaiterOf, PidOf
  <2>7. /\ handle[h].exitResult \in ExitStatus \union {"error"}
        /\ \/ LifeOf(v) = "ended" /\ handle[h].exitResult = vm[v].status
           \/ vm[v].exec = "dead" /\ handle[h].exitResult = "error"
    <3>1. vm[v].status \in ExitStatus \union {None}
      BY <1>t DEF TypeOK, HostTypeOK, VmRecord
    <3> QED
      BY <1>t, <2>3, <3>1, Lives DEF TrueEnd
  <2> PICK r \in ExitStatus \union {"error"} : r = handle[h].exitResult
    BY <2>7
  <2> QED
    BY <1>u, <1>2, <2>5, <2>6, <2>7, WaitContract
<1>5. CASE CancelWait(c)
  <2>1. /\ \/ call[c].pc = "wait" /\ call'[c].pc = "cancelled"
           \/ call[c].pc = "send" /\ call'[c].pc = "stuck"
        /\ call'[c].handle = call[c].handle /\ call'[c].result = call[c].result
    BY <1>5, <1>c DEF CancelWait, At, Goto, CallRecord
  <2>2. WaiterOf(c)' = WaiterOf(c)
    BY <1>u, <2>1 DEF WaiterOf, PidOf
  <2>3. SameWaits
    BY <1>2, <2>2 DEF SameWaits
  <2> QED
    BY <1>u, <2>3, SameRecord, Stutters
<1>6. CASE WaitSend(c) \/ WaitAbandon(c)
  <2>1. call[c].pc \in {"send", "cancelled"} /\ call'[c].pc = "idle"
    BY <1>6, <1>c DEF WaitSend, WaitAbandon, At, Return, IdleCall
  <2>2. WaiterOf(c) # Contract!NoWait /\ WaiterOf(c)' = Contract!NoWait
    BY <2>1 DEF WaiterOf, Contract!NoWait
  <2> QED
    BY <1>u, <1>2, <2>2, WaitContract
<1> QED
  BY <1>3, <1>4, <1>5, <1>6 DEF WaitStep

\* The plugin dies: every wait is dropped.
LEMMA LossContract ==
    ASSUME LosesMemory
    PROVE  Contract!Next
<1>1. [w \in Vm |-> LifeOf(w)]' = [w \in Vm |-> LifeOf(w)]
  BY SameRecord DEF SameVm, LosesMemory
<1>2. \A c \in Call : WaiterOf(c)' = Contract!NoWait
  BY DEF LosesMemory, IdleCall, WaiterOf, Contract!NoWait
<1>3. [c \in Call |-> WaiterOf(c)]' = [c \in Call |-> Contract!NoWait]
  BY <1>2
<1>4. Contract!Restart
  BY <1>1, <1>3 DEF Contract!Restart, Contract!vmVars, LosesMemory
<1> QED
  BY <1>4 DEF Contract!Next

\* Nomad receives a handle, or drops one.
LEMMA HandsOver ==
    ASSUME ExitInv, OwnInv, NEW c \in Call, SameWaits,
           \/ Reply(c)
           \/ /\ (Probe(c) /\ ~PidExists(call[c].vm)) \/ (DestroyDown(c) /\ At(c, "down"))
              /\ GivesUp(c)
    PROVE  [Contract!Next]_Contract!vars
<1>t. TypeOK /\ Wired /\ saved \in [Task -> Vm \union {None}]
  BY DEF ExitInv, TypeOK
<1>1. CASE Reply(c)
  <2>1. call[c].task \in Task /\ call[c].vm \in Vm /\ StartOwn(call[c]) /\ call[c].pc = "reply"
    BY <1>t, <1>1, CallTypes DEF Reply, At, OwnInv, CallOwn, StartPc
  <2> PICK t \in Task, v \in Vm : t = call[c].task /\ v = call[c].vm
    BY <2>1
  <2>2. vm[v].task = t /\ saved[t] = None /\ Launched(v)
    BY <2>1 DEF StartOwn
  <2>3. LifeOf(v) # "fresh"
    BY <1>t, <2>2, Lives
  <2> QED
    BY <1>t, <1>1, <2>2, <2>3, HoldsContract DEF Reply
<1>2. CASE /\ (Probe(c) /\ ~PidExists(call[c].vm)) \/ (DestroyDown(c) /\ At(c, "down"))
           /\ GivesUp(c)
  <2>1. call[c].task \in Task
    BY <1>t, <1>2, CallTypes DEF Probe, At, RecoverPc, DestroyPc
  <2> PICK t \in Task : t = call[c].task
    BY <2>1
  <2>2. CASE saved[t] = None
    <3>1. UNCHANGED saved
      BY <1>t, <1>2, <2>2 DEF GivesUp
    <3> QED
      BY <1>2, <3>1, SameRecord, Stutters DEF GivesUp
  <2>3. CASE saved[t] # None
    <3>1. saved[t] \in Vm /\ Launched(saved[t]) /\ Finished(saved[t])
      BY <1>2, <2>3, GivesUpFinished
    <3>2. LifeOf(saved[t]) \in {"doomed", "ended"} \/ vm[saved[t]].exec = "dead"
      BY <1>t, <3>1, Lives DEF Finished
    <3> QED
      BY <1>t, <1>2, <3>1, <3>2, HoldsContract DEF GivesUp
  <2> QED
    BY <2>2, <2>3
<1> QED
  BY <1>1, <1>2

\* Every step of the driver and its host is one that TaskContract allows.
LEMMA ContractStep ==
    ASSUME Disciplined, StateReadable, ExitInv, OwnInv, [Next]_vars
    PROVE  [Contract!Next]_Contract!vars
<1>t. TypeOK /\ Wired
  BY DEF ExitInv
<1>k. ~LosesMemory => KeepsVms
  BY <1>t, HandlesKeepVms
<1>l. CASE LosesMemory
  BY <1>l, LossContract
<1>w. ASSUME ~LosesMemory, Unseen PROVE SameWaits
  BY <1>t, <1>k, <1>w, WaitsStay DEF Unseen
<1>s. ASSUME SameWaits, UNCHANGED <<vm, saved>> PROVE [Contract!Next]_Contract!vars
  BY <1>s, SameRecord, Stutters
<1>1. ASSUME ~LosesMemory, NEW c \in Call, NEW t \in Task, Rpc(c, t)
      PROVE  [Contract!Next]_Contract!vars
  <2>1. CASE WaitTask(c, t)
    BY <2>1, WaitKeepsContract
  <2>2. CASE ~WaitTask(c, t)
    <3>1. SameWaits
      BY <1>t, <1>w, <1>1, <2>2, UnseenSteps
    <3>2. CASE StartTask(c, t)
      <4> PICK v \in Vm : Claims(c, t, v)
        BY <1>t, <3>2, ClaimFields
      <4> QED
        BY <1>t, <3>1, <3>2, ClaimContract DEF StartTask
    <3>3. CASE StopTask(c, t)
      <4>1. handle[tasks[t]].vm \in Vm
        BY <1>t, <3>3 DEF StopTask, TypeOK, Wired, HandleRecord
      <4>2. (\E sig \in Signal : vm' = Signalled(handle[tasks[t]].vm, sig)) /\ UNCHANGED saved
        BY <3>3 DEF StopTask
      <4> QED
        BY <1>t, <3>1, <4>1, <4>2, SignalContract
    <3>4. CASE RecoverTask(c, t) \/ \E force \in BOOLEAN : DestroyTask(c, t, force)
      BY <1>s, <3>1, <3>4 DEF RecoverTask, DestroyTask, StateReadable
    <3> QED
      BY <1>1, <2>2, <3>2, <3>3, <3>4 DEF Rpc
  <2> QED
    BY <2>1, <2>2
<1>2. ASSUME ~LosesMemory, NEW t \in Task, SignalTask(t) PROVE [Contract!Next]_Contract!vars
  <2>1. handle[tasks[t]].vm \in Vm
    BY <1>t, <1>2 DEF SignalTask, TypeOK, Wired, HandleRecord
  <2>2. (\E sig \in Signal : vm' = Signalled(handle[tasks[t]].vm, sig)) /\ UNCHANGED <<saved, call>>
    BY <1>2 DEF SignalTask
  <2>3. SameWaits
    BY <1>w, <1>2, <2>2 DEF Unseen
  <2> QED
    BY <1>t, <2>1, <2>2, <2>3, SignalContract
<1>3. ASSUME ~LosesMemory, NEW c \in Call, StartStep(c) \/ RecoverStep(c) \/ StopStep(c) \/ DestroyStep(c)
      PROVE  [Contract!Next]_Contract!vars
  <2>0. SameWaits
    BY <1>t, <1>w, <1>3, UnseenSteps
  <2>1. CASE CreateExecutor(c) \/ Launch(c)
    BY <2>0, <2>1, MakeContract DEF CreateExecutor, Launch
  <2>2. CASE \/ CreateSeed(c) \/ RaiseTap(c) \/ Materialize(c) \/ Register(c)
             \/ Reattach(c) \/ Adopt(c) \/ StopPoll(c) \/ DestroyForget(c)
    BY <1>s, <2>0, <2>2 DEF CreateSeed, RaiseTap, Materialize, Register, Reattach, Adopt, StopPoll, DestroyForget
  <2>3. CASE Reply(c)
    BY <2>0, <2>3, HandsOver
  <2>4. CASE Probe(c) \/ DestroyDown(c)
    <3>1. UNCHANGED vm
      BY <2>4 DEF Probe, DestroyDown
    <3>2. \/ UNCHANGED saved
          \/ /\ (Probe(c) /\ ~PidExists(call[c].vm)) \/ (DestroyDown(c) /\ At(c, "down"))
             /\ GivesUp(c)
      BY <1>t, <2>4 DEF Probe, DestroyDown, GivesUp, Return, IdleCall, TypeOK
    <3> QED
      BY <1>s, <2>0, <3>1, <3>2, HandsOver
  <2>5. CASE StopDeadline(c) \/ DestroyKill(c)
    <3>1. PidOf(c) \in Vm
      BY <1>t, <2>5, CallTypes DEF StopDeadline, DestroyKill, At, PidOf, StopPc, DestroyPc
    <3>2. UNCHANGED saved /\ (vm' = vm \/ vm' = Signalled(PidOf(c), "KILL"))
      BY <2>5 DEF StopDeadline, DestroyKill
    <3> QED
      BY <1>t, <1>s, <2>0, <3>1, <3>2, SignalContract
  <2> QED
    BY <1>3, <2>1, <2>2, <2>3, <2>4, <2>5 DEF StartStep, RecoverStep, StopStep, DestroyStep
<1>4. ASSUME NEW c \in Call, WaitStep(c) PROVE [Contract!Next]_Contract!vars
  BY <1>4, WaitKeepsContract
<1>5. ASSUME ~LosesMemory, \/ \E h \in Handle : RunStep(h)
                           \/ PluginRestart
                           \/ UNCHANGED vars
      PROVE  [Contract!Next]_Contract!vars
  <2>1. UNCHANGED <<call, vm, saved>>
    BY <1>5 DEF RunStep, RecordExit, CloseDone, PluginRestart, vars
  <2>2. SameWaits
    BY <1>w, <1>5, <2>1 DEF Unseen
  <2> QED
    BY <1>s, <2>1, <2>2
<1>6. ASSUME ~LosesMemory, HostNext, UNCHANGED <<tasks, handle, call, up, saved>>
      PROVE  [Contract!Next]_Contract!vars
  <2>1. SameWaits
    BY <1>w, <1>6 DEF Unseen
  <2> QED
    BY <1>6, <2>1, HostContract
<1> QED
  BY <1>l, <1>1, <1>2, <1>3, <1>4, <1>5, <1>6 DEF Next, RunPanics, PluginCrash

\* The driver keeps TaskContract: over crashes of the plugin and its executors,
\* lost replies, late signals and cancelled waits, and as long as RecoverTask can
\* read the state Nomad kept, Nomad holds the VM of its
\* task, gives none up that runs, and is told the truth.
THEOREM DriverKeepsContract ==
    ASSUME Disciplined, StateReadable
    PROVE  Spec => KeepsContract
<1>1. Init => Contract!Init
  <2> SUFFICES ASSUME Init PROVE Contract!Init
    OBVIOUS
  <2>1. \A v \in Vm : /\ vm[v].task = None /\ vm[v].status = None /\ LifeOf(v) = "fresh"
                      /\ vm[v].exec # "dead"
    BY DEF Init, HostInit, LifeOf, Running, Exited
  <2>2. \A c \in Call : WaiterOf(c) = Contract!NoWait
    BY DEF Init, IdleCall, WaiterOf, Contract!NoWait
  <2>3. [v \in Vm |-> vm[v].exec = "dead"] = [v \in Vm |-> FALSE]
    <3>1. \A v \in Vm : (vm[v].exec = "dead") = FALSE
      BY <2>1
    <3> QED
      BY <3>1, Zenon
  <2> QED
    BY <2>1, <2>2, <2>3 DEF Init, Contract!Init
<1>2. ExitInv /\ OwnInv /\ [Next]_vars => [Contract!Next]_Contract!vars
  BY ContractStep
<1> QED
  BY <1>1, <1>2, ExitInvariant, OwnInvariant, PTL DEF Spec, KeepsContract, Contract!Spec
=============================================================================
