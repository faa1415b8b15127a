------------------------------- MODULE VmHost -------------------------------
(***************************************************************************)
(* The Linux host as the driver uses it: cloud-hypervisor processes and    *)
(* the Nomad executor each one runs under, the tap devices of              *)
(* chdriver/autotuntap.go and the cloud-init seed images.  Everything here *)
(* outlives the plugin process.                                            *)
(*                                                                         *)
(* An element of Vm stands for what one StartTask call creates: one        *)
(* executor and, once launched, one cloud-hypervisor process with one pid. *)
(***************************************************************************)
EXTENDS FiniteSets

CONSTANTS
    Task,        \* task IDs (<alloc>/<task>/<invocation>)
    Vm,          \* start attempts; bounds how many are made
    ExitStatus,  \* what executor.Wait can report: exit codes, signals, OOM
    Hazards,     \* the faults the environment may inject
    None         \* Go's nil

AllHazards ==
    { "hostFails",       \* a registry, executor, ip, qemu-img or launch error
      "tagMoves",        \* the OCI tag is moved while a task starts
      "pluginCrash",     \* the plugin process dies and Nomad restarts it
      "executorCrash",   \* a Nomad executor process dies
      "pidReuse",        \* the kernel gives a dead VM's pid to someone else
      "duplicateCalls",  \* two StartTask or two RecoverTask for one ID at once
      "destroyRunning",  \* DestroyTask for a task not yet seen to exit
      "badState",        \* the task state Nomad kept cannot be read any more
      "waitCancel" }     \* Nomad cancels the context of a WaitTask

ASSUME HostAssumption ==
    /\ Hazards \subseteq AllHazards
    /\ None \notin Task \union Vm \union ExitStatus
    /\ {"zero", "error"} \cap ExitStatus = {}

VARIABLES
    vm,    \* [Vm -> record]: task, executor, process, exit status
    tap,   \* [Task -> TapState]: the device tap-<last component of the ID>
    seed   \* [Task -> BOOLEAN]: cloud-init-seed.iso is in the local dir

hostVars == <<vm, tap, seed>>

\* "reused" and "struck": the VM is dead and its pid names another process,
\* which the driver has ("struck") or has not ("reused") sent a signal.
ProcState == {"none", "running", "gone", "reused", "struck"}

VmRecord ==
    [ task   : Task \union {None},
      exec   : {"none", "alive", "dead"},
      proc   : ProcState,
      status : ExitStatus \union {None},
      killed : BOOLEAN,    \* SIGKILL is pending
      net    : BOOLEAN ]   \* --net tap=tap-<id> is on its command line

TapState == {"absent", "down", "up"}

HostTypeOK ==
    /\ vm \in [Vm -> VmRecord]
    /\ tap \in [Task -> TapState]
    /\ seed \in [Task -> BOOLEAN]

HostInit ==
    /\ vm = [v \in Vm |-> [task |-> None, exec |-> "none", proc |-> "none",
                           status |-> None, killed |-> FALSE, net |-> FALSE]]
    /\ tap = [t \in Task |-> "absent"]
    /\ seed = [t \in Task |-> FALSE]

Running(v) == vm[v].proc = "running"
Exited(v) == vm[v].proc \in {"gone", "reused", "struck"}

-----------------------------------------------------------------------------
(* Processes and signals.                                                  *)

\* kill(pid, 0) succeeds.
PidExists(v) == vm[v].proc \in {"running", "reused", "struck"}

\* The process table after kill(pid, sig): a signal reaches whoever has the pid.
Signalled(v, sig) ==
    [vm EXCEPT ![v].proc = IF @ = "reused" THEN "struck" ELSE @,
               ![v].killed = @ \/ (sig = "KILL" /\ vm[v].proc = "running")]

\* cloud-hypervisor ends (the guest powers off, it fails, a signal is
\* delivered) and is reaped.
VmExit(v) ==
    /\ Running(v)
    /\ \E s \in ExitStatus :
         vm' = [vm EXCEPT ![v].proc = "gone", ![v].status = s]
    /\ UNCHANGED <<tap, seed>>

KilledVmExit(v) == vm[v].killed /\ VmExit(v)

PidReuse(v) ==
    /\ "pidReuse" \in Hazards
    /\ vm[v].proc = "gone"
    /\ vm' = [vm EXCEPT ![v].proc = "reused"]
    /\ UNCHANGED <<tap, seed>>

\* The VM is not the executor's hostage: it is re-parented and runs on.
ExecutorCrash(v) ==
    /\ "executorCrash" \in Hazards
    /\ vm[v].exec = "alive"
    /\ vm' = [vm EXCEPT ![v].exec = "dead"]
    /\ UNCHANGED <<tap, seed>>

HostNext == \E v \in Vm : VmExit(v) \/ PidReuse(v) \/ ExecutorCrash(v)

-----------------------------------------------------------------------------
(* Tap devices.                                                            *)

\* A running cloud-hypervisor holds the queue of the task's tap.
TapBusy(t) == \E v \in Vm : vm[v].task = t /\ Running(v) /\ vm[v].net

\* The device is not set up.
TapUpOkMutant(t) == tap[t] = "absent" /\ tap' = [tap EXCEPT ![t] = "down"]

\* AutoTunTapIface.Up: add, set master, set up.  Add is exclusive; an error
\* of a later command leaves the device behind.
TapUpOk(t) == tap[t] = "absent" /\ tap' = [tap EXCEPT ![t] = "up"]

TapUpFails(t) ==
    \/ tap[t] # "absent" /\ UNCHANGED tap
    \/ "hostFails" \in Hazards /\ UNCHANGED tap
    \/ "hostFails" \in Hazards /\ tap[t] = "absent" /\ tap' = [tap EXCEPT ![t] = "down"]

\* The device is not deleted.
TapDownMutant(t) ==
    \/ tap[t] = "absent" /\ UNCHANGED tap
    \/ tap[t] # "absent" /\ tap' = [tap EXCEPT ![t] = "down"]

\* AutoTunTapIface.Down: nomaster, set down, del.  It stops at the first
\* error: nomaster fails without the device, del while a VM holds it.
TapDown(t) ==
    \/ tap[t] = "absent" /\ UNCHANGED tap
    \/ tap[t] # "absent" /\ ~TapBusy(t) /\ tap' = [tap EXCEPT ![t] = "absent"]
    \/ tap[t] # "absent" /\ TapBusy(t) /\ tap' = [tap EXCEPT ![t] = "down"]
    \/ "hostFails" \in Hazards /\ tap[t] # "absent" /\ tap' \in {tap, [tap EXCEPT ![t] = "down"]}
=============================================================================
