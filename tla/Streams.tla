------------------------------- MODULE Streams -------------------------------
(***************************************************************************)
(* The plugin's configuration and the goroutines that stream to Nomad:     *)
(* SetConfig, Fingerprint and TaskStats of chdriver/driver.go, with the    *)
(* client of chdriver/chclient.go as far as TaskStats uses it.             *)
(*                                                                         *)
(* Both streams are one goroutine in a select loop over a context and a    *)
(* source (a timer; the executor's channel) with an unbuffered, bare send  *)
(* at its end.  A step is the code between two reads of shared state: the  *)
(* configuration, the binary on disk, the client's socket, a channel.      *)
(***************************************************************************)
EXTENDS Naturals

CONSTANTS
    Path,      \* of cloud-hypervisor binaries
    Dir,       \* socket and cache directories
    Settings,  \* the plugin configurations an operator writes
    Task,      \* tasks with statistics
    Stream,    \* streaming RPCs; bounds how many are open
    Hazards,   \* what the environment may do
    None       \* Go's nil

AllHazards ==
    { "reconfigure",     \* SetConfig on a plugin that is in use
      "upgrade",         \* binaries appear, break and go
      "cancel",          \* Nomad cancels the context of a stream
      "executorCrash",   \* the executor of a task dies
      "pluginCrash" }    \* the plugin dies and Nomad restarts it

\* What of Config the streams and the sockets depend on.
Config == [bin : Path, dir : Dir]

\* <socketDir>/<Base(taskID)>, and whether ".sock" follows.
Socket == [dir : Dir, suffix : BOOLEAN]

ASSUME StreamsAssumption ==
    /\ Settings \subseteq Config
    /\ Hazards \subseteq AllHazards
    /\ None \notin Path \union Dir \union Task \union Config \union Socket

\* "absent": no file there, or not an executable one.  "broken": it fails, or
\* prints no version.
BinaryState == {"absent", "broken", "good"}

VARIABLES
    binary,    \* [Path -> BinaryState]
    config,    \* d.config
    setup,     \* how far SetConfig has come
    vms,       \* [Task -> record]: the API socket of its VM, its executor
    client,    \* [Task -> Socket or None]: the socket the handle's client dials
    saved,     \* [Task -> Socket or None]: TaskState.SocketPath, kept by Nomad
    stream,    \* the goroutines and their local variables
    heard      \* [Stream -> the fingerprint Nomad received last, or None]

hostVars == <<binary, vms>>
taskVars == <<vms, client, saved>>
vars == <<binary, config, setup, vms, client, saved, stream, heard>>

Setup == {"unset", "storing", "ok", "refused"}

VmRecord == [exec : {"none", "alive", "dead"}, socket : Socket \union {None}]

\* ran: the binary whose --version printed the version.
Report == [health : {"healthy", "unhealthy", "undetected"},
           path : Path \union {None}, ran : Path \union {None}, dir : Dir \union {None}]

\* Measurements of the task as a whole and of its processes; a rate over an
\* empty interval is not finite.
Meter == {"task", "process"}
Number == {"finite", "nan"}
Sample == [cpu : [Meter -> Number], memory : BOOLEAN]

Item == Report \union Sample

Pc == {"closed", "select", "which", "version", "attributes", "query", "send"}

StreamRecord ==
    [ pc        : Pc,
      kind      : {"fingerprint", "stats"},
      task      : Task \union {None},
      source    : {"armed", "ready", "stopped"},  \* the timer, or the samples
      bin       : Path \union {None},             \* buildFingerprint's binary
      item      : Item \union {None},             \* what is being built
      cancelled : BOOLEAN,                        \* ctx is done
      reading   : BOOLEAN ]                       \* somebody receives

Closed == [pc |-> "closed", kind |-> "fingerprint", task |-> None, source |-> "stopped",
           bin |-> None, item |-> None, cancelled |-> FALSE, reading |-> FALSE]

NoVm == [exec |-> "none", socket |-> None]

TypeOK ==
    /\ binary \in [Path -> BinaryState]
    /\ config \in Config \union {None}
    /\ setup \in Setup
    /\ vms \in [Task -> VmRecord]
    /\ client \in [Task -> Socket \union {None}]
    /\ saved \in [Task -> Socket \union {None}]
    /\ stream \in [Stream -> StreamRecord]
    /\ heard \in [Stream -> Report \union {None}]

Init ==
    /\ binary \in [Path -> BinaryState]
    /\ config = None
    /\ setup = "unset"
    /\ vms = [t \in Task |-> NoVm]
    /\ client = [t \in Task |-> None]
    /\ saved = [t \in Task |-> None]
    /\ stream = [s \in Stream |-> Closed]
    /\ heard = [s \in Stream |-> None]

-----------------------------------------------------------------------------
(* SetConfig.                                                              *)

\* The configuration is in use before it is looked at, ...
SetConfig(k) ==
    /\ setup = "unset" \/ "reconfigure" \in Hazards
    /\ setup # "storing"
    /\ config' = k
    /\ setup' = "storing"
    /\ UNCHANGED <<binary, taskVars, stream, heard>>

\* ... and stays when the binary turns out not to be an executable file, or
\* the cache directory cannot be made.
CheckConfig ==
    /\ setup = "storing"
    /\ setup' \in IF binary[config.bin] = "absent" THEN {"refused"} ELSE {"ok", "refused"}
    /\ UNCHANGED <<binary, config, taskVars, stream, heard>>

-----------------------------------------------------------------------------
(* Tasks, as far as their sockets and executors go.                        *)

\* How a VM ends is TaskDriver's.  It listens on SocketBasePath.sock; the client gets, and TaskState
\* keeps, SocketBasePath.
StartTask(t) ==
    /\ setup = "ok"
    /\ vms[t] = NoVm
    /\ LET base == [dir |-> config.dir, suffix |-> FALSE] IN
         /\ vms' = [vms EXCEPT ![t] = [exec |-> "alive",
                                       socket |-> [base EXCEPT !.suffix = TRUE]]]
         /\ client' = [client EXCEPT ![t] = base]
         /\ saved' = [saved EXCEPT ![t] = base]
    /\ UNCHANGED <<binary, config, setup, stream, heard>>

\* The socket is looked for where this plugin would put it.
RecoverTaskMutant(t) ==
    /\ setup = "ok"
    /\ client[t] = None /\ saved[t] # None /\ vms[t].exec = "alive"
    /\ client' = [client EXCEPT ![t] = [dir |-> config.dir, suffix |-> FALSE]]
    /\ UNCHANGED <<binary, config, setup, vms, saved, stream, heard>>

\* Not without its executor: that ends the plugin (TaskDriver's RunPanics).
RecoverTask(t) ==
    /\ setup = "ok"
    /\ client[t] = None /\ saved[t] # None /\ vms[t].exec = "alive"
    /\ client' = [client EXCEPT ![t] = saved[t]]
    /\ UNCHANGED <<binary, config, setup, vms, saved, stream, heard>>

-----------------------------------------------------------------------------
(* Opening and closing a stream.                                           *)

Open(s, kind, t, source) ==
    /\ setup = "ok"
    /\ stream[s].pc = "closed"
    /\ stream' = [stream EXCEPT ![s] = [Closed EXCEPT !.pc = "select", !.kind = kind, !.task = t,
                                                      !.source = source, !.reading = TRUE]]
    /\ heard' = [heard EXCEPT ![s] = None]
    /\ UNCHANGED <<hostVars, config, setup, client, saved>>

\* The timer is made with NewTimer(0).
Fingerprint(s) == Open(s, "fingerprint", None, "ready")

TaskStats(s, t) ==
    /\ client[t] # None
    /\ vms[t].exec = "alive"
    /\ Open(s, "stats", t, "armed")

At(s, pc) == stream[s].pc = pc
StreamOnly == UNCHANGED <<hostVars, config, setup, client, saved, heard>>

\* ctx.Done is not among the cases, ...
DoneMutant(s) == FALSE

\* ... or taken, if a source is ready as well, at random.
Done(s) ==
    /\ At(s, "select")
    /\ stream[s].cancelled
    /\ stream' = [stream EXCEPT ![s] = Closed]
    /\ StreamOnly

\* The executor's client closes its channel when the executor ends, and when
\* the context does.
InClosed(s) ==
    /\ At(s, "select")
    /\ stream[s].kind = "stats"
    /\ vms[stream[s].task].exec = "dead" \/ stream[s].cancelled
    /\ stream' = [stream EXCEPT ![s] = Closed]
    /\ StreamOnly

\* The timer fires; the executor has a sample.
Tick(s) ==
    /\ ~At(s, "closed")
    /\ stream[s].source = "armed"
    /\ stream[s].kind = "stats" => vms[stream[s].task].exec = "alive"
    /\ stream' = [stream EXCEPT ![s].source = "ready"]
    /\ StreamOnly

-----------------------------------------------------------------------------
(* handleFingerprint and buildFingerprint.                                 *)

\* The timer is not reset.
WakeMutant(s) ==
    /\ At(s, "select")
    /\ stream[s].kind = "fingerprint" /\ stream[s].source = "ready"
    /\ stream' = [stream EXCEPT ![s].pc = "which", ![s].source = "stopped", ![s].bin = config.bin]
    /\ StreamOnly

Wake(s) ==
    /\ At(s, "select")
    /\ stream[s].kind = "fingerprint" /\ stream[s].source = "ready"
    /\ stream' = [stream EXCEPT ![s].pc = "which", ![s].source = "armed", ![s].bin = config.bin]
    /\ StreamOnly

Undetected == [health |-> "undetected", path |-> None, ran |-> None, dir |-> None]
Unhealthy == [health |-> "unhealthy", path |-> None, ran |-> None, dir |-> None]
Healthy(path, ran, dir) == [health |-> "healthy", path |-> path, ran |-> ran, dir |-> dir]

Which(s) ==
    /\ At(s, "which")
    /\ stream' = IF binary[stream[s].bin] = "absent"
                 THEN [stream EXCEPT ![s].pc = "send", ![s].item = Undetected]
                 ELSE [stream EXCEPT ![s].pc = "version"]
    /\ StreamOnly

RunVersion(s) ==
    /\ At(s, "version")
    /\ stream' = IF binary[stream[s].bin] = "good"
                 THEN [stream EXCEPT ![s].pc = "attributes",
                                     ![s].item = Healthy(None, stream[s].bin, None)]
                 ELSE [stream EXCEPT ![s].pc = "send", ![s].item = Unhealthy]
    /\ StreamOnly

\* The path is read from the configuration again.
AttributesMutant(s) ==
    /\ At(s, "attributes")
    /\ stream' = [stream EXCEPT ![s].pc = "send",
                                ![s].item = Healthy(config.bin, stream[s].bin, config.dir)]
    /\ StreamOnly

\* The directories are, the path is not.
Attributes(s) ==
    /\ At(s, "attributes")
    /\ stream' = [stream EXCEPT ![s].pc = "send",
                                ![s].item = Healthy(stream[s].bin, stream[s].bin, config.dir)]
    /\ StreamOnly

-----------------------------------------------------------------------------
(* The goroutine of TaskStats.                                             *)

Receive(s) ==
    /\ At(s, "select")
    /\ stream[s].kind = "stats" /\ stream[s].source = "ready"
    /\ \E cpu \in [Meter -> Number] :
         stream' = [stream EXCEPT ![s].pc = "query", ![s].source = "armed",
                                  ![s].item = [cpu |-> cpu, memory |-> FALSE]]
    /\ StreamOnly

\* A request of the client gets an answer if a VMM listens where it dials.
Answered(t) == client[t] = vms[t].socket

\* Only the processes are looked at.
SanitizeMutant(cpu) == [m \in Meter |-> IF m = "process" THEN "finite" ELSE cpu[m]]

\* sanitizeTaskResourceUsage: what is not finite becomes 0.
Sanitize(cpu) == [m \in Meter |-> IF cpu[m] = "nan" THEN "finite" ELSE cpu[m]]

\* GetVMInfo is asked until it answers.
QueryMutant(s) ==
    /\ At(s, "query")
    /\ Answered(stream[s].task)
    /\ stream' = [stream EXCEPT ![s].pc = "send",
                                ![s].item = [cpu |-> Sanitize(stream[s].item.cpu), memory |-> TRUE]]
    /\ StreamOnly

\* An error of GetVMInfo leaves the memory out.
Query(s) ==
    /\ At(s, "query")
    /\ stream' = [stream EXCEPT ![s].pc = "send",
                                ![s].item = [cpu |-> Sanitize(stream[s].item.cpu),
                                             memory |-> Answered(stream[s].task)]]
    /\ StreamOnly

-----------------------------------------------------------------------------
(* Nomad and the rest of the world.                                        *)

\* The send meets its receiver.
Deliver(s) ==
    /\ At(s, "send")
    /\ stream[s].reading
    /\ heard' = IF stream[s].kind = "fingerprint" THEN [heard EXCEPT ![s] = stream[s].item] ELSE heard
    /\ stream' = [stream EXCEPT ![s].pc = "select", ![s].bin = None, ![s].item = None]
    /\ UNCHANGED <<hostVars, config, setup, client, saved>>

Cancel(s) ==
    /\ "cancel" \in Hazards
    /\ ~At(s, "closed") /\ ~stream[s].cancelled
    /\ stream' = [stream EXCEPT ![s].cancelled = TRUE]
    /\ StreamOnly

\* Whoever received goes too, sooner or later.
Leave(s) ==
    /\ stream[s].cancelled /\ stream[s].reading
    /\ stream' = [stream EXCEPT ![s].reading = FALSE]
    /\ StreamOnly

Upgrade(p) ==
    /\ "upgrade" \in Hazards
    /\ \E b \in BinaryState \ {binary[p]} : binary' = [binary EXCEPT ![p] = b]
    /\ UNCHANGED <<config, setup, taskVars, stream, heard>>

ExecutorCrash(t) ==
    /\ "executorCrash" \in Hazards
    /\ vms[t].exec = "alive"
    /\ vms' = [vms EXCEPT ![t].exec = "dead"]
    /\ UNCHANGED <<binary, config, setup, client, saved, stream, heard>>

PluginRestart ==
    /\ "pluginCrash" \in Hazards
    /\ config' = None
    /\ setup' = "unset"
    /\ client' = [t \in Task |-> None]
    /\ stream' = [s \in Stream |-> Closed]
    /\ UNCHANGED <<hostVars, saved, heard>>

-----------------------------------------------------------------------------
Loop(s) == Wake(s) \/ Which(s) \/ RunVersion(s) \/ Attributes(s)
             \/ Receive(s) \/ Query(s) \/ InClosed(s)

Next ==
    \/ \E k \in Settings : SetConfig(k)
    \/ CheckConfig
    \/ \E t \in Task : StartTask(t) \/ RecoverTask(t) \/ ExecutorCrash(t)
    \/ \E s \in Stream, t \in Task : TaskStats(s, t)
    \/ \E s \in Stream : Fingerprint(s) \/ Loop(s) \/ Done(s) \/ Tick(s)
    \/ \E s \in Stream : Deliver(s) \/ Cancel(s) \/ Leave(s)
    \/ \E p \in Path : Upgrade(p)
    \/ PluginRestart

Spec == Init /\ [][Next]_vars

\* Go runs what can run and time passes; a receiver that has not left receives.
\* A select with several ready cases chooses among them at random, so Done is
\* not passed over for ever: strong fairness.
StreamFairness(s) ==
    WF_vars(Loop(s)) /\ WF_vars(Tick(s)) /\ WF_vars(Deliver(s)) /\ SF_vars(Done(s))
Fairness == \A s \in Stream : StreamFairness(s)

FairSpec == Spec /\ Fairness

-----------------------------------------------------------------------------
(* Properties.                                                             *)

\* The version Nomad is told is that of the binary it is told, although the
\* configuration may be replaced while the report is built (buildFingerprint
\* reads the path once, and no lock protects d.config).
VersionIsOfPath ==
    \A s \in Stream :
      At(s, "send") /\ stream[s].kind = "fingerprint" => stream[s].item.ran = stream[s].item.path

\* Nothing that is not a number leaves the plugin (sanitizeTaskResourceUsage):
\* the encoding of a sample would fail, and Nomad end the stream.
SentIsFinite ==
    \A s \in Stream :
      At(s, "send") /\ stream[s].kind = "stats" => \A m \in Meter : stream[s].item.cpu[m] = "finite"

\* A handle asks for the VM where it was started, in the directory of that
\* day, whatever configuration the plugin was restarted with (TaskState's
\* SocketPath in RecoverTask).
SocketDirSurvives ==
    \A t \in Task : client[t] # None => client[t].dir = vms[t].socket.dir

\* "The API socket is created at <socketDir>/<taskID>.sock": there the client
\* of the task's handle reaches the VM.
ClientReachesVm ==
    \A t \in Task : client[t] # None => Answered(t)

\* Why: a stream runs on a configured plugin, on what it has read itself, with
\* a source, and a receiver unless it is cancelled, ...
Configured ==
    config = None => setup = "unset" /\ \A s \in Stream : At(s, "closed")
Attended(r) == r.source # "stopped" /\ (r.cancelled \/ r.reading)
Reading(r) ==
    /\ r.pc \in {"which", "version", "attributes"} => r.kind = "fingerprint" /\ r.bin \in Path
    /\ r.pc = "attributes" => r.item = Healthy(None, r.bin, None)
    /\ r.pc = "query" => r.kind = "stats" /\ r.item \in Sample
    /\ r.pc = "send" => r.item \in (IF r.kind = "stats" THEN Sample ELSE Report)
    /\ r.pc # "closed" /\ r.kind = "stats" => r.task \in Task
    /\ r.pc # "closed" => Attended(r)

\* ... and a task's socket is remembered as it was when the task was started.
SocketKept(t) ==
    \A x \in {client[t], saved[t]} \ {None} :
      vms[t].socket # None /\ x.dir = vms[t].socket.dir

\* The inductive invariant of the streams.
StreamsInv ==
    /\ TypeOK
    /\ Configured
    /\ \A s \in Stream : Reading(stream[s])
    /\ \A t \in Task : SocketKept(t)
    /\ VersionIsOfPath
    /\ SentIsFinite

\* A goroutine waits for what its select, its executor or its receiver has to
\* give and for nothing else: there is no program point where it could be held
\* up with all of that at hand (the loops of handleFingerprint and TaskStats).
Runnable(s) ==
    \/ stream[s].pc \in {"which", "version", "attributes", "query"}
    \/ /\ At(s, "select")
       /\ \/ stream[s].source = "ready"
          \/ /\ stream[s].kind = "stats"
             /\ stream[s].cancelled \/ vms[stream[s].task].exec = "dead"
Due(s) ==
    /\ ~At(s, "closed") /\ stream[s].source = "armed"
    /\ stream[s].kind = "stats" => vms[stream[s].task].exec = "alive"
GoesOn(s) ==
    /\ Runnable(s) => ENABLED <<Loop(s)>>_vars
    /\ Due(s) => ENABLED <<Tick(s)>>_vars
    /\ At(s, "send") /\ stream[s].reading => ENABLED <<Deliver(s)>>_vars
    /\ At(s, "select") /\ stream[s].cancelled => ENABLED <<Done(s)>>_vars
NeverHeldUp == \A s \in Stream : GoesOn(s)

\* What a fingerprint of configuration k with a binary in state b says.
Fingerprinted(k, b) ==
    CASE b = "absent" -> Undetected
      [] b = "broken" -> Unhealthy
      [] b = "good"   -> Healthy(k.bin, k.bin, k.dir)

Watching(s) == stream[s].kind = "fingerprint" /\ ~At(s, "closed") /\ ~stream[s].cancelled
Settled(s, k, b) == Watching(s) /\ config = k /\ binary[k.bin] = b
Knows(s, k, b) == heard[s] = Fingerprinted(k, b)

\* Once configuration and binary stay as they are Nomad comes to know them, and
\* nothing it is told later, of an earlier state, takes that back
\* (handleFingerprint resets its timer each time).
CatchesUp ==
    \A s \in Stream, k \in Settings, b \in BinaryState :
      <>[]Settled(s, k, b) => <>[]Knows(s, k, b)

\* A stream that Nomad cancels, or whose executor dies, ends; or its goroutine
\* is left in a send that nobody will receive, the one way to lose it.
Abandoned(s) ==
    stream[s].cancelled \/ (stream[s].kind = "stats" /\ vms[stream[s].task].exec = "dead")
Stuck(s) == At(s, "send") /\ ~stream[s].reading
Halts(s) == At(s, "closed") \/ Stuck(s)
StreamEnds == \A s \in Stream : Abandoned(s) ~> Halts(s)
=============================================================================
