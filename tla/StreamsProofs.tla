---------------------------- MODULE StreamsProofs ----------------------------
(***************************************************************************)
(* Theorems about Streams, for any number of paths, tasks and streams and  *)
(* under any set of hazards.                                               *)
(***************************************************************************)
EXTENDS Streams, TLAPS

USE StreamsAssumption

\* What StreamsInv says of one stream.
Sound(r) ==
    /\ r \in StreamRecord
    /\ Reading(r)
    /\ r.pc = "send" /\ r.kind = "fingerprint" => r.item.ran = r.item.path
    /\ r.pc = "send" /\ r.kind = "stats" => \A m \in Meter : r.item.cpu[m] = "finite"

AllSound == stream \in [Stream -> StreamRecord] /\ \A s \in Stream : Sound(stream[s])

\* A closed stream is sound.
LEMMA ClosedSound == Sound(Closed)
BY DEF Sound, Closed, StreamRecord, Reading, Pc

\* One stream moves to a sound record.
LEMMA StreamStep ==
    ASSUME AllSound, NEW s \in Stream, NEW r, Sound(r), stream' = [stream EXCEPT ![s] = r]
    PROVE  AllSound' /\ (stream[s].pc # "closed" => \A d \in Stream : At(d, "closed") => At(d, "closed")')
BY DEF AllSound, Sound, At

\* The reports and samples that are built are well typed.
LEMMA Built ==
    /\ Undetected \in Report /\ Unhealthy \in Report
    /\ \A p, q \in Path \union {None}, d \in Dir \union {None} : Healthy(p, q, d) \in Report
    /\ \A cpu \in [Meter -> Number], m \in BOOLEAN : [cpu |-> cpu, memory |-> m] \in Sample
    /\ \A cpu \in [Meter -> Number] : /\ Sanitize(cpu) \in [Meter -> Number]
                                      /\ \A m \in Meter : Sanitize(cpu)[m] = "finite"
BY DEF Undetected, Unhealthy, Healthy, Report, Sample, Sanitize, Number

\* What a step of a stream keeps: the plugin stays configured, the streams sound.
StreamKept == AllSound' /\ Configured'

\* A step of an open stream, on a plugin that is configured, keeps both.
LEMMA OpenStep ==
    ASSUME StreamsInv, AllSound, NEW s \in Stream, ~At(s, "closed"), NEW r, Sound(r),
           stream' = [stream EXCEPT ![s] = r], UNCHANGED <<config, setup>>
    PROVE  StreamKept
<1>1. config # None
  BY DEF StreamsInv, Configured
<1> QED
  BY <1>1, StreamStep DEF StreamKept, Configured

\* Every step of the fingerprint loop keeps the streams sound.
LEMMA FingerprintSteps ==
    ASSUME StreamsInv, AllSound, NEW s \in Stream,
           Wake(s) \/ Which(s) \/ RunVersion(s) \/ Attributes(s)
    PROVE  StreamKept
<1>1. stream[s] \in StreamRecord /\ Reading(stream[s])
  BY DEF AllSound, Sound
<1>2. CASE Wake(s)
  <2> DEFINE r == [stream[s] EXCEPT !.pc = "which", !.source = "armed", !.bin = config.bin]
  <2>1. config \in Config
    BY <1>2 DEF Wake, At, StreamsInv, Configured, TypeOK
  <2>2. r \in StreamRecord /\ Reading(r) /\ r.pc = "which"
    BY <1>1, <1>2, <2>1 DEF Wake, At, StreamRecord, Pc, Config, Reading, Attended
  <2>3. Sound(r)
    BY <2>2 DEF Sound
  <2>4. stream' = [stream EXCEPT ![s] = r]
    BY <1>2 DEF Wake, AllSound
  <2> HIDE DEF r
  <2> QED
    BY <1>2, <2>3, <2>4, OpenStep DEF Wake, At, StreamOnly
<1>3. CASE Which(s)
  <2> DEFINE r == IF binary[stream[s].bin] = "absent"
                  THEN [stream[s] EXCEPT !.pc = "send", !.item = Undetected]
                  ELSE [stream[s] EXCEPT !.pc = "version"]
  <2>1. r \in StreamRecord /\ Reading(r)
    BY <1>1, <1>3, Built DEF Which, At, StreamRecord, Pc, Item, Reading, Attended
  <2>2. r.pc \in {"send", "version"} /\ r.kind = "fingerprint"
    BY <1>1, <1>3 DEF Which, At, StreamRecord, Reading
  <2>3. r.pc = "send" => r.item.ran = r.item.path
    BY <1>1 DEF StreamRecord, Undetected
  <2>4. Sound(r)
    BY <2>1, <2>2, <2>3 DEF Sound
  <2>5. stream' = [stream EXCEPT ![s] = r]
    BY <1>3 DEF Which, AllSound
  <2> HIDE DEF r
  <2> QED
    BY <1>3, <2>4, <2>5, OpenStep DEF Which, At, StreamOnly
<1>4. CASE RunVersion(s)
  <2> DEFINE h == Healthy(None, stream[s].bin, None)
             r == IF binary[stream[s].bin] = "good"
                  THEN [stream[s] EXCEPT !.pc = "attributes", !.item = h]
                  ELSE [stream[s] EXCEPT !.pc = "send", !.item = Unhealthy]
  <2>1. /\ stream[s].bin \in Path /\ stream[s].kind = "fingerprint"
        /\ h \in Report
    BY <1>1, <1>4, Built DEF RunVersion, At, Reading
  <2>2. r \in StreamRecord /\ Reading(r)
    <3> HIDE DEF h
    <3>1. r \in StreamRecord
      BY <1>1, <2>1, Built DEF StreamRecord, Pc, Item
    <3>2. Reading(r)
      BY <1>1, <1>4, <2>1, Built DEF RunVersion, At, StreamRecord, Reading, Attended, h
    <3> QED
      BY <3>1, <3>2
  <2>3. r.pc \in {"send", "attributes"} /\ r.kind = "fingerprint"
    BY <1>1, <2>1 DEF StreamRecord
  <2>4. r.pc = "send" => r.item.ran = r.item.path
    BY <1>1 DEF StreamRecord, Unhealthy
  <2>5. Sound(r)
    BY <2>2, <2>3, <2>4 DEF Sound
  <2>6. stream' = [stream EXCEPT ![s] = r]
    BY <1>4 DEF RunVersion, AllSound
  <2> HIDE DEF r
  <2> QED
    BY <1>4, <2>5, <2>6, OpenStep DEF RunVersion, At, StreamOnly
<1>5. CASE Attributes(s)
  <2> DEFINE h == Healthy(stream[s].bin, stream[s].bin, config.dir)
             r == [stream[s] EXCEPT !.pc = "send", !.item = h]
  <2>1. config \in Config
    BY <1>5 DEF Attributes, At, StreamsInv, Configured, TypeOK
  <2>2. stream[s].bin \in Path /\ stream[s].kind = "fingerprint"
    BY <1>1, <1>5 DEF Attributes, At, Reading
  <2>3. h \in Report /\ h.ran = h.path
    BY <2>1, <2>2, Built DEF Config, Healthy
  <2> HIDE DEF h
  <2>4. r \in StreamRecord /\ r.pc = "send" /\ r.kind = "fingerprint" /\ r.item = h /\ Attended(r)
    BY <1>1, <1>5, <2>2, <2>3 DEF Attributes, At, Reading, Attended, StreamRecord, Pc, Item
  <2>5. Sound(r)
    BY <2>3, <2>4 DEF Sound, Reading, Attended
  <2>6. stream' = [stream EXCEPT ![s] = r]
    BY <1>5 DEF Attributes, AllSound, h
  <2> HIDE DEF r
  <2> QED
    BY <1>5, <2>5, <2>6, OpenStep DEF Attributes, At, StreamOnly
<1> QED
  BY <1>2, <1>3, <1>4, <1>5

\* So does every step of the goroutine of TaskStats.
LEMMA StatsSteps ==
    ASSUME StreamsInv, AllSound, NEW s \in Stream, Receive(s) \/ Query(s)
    PROVE  StreamKept
<1>1. stream[s] \in StreamRecord /\ Reading(stream[s])
  BY DEF AllSound, Sound
<1>2. CASE Receive(s)
  <2> PICK cpu \in [Meter -> Number] :
        stream' = [stream EXCEPT ![s].pc = "query", ![s].source = "armed",
                                 ![s].item = [cpu |-> cpu, memory |-> FALSE]]
    BY <1>2 DEF Receive
  <2> DEFINE i == [cpu |-> cpu, memory |-> FALSE]
             r == [stream[s] EXCEPT !.pc = "query", !.source = "armed", !.item = i]
  <2>1. i \in Sample
    BY Built
  <2>2. stream' = [stream EXCEPT ![s] = r]
    BY DEF AllSound
  <2> HIDE DEF i
  <2>3. /\ r \in StreamRecord /\ r.pc = "query" /\ r.kind = "stats" /\ r.item = i /\ r.task \in Task
        /\ Attended(r)
    BY <1>1, <1>2, <2>1 DEF Receive, At, StreamRecord, Pc, Item, Reading, Attended
  <2>4. Sound(r)
    BY <2>1, <2>3 DEF Sound, Reading, Attended
  <2> HIDE DEF r
  <2> QED
    BY <1>2, <2>2, <2>4, OpenStep DEF Receive, At, StreamOnly
<1>3. CASE Query(s)
  <2> DEFINE cpu == Sanitize(stream[s].item.cpu)
             i == [cpu |-> cpu, memory |-> Answered(stream[s].task)]
             r == [stream[s] EXCEPT !.pc = "send", !.item = i]
  <2>1. stream[s].kind = "stats" /\ stream[s].item \in Sample /\ stream[s].task \in Task
    BY <1>1, <1>3 DEF Query, At, Reading
  <2>2. cpu \in [Meter -> Number] /\ \A m \in Meter : cpu[m] = "finite"
    BY <2>1, Built DEF Sample
  <2>3. Answered(stream[s].task) \in BOOLEAN
    BY DEF Answered
  <2> HIDE DEF cpu
  <2>4. i \in Sample /\ i.cpu = cpu
    BY <2>2, <2>3, Built
  <2>5. stream' = [stream EXCEPT ![s] = r]
    BY <1>3 DEF Query, AllSound, cpu
  <2> HIDE DEF i
  <2>6. /\ r \in StreamRecord /\ r.pc = "send" /\ r.kind = "stats" /\ r.item = i /\ r.task \in Task
        /\ Attended(r)
    BY <1>1, <1>3, <2>1, <2>4 DEF Query, At, Reading, Attended, StreamRecord, Pc, Item
  <2>7. Sound(r)
    BY <2>2, <2>4, <2>6 DEF Sound, Reading, Attended
  <2> HIDE DEF r
  <2> QED
    BY <1>3, <2>5, <2>7, OpenStep DEF Query, At, StreamOnly
<1> QED
  BY <1>2, <1>3

\* Opening, waking up to an end, and what Nomad does with a stream.
LEMMA EdgeSteps ==
    ASSUME StreamsInv, AllSound, NEW s \in Stream,
           \/ Fingerprint(s) \/ \E t \in Task : TaskStats(s, t)
           \/ Done(s) \/ InClosed(s) \/ Tick(s) \/ Deliver(s) \/ Cancel(s) \/ Leave(s)
    PROVE  StreamKept
<1>1. stream[s] \in StreamRecord /\ Sound(stream[s])
  BY DEF AllSound
<1>2. ASSUME NEW kind \in {"fingerprint", "stats"}, NEW t \in Task \union {None},
             NEW source \in {"ready", "armed"}, kind = "stats" => t \in Task,
             Open(s, kind, t, source)
      PROVE  StreamKept
  <2> DEFINE r == [Closed EXCEPT !.pc = "select", !.kind = kind, !.task = t,
                                 !.source = source, !.reading = TRUE]
  <2>1. Sound(r)
    BY <1>2 DEF Sound, Closed, StreamRecord, Reading, Attended, Pc
  <2>2. stream' = [stream EXCEPT ![s] = r] /\ config' = config /\ setup' = setup /\ setup = "ok"
    BY <1>2 DEF Open
  <2>3. config # None
    BY <2>2 DEF StreamsInv, Configured
  <2> HIDE DEF r
  <2> QED
    BY <2>1, <2>2, <2>3, StreamStep DEF StreamKept, Configured
<1>3. CASE Fingerprint(s) \/ \E t \in Task : TaskStats(s, t)
  <2>1. CASE Fingerprint(s)
    <3>1. Open(s, "fingerprint", None, "ready")
      BY <2>1 DEF Fingerprint
    <3> QED
      BY <1>2, <3>1
  <2>2. ASSUME NEW t \in Task, TaskStats(s, t) PROVE StreamKept
    <3>1. Open(s, "stats", t, "armed")
      BY <2>2 DEF TaskStats
    <3> QED
      BY <1>2, <3>1
  <2> QED
    BY <1>3, <2>1, <2>2
<1>4. CASE Done(s) \/ InClosed(s)
  BY <1>4, ClosedSound, OpenStep DEF Done, InClosed, At, StreamOnly
<1>5. ASSUME NEW r, r \in StreamRecord, stream' = [stream EXCEPT ![s] = r],
             r.pc = stream[s].pc \/ r.pc = "select", stream[s].pc # "closed",
             r.kind = stream[s].kind, r.task = stream[s].task, Attended(r),
             r.pc = "select" \/ (r.bin = stream[s].bin /\ r.item = stream[s].item),
             UNCHANGED <<config, setup>>
      PROVE  StreamKept
  <2>1. Sound(r)
    BY <1>1, <1>5 DEF Sound, Reading, Attended
  <2> QED
    BY <1>5, <2>1, OpenStep DEF At
<1>a. stream[s].pc # "closed" => Attended(stream[s])
  BY <1>1 DEF Sound, Reading
<1>6. CASE Tick(s)
  <2> DEFINE r == [stream[s] EXCEPT !.source = "ready"]
  <2>1. r \in StreamRecord /\ Attended(r) /\ stream' = [stream EXCEPT ![s] = r]
    BY <1>1, <1>a, <1>6 DEF Tick, At, Attended, StreamRecord, AllSound
  <2> QED
    BY <1>5, <1>6, <2>1 DEF Tick, At, StreamOnly, StreamRecord
<1>7. CASE Deliver(s)
  <2> DEFINE r == [stream[s] EXCEPT !.pc = "select", !.bin = None, !.item = None]
  <2>1. r \in StreamRecord /\ Attended(r) /\ stream' = [stream EXCEPT ![s] = r]
    BY <1>1, <1>a, <1>7 DEF Deliver, At, Attended, StreamRecord, AllSound, Pc
  <2> QED
    BY <1>5, <1>7, <2>1, <1>1 DEF Deliver, At, StreamRecord
<1>8. CASE Cancel(s)
  <2> DEFINE r == [stream[s] EXCEPT !.cancelled = TRUE]
  <2>1. r \in StreamRecord /\ Attended(r) /\ stream' = [stream EXCEPT ![s] = r]
    BY <1>1, <1>a, <1>8 DEF Cancel, At, Attended, StreamRecord, AllSound
  <2> QED
    BY <1>5, <1>8, <2>1 DEF Cancel, At, StreamOnly, StreamRecord
<1>9. CASE Leave(s)
  <2> DEFINE r == [stream[s] EXCEPT !.reading = FALSE]
  <2>1. r \in StreamRecord /\ stream' = [stream EXCEPT ![s] = r]
    BY <1>1, <1>9 DEF Leave, StreamRecord, AllSound
  <2>2. CASE stream[s].pc # "closed"
    <3>1. Attended(r)
      BY <1>1, <1>a, <1>9, <2>2 DEF Leave, Attended, StreamRecord
    <3> QED
      BY <1>5, <1>9, <2>1, <2>2, <3>1 DEF Leave, StreamOnly, StreamRecord
  <2>3. CASE stream[s].pc = "closed"
    <3>1. Sound(r)
      BY <1>1, <2>1, <2>3 DEF Sound, Reading, StreamRecord
    <3>2. \A d \in Stream : At(d, "closed")' <=> At(d, "closed")
      BY <1>1, <2>1, <2>3 DEF At, AllSound, StreamRecord
    <3> QED
      BY <1>9, <2>1, <3>1, <3>2, StreamStep DEF Leave, StreamOnly, StreamKept, StreamsInv, Configured
  <2> QED
    BY <2>2, <2>3
<1> QED
  BY <1>3, <1>4, <1>6, <1>7, <1>8, <1>9

-----------------------------------------------------------------------------
(* The invariant.                                                          *)

\* Sound streams are what StreamsInv asks of them.
LEMMA SoundStreams ==
    AllSound <=> /\ stream \in [Stream -> StreamRecord]
                 /\ \A s \in Stream : Reading(stream[s])
                 /\ VersionIsOfPath /\ SentIsFinite
BY DEF AllSound, Sound, VersionIsOfPath, SentIsFinite, At

\* Everything but the streams is well typed.
RestOK ==
    /\ binary \in [Path -> BinaryState]
    /\ config \in Config \union {None}
    /\ setup \in Setup
    /\ vms \in [Task -> VmRecord]
    /\ client \in [Task -> Socket \union {None}]
    /\ saved \in [Task -> Socket \union {None}]
    /\ heard \in [Stream -> Report \union {None}]
    /\ \A t \in Task : SocketKept(t)

\* StreamsInv in two parts, that of the streams and that of the rest.
LEMMA InvParts == StreamsInv <=> AllSound /\ Configured /\ RestOK
BY SoundStreams DEF StreamsInv, TypeOK, RestOK

\* After a step too.
LEMMA PartsAfter == ASSUME AllSound', Configured', RestOK' PROVE StreamsInv'
BY DEF AllSound, Sound, VersionIsOfPath, SentIsFinite, At, StreamsInv, TypeOK, RestOK

\* The invariant holds when the plugin starts.
LEMMA InitInv == Init => StreamsInv
<1> SUFFICES ASSUME Init PROVE StreamsInv
  OBVIOUS
<1>1. AllSound
  BY ClosedSound DEF Init, AllSound, Sound
<1>2. Configured
  BY DEF Init, Configured, At, Closed
<1>3. RestOK
  BY DEF Init, RestOK, Setup, VmRecord, NoVm, SocketKept
<1> QED
  BY <1>1, <1>2, <1>3, InvParts

\* A step of a stream leaves the rest alone, but for what Nomad has heard.
LEMMA StreamRest ==
    ASSUME StreamsInv, NEW s \in Stream,
           \/ Fingerprint(s) \/ \E t \in Task : TaskStats(s, t)
           \/ Loop(s) \/ Done(s) \/ Tick(s) \/ Deliver(s) \/ Cancel(s) \/ Leave(s)
    PROVE  RestOK'
<1>1. RestOK
  BY InvParts
<1>2. UNCHANGED <<hostVars, config, setup, client, saved>>
  BY DEF Fingerprint, TaskStats, Open, Loop, Wake, Which, RunVersion, Attributes, Receive, Query,
         InClosed, Done, Tick, Deliver, Cancel, Leave, StreamOnly
<1>3. heard' \in [Stream -> Report \union {None}]
  <2>1. CASE Deliver(s)
    <3>1. Reading(stream[s])
      BY DEF StreamsInv
    <3>2. stream[s].kind = "fingerprint" => stream[s].item \in Report
      BY <2>1, <3>1 DEF Deliver, At, Reading
    <3> QED
      BY <1>1, <2>1, <3>2 DEF Deliver, RestOK
  <2>2. CASE Fingerprint(s) \/ \E t \in Task : TaskStats(s, t)
    BY <1>1, <2>2 DEF Fingerprint, TaskStats, Open, RestOK
  <2>3. CASE Loop(s) \/ Done(s) \/ Tick(s) \/ Cancel(s) \/ Leave(s)
    BY <1>1, <2>3 DEF Loop, Wake, Which, RunVersion, Attributes, Receive, Query, InClosed, Done,
                      Tick, Cancel, Leave, StreamOnly, RestOK
  <2> QED
    BY <2>1, <2>2, <2>3
<1> QED
  BY <1>1, <1>2, <1>3 DEF RestOK, SocketKept, hostVars

\* SetConfig: the configuration is stored, then looked at.
LEMMA SetConfigStep ==
    ASSUME StreamsInv, (\E k \in Settings : SetConfig(k)) \/ CheckConfig
    PROVE  StreamsInv'
<1>1. AllSound /\ Configured /\ RestOK
  BY InvParts
<1>2. config' \in Config /\ setup' \in Setup
  BY <1>1 DEF SetConfig, CheckConfig, Setup, Configured, RestOK
<1>3. UNCHANGED <<binary, taskVars, stream, heard>>
  BY DEF SetConfig, CheckConfig
<1> QED
  BY <1>1, <1>2, <1>3, PartsAfter DEF AllSound, Configured, RestOK, SocketKept, taskVars

\* Starting, recovering and losing the executor of a task.
LEMMA TaskStep ==
    ASSUME StreamsInv, NEW t \in Task, StartTask(t) \/ RecoverTask(t) \/ ExecutorCrash(t)
    PROVE  StreamsInv'
<1>1. AllSound /\ Configured /\ RestOK
  BY InvParts
<1>2. UNCHANGED <<binary, config, setup, stream, heard>>
  BY DEF StartTask, RecoverTask, ExecutorCrash
<1>3. CASE StartTask(t)
  <2> DEFINE base == [dir |-> config.dir, suffix |-> FALSE]
             new == [exec |-> "alive", socket |-> [base EXCEPT !.suffix = TRUE]]
  <2>1. config \in Config
    BY <1>1, <1>3 DEF StartTask, Configured, RestOK
  <2>2. base \in Socket /\ base.dir = config.dir
    BY <2>1 DEF Config, Socket
  <2>3. new \in VmRecord /\ new.socket # None /\ new.socket.dir = config.dir
    BY <2>1 DEF Config, Socket, VmRecord
  <2>4. /\ vms' = [vms EXCEPT ![t] = new]
        /\ client' = [client EXCEPT ![t] = base]
        /\ saved' = [saved EXCEPT ![t] = base]
    BY <1>3 DEF StartTask
  <2> HIDE DEF base, new
  <2>5. \A u \in Task : SocketKept(u)'
    BY <1>1, <2>2, <2>3, <2>4 DEF SocketKept, RestOK
  <2> QED
    BY <1>1, <1>2, <2>2, <2>3, <2>4, <2>5, PartsAfter DEF AllSound, Configured, RestOK, At
<1>4. CASE RecoverTask(t)
  <2>1. client' = [client EXCEPT ![t] = saved[t]] /\ UNCHANGED <<vms, saved>>
    BY <1>4 DEF RecoverTask
  <2>2. \A u \in Task : SocketKept(u)'
    BY <1>1, <2>1 DEF SocketKept, RestOK
  <2> QED
    BY <1>1, <1>2, <2>1, <2>2, PartsAfter DEF AllSound, Configured, RestOK, At
<1>5. CASE ExecutorCrash(t)
  <2>1. vms' = [vms EXCEPT ![t].exec = "dead"] /\ UNCHANGED <<client, saved>>
    BY <1>5 DEF ExecutorCrash
  <2>2. /\ vms' \in [Task -> VmRecord]
        /\ \A u \in Task : vms'[u].socket = vms[u].socket
    BY <1>1, <2>1 DEF RestOK, VmRecord
  <2>3. \A u \in Task : SocketKept(u)'
    BY <1>1, <2>1, <2>2 DEF SocketKept, RestOK
  <2> QED
    BY <1>1, <1>2, <2>1, <2>2, <2>3, PartsAfter DEF AllSound, Configured, RestOK, At
<1> QED
  BY <1>3, <1>4, <1>5

\* Binaries that come and go, and a plugin that starts afresh.
LEMMA WorldStep ==
    ASSUME StreamsInv, (\E p \in Path : Upgrade(p)) \/ PluginRestart
    PROVE  StreamsInv'
<1>1. AllSound /\ Configured /\ RestOK
  BY InvParts
<1>2. CASE \E p \in Path : Upgrade(p)
  <2>1. binary' \in [Path -> BinaryState] /\ UNCHANGED <<config, setup, taskVars, stream, heard>>
    BY <1>1, <1>2 DEF Upgrade, RestOK
  <2> QED
    BY <1>1, <2>1, PartsAfter DEF AllSound, Configured, RestOK, At, SocketKept, taskVars
<1>3. CASE PluginRestart
  <2>1. AllSound'
    BY <1>3, ClosedSound DEF PluginRestart, AllSound, Sound
  <2>2. Configured'
    BY <1>3 DEF PluginRestart, Configured, At, Closed
  <2>3. RestOK'
    BY <1>1, <1>3 DEF PluginRestart, RestOK, Setup, SocketKept, hostVars
  <2> QED
    BY <2>1, <2>2, <2>3, PartsAfter
<1> QED
  BY <1>2, <1>3

\* Every step keeps it.
LEMMA NextInv == StreamsInv /\ [Next]_vars => StreamsInv'
<1> SUFFICES ASSUME StreamsInv, [Next]_vars PROVE StreamsInv'
  OBVIOUS
<1>1. AllSound /\ Configured /\ RestOK
  BY InvParts
<1>2. ASSUME NEW s \in Stream,
             \/ Fingerprint(s) \/ \E t \in Task : TaskStats(s, t)
             \/ Loop(s) \/ Done(s) \/ Tick(s) \/ Deliver(s) \/ Cancel(s) \/ Leave(s)
      PROVE  StreamsInv'
  <2>1. StreamKept
    BY <1>1, <1>2, FingerprintSteps, StatsSteps, EdgeSteps DEF Loop
  <2>2. RestOK'
    BY <1>2, StreamRest
  <2> QED
    BY <2>1, <2>2, PartsAfter DEF StreamKept
<1>3. CASE UNCHANGED vars
  BY <1>1, <1>3, PartsAfter DEF vars, taskVars, AllSound, Configured, RestOK, At, SocketKept
<1> QED
  BY <1>2, <1>3, SetConfigStep, TaskStep, WorldStep DEF Next

\* The streams run on a configured plugin, on what they read themselves, and
\* every task's socket is remembered where the task was started.
THEOREM StreamsInvariant == Spec => []StreamsInv
BY InitInv, NextInv, PTL DEF Spec

\* A healthy fingerprint tells the version of the binary it names, however
\* often the plugin is configured again while it is built.
THEOREM VersionsAreOfPaths == Spec => []VersionIsOfPath
<1>1. StreamsInv => VersionIsOfPath
  BY DEF StreamsInv
<1> QED
  BY <1>1, StreamsInvariant, PTL

\* Every number of a sample that is sent is finite.
THEOREM SamplesAreFinite == Spec => []SentIsFinite
<1>1. StreamsInv => SentIsFinite
  BY DEF StreamsInv
<1> QED
  BY <1>1, StreamsInvariant, PTL

\* A recovered handle asks where its VM was started.
THEOREM SocketDirsSurvive == Spec => []SocketDirSurvives
<1>1. StreamsInv => SocketDirSurvives
  BY DEF StreamsInv, SocketKept, SocketDirSurvives
<1> QED
  BY <1>1, StreamsInvariant, PTL

-----------------------------------------------------------------------------
(* Progress.  TLAPS knows nothing of ENABLED: what is used of it is        *)
(* NeverHeldUp, an invariant TLC checks.                                   *)

\* What can become of an open stream in one step.
LEMMA OpenMoves ==
    ASSUME NEW s \in Stream, StreamsInv, [Next]_vars, ~At(s, "closed")
    PROVE  \/ stream'[s] = stream[s] \/ At(s, "closed")'
           \/ Wake(s) \/ Which(s) \/ RunVersion(s) \/ Attributes(s) \/ Receive(s) \/ Query(s)
           \/ Tick(s) \/ Deliver(s) \/ Cancel(s) \/ Leave(s)
<1>t. stream \in [Stream -> StreamRecord]
  BY DEF StreamsInv, TypeOK
<1>1. ASSUME NEW d \in Stream, \/ Fingerprint(d) \/ \E t \in Task : TaskStats(d, t)
                               \/ Loop(d) \/ Done(d) \/ Tick(d) \/ Deliver(d) \/ Cancel(d) \/ Leave(d)
      PROVE  d = s \/ stream'[s] = stream[s]
  BY <1>t, <1>1 DEF Fingerprint, TaskStats, Open, Loop, Wake, Which, RunVersion, Attributes, Receive,
                    Query, InClosed, Done, Tick, Deliver, Cancel, Leave
<1>2. CASE \/ Fingerprint(s) \/ \E t \in Task : TaskStats(s, t)
           \/ Loop(s) \/ Done(s) \/ Tick(s) \/ Deliver(s) \/ Cancel(s) \/ Leave(s)
  <2>1. ~(Fingerprint(s) \/ \E t \in Task : TaskStats(s, t))
    BY DEF Fingerprint, TaskStats, Open, At
  <2>2. InClosed(s) \/ Done(s) => At(s, "closed")'
    BY <1>t DEF InClosed, Done, At, Closed
  <2> QED
    BY <1>2, <2>1, <2>2 DEF Loop
<1>3. CASE \/ (\E k \in Settings : SetConfig(k)) \/ CheckConfig
           \/ \E t \in Task : StartTask(t) \/ RecoverTask(t) \/ ExecutorCrash(t)
           \/ \E p \in Path : Upgrade(p)
           \/ UNCHANGED vars
  BY <1>3 DEF SetConfig, CheckConfig, StartTask, RecoverTask, ExecutorCrash, Upgrade, vars
<1>4. CASE PluginRestart
  BY <1>4 DEF PluginRestart, At, Closed
<1> QED
  BY <1>1, <1>2, <1>3, <1>4 DEF Next

\* From where to where each step goes, ...
LEMMA Moves ==
    ASSUME NEW s \in Stream, StreamsInv
    PROVE  /\ Wake(s) => At(s, "select") /\ At(s, "which")'
           /\ Which(s) => At(s, "which") /\ (At(s, "version")' \/ At(s, "send")')
           /\ RunVersion(s) => At(s, "version") /\ (At(s, "attributes")' \/ At(s, "send")')
           /\ Attributes(s) => At(s, "attributes") /\ At(s, "send")'
           /\ Receive(s) => At(s, "select") /\ At(s, "query")'
           /\ Query(s) => At(s, "query") /\ At(s, "send")'
           /\ Deliver(s) => At(s, "send") /\ At(s, "select")'
           /\ Tick(s) \/ Cancel(s) \/ Leave(s) => stream'[s].pc = stream[s].pc
<1>t. stream \in [Stream -> StreamRecord]
  BY DEF StreamsInv, TypeOK
<1>1. Wake(s) => At(s, "select") /\ At(s, "which")'
  BY <1>t DEF Wake, At, StreamRecord
<1>2. Which(s) => At(s, "which") /\ (At(s, "version")' \/ At(s, "send")')
  BY <1>t DEF Which, At, StreamRecord
<1>3. RunVersion(s) => At(s, "version") /\ (At(s, "attributes")' \/ At(s, "send")')
  BY <1>t DEF RunVersion, At, StreamRecord
<1>4. Attributes(s) => At(s, "attributes") /\ At(s, "send")'
  BY <1>t DEF Attributes, At, StreamRecord
<1>5. Receive(s) => At(s, "select") /\ At(s, "query")'
  BY <1>t DEF Receive, At, StreamRecord
<1>6. Query(s) => At(s, "query") /\ At(s, "send")'
  BY <1>t DEF Query, At, StreamRecord
<1>7. Deliver(s) => At(s, "send") /\ At(s, "select")'
  BY <1>t DEF Deliver, At, StreamRecord
<1>8. Tick(s) \/ Cancel(s) \/ Leave(s) => stream'[s].pc = stream[s].pc
  BY <1>t DEF Tick, Cancel, Leave, StreamRecord
<1> QED
  BY <1>1, <1>2, <1>3, <1>4, <1>5, <1>6, <1>7, <1>8

\* ... and what a stream keeps until it is closed.
LEMMA OpenKeeps ==
    ASSUME NEW s \in Stream, StreamsInv, [Next]_vars, ~At(s, "closed"), ~At(s, "closed")'
    PROVE  /\ stream'[s].kind = stream[s].kind /\ stream'[s].task = stream[s].task
           /\ stream[s].cancelled => stream'[s].cancelled
<1> DEFINE Same == /\ stream'[s].kind = stream[s].kind /\ stream'[s].task = stream[s].task
                   /\ stream[s].cancelled => stream'[s].cancelled
<1>t. stream \in [Stream -> StreamRecord]
  BY DEF StreamsInv, TypeOK
<1>1. Wake(s) \/ Attributes(s) \/ Query(s) \/ Deliver(s) => Same
  BY <1>t DEF Wake, Attributes, Query, Deliver, StreamRecord
<1>2. Which(s) => Same
  BY <1>t DEF Which, StreamRecord
<1>3. RunVersion(s) => Same
  BY <1>t DEF RunVersion, StreamRecord
<1>4. Receive(s) => Same
  BY <1>t DEF Receive, StreamRecord
<1>5. Tick(s) \/ Cancel(s) \/ Leave(s) => Same
  BY <1>t DEF Tick, Cancel, Leave, StreamRecord
<1> QED
  BY <1>1, <1>2, <1>3, <1>4, <1>5, OpenMoves

\* Where the program points lead.
LEMMA Successors ==
    ASSUME NEW s \in Stream, StreamsInv, [Next]_vars
    PROVE  /\ At(s, "which") => At(s, "which")' \/ At(s, "version")' \/ At(s, "send")' \/ At(s, "closed")'
           /\ At(s, "version") => At(s, "version")' \/ At(s, "attributes")' \/ At(s, "send")' \/ At(s, "closed")'
           /\ At(s, "attributes") => At(s, "attributes")' \/ At(s, "send")' \/ At(s, "closed")'
           /\ At(s, "query") => At(s, "query")' \/ At(s, "send")' \/ At(s, "closed")'
           /\ At(s, "send") => At(s, "send")' \/ At(s, "select")' \/ At(s, "closed")'
BY OpenMoves, Moves DEF At

\* Where a step of the goroutine itself leads.
LEMMA OwnSuccessors ==
    ASSUME NEW s \in Stream, StreamsInv
    PROVE  /\ Loop(s) /\ At(s, "which") => At(s, "version")' \/ At(s, "send")'
           /\ Loop(s) /\ At(s, "version") => At(s, "attributes")' \/ At(s, "send")'
           /\ Loop(s) /\ At(s, "attributes") => At(s, "send")'
           /\ Loop(s) /\ At(s, "query") => At(s, "send")'
           /\ Deliver(s) => At(s, "select")'
           /\ Done(s) => At(s, "closed")'
<1>t. stream \in [Stream -> StreamRecord]
  BY DEF StreamsInv, TypeOK
<1> QED
  BY <1>t DEF Loop, Wake, Which, RunVersion, Attributes, Receive, Query, InClosed, Deliver, Done, At,
              StreamRecord, Closed

\* What fairness says of one stream.
LEMMA FairStream ==
    ASSUME NEW s \in Stream
    PROVE  FairSpec /\ []NeverHeldUp =>
             [][Next]_vars /\ []StreamsInv /\ []GoesOn(s) /\ StreamFairness(s)
<1>1. Fairness => StreamFairness(s)
  BY DEF Fairness
<1>2. NeverHeldUp => GoesOn(s)
  BY DEF NeverHeldUp
<1> QED
  BY <1>1, <1>2, StreamsInvariant, PTL DEF FairSpec, Spec

\* An open stream comes back to its select, unless it is closed or left in a send.
Received(s) == At(s, "send") /\ stream[s].reading
LEMMA ReachesSelect ==
    ASSUME NEW s \in Stream
    PROVE  FairSpec /\ []NeverHeldUp => (~At(s, "closed") ~> At(s, "select") \/ Halts(s))
<1> DEFINE Inside == [][Next]_vars /\ []StreamsInv /\ []GoesOn(s) /\ StreamFairness(s)
<1>1. Inside => (At(s, "send") ~> At(s, "select") \/ Halts(s))
  <2>1. StreamsInv /\ [Next]_vars /\ At(s, "send") =>
          At(s, "send")' \/ At(s, "select")' \/ At(s, "closed")'
    BY Successors
  <2>2. StreamsInv /\ <<Deliver(s)>>_vars => At(s, "select")'
    BY OwnSuccessors
  <2>3. /\ At(s, "send") => Received(s) \/ Halts(s)
        /\ At(s, "closed") => Halts(s)
    BY DEF Received, Halts, Stuck
  <2>4. GoesOn(s) /\ Received(s) => ENABLED <<Deliver(s)>>_vars
    BY DEF GoesOn, Received
  <2> QED
    BY <2>1, <2>2, <2>3, <2>4, PTL DEF StreamFairness
<1>r. GoesOn(s) /\ (At(s, "which") \/ At(s, "version") \/ At(s, "attributes") \/ At(s, "query"))
        => ENABLED <<Loop(s)>>_vars
  BY DEF GoesOn, Runnable, At
<1>2. Inside => (At(s, "query") \/ At(s, "attributes") ~> At(s, "send") \/ At(s, "closed"))
  <2>1. StreamsInv /\ [Next]_vars =>
          /\ At(s, "query") => At(s, "query")' \/ At(s, "send")' \/ At(s, "closed")'
          /\ At(s, "attributes") => At(s, "attributes")' \/ At(s, "send")' \/ At(s, "closed")'
    BY Successors
  <2>2. StreamsInv /\ <<Loop(s)>>_vars /\ (At(s, "query") \/ At(s, "attributes")) => At(s, "send")'
    BY OwnSuccessors
  <2> QED
    BY <1>r, <2>1, <2>2, PTL DEF StreamFairness
<1>3. Inside => (At(s, "version") ~> At(s, "attributes") \/ At(s, "send") \/ At(s, "closed"))
  <2>1. StreamsInv /\ [Next]_vars /\ At(s, "version") =>
          At(s, "version")' \/ At(s, "attributes")' \/ At(s, "send")' \/ At(s, "closed")'
    BY Successors
  <2>2. StreamsInv /\ <<Loop(s)>>_vars /\ At(s, "version") => At(s, "attributes")' \/ At(s, "send")'
    BY OwnSuccessors
  <2> QED
    BY <1>r, <2>1, <2>2, PTL DEF StreamFairness
<1>4. Inside => (At(s, "which") ~> At(s, "version") \/ At(s, "send") \/ At(s, "closed"))
  <2>1. StreamsInv /\ [Next]_vars /\ At(s, "which") =>
          At(s, "which")' \/ At(s, "version")' \/ At(s, "send")' \/ At(s, "closed")'
    BY Successors
  <2>2. StreamsInv /\ <<Loop(s)>>_vars /\ At(s, "which") => At(s, "version")' \/ At(s, "send")'
    BY OwnSuccessors
  <2> QED
    BY <1>r, <2>1, <2>2, PTL DEF StreamFairness
<1>5. StreamsInv => \/ At(s, "closed") \/ At(s, "select") \/ At(s, "which") \/ At(s, "version")
                    \/ At(s, "attributes") \/ At(s, "query") \/ At(s, "send")
  BY DEF StreamsInv, TypeOK, StreamRecord, Pc, At
<1>6. At(s, "closed") => Halts(s)
  BY DEF Halts
<1>7. FairSpec /\ []NeverHeldUp => Inside
  BY FairStream
<1> HIDE DEF Inside
<1>8. Inside => []StreamsInv
  BY PTL DEF Inside
<1> QED
  BY <1>1, <1>2, <1>3, <1>4, <1>5, <1>6, <1>7, <1>8, PTL

\* A stream that is cancelled: it stays so, and Done is its way out.
Cancelled(s) == ~At(s, "closed") /\ stream[s].cancelled
LEMMA CancelledHalts ==
    ASSUME NEW s \in Stream
    PROVE  FairSpec /\ []NeverHeldUp => (Cancelled(s) ~> Halts(s))
<1>1. StreamsInv /\ [Next]_vars /\ Cancelled(s) => Cancelled(s)' \/ At(s, "closed")'
  BY OpenKeeps DEF Cancelled
<1>2. StreamsInv /\ <<Done(s)>>_vars => At(s, "closed")'
  BY OwnSuccessors
<1>3. GoesOn(s) /\ Cancelled(s) /\ At(s, "select") => ENABLED <<Done(s)>>_vars
  BY DEF GoesOn, Cancelled
<1>4. (Cancelled(s) => ~At(s, "closed")) /\ (At(s, "closed") => Halts(s))
  BY DEF Cancelled, Halts
<1> QED
  BY <1>1, <1>2, <1>3, <1>4, FairStream, ReachesSelect, PTL DEF StreamFairness

\* A stream whose executor is dead: its last sample is received, if there is one,
\* then nothing is left to receive.
Dead(s) ==
    ~At(s, "closed") /\ stream[s].kind = "stats" /\ vms[stream[s].task].exec = "dead"
HasSample(s) == stream[s].source = "ready"

LEMMA DeadStays ==
    ASSUME NEW s \in Stream, StreamsInv, [Next]_vars, Dead(s), ~At(s, "closed")'
    PROVE  Dead(s)' /\ (~HasSample(s) => ~HasSample(s)')
<1>t. /\ stream \in [Stream -> StreamRecord] /\ vms \in [Task -> VmRecord]
      /\ stream[s].task \in Task /\ stream[s].kind = "stats" /\ vms[stream[s].task].exec = "dead"
  BY DEF StreamsInv, TypeOK, Reading, Dead, At
<1>1. vms'[stream[s].task].exec = "dead"
  <2>1. ASSUME NEW t \in Task, StartTask(t) \/ RecoverTask(t) \/ ExecutorCrash(t)
        PROVE  vms'[stream[s].task].exec = "dead"
    BY <1>t, <2>1 DEF StartTask, RecoverTask, ExecutorCrash, NoVm, VmRecord
  <2>2. ASSUME NEW d \in Stream, \/ Fingerprint(d) \/ \E t \in Task : TaskStats(d, t)
                                 \/ Loop(d) \/ Done(d) \/ Tick(d) \/ Deliver(d) \/ Cancel(d) \/ Leave(d)
        PROVE  UNCHANGED vms
    BY <2>2 DEF Fingerprint, TaskStats, Open, Loop, Wake, Which, RunVersion, Attributes, Receive,
                Query, InClosed, Done, Tick, Deliver, Cancel, Leave, StreamOnly, hostVars
  <2>3. CASE \/ (\E k \in Settings : SetConfig(k)) \/ CheckConfig
             \/ (\E p \in Path : Upgrade(p)) \/ PluginRestart \/ UNCHANGED vars
    BY <1>t, <2>3 DEF SetConfig, CheckConfig, Upgrade, PluginRestart, taskVars, hostVars, vars
  <2> QED
    BY <1>t, <2>1, <2>2, <2>3 DEF Next
<1>2. Dead(s)'
  BY <1>t, <1>1, OpenKeeps DEF Dead
<1>3. HasSample(s)' => HasSample(s)
  <2>1. Wake(s) \/ Attributes(s) \/ Query(s) \/ Deliver(s) \/ Cancel(s) \/ Leave(s)
          => (HasSample(s)' => HasSample(s))
    BY <1>t DEF Wake, Attributes, Query, Deliver, Cancel, Leave, StreamRecord, HasSample
  <2>2. Which(s) \/ RunVersion(s) => (HasSample(s)' => HasSample(s))
    BY <1>t DEF Which, RunVersion, StreamRecord, HasSample
  <2>3. Receive(s) => (HasSample(s)' => HasSample(s))
    BY <1>t DEF Receive, StreamRecord, HasSample
  <2>4. ~Tick(s)
    BY <1>t DEF Tick
  <2> QED
    BY <2>1, <2>2, <2>3, <2>4, OpenMoves DEF HasSample, Dead
<1> QED
  BY <1>2, <1>3

\* At its select such a stream receives the sample or is closed.
LEMMA DeadSelects ==
    ASSUME NEW s \in Stream, StreamsInv, Dead(s), At(s, "select")
    PROVE  /\ [Next]_vars => At(s, "select")' \/ (HasSample(s) /\ ~HasSample(s)') \/ At(s, "closed")'
           /\ Loop(s) => (HasSample(s) /\ ~HasSample(s)') \/ At(s, "closed")'
<1>t. stream \in [Stream -> StreamRecord]
  BY DEF StreamsInv, TypeOK
<1>1. ~Wake(s)
  BY DEF Wake, Dead
<1>2. Receive(s) => HasSample(s) /\ ~HasSample(s)'
  BY <1>t DEF Receive, HasSample, StreamRecord
<1>3. InClosed(s) => At(s, "closed")'
  BY <1>t DEF InClosed, At, Closed
<1> QED
  BY <1>1, <1>2, <1>3, OpenMoves, Moves DEF Loop, At, Dead

LEMMA DeadHalts ==
    ASSUME NEW s \in Stream
    PROVE  FairSpec /\ []NeverHeldUp => (Dead(s) ~> Halts(s))
<1>1. StreamsInv /\ [Next]_vars /\ Dead(s) =>
        (Dead(s)' /\ (~HasSample(s) => ~HasSample(s)')) \/ At(s, "closed")'
  BY DeadStays
<1>2. StreamsInv /\ Dead(s) /\ At(s, "select") /\ [Next]_vars =>
        At(s, "select")' \/ (HasSample(s) /\ ~HasSample(s)') \/ At(s, "closed")'
  BY DeadSelects
<1>3. StreamsInv /\ Dead(s) /\ At(s, "select") /\ <<Loop(s)>>_vars =>
        (HasSample(s) /\ ~HasSample(s)') \/ At(s, "closed")'
  BY DeadSelects
<1>4. GoesOn(s) /\ Dead(s) /\ At(s, "select") => ENABLED <<Loop(s)>>_vars
  BY DEF GoesOn, Runnable, Dead
<1>5. (Dead(s) => ~At(s, "closed")) /\ (At(s, "closed") => Halts(s))
  BY DEF Dead, Halts
<1> QED
  BY <1>1, <1>2, <1>3, <1>4, <1>5, FairStream, ReachesSelect, PTL DEF StreamFairness

\* A stream that Nomad cancels, or whose executor dies, ends; the one way to lose
\* its goroutine is the send that nobody receives.
THEOREM StreamsEnd == FairSpec /\ []NeverHeldUp => StreamEnds
<1> SUFFICES ASSUME NEW s \in Stream
             PROVE  FairSpec /\ []NeverHeldUp => (Abandoned(s) ~> Halts(s))
  BY DEF StreamEnds
<1>1. Abandoned(s) => Cancelled(s) \/ Dead(s) \/ Halts(s)
  BY DEF Abandoned, Cancelled, Dead, Halts
<1> QED
  BY <1>1, CancelledHalts, DeadHalts, PTL

\* What a fingerprint stream has under way is about configuration k and state b.
OnTrack(s, k, b) ==
    /\ stream[s].pc \in {"which", "version", "attributes"} => stream[s].bin = k.bin
    /\ At(s, "version") => b # "absent"
    /\ At(s, "attributes") => b = "good"
    /\ At(s, "send") => stream[s].item = Fingerprinted(k, b)

\* As long as neither changes the stream stays on track, from its next select on, ...
LEMMA TrackKept ==
    ASSUME NEW s \in Stream, NEW k \in Settings, NEW b \in BinaryState,
           StreamsInv, [Next]_vars, Settled(s, k, b), Settled(s, k, b)', OnTrack(s, k, b)
    PROVE  OnTrack(s, k, b)'
<1>t. /\ stream \in [Stream -> StreamRecord] /\ stream[s].kind = "fingerprint"
      /\ config = k /\ binary[k.bin] = b /\ ~At(s, "closed") /\ ~At(s, "closed")'
      /\ b \in {"absent", "broken", "good"}
  BY DEF StreamsInv, TypeOK, Settled, Watching, BinaryState
<1>1. CASE Wake(s)
  BY <1>t, <1>1 DEF Wake, OnTrack, At, StreamRecord
<1>2. CASE Which(s)
  BY <1>t, <1>2 DEF Which, OnTrack, At, StreamRecord, Fingerprinted
<1>3. CASE RunVersion(s)
  BY <1>t, <1>3 DEF RunVersion, OnTrack, At, StreamRecord, Fingerprinted
<1>4. CASE Attributes(s)
  BY <1>t, <1>4 DEF Attributes, OnTrack, At, StreamRecord, Fingerprinted
<1>5. ~Receive(s) /\ ~Query(s)
  BY <1>t DEF Receive, Query, StreamsInv, Reading, At
<1>6. CASE Tick(s) \/ Cancel(s) \/ Leave(s)
  BY <1>t, <1>6 DEF Tick, Cancel, Leave, OnTrack, At, StreamRecord
<1>7. CASE Deliver(s)
  BY <1>t, <1>7 DEF Deliver, OnTrack, At, StreamRecord
<1>8. CASE stream'[s] = stream[s]
  BY <1>8 DEF OnTrack, At
<1> QED
  BY <1>t, <1>1, <1>2, <1>3, <1>4, <1>5, <1>6, <1>7, <1>8, OpenMoves

\* ... and Nomad, which only hears what the stream delivers, hears it.
LEMMA OnTrackTells ==
    ASSUME NEW s \in Stream, NEW k \in Settings, NEW b \in BinaryState,
           StreamsInv, [Next]_vars, Settled(s, k, b), Settled(s, k, b)', OnTrack(s, k, b)
    PROVE  /\ Knows(s, k, b) => Knows(s, k, b)'
           /\ ~At(s, "select") => ~At(s, "select")' \/ Knows(s, k, b)'
<1>t. /\ stream \in [Stream -> StreamRecord] /\ stream[s].kind = "fingerprint"
      /\ heard \in [Stream -> Report \union {None}]
      /\ ~At(s, "closed") /\ ~At(s, "closed")'
  BY DEF StreamsInv, TypeOK, Settled, Watching
<1>1. Deliver(s) => Knows(s, k, b)'
  BY <1>t DEF Deliver, OnTrack, Knows, Fingerprinted, Healthy, Undetected, Unhealthy
<1>2. Deliver(s) \/ heard'[s] = heard[s]
  <2>1. ASSUME NEW d \in Stream, Deliver(d) PROVE d = s \/ heard'[s] = heard[s]
    BY <1>t, <2>1 DEF Deliver
  <2>2. ASSUME NEW d \in Stream, Fingerprint(d) \/ \E t \in Task : TaskStats(d, t)
        PROVE  heard'[s] = heard[s]
    BY <1>t, <2>2 DEF Fingerprint, TaskStats, Open, At
  <2>3. ASSUME NEW d \in Stream, Loop(d) \/ Done(d) \/ Tick(d) \/ Cancel(d) \/ Leave(d)
        PROVE  UNCHANGED heard
    BY <2>3 DEF Loop, Wake, Which, RunVersion, Attributes, Receive, Query, InClosed, Done, Tick,
                Cancel, Leave, StreamOnly
  <2>4. ASSUME NEW t \in Task, StartTask(t) \/ RecoverTask(t) \/ ExecutorCrash(t)
        PROVE  UNCHANGED heard
    BY <2>4 DEF StartTask, RecoverTask, ExecutorCrash
  <2>5. CASE \/ (\E x \in Settings : SetConfig(x)) \/ CheckConfig
             \/ (\E p \in Path : Upgrade(p)) \/ PluginRestart \/ UNCHANGED vars
    BY <2>5 DEF SetConfig, CheckConfig, Upgrade, PluginRestart, vars
  <2> QED
    BY <2>1, <2>2, <2>3, <2>4, <2>5 DEF Next
<1>3. Knows(s, k, b) => Knows(s, k, b)'
  BY <1>1, <1>2 DEF Knows, Fingerprinted, Healthy, Undetected, Unhealthy
<1>4. ~At(s, "select") /\ At(s, "select")' => Deliver(s)
  BY <1>t, OpenMoves, Moves DEF At
<1> QED
  BY <1>1, <1>3, <1>4

\* The timer of a fingerprint stream fires, and wakes it up.
LEMMA Wakes ==
    ASSUME NEW s \in Stream, NEW k \in Settings, NEW b \in BinaryState,
           StreamsInv, Settled(s, k, b), At(s, "select")
    PROVE  /\ [Next]_vars /\ Settled(s, k, b)' =>
                ~At(s, "select")' \/ (At(s, "select")' /\ (HasSample(s) => HasSample(s)'))
           /\ Loop(s) => ~At(s, "select")'
           /\ Tick(s) => HasSample(s)'
           /\ ~HasSample(s) => Due(s)
           /\ HasSample(s) => Runnable(s)
<1>t. /\ stream \in [Stream -> StreamRecord] /\ stream[s].kind = "fingerprint"
      /\ ~At(s, "closed") /\ Attended(stream[s])
  BY DEF StreamsInv, TypeOK, Settled, Watching, Reading, At
<1>1. [Next]_vars /\ Settled(s, k, b)' =>
        ~At(s, "select")' \/ (At(s, "select")' /\ (HasSample(s) => HasSample(s)'))
  <2>1. Wake(s) => ~At(s, "select")'
    BY Moves DEF At
  <2>2. Tick(s) \/ Cancel(s) \/ Leave(s) => (HasSample(s) => HasSample(s)')
    BY <1>t DEF Tick, Cancel, Leave, HasSample, StreamRecord
  <2> QED
    BY <1>t, <2>1, <2>2, OpenMoves, Moves DEF HasSample, Settled, Watching, At
<1>2. Loop(s) => ~At(s, "select")'
  <2>1. ~InClosed(s)
    BY <1>t DEF InClosed
  <2> QED
    BY <2>1, Moves DEF Loop, At
<1>3. Tick(s) => HasSample(s)'
  BY <1>t DEF Tick, HasSample, StreamRecord
<1>4. (~HasSample(s) => Due(s)) /\ (HasSample(s) => Runnable(s))
  BY <1>t DEF HasSample, Due, Runnable, Attended, StreamRecord
<1> QED
  BY <1>1, <1>2, <1>3, <1>4

\* Once configuration and binary stay as they are the stream delivers what it has
\* under way, wakes up, and tells Nomad how things are; nothing takes that back.
THEOREM FingerprintsCatchUp == FairSpec /\ []NeverHeldUp => CatchesUp
<1> SUFFICES ASSUME NEW s \in Stream, NEW k \in Settings, NEW b \in BinaryState
             PROVE  FairSpec /\ []NeverHeldUp => (<>[]Settled(s, k, b) => <>[]Knows(s, k, b))
  BY DEF CatchesUp
<1> DEFINE Quiet == /\ [][Next]_vars /\ []StreamsInv /\ []GoesOn(s)
                    /\ []<>At(s, "select") /\ []Settled(s, k, b)
<1>1. StreamsInv /\ Settled(s, k, b) => ~At(s, "closed") /\ ~Halts(s)
  BY DEF StreamsInv, Settled, Watching, Halts, Stuck, Reading, Attended, At
<1>2. /\ StreamsInv /\ [Next]_vars /\ Settled(s, k, b) /\ Settled(s, k, b)' /\ OnTrack(s, k, b) =>
           /\ OnTrack(s, k, b)'
           /\ Knows(s, k, b) => Knows(s, k, b)'
           /\ ~At(s, "select") => ~At(s, "select")' \/ Knows(s, k, b)'
      /\ At(s, "select") => OnTrack(s, k, b)
  BY TrackKept, OnTrackTells DEF OnTrack, At
<1>3. StreamsInv /\ Settled(s, k, b) /\ At(s, "select") =>
        /\ [Next]_vars /\ Settled(s, k, b)' =>
             ~At(s, "select")' \/ (At(s, "select")' /\ (HasSample(s) => HasSample(s)'))
        /\ <<Loop(s)>>_vars => ~At(s, "select")'
        /\ <<Tick(s)>>_vars => HasSample(s)'
        /\ ~HasSample(s) => Due(s)
        /\ HasSample(s) => Runnable(s)
  BY Wakes
<1>4. GoesOn(s) => /\ Runnable(s) => ENABLED <<Loop(s)>>_vars
                   /\ Due(s) => ENABLED <<Tick(s)>>_vars
  BY DEF GoesOn
\* It leaves its select again and again, ...
<1>5. Quiet /\ StreamFairness(s) => []<>~At(s, "select")
  BY <1>3, <1>4, PTL DEF StreamFairness
\* ... is on track from the first time on, and so tells Nomad.
<1>6. Quiet /\ []<>~At(s, "select") => <>[]Knows(s, k, b)
  BY <1>2, PTL
<1>7. FairSpec /\ []NeverHeldUp /\ <>[]Settled(s, k, b) => <>(Quiet /\ StreamFairness(s))
  BY <1>1, FairStream, ReachesSelect, PTL DEF StreamFairness
<1> HIDE DEF Quiet
<1> QED
  BY <1>5, <1>6, <1>7, PTL
=============================================================================
