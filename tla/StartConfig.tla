----------------------------- MODULE StartConfig -----------------------------
(***************************************************************************)
(* What a VM is started with: the part of StartTask that TaskDriver leaves *)
(* abstract.  The starts of one task follow each other in one local        *)
(* directory; each merges the job with the metadata of its image (twice:   *)
(* once to prepare the host, once with the image at hand), makes the seed  *)
(* image, the tap and the overlays, and builds the command line.           *)
(*                                                                         *)
(* A configuration is a function of the fields of TaskConfig, the payload  *)
(* and console blocks flattened.  A path is where a file is and a number   *)
(* for its name.                                                           *)
(***************************************************************************)
EXTENDS Integers, Sequences

CONSTANTS
    Image,      \* the images the reference of the job may name
    Metadata,   \* [Image -> configuration, or None: no config blob]
    Job,        \* the job: config, oci (oci_image is set), resources
    Text,       \* the values of fields the driver only hands on
    MaxDisk,    \* disks of one VM; bounds the overlays
    TagMoves,   \* the reference is moved to another image
    None        \* "", or Go's nil

VARIABLES
    pc,        \* what StartTask does next; "running": it has returned a handle
    job,       \* the job of the task: jobConfig and the resources
    tag,       \* the image the reference names now
    resolved,  \* the image whose metadata resolveOCIPayload merged
    pulled,    \* the image in the cache directory of materializeOCIPayload
    cfg,       \* driverConfig
    at,        \* the element a loop of StartTask is at
    seed,      \* cloud-init-seed.iso: what it was made of
    tap,       \* the bridge of the tap of this start, None before it is up
    overlay,   \* [1..MaxDisk -> file]: overlay-<i>.img in the local directory
    args,      \* the command line of cloud-hypervisor
    written    \* paths a VM has written to

vars == <<pc, job, tag, resolved, pulled, cfg, at, seed, tap, overlay, args, written>>

-----------------------------------------------------------------------------
(* Configurations.                                                         *)

PathField == {"kernel", "initramfs"}
TextField == {"cmdline", "console", "serial"}
OptionField == PathField \union TextField
Field == OptionField \union {"disk", "network", "cloudInit", "balloon"}

Dir == {"absolute", "relative", "seed", "overlay"} \union Image
Path == [dir : Dir, file : Nat]
Seed == [dir |-> "seed", file |-> 0]
OverlayPath(i) == [dir |-> "overlay", file |-> i]

Disk == [path : Path, type : {"none", "raw", "qcow2"}, readonly : BOOLEAN,
         ephemeral : BOOLEAN, reflink : BOOLEAN]
Network == [auto : BOOLEAN, on : Text]     \* the bridge, or the tap, it is on
CloudInit == [user : Text \union {None}, meta : Text \union {None}]
Balloon == [enabled : BOOLEAN, size : Text]

OverlayFile == [base : Path, copy : BOOLEAN, fresh : BOOLEAN]

Unset(f) == IF f \in {"disk", "network"} THEN <<>> ELSE None

\* Go's zero TaskConfig.
ZeroTaskConfig == [f \in Field |-> Unset(f)]

IsConfig(c) ==
    /\ DOMAIN c = Field
    /\ c = [f \in Field |-> c[f]]
    /\ \A f \in PathField : c[f] \in Path \union {None}
    /\ \A f \in TextField : c[f] \in Text \union {None}
    /\ c["disk"] \in Seq(Disk)
    /\ c["network"] \in Seq(Network)
    /\ c["cloudInit"] \in CloudInit \union {None}
    /\ c["balloon"] \in Balloon \union {None}

\* What a job or an image may say of a disk: its file is not one of the
\* driver's own, and reflink is the driver's to set.
IsGiven(c) ==
    /\ IsConfig(c)
    /\ \A f \in PathField : c[f] # None => c[f].dir \in {"absolute", "relative"}
    /\ \A i \in DOMAIN c["disk"] : /\ c["disk"][i].path.dir \in {"absolute", "relative"}
                                   /\ ~c["disk"][i].reflink
    /\ Len(c["disk"]) < MaxDisk

ASSUME ConfigAssumption ==
    /\ DOMAIN Metadata = Image
    /\ \A m \in Image : Metadata[m] = None \/ IsGiven(Metadata[m])
    /\ \A j \in Job : /\ IsGiven(j.config)
                      /\ j.oci \in BOOLEAN
                      /\ j.memoryMB \in Nat /\ j.cores \in Nat /\ j.shares \in Nat
    /\ MaxDisk \in Nat \ {0}
    /\ TagMoves \in BOOLEAN
    /\ None \notin Image \union Path \union Text \union CloudInit \union Balloon
                       \union OverlayFile
    /\ {"absolute", "relative", "seed", "overlay"} \cap Image = {}

ResolvePath(base, p) ==
    IF p # None /\ p.dir = "relative" THEN [p EXCEPT !.dir = base] ELSE p

\* Paths of the metadata are left as they are.
BuildConfigMutant(m, base) ==
    IF m = None THEN ZeroTaskConfig ELSE [m EXCEPT !["balloon"] = None]

\* buildConfigFromOCIMetadata.  The metadata has no balloon.
BuildConfig(m, base) ==
    IF m = None THEN ZeroTaskConfig
    ELSE [f \in Field |->
            IF f \in PathField THEN ResolvePath(base, m[f])
            ELSE IF f = "disk"
              THEN [i \in DOMAIN m["disk"] |->
                      [m["disk"][i] EXCEPT !.path = ResolvePath(base, @)]]
            ELSE IF f = "balloon" THEN None
            ELSE m[f]]

\* The image wins.
ApplyJobMutant(base, jobCfg) ==
    [f \in Field |-> IF base[f] # Unset(f) THEN base[f] ELSE jobCfg[f]]

\* applyJobConfig: what the job says wins, field by field.
ApplyJob(base, jobCfg) ==
    [f \in Field |-> IF jobCfg[f] # Unset(f) THEN jobCfg[f] ELSE base[f]]

-----------------------------------------------------------------------------
(* The command line.                                                       *)

OverheadMB == 512     \* chMemoryOverheadBytes
MinGuestMB == 256     \* chMinGuestMemoryBytes

\* vcpusFromResources.
Vcpus(j) ==
    IF j.cores > 0 THEN j.cores
    ELSE IF j.shares >= 1000 THEN j.shares \div 1000
    ELSE 1

\* The overhead is not taken off.
GuestMBMutant(j) == j.memoryMB

\* 0 stands for no --memory: the default of cloud-hypervisor.
GuestMB(j) == IF j.memoryMB = 0 THEN 0 ELSE j.memoryMB - OverheadMB

\* buildCHArgs refuses a guest below the minimum.
MemoryRefused(j) == j.memoryMB # 0 /\ GuestMB(j) < MinGuestMB

\* The mode of a disk is that of a backing chain for every overlay.
DiskArgMutant(d) ==
    [path |-> d.path, type |-> d.type, readonly |-> d.readonly,
     mode |-> IF d.ephemeral THEN "backing" ELSE "plain"]

\* One --disk: direct=on for a reflink copy, backing_files=on for a chain.
DiskArg(d) ==
    [path |-> d.path, type |-> d.type, readonly |-> d.readonly,
     mode |-> IF ~d.ephemeral THEN "plain" ELSE IF d.reflink THEN "direct" ELSE "backing"]

\* One --net: None stands for the tap named after the task.
NetArg(n) == IF n.auto THEN None ELSE n.on

\* --balloon: None for no balloon, "default" for the one of an unset block.
BalloonArg(b) ==
    IF b = None THEN "default" ELSE IF b.enabled THEN b.size ELSE None

\* buildCHArgs.
BuildArgs(c, j) ==
    [ options |-> [f \in OptionField |-> c[f]],
      disks   |-> [i \in DOMAIN c["disk"] |-> DiskArg(c["disk"][i])],
      nets    |-> [i \in DOMAIN c["network"] |-> NetArg(c["network"][i])],
      cpus    |-> Vcpus(j),
      memory  |-> GuestMB(j),
      balloon |-> BalloonArg(c["balloon"]) ]

-----------------------------------------------------------------------------
(* StartTask, from the decoded job to the launch.                          *)

Steps == {"resolve", "seed", "network", "pull", "disks", "launch"}

Init ==
    /\ pc = "idle"
    /\ job \in Job
    /\ tag \in Image
    /\ resolved = None /\ pulled = None
    /\ cfg = ZeroTaskConfig
    /\ at = 0
    /\ seed = None
    /\ tap = None
    /\ overlay = [i \in 1..MaxDisk |-> None]
    /\ args = None
    /\ written = {}

\* DecodeDriverConfig, and jobConfig := driverConfig.  A start has an ID, and
\* so a tap name, of its own.
Decode ==
    /\ pc = "idle"
    /\ pc' = "resolve"
    /\ cfg' = job.config
    /\ resolved' = None /\ pulled' = None
    /\ tap' = None
    /\ UNCHANGED <<job, tag, at, seed, overlay, args, written>>

\* The registry hands out the config blob of an image, if it has one, ...
FetchMetadata(m) == Metadata[m]

\* ... and the cache its copy: None, and no error, if there is no file.
ReadMetadata(m) == Metadata[m]

\* resolveOCIPayload: without a working directory, relative paths stay so.
ResolvePayload ==
    /\ pc = "resolve"
    /\ \/ ~job.oci /\ UNCHANGED <<cfg, resolved>>
       \/ /\ job.oci
          /\ FetchMetadata(tag) # None
          /\ cfg' = ApplyJob(BuildConfig(FetchMetadata(tag), "relative"), job.config)
          /\ resolved' = tag
    /\ pc' = "seed"
    /\ UNCHANGED <<job, tag, pulled, at, seed, tap, overlay, args, written>>

\* A file the tool has not finished.
BrokenSeed == [user |-> None, meta |-> None]

WantsSeed(c) == c["cloudInit"] # None /\ c["cloudInit"].user # None

\* The image is made only if there is none.
CreateSeedMutant ==
    /\ pc = "seed"
    /\ IF WantsSeed(cfg)
         THEN /\ seed' = IF seed = None THEN cfg["cloudInit"] ELSE seed
              /\ cfg' = [cfg EXCEPT !["disk"] = Append(@,
                    [path |-> Seed, type |-> "none", readonly |-> TRUE,
                     ephemeral |-> FALSE, reflink |-> FALSE])]
         ELSE UNCHANGED <<seed, cfg>>
    /\ pc' = "network" /\ at' = 1
    /\ UNCHANGED <<job, tag, resolved, pulled, tap, overlay, args, written>>

\* The image is made, over one that is there, by the first tool of four that
\* the host has.
CreateISO(c) == seed' = c

\* The image, and the disk that carries it.
CreateSeed ==
    /\ pc = "seed"
    /\ IF WantsSeed(cfg)
         THEN /\ CreateISO(cfg["cloudInit"])
              /\ cfg' = [cfg EXCEPT !["disk"] = Append(@,
                    [path |-> Seed, type |-> "none", readonly |-> TRUE,
                     ephemeral |-> FALSE, reflink |-> FALSE])]
         ELSE UNCHANGED <<seed, cfg>>
    /\ pc' = "network" /\ at' = 1
    /\ UNCHANGED <<job, tag, resolved, pulled, tap, overlay, args, written>>

\* A device that exists already is taken for one that is set up.
RaiseTapMutant ==
    /\ pc = "network"
    /\ at \in DOMAIN cfg["network"]
    /\ tap' = IF cfg["network"][at].auto /\ tap = None THEN cfg["network"][at].on ELSE tap
    /\ at' = at + 1
    /\ UNCHANGED <<pc, job, tag, resolved, pulled, cfg, seed, overlay, args, written>>

\* AutoTunTapIface.Up for each automatic network.  All of a task have one
\* name, and a device that exists is not added again.
RaiseTap ==
    /\ pc = "network"
    /\ at \in DOMAIN cfg["network"]
    /\ IF cfg["network"][at].auto
         THEN tap = None /\ tap' = cfg["network"][at].on
         ELSE UNCHANGED tap
    /\ at' = at + 1
    /\ UNCHANGED <<pc, job, tag, resolved, pulled, cfg, seed, overlay, args, written>>

NetworkReady ==
    /\ pc = "network"
    /\ at \notin DOMAIN cfg["network"]
    /\ pc' = "pull"
    /\ UNCHANGED <<job, tag, resolved, pulled, cfg, at, seed, tap, overlay, args, written>>

\* materializeOCIPayload: the configuration is built anew from the image in
\* the cache and from jobConfig.
PullPayload ==
    /\ pc = "pull"
    /\ \/ ~job.oci /\ UNCHANGED <<cfg, pulled>>
       \/ /\ job.oci
          /\ cfg' = ApplyJob(BuildConfig(ReadMetadata(tag), tag), job.config)
          /\ pulled' = tag
    /\ pc' = "disks" /\ at' = 1
    /\ UNCHANGED <<job, tag, resolved, seed, tap, overlay, args, written>>

\* The base and the task's directory may be on one XFS partition or not.
IsSameXFSPartition == BOOLEAN

\* OverlayDisk.Create: cp and qemu-img alike replace a file that is there.
Created(d, copy) == [base |-> d.path, copy |-> copy, fresh |-> TRUE]

\* An overlay that is there is used again.
CreateOverlayMutant ==
    /\ pc = "disks"
    /\ at \in DOMAIN cfg["disk"]
    /\ LET d == cfg["disk"][at] IN
         IF ~d.ephemeral THEN UNCHANGED <<cfg, overlay>>
         ELSE \E copy \in BOOLEAN :
           /\ overlay' = IF overlay[at] # None THEN overlay
                         ELSE [overlay EXCEPT ![at] = [base |-> d.path, copy |-> copy, fresh |-> TRUE]]
           /\ cfg' = [cfg EXCEPT !["disk"][at] =
                [d EXCEPT !.path = OverlayPath(at), !.reflink = copy,
                          !.type = IF copy THEN d.type ELSE "qcow2"]]
    /\ at' = at + 1
    /\ UNCHANGED <<pc, job, tag, resolved, pulled, seed, tap, args, written>>

\* The path is assigned to the loop's copy of the disk.
CreateOverlayLostMutant ==
    /\ pc = "disks"
    /\ at \in DOMAIN cfg["disk"]
    /\ LET d == cfg["disk"][at] IN
         IF ~d.ephemeral THEN UNCHANGED overlay
         ELSE \E copy \in BOOLEAN :
           overlay' = [overlay EXCEPT ![at] = [base |-> d.path, copy |-> copy, fresh |-> TRUE]]
    /\ at' = at + 1
    /\ UNCHANGED <<pc, job, tag, resolved, pulled, cfg, seed, tap, args, written>>

\* The overlay of an ephemeral disk: a reflink copy if the host can make one,
\* or else a qcow2 file on top of the base.
CreateOverlay ==
    /\ pc = "disks"
    /\ at \in DOMAIN cfg["disk"]
    /\ LET d == cfg["disk"][at] IN
         IF ~d.ephemeral THEN UNCHANGED <<cfg, overlay>>
         ELSE \E copy \in IsSameXFSPartition :
           /\ overlay' = [overlay EXCEPT ![at] = Created(d, copy)]
           /\ cfg' = [cfg EXCEPT !["disk"][at] =
                [d EXCEPT !.path = OverlayPath(at), !.reflink = copy,
                          !.type = IF copy THEN d.type ELSE "qcow2"]]
    /\ at' = at + 1
    /\ UNCHANGED <<pc, job, tag, resolved, pulled, seed, tap, args, written>>

\* The loop ends one disk early.
DisksReadyMutant ==
    /\ pc = "disks"
    /\ at \notin 1..(Len(cfg["disk"]) - 1)
    /\ pc' = "launch"
    /\ UNCHANGED <<job, tag, resolved, pulled, cfg, at, seed, tap, overlay, args, written>>

\* Every overlay is made.
DisksReady ==
    /\ pc = "disks"
    /\ at \notin DOMAIN cfg["disk"]
    /\ pc' = "launch"
    /\ UNCHANGED <<job, tag, resolved, pulled, cfg, at, seed, tap, overlay, args, written>>

\* startCloudHypervisor.
Launch ==
    /\ pc = "launch"
    /\ ~MemoryRefused(job)
    /\ args' = BuildArgs(cfg, job)
    /\ pc' = "running"
    /\ UNCHANGED <<job, tag, resolved, pulled, cfg, at, seed, tap, overlay, written>>

\* Any step of StartTask may return an error, and what it has made stays.  A
\* tool that fails may leave half a seed image, or an overlay that is no use
\* (None).
Fail ==
    /\ pc \in Steps
    /\ pc' = "idle"
    /\ seed' \in IF pc = "seed" /\ WantsSeed(cfg) THEN {seed, BrokenSeed} ELSE {seed}
    /\ overlay' \in IF pc = "disks" /\ at \in DOMAIN cfg["disk"] /\ cfg["disk"][at].ephemeral
                    THEN {overlay, [overlay EXCEPT ![at] = None]} ELSE {overlay}
    /\ UNCHANGED <<job, tag, resolved, pulled, cfg, at, tap, args, written>>

-----------------------------------------------------------------------------
(* The VM, the registry and DestroyTask.                                   *)

\* The guest writes to a disk that is not read-only.
GuestWrites ==
    /\ pc = "running"
    /\ \E i \in DOMAIN args.disks :
         LET p == args.disks[i].path IN
         /\ ~args.disks[i].readonly
         /\ written' = written \union {p}
         /\ overlay' = IF p.dir = "overlay" /\ overlay[p.file] # None
                       THEN [overlay EXCEPT ![p.file].fresh = FALSE] ELSE overlay
    /\ UNCHANGED <<pc, job, tag, resolved, pulled, cfg, at, seed, tap, args>>

\* The VM ends and its task is destroyed.  The seed image goes with it,
\* unless the handle is a recovered one, which has no configuration.
Destroy ==
    /\ pc = "running"
    /\ pc' = "idle"
    /\ args' = None
    /\ seed' \in IF cfg["cloudInit"] # None THEN {None, seed} ELSE {seed}
    /\ UNCHANGED <<job, tag, resolved, pulled, cfg, at, tap, overlay, written>>

Retag ==
    /\ TagMoves
    /\ tag' \in Image \ {tag}
    /\ UNCHANGED <<pc, job, resolved, pulled, cfg, at, seed, tap, overlay, args, written>>

Next ==
    \/ Decode \/ ResolvePayload \/ CreateSeed
    \/ RaiseTap \/ NetworkReady
    \/ PullPayload
    \/ CreateOverlay \/ DisksReady
    \/ Launch \/ Fail
    \/ GuestWrites \/ Destroy \/ Retag

Spec == Init /\ [][Next]_vars

-----------------------------------------------------------------------------
(* Properties.                                                             *)

TypeOK ==
    /\ pc \in Steps \union {"idle", "running"}
    /\ job \in Job
    /\ tag \in Image
    /\ resolved \in Image \union {None} /\ pulled \in Image \union {None}
    /\ IsConfig(cfg)
    /\ at \in Nat
    /\ seed \in CloudInit \union {None}
    /\ tap \in Text \union {None}
    /\ overlay \in [1..MaxDisk -> OverlayFile \union {None}]
    /\ written \subseteq Path

\* What a start has made of the job so far: the fields of the job win, and
\* each of its disks is in its place, or an overlay of it is.
MergeInv ==
    pc # "idle" =>
      /\ \A f \in Field \ {"disk"} : job.config[f] # Unset(f) => cfg[f] = job.config[f]
      /\ \A i \in DOMAIN job.config["disk"] :
           /\ i \in DOMAIN cfg["disk"]
           /\ \/ cfg["disk"][i].path = job.config["disk"][i].path
              \/ /\ cfg["disk"][i].path = OverlayPath(i)
                 /\ overlay[i] # None /\ overlay[i].base = job.config["disk"][i].path

\* The loop over the disks is past i.
OverlayDone(i) == pc \in {"launch", "running"} \/ (pc = "disks" /\ i < at)

\* The disks the loop has passed are overlays that the configuration tells
\* the truth about; the others are not overlays.
DiskInv ==
    pc # "idle" =>
      \A i \in DOMAIN cfg["disk"] :
        LET d == cfg["disk"][i] IN
        IF d.ephemeral /\ OverlayDone(i)
          THEN /\ i \in 1..MaxDisk
               /\ d.path = OverlayPath(i)
               /\ overlay[i] # None
               /\ d.reflink = overlay[i].copy
               /\ ~overlay[i].copy => d.type = "qcow2"
               /\ pc # "running" => overlay[i].fresh
          ELSE d.path.dir # "overlay"

\* The disks fit: the seed is the only one the driver adds.  The loops count
\* from 1.
BoundsInv ==
    /\ pc \in {"resolve", "seed"} => Len(cfg["disk"]) < MaxDisk
    /\ pc # "idle" => Len(cfg["disk"]) <= MaxDisk
    /\ pc \in {"network", "disks"} => at >= 1

LaunchInv == pc = "running" => args = BuildArgs(cfg, job)

\* The inductive invariant of the proofs.
StartInv == TypeOK /\ MergeInv /\ DiskInv /\ BoundsInv /\ LaunchInv

Running == pc = "running"

\* The file the content of a disk comes from.
Source(i) ==
    LET p == args.disks[i].path IN
    IF p.dir = "overlay" /\ overlay[p.file] # None THEN overlay[p.file].base ELSE p

\* "Explicit job settings always win" (oci_payload.go): through two merges
\* and every rewriting of the disks, whatever the job sets is what the VM
\* gets, each disk of the job in its place and made of the job's file.
JobWins ==
    Running =>
      /\ \A f \in OptionField :
           job.config[f] # None => args.options[f] = job.config[f]
      /\ job.config["balloon"] # None => args.balloon = BalloonArg(job.config["balloon"])
      /\ job.config["network"] # <<>> =>
           args.nets = [i \in DOMAIN job.config["network"] |-> NetArg(job.config["network"][i])]
      /\ job.config["disk"] # <<>> =>
           \A i \in DOMAIN job.config["disk"] :
             i \in DOMAIN args.disks /\ Source(i) = job.config["disk"][i].path

LaunchedPaths ==
    { args.options[f] : f \in PathField } \union { Source(i) : i \in DOMAIN args.disks }

JobPaths ==
    { job.config[f] : f \in PathField }
      \union { job.config["disk"][i].path : i \in DOMAIN job.config["disk"] }

\* All files of a VM are of one image, the one in the cache directory, even if
\* the host was prepared for another; no path of the metadata stays relative.
PathsResolved ==
    Running =>
      \A p \in LaunchedPaths \ ({None} \union JobPaths) :
        p.dir \in {"absolute", "seed", pulled}

\* The command line says of each overlay what it is: at its index, direct for
\* a copy, and a qcow2 file with a chain otherwise.
OverlaysAgree ==
    Running =>
      \A i \in DOMAIN args.disks :
        LET d == args.disks[i] IN
        (d.mode # "plain" \/ d.path.dir = "overlay") =>
          /\ d.path = OverlayPath(i)
          /\ overlay[i] # None
          /\ d.mode = (IF overlay[i].copy THEN "direct" ELSE "backing")
          /\ ~overlay[i].copy => d.type = "qcow2"

\* A file a configuration leaves open to writing.
Shared(c, base, p) ==
    \E i \in DOMAIN c["disk"] :
      LET d == c["disk"][i] IN
      ResolvePath(base, d.path) = p /\ ~d.readonly /\ ~d.ephemeral

\* A guest writes to overlays and to disks that someone gave it to write to:
\* never to the base of an ephemeral disk, nor to the seed image.
BasesKept ==
    \A p \in written :
      \/ p.dir = "overlay"
      \/ Shared(job.config, "relative", p)
      \/ \E m \in Image : Metadata[m] # None /\ Shared(Metadata[m], m, p)

\* Nothing an earlier VM of the task wrote is on an ephemeral disk at launch.
FreshAtLaunch ==
    [][pc = "launch" /\ pc' = "running" =>
         \A i \in DOMAIN cfg["disk"] :
           cfg["disk"][i].ephemeral => overlay[i] # None /\ overlay[i].fresh]_vars

\* If both builds saw one image, the host was prepared for what is launched:
\* the tap of every automatic network is up, on the bridge the network names,
\* there is no other, and a seed that is asked for is made of its data.
HostMatches ==
    Running /\ resolved = pulled =>
      /\ \A i \in DOMAIN cfg["network"] :
           cfg["network"][i].auto => tap = cfg["network"][i].on
      /\ tap # None => \E i \in DOMAIN cfg["network"] : cfg["network"][i].auto
      /\ WantsSeed(cfg) => seed = cfg["cloudInit"]

SeedAttached == \E i \in DOMAIN args.disks :
                  args.disks[i].path = Seed /\ args.disks[i].readonly

\* Without an image, the VM has a seed just if its job asks for one, and it is
\* made of the job's data, whatever earlier starts have left.
SeedOfJob ==
    Running /\ ~job.oci =>
      IF WantsSeed(job.config)
        THEN SeedAttached /\ seed = job.config["cloudInit"]
        ELSE ~SeedAttached

\* "generates a NoCloud seed ISO image and attaches it as a read-only disk to
\* the VM" (driver.go): image or not.
SeedReachesVm == Running /\ WantsSeed(cfg) => SeedAttached

\* A guest has a CPU, and memory of at least the minimum; with the overhead it
\* takes what Nomad has allotted, no more (buildCHArgs).  A test wants the
\* contrary: see LaunchesAsTested.
GuestFits ==
    Running =>
      /\ args.cpus >= 1
      /\ args.memory # 0 =>
           /\ args.memory >= MinGuestMB
           /\ args.memory + OverheadMB = job.memoryMB

TestedMB == 512

\* TestBuildCHArgs (cloudhypervisor_test.go), which the fixtures of e2e/ agree
\* with: a task with 512 MB and two cores is not refused, and its guest gets
\* all of the memory.
LaunchesAsTested ==
    pc = "launch" /\ job.memoryMB = TestedMB /\ job.cores = 2 =>
      ~MemoryRefused(job) /\ BuildArgs(cfg, job).memory = TestedMB

-----------------------------------------------------------------------------
(* Why: what the host was prepared for, and where each file comes from.    *)

\* What a start from image m asks of the host, its networks and its cloud-init
\* data, does not depend on where its files are.
HostField == {"network", "cloudInit"}
Merged(m, f) == ApplyJob(BuildConfig(Metadata[m], "relative"), job.config)[f]

TapRaised(i) == cfg["network"][i].auto => tap = cfg["network"][i].on

NetInv ==
    /\ pc \in {"seed", "network", "pull"} /\ job.oci =>
         resolved \in Image /\ \A f \in HostField : cfg[f] = Merged(resolved, f)
    /\ pc = "network" => \A i \in DOMAIN cfg["network"] : i < at => TapRaised(i)
    /\ pc = "pull" \/ (pc \in {"disks", "launch", "running"} /\ resolved = pulled) =>
         \A i \in DOMAIN cfg["network"] : TapRaised(i)

\* The tap and the seed file are no more and no other than what was asked.
Asked ==
    /\ tap # None => \E i \in DOMAIN cfg["network"] : cfg["network"][i].auto
    /\ WantsSeed(cfg) => seed = cfg["cloudInit"]

AskedInv ==
    /\ pc \in {"resolve", "seed"} => tap = None
    /\ pc \in {"network", "pull"} \/ (pc \in {"disks", "launch", "running"} /\ resolved = pulled) =>
         Asked

\* Without an image the configuration is the job's; the seed follows it.
SeedMade ==
    ~job.oci =>
      /\ pc \in {"resolve", "seed"} => cfg = job.config
      /\ pc \in {"network", "pull", "disks", "launch", "running"} =>
           IF WantsSeed(job.config)
             THEN /\ seed = job.config["cloudInit"]
                  /\ \E i \in DOMAIN cfg["disk"] :
                       LET d == cfg["disk"][i] IN d.path = Seed /\ d.readonly /\ ~d.ephemeral
             ELSE \A i \in DOMAIN cfg["disk"] : cfg["disk"][i].path # Seed

\* The file behind a disk, before its overlay is made and after.
Behind(i) ==
    IF cfg["disk"][i].ephemeral /\ OverlayDone(i) THEN overlay[i].base ELSE cfg["disk"][i].path

MayWrite(p) ==
    \/ Shared(job.config, "relative", p)
    \/ \E m \in Image : Metadata[m] # None /\ Shared(Metadata[m], m, p)

\* Every file is the job's or of the image that was pulled, and is open to
\* writing only if one of them says so.
OriginInv ==
    pc \in {"disks", "launch", "running"} \/ (pc # "idle" /\ ~job.oci) =>
      /\ \A f \in PathField :
           cfg[f] \in {None} \union JobPaths \/ cfg[f].dir \in {"absolute", pulled}
      /\ \A i \in DOMAIN cfg["disk"] :
           /\ Behind(i) \in JobPaths \/ Behind(i).dir \in {"absolute", "seed", pulled}
           /\ LET d == cfg["disk"][i] IN d.readonly \/ d.ephemeral \/ MayWrite(d.path)

\* What is prepared for a VM agrees, whatever was left by earlier starts, ...
Prepared ==
    /\ NetInv /\ AskedInv /\ SeedMade /\ OriginInv /\ BasesKept
    /\ Running => ~MemoryRefused(job)

\* ... and, with the configuration that says so, it is the inductive invariant
\* behind the properties of a launched VM.
PreparedInv == StartInv /\ Prepared
=============================================================================
