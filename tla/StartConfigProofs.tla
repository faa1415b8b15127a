-------------------------- MODULE StartConfigProofs --------------------------
(***************************************************************************)
(* Theorems about StartConfig: for any job, images, texts and number of    *)
(* disks, however the tag moves and whatever fails.                        *)
(***************************************************************************)
EXTENDS StartConfig, SequenceTheorems, TLAPS


-----------------------------------------------------------------------------
(* Configurations.                                                         *)

\* A configuration no overlay of which is made: what jobs, images and their
\* merges are.
Plain(c) ==
    /\ IsConfig(c)
    /\ Len(c["disk"]) < MaxDisk
    /\ \A i \in DOMAIN c["disk"] : c["disk"][i].path.dir # "overlay"

\* The zero value is one.
LEMMA ZeroPlain == Plain(ZeroTaskConfig)
<1> DEFINE z == ZeroTaskConfig
<1>1. /\ DOMAIN z = Field
      /\ z = [f \in Field |-> z[f]]
      /\ \A f \in PathField \union TextField \union {"cloudInit", "balloon"} : z[f] = None
      /\ z["disk"] = << >> /\ z["network"] = << >>
  BY DEF ZeroTaskConfig, Unset, Field, OptionField, PathField, TextField
<1> HIDE DEF z
<1>2. << >> \in Seq(Disk) /\ << >> \in Seq(Network) /\ Len(<< >>) = 0 /\ DOMAIN << >> = {}
  BY EmptySeq
<1>3. IsConfig(z)
  BY <1>1, <1>2 DEF IsConfig
<1>4. Len(z["disk"]) < MaxDisk
  BY <1>1, <1>2, ConfigAssumption
<1>5. \A i \in DOMAIN z["disk"] : z["disk"][i].path.dir # "overlay"
  BY <1>1, <1>2
<1> QED
  BY <1>3, <1>4, <1>5 DEF Plain, z

\* So is what a job or an image may say.
LEMMA GivenPlain ==
    ASSUME NEW c, IsGiven(c)
    PROVE  Plain(c)
BY DEF IsGiven, Plain

\* Resolving a path gives a path, and never one of an overlay.
LEMMA ResolvedPath ==
    ASSUME NEW base \in Dir, base # "overlay", NEW p \in Path \union {None}
    PROVE  /\ ResolvePath(base, p) \in Path \union {None}
           /\ p # None => ResolvePath(base, p) \in Path
           /\ p # None /\ p.dir # "overlay" => ResolvePath(base, p).dir # "overlay"
BY DEF ResolvePath, Path

\* buildConfigFromOCIMetadata makes one of any metadata.
LEMMA BuildPlain ==
    ASSUME NEW m, m = None \/ IsGiven(m), NEW base \in Dir, base # "overlay"
    PROVE  Plain(BuildConfig(m, base))
<1>1. CASE m = None
  BY <1>1, ZeroPlain DEF BuildConfig
<1>2. CASE m # None
  <2> DEFINE b == BuildConfig(m, base)
             s == m["disk"]
  <2>1. IsConfig(m) /\ Len(s) < MaxDisk /\ s \in Seq(Disk)
    BY <1>2 DEF IsGiven, IsConfig
  <2>2. /\ DOMAIN b = Field
        /\ b = [f \in Field |-> b[f]]
        /\ \A f \in PathField : b[f] = ResolvePath(base, m[f])
        /\ \A f \in TextField : b[f] = m[f]
        /\ b["disk"] = [i \in DOMAIN s |-> [s[i] EXCEPT !.path = ResolvePath(base, @)]]
        /\ b["network"] = m["network"]
        /\ b["cloudInit"] = m["cloudInit"]
        /\ b["balloon"] = None
    BY <1>2 DEF BuildConfig, Field, OptionField, PathField, TextField
  <2>3. \A i \in DOMAIN s :
           /\ s[i] \in Disk /\ s[i].path \in Path /\ s[i].path # None
           /\ s[i].path.dir # "overlay"
    <3> SUFFICES ASSUME NEW i \in DOMAIN s
                 PROVE  /\ s[i] \in Disk /\ s[i].path \in Path /\ s[i].path # None
                        /\ s[i].path.dir # "overlay"
      OBVIOUS
    <3>1. s[i] \in Disk
      BY <2>1, ElementOfSeq
    <3>2. s[i].path.dir \in {"absolute", "relative"}
      BY <1>2 DEF IsGiven
    <3>3. None \notin Path
      BY ConfigAssumption
    <3> QED
      BY <3>1, <3>2, <3>3, ConfigAssumption DEF Disk
  <2>4. \A i \in DOMAIN s :
           /\ b["disk"][i] \in Disk
           /\ b["disk"][i].path.dir # "overlay"
    <3> SUFFICES ASSUME NEW i \in DOMAIN s
                 PROVE  b["disk"][i] \in Disk /\ b["disk"][i].path.dir # "overlay"
      OBVIOUS
    <3>1. b["disk"][i] = [s[i] EXCEPT !.path = ResolvePath(base, s[i].path)]
      BY <2>2
    <3>2. ResolvePath(base, s[i].path) \in Path /\ ResolvePath(base, s[i].path).dir # "overlay"
      BY <2>3, ResolvedPath
    <3>3. s[i] \in Disk
      BY <2>3
    <3> HIDE DEF b, s
    <3> QED
      BY <3>1, <3>2, <3>3 DEF Disk
  <2>5. b["disk"] \in Seq(Disk) /\ DOMAIN b["disk"] = DOMAIN s /\ Len(b["disk"]) = Len(s)
    <3>1. DOMAIN s = 1..Len(s) /\ Len(s) \in Nat
      BY <2>1
    <3>2. b["disk"] = [i \in 1..Len(s) |-> b["disk"][i]]
      BY <2>2, <3>1
    <3> HIDE DEF b, s
    <3> QED
      BY <2>4, <3>1, <3>2, IsASeq
  <2>6. \A f \in PathField : b[f] \in Path \union {None}
    <3> SUFFICES ASSUME NEW f \in PathField PROVE b[f] \in Path \union {None}
      OBVIOUS
    <3>1. m[f] \in Path \union {None}
      BY <2>1 DEF IsConfig
    <3>2. b[f] = ResolvePath(base, m[f])
      BY <2>2
    <3> HIDE DEF b
    <3> QED
      BY <3>1, <3>2, ResolvedPath
  <2> QED
    <3> HIDE DEF b, s
    <3>1. IsConfig(b)
      BY <2>1, <2>2, <2>5, <2>6 DEF IsConfig
    <3>2. Plain(b)
      BY <3>1, <2>1, <2>4, <2>5 DEF Plain
    <3> QED
      BY <3>2 DEF b
<1> QED
  BY <1>1, <1>2

\* applyJobConfig takes each field from one of the two.
LEMMA ApplyPlain ==
    ASSUME NEW base, Plain(base), NEW j, Plain(j)
    PROVE  Plain(ApplyJob(base, j))
<1> DEFINE a == ApplyJob(base, j)
<1>1. /\ DOMAIN a = Field
      /\ a = [f \in Field |-> a[f]]
      /\ \A f \in Field : a[f] = base[f] \/ a[f] = j[f]
  BY DEF ApplyJob
<1>2. PathField \subseteq Field /\ TextField \subseteq Field
      /\ {"disk", "network", "cloudInit", "balloon"} \subseteq Field
  BY DEF Field, OptionField
<1> HIDE DEF a
<1>3. IsConfig(a)
  BY <1>1, <1>2 DEF Plain, IsConfig
<1>4. Plain(a)
  BY <1>1, <1>2, <1>3 DEF Plain
<1> QED
  BY <1>4 DEF a

\* The job's fields survive it.
LEMMA ApplyKeepsJob ==
    ASSUME NEW base, NEW j, NEW f \in Field, j[f] # Unset(f)
    PROVE  ApplyJob(base, j)[f] = j[f]
BY DEF ApplyJob

\* A configuration remains one when its disks are replaced.
LEMMA NewDisks ==
    ASSUME NEW c, IsConfig(c), NEW s \in Seq(Disk)
    PROVE  /\ IsConfig([c EXCEPT !["disk"] = s])
           /\ [c EXCEPT !["disk"] = s]["disk"] = s
           /\ \A f \in Field \ {"disk"} : [c EXCEPT !["disk"] = s][f] = c[f]
BY DEF IsConfig, Field, OptionField, PathField, TextField

-----------------------------------------------------------------------------
(* The inductive invariant.                                                *)

\* The job and the images say nothing but plain configurations.
LEMMA JobPlain ==
    ASSUME StartInv
    PROVE  Plain(job.config) /\ (Metadata[tag] = None \/ IsGiven(Metadata[tag]))
BY ConfigAssumption, GivenPlain DEF StartInv, TypeOK

\* A merge of the image the tag names now: what the two builds of a start have
\* in common.
LEMMA MergeIsSound ==
    ASSUME StartInv, NEW base \in Dir, base # "overlay",
           NEW c, c = ApplyJob(BuildConfig(Metadata[tag], base), job.config)
    PROVE  /\ Plain(c)
           /\ \A f \in Field : job.config[f] # Unset(f) => c[f] = job.config[f]
           /\ \A i \in DOMAIN job.config["disk"] :
                i \in DOMAIN c["disk"] /\ c["disk"][i].path = job.config["disk"][i].path
<1>1. Plain(job.config) /\ Plain(BuildConfig(Metadata[tag], base))
  BY JobPlain, BuildPlain
<1>2. Plain(c)
  BY <1>1, ApplyPlain
<1>3. \A f \in Field : job.config[f] # Unset(f) => c[f] = job.config[f]
  BY ApplyKeepsJob
<1>4. CASE job.config["disk"] = << >>
  BY <1>2, <1>3, <1>4, EmptySeq
<1>5. CASE job.config["disk"] # << >>
  <2>1. "disk" \in Field /\ Unset("disk") = << >>
    BY DEF Field, Unset
  <2> QED
    BY <1>2, <1>3, <1>5, <2>1
<1> QED
  BY <1>2, <1>3, <1>4, <1>5

\* It holds before the first start.
LEMMA InitInv == Init => StartInv
<1> SUFFICES ASSUME Init PROVE StartInv
  OBVIOUS
<1>1. TypeOK
  BY ZeroPlain DEF Init, TypeOK, Plain
<1> QED
  BY <1>1 DEF Init, StartInv, MergeInv, DiskInv, BoundsInv, LaunchInv

\* Steps that change neither the configuration nor what is made of it.
LEMMA QuietStep ==
    ASSUME StartInv, TypeOK',
           UNCHANGED <<job, cfg, overlay>>,
           \/ pc' = "idle"
           \/ /\ pc # "idle"
              /\ \A i \in DOMAIN cfg["disk"] : OverlayDone(i)' = OverlayDone(i)
              /\ pc' = "running" <=> pc = "running"
              /\ pc' \in {"resolve", "seed"} => pc \in {"resolve", "seed"}
              /\ pc' \in {"network", "disks"} => at' >= 1
              /\ pc' = "running" => UNCHANGED args
    PROVE  StartInv'
<1>1. MergeInv'
  BY DEF StartInv, MergeInv
<1>2. DiskInv'
  <2> SUFFICES ASSUME pc' # "idle", NEW i \in DOMAIN cfg["disk"]
               PROVE  LET d == cfg["disk"][i] IN
                      IF d.ephemeral /\ OverlayDone(i)
                        THEN /\ i \in 1..MaxDisk
                             /\ d.path = OverlayPath(i)
                             /\ overlay[i] # None
                             /\ d.reflink = overlay[i].copy
                             /\ ~overlay[i].copy => d.type = "qcow2"
                             /\ pc' # "running" => overlay[i].fresh
                        ELSE d.path.dir # "overlay"
    BY DEF DiskInv
  <2> QED
    BY DEF StartInv, DiskInv
<1>3. BoundsInv'
  BY DEF StartInv, BoundsInv
<1>4. LaunchInv'
  BY DEF StartInv, LaunchInv
<1> QED
  BY <1>1, <1>2, <1>3, <1>4 DEF StartInv

\* Decoding the job keeps the invariant: the configuration is the job's own.
LEMMA DecodeInv == ASSUME StartInv, Decode PROVE StartInv'
<1>1. Plain(job.config)
  BY JobPlain
<1>2. TypeOK'
  BY <1>1 DEF StartInv, TypeOK, Decode, Steps, Plain
<1>3. cfg' = job.config /\ pc' = "resolve" /\ job' = job
  BY DEF Decode
<1>4. Len(job.config["disk"]) \in Nat /\ MaxDisk \in Nat
  BY <1>1, ConfigAssumption DEF Plain, IsConfig
<1> QED
  BY <1>1, <1>2, <1>3, <1>4 DEF StartInv, MergeInv, DiskInv, BoundsInv, LaunchInv, Plain, OverlayDone

\* Resolving the payload keeps it: the merge starts again from the job.
LEMMA ResolveInv == ASSUME StartInv, ResolvePayload PROVE StartInv'
<1>1. CASE ~job.oci
  <2>1. UNCHANGED <<job, tag, pulled, cfg, resolved, at, seed, tap, overlay, args, written>> /\ pc = "resolve" /\ pc' = "seed"
    BY <1>1 DEF ResolvePayload, FetchMetadata
  <2>2. TypeOK'
    BY <2>1 DEF StartInv, TypeOK, Steps
  <2> QED
    BY <2>1, <2>2, QuietStep DEF OverlayDone
<1>2. CASE job.oci
  <2>1. /\ cfg' = ApplyJob(BuildConfig(Metadata[tag], "relative"), job.config)
        /\ UNCHANGED <<job, tag, pulled, at, seed, tap, overlay, args, written>>
        /\ resolved' = tag /\ pc' = "seed"
    BY <1>2 DEF ResolvePayload, FetchMetadata
  <2>2. "relative" \in Dir
    BY DEF Dir
  <2>3. /\ Plain(cfg')
        /\ \A f \in Field : job.config[f] # Unset(f) => cfg'[f] = job.config[f]
        /\ \A i \in DOMAIN job.config["disk"] :
             i \in DOMAIN cfg'["disk"] /\ cfg'["disk"][i].path = job.config["disk"][i].path
    BY <2>1, <2>2, MergeIsSound
  <2>4. TypeOK'
    BY <2>1, <2>3 DEF StartInv, TypeOK, Steps, Plain
  <2>5. Len(cfg'["disk"]) \in Nat /\ MaxDisk \in Nat
    BY <2>3, ConfigAssumption DEF Plain, IsConfig
  <2> QED
    BY <2>1, <2>3, <2>4, <2>5 DEF StartInv, MergeInv, DiskInv, BoundsInv, LaunchInv, Plain, OverlayDone
<1> QED
  BY <1>1, <1>2

\* The disk that carries the seed image.
SeedDisk == [path |-> Seed, type |-> "none", readonly |-> TRUE, ephemeral |-> FALSE, reflink |-> FALSE]

\* Making the seed keeps it: its disk comes after the others and is no overlay.
LEMMA SeedInv == ASSUME StartInv, CreateSeed PROVE StartInv'
<1>1. pc = "seed" /\ pc' = "network" /\ at' = 1
      /\ UNCHANGED <<job, tag, resolved, pulled, tap, overlay, args, written>>
  BY DEF CreateSeed, CreateISO
<1>2. CASE ~WantsSeed(cfg)
  <2>1. UNCHANGED <<seed, cfg>>
    BY <1>2 DEF CreateSeed, CreateISO
  <2>2. TypeOK'
    BY <1>1, <2>1 DEF StartInv, TypeOK, Steps
  <2> QED
    BY <1>1, <2>1, <2>2, QuietStep DEF OverlayDone
<1>3. CASE WantsSeed(cfg)
  <2> DEFINE s == cfg["disk"]
             n == Append(s, SeedDisk)
  <2>1. seed' = cfg["cloudInit"] /\ cfg' = [cfg EXCEPT !["disk"] = n]
    BY <1>3 DEF CreateSeed, CreateISO, SeedDisk
  <2>2. IsConfig(cfg) /\ s \in Seq(Disk) /\ Len(s) < MaxDisk /\ Len(s) \in Nat /\ MaxDisk \in Nat
    BY <1>1, ConfigAssumption DEF StartInv, TypeOK, BoundsInv, IsConfig
  <2>3. SeedDisk \in Disk /\ SeedDisk.path.dir # "overlay" /\ ~SeedDisk.ephemeral
    BY DEF SeedDisk, Disk, Path, Dir, Seed
  <2>4. /\ n \in Seq(Disk) /\ Len(n) = Len(s) + 1
        /\ DOMAIN s = 1..Len(s) /\ DOMAIN n = 1..(Len(s) + 1)
        /\ \A i \in DOMAIN s : n[i] = s[i]
        /\ n[Len(s) + 1] = SeedDisk
    BY <2>2, <2>3, AppendProperties
  <2> HIDE DEF n
  <2>5. IsConfig(cfg') /\ cfg'["disk"] = n /\ \A f \in Field \ {"disk"} : cfg'[f] = cfg[f]
    <3> DEFINE c == [cfg EXCEPT !["disk"] = n]
    <3>1. IsConfig(cfg) /\ n \in Seq(Disk)
      BY <2>2, <2>4
    <3>2. IsConfig(c) /\ c["disk"] = n /\ \A f \in Field \ {"disk"} : c[f] = cfg[f]
      BY <3>1, NewDisks, Zenon
    <3>3. cfg' = c
      BY <2>1
    <3> HIDE DEF c
    <3> QED
      BY <3>2, <3>3
  <2>6. seed' \in CloudInit \union {None}
    BY <2>1, <2>2 DEF IsConfig
  <2>7. TypeOK'
    BY <1>1, <2>5, <2>6 DEF StartInv, TypeOK, Steps
  <2>8. MergeInv'
    BY <1>1, <2>2, <2>4, <2>5 DEF StartInv, MergeInv
  <2>9. DiskInv'
    <3>1. \A i \in DOMAIN s : s[i].path.dir # "overlay"
      BY <1>1 DEF StartInv, DiskInv, OverlayDone
    <3>2. \A i \in DOMAIN n : n[i].path.dir # "overlay" /\ ~OverlayDone(i)'
      BY <1>1, <2>2, <2>3, <2>4, <3>1 DEF OverlayDone
    <3> QED
      BY <2>5, <3>2 DEF DiskInv
  <2>10. BoundsInv' /\ LaunchInv'
    BY <1>1, <2>2, <2>4, <2>5 DEF BoundsInv, LaunchInv
  <2> QED
    BY <2>7, <2>8, <2>9, <2>10 DEF StartInv
<1> QED
  BY <1>2, <1>3

\* The steps over the networks keep it: they leave the configuration alone.
LEMMA TapInv == ASSUME StartInv, RaiseTap \/ NetworkReady PROVE StartInv'
<1>1. CASE RaiseTap
  <2>1. pc = "network" /\ at \in DOMAIN cfg["network"] /\ at' = at + 1
        /\ UNCHANGED <<pc, job, tag, resolved, pulled, cfg, seed, overlay, args, written>>
    BY <1>1 DEF RaiseTap
  <2>2. cfg["network"][at] \in Network
    BY <2>1, ElementOfSeq DEF StartInv, TypeOK, IsConfig
  <2>3. tap' \in Text \union {None}
    BY <1>1, <2>2 DEF RaiseTap, Network, StartInv, TypeOK
  <2>4. TypeOK'
    BY <2>1, <2>3 DEF StartInv, TypeOK
  <2>5. at \in Nat /\ at >= 1
    BY <2>1 DEF StartInv, TypeOK, BoundsInv
  <2> QED
    BY <2>1, <2>4, <2>5, QuietStep DEF OverlayDone
<1>2. CASE NetworkReady
  <2>1. pc = "network" /\ pc' = "pull" /\ UNCHANGED <<job, tag, resolved, pulled, cfg, at, seed, tap, overlay, args, written>>
    BY <1>2 DEF NetworkReady
  <2>2. TypeOK'
    BY <2>1 DEF StartInv, TypeOK, Steps
  <2> QED
    BY <2>1, <2>2, QuietStep DEF OverlayDone
<1> QED
  BY <1>1, <1>2

\* Pulling the payload keeps it: the second merge is of the same job.
LEMMA PullInv == ASSUME StartInv, PullPayload PROVE StartInv'
<1>1. pc = "pull" /\ pc' = "disks" /\ at' = 1
      /\ UNCHANGED <<job, tag, resolved, seed, tap, overlay, args, written>>
  BY DEF PullPayload, ReadMetadata
<1>3. CASE ~job.oci
  <2>1. UNCHANGED <<cfg, pulled>>
    BY <1>3 DEF PullPayload, ReadMetadata
  <2>2. TypeOK'
    BY <1>1, <2>1 DEF StartInv, TypeOK, Steps
  <2>3. \A i \in DOMAIN cfg["disk"] : i \in Nat /\ i >= 1
    BY DEF StartInv, TypeOK, IsConfig
  <2>4. \A i \in DOMAIN cfg["disk"] : OverlayDone(i)' = OverlayDone(i)
    BY <1>1, <2>3 DEF OverlayDone
  <2> QED
    BY <1>1, <2>1, <2>2, <2>4, QuietStep
<1>4. CASE job.oci
  <2>1. cfg' = ApplyJob(BuildConfig(Metadata[tag], tag), job.config) /\ pulled' = tag
    BY <1>4 DEF PullPayload, ReadMetadata
  <2>2. tag \in Dir /\ tag # "overlay" /\ tag \in Image
    BY ConfigAssumption DEF Dir, StartInv, TypeOK
  <2>3. /\ Plain(cfg')
        /\ \A f \in Field : job.config[f] # Unset(f) => cfg'[f] = job.config[f]
        /\ \A i \in DOMAIN job.config["disk"] :
             i \in DOMAIN cfg'["disk"] /\ cfg'["disk"][i].path = job.config["disk"][i].path
    BY <2>1, <2>2, MergeIsSound
  <2>4. TypeOK'
    BY <1>1, <2>1, <2>2, <2>3 DEF StartInv, TypeOK, Steps, Plain
  <2>5. /\ Len(cfg'["disk"]) \in Nat /\ MaxDisk \in Nat
        /\ \A i \in DOMAIN cfg'["disk"] : i \in Nat /\ i >= 1
    BY <2>3, ConfigAssumption DEF Plain, IsConfig
  <2>6. \A i \in DOMAIN cfg'["disk"] : ~OverlayDone(i)'
    BY <1>1, <2>5 DEF OverlayDone
  <2> QED
    BY <1>1, <2>3, <2>4, <2>5, <2>6 DEF StartInv, MergeInv, DiskInv, BoundsInv, LaunchInv, Plain
<1> QED
  BY <1>3, <1>4

\* The loop over the disks: an overlay changes what is said of its own disk.
LEMMA OverlayInv == ASSUME StartInv, CreateOverlay PROVE StartInv'
<1> DEFINE s == cfg["disk"]
           d == s[at]
<1>1. pc = "disks" /\ at \in DOMAIN s /\ at' = at + 1
      /\ UNCHANGED <<pc, job, tag, resolved, pulled, seed, tap, args, written>>
  BY DEF CreateOverlay, Created, IsSameXFSPartition
<1>2. /\ IsConfig(cfg) /\ s \in Seq(Disk) /\ Len(s) \in Nat /\ DOMAIN s = 1..Len(s)
      /\ Len(s) <= MaxDisk /\ MaxDisk \in Nat
  BY <1>1, ConfigAssumption DEF StartInv, TypeOK, BoundsInv, IsConfig
<1>3. at \in Nat /\ at \in 1..MaxDisk /\ d \in Disk
  BY <1>1, <1>2, ElementOfSeq
<1>4. CASE ~d.ephemeral
  <2>1. UNCHANGED <<cfg, overlay>>
    BY <1>4 DEF CreateOverlay, Created, IsSameXFSPartition
  <2>2. TypeOK'
    BY <1>1, <1>3, <2>1 DEF StartInv, TypeOK
  <2>3. MergeInv' /\ BoundsInv' /\ LaunchInv'
    BY <1>1, <2>1 DEF StartInv, MergeInv, BoundsInv, LaunchInv
  <2>4. \A i \in DOMAIN s : s[i].ephemeral => OverlayDone(i)' = OverlayDone(i)
    BY <1>1, <1>2, <1>3, <1>4 DEF OverlayDone
  <2>5. DiskInv'
    BY <1>1, <2>1, <2>4 DEF StartInv, DiskInv
  <2> QED
    BY <2>2, <2>3, <2>5 DEF StartInv
<1>5. CASE d.ephemeral
  <2>1. PICK copy \in BOOLEAN :
          /\ overlay' = [overlay EXCEPT ![at] = [base |-> d.path, copy |-> copy, fresh |-> TRUE]]
          /\ cfg' = [cfg EXCEPT !["disk"][at] =
               [d EXCEPT !.path = OverlayPath(at), !.reflink = copy,
                         !.type = IF copy THEN d.type ELSE "qcow2"]]
    BY <1>5 DEF CreateOverlay, Created, IsSameXFSPartition
  <2> DEFINE e == [d EXCEPT !.path = OverlayPath(at), !.reflink = copy,
                            !.type = IF copy THEN d.type ELSE "qcow2"]
             o == [base |-> d.path, copy |-> copy, fresh |-> TRUE]
             n == [s EXCEPT ![at] = e]
  <2>2. d.path \in Path /\ d.path.dir # "overlay"
    <3>1. d.path \in Path
      BY <1>3 DEF Disk
    <3>2. ~OverlayDone(at)
      BY <1>1, <1>3 DEF OverlayDone
    <3> QED
      BY <1>1, <3>1, <3>2 DEF StartInv, DiskInv
  <2>3. e \in Disk
    BY <1>3 DEF Disk, Path, Dir, OverlayPath
  <2>4. /\ e.path = OverlayPath(at) /\ e.reflink = copy /\ (~copy => e.type = "qcow2")
        /\ e.ephemeral
    BY <1>3, <1>5 DEF Disk
  <2>5. /\ n \in Seq(Disk) /\ Len(n) = Len(s) /\ DOMAIN n = DOMAIN s
        /\ n[at] = e /\ \A i \in DOMAIN s : i # at => n[i] = s[i]
    <3> HIDE DEF e
    <3> QED
      BY <1>1, <1>2, <2>3, ExceptSeq
  <2>6. cfg' = [cfg EXCEPT !["disk"] = n]
    BY <2>1
  <2> HIDE DEF e, n
  <2>7. IsConfig(cfg') /\ cfg'["disk"] = n /\ \A f \in Field \ {"disk"} : cfg'[f] = cfg[f]
    <3> DEFINE c == [cfg EXCEPT !["disk"] = n]
    <3>1. IsConfig(cfg) /\ n \in Seq(Disk)
      BY <1>2, <2>5
    <3>2. IsConfig(c) /\ c["disk"] = n /\ \A f \in Field \ {"disk"} : c[f] = cfg[f]
      BY <3>1, NewDisks, Zenon
    <3>3. cfg' = c
      BY <2>6
    <3> HIDE DEF c
    <3> QED
      BY <3>2, <3>3
  <2>8. o \in OverlayFile /\ o.base = d.path /\ o.copy = copy /\ o.fresh /\ o # None
    <3>1. o \in OverlayFile
      BY <2>1, <2>2 DEF OverlayFile
    <3> QED
      BY <3>1, ConfigAssumption
  <2>9. /\ overlay'[at] = o
        /\ \A i \in 1..MaxDisk : i # at => overlay'[i] = overlay[i]
        /\ overlay' \in [1..MaxDisk -> OverlayFile \union {None}]
    <3> HIDE DEF o
    <3>1. overlay' = [overlay EXCEPT ![at] = o]
      BY <2>1 DEF o
    <3> QED
      BY <1>3, <2>8, <3>1 DEF StartInv, TypeOK
  <2> HIDE DEF o
  <2>10. TypeOK'
    BY <1>1, <1>3, <2>7, <2>9 DEF StartInv, TypeOK
  <2>11. MergeInv'
    <3>1. \A f \in Field \ {"disk"} : job.config[f] # Unset(f) => cfg'[f] = job.config[f]
      BY <1>1, <2>7 DEF StartInv, MergeInv
    <3>2. ASSUME NEW i \in DOMAIN job.config["disk"]
          PROVE  /\ i \in DOMAIN n
                 /\ \/ n[i].path = job.config["disk"][i].path
                    \/ /\ n[i].path = OverlayPath(i)
                       /\ overlay'[i] # None /\ overlay'[i].base = job.config["disk"][i].path
      <4>1. /\ i \in DOMAIN s
            /\ \/ s[i].path = job.config["disk"][i].path
               \/ /\ s[i].path = OverlayPath(i)
                  /\ overlay[i] # None /\ overlay[i].base = job.config["disk"][i].path
        BY <1>1 DEF StartInv, MergeInv
      <4>2. i \in 1..MaxDisk
        BY <1>2, <4>1
      <4>3. CASE i # at
        BY <2>5, <2>9, <4>1, <4>2, <4>3
      <4>4. CASE i = at
        <5>1. s[i].path # OverlayPath(i)
          BY <2>2, <4>4 DEF OverlayPath
        <5> QED
          BY <2>4, <2>5, <2>8, <2>9, <4>1, <4>4, <5>1
      <4> QED
        BY <4>3, <4>4
    <3> QED
      BY <1>1, <2>7, <3>1, <3>2 DEF MergeInv
  <2>12. DiskInv'
    <3> SUFFICES ASSUME NEW i \in DOMAIN n
                 PROVE  IF n[i].ephemeral /\ OverlayDone(i)'
                          THEN /\ i \in 1..MaxDisk
                               /\ n[i].path = OverlayPath(i)
                               /\ overlay'[i] # None
                               /\ n[i].reflink = overlay'[i].copy
                               /\ ~overlay'[i].copy => n[i].type = "qcow2"
                               /\ overlay'[i].fresh
                          ELSE n[i].path.dir # "overlay"
      BY <1>1, <2>7 DEF DiskInv
    <3>1. CASE i = at
      <4>1. OverlayDone(i)'
        BY <1>1, <1>3, <3>1 DEF OverlayDone
      <4> QED
        BY <1>3, <2>4, <2>5, <2>8, <2>9, <3>1, <4>1
    <3>2. CASE i # at
      <4>1. i \in DOMAIN s /\ i \in 1..MaxDisk /\ n[i] = s[i] /\ overlay'[i] = overlay[i]
        BY <1>2, <2>5, <2>9, <3>2
      <4>2. OverlayDone(i)' = OverlayDone(i)
        BY <1>1, <1>2, <1>3, <3>2, <4>1 DEF OverlayDone
      <4> QED
        BY <1>1, <4>1, <4>2 DEF StartInv, DiskInv
    <3> QED
      BY <3>1, <3>2
  <2>13. BoundsInv' /\ LaunchInv'
    BY <1>1, <1>2, <2>5, <2>7 DEF BoundsInv, LaunchInv
  <2> QED
    BY <2>10, <2>11, <2>12, <2>13 DEF StartInv
<1> QED
  BY <1>4, <1>5

\* The loop is over: every disk has been passed.
LEMMA DisksReadyInv == ASSUME StartInv, DisksReady PROVE StartInv'
<1>1. pc = "disks" /\ pc' = "launch" /\ at \notin DOMAIN cfg["disk"]
      /\ UNCHANGED <<job, tag, resolved, pulled, cfg, at, seed, tap, overlay, args, written>>
  BY DEF DisksReady
<1>2. at \in Nat /\ at >= 1
  BY <1>1 DEF StartInv, TypeOK, BoundsInv
<1>3. TypeOK'
  BY <1>1 DEF StartInv, TypeOK, Steps
<1>4. Len(cfg["disk"]) \in Nat /\ DOMAIN cfg["disk"] = 1..Len(cfg["disk"])
  BY DEF StartInv, TypeOK, IsConfig
<1>5. \A i \in DOMAIN cfg["disk"] : OverlayDone(i)' = OverlayDone(i)
  BY <1>1, <1>2, <1>4 DEF OverlayDone
<1> QED
  BY <1>1, <1>3, <1>5, QuietStep

\* Building the arguments keeps it.
LEMMA LaunchKeepsInv == ASSUME StartInv, Launch PROVE StartInv'
<1>1. pc = "launch" /\ pc' = "running" /\ args' = BuildArgs(cfg, job)
      /\ UNCHANGED <<job, tag, resolved, pulled, cfg, at, seed, tap, overlay, written>>
  BY DEF Launch
<1>2. TypeOK'
  BY <1>1 DEF StartInv, TypeOK
<1>3. MergeInv' /\ BoundsInv'
  BY <1>1 DEF StartInv, MergeInv, BoundsInv
<1>4. DiskInv'
  BY <1>1 DEF StartInv, DiskInv, OverlayDone
<1>5. LaunchInv'
  BY <1>1 DEF LaunchInv
<1> QED
  BY <1>2, <1>3, <1>4, <1>5 DEF StartInv

\* A start that fails: nothing is claimed of it.
LEMMA FailInv == ASSUME StartInv, Fail PROVE StartInv'
<1>1. pc \in Steps /\ pc' = "idle"
      /\ UNCHANGED <<job, tag, resolved, pulled, cfg, at, tap, args, written>>
  BY DEF Fail
<1>2. seed' \in CloudInit \union {None}
  BY DEF Fail, BrokenSeed, CloudInit, StartInv, TypeOK
<1>3. overlay' \in [1..MaxDisk -> OverlayFile \union {None}]
  BY DEF Fail, StartInv, TypeOK
<1>4. TypeOK'
  BY <1>1, <1>2, <1>3 DEF StartInv, TypeOK
<1> QED
  BY <1>1, <1>4 DEF StartInv, MergeInv, DiskInv, BoundsInv, LaunchInv, Steps

\* What a guest writes makes an overlay stale, and nothing else.
LEMMA GuestInv == ASSUME StartInv, GuestWrites PROVE StartInv'
<1>1. pc = "running" /\ UNCHANGED <<pc, job, tag, resolved, pulled, cfg, at, seed, tap, args>>
  BY DEF GuestWrites
<1>2. PICK k \in DOMAIN args.disks :
        LET p == args.disks[k].path IN
        /\ written' = written \union {p}
        /\ overlay' = IF p.dir = "overlay" /\ overlay[p.file] # None
                      THEN [overlay EXCEPT ![p.file].fresh = FALSE] ELSE overlay
  BY DEF GuestWrites
<1> DEFINE p == args.disks[k].path
<1>3. args.disks = [i \in DOMAIN cfg["disk"] |-> DiskArg(cfg["disk"][i])]
  BY <1>1 DEF StartInv, LaunchInv, BuildArgs
<1>4. k \in DOMAIN cfg["disk"] /\ p = cfg["disk"][k].path /\ cfg["disk"][k] \in Disk
  <2>1. k \in DOMAIN cfg["disk"] /\ args.disks[k] = DiskArg(cfg["disk"][k])
    BY <1>3
  <2>2. cfg["disk"][k] \in Disk
    BY <2>1, ElementOfSeq DEF StartInv, TypeOK, IsConfig
  <2> QED
    BY <2>1, <2>2 DEF DiskArg
<1>5. p \in Path
  BY <1>4 DEF Disk
<1>6. /\ overlay' \in [1..MaxDisk -> OverlayFile \union {None}]
      /\ \A i \in 1..MaxDisk : overlay[i] # None =>
           overlay'[i] # None /\ overlay'[i].base = overlay[i].base /\ overlay'[i].copy = overlay[i].copy
  <2>1. CASE overlay' = overlay
    BY <2>1 DEF StartInv, TypeOK
  <2>2. CASE p.dir = "overlay" /\ overlay[p.file] # None
    <3> DEFINE j == p.file
    <3>1. j \in 1..MaxDisk
      <4>1. cfg["disk"][k].ephemeral /\ k \in 1..MaxDisk /\ p = OverlayPath(k)
        BY <1>1, <1>4, <2>2 DEF StartInv, DiskInv, OverlayDone
      <4> QED
        BY <4>1 DEF OverlayPath
    <3>2. overlay' = [overlay EXCEPT ![j].fresh = FALSE]
      BY <1>2, <2>2
    <3>3. overlay \in [1..MaxDisk -> OverlayFile \union {None}] /\ overlay[j] \in OverlayFile
      BY <2>2, <3>1 DEF StartInv, TypeOK
    <3> HIDE DEF j
    <3>4. /\ [overlay[j] EXCEPT !.fresh = FALSE] \in OverlayFile
          /\ [overlay[j] EXCEPT !.fresh = FALSE].base = overlay[j].base
          /\ [overlay[j] EXCEPT !.fresh = FALSE].copy = overlay[j].copy
      BY <3>3 DEF OverlayFile
    <3>5. \A i \in 1..MaxDisk :
             overlay'[i] = IF i = j THEN [overlay[j] EXCEPT !.fresh = FALSE] ELSE overlay[i]
      BY <3>1, <3>2, <3>3
    <3>6. None \notin OverlayFile
      BY ConfigAssumption
    <3>7. overlay' \in [1..MaxDisk -> OverlayFile \union {None}]
      BY <3>1, <3>2, <3>3, <3>4
    <3> QED
      BY <3>4, <3>5, <3>6, <3>7
  <2> QED
    BY <1>2, <2>1, <2>2
<1>7. TypeOK'
  BY <1>1, <1>2, <1>5, <1>6 DEF StartInv, TypeOK
<1>8. \A i \in DOMAIN cfg["disk"] : i \in 1..MaxDisk
  BY <1>1, ConfigAssumption DEF StartInv, TypeOK, IsConfig, BoundsInv
<1>9. MergeInv'
  BY <1>1, <1>6, <1>8 DEF StartInv, MergeInv
<1>10. DiskInv'
  BY <1>1, <1>6, <1>8 DEF StartInv, DiskInv, OverlayDone
<1>11. BoundsInv' /\ LaunchInv'
  BY <1>1 DEF StartInv, BoundsInv, LaunchInv
<1> QED
  BY <1>7, <1>9, <1>10, <1>11 DEF StartInv

\* Destroying a task and moving a tag keep it.
LEMMA WorldInv == ASSUME StartInv, Destroy \/ Retag \/ UNCHANGED vars PROVE StartInv'
<1>1. CASE Destroy
  <2>1. pc' = "idle" /\ UNCHANGED <<job, tag, resolved, pulled, cfg, at, tap, overlay, written>>
    BY <1>1 DEF Destroy
  <2>2. seed' \in CloudInit \union {None}
    BY <1>1 DEF Destroy, StartInv, TypeOK
  <2>3. TypeOK'
    BY <2>1, <2>2 DEF StartInv, TypeOK
  <2> QED
    BY <2>1, <2>3, QuietStep
<1>2. CASE Retag
  <2>1. tag' \in Image /\ UNCHANGED <<pc, job, resolved, pulled, cfg, at, seed, tap, overlay, args, written>>
    BY <1>2 DEF Retag
  <2>2. TypeOK'
    BY <2>1 DEF StartInv, TypeOK
  <2> QED
    BY <2>1, <2>2 DEF StartInv, MergeInv, DiskInv, BoundsInv, LaunchInv, OverlayDone
<1>3. CASE UNCHANGED vars
  BY <1>3 DEF vars, StartInv, TypeOK, MergeInv, DiskInv, BoundsInv, LaunchInv, OverlayDone
<1> QED
  BY <1>1, <1>2, <1>3

-----------------------------------------------------------------------------
(* Theorems.                                                               *)

\* In every state of every run of starts, the configuration is what the job and
\* the image make of it, and the overlays are those it speaks of.
THEOREM StartInvariant == Spec => []StartInv
<1>1. StartInv /\ [Next]_vars => StartInv'
  BY DecodeInv, ResolveInv, SeedInv, TapInv, PullInv, OverlayInv, DisksReadyInv,
     LaunchKeepsInv, FailInv, GuestInv, WorldInv DEF Next
<1> QED
  BY <1>1, InitInv, PTL DEF Spec

\* The disks of the command line are those of the configuration, made into
\* arguments one by one.
LEMMA LaunchedDisks ==
    ASSUME StartInv, Running
    PROVE  /\ args.disks = [i \in DOMAIN cfg["disk"] |-> DiskArg(cfg["disk"][i])]
           /\ \A i \in DOMAIN cfg["disk"] :
                /\ args.disks[i] = DiskArg(cfg["disk"][i])
                /\ args.disks[i].path = cfg["disk"][i].path
                /\ args.disks[i].type = cfg["disk"][i].type
           /\ args.options = [f \in OptionField |-> cfg[f]]
           /\ args.nets = [i \in DOMAIN cfg["network"] |-> NetArg(cfg["network"][i])]
           /\ args.balloon = BalloonArg(cfg["balloon"])
BY DEF StartInv, LaunchInv, Running, BuildArgs, DiskArg

\* What a job says always wins over what its image says: through two merges,
\* a tag that moves between them, the seed and the overlays.
THEOREM JobAlwaysWins == Spec => []JobWins
<1>1. StartInv => JobWins
  <2> SUFFICES ASSUME StartInv, Running PROVE JobWins
    BY DEF JobWins
  <2>1. \A f \in Field \ {"disk"} : job.config[f] # Unset(f) => cfg[f] = job.config[f]
    BY DEF StartInv, MergeInv, Running
  <2>2. \A f \in OptionField : job.config[f] # None => args.options[f] = job.config[f]
    BY <2>1, LaunchedDisks DEF OptionField, PathField, TextField, Field, Unset
  <2>3. job.config["balloon"] # None => args.balloon = BalloonArg(job.config["balloon"])
    BY <2>1, LaunchedDisks DEF Field, Unset
  <2>4. job.config["network"] # << >> =>
           args.nets = [i \in DOMAIN job.config["network"] |-> NetArg(job.config["network"][i])]
    BY <2>1, LaunchedDisks DEF Field, Unset
  <2>5. ASSUME NEW i \in DOMAIN job.config["disk"]
        PROVE  i \in DOMAIN args.disks /\ Source(i) = job.config["disk"][i].path
    <3>1. /\ i \in DOMAIN cfg["disk"]
          /\ \/ cfg["disk"][i].path = job.config["disk"][i].path
             \/ /\ cfg["disk"][i].path = OverlayPath(i)
                /\ overlay[i] # None /\ overlay[i].base = job.config["disk"][i].path
      BY DEF StartInv, MergeInv, Running
    <3>2. i \in DOMAIN args.disks /\ args.disks[i].path = cfg["disk"][i].path
      BY <3>1, LaunchedDisks
    <3>3. job.config["disk"][i].path.dir # "overlay"
      BY JobPlain DEF Plain
    <3> QED
      BY <3>1, <3>2, <3>3 DEF Source, OverlayPath
  <2> QED
    BY <2>2, <2>3, <2>4, <2>5 DEF JobWins
<1> QED
  BY <1>1, StartInvariant, PTL

\* The command line never says direct of a chain, or backing_files of a copy,
\* and names the overlay made for the disk.
THEOREM OverlaysAlwaysAgree == Spec => []OverlaysAgree
<1>1. StartInv => OverlaysAgree
  <2> SUFFICES ASSUME StartInv, Running, NEW i \in DOMAIN args.disks,
                      args.disks[i].mode # "plain" \/ args.disks[i].path.dir = "overlay"
               PROVE  /\ args.disks[i].path = OverlayPath(i)
                      /\ overlay[i] # None
                      /\ args.disks[i].mode = (IF overlay[i].copy THEN "direct" ELSE "backing")
                      /\ ~overlay[i].copy => args.disks[i].type = "qcow2"
    BY DEF OverlaysAgree
  <2>1. i \in DOMAIN cfg["disk"] /\ args.disks[i] = DiskArg(cfg["disk"][i])
        /\ args.disks[i].path = cfg["disk"][i].path
        /\ args.disks[i].type = cfg["disk"][i].type
    BY LaunchedDisks
  <2>2. cfg["disk"][i].ephemeral
    BY <2>1 DEF DiskArg, StartInv, DiskInv, Running
  <2>3. /\ cfg["disk"][i].path = OverlayPath(i)
        /\ overlay[i] # None
        /\ cfg["disk"][i].reflink = overlay[i].copy
        /\ ~overlay[i].copy => cfg["disk"][i].type = "qcow2"
    BY <2>1, <2>2 DEF StartInv, DiskInv, Running, OverlayDone
  <2> QED
    BY <2>1, <2>2, <2>3 DEF DiskArg
<1> QED
  BY <1>1, StartInvariant, PTL

\* A start never launches a VM on what an earlier one has written to an
\* ephemeral disk.
THEOREM LaunchesAreFresh == Spec => FreshAtLaunch
<1>1. StartInv /\ [Next]_vars =>
        [pc = "launch" /\ pc' = "running" =>
           \A i \in DOMAIN cfg["disk"] :
             cfg["disk"][i].ephemeral => overlay[i] # None /\ overlay[i].fresh]_vars
  BY DEF StartInv, DiskInv, OverlayDone
<1> QED
  BY <1>1, StartInvariant, PTL DEF Spec, FreshAtLaunch
=============================================================================
