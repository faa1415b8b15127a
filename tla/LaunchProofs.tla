----------------------------- MODULE LaunchProofs -----------------------------
(***************************************************************************)
(* Theorems about a launched VM: its taps, its seed, its files and its     *)
(* memory, for any job, images and number of disks, however the tag moves  *)
(* and whatever fails.                                                     *)
(***************************************************************************)
EXTENDS StartConfigProofs

-----------------------------------------------------------------------------
(* What the steps do to the disks.                                         *)

\* The disks of a configuration are numbered from 1.
LEMMA DiskNumbers ==
    ASSUME StartInv
    PROVE  /\ IsConfig(cfg) /\ Len(cfg["disk"]) \in Nat
           /\ DOMAIN cfg["disk"] = 1..Len(cfg["disk"])
           /\ pc # "idle" => DOMAIN cfg["disk"] \subseteq 1..MaxDisk
           /\ \A i \in DOMAIN cfg["disk"] : cfg["disk"][i] \in Disk
<1>1. IsConfig(cfg) /\ cfg["disk"] \in Seq(Disk)
  BY DEF StartInv, TypeOK, IsConfig
<1>2. MaxDisk \in Nat
  BY ConfigAssumption
<1>3. \A i \in DOMAIN cfg["disk"] : cfg["disk"][i] \in Disk
  BY <1>1, ElementOfSeq
<1> QED
  BY <1>1, <1>2, <1>3 DEF StartInv, BoundsInv

\* CreateSeed appends one disk, the seed's, if it is asked for.
LEMMA SeedStep ==
    ASSUME StartInv, CreateSeed
    PROVE  /\ \A f \in Field \ {"disk"} : cfg'[f] = cfg[f]
           /\ ~WantsSeed(cfg) => cfg' = cfg
           /\ WantsSeed(cfg) =>
                LET n == Len(cfg["disk"]) + 1 IN
                /\ seed' = cfg["cloudInit"]
                /\ DOMAIN cfg'["disk"] = DOMAIN cfg["disk"] \union {n}
                /\ cfg'["disk"][n] = SeedDisk
                /\ \A i \in DOMAIN cfg["disk"] : cfg'["disk"][i] = cfg["disk"][i]
<1>1. CASE ~WantsSeed(cfg)
  BY <1>1 DEF CreateSeed
<1>2. CASE WantsSeed(cfg)
  <2> DEFINE s == cfg["disk"]
             n == Append(s, SeedDisk)
  <2>1. seed' = cfg["cloudInit"] /\ cfg' = [cfg EXCEPT !["disk"] = n]
    BY <1>2 DEF CreateSeed, CreateISO, SeedDisk
  <2>2. IsConfig(cfg) /\ s \in Seq(Disk) /\ Len(s) \in Nat
    BY DEF StartInv, TypeOK, IsConfig
  <2>3. SeedDisk \in Disk
    BY DEF SeedDisk, Disk, Path, Dir, Seed
  <2>4. /\ n \in Seq(Disk) /\ Len(n) = Len(s) + 1
        /\ DOMAIN s = 1..Len(s) /\ DOMAIN n = 1..(Len(s) + 1)
        /\ \A i \in DOMAIN s : n[i] = s[i]
        /\ n[Len(s) + 1] = SeedDisk
    BY <2>2, <2>3, AppendProperties
  <2> HIDE DEF n
  <2>5. cfg'["disk"] = n /\ \A f \in Field \ {"disk"} : cfg'[f] = cfg[f]
    <3>1. /\ [cfg EXCEPT !["disk"] = n]["disk"] = n
          /\ \A f \in Field \ {"disk"} : [cfg EXCEPT !["disk"] = n][f] = cfg[f]
      BY <2>2, <2>4, NewDisks, Zenon
    <3> QED
      BY <2>1, <3>1, Zenon
  <2>6. 1..(Len(s) + 1) = (1..Len(s)) \union {Len(s) + 1}
    BY <2>2
  <2> QED
    BY <1>2, <2>1, <2>4, <2>5, <2>6
<1> QED
  BY <1>1, <1>2

\* CreateOverlay puts an overlay in the place of one ephemeral disk.
LEMMA OverlayStep ==
    ASSUME StartInv, CreateOverlay
    PROVE  /\ at \in 1..MaxDisk /\ at' = at + 1
           /\ DOMAIN cfg'["disk"] = DOMAIN cfg["disk"]
           /\ \A f \in Field \ {"disk"} : cfg'[f] = cfg[f]
           /\ \A i \in DOMAIN cfg["disk"] :
                /\ i # at \/ ~cfg["disk"][i].ephemeral =>
                     cfg'["disk"][i] = cfg["disk"][i] /\ overlay'[i] = overlay[i]
                /\ i = at /\ cfg["disk"][i].ephemeral =>
                     /\ cfg'["disk"][i].path = OverlayPath(i)
                     /\ cfg'["disk"][i].ephemeral
                     /\ overlay'[i].base = cfg["disk"][i].path
<1> DEFINE s == cfg["disk"]
           d == s[at]
<1>1. pc = "disks" /\ at \in DOMAIN s /\ at' = at + 1
  BY DEF CreateOverlay
<1>2. /\ IsConfig(cfg) /\ s \in Seq(Disk) /\ DOMAIN s \subseteq 1..MaxDisk
      /\ at \in 1..MaxDisk /\ at \in Nat /\ d \in Disk
  BY <1>1, DiskNumbers DEF IsConfig
<1>3. CASE ~d.ephemeral
  <2>1. UNCHANGED <<cfg, overlay>>
    BY <1>3 DEF CreateOverlay
  <2>2. \A i \in DOMAIN s : i = at => ~s[i].ephemeral
    BY <1>3
  <2>3. cfg' = cfg /\ overlay' = overlay
    BY <2>1
  <2>4. DOMAIN cfg'["disk"] = DOMAIN cfg["disk"] /\ \A f \in Field \ {"disk"} : cfg'[f] = cfg[f]
    BY <2>3
  <2>5. \A i \in DOMAIN s : cfg'["disk"][i] = cfg["disk"][i] /\ overlay'[i] = overlay[i]
    BY <2>3
  <2> HIDE DEF d
  <2> QED
    BY <1>1, <1>2, <2>2, <2>4, <2>5
<1>4. CASE d.ephemeral
  <2>1. PICK copy \in BOOLEAN :
          /\ overlay' = [overlay EXCEPT ![at] = Created(d, copy)]
          /\ cfg' = [cfg EXCEPT !["disk"][at] =
               [d EXCEPT !.path = OverlayPath(at), !.reflink = copy,
                         !.type = IF copy THEN d.type ELSE "qcow2"]]
    BY <1>4 DEF CreateOverlay, IsSameXFSPartition
  <2> DEFINE e == [d EXCEPT !.path = OverlayPath(at), !.reflink = copy,
                            !.type = IF copy THEN d.type ELSE "qcow2"]
             n == [s EXCEPT ![at] = e]
  <2>2. e \in Disk /\ e.path = OverlayPath(at) /\ e.ephemeral
    <3>1. e \in Disk
      BY <1>2 DEF Disk, Path, Dir, OverlayPath
    <3>2. e.path = OverlayPath(at) /\ e.ephemeral
      BY <1>2, <1>4 DEF Disk
    <3> QED
      BY <3>1, <3>2
  <2>3. cfg' = [cfg EXCEPT !["disk"] = n]
    BY <2>1
  <2> HIDE DEF e
  <2>4. /\ n \in Seq(Disk) /\ DOMAIN n = DOMAIN s
        /\ n[at] = e /\ \A i \in DOMAIN s : i # at => n[i] = s[i]
    BY <1>1, <1>2, <2>2, ExceptSeq
  <2> HIDE DEF n
  <2>5. cfg'["disk"] = n /\ \A f \in Field \ {"disk"} : cfg'[f] = cfg[f]
    <3>1. /\ [cfg EXCEPT !["disk"] = n]["disk"] = n
          /\ \A f \in Field \ {"disk"} : [cfg EXCEPT !["disk"] = n][f] = cfg[f]
      BY <1>2, <2>4, NewDisks, Zenon
    <3> QED
      BY <2>3, <3>1, Zenon
  <2>6. /\ overlay'[at].base = d.path
        /\ \A i \in DOMAIN s : i # at => overlay'[i] = overlay[i]
    BY <1>2, <2>1 DEF Created, StartInv, TypeOK
  <2> QED
    BY <1>1, <1>2, <1>4, <2>2, <2>4, <2>5, <2>6
<1> QED
  BY <1>3, <1>4

\* From here to there are the loops' ends, the launch and the stutters; a start that
\* ends, or begins, has nothing prepared.
LEMMA OtherSteps ==
    ASSUME DisksReady \/ Launch \/ NetworkReady \/ Fail \/ Destroy \/ Decode
           \/ Retag \/ UNCHANGED vars
    PROVE  /\ job' = job /\ written' = written
           /\ \/ pc' = "idle"
              \/ pc' = "resolve" /\ cfg' = job.config /\ resolved' = None /\ pulled' = None
              \/ /\ UNCHANGED <<resolved, pulled, cfg, at, seed, tap, overlay>>
                 /\ \/ pc' = pc
                    \/ pc = "network" /\ pc' = "pull" /\ at \notin DOMAIN cfg["network"]
                    \/ pc = "disks" /\ pc' = "launch" /\ at \notin DOMAIN cfg["disk"]
                    \/ pc = "launch" /\ pc' = "running" /\ ~MemoryRefused(job)
BY DEF DisksReady, Launch, NetworkReady, Fail, Destroy, Decode, Retag, vars

-----------------------------------------------------------------------------
(* The taps.                                                               *)

\* What a merge asks of the host does not depend on the image's place.
LEMMA MergedFields ==
    ASSUME NEW m, NEW base, NEW f \in HostField
    PROVE  ApplyJob(BuildConfig(m, base), job.config)[f]
             = ApplyJob(BuildConfig(m, "relative"), job.config)[f]
<1>1. f \in Field /\ f \notin PathField /\ f # "disk"
  BY DEF HostField, Field, OptionField, PathField, TextField
<1>2. BuildConfig(m, base)[f] = BuildConfig(m, "relative")[f]
  BY <1>1 DEF BuildConfig
<1> QED
  BY <1>1, <1>2 DEF ApplyJob

\* The second merge of the image that was resolved asks for the same.
LEMMA PullAsksTheSame ==
    ASSUME NetInv, PullPayload, resolved = pulled', NEW f \in HostField
    PROVE  cfg'[f] = cfg[f]
<1>1. CASE ~job.oci
  BY <1>1 DEF PullPayload
<1>2. CASE job.oci
  <2>1. pc = "pull" /\ pulled' = tag
        /\ cfg' = ApplyJob(BuildConfig(Metadata[tag], tag), job.config)
    BY <1>2 DEF PullPayload, ReadMetadata
  <2>2. cfg[f] = Merged(resolved, f)
    BY <1>2, <2>1 DEF NetInv
  <2> QED
    BY <2>1, <2>2, MergedFields DEF Merged
<1> QED
  BY <1>1, <1>2

\* The networks are raised one by one, of one configuration; only the first
\* automatic one can be, since the device is not added again.
LEMMA NetKept == ASSUME StartInv, NetInv, [Next]_vars PROVE NetInv'
<1>1. /\ cfg["network"] \in Seq(Network) /\ at \in Nat
      /\ DOMAIN cfg["network"] = 1..Len(cfg["network"]) /\ Len(cfg["network"]) \in Nat
  BY DEF StartInv, TypeOK, IsConfig
<1>2. "network" \in Field \ {"disk"}
  BY DEF Field
<1>3. CASE ResolvePayload
  <2>1. pc' = "seed" /\ job' = job
    BY <1>3 DEF ResolvePayload
  <2>2. job.oci => /\ resolved' \in Image
                   /\ \A f \in HostField : cfg'[f] = Merged(resolved, f)'
    BY <1>3 DEF ResolvePayload, FetchMetadata, Merged, StartInv, TypeOK
  <2> QED
    BY <2>1, <2>2 DEF NetInv
<1>4. CASE CreateSeed
  <2>1. pc = "seed" /\ pc' = "network" /\ at' = 1 /\ UNCHANGED <<job, resolved, pulled>>
    BY <1>4 DEF CreateSeed
  <2>2. cfg'["network"] = cfg["network"]
    BY <1>2, <1>4, SeedStep
  <2>3. \A i \in DOMAIN cfg["network"] : ~(i < 1)
    BY <1>1
  <2>4. pc' = "network" /\ cfg'["network"] = cfg["network"] /\ at' = 1
    BY <2>1, <2>2
  <2>5. job'.oci => /\ resolved' \in Image
                    /\ \A f \in HostField : cfg'[f] = Merged(resolved, f)'
    <3>1. \A f \in HostField : cfg'[f] = cfg[f]
      BY <1>4, SeedStep DEF HostField, Field
    <3> QED
      BY <2>1, <3>1 DEF NetInv, Merged
  <2> QED
    BY <2>3, <2>4, <2>5 DEF NetInv
<1>5. CASE RaiseTap
  <2>1. /\ pc = "network" /\ at \in DOMAIN cfg["network"] /\ at' = at + 1
        /\ UNCHANGED <<pc, job, resolved, pulled, cfg>>
        /\ IF cfg["network"][at].auto THEN tap = None /\ tap' = cfg["network"][at].on
                                      ELSE tap' = tap
    BY <1>5 DEF RaiseTap
  <2>2. ASSUME NEW i \in DOMAIN cfg["network"], i < at + 1 PROVE TapRaised(i)'
    <3>1. CASE i = at
      BY <2>1, <3>1 DEF TapRaised
    <3>2. CASE i # at
      <4>1. TapRaised(i)
        BY <1>1, <2>1, <2>2, <3>2 DEF NetInv
      <4>2. cfg["network"][i].on # None
        <5>1. cfg["network"][i] \in Network
          BY <1>1, ElementOfSeq
        <5>2. None \notin Text
          BY ConfigAssumption
        <5> QED
          BY <5>1, <5>2 DEF Network
      <4>3. cfg["network"][i].auto => tap' = cfg["network"][i].on
        BY <2>1, <4>1, <4>2 DEF TapRaised
      <4>4. cfg' = cfg
        BY <2>1
      <4> QED
        BY <4>3, <4>4 DEF TapRaised
    <3> QED
      BY <3>1, <3>2
  <2> QED
    BY <2>1, <2>2 DEF NetInv, Merged
<1>6. CASE PullPayload
  <2>1. pc = "pull" /\ pc' = "disks" /\ UNCHANGED <<job, resolved, tap>>
    BY <1>6 DEF PullPayload
  <2>2. \A i \in DOMAIN cfg["network"] : TapRaised(i)
    BY <2>1 DEF NetInv
  <2>3. resolved = pulled' => cfg'["network"] = cfg["network"]
    BY <1>6, PullAsksTheSame DEF HostField
  <2> QED
    BY <2>1, <2>2, <2>3 DEF NetInv, TapRaised
<1>7. CASE CreateOverlay
  <2>1. pc = "disks" /\ UNCHANGED <<pc, job, resolved, pulled, tap>>
    BY <1>7 DEF CreateOverlay
  <2>2. cfg'["network"] = cfg["network"]
    BY <1>2, <1>7, OverlayStep
  <2> QED
    BY <2>1, <2>2 DEF NetInv, TapRaised
<1>8. CASE GuestWrites
  BY <1>8 DEF GuestWrites, NetInv, TapRaised
<1>9. CASE DisksReady \/ Launch \/ NetworkReady \/ Fail \/ Destroy \/ Decode \/ Retag
           \/ UNCHANGED vars
  <2>1. CASE pc' \in {"idle", "resolve"} /\ pc' # pc
    BY <2>1 DEF NetInv
  <2>2. CASE ~(pc' \in {"idle", "resolve"} /\ pc' # pc)
    <3>1. CASE pc' \in {"idle", "resolve"}
      BY <3>1 DEF NetInv
    <3>2. CASE pc' \notin {"idle", "resolve"}
      <4>1. /\ UNCHANGED <<job, resolved, pulled, cfg, at, seed, tap, overlay>>
            /\ \/ pc' = pc
               \/ pc = "network" /\ pc' = "pull" /\ at \notin DOMAIN cfg["network"]
               \/ pc = "disks" /\ pc' = "launch"
               \/ pc = "launch" /\ pc' = "running"
        BY <1>9, <3>2, OtherSteps
      <4>2. pc = "network" /\ at \notin DOMAIN cfg["network"] =>
              \A i \in DOMAIN cfg["network"] : i < at
        BY <1>1 DEF StartInv, BoundsInv
      <4> QED
        BY <4>1, <4>2 DEF NetInv, TapRaised, Merged
    <3> QED
      BY <3>1, <3>2
  <2> QED
    BY <2>1, <2>2
<1> QED
  BY <1>3, <1>4, <1>5, <1>6, <1>7, <1>8, <1>9 DEF Next

\* A tap comes only of an automatic network, and the seed file is of the data of
\* this start: of a configuration that the second merge does not change.
LEMMA AskedKept == ASSUME StartInv, NetInv, AskedInv, [Next]_vars PROVE AskedInv'
<1>1. "network" \in Field \ {"disk"} /\ "cloudInit" \in Field \ {"disk"}
  BY DEF Field
<1>2. CASE ResolvePayload
  BY <1>2 DEF ResolvePayload, AskedInv
<1>3. CASE CreateSeed
  <2>1. pc = "seed" /\ pc' = "network" /\ tap' = tap
    BY <1>3 DEF CreateSeed
  <2>2. tap' = None
    BY <2>1 DEF AskedInv
  <2>3. WantsSeed(cfg)' => seed' = cfg'["cloudInit"]
    <3>1. cfg'["cloudInit"] = cfg["cloudInit"]
      BY <1>1, <1>3, SeedStep
    <3> QED
      BY <1>3, <3>1, SeedStep DEF WantsSeed
  <2> QED
    BY <2>1, <2>2, <2>3 DEF AskedInv, Asked
<1>4. CASE RaiseTap
  <2>1. /\ pc = "network" /\ at \in DOMAIN cfg["network"]
        /\ UNCHANGED <<pc, cfg, seed>>
        /\ tap' = tap \/ cfg["network"][at].auto
    BY <1>4 DEF RaiseTap
  <2> QED
    BY <2>1 DEF AskedInv, Asked, WantsSeed
<1>5. CASE PullPayload
  <2>1. pc = "pull" /\ pc' = "disks" /\ UNCHANGED <<resolved, seed, tap>>
    BY <1>5 DEF PullPayload
  <2>2. SUFFICES ASSUME resolved = pulled' PROVE Asked'
    BY <2>1 DEF AskedInv
  <2>3. cfg'["network"] = cfg["network"] /\ cfg'["cloudInit"] = cfg["cloudInit"]
    BY <1>5, <2>2, PullAsksTheSame DEF HostField
  <2>4. Asked
    BY <2>1 DEF AskedInv
  <2> QED
    BY <2>1, <2>3, <2>4 DEF Asked, WantsSeed
<1>6. CASE CreateOverlay
  <2>1. pc = "disks" /\ UNCHANGED <<pc, resolved, pulled, seed, tap>>
    BY <1>6 DEF CreateOverlay
  <2>2. cfg'["network"] = cfg["network"] /\ cfg'["cloudInit"] = cfg["cloudInit"]
    BY <1>1, <1>6, OverlayStep
  <2> QED
    BY <2>1, <2>2 DEF AskedInv, Asked, WantsSeed
<1>7. CASE GuestWrites
  BY <1>7 DEF GuestWrites, AskedInv, Asked, WantsSeed
<1>8. CASE DisksReady \/ Launch \/ NetworkReady \/ Fail \/ Destroy \/ Decode \/ Retag
           \/ UNCHANGED vars
  <2>1. CASE pc' = "idle"
    BY <2>1 DEF AskedInv
  <2>2. CASE pc' # "idle" /\ pc' = "resolve" /\ pc # "resolve"
    <3>1. tap' = None
      BY <1>8, <2>2 DEF DisksReady, Launch, NetworkReady, Fail, Destroy, Decode, Retag, vars
    <3> QED
      BY <2>2, <3>1 DEF AskedInv
  <2>3. CASE pc' # "idle" /\ (pc' = "resolve" => pc = "resolve")
    <3>1. /\ UNCHANGED <<resolved, pulled, cfg, seed, tap>>
          /\ \/ pc' = pc
             \/ pc = "network" /\ pc' = "pull"
             \/ pc = "disks" /\ pc' = "launch"
             \/ pc = "launch" /\ pc' = "running"
      BY <1>8, <2>3 DEF DisksReady, Launch, NetworkReady, Fail, Destroy, Decode, Retag, vars
    <3> QED
      BY <3>1 DEF AskedInv, Asked, WantsSeed
  <2> QED
    BY <2>1, <2>2, <2>3
<1> QED
  BY <1>2, <1>3, <1>4, <1>5, <1>6, <1>7, <1>8 DEF Next

-----------------------------------------------------------------------------
(* The seed.                                                               *)

\* The seed is made of the job's data and its disk stays where it is.
LEMMA SeedKept == ASSUME StartInv, SeedMade, [Next]_vars PROVE SeedMade'
<1>1. job' = job
  BY DEF Next, vars, Decode, ResolvePayload, CreateSeed, RaiseTap, NetworkReady, PullPayload,
         CreateOverlay, DisksReady, Launch, Fail, GuestWrites, Destroy, Retag
<1> SUFFICES ASSUME ~job.oci PROVE SeedMade'
  BY <1>1 DEF SeedMade
<1>2. CASE ResolvePayload
  BY <1>2 DEF ResolvePayload, SeedMade
<1>3. CASE CreateSeed
  <2>1. pc = "seed" /\ pc' = "network" /\ cfg = job.config
    BY <1>3 DEF CreateSeed, SeedMade
  <2>2. CASE WantsSeed(cfg)
    <3> DEFINE n == Len(cfg["disk"]) + 1
    <3>1. seed' = cfg["cloudInit"] /\ n \in DOMAIN cfg'["disk"] /\ cfg'["disk"][n] = SeedDisk
      BY <1>3, <2>2, SeedStep
    <3>2. SeedDisk.path = Seed /\ SeedDisk.readonly /\ ~SeedDisk.ephemeral
      BY DEF SeedDisk
    <3> HIDE DEF n
    <3>3. \E i \in DOMAIN cfg'["disk"] :
            LET d == cfg'["disk"][i] IN d.path = Seed /\ d.readonly /\ ~d.ephemeral
      BY <3>1, <3>2
    <3>4. WantsSeed(job'.config) /\ seed' = job'.config["cloudInit"] /\ pc' = "network"
      BY <1>1, <2>1, <2>2, <3>1
    <3> QED
      BY <3>3, <3>4 DEF SeedMade
  <2>3. CASE ~WantsSeed(cfg)
    <3>1. cfg' = cfg
      BY <1>3, <2>3, SeedStep
    <3>2. \A i \in DOMAIN cfg["disk"] : cfg["disk"][i].path # Seed
      <4>1. IsGiven(cfg)
        BY <2>1, ConfigAssumption DEF StartInv, TypeOK
      <4>2. \A i \in DOMAIN cfg["disk"] : cfg["disk"][i].path.dir \in {"absolute", "relative"}
        BY <4>1 DEF IsGiven
      <4> QED
        BY <4>2 DEF Seed
    <3>3. ~WantsSeed(job'.config) /\ pc' = "network"
      BY <1>1, <2>1, <2>3
    <3>4. \A i \in DOMAIN cfg'["disk"] : cfg'["disk"][i].path # Seed
      BY <3>1, <3>2
    <3> QED
      BY <3>3, <3>4 DEF SeedMade
  <2> QED
    BY <2>2, <2>3
<1>4. CASE RaiseTap \/ PullPayload \/ GuestWrites
  <2>1. UNCHANGED <<cfg, seed>>
    BY <1>4 DEF RaiseTap, PullPayload, GuestWrites
  <2>2. \/ pc' = pc
        \/ pc = "pull" /\ pc' = "disks"
    BY <1>4 DEF RaiseTap, PullPayload, GuestWrites
  <2> QED
    BY <1>1, <2>1, <2>2 DEF SeedMade, WantsSeed
<1>5. CASE CreateOverlay
  <2>1. pc = "disks" /\ pc' = "disks" /\ seed' = seed
    BY <1>5 DEF CreateOverlay
  <2>2. /\ DOMAIN cfg'["disk"] = DOMAIN cfg["disk"]
        /\ \A i \in DOMAIN cfg["disk"] :
             \/ cfg'["disk"][i] = cfg["disk"][i]
             \/ cfg["disk"][i].ephemeral /\ cfg'["disk"][i].path # Seed
    <3>1. \A i : OverlayPath(i) # Seed
      BY DEF OverlayPath, Seed
    <3> QED
      BY <1>5, <3>1, OverlayStep
  <2>3. CASE WantsSeed(job.config)
    <3>1. seed = job.config["cloudInit"]
      BY <2>1, <2>3 DEF SeedMade
    <3>2. PICK i \in DOMAIN cfg["disk"] :
            LET d == cfg["disk"][i] IN d.path = Seed /\ d.readonly /\ ~d.ephemeral
      BY <2>1, <2>3 DEF SeedMade
    <3>3. i \in DOMAIN cfg'["disk"] /\ cfg'["disk"][i] = cfg["disk"][i]
      BY <2>2, <3>2
    <3> QED
      BY <1>1, <2>1, <2>3, <3>1, <3>2, <3>3 DEF SeedMade, WantsSeed
  <2>4. CASE ~WantsSeed(job.config)
    <3>1. \A i \in DOMAIN cfg'["disk"] : cfg'["disk"][i].path # Seed
      BY <2>1, <2>2, <2>4 DEF SeedMade
    <3> QED
      BY <1>1, <2>1, <2>4, <3>1 DEF SeedMade, WantsSeed
  <2> QED
    BY <2>3, <2>4
<1>6. CASE DisksReady \/ Launch \/ NetworkReady \/ Fail \/ Destroy \/ Decode \/ Retag
           \/ UNCHANGED vars
  <2>1. CASE pc' = "idle"
    BY <2>1 DEF SeedMade
  <2>2. CASE pc' # "idle"
    <3>1. \/ pc' = "resolve" /\ cfg' = job.config
          \/ /\ UNCHANGED <<cfg, seed>>
             /\ \/ pc' = pc
                \/ pc = "network" /\ pc' = "pull"
                \/ pc = "disks" /\ pc' = "launch"
                \/ pc = "launch" /\ pc' = "running"
      BY <1>6, <2>2, OtherSteps
    <3> QED
      BY <1>1, <3>1 DEF SeedMade, WantsSeed
  <2> QED
    BY <2>1, <2>2
<1> QED
  BY <1>2, <1>3, <1>4, <1>5, <1>6 DEF Next

-----------------------------------------------------------------------------
(* The files.                                                              *)

\* What OriginInv says of the files, once it says anything.
Origins ==
    /\ \A f \in PathField :
         cfg[f] \in {None} \union JobPaths \/ cfg[f].dir \in {"absolute", pulled}
    /\ \A i \in DOMAIN cfg["disk"] :
         /\ Behind(i) \in JobPaths \/ Behind(i).dir \in {"absolute", "seed", pulled}
         /\ LET d == cfg["disk"][i] IN d.readonly \/ d.ephemeral \/ MayWrite(d.path)

Loaded(p) == p \in {"disks", "launch", "running"} \/ (p # "idle" /\ ~job.oci)

\* OriginInv in those terms.
LEMMA OriginParts == OriginInv <=> (Loaded(pc) => Origins)
BY DEF OriginInv, Loaded, Origins

\* A step that leaves the configuration and what is behind its disks alone.
LEMMA SameOrigins ==
    ASSUME Origins, UNCHANGED <<job, cfg, pulled>>,
           \A i \in DOMAIN cfg["disk"] : Behind(i)' = Behind(i)
    PROVE  Origins'
<1>1. JobPaths' = JobPaths /\ \A p : MayWrite(p)' = MayWrite(p)
  BY DEF JobPaths, MayWrite
<1>2. cfg' = cfg /\ pulled' = pulled
  OBVIOUS
<1>3. \A f \in PathField :
        cfg'[f] \in {None} \union JobPaths' \/ cfg'[f].dir \in {"absolute", pulled'}
  BY <1>1, <1>2 DEF Origins
<1>4. ASSUME NEW i \in DOMAIN cfg'["disk"]
      PROVE  /\ Behind(i)' \in JobPaths' \/ Behind(i)'.dir \in {"absolute", "seed", pulled'}
             /\ \/ cfg'["disk"][i].readonly \/ cfg'["disk"][i].ephemeral
                \/ MayWrite(cfg["disk"][i].path)'
  BY <1>1, <1>2 DEF Origins
<1> QED
  BY <1>2, <1>3, <1>4 DEF Origins

\* The job's own files.
LEMMA JobOrigin ==
    ASSUME StartInv
    PROVE  /\ \A f \in PathField : job.config[f] \in JobPaths
           /\ \A i \in DOMAIN job.config["disk"] :
                LET d == job.config["disk"][i] IN
                  d.path \in JobPaths /\ (d.readonly \/ d.ephemeral \/ MayWrite(d.path))
<1>1. \A i \in DOMAIN job.config["disk"] : job.config["disk"][i].path \in Path
  <2>1. job.config["disk"] \in Seq(Disk)
    BY JobPlain DEF Plain, IsConfig
  <2>2. \A i \in DOMAIN job.config["disk"] : job.config["disk"][i] \in Disk
    BY <2>1, ElementOfSeq
  <2> QED
    BY <2>2 DEF Disk
<1>2. \A p \in Path : ResolvePath("relative", p) = p
  BY DEF ResolvePath, Path
<1>3. ASSUME NEW i \in DOMAIN job.config["disk"]
      PROVE  LET d == job.config["disk"][i] IN d.readonly \/ d.ephemeral \/ MayWrite(d.path)
  BY <1>1, <1>2 DEF MayWrite, Shared
<1> QED
  BY <1>3 DEF JobPaths

\* Files and disks of the metadata, in the image's own directory.
LEMMA ImageOrigin ==
    ASSUME NEW m \in Image, NEW b, b = BuildConfig(Metadata[m], m)
    PROVE  /\ \A f \in PathField : b[f] = None \/ b[f].dir \in {"absolute", m}
           /\ \A i \in DOMAIN b["disk"] :
                LET d == b["disk"][i] IN
                /\ d.path.dir \in {"absolute", m}
                /\ d.readonly \/ d.ephemeral \/ MayWrite(d.path)
<1> DEFINE c == Metadata[m]
<1>1. CASE c = None
  <2>1. b = ZeroTaskConfig
    BY <1>1 DEF BuildConfig
  <2>2. b["disk"] = << >> /\ \A f \in PathField : b[f] = None
    BY <2>1 DEF ZeroTaskConfig, Unset, Field, OptionField, PathField
  <2> QED
    BY <2>2, EmptySeq
<1>2. CASE c # None
  <2>1. IsGiven(c)
    BY <1>2, ConfigAssumption
  <2>2. /\ \A f \in PathField : b[f] = ResolvePath(m, c[f])
        /\ b["disk"] = [i \in DOMAIN c["disk"] |->
                          [c["disk"][i] EXCEPT !.path = ResolvePath(m, @)]]
    BY <1>2 DEF BuildConfig, Field, OptionField, PathField, TextField
  <2>3. \A p \in Path : p.dir \in {"absolute", "relative"} =>
          ResolvePath(m, p).dir \in {"absolute", m}
    <3>1. None \notin Path
      BY ConfigAssumption
    <3> QED
      BY <3>1 DEF ResolvePath, Path
  <2>4. ASSUME NEW f \in PathField PROVE b[f] = None \/ b[f].dir \in {"absolute", m}
    <3>1. c[f] = None \/ (c[f] \in Path /\ c[f].dir \in {"absolute", "relative"})
      BY <2>1 DEF IsGiven, IsConfig
    <3>2. CASE c[f] = None
      BY <2>2, <3>2 DEF ResolvePath
    <3>3. CASE c[f] # None
      BY <2>2, <2>3, <3>1, <3>3
    <3> QED
      BY <3>2, <3>3
  <2>5. ASSUME NEW i \in DOMAIN b["disk"]
        PROVE  LET d == b["disk"][i] IN
               /\ d.path.dir \in {"absolute", m}
               /\ d.readonly \/ d.ephemeral \/ MayWrite(d.path)
    <3> DEFINE d == b["disk"][i]
               e == c["disk"][i]
    <3>1. i \in DOMAIN c["disk"] /\ d = [e EXCEPT !.path = ResolvePath(m, e.path)]
      BY <2>2
    <3>2. e \in Disk /\ e.path.dir \in {"absolute", "relative"}
      <4>1. c["disk"] \in Seq(Disk)
        BY <2>1 DEF IsGiven, IsConfig
      <4>2. e \in Disk
        BY <3>1, <4>1, ElementOfSeq
      <4> QED
        BY <2>1, <3>1, <4>2 DEF IsGiven
    <3> HIDE DEF d, e
    <3>3. d.path = ResolvePath(m, e.path) /\ d.readonly = e.readonly /\ d.ephemeral = e.ephemeral
      BY <3>1, <3>2 DEF Disk
    <3>4. e.path \in Path
      BY <3>2 DEF Disk
    <3>5. d.path.dir \in {"absolute", m}
      BY <2>3, <3>2, <3>3, <3>4
    <3>6. ASSUME ~d.readonly, ~d.ephemeral PROVE MayWrite(d.path)
      <4>1. Shared(c, m, d.path)
        BY <3>1, <3>3, <3>6 DEF Shared, e
      <4> QED
        BY <1>2, <4>1 DEF MayWrite
    <3> QED
      BY <3>5, <3>6 DEF d
  <2> QED
    BY <2>4, <2>5
<1> QED
  BY <1>1, <1>2

\* The second merge takes each file from the job or from the image.
LEMMA PullOrigin == ASSUME StartInv, PullPayload, job.oci PROVE Origins'
<1> DEFINE b == BuildConfig(Metadata[tag], tag)
<1>1. /\ cfg' = ApplyJob(b, job.config) /\ pulled' = tag /\ job' = job
      /\ pc' = "disks" /\ at' = 1
  BY DEF PullPayload, ReadMetadata
<1>2. tag \in Image
  BY DEF StartInv, TypeOK
<1>3. /\ \A f \in PathField : b[f] = None \/ b[f].dir \in {"absolute", tag}
      /\ \A i \in DOMAIN b["disk"] :
           LET d == b["disk"][i] IN
           /\ d.path.dir \in {"absolute", tag}
           /\ d.readonly \/ d.ephemeral \/ MayWrite(d.path)
  BY <1>2, ImageOrigin
<1>4. /\ \A f \in PathField : cfg'[f] = job.config[f] \/ cfg'[f] = b[f]
      /\ cfg'["disk"] = job.config["disk"] \/ cfg'["disk"] = b["disk"]
  BY <1>1 DEF ApplyJob, Field, OptionField
<1> HIDE DEF b
<1>5. JobPaths' = JobPaths /\ \A p : MayWrite(p)' = MayWrite(p)
  BY <1>1 DEF JobPaths, MayWrite
<1>6. \A f \in PathField :
        cfg'[f] \in {None} \union JobPaths \/ cfg'[f].dir \in {"absolute", pulled'}
  BY <1>1, <1>3, <1>4, JobOrigin
<1>7. \A i \in DOMAIN cfg'["disk"] :
        LET d == cfg'["disk"][i] IN
        /\ d.path \in JobPaths \/ d.path.dir \in {"absolute", "seed", pulled'}
        /\ d.readonly \/ d.ephemeral \/ MayWrite(d.path)
  BY <1>1, <1>3, <1>4, JobOrigin
<1>8. \A i \in DOMAIN cfg'["disk"] : Behind(i)' = cfg'["disk"][i].path
  <2>1. cfg'["disk"] \in Seq(Disk)
    BY PullInv DEF StartInv, TypeOK, IsConfig
  <2>2. \A i \in DOMAIN cfg'["disk"] : ~OverlayDone(i)'
    BY <1>1, <2>1 DEF OverlayDone
  <2> QED
    BY <2>2 DEF Behind
<1> QED
  BY <1>5, <1>6, <1>7, <1>8 DEF Origins

\* Without an image the seed is the one file that is added.
LEMMA SeedOrigin == ASSUME StartInv, Origins, CreateSeed PROVE Origins'
<1>1. pc = "seed" /\ pc' = "network" /\ UNCHANGED <<job, pulled, overlay>>
  BY DEF CreateSeed
<1>2. \A i : ~OverlayDone(i) /\ ~OverlayDone(i)'
  BY <1>1 DEF OverlayDone
<1>3. CASE ~WantsSeed(cfg)
  <2>1. cfg' = cfg
    BY <1>3, SeedStep
  <2> QED
    BY <1>1, <1>2, <2>1, SameOrigins DEF Behind
<1>4. CASE WantsSeed(cfg)
  <2>1. /\ \A f \in PathField : cfg'[f] = cfg[f]
        /\ \A i \in DOMAIN cfg'["disk"] :
             \/ cfg'["disk"][i] = SeedDisk
             \/ i \in DOMAIN cfg["disk"] /\ cfg'["disk"][i] = cfg["disk"][i]
    BY <1>4, SeedStep DEF Field, OptionField, PathField, TextField
  <2>2. JobPaths' = JobPaths /\ \A p : MayWrite(p)' = MayWrite(p)
    BY <1>1 DEF JobPaths, MayWrite
  <2>3. SeedDisk.path.dir = "seed" /\ SeedDisk.readonly
    BY DEF SeedDisk, Seed
  <2>4. \A f \in PathField :
          cfg'[f] \in {None} \union JobPaths' \/ cfg'[f].dir \in {"absolute", pulled'}
    BY <1>1, <2>1, <2>2 DEF Origins
  <2>5. ASSUME NEW i \in DOMAIN cfg'["disk"]
        PROVE  /\ Behind(i)' \in JobPaths' \/ Behind(i)'.dir \in {"absolute", "seed", pulled'}
               /\ \/ cfg'["disk"][i].readonly \/ cfg'["disk"][i].ephemeral
                  \/ MayWrite(cfg["disk"][i].path)'
    <3>1. CASE cfg'["disk"][i] = SeedDisk
      BY <1>2, <2>3, <3>1 DEF Behind
    <3>2. CASE i \in DOMAIN cfg["disk"] /\ cfg'["disk"][i] = cfg["disk"][i]
      <4>1. Behind(i)' = Behind(i)
        BY <1>2, <3>2 DEF Behind
      <4> QED
        BY <1>1, <2>2, <3>2, <4>1 DEF Origins
    <3> QED
      BY <2>1, <3>1, <3>2
  <2> QED
    BY <2>4, <2>5 DEF Origins
<1> QED
  BY <1>3, <1>4

\* An overlay hides its base, which stays behind the disk.
LEMMA OverlayOrigin == ASSUME StartInv, Origins, CreateOverlay PROVE Origins'
<1>1. pc = "disks" /\ pc' = "disks" /\ UNCHANGED <<job, pulled>>
  BY DEF CreateOverlay
<1>2. /\ at \in 1..MaxDisk /\ at' = at + 1 /\ MaxDisk \in Nat
      /\ DOMAIN cfg'["disk"] = DOMAIN cfg["disk"]
      /\ \A f \in PathField : cfg'[f] = cfg[f]
  BY OverlayStep, ConfigAssumption DEF Field, OptionField, PathField, TextField
<1>3. JobPaths' = JobPaths /\ \A p : MayWrite(p)' = MayWrite(p)
  BY <1>1 DEF JobPaths, MayWrite
<1>4. \A f \in PathField :
        cfg'[f] \in {None} \union JobPaths' \/ cfg'[f].dir \in {"absolute", pulled'}
  BY <1>1, <1>2, <1>3 DEF Origins
<1>5. ASSUME NEW i \in DOMAIN cfg["disk"]
      PROVE  /\ Behind(i)' = Behind(i)
             /\ \/ cfg'["disk"][i] = cfg["disk"][i] \/ cfg'["disk"][i].ephemeral
  <2>1. i \in Nat /\ at \in Nat
    BY <1>1, <1>2, DiskNumbers
  <2>2. CASE ~cfg["disk"][i].ephemeral
    <3>1. cfg'["disk"][i] = cfg["disk"][i]
      BY <2>2, OverlayStep
    <3> QED
      BY <2>2, <3>1 DEF Behind
  <2>3. CASE cfg["disk"][i].ephemeral /\ i # at
    <3>1. cfg'["disk"][i] = cfg["disk"][i] /\ overlay'[i] = overlay[i]
      BY <2>3, OverlayStep
    <3>2. OverlayDone(i)' <=> OverlayDone(i)
      BY <1>1, <1>2, <2>1, <2>3 DEF OverlayDone
    <3> QED
      BY <3>1, <3>2 DEF Behind
  <2>4. CASE cfg["disk"][i].ephemeral /\ i = at
    <3>1. cfg'["disk"][i].ephemeral /\ overlay'[i].base = cfg["disk"][i].path
      BY <2>4, OverlayStep
    <3>2. OverlayDone(i)' /\ ~OverlayDone(i)
      BY <1>1, <1>2, <2>1, <2>4 DEF OverlayDone
    <3> QED
      BY <3>1, <3>2 DEF Behind
  <2> QED
    BY <2>2, <2>3, <2>4
<1>6. ASSUME NEW i \in DOMAIN cfg'["disk"]
      PROVE  /\ Behind(i)' \in JobPaths' \/ Behind(i)'.dir \in {"absolute", "seed", pulled'}
             /\ \/ cfg'["disk"][i].readonly \/ cfg'["disk"][i].ephemeral
                \/ MayWrite(cfg["disk"][i].path)'
  <2>1. i \in DOMAIN cfg["disk"]
    BY <1>2
  <2> QED
    BY <1>1, <1>3, <1>5, <2>1 DEF Origins
<1> QED
  BY <1>4, <1>6 DEF Origins

\* A guest changes what an overlay holds, not its base.
LEMMA GuestStep ==
    ASSUME StartInv, GuestWrites
    PROVE  /\ pc = "running" /\ UNCHANGED <<pc, job, resolved, pulled, cfg, seed, tap>>
           /\ \A i \in DOMAIN cfg["disk"] : Behind(i)' = Behind(i)
           /\ \E k \in DOMAIN cfg["disk"] :
                /\ written' = written \union {cfg["disk"][k].path}
                /\ ~cfg["disk"][k].readonly
<1>1. pc = "running" /\ UNCHANGED <<pc, job, resolved, pulled, cfg, at, seed, tap>>
  BY DEF GuestWrites
<1>2. PICK k \in DOMAIN args.disks :
        LET p == args.disks[k].path IN
        /\ ~args.disks[k].readonly
        /\ written' = written \union {p}
        /\ overlay' = IF p.dir = "overlay" /\ overlay[p.file] # None
                      THEN [overlay EXCEPT ![p.file].fresh = FALSE] ELSE overlay
  BY DEF GuestWrites
<1>3. /\ k \in DOMAIN cfg["disk"]
      /\ args.disks[k].path = cfg["disk"][k].path
      /\ args.disks[k].readonly = cfg["disk"][k].readonly
  BY <1>1, <1>2 DEF StartInv, LaunchInv, BuildArgs, DiskArg
<1>4. ASSUME NEW i \in DOMAIN cfg["disk"] PROVE Behind(i)' = Behind(i)
  <2>1. OverlayDone(i) /\ OverlayDone(i)'
    BY <1>1 DEF OverlayDone
  <2>2. CASE ~cfg["disk"][i].ephemeral
    BY <1>1, <2>2 DEF Behind
  <2>3. CASE cfg["disk"][i].ephemeral
    <3>1. i \in 1..MaxDisk /\ overlay[i] \in OverlayFile
      BY <1>1, <2>1, <2>3 DEF StartInv, DiskInv, TypeOK
    <3>2. overlay \in [1..MaxDisk -> OverlayFile \union {None}]
      BY DEF StartInv, TypeOK
    <3>3. overlay'[i].base = overlay[i].base
      <4> DEFINE p == args.disks[k].path
      <4>1. CASE overlay' = overlay
        BY <4>1
      <4>2. CASE overlay' = [overlay EXCEPT ![p.file].fresh = FALSE]
        <5>1. overlay'[i] = overlay[i] \/ overlay'[i] = [overlay[i] EXCEPT !.fresh = FALSE]
          BY <3>1, <3>2, <4>2
        <5> QED
          BY <3>1, <5>1 DEF OverlayFile
      <4> QED
        BY <1>2, <4>1, <4>2
    <3> QED
      BY <1>1, <2>1, <2>3, <3>3 DEF Behind
  <2> QED
    BY <2>2, <2>3
<1> QED
  BY <1>1, <1>2, <1>3, <1>4

\* Every step keeps the origin of the files.
LEMMA OriginKept == ASSUME StartInv, OriginInv, [Next]_vars PROVE OriginInv'
<1>1. SUFFICES ASSUME Loaded(pc)' PROVE Origins'
  BY DEF OriginInv, Loaded, Origins
<1>2. job' = job
  BY DEF Next, vars, Decode, ResolvePayload, CreateSeed, RaiseTap, NetworkReady, PullPayload,
         CreateOverlay, DisksReady, Launch, Fail, GuestWrites, Destroy, Retag
<1>3. Loaded(pc) => Origins
  BY OriginParts
<1>4. CASE ResolvePayload
  <2>1. pc = "resolve" /\ pc' = "seed" /\ pulled' = pulled
    BY <1>4 DEF ResolvePayload
  <2>2. ~job.oci /\ cfg' = cfg
    BY <1>1, <1>2, <1>4, <2>1 DEF Loaded, ResolvePayload
  <2>3. Origins
    BY <1>3, <2>1, <2>2 DEF Loaded
  <2> QED
    BY <1>2, <2>1, <2>2, <2>3, SameOrigins DEF Behind, OverlayDone
<1>5. CASE CreateSeed
  <2>1. Origins
    BY <1>1, <1>2, <1>3, <1>5 DEF Loaded, CreateSeed
  <2> QED
    BY <1>5, <2>1, SeedOrigin
<1>6. CASE RaiseTap
  <2>1. pc = "network" /\ UNCHANGED <<pc, pulled, cfg>>
    BY <1>6 DEF RaiseTap
  <2>2. Origins
    BY <1>1, <1>2, <1>3, <2>1 DEF Loaded
  <2> QED
    BY <1>2, <2>1, <2>2, SameOrigins DEF Behind, OverlayDone
<1>7. CASE PullPayload
  <2>1. CASE job.oci
    BY <1>7, <2>1, PullOrigin
  <2>2. CASE ~job.oci
    <3>1. pc = "pull" /\ pc' = "disks" /\ at' = 1 /\ UNCHANGED <<cfg, pulled>>
      BY <1>7, <2>2 DEF PullPayload
    <3>2. Origins
      BY <1>3, <2>2, <3>1 DEF Loaded
    <3>3. \A i \in DOMAIN cfg["disk"] : ~OverlayDone(i) /\ ~OverlayDone(i)'
      BY <3>1, DiskNumbers DEF OverlayDone
    <3> QED
      BY <1>2, <3>1, <3>2, <3>3, SameOrigins DEF Behind
  <2> QED
    BY <2>1, <2>2
<1>8. CASE CreateOverlay
  <2>1. Origins
    BY <1>3, <1>8 DEF Loaded, CreateOverlay
  <2> QED
    BY <1>8, <2>1, OverlayOrigin
<1>9. CASE GuestWrites
  <2>1. Origins
    BY <1>3, <1>9, GuestStep DEF Loaded
  <2> QED
    BY <1>9, <2>1, GuestStep, SameOrigins
<1>10. CASE DisksReady \/ Launch \/ NetworkReady \/ Fail \/ Destroy \/ Decode \/ Retag
            \/ UNCHANGED vars
  <2>1. CASE pc' = "resolve" /\ cfg' = job.config
    <3>1. \A i : Behind(i)' = cfg'["disk"][i].path
      BY <2>1 DEF Behind, OverlayDone
    <3>2. JobPaths' = JobPaths /\ \A p : MayWrite(p)' = MayWrite(p)
      BY <1>2 DEF JobPaths, MayWrite
    <3> QED
      BY <2>1, <3>1, <3>2, JobOrigin DEF Origins
  <2>2. CASE ~(pc' = "resolve" /\ cfg' = job.config)
    <3>1. /\ UNCHANGED <<pulled, cfg, at, overlay>>
          /\ \/ pc' = pc
             \/ pc = "network" /\ pc' = "pull"
             \/ pc = "disks" /\ pc' = "launch" /\ at \notin DOMAIN cfg["disk"]
             \/ pc = "launch" /\ pc' = "running"
      BY <1>1, <1>10, <2>2, OtherSteps DEF Loaded
    <3>2. Origins
      BY <1>1, <1>2, <1>3, <3>1 DEF Loaded
    <3>3. ASSUME NEW i \in DOMAIN cfg["disk"] PROVE OverlayDone(i)' <=> OverlayDone(i)
      <4>1. pc = "disks" /\ at \notin DOMAIN cfg["disk"] => i < at
        BY DiskNumbers DEF StartInv, TypeOK, BoundsInv
      <4> QED
        BY <3>1, <4>1 DEF OverlayDone
    <3>4. \A i \in DOMAIN cfg["disk"] : Behind(i)' = Behind(i)
      BY <3>1, <3>3 DEF Behind
    <3> QED
      BY <1>2, <3>1, <3>2, <3>4, SameOrigins
  <2> QED
    BY <2>1, <2>2
<1> QED
  BY <1>4, <1>5, <1>6, <1>7, <1>8, <1>9, <1>10 DEF Next

\* A guest writes to overlays and to what it was given.
LEMMA WrittenKept == ASSUME StartInv, OriginInv, BasesKept, [Next]_vars PROVE BasesKept'
<1>1. CASE GuestWrites
  <2>1. PICK k \in DOMAIN cfg["disk"] :
          /\ written' = written \union {cfg["disk"][k].path}
          /\ ~cfg["disk"][k].readonly
    BY <1>1, GuestStep
  <2>2. pc = "running" /\ job' = job
    BY <1>1, GuestStep
  <2>3. CASE cfg["disk"][k].ephemeral
    <3>1. cfg["disk"][k].path.dir = "overlay"
      <4>1. OverlayDone(k)
        BY <2>2 DEF OverlayDone
      <4>2. cfg["disk"][k].path = OverlayPath(k)
        BY <2>2, <2>3, <4>1 DEF StartInv, DiskInv
      <4> QED
        BY <4>2 DEF OverlayPath
    <3> QED
      BY <2>1, <2>2, <3>1 DEF BasesKept
  <2>4. CASE ~cfg["disk"][k].ephemeral
    <3>1. MayWrite(cfg["disk"][k].path)
      BY <2>1, <2>2, <2>4 DEF OriginInv
    <3> QED
      BY <2>1, <2>2, <3>1 DEF BasesKept, MayWrite
  <2> QED
    BY <2>3, <2>4
<1>2. CASE ~GuestWrites
  <2>1. written' = written /\ job' = job
    BY <1>2 DEF Next, vars, Decode, ResolvePayload, CreateSeed, RaiseTap, NetworkReady, PullPayload,
         CreateOverlay, DisksReady, Launch, Fail, GuestWrites, Destroy, Retag
  <2> QED
    BY <2>1 DEF BasesKept
<1> QED
  BY <1>1, <1>2

-----------------------------------------------------------------------------
(* Theorems.                                                               *)

\* What the host was prepared for, and the origin of every file, for all starts of
\* a task.
LEMMA PreparedHolds == Spec => [](StartInv /\ Prepared)
<1>1. Init => StartInv /\ Prepared
  <2>1. Init => NetInv /\ AskedInv /\ SeedMade /\ OriginInv /\ BasesKept /\ ~Running
    BY DEF Init, NetInv, AskedInv, SeedMade, OriginInv, BasesKept, Running
  <2> QED
    BY <2>1, InitInv DEF Prepared
<1>2. StartInv /\ Prepared /\ [Next]_vars => (Running => ~MemoryRefused(job))'
  <2> SUFFICES ASSUME Prepared, [Next]_vars, Running' PROVE ~MemoryRefused(job)'
    OBVIOUS
  <2>1. job' = job /\ (pc' = pc \/ ~MemoryRefused(job))
    BY DEF Running, Next, vars, Decode, ResolvePayload, CreateSeed, RaiseTap, NetworkReady,
           PullPayload, CreateOverlay, DisksReady, Launch, Fail, GuestWrites, Destroy, Retag, Steps
  <2> QED
    BY <2>1 DEF Prepared, Running, MemoryRefused
<1>3. StartInv /\ Prepared /\ [Next]_vars => Prepared'
  BY <1>2, NetKept, AskedKept, SeedKept, OriginKept, WrittenKept DEF Prepared
<1>4. StartInv /\ [Next]_vars => StartInv'
  BY DecodeInv, ResolveInv, SeedInv, TapInv, PullInv, OverlayInv, DisksReadyInv,
     LaunchKeepsInv, FailInv, GuestInv, WorldInv DEF Next
<1> QED
  BY <1>1, <1>3, <1>4, PTL DEF Spec

\* The whole inductive invariant that TLC checks in small.
THEOREM PreparedInvariant == Spec => []PreparedInv
<1>1. StartInv /\ Prepared => PreparedInv
  BY DEF PreparedInv
<1> QED
  BY <1>1, PreparedHolds, PTL

\* If both builds saw one image, the taps and the seed are those of the VM.
THEOREM HostAlwaysMatches == Spec => []HostMatches
<1>1. Prepared => HostMatches
  BY DEF Prepared, NetInv, AskedInv, Asked, HostMatches, TapRaised, Running
<1> QED
  BY <1>1, PreparedHolds, PTL

\* Without an image, the VM has the seed its job asks for and no other.
THEOREM SeedIsOfJob == Spec => []SeedOfJob
<1>1. StartInv /\ Prepared => SeedOfJob
  <2> SUFFICES ASSUME StartInv, Prepared, Running, ~job.oci
               PROVE  IF WantsSeed(job.config)
                        THEN SeedAttached /\ seed = job.config["cloudInit"]
                        ELSE ~SeedAttached
    BY DEF SeedOfJob
  <2>1. /\ DOMAIN args.disks = DOMAIN cfg["disk"]
        /\ \A i \in DOMAIN cfg["disk"] :
             /\ args.disks[i].path = cfg["disk"][i].path
             /\ args.disks[i].readonly = cfg["disk"][i].readonly
    BY DEF StartInv, LaunchInv, BuildArgs, DiskArg, Running
  <2> QED
    BY <2>1 DEF Prepared, SeedMade, SeedAttached, Running
<1> QED
  BY <1>1, PreparedHolds, PTL

\* All files of a VM are the job's, or of the image that was pulled.
THEOREM PathsAreResolved == Spec => []PathsResolved
<1>1. StartInv /\ Prepared => PathsResolved
  <2> SUFFICES ASSUME StartInv, Prepared, Running,
                      NEW p \in LaunchedPaths \ ({None} \union JobPaths)
               PROVE  p.dir \in {"absolute", "seed", pulled}
    BY DEF PathsResolved
  <2>1. Origins
    BY DEF Prepared, OriginInv, Origins, Running
  <2>2. CASE \E f \in PathField : p = args.options[f]
    <3>1. PICK f \in PathField : p = args.options[f]
      BY <2>2
    <3>2. args.options[f] = cfg[f]
      BY LaunchedDisks DEF OptionField
    <3> QED
      BY <2>1, <3>1, <3>2 DEF Origins
  <2>3. CASE \E i \in DOMAIN args.disks : p = Source(i)
    <3>1. PICK i \in DOMAIN args.disks : p = Source(i)
      BY <2>3
    <3>2. i \in DOMAIN cfg["disk"] /\ args.disks[i].path = cfg["disk"][i].path
      BY <3>1, LaunchedDisks
    <3>3. Source(i) = Behind(i)
      <4>1. OverlayDone(i)
        BY DEF OverlayDone, Running
      <4>2. CASE cfg["disk"][i].ephemeral
        <5>1. cfg["disk"][i].path = OverlayPath(i) /\ overlay[i] # None
          BY <3>2, <4>1, <4>2 DEF StartInv, DiskInv, Running
        <5> QED
          BY <3>2, <4>1, <4>2, <5>1 DEF Source, Behind, OverlayPath
      <4>3. CASE ~cfg["disk"][i].ephemeral
        <5>1. cfg["disk"][i].path.dir # "overlay"
          BY <3>2, <4>3 DEF StartInv, DiskInv, Running
        <5> QED
          BY <3>2, <4>3, <5>1 DEF Source, Behind
      <4> QED
        BY <4>2, <4>3
    <3> QED
      BY <2>1, <3>1, <3>2, <3>3 DEF Origins
  <2> QED
    BY <2>2, <2>3 DEF LaunchedPaths
<1> QED
  BY <1>1, PreparedHolds, PTL

\* No guest writes to the base of an ephemeral disk, or to a seed.
THEOREM BasesAreKept == Spec => []BasesKept
<1>1. Prepared => BasesKept
  BY DEF Prepared
<1> QED
  BY <1>1, PreparedHolds, PTL

\* A guest takes what Nomad has allotted, the overhead included, or nothing.
THEOREM GuestsFit == Spec => []GuestFits
<1>1. StartInv /\ Prepared => GuestFits
  <2> SUFFICES ASSUME StartInv, Prepared, Running
               PROVE  /\ args.cpus >= 1
                      /\ args.memory # 0 =>
                           /\ args.memory >= MinGuestMB
                           /\ args.memory + OverheadMB = job.memoryMB
    BY DEF GuestFits
  <2>1. args.cpus = Vcpus(job) /\ args.memory = GuestMB(job) /\ ~MemoryRefused(job)
    BY DEF StartInv, LaunchInv, BuildArgs, Prepared, Running
  <2>2. job.memoryMB \in Nat /\ job.cores \in Nat /\ job.shares \in Nat
    BY ConfigAssumption DEF StartInv, TypeOK
  <2>3. Vcpus(job) >= 1
    BY <2>2 DEF Vcpus
  <2> QED
    BY <2>1, <2>2, <2>3 DEF GuestMB, MemoryRefused, MinGuestMB, OverheadMB
<1> QED
  BY <1>1, PreparedHolds, PTL
=============================================================================
