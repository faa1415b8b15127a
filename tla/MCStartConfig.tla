---------------------------- MODULE MCStartConfig ----------------------------
(* Small instances of StartConfig for TLC: three images, and jobs with and  *)
(* without one.                                                             *)
EXTENDS StartConfig, TLC

CONSTANTS diskImage, seedImage, bareImage, noImage

Rel(n) == [dir |-> "relative", file |-> n]
Abs(n) == [dir |-> "absolute", file |-> n]
D(p, type, readonly, ephemeral) ==
    [path |-> p, type |-> type, readonly |-> readonly, ephemeral |-> ephemeral, reflink |-> FALSE]
Auto(b) == [auto |-> TRUE, on |-> b]
Static(t) == [auto |-> FALSE, on |-> t]
User(u) == [user |-> u, meta |-> None]

MCText == {"a", "b", "br0", "br1", "tap9"}
MCImage == {diskImage, seedImage, bareImage, noImage}

\* An image in the manner of the example of oci_payload.go, one that brings
\* cloud-init and another network, one whose metadata has no config, and one
\* without metadata.
MCMetadata ==
    diskImage :> ("kernel" :> Rel(1) @@ "cmdline" :> "a" @@ "network" :> <<Auto("br0")>>
                   @@ "disk" :> <<D(Rel(2), "raw", FALSE, TRUE), D(Rel(3), "none", TRUE, FALSE)>>
                   @@ ZeroTaskConfig)
    @@ seedImage :> ("kernel" :> Abs(5) @@ "initramfs" :> Rel(6) @@ "cloudInit" :> User("a")
                   @@ "disk" :> <<D(Rel(2), "qcow2", FALSE, TRUE)>>
                   @@ "network" :> <<Static("tap9"), Auto("br1")>>
                   @@ ZeroTaskConfig)
    @@ bareImage :> ZeroTaskConfig
    @@ noImage :> None

Full == "kernel" :> Abs(7) @@ "serial" :> "b" @@ "cloudInit" :> User("b")
          @@ "disk" :> <<D(Abs(8), "none", FALSE, TRUE), D(Abs(9), "raw", FALSE, FALSE)>>
          @@ "network" :> <<Auto("br0"), Static("tap9")>>
          @@ "balloon" :> [enabled |-> TRUE, size |-> "a"]
          @@ ZeroTaskConfig

Configs ==
    { ZeroTaskConfig, Full,
      [Full EXCEPT !["cloudInit"] = User(None), !["network"] = <<Auto("br0"), Auto("br1")>>],
      "cmdline" :> "b" @@ "balloon" :> [enabled |-> FALSE, size |-> "a"] @@ ZeroTaskConfig }

\* Memory as in TestBuildCHArgs, just below the least, the least, more, and no
\* limit; CPUs by core, by share and neither.
MCJob ==
    { [config |-> c, oci |-> o, memoryMB |-> r[1], cores |-> r[2], shares |-> r[3]] :
        c \in Configs, o \in BOOLEAN,
        r \in {<<0, 0, 0>>, <<512, 2, 0>>, <<767, 0, 999>>, <<768, 2, 500>>, <<1024, 0, 2500>>} }
=============================================================================
