----------------------------- MODULE MCOciCache -----------------------------
(* Small instances of OciCache for TLC. *)
EXTENDS OciCache, TLC

CONSTANTS m1, m2

\* Two images that share one file name and differ in another.
TwoImages == (m1 :> <<"metadata", "kernel">>) @@ (m2 :> <<"metadata", "rootfs">>)

FileNames == {"metadata", "kernel", "rootfs"}

\* Calls and references are interchangeable; images are not.
CacheSymmetry == Permutations(Puller) \union Permutations(Ref)
=============================================================================
