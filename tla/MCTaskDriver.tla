---------------------------- MODULE MCTaskDriver ----------------------------
(* Small instances of TaskDriver for TLC. *)
EXTENDS TaskProperties, TLC

\* A job that needs every host resource, one that needs none, and one whose
\* network and seed come from its image.
Full == [net |-> TRUE, seed |-> TRUE, oci |-> FALSE]
Bare == ZeroConfig
Image == [net |-> TRUE, seed |-> FALSE, oci |-> TRUE]

FullOnly == {Full}
BareOnly == {Bare}
FullOrBare == {Full, Bare}
FullOrImage == {Full, Image}

\* RPC goroutines, handles and starts are interchangeable (and so are tasks).
Symmetry == Permutations(Task) \union Permutations(Call) \union Permutations(Handle)
              \union Permutations(Vm)
=============================================================================
