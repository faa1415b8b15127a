----------------------------- MODULE ImageStore -----------------------------
(***************************************************************************)
(* What PullIntoCache promises its callers (internal/oci/oci.go, the       *)
(* comment above it and the ones in it): an image is identified by its     *)
(* manifest digest, a caller is only ever given an image that is stored    *)
(* whole, and an image that is stored stays stored.  Locks, partial files  *)
(* and retries do not show.                                                *)
(***************************************************************************)
CONSTANTS
    Puller,    \* callers of PullIntoCache, in any process of the node
    Manifest,  \* manifest digests
    None

VARIABLES
    stored,    \* the images that are whole
    client     \* [Puller -> what it asked for and whether it was given it]

Idle == [state |-> "idle", want |-> None]

Init ==
    /\ stored = {}
    /\ client = [p \in Puller |-> Idle]

\* The tag names image d.
Ask(p, d) ==
    /\ client[p].state = "idle"
    /\ client' = [client EXCEPT ![p] = [state |-> "asked", want |-> d]]
    /\ UNCHANGED stored

\* An image is stored only on behalf of a caller that waits for it.
Store(p) ==
    /\ client[p].state = "asked"
    /\ stored' = stored \union {client[p].want}
    /\ UNCHANGED client

Get(p) ==
    /\ client[p].state = "asked"
    /\ client[p].want \in stored
    /\ client' = [client EXCEPT ![p].state = "got"]
    /\ UNCHANGED stored

\* An error or a crash, or the caller has no more use for the image.
Leave(p) ==
    /\ client[p].state # "idle"
    /\ client' = [client EXCEPT ![p] = Idle]
    /\ UNCHANGED stored

Next ==
    \E p \in Puller :
      \/ \E d \in Manifest : Ask(p, d)
      \/ Store(p) \/ Get(p) \/ Leave(p)

Spec == Init /\ [][Next]_<<stored, client>>
=============================================================================
