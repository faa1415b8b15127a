------------------------------ MODULE OciCache ------------------------------
(***************************************************************************)
(* The image cache of internal/oci/oci.go: PullIntoCache, one call per     *)
(* element of Puller, in one plugin process or in several that share the   *)
(* cache directory.  A step is the code between two points at which the    *)
(* registry or another process can be observed.                            *)
(*                                                                         *)
(* The content of a file is named by the manifest it was fetched for.      *)
(***************************************************************************)
EXTENDS Naturals, Sequences, Functions

CONSTANTS
    Puller,    \* PullIntoCache calls; bounds how many overlap
    Ref,       \* image references (repository:tag)
    Manifest,  \* manifest digests
    Name,      \* file names: metadata.json and the layers' titles
    Files,     \* [Manifest -> Seq(Name)]: what a manifest lists, in order
    Faults,    \* what the environment may do
    None

AllFaults ==
    { "registryFails",  \* the registry, or a file operation, returns an error
      "tagMoves",       \* a tag is moved to another manifest, ...
      "tagRaces",       \* ... also between the two resolutions of a call
      "statFails",      \* a marker that is there cannot be looked at
      "crash" }         \* a process that is pulling dies

ASSUME CacheAssumption ==
    /\ Files \in [Manifest -> Seq(Name)]
    /\ Faults \subseteq AllFaults
    /\ None \notin Puller \union Manifest

VARIABLES
    tag,       \* [Ref -> Manifest]: the registry
    lock,      \* [Manifest -> Puller or None]: who holds sha256-<digest>.lock
    dir,       \* [Manifest -> [Name -> content]]: the directory sha256-<digest>
    complete,  \* [Manifest -> BOOLEAN]: it has a .complete marker
    pull       \* the calls and their local variables

vars == <<tag, lock, dir, complete, pull>>

Content == Manifest \union {"absent", "partial"}

Writing == {"manifest", "fetch", "copy"}
Locked == {"check", "return"} \union Writing
Pc == {"idle", "lock", "using"} \union Locked

PullRecord ==
    [ pc       : Pc,
      ref      : Ref \union {None},
      digest   : Manifest \union {None},   \* of the first Resolve: names workDir
      manifest : Manifest \union {None},   \* of the second Resolve: names the blobs
      next     : Nat ]                     \* the blob to fetch

IdlePull == [pc |-> "idle", ref |-> None, digest |-> None, manifest |-> None, next |-> 0]

TypeOK ==
    /\ tag \in [Ref -> Manifest]
    /\ lock \in [Manifest -> Puller \union {None}]
    /\ dir \in [Manifest -> [Name -> Content]]
    /\ complete \in [Manifest -> BOOLEAN]
    /\ pull \in [Puller -> PullRecord]

Init ==
    /\ tag \in [Ref -> Manifest]
    /\ lock = [d \in Manifest |-> None]
    /\ dir = [d \in Manifest |-> [n \in Name |-> "absent"]]
    /\ complete = [d \in Manifest |-> FALSE]
    /\ pull = [p \in Puller |-> IdlePull]

-----------------------------------------------------------------------------
At(p, pc) == pull[p].pc = pc
Goto(p, pc) == pull' = [pull EXCEPT ![p].pc = pc]
Dir(p) == pull[p].digest
\* The file of the blob a call is at.
Blob(p) == Files[pull[p].manifest][pull[p].next]
Unlock(p) == lock' = [d \in Manifest |-> IF lock[d] = p THEN None ELSE lock[d]]

\* The reference is resolved: the digest names the directory and the lock.
Resolve(p, r) ==
    /\ At(p, "idle")
    /\ pull' = [pull EXCEPT ![p] = [IdlePull EXCEPT !.pc = "lock", !.ref = r, !.digest = tag[r]]]
    /\ UNCHANGED <<tag, lock, dir, complete>>

\* The lock is shared, not exclusive.
TakeLockMutant(p) ==
    /\ At(p, "lock")
    /\ lock' = [lock EXCEPT ![Dir(p)] = p]
    /\ Goto(p, "check")
    /\ UNCHANGED <<tag, dir, complete>>

\* flock(LOCK_EX) on the lock file of the digest.
TakeLock(p) ==
    /\ At(p, "lock")
    /\ lock[Dir(p)] = None
    /\ lock' = [lock EXCEPT ![Dir(p)] = p]
    /\ Goto(p, "check")
    /\ UNCHANGED <<tag, dir, complete>>

\* The marker is not looked for again under the lock.
CheckMutant(p) ==
    /\ At(p, "check")
    /\ Goto(p, "manifest")
    /\ UNCHANGED <<tag, lock, dir, complete>>

\* What os.Stat answers: an error of any kind counts as no marker.
Stats(d) == {complete[d]} \union (IF "statFails" \in Faults THEN {FALSE} ELSE {})

\* Whoever held the lock before may have completed the download.
Check(p) ==
    /\ At(p, "check")
    /\ \E marked \in Stats(Dir(p)) : Goto(p, IF marked THEN "return" ELSE "manifest")
    /\ UNCHANGED <<tag, lock, dir, complete>>

\* MaterializeImage resolves the reference a second time.
FetchManifest(p) ==
    /\ At(p, "manifest")
    /\ pull' = [pull EXCEPT ![p].pc = "fetch", ![p].manifest = tag[pull[p].ref], ![p].next = 1]
    /\ UNCHANGED <<tag, lock, dir, complete>>

\* os.Create empties the file of an earlier, interrupted pull.
FetchBlob(p) ==
    /\ At(p, "fetch")
    /\ pull[p].next <= Len(Files[pull[p].manifest])
    /\ dir' = [dir EXCEPT ![Dir(p)][Blob(p)] = "partial"]
    /\ Goto(p, "copy")
    /\ UNCHANGED <<tag, lock, complete>>

CopyBlob(p) ==
    /\ At(p, "copy")
    /\ dir' = [dir EXCEPT ![Dir(p)][Blob(p)] = pull[p].manifest]
    /\ pull' = [pull EXCEPT ![p].pc = "fetch", ![p].next = @ + 1]
    /\ UNCHANGED <<tag, lock, complete>>

\* The marker is written before the last blob.
MarkMutant(p) ==
    /\ At(p, "fetch")
    /\ pull[p].next >= Len(Files[pull[p].manifest])
    /\ complete' = [complete EXCEPT ![Dir(p)] = TRUE]
    /\ Goto(p, "return")
    /\ UNCHANGED <<tag, lock, dir>>

Mark(p) ==
    /\ At(p, "fetch")
    /\ pull[p].next > Len(Files[pull[p].manifest])
    /\ complete' = [complete EXCEPT ![Dir(p)] = TRUE]
    /\ Goto(p, "return")
    /\ UNCHANGED <<tag, lock, dir>>

\* The deferred Close of the lock file; the caller goes on to use the files.
Return(p) ==
    /\ At(p, "return")
    /\ Unlock(p)
    /\ Goto(p, "using")
    /\ UNCHANGED <<tag, dir, complete>>

\* An error return that leaves the lock file open, ...
FailsLockedMutant(p) ==
    /\ "registryFails" \in Faults
    /\ pull[p].pc \in {"lock"} \union Writing
    /\ pull' = [pull EXCEPT ![p] = IdlePull]
    /\ UNCHANGED <<tag, lock, dir, complete>>

\* ... or an error that is not returned.
FailsUnseenMutant(p) ==
    /\ "registryFails" \in Faults
    /\ pull[p].pc \in {"lock"} \union Writing
    /\ Unlock(p)
    /\ Goto(p, "using")
    /\ UNCHANGED <<tag, dir, complete>>

\* An error return.  What was downloaded stays; the lock file is closed.
Fails(p) ==
    /\ "registryFails" \in Faults
    /\ pull[p].pc \in {"lock"} \union Writing
    /\ Unlock(p)
    /\ pull' = [pull EXCEPT ![p] = IdlePull]
    /\ UNCHANGED <<tag, dir, complete>>

\* The process dies; the kernel closes its files.
Crash(p) ==
    /\ "crash" \in Faults
    /\ ~At(p, "idle")
    /\ Unlock(p)
    /\ pull' = [pull EXCEPT ![p] = IdlePull]
    /\ UNCHANGED <<tag, dir, complete>>

\* The task that runs the image is over.
Finish(p) ==
    /\ At(p, "using")
    /\ pull' = [pull EXCEPT ![p] = IdlePull]
    /\ UNCHANGED <<tag, lock, dir, complete>>

\* A call has resolved r for the lock and not yet for the download.
Resolving(p, r) == pull[p].pc \in {"lock", "check", "manifest"} /\ pull[p].ref = r

MoveTag(r, m) ==
    /\ "tagMoves" \in Faults
    /\ "tagRaces" \in Faults \/ \A p \in Puller : ~Resolving(p, r)
    /\ tag' = [tag EXCEPT ![r] = m]
    /\ UNCHANGED <<lock, dir, complete, pull>>

\* What a call does between taking the lock and giving it back.
Work(p) ==
    Check(p) \/ FetchManifest(p) \/ FetchBlob(p) \/ CopyBlob(p) \/ Mark(p) \/ Return(p)

Next ==
    \/ \E p \in Puller :
         \/ \E r \in Ref : Resolve(p, r)
         \/ TakeLock(p) \/ Work(p) \/ Fails(p) \/ Crash(p) \/ Finish(p)
    \/ \E r \in Ref, m \in Manifest : MoveTag(r, m)

Spec == Init /\ [][Next]_vars

\* The registry answers every request with a blob or with an error.
FairSpec == Spec /\ \A p \in Puller : WF_vars(Work(p) \/ Fails(p))

-----------------------------------------------------------------------------
(* Properties.                                                             *)

\* Two processes never write the same directory at once (flock, 63-75).
OneWriter ==
    \A p, q \in Puller :
      pull[p].pc \in Writing /\ pull[q].pc \in Writing /\ Dir(p) = Dir(q) => p = q

\* Every file that m lists is in the directory of d with the content of m.
Whole(d, m) == \A n \in Range(Files[m]) : dir[d][n] = m

\* A directory with a marker holds the whole of one image, though another one
\* may have left files there: no crash, error or moved tag makes a mixture.
CompleteHasImage == \A d \in Manifest : complete[d] => \E m \in Manifest : Whole(d, m)

\* ... and it is the image whose digest names the directory.
CompleteIsWhole == \A d \in Manifest : complete[d] => Whole(d, d)

\* The files under a task are never rewritten: from the moment a call returns,
\* and as long as the marker is there, the directory does not change.
CompleteIsStable ==
    [][\A d \in Manifest : complete[d] => complete'[d] /\ dir'[d] = dir[d]]_vars

\* A lock is given back, whatever the registry answers and whoever crashes.
LockIsFreed ==
    \A p \in Puller, d \in Manifest : lock[d] = p ~> lock[d] # p

\* Why: a call works on what it resolved, ...
Resolved ==
    \A p \in Puller :
      /\ ~At(p, "idle") => pull[p].ref \in Ref /\ Dir(p) \in Manifest
      /\ pull[p].pc \in {"fetch", "copy"} => pull[p].manifest \in Manifest /\ pull[p].next >= 1
      /\ At(p, "copy") => pull[p].next <= Len(Files[pull[p].manifest])

\* ... exactly the calls inside PullIntoCache's critical section hold a lock, ...
LockHeld ==
    \A p \in Puller :
      /\ pull[p].pc \in Locked => lock[Dir(p)] = p
      /\ \A d \in Manifest : lock[d] = p => pull[p].pc \in Locked /\ Dir(p) = d

\* ... there is no marker while a download runs, and one when a call returns, ...
Markers ==
    \A p \in Puller :
      /\ pull[p].pc \in Writing => ~complete[Dir(p)]
      /\ pull[p].pc \in {"return", "using"} => complete[Dir(p)]

\* ... and the blobs before the next one are there, of one manifest (a title
\* listed twice is being fetched again).
Fetched ==
    \A p \in Puller : pull[p].pc \in {"fetch", "copy"} =>
      LET files == Files[pull[p].manifest] IN
        \A i \in 1..Len(files) :
          i < pull[p].next /\ (At(p, "copy") => files[i] # Blob(p))
            => dir[Dir(p)][files[i]] = pull[p].manifest

\* The inductive invariants behind OneWriter, and behind CompleteHasImage and
\* CompleteIsStable.
LockInv == TypeOK /\ Resolved /\ LockHeld /\ Fetched
CacheInv == LockInv /\ Markers /\ CompleteHasImage

\* While no tag moves between them, both resolutions of a call agree.
SameImage ==
    \A p \in Puller :
      /\ \A r \in Ref : Resolving(p, r) => tag[r] = Dir(p)
      /\ pull[p].pc \in {"fetch", "copy"} => pull[p].manifest = Dir(p)

\* PullIntoCache as ImageStore promises it: whatever the calls do, the images
\* they are given are whole and are the ones they resolved.
ClientState(pc) ==
    CASE pc = "idle" -> "idle"
      [] pc = "using" -> "got"
      [] OTHER -> "asked"

StoredImages == {d \in Manifest : complete[d] /\ Whole(d, d)}
Clients == [p \in Puller |-> [state |-> ClientState(pull[p].pc), want |-> pull[p].digest]]

Promise == INSTANCE ImageStore WITH stored <- StoredImages, client <- Clients

KeepsPromise == Promise!Spec
=============================================================================
