--------------------------- MODULE OciCacheProofs ---------------------------
(***************************************************************************)
(* Theorems about OciCache: for any number of calls, references, images    *)
(* and files, and under every set of faults unless a theorem says which    *)
(* ones it leaves out.                                                     *)
(***************************************************************************)
EXTENDS OciCache, TLAPS

USE CacheAssumption

-----------------------------------------------------------------------------
(* Type correctness.                                                       *)

\* An idle call and the one a Resolve makes of it are well typed.
LEMMA CallTypes ==
    /\ IdlePull \in PullRecord
    /\ \A r \in Ref, d \in Manifest :
         [IdlePull EXCEPT !.pc = "lock", !.ref = r, !.digest = d] \in PullRecord
BY DEF IdlePull, PullRecord, Pc, Locked, Writing

\* So is a call that goes on to a blob.
LEMMA BlobTypes ==
    ASSUME NEW q \in PullRecord, NEW m \in Manifest \union {None}, NEW k \in Nat
    PROVE  [q EXCEPT !.pc = "fetch", !.manifest = m, !.next = k] \in PullRecord
<1>1. "fetch" \in Pc
  BY DEF Pc, Locked, Writing
<1> QED
  BY <1>1 DEF PullRecord

\* A call can only be told to go to a program counter.
LEMMA GotoType ==
    ASSUME TypeOK, NEW p \in Puller, NEW pc \in Pc, Goto(p, pc)
    PROVE  pull' \in [Puller -> PullRecord]
BY DEF TypeOK, Goto, PullRecord

\* Every step keeps the types.
LEMMA NextType ==
    ASSUME TypeOK, Resolved, [Next]_vars
    PROVE  TypeOK'
<1>1. ASSUME NEW p \in Puller, NEW r \in Ref, Resolve(p, r) PROVE TypeOK'
  <2>1. tag[r] \in Manifest
    BY DEF TypeOK
  <2> QED
    BY <1>1, <2>1, CallTypes DEF TypeOK, Resolve
<1>2. ASSUME NEW p \in Puller, TakeLock(p) PROVE TypeOK'
  <2>1. pull' \in [Puller -> PullRecord]
    BY <1>2, GotoType DEF TakeLock, Pc, Locked
  <2> QED
    BY <1>2, <2>1 DEF TakeLock, TypeOK
<1>3. ASSUME NEW p \in Puller, Check(p) PROVE TypeOK'
  <2>1. pull' \in [Puller -> PullRecord]
    BY <1>3, GotoType DEF Check, Pc, Locked, Writing
  <2> QED
    BY <1>3, <2>1 DEF Check, TypeOK
<1>4. ASSUME NEW p \in Puller, FetchManifest(p) PROVE TypeOK'
  <2>1. tag[pull[p].ref] \in Manifest
    BY <1>4 DEF TypeOK, Resolved, FetchManifest, At
  <2> DEFINE r == [pull[p] EXCEPT !.pc = "fetch", !.manifest = tag[pull[p].ref], !.next = 1]
  <2>2. pull' = [pull EXCEPT ![p] = r]
    BY <1>4 DEF FetchManifest, TypeOK, PullRecord
  <2>3. r \in PullRecord
    BY <2>1, BlobTypes DEF TypeOK
  <2>4. pull' \in [Puller -> PullRecord]
    BY <2>2, <2>3 DEF TypeOK
  <2> QED
    BY <1>4, <2>4 DEF FetchManifest, TypeOK
<1>5. ASSUME NEW p \in Puller, FetchBlob(p) PROVE TypeOK'
  <2>1. pull' \in [Puller -> PullRecord]
    BY <1>5, GotoType DEF FetchBlob, Pc, Locked, Writing
  <2> QED
    BY <1>5, <2>1 DEF FetchBlob, TypeOK, Content
<1>6. ASSUME NEW p \in Puller, CopyBlob(p) PROVE TypeOK'
  <2>1. pull[p].manifest \in Manifest
    BY <1>6 DEF CopyBlob, At, Resolved
  <2> DEFINE r == [pull[p] EXCEPT !.pc = "fetch", !.next = @ + 1]
  <2>2. pull' = [pull EXCEPT ![p] = r]
    BY <1>6 DEF CopyBlob, TypeOK, PullRecord
  <2>3. r \in PullRecord
    <3>1. pull[p] \in PullRecord /\ pull[p].next + 1 \in Nat
      BY DEF TypeOK, PullRecord
    <3>2. r = [pull[p] EXCEPT !.pc = "fetch", !.manifest = pull[p].manifest, !.next = @ + 1]
      BY <3>1 DEF PullRecord
    <3> QED
      BY <2>1, <3>1, <3>2, BlobTypes
  <2>4. pull' \in [Puller -> PullRecord]
    BY <2>2, <2>3 DEF TypeOK
  <2> QED
    BY <1>6, <2>1, <2>4 DEF CopyBlob, TypeOK, Content
<1>7. ASSUME NEW p \in Puller, Mark(p) PROVE TypeOK'
  <2>1. pull' \in [Puller -> PullRecord]
    BY <1>7, GotoType DEF Mark, Pc, Locked
  <2> QED
    BY <1>7, <2>1 DEF Mark, TypeOK
<1>8. ASSUME NEW p \in Puller, Return(p) PROVE TypeOK'
  <2>1. pull' \in [Puller -> PullRecord]
    BY <1>8, GotoType DEF Return, Pc
  <2> QED
    BY <1>8, <2>1 DEF Return, Unlock, TypeOK
<1>9. ASSUME NEW p \in Puller, Fails(p) \/ Crash(p) \/ Finish(p) PROVE TypeOK'
  <2>1. pull' \in [Puller -> PullRecord]
    <3>1. pull' = [pull EXCEPT ![p] = IdlePull]
      BY <1>9 DEF Fails, Crash, Finish
    <3> QED
      BY <3>1, CallTypes DEF TypeOK
  <2>2. lock' \in [Manifest -> Puller \union {None}]
    <3>1. CASE Fails(p) \/ Crash(p)
      BY <3>1 DEF Fails, Crash, Unlock, TypeOK
    <3>2. CASE Finish(p)
      BY <3>2 DEF Finish, TypeOK
    <3> QED
      BY <1>9, <3>1, <3>2
  <2>3. UNCHANGED <<tag, dir, complete>>
    BY <1>9 DEF Fails, Crash, Finish
  <2> QED
    BY <2>1, <2>2, <2>3 DEF TypeOK
<1>10. ASSUME NEW r \in Ref, NEW m \in Manifest, MoveTag(r, m) PROVE TypeOK'
  BY <1>10 DEF MoveTag, TypeOK
<1>11. CASE UNCHANGED vars
  BY <1>11 DEF vars, TypeOK
<1> QED
  BY <1>1, <1>2, <1>3, <1>4, <1>5, <1>6, <1>7, <1>8, <1>9, <1>10, <1>11 DEF Next, Work

-----------------------------------------------------------------------------
(* Which step changes what.                                                *)

\* A step is one call's, or the registry's, or nothing.
Steps(p) ==
    (\E r \in Ref : Resolve(p, r)) \/ TakeLock(p) \/ Work(p) \/ Fails(p) \/ Crash(p) \/ Finish(p)

\* A step is a puller's, the registry's, or none.
LEMMA StepKinds ==
    ASSUME [Next]_vars
    PROVE  \/ \E p \in Puller : Steps(p)
           \/ \E r \in Ref, m \in Manifest : MoveTag(r, m)
           \/ UNCHANGED vars
BY DEF Next, Steps

\* A step of p leaves the other calls as they are.
LEMMA OthersStay ==
    ASSUME TypeOK, NEW p \in Puller, Steps(p), NEW q \in Puller, q # p
    PROVE  pull'[q] = pull[q]
<1>1. CASE \E r \in Ref : Resolve(p, r)
  BY <1>1 DEF Resolve, TypeOK
<1>2. CASE TakeLock(p)
  BY <1>2 DEF TakeLock, Goto, TypeOK
<1>3. CASE Work(p)
  BY <1>3 DEF Work, Check, FetchManifest, FetchBlob, CopyBlob, Mark, Return, Goto, TypeOK
<1>4. CASE Fails(p) \/ Crash(p) \/ Finish(p)
  BY <1>4 DEF Fails, Crash, Finish, TypeOK
<1> QED
  BY <1>1, <1>2, <1>3, <1>4 DEF Steps

\* The call that steps keeps what it resolved, ...
After(p, pc, manifest, next) ==
    /\ pull'[p].pc = pc
    /\ pull'[p].ref = pull[p].ref
    /\ pull'[p].digest = pull[p].digest
    /\ pull'[p].manifest = manifest
    /\ pull'[p].next = next

\* ... unless it begins or ends.
Begun(p, r) == pull'[p].pc = "lock" /\ pull'[p].ref = r /\ pull'[p].digest = tag[r]

\* What the call that steps becomes, action by action.
LEMMA CallAfter ==
    ASSUME TypeOK, NEW p \in Puller
    PROVE  /\ \A r \in Ref : Resolve(p, r) => Begun(p, r)
           /\ TakeLock(p) => After(p, "check", pull[p].manifest, pull[p].next)
           /\ Check(p) => \E marked \in Stats(Dir(p)) : After(p, IF marked THEN "return" ELSE "manifest", pull[p].manifest, pull[p].next)
           /\ FetchManifest(p) => After(p, "fetch", tag[pull[p].ref], 1)
           /\ FetchBlob(p) => After(p, "copy", pull[p].manifest, pull[p].next)
           /\ CopyBlob(p) => After(p, "fetch", pull[p].manifest, pull[p].next + 1)
           /\ Mark(p) => After(p, "return", pull[p].manifest, pull[p].next)
           /\ Return(p) => After(p, "using", pull[p].manifest, pull[p].next)
           /\ Fails(p) \/ Crash(p) \/ Finish(p) => pull'[p].pc = "idle"
<1>1. pull \in [Puller -> PullRecord] /\ pull[p] \in PullRecord
  BY DEF TypeOK
<1>2. \A r \in Ref : Resolve(p, r) => Begun(p, r)
  BY <1>1 DEF Resolve, Begun, IdlePull
<1>3. FetchManifest(p) => After(p, "fetch", tag[pull[p].ref], 1)
  BY <1>1 DEF FetchManifest, After, PullRecord
<1>4. CopyBlob(p) => After(p, "fetch", pull[p].manifest, pull[p].next + 1)
  BY <1>1 DEF CopyBlob, After, PullRecord
<1>5. ASSUME NEW pc \in Pc, Goto(p, pc) PROVE After(p, pc, pull[p].manifest, pull[p].next)
  BY <1>1, <1>5 DEF Goto, After, PullRecord
<1>6. {"check", "return", "manifest", "copy", "using"} \subseteq Pc
  BY DEF Pc, Locked, Writing
<1>7. /\ TakeLock(p) => After(p, "check", pull[p].manifest, pull[p].next)
      /\ FetchBlob(p) => After(p, "copy", pull[p].manifest, pull[p].next)
      /\ Mark(p) => After(p, "return", pull[p].manifest, pull[p].next)
      /\ Return(p) => After(p, "using", pull[p].manifest, pull[p].next)
  BY <1>5, <1>6 DEF TakeLock, FetchBlob, Mark, Return
<1>8. Check(p) => \E marked \in Stats(Dir(p)) : After(p, IF marked THEN "return" ELSE "manifest", pull[p].manifest, pull[p].next)
  BY <1>5, <1>6 DEF Check
<1>9. Fails(p) \/ Crash(p) \/ Finish(p) => pull'[p].pc = "idle"
  BY <1>1 DEF Fails, Crash, Finish, IdlePull
<1> QED
  BY <1>2, <1>3, <1>4, <1>7, <1>8, <1>9

-----------------------------------------------------------------------------
(* The parts of the invariant, one by one.                                 *)

\* A call works on what it resolved.
LEMMA ResolvedStep ==
    ASSUME TypeOK, Resolved, [Next]_vars
    PROVE  Resolved'
<1>t. tag \in [Ref -> Manifest] /\ pull \in [Puller -> PullRecord]
  BY DEF TypeOK
<1>1. ASSUME NEW p \in Puller, Steps(p) PROVE Resolved'
  <2> SUFFICES
        /\ pull'[p].pc # "idle" => pull'[p].ref \in Ref /\ pull'[p].digest \in Manifest
        /\ pull'[p].pc \in {"fetch", "copy"} => pull'[p].manifest \in Manifest /\ pull'[p].next >= 1
        /\ pull'[p].pc = "copy" => pull'[p].next <= Len(Files[pull'[p].manifest])
    BY <1>1, OthersStay DEF Resolved, At, Dir
  <2>p. pull[p] \in PullRecord
    BY <1>t
  <2>1. CASE \E r \in Ref : Resolve(p, r)
    BY <1>t, <2>1, CallAfter DEF Begun
  <2>2. CASE TakeLock(p)
    BY <2>2, CallAfter DEF Resolved, TakeLock, At, Dir, After
  <2>3. CASE Check(p)
    BY <2>3, CallAfter DEF Resolved, Check, At, Dir, After
  <2>4. CASE Mark(p) \/ Return(p)
    BY <2>4, CallAfter DEF Resolved, Mark, Return, At, Dir, After
  <2>5. CASE FetchManifest(p)
    <3>1. pull[p].ref \in Ref /\ pull[p].digest \in Manifest
      BY <2>5 DEF Resolved, FetchManifest, At, Dir
    <3>2. After(p, "fetch", tag[pull[p].ref], 1)
      BY <2>5, CallAfter
    <3> QED
      BY <1>t, <3>1, <3>2 DEF After
  <2>6. CASE FetchBlob(p)
    BY <2>6, CallAfter DEF Resolved, FetchBlob, At, Dir, After
  <2>7. CASE CopyBlob(p)
    <3>1. pull[p].next \in Nat /\ pull[p].next >= 1 /\ pull[p].next + 1 >= 1
      BY <2>p, <2>7 DEF PullRecord, Resolved, CopyBlob, At
    <3> QED
      BY <2>7, <3>1, CallAfter DEF Resolved, CopyBlob, At, Dir, After
  <2>8. CASE Fails(p) \/ Crash(p) \/ Finish(p)
    BY <2>8, CallAfter
  <2> QED
    BY <1>1, <2>1, <2>2, <2>3, <2>4, <2>5, <2>6, <2>7, <2>8 DEF Steps, Work
<1>2. CASE UNCHANGED pull
  BY <1>2 DEF Resolved, At, Dir
<1> QED
  BY <1>1, <1>2, StepKinds DEF MoveTag, vars

\* Exactly the calls in the critical section hold a lock.
LEMMA LockStep ==
    ASSUME TypeOK, Resolved, LockHeld, [Next]_vars
    PROVE  LockHeld'
<1>t. lock \in [Manifest -> Puller \union {None}] /\ pull \in [Puller -> PullRecord]
  BY DEF TypeOK
<1>1. ASSUME NEW p \in Puller, Steps(p) PROVE LockHeld'
  <2>p. pull[p] \in PullRecord
    BY <1>t
  <2> DEFINE Holds(q) ==
               /\ pull'[q].pc \in Locked => lock'[pull'[q].digest] = q
               /\ \A d \in Manifest : lock'[d] = q => pull'[q].pc \in Locked /\ pull'[q].digest = d
  <2> SUFFICES \A q \in Puller : Holds(q)
    BY DEF LockHeld, Dir
  <2>0. \A q \in Puller : pull[q].pc \in Locked => Dir(q) \in Manifest /\ lock[Dir(q)] = q
    BY DEF Resolved, LockHeld, Locked, Writing, At
  <2>1. CASE \E r \in Ref : Resolve(p, r)
    <3>1. Holds(p)
      BY <1>t, <2>1, CallAfter DEF Begun, Resolve, At, LockHeld, Locked, Writing
    <3>2. lock' = lock
      BY <2>1 DEF Resolve
    <3> QED
      BY <1>1, <2>0, <3>1, <3>2, OthersStay DEF LockHeld, Dir
  <2>2. CASE TakeLock(p)
    <3>1. Dir(p) \in Manifest /\ lock[Dir(p)] = None /\ lock' = [lock EXCEPT ![Dir(p)] = p]
      BY <2>2 DEF TakeLock, Resolved, At
    <3>2. pull'[p].pc \in Locked /\ pull'[p].digest = Dir(p)
      BY <2>2, CallAfter DEF After, Locked, Dir
    <3>3. \A d \in Manifest : lock[d] # p
      BY <2>2 DEF TakeLock, At, LockHeld, Locked, Writing
    <3>4. Holds(p)
      BY <1>t, <3>1, <3>2, <3>3
    <3>5. ASSUME NEW q \in Puller, q # p PROVE Holds(q)
      BY <1>t, <1>1, <2>0, <3>1, <3>5, OthersStay DEF LockHeld, Dir
    <3> QED
      BY <3>4, <3>5
  <2>3. CASE Check(p) \/ FetchManifest(p) \/ FetchBlob(p) \/ CopyBlob(p) \/ Mark(p)
    <3>1. lock' = lock
      BY <2>3 DEF Check, FetchManifest, FetchBlob, CopyBlob, Mark
    <3>2. pull[p].pc \in Locked
      BY <2>3 DEF Check, FetchManifest, FetchBlob, CopyBlob, Mark, At, Locked, Writing
    <3>3. pull'[p].pc \in Locked /\ pull'[p].digest = Dir(p)
      BY <2>3, CallAfter DEF After, Locked, Writing, Dir
    <3> QED
      BY <1>1, <2>0, <3>1, <3>2, <3>3, OthersStay DEF LockHeld, Dir
  <2>4. CASE Return(p) \/ Fails(p) \/ Crash(p)
    <3>1. lock' = [d \in Manifest |-> IF lock[d] = p THEN None ELSE lock[d]]
      BY <2>4 DEF Return, Fails, Crash, Unlock
    <3>2. pull'[p].pc \notin Locked
      BY <2>4, CallAfter DEF After, Locked, Writing
    <3> QED
      BY <1>1, <2>0, <3>1, <3>2, OthersStay DEF LockHeld, Dir
  <2>5. CASE Finish(p)
    <3>1. lock' = lock /\ pull[p].pc = "using"
      BY <2>5 DEF Finish, At
    <3>2. pull'[p].pc \notin Locked
      BY <2>5, CallAfter DEF Locked, Writing
    <3> QED
      BY <1>1, <2>0, <3>1, <3>2, OthersStay DEF LockHeld, Dir, Locked, Writing
  <2> QED
    BY <1>1, <2>1, <2>2, <2>3, <2>4, <2>5 DEF Steps, Work
<1>2. CASE UNCHANGED <<pull, lock>>
  BY <1>2 DEF LockHeld, Dir
<1> QED
  BY <1>1, <1>2, StepKinds DEF MoveTag, vars

\* A directory changes only under a call that holds its lock and has not
\* marked it complete, and then in the file of that call's blob; a marker
\* appears only at the end of a download.
LEMMA DirStep ==
    ASSUME TypeOK, Resolved, [Next]_vars, NEW d \in Manifest
    PROVE  \/ dir'[d] = dir[d] /\ complete'[d] = complete[d]
           \/ \E p \in Puller : FetchBlob(p) /\ Dir(p) = d /\ complete' = complete
           \/ \E p \in Puller : CopyBlob(p) /\ Dir(p) = d /\ complete' = complete
           \/ \E p \in Puller : Mark(p) /\ Dir(p) = d /\ dir' = dir
<1>t. /\ dir \in [Manifest -> [Name -> Content]]
      /\ complete \in [Manifest -> BOOLEAN]
  BY DEF TypeOK
<1>1. ASSUME NEW p \in Puller, FetchBlob(p) \/ CopyBlob(p), Dir(p) # d
      PROVE  dir'[d] = dir[d] /\ complete'[d] = complete[d]
  BY <1>t, <1>1 DEF FetchBlob, CopyBlob
<1>2. ASSUME NEW p \in Puller, Mark(p), Dir(p) # d
      PROVE  dir'[d] = dir[d] /\ complete'[d] = complete[d]
  BY <1>t, <1>2 DEF Mark
<1>3. ASSUME NEW p \in Puller, FetchBlob(p) \/ CopyBlob(p) PROVE complete' = complete
  BY <1>3 DEF FetchBlob, CopyBlob
<1>4. ASSUME NEW p \in Puller, Mark(p) PROVE dir' = dir
  BY <1>4 DEF Mark
<1>5. ASSUME NEW p \in Puller, Steps(p), ~FetchBlob(p), ~CopyBlob(p), ~Mark(p)
      PROVE  dir'[d] = dir[d] /\ complete'[d] = complete[d]
  BY <1>5 DEF Steps, Work, Resolve, TakeLock, Check, FetchManifest, Return, Fails, Crash, Finish
<1>6. ASSUME (\E r \in Ref, m \in Manifest : MoveTag(r, m)) \/ UNCHANGED vars
      PROVE  dir'[d] = dir[d] /\ complete'[d] = complete[d]
  BY <1>6 DEF MoveTag, vars
<1> QED
  BY <1>1, <1>2, <1>3, <1>4, <1>5, <1>6, StepKinds

\* Calls inside the critical section of one digest are one call.
LEMMA OneHolder ==
    ASSUME LockHeld, NEW p \in Puller, NEW q \in Puller,
           pull[p].pc \in Locked, pull[q].pc \in Locked, Dir(p) = Dir(q)
    PROVE  p = q
BY DEF LockHeld

\* Where a marker that is there is seen, there is none while a download runs,
\* and one when a call returns.
LEMMA MarkersStep ==
    ASSUME "statFails" \notin Faults, TypeOK, Resolved, LockHeld, Markers, [Next]_vars
    PROVE  Markers'
<1>t. complete \in [Manifest -> BOOLEAN]
  BY DEF TypeOK
<1> SUFFICES ASSUME NEW q \in Puller
             PROVE  /\ pull'[q].pc \in Writing => ~complete'[pull'[q].digest]
                    /\ pull'[q].pc \in {"return", "using"} => complete'[pull'[q].digest]
  BY DEF Markers, Dir
<1>1. CASE Steps(q)
  <2>1. CASE TakeLock(q) \/ (\E r \in Ref : Resolve(q, r)) \/ Fails(q) \/ Crash(q) \/ Finish(q)
    BY <2>1, CallAfter DEF After, Begun, Writing
  <2>2. CASE Check(q)
    <3>1. PICK marked \in Stats(Dir(q)) : After(q, IF marked THEN "return" ELSE "manifest", pull[q].manifest, pull[q].next)
      BY <2>2, CallAfter
    <3>2. marked = complete[Dir(q)]
      BY DEF Stats
    <3>3. complete' = complete
      BY <2>2 DEF Check
    <3> QED
      BY <3>1, <3>2, <3>3 DEF After, Writing, Dir
  <2>3. CASE FetchManifest(q) \/ FetchBlob(q) \/ CopyBlob(q)
    <3>1. pull[q].pc \in Writing /\ complete' = complete
      BY <2>3 DEF FetchManifest, FetchBlob, CopyBlob, At, Writing
    <3>2. pull'[q].pc \in Writing /\ pull'[q].digest = Dir(q)
      BY <2>3, CallAfter DEF After, Writing, Dir
    <3> QED
      BY <3>1, <3>2 DEF Markers, Writing
  <2>4. CASE Mark(q)
    <3>1. Dir(q) \in Manifest /\ complete' = [complete EXCEPT ![Dir(q)] = TRUE]
      BY <2>4 DEF Mark, At, Resolved
    <3>2. pull'[q].pc = "return" /\ pull'[q].digest = Dir(q)
      BY <2>4, CallAfter DEF After, Dir
    <3> QED
      BY <1>t, <3>1, <3>2 DEF Writing
  <2>5. CASE Return(q)
    <3>1. pull[q].pc = "return" /\ complete' = complete
      BY <2>5 DEF Return, At
    <3>2. pull'[q].pc = "using" /\ pull'[q].digest = Dir(q)
      BY <2>5, CallAfter DEF After, Dir
    <3> QED
      BY <3>1, <3>2 DEF Markers, Writing
  <2> QED
    BY <1>1, <2>1, <2>2, <2>3, <2>4, <2>5 DEF Steps, Work
<1>2. CASE \E p \in Puller : Steps(p) /\ p # q
  <2>1. PICK p \in Puller : Steps(p) /\ p # q
    BY <1>2
  <2>2. pull'[q] = pull[q]
    BY <2>1, OthersStay
  <2>3. CASE Mark(p)
    <3>1. Dir(p) \in Manifest /\ complete' = [complete EXCEPT ![Dir(p)] = TRUE] /\ pull[p].pc \in Locked
      BY <2>3 DEF Mark, At, Resolved, Locked, Writing
    <3>2. pull[q].pc \in Writing => Dir(p) # Dir(q)
      BY <2>1, <3>1, OneHolder DEF Locked
    <3>3. pull[q].pc \in Writing \union {"return", "using"} => Dir(q) \in Manifest
      BY DEF Resolved, At, Writing
    <3> QED
      BY <1>t, <2>2, <3>1, <3>2, <3>3 DEF Markers, Dir
  <2>4. CASE ~Mark(p)
    <3>1. complete' = complete
      BY <2>1, <2>4 DEF Steps, Work, Resolve, TakeLock, Check, FetchManifest, FetchBlob, CopyBlob,
                        Return, Fails, Crash, Finish
    <3> QED
      BY <2>2, <3>1 DEF Markers, Dir
  <2> QED
    BY <2>3, <2>4
<1>3. CASE UNCHANGED <<pull, complete>>
  BY <1>3 DEF Markers, Dir
<1> QED
  BY <1>1, <1>2, <1>3, StepKinds DEF MoveTag, vars

\* What q has fetched so far stays while other calls step.
LEMMA OthersFetch ==
    ASSUME TypeOK, Resolved, LockHeld, NEW p \in Puller, NEW q \in Puller, p # q,
           Steps(p), pull[q].pc \in {"fetch", "copy"}
    PROVE  dir'[Dir(q)] = dir[Dir(q)]
<1>1. Dir(q) \in Manifest /\ pull[q].pc \in Locked
  BY DEF Resolved, At, Locked, Writing
<1>2. CASE FetchBlob(p) \/ CopyBlob(p)
  <2>1. Dir(p) \in Manifest /\ pull[p].pc \in Locked
    BY <1>2 DEF FetchBlob, CopyBlob, At, Resolved, Locked, Writing
  <2>2. Dir(p) # Dir(q)
    BY <1>1, <2>1, OneHolder
  <2> QED
    BY <1>1, <1>2, <2>1, <2>2 DEF FetchBlob, CopyBlob, TypeOK
<1>3. CASE ~FetchBlob(p) /\ ~CopyBlob(p)
  BY <1>3 DEF Steps, Work, Resolve, TakeLock, Check, FetchManifest, Mark, Return, Fails, Crash, Finish
<1> QED
  BY <1>2, <1>3

\* What Fetched says of one call.
FetchedBy(q) ==
    \A i \in 1..Len(Files[pull[q].manifest]) :
      i < pull[q].next /\ (At(q, "copy") => Files[pull[q].manifest][i] # Blob(q))
        => dir[Dir(q)][Files[pull[q].manifest][i]] = pull[q].manifest

\* The blobs before the next one are there.
LEMMA FetchedStep ==
    ASSUME TypeOK, Resolved, LockHeld, Fetched, [Next]_vars
    PROVE  Fetched'
<1> SUFFICES ASSUME NEW q \in Puller, pull'[q].pc \in {"fetch", "copy"}
             PROVE  FetchedBy(q)'
  BY DEF Fetched, FetchedBy
<1>1. CASE Steps(q)
  <2>1. CASE FetchManifest(q)
    BY <2>1, CallAfter DEF After, FetchedBy
  <2>2. CASE FetchBlob(q)
    <3> DEFINE m == pull[q].manifest
    <3>1. /\ Dir(q) \in Manifest /\ m \in Manifest
          /\ dir' = [dir EXCEPT ![Dir(q)][Blob(q)] = "partial"]
      BY <2>2 DEF FetchBlob, At, Resolved
    <3>2. /\ pull'[q].pc = "copy" /\ pull'[q].manifest = m
          /\ pull'[q].digest = Dir(q) /\ pull'[q].next = pull[q].next
      BY <2>2, CallAfter DEF After, Dir
    <3>3. ASSUME NEW i \in 1..Len(Files[m]), i < pull[q].next, Files[m][i] # Blob(q)
          PROVE  dir'[Dir(q)][Files[m][i]] = m
      <4>1. dir[Dir(q)][Files[m][i]] = m
        BY <2>2, <3>3 DEF Fetched, FetchBlob, At
      <4>2. Files[m][i] \in Name /\ dir[Dir(q)] \in [Name -> Content]
        BY <3>1, <3>3 DEF TypeOK
      <4> QED
        BY <3>1, <3>3, <4>1, <4>2 DEF TypeOK
    <3> QED
      BY <3>2, <3>3 DEF FetchedBy, At, Blob, Dir
  <2>3. CASE CopyBlob(q)
    <3> DEFINE m == pull[q].manifest
    <3>1. /\ Dir(q) \in Manifest /\ m \in Manifest
          /\ dir' = [dir EXCEPT ![Dir(q)][Blob(q)] = m]
          /\ pull[q].next \in 1..Len(Files[m])
      BY <2>3 DEF CopyBlob, At, Resolved, TypeOK, PullRecord
    <3>2. /\ pull'[q].pc = "fetch" /\ pull'[q].manifest = m
          /\ pull'[q].digest = Dir(q) /\ pull'[q].next = pull[q].next + 1
      BY <2>3, CallAfter DEF After, Dir
    <3>3. ASSUME NEW i \in 1..Len(Files[m]), i < pull[q].next + 1
          PROVE  dir'[Dir(q)][Files[m][i]] = m
      <4>1. /\ Files[m][i] \in Name /\ Blob(q) \in Name
            /\ dir[Dir(q)] \in [Name -> Content]
        BY <3>1, <3>3 DEF TypeOK, Blob
      <4>2. CASE Files[m][i] = Blob(q)
        BY <3>1, <4>1, <4>2 DEF TypeOK
      <4>3. CASE Files[m][i] # Blob(q)
        <5>1. i < pull[q].next
          BY <3>1, <3>3, <4>3 DEF Blob
        <5>2. dir[Dir(q)][Files[m][i]] = m
          BY <2>3, <3>3, <4>3, <5>1 DEF Fetched, CopyBlob, At
        <5> QED
          BY <3>1, <4>1, <4>3, <5>2 DEF TypeOK
      <4> QED
        BY <4>2, <4>3
    <3> QED
      BY <3>2, <3>3 DEF FetchedBy, At, Blob, Dir
  <2>4. CASE ~FetchManifest(q) /\ ~FetchBlob(q) /\ ~CopyBlob(q)
    BY <1>1, <2>4, CallAfter DEF Steps, Work, After, Begun
  <2> QED
    BY <2>1, <2>2, <2>3, <2>4
<1>2. CASE \E p \in Puller : Steps(p) /\ p # q
  <2>1. PICK p \in Puller : Steps(p) /\ p # q
    BY <1>2
  <2>2. pull'[q] = pull[q]
    BY <2>1, OthersStay
  <2>3. dir'[Dir(q)] = dir[Dir(q)]
    BY <2>1, <2>2, OthersFetch
  <2> QED
    BY <2>2, <2>3 DEF Fetched, FetchedBy, At, Blob, Dir
<1>3. CASE UNCHANGED <<pull, dir>>
  BY <1>3 DEF Fetched, FetchedBy, At, Blob, Dir
<1> QED
  BY <1>1, <1>2, <1>3, StepKinds DEF MoveTag, vars

\* A call that is about to write the marker has every file of its manifest.
LEMMA MarkIsWhole ==
    ASSUME TypeOK, Resolved, Fetched, NEW p \in Puller, Mark(p)
    PROVE  Dir(p) \in Manifest /\ pull[p].manifest \in Manifest /\ Whole(Dir(p), pull[p].manifest)
<1> DEFINE m == pull[p].manifest
<1>1. /\ Dir(p) \in Manifest /\ m \in Manifest
      /\ pull[p].next \in Nat /\ pull[p].next > Len(Files[m])
  BY DEF Mark, At, Resolved, TypeOK, PullRecord
<1>2. \A i \in 1..Len(Files[m]) : dir[Dir(p)][Files[m][i]] = m
  <2> SUFFICES ASSUME NEW i \in 1..Len(Files[m]) PROVE dir[Dir(p)][Files[m][i]] = m
    OBVIOUS
  <2>1. Len(Files[m]) \in Nat /\ i < pull[p].next
    BY <1>1
  <2> QED
    BY <2>1 DEF Fetched, Mark, At
<1>3. DOMAIN Files[m] = 1..Len(Files[m])
  BY <1>1
<1> QED
  BY <1>1, <1>2, <1>3 DEF Whole, Range

\* A marked directory does not change.
LEMMA StableStep ==
    ASSUME TypeOK, Resolved, Markers, [Next]_vars, NEW d \in Manifest, complete[d]
    PROVE  complete'[d] /\ dir'[d] = dir[d]
<1>1. ASSUME NEW p \in Puller, FetchBlob(p) \/ CopyBlob(p), Dir(p) = d PROVE FALSE
  BY <1>1 DEF FetchBlob, CopyBlob, At, Markers, Writing
<1>2. ASSUME NEW p \in Puller, Mark(p), Dir(p) = d PROVE complete'[d]
  BY <1>2 DEF Mark, TypeOK
<1> QED
  BY <1>1, <1>2, DirStep

\* A directory with a marker holds the whole of one image.
LEMMA HasImageStep ==
    ASSUME TypeOK, Resolved, Markers, Fetched, CompleteHasImage, [Next]_vars
    PROVE  CompleteHasImage'
<1> SUFFICES ASSUME NEW d \in Manifest, complete'[d]
             PROVE  \E m \in Manifest : Whole(d, m)'
  BY DEF CompleteHasImage
<1>1. CASE complete[d]
  BY <1>1, StableStep DEF CompleteHasImage, Whole
<1>2. CASE ~complete[d]
  <2>1. PICK p \in Puller : Mark(p) /\ Dir(p) = d /\ dir' = dir
    BY <1>2, DirStep
  <2> QED
    BY <2>1, MarkIsWhole DEF Whole
<1> QED
  BY <1>1, <1>2

-----------------------------------------------------------------------------
(* Theorems for every set of faults.                                       *)

\* Calls, locks and downloads agree, whatever fails and whoever crashes.
THEOREM LockInvariant == Spec => []LockInv
<1>1. Init => LockInv
  <2> SUFFICES ASSUME Init PROVE LockInv
    OBVIOUS
  <2>1. TypeOK
    BY CallTypes DEF Init, TypeOK, Content
  <2>2. Resolved /\ LockHeld /\ Fetched
    BY DEF Init, Resolved, LockHeld, Fetched, IdlePull, At, Dir, Locked, Writing
  <2> QED
    BY <2>1, <2>2 DEF LockInv
<1>2. LockInv /\ [Next]_vars => LockInv'
  BY NextType, ResolvedStep, LockStep, FetchedStep DEF LockInv
<1> QED
  BY <1>1, <1>2, PTL DEF Spec

\* Two calls never write one directory at once (PullIntoCache's flock), even if
\* one of them has overlooked the marker.
THEOREM WritersExclude == Spec => []OneWriter
<1>1. LockInv => OneWriter
  BY OneHolder DEF LockInv, OneWriter, Locked
<1> QED
  BY <1>1, LockInvariant, PTL

-----------------------------------------------------------------------------
(* Theorems for markers that can be looked at.  A tag may move at any      *)
(* moment, between the two resolutions of a call too.                      *)

\* The inductive invariant of the marked directories.
THEOREM CacheInvariant ==
    ASSUME "statFails" \notin Faults
    PROVE  Spec => []CacheInv
<1>1. Init => Markers /\ CompleteHasImage
  BY DEF Init, Markers, CompleteHasImage, IdlePull, Writing
<1>2. LockInv /\ Markers /\ CompleteHasImage /\ [Next]_vars => (Markers /\ CompleteHasImage)'
  BY MarkersStep, HasImageStep DEF LockInv
<1> QED
  BY <1>1, <1>2, LockInvariant, PTL DEF Spec, CacheInv

\* A directory with a marker holds the whole of one image, even if tags move
\* during a download, pulls fail and processes die.
THEOREM MarkedHasImage ==
    ASSUME "statFails" \notin Faults
    PROVE  Spec => []CompleteHasImage
<1>1. CacheInv => CompleteHasImage
  BY DEF CacheInv
<1> QED
  BY <1>1, CacheInvariant, PTL

\* The files under a running task are never rewritten.
THEOREM MarkedIsStable ==
    ASSUME "statFails" \notin Faults
    PROVE  Spec => CompleteIsStable
<1>1. CacheInv /\ [Next]_vars => [\A d \in Manifest : complete[d] => complete'[d] /\ dir'[d] = dir[d]]_vars
  BY StableStep DEF CacheInv, LockInv
<1> QED
  BY <1>1, CacheInvariant, PTL DEF Spec, CompleteIsStable

-----------------------------------------------------------------------------
(* Why locks are freed.  That a number of steps without a bound in the     *)
(* constants is worked off needs an induction TLAPS cannot do here; what   *)
(* each step contributes is a theorem.                                     *)

\* How far a call in the critical section is from its end: the phases to go, and
\* in the download the steps to go (two for each blob, one for the marker).
Phase(p) ==
    CASE At(p, "check") -> 3
      [] At(p, "manifest") -> 2
      [] At(p, "return") -> 0
      [] OTHER -> 1
BlobsLeft(p) == Len(Files[pull[p].manifest]) + 1 - pull[p].next
StepsLeft(p) == 2 * BlobsLeft(p) + (IF At(p, "fetch") THEN 1 ELSE 0)
Closer(p) ==
    \/ Phase(p)' < Phase(p)
    \/ Phase(p)' = Phase(p) /\ StepsLeft(p)' < StepsLeft(p) /\ StepsLeft(p)' >= 0

\* What a call's own step does to it, if the step does not free the lock.
LEMMA WorkComesCloser ==
    ASSUME LockInv, NEW p \in Puller, Work(p), ~Return(p)
    PROVE  Closer(p)
<1>t. pull \in [Puller -> PullRecord] /\ pull[p].next \in Nat
  BY DEF LockInv, TypeOK, PullRecord
<1>1. CASE Check(p)
  <2>1. At(p, "check") /\ (At(p, "return")' \/ At(p, "manifest")')
    BY <1>1, CallAfter DEF LockInv, Check, After, At
  <2> QED
    BY <2>1 DEF Closer, Phase, At
<1>2. CASE FetchManifest(p)
  <2>1. At(p, "manifest") /\ At(p, "fetch")'
    BY <1>2, CallAfter DEF LockInv, FetchManifest, After, At
  <2> QED
    BY <2>1 DEF Closer, Phase, At
<1>l. pull[p].pc \in {"fetch", "copy"} => Len(Files[pull[p].manifest]) \in Nat
  BY DEF LockInv, Resolved
<1>3. CASE FetchBlob(p)
  <2>1. /\ At(p, "fetch") /\ pull[p].next <= Len(Files[pull[p].manifest])
        /\ pull'[p].pc = "copy" /\ pull'[p].manifest = pull[p].manifest /\ pull'[p].next = pull[p].next
    BY <1>3, CallAfter DEF LockInv, FetchBlob, After
  <2> QED
    BY <1>t, <1>l, <2>1 DEF Closer, Phase, StepsLeft, BlobsLeft, At
<1>4. CASE CopyBlob(p)
  <2>1. /\ At(p, "copy") /\ pull[p].next <= Len(Files[pull[p].manifest])
        /\ pull'[p].pc = "fetch" /\ pull'[p].manifest = pull[p].manifest /\ pull'[p].next = pull[p].next + 1
    BY <1>4, CallAfter DEF LockInv, Resolved, CopyBlob, After
  <2> QED
    BY <1>t, <1>l, <2>1 DEF Closer, Phase, StepsLeft, BlobsLeft, At
<1>5. CASE Mark(p)
  <2>1. At(p, "fetch") /\ At(p, "return")'
    BY <1>5, CallAfter DEF LockInv, Mark, After, At
  <2> QED
    BY <2>1 DEF Closer, Phase, At
<1> QED
  BY <1>1, <1>2, <1>3, <1>4, <1>5 DEF Work

\* A call that holds a lock comes closer to giving it back with every step of its
\* own, and no step of another call or of the registry sets it back: flock
\* excludes the others, and nothing under the lock is waited for or repeated
\* (PullIntoCache from line 63 on).
THEOREM HoldersComeCloser ==
    Spec => [][\A p \in Puller, d \in Manifest : lock[d] = p =>
                 /\ Work(p) \/ Fails(p) => lock'[d] # p \/ Closer(p)
                 /\ lock'[d] = p => Closer(p) \/ pull'[p] = pull[p]]_vars
<1>1. ASSUME LockInv, Next, NEW p \in Puller, NEW d \in Manifest, lock[d] = p
      PROVE  /\ Work(p) \/ Fails(p) => lock'[d] # p \/ Closer(p)
             /\ lock'[d] = p => Closer(p) \/ pull'[p] = pull[p]
  <2>1. pull[p].pc \in Locked /\ lock \in [Manifest -> Puller \union {None}]
    BY <1>1 DEF LockInv, TypeOK, LockHeld
  <2>2. Return(p) \/ Fails(p) \/ Crash(p) => lock'[d] # p
    BY <1>1, <2>1 DEF Return, Fails, Crash, Unlock
  <2>3. ASSUME NEW q \in Puller, Steps(q)
        PROVE  lock'[d] # p \/ Closer(p) \/ pull'[p] = pull[p]
    <3>1. CASE q # p
      BY <1>1, <2>3, <3>1, OthersStay DEF LockInv
    <3>2. CASE q = p
      <4>1. ~ (TakeLock(p) \/ Finish(p) \/ \E r \in Ref : Resolve(p, r))
        BY <2>1 DEF TakeLock, Finish, Resolve, At, Locked, Writing
      <4> QED
        BY <1>1, <2>2, <2>3, <3>2, <4>1, WorkComesCloser DEF Steps
    <3> QED
      BY <3>1, <3>2
  <2>4. UNCHANGED pull => pull'[p] = pull[p]
    OBVIOUS
  <2>5. lock'[d] = p => Closer(p) \/ pull'[p] = pull[p]
    BY <1>1, <2>3, <2>4, StepKinds DEF MoveTag, vars
  <2> QED
    BY <1>1, <2>2, <2>5, WorkComesCloser
<1>2. LockInv /\ [Next]_vars =>
        [\A p \in Puller, d \in Manifest : lock[d] = p =>
           /\ Work(p) \/ Fails(p) => lock'[d] # p \/ Closer(p)
           /\ lock'[d] = p => Closer(p) \/ pull'[p] = pull[p]]_vars
  BY <1>1
<1> QED
  BY <1>2, LockInvariant, PTL DEF Spec

-----------------------------------------------------------------------------
(* Theorems for tags that move only while no call is between its two       *)
(* resolutions.                                                            *)

\* Both resolutions of a call agree.
LEMMA SameImageStep ==
    ASSUME "tagRaces" \notin Faults, TypeOK, Resolved, SameImage, [Next]_vars
    PROVE  SameImage'
<1> DEFINE Same(q) ==
             /\ pull'[q].pc \in {"lock", "check", "manifest"} =>
                  \A r \in Ref : pull'[q].ref = r => tag'[r] = pull'[q].digest
             /\ pull'[q].pc \in {"fetch", "copy"} => pull'[q].manifest = pull'[q].digest
<1> SUFFICES ASSUME NEW q \in Puller PROVE Same(q)
  BY DEF SameImage, Resolving, Dir
<1>1. CASE Steps(q)
  <2>1. tag' = tag
    BY <1>1 DEF Steps, Work, Resolve, TakeLock, Check, FetchManifest, FetchBlob, CopyBlob, Mark,
                Return, Fails, Crash, Finish
  <2>2. CASE \E r \in Ref : Resolve(q, r)
    BY <2>1, <2>2, CallAfter DEF Begun
  <2>3. CASE TakeLock(q) \/ Check(q)
    BY <2>1, <2>3, CallAfter DEF SameImage, Resolving, TakeLock, Check, At, Dir, After
  <2>4. CASE FetchManifest(q)
    <3>1. After(q, "fetch", tag[pull[q].ref], 1)
      BY <2>4, CallAfter
    <3>2. pull[q].ref \in Ref /\ tag[pull[q].ref] = pull[q].digest
      BY <2>4 DEF FetchManifest, Resolved, SameImage, Resolving, At, Dir
    <3> QED
      BY <3>1, <3>2 DEF After
  <2>5. CASE FetchBlob(q) \/ CopyBlob(q)
    BY <2>5, CallAfter DEF SameImage, FetchBlob, CopyBlob, At, Dir, After
  <2>6. CASE Mark(q) \/ Return(q)
    BY <2>6, CallAfter DEF After
  <2>7. CASE Fails(q) \/ Crash(q) \/ Finish(q)
    BY <2>7, CallAfter
  <2> QED
    BY <1>1, <2>2, <2>3, <2>4, <2>5, <2>6, <2>7 DEF Steps, Work
<1>2. CASE \E p \in Puller : Steps(p) /\ p # q
  <2>1. PICK p \in Puller : Steps(p) /\ p # q
    BY <1>2
  <2>2. pull'[q] = pull[q]
    BY <2>1, OthersStay
  <2>3. tag' = tag
    BY <2>1 DEF Steps, Work, Resolve, TakeLock, Check, FetchManifest, FetchBlob, CopyBlob, Mark,
                Return, Fails, Crash, Finish
  <2> QED
    BY <2>2, <2>3 DEF SameImage, Resolving, Dir
<1>3. CASE \E r \in Ref, m \in Manifest : MoveTag(r, m)
  <2>1. PICK r \in Ref, m \in Manifest : MoveTag(r, m)
    BY <1>3
  <2>2. pull' = pull /\ ~Resolving(q, r) /\ \A s \in Ref : s # r => tag'[s] = tag[s]
    BY <2>1 DEF MoveTag, TypeOK
  <2> QED
    BY <2>2 DEF SameImage, Resolving, Dir
<1>4. CASE UNCHANGED <<pull, tag>>
  BY <1>4 DEF SameImage, Resolving, Dir
<1> QED
  BY <1>1, <1>2, <1>3, <1>4, StepKinds DEF vars

\* The image in a directory with a marker is the one that names it.
LEMMA IsWholeStep ==
    ASSUME CacheInv, SameImage, CompleteIsWhole, [Next]_vars
    PROVE  CompleteIsWhole'
<1> USE DEF CacheInv, LockInv
<1> SUFFICES ASSUME NEW d \in Manifest, complete'[d]
             PROVE  Whole(d, d)'
  BY DEF CompleteIsWhole
<1>1. CASE complete[d]
  BY <1>1, StableStep DEF CompleteIsWhole, Whole
<1>2. CASE ~complete[d]
  <2>1. PICK p \in Puller : Mark(p) /\ Dir(p) = d /\ dir' = dir
    BY <1>2, DirStep
  <2>2. pull[p].manifest = d
    BY <2>1 DEF SameImage, Mark, At
  <2> QED
    BY <2>1, <2>2, MarkIsWhole DEF Whole
<1> QED
  BY <1>1, <1>2

\* What holds then.
Steady == CacheInv /\ SameImage /\ CompleteIsWhole

\* Both resolutions agree, and a marked directory holds the image it is named for.
LEMMA SteadyInvariant ==
    ASSUME "tagRaces" \notin Faults, "statFails" \notin Faults
    PROVE  Spec => []Steady
<1>1. Init => SameImage /\ CompleteIsWhole
  BY DEF Init, SameImage, Resolving, CompleteIsWhole, IdlePull
<1>2. CacheInv /\ SameImage /\ CompleteIsWhole /\ [Next]_vars => (SameImage /\ CompleteIsWhole)'
  BY SameImageStep, IsWholeStep DEF CacheInv, LockInv
<1> QED
  BY <1>1, <1>2, CacheInvariant, PTL DEF Spec, Steady

\* If no tag moves while a call is between its two resolutions, the marked
\* directory of a digest holds that image (PullIntoCache).
THEOREM MarkedIsWhole ==
    ASSUME "tagRaces" \notin Faults, "statFails" \notin Faults
    PROVE  Spec => []CompleteIsWhole
<1>1. Steady => CompleteIsWhole
  BY DEF Steady
<1> QED
  BY <1>1, SteadyInvariant, PTL

-----------------------------------------------------------------------------
(* PullIntoCache keeps the promise of ImageStore.                          *)

\* The images stored change only when a call writes the marker.
LEMMA StoredStep ==
    ASSUME Steady, Steady', [Next]_vars
    PROVE  \/ StoredImages' = StoredImages
           \/ \E p \in Puller : Mark(p) /\ StoredImages' = StoredImages \union {Dir(p)}
<1> USE DEF Steady, CacheInv, LockInv
<1>1. StoredImages = {d \in Manifest : complete[d]} /\ StoredImages' = {d \in Manifest : complete'[d]}
  BY DEF StoredImages, CompleteIsWhole
<1>2. ASSUME NEW p \in Puller, Mark(p)
      PROVE  StoredImages' = StoredImages \union {Dir(p)}
  <2>1. Dir(p) \in Manifest /\ complete' = [complete EXCEPT ![Dir(p)] = TRUE]
    BY <1>2 DEF Mark, At, Resolved
  <2> QED
    BY <1>1, <2>1 DEF TypeOK
<1>3. ASSUME \A p \in Puller : ~Mark(p)
      PROVE  StoredImages' = StoredImages
  <2>1. \A d \in Manifest : complete'[d] = complete[d]
    BY <1>3, DirStep
  <2> QED
    BY <1>1, <2>1
<1> QED
  BY <1>2, <1>3

\* A call that does not begin, return or end looks the same to its caller.
LEMMA ClientStays ==
    ASSUME TypeOK, NEW p \in Puller,
           TakeLock(p) \/ Check(p) \/ FetchManifest(p) \/ FetchBlob(p) \/ CopyBlob(p) \/ Mark(p)
    PROVE  Clients' = Clients
<1>1. Steps(p)
  BY DEF Steps, Work
<1>2. ClientState(pull[p].pc) = "asked"
  BY DEF TakeLock, Check, FetchManifest, FetchBlob, CopyBlob, Mark, At, ClientState
<1>3. pull'[p].digest = pull[p].digest /\ pull'[p].pc \in Pc \ {"idle", "using"}
  BY CallAfter DEF After, Pc, Locked, Writing
<1>4. ClientState(pull'[p].pc) = "asked"
  BY <1>3 DEF ClientState
<1> QED
  BY <1>1, <1>2, <1>3, <1>4, OthersStay DEF Clients

\* The caller's view after a step of p that gives it state s and digest d.
LEMMA ClientChanges ==
    ASSUME TypeOK, NEW p \in Puller, Steps(p), NEW s, NEW d,
           ClientState(pull'[p].pc) = s, pull'[p].digest = d
    PROVE  Clients' = [Clients EXCEPT ![p] = [state |-> s, want |-> d]]
BY OthersStay DEF Clients

\* Every step is one of the store's, or invisible.
LEMMA StoreStep ==
    ASSUME Steady, Steady', [Next]_vars
    PROVE  [Promise!Next]_<<StoredImages, Clients>>
<1> USE DEF Steady, CacheInv, LockInv
<1>1. ASSUME NEW p \in Puller, NEW r \in Ref, Resolve(p, r) PROVE Promise!Ask(p, tag[r])
  <2>1. Clients[p].state = "idle"
    BY <1>1 DEF Resolve, At, Clients, ClientState
  <2>2. Clients' = [Clients EXCEPT ![p] = [state |-> "asked", want |-> tag[r]]]
    BY <1>1, CallAfter, ClientChanges DEF Begun, Steps, ClientState
  <2>3. StoredImages' = StoredImages
    BY <1>1 DEF Resolve, StoredImages, Whole
  <2> QED
    BY <2>1, <2>2, <2>3 DEF Promise!Ask
<1>2. ASSUME NEW p \in Puller, TakeLock(p) \/ Check(p) \/ FetchManifest(p) \/ FetchBlob(p) \/ CopyBlob(p)
      PROVE  UNCHANGED <<StoredImages, Clients>>
  <2>1. \A q \in Puller : ~Mark(q)
    <3>1. complete' = complete
      BY <1>2 DEF TakeLock, Check, FetchManifest, FetchBlob, CopyBlob
    <3>2. ASSUME NEW q \in Puller, Mark(q) PROVE FALSE
      <4>1. ~complete[Dir(q)] /\ Dir(q) \in Manifest
        BY <3>2 DEF Mark, At, Markers, Writing, Resolved
      <4> QED
        BY <3>1, <3>2, <4>1 DEF Mark, TypeOK
    <3> QED
      BY <3>2
  <2> QED
    BY <1>2, <2>1, StoredStep, ClientStays
<1>3. ASSUME NEW p \in Puller, Mark(p) PROVE Promise!Store(p)
  <2>1. Clients[p] = [state |-> "asked", want |-> Dir(p)]
    BY <1>3 DEF Mark, At, Clients, ClientState, Dir
  <2>2. Clients' = Clients
    BY <1>3, ClientStays
  <2>3. StoredImages' = StoredImages \union {Dir(p)}
    <3>1. Dir(p) \in Manifest /\ complete' = [complete EXCEPT ![Dir(p)] = TRUE] /\ dir' = dir
      BY <1>3 DEF Mark, At, Resolved
    <3> QED
      BY <3>1 DEF StoredImages, CompleteIsWhole, TypeOK
  <2> QED
    BY <2>1, <2>2, <2>3 DEF Promise!Store
<1>4. ASSUME NEW p \in Puller, Return(p) PROVE Promise!Get(p)
  <2>1. Clients[p] = [state |-> "asked", want |-> Dir(p)]
    BY <1>4 DEF Return, At, Clients, ClientState, Dir
  <2>2. Clients' = [Clients EXCEPT ![p] = [state |-> "got", want |-> Dir(p)]]
    BY <1>4, CallAfter, ClientChanges DEF After, Steps, Work, ClientState, Dir
  <2>3. Dir(p) \in StoredImages
    BY <1>4 DEF Return, At, Markers, Resolved, CompleteIsWhole, StoredImages
  <2>4. StoredImages' = StoredImages
    BY <1>4 DEF Return, StoredImages, Whole
  <2>5. Clients' = [Clients EXCEPT ![p].state = "got"]
    BY <2>1, <2>2 DEF Clients
  <2> QED
    BY <2>1, <2>3, <2>4, <2>5 DEF Promise!Get
<1>5. ASSUME NEW p \in Puller, Fails(p) \/ Crash(p) \/ Finish(p) PROVE Promise!Leave(p)
  <2>1. Clients[p].state # "idle"
    BY <1>5 DEF Fails, Crash, Finish, At, Writing, Clients, ClientState
  <2>2. pull'[p].pc = "idle" /\ pull'[p].digest = None
    BY <1>5 DEF Fails, Crash, Finish, IdlePull, TypeOK
  <2>3. Clients' = [Clients EXCEPT ![p] = [state |-> "idle", want |-> None]]
    BY <1>5, <2>2, ClientChanges DEF Steps, ClientState
  <2>4. StoredImages' = StoredImages
    BY <1>5 DEF Fails, Crash, Finish, StoredImages, Whole
  <2> QED
    BY <2>1, <2>3, <2>4 DEF Promise!Leave, Promise!Idle
<1>6. CASE (\E r \in Ref, m \in Manifest : MoveTag(r, m)) \/ UNCHANGED vars
  BY <1>6 DEF MoveTag, vars, StoredImages, Clients, Whole
<1>7. \A r \in Ref : tag[r] \in Manifest
  BY DEF TypeOK
<1> QED
  BY <1>1, <1>2, <1>3, <1>4, <1>5, <1>6, <1>7, StepKinds DEF Steps, Work, Promise!Next

\* If no tag moves while a call is between its two resolutions, every call is
\* given the whole of the image it resolved, however calls overlap, fail and die.
THEOREM CacheImplementsStore ==
    ASSUME "tagRaces" \notin Faults, "statFails" \notin Faults
    PROVE  Spec => KeepsPromise
<1>1. Init => Promise!Init
  BY DEF Init, Promise!Init, Promise!Idle, StoredImages, Clients, IdlePull, ClientState
<1>2. Steady /\ Steady' /\ [Next]_vars => [Promise!Next]_<<StoredImages, Clients>>
  BY StoreStep
<1> QED
  BY <1>1, <1>2, SteadyInvariant, PTL DEF Spec, KeepsPromise, Promise!Spec
=============================================================================
