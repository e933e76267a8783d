----------------------------- MODULE WriterShm -----------------------------
(***************************************************************************)
(* The shared memory segments of a Writer: its five ways to write a frame, *)
(* four of which may replace the segment by another one of another size,   *)
(* and the readers that attach the segment of the path when they connect   *)
(* and attach it again when an update announces a frame of another size    *)
(* than the last.  A reader attached to a replaced segment keeps it.       *)
(*                                                                         *)
(* The lock is the one that SysVSem implements (FrameExchange): an access  *)
(* begins when every reader has read the last frame, and callbacks run     *)
(* when no access is open.  Segments are numbered; sizes are small.        *)
(***************************************************************************)
EXTENDS Naturals, FiniteSets

CONSTANTS
  Readers,    \* the Reader objects
  Sizes,      \* sizes of frames and of segments
  MaxSegs,    \* bound: segments ever made
  CanFail,    \* TRUE: shmget may fail
  Growing     \* TRUE: an access resizes only to a greater size, is written to, and
              \* announces a frame of that size

ASSUME SizesAssumption == Sizes \subseteq Nat \ {0}
ASSUME MaxSegsAssumption == MaxSegs \in Nat \ {0}
ASSUME CanFailAssumption == CanFail \in BOOLEAN
ASSUME GrowingAssumption == Growing \in BOOLEAN

VARIABLES
  seg,      \* the segment of the path, 0 while there is none
  made,     \* number of segments made
  len,      \* size of each segment
  wpc,      \* the writing thread: "idle", "resize" (the old segment is gone),
            \* "open", "notified"
  op,       \* "copy" for copy_to_shm, "access" for a OneWriteAccess
  want,     \* the size copied or resized to
  mem,      \* the segment the writer writes to, 0 for an invalid pointer
  remade,   \* this access made a segment
  alloc,    \* connect_data_.shm_size_ and alloc_size_
  objSize,  \* shm_->get_size()
  rpc,      \* the readers: "off", "joining", "idle", "told", "lock", "cb"
  rseg,     \* the segment each is attached to
  rsize,    \* Reader::cur_size_
  msg       \* the size in the update being handled

segVars == <<seg, made, len>>
writerVars == <<wpc, op, want, mem, remade, alloc, objSize>>
readerVars == <<rpc, rseg, rsize, msg>>
vars == <<segVars, writerVars, readerVars>>

Segs == 1..MaxSegs
SizesOrZero == Sizes \cup {0}

TypeOK ==
  /\ seg \in Segs \cup {0} /\ made \in Segs
  /\ len \in [Segs -> SizesOrZero]
  /\ wpc \in {"idle", "resize", "open", "notified"}
  /\ op \in {"copy", "access"}
  /\ want \in Sizes /\ mem \in Segs \cup {0} /\ remade \in BOOLEAN
  /\ alloc \in Sizes /\ objSize \in Sizes
  /\ rpc \in [Readers -> {"off", "joining", "idle", "told", "lock", "cb"}]
  /\ rseg \in [Readers -> Segs \cup {0}]
  /\ rsize \in [Readers -> SizesOrZero]
  /\ msg \in [Readers -> SizesOrZero]

\* Writer::Writer made the first segment.
Init ==
  /\ seg = 1 /\ made = 1
  /\ \E n \in Sizes :
       /\ len = [s \in Segs |-> IF s = 1 THEN n ELSE 0]
       /\ want = n /\ alloc = n /\ objSize = n
  /\ wpc = "idle" /\ op = "copy" /\ mem = 1 /\ remade = FALSE
  /\ rpc = [r \in Readers |-> "off"]
  /\ rseg = [r \in Readers |-> 0]
  /\ rsize = [r \in Readers |-> 0]
  /\ msg = [r \in Readers |-> 0]

-----------------------------------------------------------------------------
(* The writer.                                                             *)

\* WriteLock::WriteLock returns.
Locked ==
  /\ wpc = "idle"
  /\ \A r \in Readers : rpc[r] \notin {"told", "lock", "cb"}

\* The access writes to the segment that is there.
KeepSegment ==
  /\ wpc' = "open" /\ mem' = seg /\ remade' = FALSE
  /\ UNCHANGED segVars

\* shm_.reset(): the old segment is detached and removed.
DropSegment ==
  /\ wpc' = "resize" /\ seg' = 0 /\ mem' = 0 /\ remade' = TRUE
  /\ UNCHANGED <<made, len>>

Fits(n) == n <= alloc

\* copy_to_shm up to the new segment.
CopyBegin(n) ==
  /\ Locked
  /\ op' = "copy" /\ want' = n
  /\ IF Fits(n) THEN KeepSegment ELSE DropSegment
  /\ UNCHANGED <<alloc, objSize, readerVars>>

\* get_one_write_access and get_one_write_access_ptr.
AccessBegin ==
  /\ Locked
  /\ op' = "access"
  /\ KeepSegment
  /\ UNCHANGED <<want, alloc, objSize, readerVars>>

Allowed(n) == Growing => n > alloc

\* get_one_write_access_resize: a segment of another size is replaced.
AccessResize(n) ==
  /\ Locked
  /\ Growing => n >= objSize
  /\ op' = "access" /\ want' = n
  /\ \/ objSize # n /\ DropSegment /\ UNCHANGED alloc
     \/ objSize = n /\ KeepSegment /\ alloc' = n
  /\ UNCHANGED <<objSize, readerVars>>

\* get_one_write_access_ptr_resize: it is replaced whatever its size.
AccessPtrResize(n) ==
  /\ Locked /\ Allowed(n)
  /\ op' = "access" /\ want' = n
  /\ DropSegment
  /\ UNCHANGED <<alloc, objSize, readerVars>>

\* OneWriteAccess::shm_resize in an open access.
ShmResize(n) ==
  /\ wpc = "open" /\ op = "access" /\ Allowed(n)
  /\ want' = n
  /\ DropSegment
  /\ UNCHANGED <<op, alloc, objSize, readerVars>>

\* shm_.reset(new sysVShm(...)); shmget may fail, and nobody notices: if (!shm_)
\* tests the pointer that has just been set.
CreateSegment ==
  /\ wpc = "resize"
  /\ wpc' = "open"
  /\ \/ /\ made < MaxSegs
        /\ made' = made + 1 /\ seg' = made' /\ mem' = made'
        /\ len' = [len EXCEPT ![made'] = want]
     \/ /\ CanFail
        /\ UNCHANGED <<segVars, mem>>
  /\ alloc' = want /\ objSize' = want
  /\ UNCHANGED <<op, want, remade, readerVars>>

\* notify_update(n), once per access: every client is told.
Notify(n) ==
  /\ wpc = "open"
  /\ IF op = "copy" THEN n = want ELSE n <= alloc
  /\ Growing /\ remade => n = alloc
  /\ wpc' = "notified"
  /\ rpc' = [r \in Readers |-> IF rpc[r] = "idle" THEN "told" ELSE rpc[r]]
  /\ msg' = [r \in Readers |-> IF rpc[r] = "idle" THEN n ELSE msg[r]]
  /\ UNCHANGED <<segVars, op, want, mem, remade, alloc, objSize, rseg, rsize>>

\* The frame is written and the lock released.  A OneWriteAccess may be released
\* without notification, and without having been written to: only writing shows
\* that there is no memory, by ending the process.
Release ==
  /\ \/ wpc = "notified"
     \/ wpc = "open" /\ op = "access" /\ (Growing => ~remade)
  /\ mem = 0 => op = "access" /\ ~Growing
  /\ wpc' = "idle"
  /\ UNCHANGED <<segVars, op, want, mem, remade, alloc, objSize, readerVars>>

-----------------------------------------------------------------------------
(* A reader.                                                               *)

\* Reader::Reader attaches the segment of the path; without one it fails.
Attach(r) ==
  /\ rpc[r] = "off" /\ seg # 0
  /\ rpc' = [rpc EXCEPT ![r] = "joining"]
  /\ rseg' = [rseg EXCEPT ![r] = seg]
  /\ rsize' = [rsize EXCEPT ![r] = 0]
  /\ UNCHANGED <<segVars, writerVars, msg>>

\* The server has its acknowledgement, outside of a notification.
Join(r) ==
  /\ rpc[r] = "joining"
  /\ rpc' = [rpc EXCEPT ![r] = "idle"]
  /\ UNCHANGED <<segVars, writerVars, rseg, rsize, msg>>

\* Mutant: the segment is attached once.
AttachOnce(r) == rsize[r] = 0

\* size != cur_size_: a resize has been done.
MustAttach(r) == msg[r] # rsize[r]

\* The update callback of the Reader, before the lock.
Update(r) ==
  /\ rpc[r] = "told"
  /\ rpc' = [rpc EXCEPT ![r] = "lock"]
  /\ rseg' = IF MustAttach(r) THEN [rseg EXCEPT ![r] = seg] ELSE rseg
  /\ rsize' = [rsize EXCEPT ![r] = msg[r]]
  /\ UNCHANGED <<segVars, writerVars, msg>>

\* ReadLock::ReadLock returns.
Callback(r) ==
  /\ rpc[r] = "lock" /\ wpc = "idle"
  /\ rpc' = [rpc EXCEPT ![r] = "cb"]
  /\ UNCHANGED <<segVars, writerVars, rseg, rsize, msg>>

CallbackEnd(r) ==
  /\ rpc[r] = "cb"
  /\ rpc' = [rpc EXCEPT ![r] = "idle"]
  /\ msg' = [msg EXCEPT ![r] = 0]
  /\ UNCHANGED <<segVars, writerVars, rseg, rsize>>

Leave(r) ==
  /\ rpc[r] \in {"joining", "idle"}
  /\ rpc' = [rpc EXCEPT ![r] = "off"]
  /\ rseg' = [rseg EXCEPT ![r] = 0]
  /\ rsize' = [rsize EXCEPT ![r] = 0]
  /\ UNCHANGED <<segVars, writerVars, msg>>

-----------------------------------------------------------------------------
Next ==
  \/ AccessBegin \/ CreateSegment \/ Release
  \/ \E n \in Sizes :
       \/ CopyBegin(n) \/ AccessResize(n) \/ AccessPtrResize(n) \/ ShmResize(n)
       \/ Notify(n)
  \/ \E r \in Readers :
       Attach(r) \/ Join(r) \/ Update(r) \/ Callback(r) \/ CallbackEnd(r) \/ Leave(r)

Spec == Init /\ [][Next]_vars

-----------------------------------------------------------------------------
(* Properties.                                                             *)

\* A callback reads the segment the writer wrote its frame to, and the frame lies
\* within it, although the reader looks for a new segment only when the size of
\* the frame changes.
ReadsWritersSegment ==
  /\ TypeOK
  /\ \A r \in Readers :
       rpc[r] = "cb" => rseg[r] = seg /\ seg # 0 /\ msg[r] <= len[seg]

\* Between two writes, the size that Writer::alloc_size() returns and that
\* decides about the next resize is that of the segment of the path.
AllocIsReal == wpc = "idle" => seg # 0 /\ alloc = len[seg] /\ objSize = alloc

\* A callback reads within the segment its Reader is attached to, also when that
\* is an old one because the sizes of two frames were equal.
ReadsWithinSegment ==
  \A r \in Readers : rpc[r] = "cb" => rseg[r] # 0 /\ msg[r] <= len[rseg[r]]

\* An access writes, and is published when it is released.
Exchange == INSTANCE FrameExchange WITH
  writing <- wpc # "idle",
  pending <- IF wpc = "idle" THEN {r \in Readers : rpc[r] \in {"told", "lock"}} ELSE {},
  reading <- {r \in Readers : rpc[r] = "cb"}

\* The five ways to write are uses of the lock that SysVSem implements.
UsesExchange == Exchange!Spec
=============================================================================
