--------------------------- MODULE GstShmdataSink ---------------------------
(***************************************************************************)
(* The GStreamer sink element, composed with the Writer, its segments and  *)
(* the readers of WriterShm.  The sink has one write access open at all    *)
(* times but during the end of render: its allocator gives upstream the    *)
(* shared memory itself, resizing it when it is too small, and render      *)
(* announces what is there, or copies a buffer that comes from elsewhere.  *)
(*                                                                         *)
(* Allocation, caps and render are called by one streaming thread.  A      *)
(* buffer that upstream has when the writer is stopped or made again       *)
(* points into a segment that is gone, and was not made by the allocator   *)
(* of the next writer.  What a piece of memory holds is the number of the  *)
(* frame that was written last.                                            *)
(***************************************************************************)
EXTENDS WriterShm

CONSTANTS
  MaxFrames,   \* bound: frames ever made upstream
  MaxBufs,     \* bound: buffers upstream has at a time
  ShmMax,      \* shmdata_get_shmmax
  Orderly      \* TRUE: upstream has one buffer at a time and pushes it whole, does
               \* not keep back one that the segment was resized for, neither
               \* writes to nor pushes memory of a segment that is gone, and
               \* initial-shm-size is set while there is no writer

ASSUME SinkBoundsAssumption == MaxFrames \in Nat /\ MaxBufs \in Nat
ASSUME ShmMaxAssumption == ShmMax \in Nat
ASSUME OrderlyAssumption == Orderly \in BOOLEAN

VARIABLES
  open,    \* shmwriter is not NULL
  size,    \* self->size
  kpc,     \* "idle", "alloc", "copy", "render"
  bufs,    \* upstream's buffers
  cur,     \* the buffer being allocated or rendered
  store,   \* the frame each segment holds
  sent,    \* the frame given to render last
  frame    \* frames made

sinkVars == <<open, size, kpc, bufs, cur, store, sent, frame>>
allVars == <<vars, sinkVars>>

\* own: a single memory, of self->allocator.  seg: the segment it points into, 0 if
\* to none.  tag: the frame, 0 if not filled.
Buffers ==
  [own : BOOLEAN, seg : Segs \cup {0}, size : Sizes, tag : 0..MaxFrames]

SinkTypeOK ==
  /\ open \in BOOLEAN /\ size \in Sizes
  /\ kpc \in {"idle", "alloc", "copy", "render"}
  /\ bufs \subseteq Buffers /\ cur \in Buffers
  /\ store \in [Segs -> 0..MaxFrames]
  /\ sent \in 0..MaxFrames /\ frame \in 0..MaxFrames
  /\ made \in 0..MaxSegs /\ seg \in 0..made /\ mem \in 0..made
  /\ len \in [Segs -> SizesOrZero]

SinkInit ==
  /\ seg = 0 /\ made = 0 /\ len = [s \in Segs |-> 0]
  /\ wpc = "open" /\ op = "access" /\ mem = 0 /\ remade = FALSE
  /\ open = FALSE /\ kpc = "idle" /\ bufs = {}
  /\ size \in Sizes /\ want = size /\ alloc = size /\ objSize = size
  /\ cur = [own |-> FALSE, seg |-> 0, size |-> size, tag |-> 0]
  /\ store = [s \in Segs |-> 0] /\ sent = 0 /\ frame = 0
  /\ rpc = [r \in Readers |-> "off"] /\ rseg = [r \in Readers |-> 0]
  /\ rsize = [r \in Readers |-> 0] /\ msg = [r \in Readers |-> 0]

-----------------------------------------------------------------------------
(* The life of the writer.                                                 *)

SetInitialSize(n) ==
  /\ Orderly => ~open
  /\ size' = n
  /\ UNCHANGED <<vars, open, kpc, bufs, cur, store, sent, frame>>

\* shmdata_delete_writer: the segment is removed and every reader sent away.  The
\* access stays, with a pointer into the segment.
DeleteWriter ==
  /\ open' = FALSE
  /\ seg' = 0
  /\ rpc' = [r \in Readers |-> "off"]
  /\ rseg' = [r \in Readers |-> 0] /\ rsize' = rseg' /\ msg' = rseg'
  /\ UNCHANGED <<made, len, wpc, op, want, mem, remade, alloc, objSize>>

\* Mutant: the allocator outlives its writer.
SameAllocator(bs) == bs

\* self->allocator is another one now, or NULL.
Disown(bs) == {[b EXCEPT !.own = FALSE] : b \in bs}

\* stop, when the sink pad is inactive.  Nothing asks what upstream still has.
Stop ==
  /\ kpc = "idle"
  /\ DeleteWriter
  /\ bufs' = Disown(bufs)
  /\ UNCHANGED <<size, kpc, cur, store, sent, frame>>

\* on_caps: the writer is made, again if there is one, with the current size, and
\* the first access taken; its allocator is new.
OnCaps ==
  /\ kpc = "idle" /\ made < MaxSegs /\ size <= ShmMax
  /\ made' = made + 1 /\ seg' = made' /\ mem' = made'
  /\ len' = [len EXCEPT ![made'] = size]
  /\ alloc' = size /\ objSize' = size /\ remade' = FALSE
  /\ wpc' = "open" /\ op' = "access"
  /\ rpc' = [r \in Readers |-> "off"]
  /\ rseg' = [r \in Readers |-> 0] /\ rsize' = rseg' /\ msg' = rseg'
  /\ open' = TRUE /\ bufs' = Disown(bufs)
  /\ UNCHANGED <<want, size, kpc, cur, store, sent, frame>>

\* on_caps when shmdata_make_writer returns NULL: the old allocator stays.
OnCapsFails ==
  /\ kpc = "idle"
  /\ DeleteWriter
  /\ UNCHANGED <<size, kpc, bufs, cur, store, sent, frame>>

-----------------------------------------------------------------------------
(* The allocator.                                                          *)

\* Mutant: self->size keeps its old value.
SizeForgotten(n) == size

SizeAfter(n) == IF size < n THEN n ELSE size

\* allocator_alloc, up to shmdata_get_mem.
AllocBegin(n) ==
  /\ IF size < n THEN ShmResize(n) ELSE UNCHANGED vars
  /\ size' = SizeAfter(n)

\* Its middle: shm_resize makes the new segment.
ResizeShm == CreateSegment /\ UNCHANGED sinkVars

Room == Cardinality(bufs) < (IF Orderly THEN 1 ELSE MaxBufs)

\* Upstream asks an allocator it was given for n bytes, without prefix and padding:
\* the present one, for one memory of a buffer (own), or for one of several, or one
\* of an earlier caps, which uses self->access all the same.  A resize through the
\* access of a deleted Writer is not followed.
Alloc(n, own) ==
  /\ made > 0 /\ kpc = "idle" /\ Room
  /\ IF open THEN CanFail \/ n <= ShmMax ELSE ~own /\ n <= size
  /\ AllocBegin(n)
  /\ kpc' = "alloc"
  /\ cur' = [own |-> own, seg |-> mem, size |-> n, tag |-> 0]
  /\ UNCHANGED <<open, bufs, store, sent, frame>>

\* Mutant: the pointer from before the resize.
OldMem == cur.seg

GetMem == mem

\* Without shared memory the standard allocator is used.
AllocReturn ==
  /\ kpc = "alloc" /\ wpc = "open"
  /\ bufs' = bufs \cup {[cur EXCEPT !.seg = GetMem, !.own = @ /\ GetMem # 0]}
  /\ kpc' = "idle"
  /\ UNCHANGED <<vars, open, size, cur, store, sent, frame>>

\* b points to nothing, or into the segment that is there.
Mapped(b) == b.seg \in {0, seg}

\* Upstream writes a frame to a buffer of an allocator.  Where a segment was and is
\* no more, there may be the present one.
Fill(b) ==
  /\ b \in bufs /\ b.tag = 0 /\ (Orderly => Mapped(b))
  /\ kpc = "idle" /\ frame < MaxFrames
  /\ frame' = frame + 1
  /\ bufs' = (bufs \ {b}) \cup {[b EXCEPT !.tag = frame']}
  /\ \E s \in IF Mapped(b) THEN {b.seg} ELSE {b.seg, seg} :
       store' = [t \in Segs |-> IF t = s THEN frame' ELSE store[t]]
  /\ UNCHANGED <<vars, open, size, kpc, cur, sent>>

\* Upstream lets go of a buffer.
Drop(b) ==
  /\ b \in bufs /\ kpc = "idle"
  /\ Orderly => ~(open /\ remade /\ b.seg = seg)
  /\ bufs' = bufs \ {b}
  /\ UNCHANGED <<vars, open, size, kpc, cur, store, sent, frame>>

\* Upstream has a frame in memory from elsewhere.
Foreign(n) ==
  /\ open /\ kpc = "idle" /\ Room /\ frame < MaxFrames
  /\ frame' = frame + 1
  /\ bufs' = bufs \cup {[own |-> FALSE, seg |-> 0, size |-> n, tag |-> frame']}
  /\ UNCHANGED <<vars, open, size, kpc, cur, store, sent>>

-----------------------------------------------------------------------------
(* render.                                                                 *)

\* Mutant: every buffer is taken for one of the allocator.
AnyMemoryWillDo(b) == FALSE

NeedNewMemory(b) == ~b.own

\* A buffer of the allocator: its n bytes are announced.
RenderOwn(b, n) ==
  /\ b \in bufs /\ b.tag # 0 /\ ~NeedNewMemory(b)
  /\ open /\ kpc = "idle"
  /\ n <= b.size /\ (Orderly => n = b.size)
  /\ Notify(n)
  /\ kpc' = "render" /\ bufs' = bufs \ {b} /\ cur' = b /\ sent' = b.tag
  /\ UNCHANGED <<open, size, store, frame>>

\* Another buffer: it is refused if no segment can hold it,
RenderRefused(b) ==
  /\ b \in bufs /\ b.tag # 0 /\ NeedNewMemory(b)
  /\ open /\ kpc = "idle" /\ b.size > ShmMax
  /\ bufs' = bufs \ {b}
  /\ UNCHANGED <<vars, open, size, kpc, cur, store, sent, frame>>

\* else memory is allocated for it,
RenderOther(b) ==
  /\ b \in bufs /\ b.tag # 0 /\ NeedNewMemory(b) /\ (Orderly => Mapped(b))
  /\ open /\ kpc = "idle" /\ b.size <= ShmMax
  /\ AllocBegin(b.size)
  /\ kpc' = "copy" /\ bufs' = bufs \ {b} /\ cur' = b
  /\ UNCHANGED <<open, store, sent, frame>>

\* What is in the buffer when it is copied.
Content(b) ==
  IF b.seg = 0 THEN {b.tag} ELSE IF b.seg = mem THEN {store[mem]} ELSE 0..MaxFrames

\* it is copied there, or to standard memory if there is none, and announced.
RenderCopy ==
  /\ kpc = "copy"
  /\ Notify(cur.size)
  /\ \E c \in Content(cur) :
       store' = [t \in Segs |-> IF t = mem THEN c ELSE store[t]]
  /\ sent' = cur.tag
  /\ kpc' = "render"
  /\ UNCHANGED <<open, size, bufs, cur, frame>>

\* Mutant: the access is not released.
RenderKeepsAccess == FALSE /\ UNCHANGED allVars

RenderRelease ==
  /\ kpc = "render" /\ wpc = "notified"
  /\ Release
  /\ UNCHANGED sinkVars

\* get_one_write_access waits for the readers.
RenderReturn ==
  /\ kpc = "render"
  /\ AccessBegin
  /\ kpc' = "idle"
  /\ UNCHANGED <<open, size, bufs, cur, store, sent, frame>>

-----------------------------------------------------------------------------
\* A reader's step; without a writer there is nothing to attach or to join.
ReaderNext(r) ==
  /\ Attach(r) \/ Join(r) \/ Update(r) \/ Callback(r) \/ CallbackEnd(r) \/ Leave(r)
  /\ UNCHANGED sinkVars

SinkNext ==
  \/ Stop \/ OnCaps \/ OnCapsFails \/ ResizeShm \/ AllocReturn
  \/ RenderCopy \/ RenderRelease \/ RenderReturn
  \/ \E n \in Sizes :
       SetInitialSize(n) \/ Foreign(n) \/ \E own \in BOOLEAN : Alloc(n, own)
  \/ \E b \in bufs :
       \/ Fill(b) \/ Drop(b) \/ RenderRefused(b) \/ RenderOther(b)
       \/ \E n \in Sizes : RenderOwn(b, n)
  \/ \E r \in Readers : ReaderNext(r)

SinkSpec == SinkInit /\ [][SinkNext]_allVars

\* The streaming thread and the readers' socket threads go on, callbacks end.
SinkFairness ==
  /\ WF_allVars(ResizeShm \/ RenderCopy \/ RenderRelease \/ RenderReturn)
  /\ \A r \in Readers :
       WF_allVars((Update(r) \/ Callback(r) \/ CallbackEnd(r)) /\ UNCHANGED sinkVars)

SinkFairSpec == SinkSpec /\ SinkFairness

-----------------------------------------------------------------------------
(* Properties.                                                             *)

\* self->size, which decides about a resize and is the size of the next writer,
\* is that of the segment the access is open on.
SizeIsReal ==
  /\ SinkTypeOK
  /\ open /\ wpc = "open" => seg # 0 /\ size = len[seg] /\ alloc = size

\* A callback is given the frame that render was, whether upstream wrote it to
\* the shared memory or render copied it, and across resizes and new writers.
SentIsFrame ==
  \A r \in Readers : rpc[r] = "cb" =>
    /\ rseg[r] = seg /\ store[seg] = sent
    /\ msg[r] = cur.size /\ msg[r] <= len[seg]

\* What render would announce without copying it, because it takes it for memory of
\* its writer, is in the writer's present segment, whole: memory from before a stop
\* or new caps is never announced in place of the segment's.
OwnIsCurrent ==
  open => \A b \in bufs : b.own => b.seg = seg /\ seg # 0 /\ b.size <= len[seg]

\* The writer of a sink whose resizes only grow and end in a frame of that size.
Grown == INSTANCE WriterShm WITH Growing <- TRUE

\* What the sink does to its writer between making and deleting it is what
\* WriterShm calls Growing: allocator_alloc resizes to a greater size only, and
\* what is rendered next has that size.
GrowsOnly == [][Stop \/ OnCaps \/ OnCapsFails \/ Grown!Next]_vars

\* render returns: it waits for the readers with the access released.
RenderReturns == kpc = "render" ~> kpc = "idle"
=============================================================================
