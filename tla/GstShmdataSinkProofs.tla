----------------------- MODULE GstShmdataSinkProofs ------------------------
(***************************************************************************)
(* Proofs about GstShmdataSink, for any set of readers, any sizes and any  *)
(* number of segments and frames.  They are about an upstream that is      *)
(* orderly and a shmget that does not fail: without, render announces what *)
(* is not there.  That resizes only grow is no assumption here, but what   *)
(* the sink does, and what upstream still has when the writer is stopped   *)
(* or made again is not assumed to be nothing.                             *)
(***************************************************************************)
EXTENDS GstShmdataSink, FiniteSetTheorems, TLAPS

USE SizesAssumption, MaxSegsAssumption, CanFailAssumption, GrowingAssumption,
    SinkBoundsAssumption, ShmMaxAssumption, OrderlyAssumption

-----------------------------------------------------------------------------
(* The inductive invariant.                                                *)

\* The types of what the sink shares with its writer and with the readers.
SharedTypeOK ==
  /\ wpc \in {"idle", "resize", "open", "notified"} /\ op = "access"
  /\ want \in Sizes /\ alloc \in Sizes /\ remade \in BOOLEAN
  /\ rpc \in [Readers -> {"off", "joining", "idle", "told", "lock", "cb"}]
  /\ rseg \in [Readers -> Segs \cup {0}]
  /\ rsize \in [Readers -> SizesOrZero]
  /\ msg \in [Readers -> SizesOrZero]

\* Where the access is when the streaming thread is somewhere.  Without a writer it
\* may be allocating, and nothing else.
InStep ==
  /\ kpc = "idle" => wpc = "open"
  /\ kpc \in {"alloc", "copy"} => wpc \in {"open", "resize"} /\ (open => cur.size <= size)
  /\ kpc = "alloc" => cur.tag = 0 /\ (cur.own => open)
  /\ kpc = "copy" => open
  /\ kpc = "render" => open /\ wpc \in {"notified", "idle"} /\ cur.size <= alloc

\* What the sink and the writer know of the segment is true, but in the middle of
\* a resize, which is always to a greater size.
SegmentKnown ==
  /\ open => mem = seg /\ size <= ShmMax
  /\ ~open => seg = 0
  /\ wpc = "resize" => open /\ seg = 0 /\ want = size /\ alloc < size
  /\ open /\ wpc # "resize" => alloc = size /\ seg # 0 /\ len[seg] = size

\* Upstream has one buffer at most, and none during a call of the sink.  If it is in
\* the segment, it fits, and the segment has its frame; if it is of self->allocator,
\* it is in the segment.
OneBuffer ==
  /\ kpc # "idle" => bufs = {}
  /\ bufs = {} \/ \E b \in bufs : bufs = {b}
  /\ \A b \in bufs :
       /\ b.seg <= made
       /\ open /\ b.own => b.seg = seg
       /\ open /\ b.seg = seg => b.size <= size /\ (b.tag # 0 => store[seg] = b.tag)

\* A new segment is announced with a frame of its size.
NewSegment ==
  /\ kpc \in {"alloc", "copy"} /\ open /\ (remade \/ wpc = "resize") =>
       cur.size = size /\ remade
  /\ kpc = "idle" /\ open /\ remade =>
       \E b \in bufs : bufs = {b} /\ b.seg = seg /\ b.size = size

\* What is copied is the frame, also from the segment to itself; what is announced
\* is in the segment.
Rendered ==
  /\ kpc = "copy" /\ cur.seg # 0 => cur.seg = seg /\ store[seg] = cur.tag
  /\ kpc = "render" => store[seg] = sent

Busy(r) == rpc[r] \in {"told", "lock", "cb"}

\* Readers handle an update during render only, and have the writer's segment
\* once they have compared sizes.
SinkReaders ==
  \A r \in Readers :
    /\ rpc[r] # "off" => open /\ rsize[r] <= alloc
    /\ rpc[r] = "joining" => rsize[r] = 0
    /\ rpc[r] = "cb" => wpc = "idle"
    /\ Busy(r) => kpc = "render" /\ msg[r] = cur.size
    /\ rpc[r] \in {"lock", "cb"} => rseg[r] = seg
    /\ rpc[r] = "told" /\ rseg[r] # seg => msg[r] # rsize[r]
    /\ rpc[r] \in {"joining", "idle"} /\ rseg[r] # seg =>
         \/ rsize[r] = 0
         \/ wpc = "resize"
         \/ wpc = "open" /\ remade /\ rsize[r] < alloc

SinkInvariant ==
  /\ SinkTypeOK /\ SharedTypeOK /\ InStep /\ SegmentKnown /\ OneBuffer /\ NewSegment
  /\ Rendered /\ SinkReaders

-----------------------------------------------------------------------------
(* Facts about the data.                                                   *)

\* Sizes are positive numbers.
LEMMA SizeTypes ==
  /\ \A n \in Sizes : n \in Nat /\ n # 0 /\ n \in SizesOrZero
  /\ \A n \in SizesOrZero : n \in Nat
BY DEF SizesOrZero

\* A buffer is what its fields are.
LEMMA BufferTypes ==
  /\ \A b \in Buffers :
       /\ b.own \in BOOLEAN /\ b.seg \in Segs \cup {0} /\ b.size \in Sizes
       /\ b.tag \in 0..MaxFrames
       /\ \A t \in 0..MaxFrames :
            /\ [b EXCEPT !.tag = t] \in Buffers
            /\ [b EXCEPT !.tag = t].own = b.own /\ [b EXCEPT !.tag = t].seg = b.seg
            /\ [b EXCEPT !.tag = t].size = b.size /\ [b EXCEPT !.tag = t].tag = t
  /\ \A o \in BOOLEAN, s \in Segs \cup {0}, n \in Sizes, t \in 0..MaxFrames :
       /\ [own |-> o, seg |-> s, size |-> n, tag |-> t] \in Buffers
       /\ [own |-> o, seg |-> s, size |-> n, tag |-> t].own = o
       /\ [own |-> o, seg |-> s, size |-> n, tag |-> t].seg = s
       /\ [own |-> o, seg |-> s, size |-> n, tag |-> t].size = n
       /\ [own |-> o, seg |-> s, size |-> n, tag |-> t].tag = t
BY DEF Buffers

\* The buffer that allocator_alloc returns.
LEMMA AllocatedTypes ==
  ASSUME NEW b \in Buffers, NEW s \in Segs \cup {0}
  PROVE  LET c == [b EXCEPT !.seg = s, !.own = @ /\ s # 0]
         IN  /\ c \in Buffers /\ c.own = (b.own /\ s # 0) /\ c.seg = s
             /\ c.size = b.size /\ c.tag = b.tag
BY DEF Buffers

\* A buffer that is disowned is the same memory.
LEMMA DisownFacts ==
  ASSUME SinkTypeOK
  PROVE  /\ Disown(bufs) \subseteq Buffers
         /\ \A c \in Disown(bufs) : ~c.own /\ \E b \in bufs : c.seg = b.seg
         /\ bufs = {} \/ (\E b \in bufs : bufs = {b}) =>
              Disown(bufs) = {} \/ \E c \in Disown(bufs) : Disown(bufs) = {c}
<1>1. \A b \in bufs : /\ [b EXCEPT !.own = FALSE] \in Buffers
                      /\ ~[b EXCEPT !.own = FALSE].own /\ [b EXCEPT !.own = FALSE].seg = b.seg
  BY DEF SinkTypeOK, Buffers
<1>2. /\ Disown(bufs) \subseteq Buffers
      /\ \A c \in Disown(bufs) : ~c.own /\ \E b \in bufs : c.seg = b.seg
  BY <1>1 DEF Disown
<1>3. CASE bufs = {}
  BY <1>2, <1>3 DEF Disown
<1>4. ASSUME NEW b \in bufs, bufs = {b}
      PROVE  \E c \in Disown(bufs) : Disown(bufs) = {c}
  <2>1. Disown(bufs) = {[b EXCEPT !.own = FALSE]}
    BY <1>4 DEF Disown
  <2> QED BY <2>1
<1> QED BY <1>2, <1>3, <1>4

\* Segment numbers: the next one is not in use.
LEMMA SegTypes ==
  ASSUME SinkTypeOK
  PROVE  /\ seg \in Segs \cup {0} /\ mem \in Segs \cup {0} /\ made \in Nat /\ seg <= made
         /\ made < MaxSegs => made + 1 \in Segs /\ seg # made + 1
         /\ seg # 0 => seg \in Segs
         /\ 0 \notin Segs
BY DEF SinkTypeOK, Segs

\* An orderly upstream asks for a buffer when it has none.
LEMMA RoomEmpty ==
  ASSUME Orderly, OneBuffer, Room
  PROVE  bufs = {}
<1> SUFFICES ASSUME bufs # {} PROVE FALSE
  OBVIOUS
<1>1. PICK b \in bufs : bufs = {b}
  BY DEF OneBuffer
<1>2. Cardinality({b}) = 1
  BY FS_Singleton
<1> QED BY <1>1, <1>2 DEF Room

-----------------------------------------------------------------------------
(* Types.                                                                  *)

\* Every step keeps the types of what is shared.
LEMMA SharedStep == SinkInvariant /\ [SinkNext]_allVars => SharedTypeOK'
<1> SUFFICES ASSUME SinkInvariant, [SinkNext]_allVars PROVE SharedTypeOK'
  OBVIOUS
<1> USE SizeTypes, SegTypes DEF SinkInvariant, SharedTypeOK, vars, segVars, writerVars, readerVars
<1>s. size \in Sizes /\ \A b \in bufs : b.size \in Sizes
  BY BufferTypes DEF SinkTypeOK
<1>0. 0 \in SizesOrZero
  BY DEF SizesOrZero
<1>1. CASE Stop \/ OnCapsFails BY <1>0, <1>1 DEF Stop, OnCapsFails, DeleteWriter
<1>2. CASE OnCaps BY <1>0, <1>2, <1>s DEF OnCaps
<1>3. CASE ResizeShm BY <1>3 DEF ResizeShm, CreateSegment
<1>4. CASE AllocReturn BY <1>4 DEF AllocReturn
<1>5. CASE RenderCopy
  <2>1. cur.size \in Sizes
    BY BufferTypes DEF SinkTypeOK
  <2> QED BY <1>5, <2>1 DEF RenderCopy, Notify
<1>6. CASE RenderRelease BY <1>6 DEF RenderRelease, Release
<1>7. CASE RenderReturn BY <1>7 DEF RenderReturn, AccessBegin, KeepSegment
<1>8. ASSUME NEW n \in Sizes, SetInitialSize(n) \/ Foreign(n) \/ \E o \in BOOLEAN : Alloc(n, o)
      PROVE  SharedTypeOK'
  <2>1. CASE SetInitialSize(n) BY <2>1 DEF SetInitialSize
  <2>2. ASSUME NEW o \in BOOLEAN, Alloc(n, o) PROVE SharedTypeOK'
    BY <2>2 DEF Alloc, AllocBegin, ShmResize, DropSegment
  <2>3. CASE Foreign(n) BY <2>3 DEF Foreign
  <2> QED BY <1>8, <2>1, <2>2, <2>3
<1>9. ASSUME NEW b \in bufs, Fill(b) \/ Drop(b) \/ RenderRefused(b) \/ RenderOther(b)
      PROVE  SharedTypeOK'
  BY <1>9, <1>s DEF Fill, Drop, RenderRefused, RenderOther, AllocBegin, ShmResize, DropSegment
<1>10. ASSUME NEW b \in bufs, NEW n \in Sizes, RenderOwn(b, n) PROVE SharedTypeOK'
  BY <1>10 DEF RenderOwn, Notify
<1>11. ASSUME NEW r \in Readers, ReaderNext(r) PROVE SharedTypeOK'
  <2>1. CASE Attach(r) BY <1>0, <2>1 DEF Attach
  <2>2. CASE Join(r) BY <2>2 DEF Join
  <2>3. CASE Update(r) BY <2>3 DEF Update
  <2>4. CASE Callback(r) BY <2>4 DEF Callback
  <2>5. CASE CallbackEnd(r) BY <1>0, <2>5 DEF CallbackEnd
  <2>6. CASE Leave(r) BY <1>0, <2>6 DEF Leave
  <2> QED BY <1>11, <2>1, <2>2, <2>3, <2>4, <2>5, <2>6 DEF ReaderNext
<1>12. CASE UNCHANGED allVars BY <1>12 DEF allVars
<1> QED BY <1>1, <1>2, <1>3, <1>4, <1>5, <1>6, <1>7, <1>8, <1>9, <1>10, <1>11, <1>12
           DEF SinkNext

\* Every step keeps the types of the sink.
LEMMA SinkTypeStep ==
  ASSUME SinkInvariant, [SinkNext]_allVars
  PROVE  SinkTypeOK'
<1> USE DEF SinkInvariant, SinkTypeOK, vars, segVars, writerVars, sinkVars
<1>d. Disown(bufs) \subseteq Buffers
  BY DisownFacts
<1>1. CASE Stop \/ OnCapsFails
  <2>1. 0 \in 0..made
    OBVIOUS
  <2> QED BY <1>1, <1>d, <2>1 DEF Stop, OnCapsFails, DeleteWriter
<1>2. CASE OnCaps
  <2>1. made + 1 \in Segs /\ size \in SizesOrZero
    BY <1>2, SegTypes, SizeTypes DEF OnCaps
  <2> QED BY <1>2, <1>d, <2>1 DEF OnCaps, Segs
<1>3. CASE ResizeShm
  <2>1. CASE UNCHANGED <<seg, made, len, mem>>
    BY <1>3, <2>1 DEF ResizeShm
  <2>2. CASE /\ made < MaxSegs /\ made' = made + 1 /\ seg' = made + 1 /\ mem' = made + 1
             /\ len' = [len EXCEPT ![made + 1] = want]
    <3>1. made + 1 \in Segs /\ want \in SizesOrZero
      BY <2>2, SegTypes, SizeTypes DEF SharedTypeOK
    <3>2. /\ made' \in 0..MaxSegs /\ seg' \in 0..made' /\ mem' \in 0..made'
          /\ len' \in [Segs -> SizesOrZero]
      BY <2>2, <3>1 DEF Segs
    <3> QED BY <1>3, <3>2 DEF ResizeShm
  <2> QED BY <1>3, <2>1, <2>2 DEF ResizeShm, CreateSegment
<1>4. CASE AllocReturn
  <2>1. [cur EXCEPT !.seg = GetMem, !.own = @ /\ GetMem # 0] \in Buffers
    BY SegTypes, AllocatedTypes DEF GetMem
  <2> QED BY <1>4, <2>1 DEF AllocReturn
<1>5. CASE RenderCopy
  <2>1. cur.tag \in 0..MaxFrames /\ (cur.seg # 0 => cur.seg \in Segs)
    BY BufferTypes
  <2>2. Content(cur) \subseteq 0..MaxFrames
    BY <2>1 DEF Content
  <2>3. store' \in [Segs -> 0..MaxFrames] /\ sent' \in 0..MaxFrames
    BY <1>5, <2>1, <2>2 DEF RenderCopy
  <2> QED BY <1>5, <2>3 DEF RenderCopy, Notify
<1>6. CASE RenderRelease BY <1>6 DEF RenderRelease, Release
<1>7. CASE RenderReturn BY <1>7 DEF RenderReturn, AccessBegin, KeepSegment
<1>8. ASSUME NEW n \in Sizes, SetInitialSize(n) PROVE SinkTypeOK'
  BY <1>8 DEF SetInitialSize
<1>9. ASSUME NEW n \in Sizes, AllocBegin(n)
      PROVE  /\ size' \in Sizes /\ UNCHANGED made /\ seg' \in 0..made /\ mem' \in 0..made
             /\ UNCHANGED len
  BY <1>9 DEF AllocBegin, SizeAfter, ShmResize, DropSegment
<1>10. ASSUME NEW n \in Sizes, NEW o \in BOOLEAN, Alloc(n, o) PROVE SinkTypeOK'
  <2>1. mem \in Segs \cup {0} /\ 0 \in 0..MaxFrames
    BY SegTypes
  <2>2. cur' \in Buffers
    <3>1. [own |-> o, seg |-> mem, size |-> n, tag |-> 0] \in Buffers
      BY <2>1 DEF Buffers
    <3> QED BY <1>10, <3>1 DEF Alloc
  <2> QED BY <1>9, <1>10, <2>2 DEF Alloc
<1>11. ASSUME NEW n \in Sizes, Foreign(n) PROVE SinkTypeOK'
  <2>1. frame + 1 \in 0..MaxFrames /\ frame' = frame + 1
    BY <1>11 DEF Foreign
  <2>2. [own |-> FALSE, seg |-> 0, size |-> n, tag |-> frame'] \in Buffers
    BY <2>1, BufferTypes
  <2> QED BY <1>11, <2>1, <2>2 DEF Foreign
<1>12. ASSUME NEW b \in bufs, Fill(b) PROVE SinkTypeOK'
  <2>1. frame + 1 \in 0..MaxFrames /\ frame' = frame + 1
    BY <1>12 DEF Fill
  <2>2. [b EXCEPT !.tag = frame'] \in Buffers
    BY <2>1, BufferTypes
  <2>3. store' \in [Segs -> 0..MaxFrames]
    BY <1>12, <2>1 DEF Fill
  <2> QED BY <1>12, <2>1, <2>2, <2>3 DEF Fill
<1>13. ASSUME NEW b \in bufs, RenderOther(b) PROVE SinkTypeOK'
  <2>1. b \in Buffers /\ b.size \in Sizes
    BY BufferTypes
  <2> QED BY <1>9, <1>13, <2>1 DEF RenderOther
<1>14. ASSUME NEW b \in bufs, NEW n \in Sizes, RenderOwn(b, n) PROVE SinkTypeOK'
  <2>1. b \in Buffers /\ b.tag \in 0..MaxFrames
    BY BufferTypes
  <2> QED BY <1>14, <2>1 DEF RenderOwn, Notify
<1>15. ASSUME NEW r \in Readers, ReaderNext(r) PROVE SinkTypeOK'
  BY <1>15 DEF ReaderNext, Attach, Join, Update, Callback, CallbackEnd, Leave
<1>16. CASE UNCHANGED allVars BY <1>16 DEF allVars
<1>17. ASSUME NEW b \in bufs, Drop(b) \/ RenderRefused(b) PROVE SinkTypeOK'
  BY <1>17 DEF Drop, RenderRefused
<1> QED BY <1>1, <1>2, <1>3, <1>4, <1>5, <1>6, <1>7, <1>8, <1>10, <1>11, <1>12, <1>13,
           <1>14, <1>15, <1>16, <1>17 DEF SinkNext

-----------------------------------------------------------------------------
(* The streaming thread.                                                   *)

\* allocator_alloc replaces a segment that is too small by one of the size asked
\* for, and leaves another alone.
LEMMA AllocFacts ==
  ASSUME SinkInvariant, NEW n \in Sizes, AllocBegin(n)
  PROVE  /\ UNCHANGED <<alloc, made, len, rpc, rseg, rsize, msg>> /\ n <= size'
         /\ \/ /\ size < n /\ size' = n /\ wpc' = "resize" /\ seg' = 0 /\ mem' = 0
               /\ remade' = TRUE /\ want' = n /\ wpc = "open"
            \/ UNCHANGED <<size, wpc, seg, mem, remade, want>>
<1>1. n \in Nat /\ size \in Nat
  BY SizeTypes DEF SinkInvariant, SinkTypeOK
<1>2. CASE size < n
  BY <1>1, <1>2 DEF AllocBegin, SizeAfter, ShmResize, DropSegment, readerVars
<1>3. CASE ~(size < n)
  BY <1>1, <1>3 DEF AllocBegin, SizeAfter, vars, segVars, writerVars, readerVars
<1> QED BY <1>2, <1>3

\* The access is open, being resized or announced where the thread takes it to be,
\* and size is that of the segment.
LEMMA ThreadStep ==
  ASSUME Orderly, ~CanFail, SinkInvariant, [SinkNext]_allVars
  PROVE  InStep' /\ SegmentKnown'
<1> USE DEF SinkInvariant, sinkVars
<1>n. /\ size \in Nat /\ alloc \in Nat /\ want \in Nat /\ cur.size \in Nat
      /\ \A b \in bufs : b.size \in Sizes /\ b.size \in Nat
  BY SizeTypes, BufferTypes DEF SinkTypeOK, SharedTypeOK
<1>1. CASE Stop \/ OnCapsFails
  BY <1>1 DEF Stop, OnCapsFails, DeleteWriter, InStep, SegmentKnown
<1>2. CASE OnCaps
  <2>1. /\ kpc = "idle" /\ kpc' = "idle" /\ wpc' = "open" /\ open' /\ seg' = made + 1
        /\ mem' = made + 1 /\ len' = [len EXCEPT ![made + 1] = size] /\ alloc' = size
        /\ size' = size /\ size <= ShmMax
    BY <1>2 DEF OnCaps
  <2>2. made + 1 \in Segs /\ made + 1 # 0
    BY <1>2, SegTypes DEF OnCaps
  <2>3. len'[made + 1] = size
    BY <2>1, <2>2 DEF SinkTypeOK
  <2> QED BY <2>1, <2>2, <2>3 DEF InStep, SegmentKnown
<1>3. CASE ResizeShm
  <2>1. wpc = "resize" /\ wpc' = "open" /\ alloc' = want /\ UNCHANGED <<open, size, kpc, cur>>
    BY <1>3 DEF ResizeShm, CreateSegment
  <2>2. kpc \in {"alloc", "copy"} /\ open /\ want = size
    BY <2>1 DEF SinkTypeOK, InStep, SegmentKnown
  <2>3. CASE /\ made < MaxSegs /\ seg' = made + 1 /\ mem' = made + 1
             /\ len' = [len EXCEPT ![made + 1] = want]
    <3>1. made + 1 \in Segs /\ made + 1 # 0
      BY <2>3, SegTypes
    <3>2. len'[made + 1] = want
      BY <2>3, <3>1 DEF SinkTypeOK
    <3> QED BY <2>1, <2>2, <2>3, <3>1, <3>2 DEF InStep, SegmentKnown
  <2> QED BY <1>3, <2>3 DEF ResizeShm, CreateSegment
<1>4. CASE AllocReturn
  BY <1>4 DEF AllocReturn, vars, segVars, writerVars, InStep, SegmentKnown
<1>5. CASE RenderCopy
  BY <1>5, <1>n DEF RenderCopy, Notify, segVars, InStep, SegmentKnown
<1>6. CASE RenderRelease
  BY <1>6 DEF RenderRelease, Release, segVars, InStep, SegmentKnown
<1>7. CASE RenderReturn
  BY <1>7 DEF RenderReturn, AccessBegin, Locked, KeepSegment, segVars, InStep, SegmentKnown
<1>8. ASSUME NEW n \in Sizes, SetInitialSize(n) PROVE InStep' /\ SegmentKnown'
  <2>1. /\ ~open /\ ~open' /\ UNCHANGED <<kpc, cur, seg, mem, len, alloc, want, wpc>>
    BY <1>8 DEF SetInitialSize, vars, segVars, writerVars
  <2>2. kpc \in {"idle", "alloc"} /\ wpc = "open"
    BY <2>1 DEF SinkTypeOK, InStep, SegmentKnown
  <2> QED BY <2>1, <2>2 DEF InStep, SegmentKnown
<1>9. ASSUME NEW n \in Sizes, NEW o \in BOOLEAN, Alloc(n, o) PROVE InStep' /\ SegmentKnown'
  <2>1. /\ AllocBegin(n) /\ open' = open /\ kpc = "idle" /\ kpc' = "alloc"
        /\ IF open THEN n <= ShmMax ELSE ~o /\ n <= size
    BY <1>9 DEF Alloc
  <2>2. cur'.size = n /\ cur'.own = o /\ cur'.tag = 0
    BY <1>9 DEF Alloc
  <2>3. n \in Nat /\ size' \in Nat
    <3>1. SinkTypeOK'
      BY SinkTypeStep
    <3> QED BY <3>1, SizeTypes DEF SinkTypeOK
  <2>4. cur'.own => open'
    BY <2>1, <2>2, Zenon
  <2>5. InStep'
    BY <2>1, <2>2, <2>3, <2>4, AllocFacts DEF InStep
  <2>6. UNCHANGED <<alloc, made, len>> /\ (open' <=> open) /\ wpc = "open"
    BY <2>1, AllocFacts DEF InStep
  <2>7. CASE UNCHANGED <<size, wpc, seg, mem, remade, want>>
    BY <2>5, <2>6, <2>7 DEF SegmentKnown
  <2>8. CASE /\ size < n /\ size' = n /\ wpc' = "resize" /\ seg' = 0 /\ mem' = 0
             /\ want' = n
    <3>1. open /\ n <= ShmMax
      BY <2>1, <2>3, <2>8, <1>n
    <3> QED BY <2>5, <2>6, <2>8, <3>1 DEF SegmentKnown
  <2> QED BY <2>1, <2>7, <2>8, AllocFacts
<1>10. ASSUME NEW n \in Sizes, Foreign(n) PROVE InStep' /\ SegmentKnown'
  BY <1>10 DEF Foreign, vars, segVars, writerVars, InStep, SegmentKnown
<1>11. ASSUME NEW b \in bufs, Fill(b) PROVE InStep' /\ SegmentKnown'
  BY <1>11 DEF Fill, vars, segVars, writerVars, InStep, SegmentKnown
<1>12. ASSUME NEW b \in bufs, RenderOther(b) PROVE InStep' /\ SegmentKnown'
  <2>1. /\ AllocBegin(b.size) /\ open /\ open' = open /\ kpc = "idle" /\ kpc' = "copy"
        /\ cur' = b /\ b.size <= ShmMax
    BY <1>12 DEF RenderOther
  <2>2. InStep'
    BY <2>1, <1>n, AllocFacts DEF InStep
  <2>3. SegmentKnown'
    BY <2>1, <1>n, AllocFacts DEF InStep, SegmentKnown
  <2> QED BY <2>2, <2>3
<1>13. ASSUME NEW b \in bufs, NEW n \in Sizes, RenderOwn(b, n) PROVE InStep' /\ SegmentKnown'
  <2>1. /\ b.own /\ kpc = "idle" /\ kpc' = "render" /\ cur' = b /\ open /\ wpc' = "notified"
        /\ UNCHANGED <<open, size, seg, mem, len, alloc, want>>
    BY <1>13 DEF RenderOwn, NeedNewMemory, Notify, segVars
  <2>2. b.size <= alloc
    BY <2>1 DEF OneBuffer, SegmentKnown, InStep
  <2> QED BY <2>1, <2>2 DEF InStep, SegmentKnown
<1>14. ASSUME NEW r \in Readers, ReaderNext(r) PROVE InStep' /\ SegmentKnown'
  <2>1. UNCHANGED <<segVars, writerVars, sinkVars>>
    BY <1>14 DEF ReaderNext, Attach, Join, Update, Callback, CallbackEnd, Leave
  <2> QED BY <2>1 DEF segVars, writerVars, InStep, SegmentKnown
<1>15. CASE UNCHANGED allVars
  BY <1>15 DEF allVars, vars, segVars, writerVars, InStep, SegmentKnown
<1>16. ASSUME NEW b \in bufs, Drop(b) \/ RenderRefused(b) PROVE InStep' /\ SegmentKnown'
  BY <1>16 DEF Drop, RenderRefused, vars, segVars, writerVars, InStep, SegmentKnown
<1> QED BY <1>1, <1>2, <1>3, <1>4, <1>5, <1>6, <1>7, <1>8, <1>9, <1>10, <1>11, <1>12, <1>13,
           <1>14, <1>15, <1>16 DEF SinkNext

\* Memory that upstream has is never replaced, and a new segment is announced with
\* a frame that fills it.
LEMMA BufferStep ==
  ASSUME Orderly, ~CanFail, SinkInvariant, [SinkNext]_allVars
  PROVE  OneBuffer' /\ NewSegment' /\ Rendered'
<1> USE DEF SinkInvariant, sinkVars
<1>n. /\ size \in Nat /\ alloc \in Nat /\ want \in Nat /\ cur.size \in Nat
      /\ \A b \in bufs : b \in Buffers /\ b.size \in Sizes /\ b.size \in Nat
  BY SizeTypes, BufferTypes DEF SinkTypeOK, SharedTypeOK
<1>e. Room => bufs = {}
  BY RoomEmpty
<1>m. made \in Nat /\ \A b \in bufs : b.seg <= made
  BY SegTypes DEF OneBuffer
<1>d. /\ Disown(bufs) = {} \/ \E b \in Disown(bufs) : Disown(bufs) = {b}
      /\ \A b \in Disown(bufs) : ~b.own /\ b.seg <= made
  BY <1>m, DisownFacts DEF OneBuffer
<1>1. CASE Stop
  BY <1>1, <1>d DEF Stop, DeleteWriter, OneBuffer, NewSegment, Rendered
<1>1a. CASE OnCapsFails
  BY <1>1a DEF OnCapsFails, DeleteWriter, OneBuffer, NewSegment, Rendered
<1>2. CASE OnCaps
  <2>1. /\ kpc' = "idle" /\ bufs' = Disown(bufs) /\ ~remade' /\ seg' = made + 1
        /\ made' = made + 1 /\ size' = size
    BY <1>2 DEF OnCaps
  <2>2. \A b \in bufs' : b \in Buffers
    BY <2>1, DisownFacts
  <2>3. \A b \in bufs' : b.seg \in Nat /\ b.seg <= made
    BY <2>1, <2>2, <1>d, BufferTypes DEF Segs
  <2>4. \A b \in bufs' : b.seg <= made' /\ b.seg # seg'
    BY <2>1, <2>3, <1>m
  <2> QED BY <2>1, <2>4, <1>d DEF OneBuffer, NewSegment, Rendered
<1>3. CASE ResizeShm
  <2>1. /\ wpc = "resize" /\ wpc' = "open" /\ seg = 0
        /\ UNCHANGED <<open, size, kpc, bufs, cur, remade, store, sent>>
    BY <1>3 DEF ResizeShm, CreateSegment, SegmentKnown
  <2>2. kpc \in {"alloc", "copy"} /\ bufs = {}
    BY <2>1 DEF InStep, OneBuffer, SinkTypeOK
  <2> QED BY <2>1, <2>2 DEF OneBuffer, NewSegment, Rendered
<1>4. CASE AllocReturn
  <2> DEFINE b == [cur EXCEPT !.seg = mem, !.own = @ /\ mem # 0]
  <2>1. /\ b.own => cur.own
        /\ b.seg = mem /\ b.size = cur.size /\ b.tag = 0
    <3>1. cur.tag = 0
      BY <1>4 DEF AllocReturn, InStep
    <3>2. cur \in Buffers /\ mem \in Segs \cup {0}
      BY SegTypes DEF SinkTypeOK
    <3>3. /\ b.own = (cur.own /\ mem # 0) /\ b.seg = mem /\ b.size = cur.size
          /\ b.tag = cur.tag
      BY <3>2, AllocatedTypes
    <3> QED BY <3>1, <3>3
  <2>2. /\ bufs = {} /\ bufs' = {b} /\ kpc = "alloc" /\ kpc' = "idle"
        /\ UNCHANGED <<open, size, seg, mem, made, remade, store, sent>>
    BY <1>4 DEF AllocReturn, GetMem, OneBuffer, vars, segVars, writerVars
  <2>3. (open => cur.size <= size) /\ (open => mem = seg) /\ mem <= made
    BY <2>2 DEF InStep, SegmentKnown, SinkTypeOK
  <2> HIDE DEF b
  <2>4. OneBuffer'
    BY <2>1, <2>2, <2>3 DEF OneBuffer
  <2>5. NewSegment'
    BY <2>1, <2>2, <2>3 DEF NewSegment
  <2> QED BY <2>2, <2>4, <2>5 DEF Rendered
<1>5. CASE RenderCopy
  <2>1. /\ kpc = "copy" /\ kpc' = "render" /\ bufs = {} /\ bufs' = {} /\ sent' = cur.tag
        /\ wpc = "open" /\ open /\ mem = seg /\ seg # 0
        /\ UNCHANGED <<open, size, seg>>
    BY <1>5 DEF RenderCopy, Notify, OneBuffer, InStep, SegmentKnown, segVars
  <2>2. Content(cur) = {cur.tag}
    BY <2>1 DEF Content, Rendered
  <2>3. store' = [t \in Segs |-> IF t = seg THEN cur.tag ELSE store[t]]
    BY <1>5, <2>1, <2>2 DEF RenderCopy
  <2>4. store'[seg] = cur.tag
    BY <2>1, <2>3, SegTypes
  <2> QED BY <2>1, <2>4 DEF OneBuffer, NewSegment, Rendered
<1>6. CASE RenderRelease
  BY <1>6 DEF RenderRelease, Release, segVars, OneBuffer, NewSegment, Rendered
<1>7. CASE RenderReturn
  <2>1. /\ kpc = "render" /\ kpc' = "idle" /\ bufs = {} /\ bufs' = {} /\ remade' = FALSE
    BY <1>7 DEF RenderReturn, AccessBegin, KeepSegment, OneBuffer
  <2> QED BY <2>1 DEF OneBuffer, NewSegment, Rendered
<1>8. ASSUME NEW n \in Sizes, SetInitialSize(n) PROVE OneBuffer' /\ NewSegment' /\ Rendered'
  <2>1. /\ ~open /\ ~open'
        /\ UNCHANGED <<kpc, bufs, cur, seg, made, store, sent, remade, wpc>>
    BY <1>8 DEF SetInitialSize, vars, segVars, writerVars
  <2> QED BY <2>1 DEF OneBuffer, NewSegment, Rendered
<1>9. ASSUME NEW n \in Sizes, NEW o \in BOOLEAN, Alloc(n, o)
      PROVE  OneBuffer' /\ NewSegment' /\ Rendered'
  <2>1. /\ AllocBegin(n) /\ kpc = "idle" /\ kpc' = "alloc" /\ bufs = {} /\ bufs' = {}
        /\ cur'.size = n /\ open' = open
    BY <1>9, <1>e DEF Alloc
  <2>2. (open => ~remade) /\ wpc = "open"
    BY <2>1 DEF NewSegment, InStep
  <2> QED BY <2>1, <2>2, AllocFacts DEF OneBuffer, NewSegment, Rendered
<1>10. ASSUME NEW n \in Sizes, Foreign(n) PROVE OneBuffer' /\ NewSegment' /\ Rendered'
  <2>1. /\ bufs = {} /\ kpc = "idle" /\ kpc' = "idle" /\ open /\ open'
        /\ bufs' = {[own |-> FALSE, seg |-> 0, size |-> n, tag |-> frame + 1]}
        /\ UNCHANGED <<remade, seg, made>>
    BY <1>10, <1>e DEF Foreign, vars, segVars, writerVars
  <2>2. ~remade /\ seg # 0
    BY <2>1 DEF NewSegment, InStep, SegmentKnown
  <2>3. \A b \in bufs' : ~b.own /\ b.seg = 0
    BY <2>1
  <2> QED BY <2>1, <2>2, <2>3, <1>m DEF OneBuffer, NewSegment, Rendered
<1>11. ASSUME NEW b \in bufs, Fill(b) PROVE OneBuffer' /\ NewSegment' /\ Rendered'
  <2> DEFINE c == [b EXCEPT !.tag = frame + 1]
  <2>1. /\ kpc = "idle" /\ kpc' = "idle" /\ bufs = {b} /\ bufs' = {c} /\ Mapped(b)
        /\ frame + 1 \in 0..MaxFrames
        /\ store' = [t \in Segs |-> IF t = b.seg THEN frame + 1 ELSE store[t]]
        /\ UNCHANGED <<open, size, seg, made, remade>>
    BY <1>11 DEF Fill, OneBuffer, SinkTypeOK, vars, segVars, writerVars
  <2>2. (c.own <=> b.own) /\ c.seg = b.seg /\ c.size = b.size /\ c.tag = frame + 1
    BY <2>1, <1>n, BufferTypes
  <2>3. b.seg <= made /\ (open /\ b.own => b.seg = seg) /\ (open /\ b.seg = seg => b.size <= size)
    BY <2>1 DEF OneBuffer
  <2>4. open /\ b.seg = seg => store'[seg] = frame + 1
    BY <2>1, <2>3, SegTypes DEF InStep, SegmentKnown
  <2> HIDE DEF c
  <2>5. OneBuffer'
    BY <2>1, <2>2, <2>3, <2>4 DEF OneBuffer
  <2>6. NewSegment'
    BY <2>1, <2>2 DEF NewSegment
  <2> QED BY <2>1, <2>5, <2>6 DEF Rendered
<1>12. ASSUME NEW b \in bufs, RenderOther(b) PROVE OneBuffer' /\ NewSegment' /\ Rendered'
  <2>1. /\ AllocBegin(b.size) /\ kpc = "idle" /\ kpc' = "copy" /\ cur' = b
        /\ bufs = {b} /\ bufs' = {} /\ open /\ open' = open /\ Mapped(b) /\ b.tag # 0
        /\ store' = store
    BY <1>12 DEF RenderOther, OneBuffer
  <2>2. (remade => b.size = size) /\ wpc = "open"
    BY <2>1 DEF NewSegment, InStep
  <2>3. b.seg # 0 => b.seg = seg /\ store[seg] = b.tag /\ b.size <= size
    BY <2>1 DEF Mapped, OneBuffer
  <2>4. b.seg # 0 => UNCHANGED <<seg, size>>
    <3>1. CASE size < b.size
      BY <2>3, <3>1, <1>n
    <3>2. CASE ~(size < b.size)
      BY <2>1, <3>2, <1>n, AllocFacts
    <3> QED BY <3>1, <3>2
  <2>5. NewSegment'
    BY <2>1, <2>2, <1>n, AllocFacts DEF NewSegment
  <2> QED BY <2>1, <2>3, <2>4, <2>5 DEF OneBuffer, Rendered
<1>13. ASSUME NEW b \in bufs, NEW n \in Sizes, RenderOwn(b, n)
       PROVE  OneBuffer' /\ NewSegment' /\ Rendered'
  <2>1. /\ b.own /\ b.tag # 0 /\ kpc = "idle" /\ kpc' = "render" /\ sent' = b.tag /\ open
        /\ bufs = {b} /\ bufs' = {} /\ UNCHANGED <<store, seg>>
    BY <1>13 DEF RenderOwn, NeedNewMemory, Notify, OneBuffer, segVars
  <2>2. store[seg] = b.tag
    BY <2>1 DEF OneBuffer
  <2> QED BY <2>1, <2>2 DEF OneBuffer, NewSegment, Rendered
<1>16. ASSUME NEW b \in bufs, Drop(b) \/ RenderRefused(b)
       PROVE  OneBuffer' /\ NewSegment' /\ Rendered'
  <2>1. /\ kpc = "idle" /\ kpc' = "idle" /\ bufs = {b} /\ bufs' = {}
        /\ UNCHANGED <<open, remade, seg>>
    BY <1>16 DEF Drop, RenderRefused, OneBuffer, vars, segVars, writerVars
  <2>2. ~(open /\ remade)
    <3>1. CASE Drop(b)
      BY <2>1, <3>1 DEF Drop, NewSegment
    <3>2. CASE RenderRefused(b)
      BY <2>1, <3>2, <1>n DEF RenderRefused, NewSegment, SegmentKnown
    <3> QED BY <1>16, <3>1, <3>2
  <2> QED BY <2>1, <2>2 DEF OneBuffer, NewSegment, Rendered
<1>14. ASSUME NEW r \in Readers, ReaderNext(r) PROVE OneBuffer' /\ NewSegment' /\ Rendered'
  <2>1. UNCHANGED <<segVars, writerVars, sinkVars>>
    BY <1>14 DEF ReaderNext, Attach, Join, Update, Callback, CallbackEnd, Leave
  <2> QED BY <2>1 DEF segVars, writerVars, OneBuffer, NewSegment, Rendered
<1>15. CASE UNCHANGED allVars
  BY <1>15 DEF allVars, vars, segVars, writerVars, OneBuffer, NewSegment, Rendered
<1> QED BY <1>1, <1>1a, <1>2, <1>3, <1>4, <1>5, <1>6, <1>7, <1>8, <1>9, <1>10, <1>11, <1>12,
           <1>13, <1>14, <1>15, <1>16 DEF SinkNext

-----------------------------------------------------------------------------
(* The readers.                                                            *)

\* Steps of the streaming thread that leave what readers compare.
LEMMA ReadersAlone ==
  ASSUME SinkInvariant,
         UNCHANGED <<open, seg, wpc, remade, alloc, rpc, rseg, rsize, msg>>,
         \A r \in Readers : ~Busy(r)
  PROVE  SinkReaders'
BY DEF SinkInvariant, SinkReaders, Busy

\* Only in render is a reader told of a frame.
LEMMA BusyInRender ==
  ASSUME SinkInvariant, kpc # "render"
  PROVE  \A r \in Readers : ~Busy(r)
BY DEF SinkInvariant, SinkReaders, Busy

\* A frame is announced: a reader that does not have the segment, which has just
\* been made, gets a size it has not seen.
LEMMA NotifyFacts ==
  ASSUME SinkInvariant, open, kpc \in {"idle", "copy"}, kpc' = "render", open' = open,
         NEW n \in Sizes, Notify(n), n <= alloc, remade => n = alloc, cur'.size = n
  PROVE  SinkReaders'
<1> USE DEF SinkInvariant
<1>1. /\ wpc = "open" /\ wpc' = "notified" /\ UNCHANGED <<seg, remade, alloc, rseg, rsize>>
      /\ \A r \in Readers : /\ rpc'[r] = IF rpc[r] = "idle" THEN "told" ELSE rpc[r]
                            /\ msg'[r] = IF rpc[r] = "idle" THEN n ELSE msg[r]
  BY DEF Notify, segVars
<1>2. n \in Nat /\ n # 0 /\ alloc \in Nat /\ \A r \in Readers : rsize[r] \in Nat
  <2>1. \A r \in Readers : rsize[r] \in SizesOrZero
    BY DEF SharedTypeOK
  <2> QED BY <2>1, SizeTypes DEF SharedTypeOK
<1>3. \A r \in Readers : rpc[r] \in {"off", "joining", "idle"}
  BY BusyInRender DEF SharedTypeOK, Busy
<1> SUFFICES ASSUME NEW r \in Readers
             PROVE  /\ rpc'[r] # "off" => open' /\ rsize'[r] <= alloc'
                    /\ rpc'[r] = "joining" => rsize'[r] = 0
                    /\ rpc'[r] = "cb" => wpc' = "idle"
                    /\ Busy(r)' => kpc' = "render" /\ msg'[r] = cur'.size
                    /\ rpc'[r] \in {"lock", "cb"} => rseg'[r] = seg'
                    /\ rpc'[r] = "told" /\ rseg'[r] # seg' => msg'[r] # rsize'[r]
                    /\ rpc'[r] \in {"joining", "idle"} /\ rseg'[r] # seg' =>
                         \/ rsize'[r] = 0
                         \/ wpc' = "resize"
                         \/ wpc' = "open" /\ remade' /\ rsize'[r] < alloc'
  BY DEF SinkReaders
<1>4. CASE rpc[r] = "idle"
  <2>1. rpc'[r] = "told" /\ msg'[r] = n
    BY <1>1, <1>4
  <2>2. rseg[r] # seg => rsize[r] = 0 \/ (remade /\ rsize[r] < alloc)
    BY <1>1, <1>4 DEF SinkReaders
  <2> QED BY <1>1, <1>2, <1>4, <2>1, <2>2 DEF SinkReaders, Busy
<1>5. CASE rpc[r] # "idle"
  BY <1>1, <1>3, <1>5 DEF SinkReaders, Busy
<1> QED BY <1>4, <1>5

\* A resize takes the segment away from readers that handle no update.
LEMMA ResizeReaders ==
  ASSUME SinkInvariant, kpc = "idle", open' = open, NEW n \in Sizes, AllocBegin(n)
  PROVE  SinkReaders'
<1> USE DEF SinkInvariant
<1>1. \A r \in Readers : ~Busy(r)
  BY BusyInRender
<1>2. CASE UNCHANGED <<size, wpc, seg, mem, remade, want>>
  BY <1>1, <1>2, AllocFacts, ReadersAlone
<1>3. CASE wpc' = "resize"
  BY <1>1, <1>3, AllocFacts DEF SinkReaders, Busy
<1> QED BY <1>2, <1>3, AllocFacts

\* Every step leaves the readers with the segment of the frame they handle.
LEMMA ReadersStep ==
  ASSUME Orderly, ~CanFail, SinkInvariant, [SinkNext]_allVars
  PROVE  SinkReaders'
<1> USE DEF SinkInvariant, sinkVars
<1>n. /\ size \in Nat /\ alloc \in Nat /\ want \in Nat /\ cur.size \in Sizes
      /\ \A b \in bufs : b.size \in Sizes /\ b.size \in Nat
      /\ \A r \in Readers : rsize[r] \in Nat
  BY SizeTypes, BufferTypes DEF SinkTypeOK, SharedTypeOK, SizesOrZero
<1>1. CASE Stop \/ OnCapsFails \/ OnCaps
  <2>1. \A r \in Readers : rpc'[r] = "off"
    BY <1>1 DEF Stop, OnCapsFails, OnCaps, DeleteWriter
  <2> QED BY <2>1 DEF SinkReaders, Busy
<1>2. CASE ResizeShm
  <2>1. /\ wpc = "resize" /\ wpc' = "open" /\ alloc' = want /\ seg = 0
        /\ UNCHANGED <<remade, open, kpc, cur, rpc, rseg, rsize, msg>>
    BY <1>2 DEF ResizeShm, CreateSegment, readerVars, SegmentKnown
  <2>2. kpc \in {"alloc", "copy"} /\ remade /\ alloc < want
    <3>1. kpc \in {"alloc", "copy"}
      BY <2>1 DEF SinkTypeOK, InStep
    <3> QED BY <2>1, <3>1 DEF NewSegment, SegmentKnown
  <2>3. \A r \in Readers : ~Busy(r)
    BY <2>2, BusyInRender
  <2> QED BY <2>1, <2>2, <2>3, <1>n DEF SinkReaders, Busy
<1>3. CASE AllocReturn
  BY <1>3, BusyInRender, ReadersAlone
     DEF AllocReturn, vars, segVars, writerVars, readerVars
<1>4. CASE RenderCopy
  <2>1. kpc = "copy" /\ open /\ cur' = cur /\ open' = open /\ kpc' = "render" /\ wpc = "open"
    BY <1>4 DEF RenderCopy, InStep, Notify
  <2>2. cur.size <= alloc /\ (remade => cur.size = alloc)
    BY <2>1 DEF InStep, SegmentKnown, NewSegment
  <2> QED BY <1>4, <1>n, <2>1, <2>2, NotifyFacts DEF RenderCopy
<1>5. CASE RenderRelease
  <2>1. /\ wpc = "notified" /\ wpc' = "idle"
        /\ UNCHANGED <<seg, alloc, remade, open, kpc, cur, rpc, rseg, rsize, msg>>
    BY <1>5 DEF RenderRelease, Release, segVars, readerVars
  <2> QED BY <2>1 DEF SinkReaders, Busy
<1>6. CASE RenderReturn
  <2>1. /\ wpc = "idle" /\ wpc' = "open" /\ \A r \in Readers : ~Busy(r)
        /\ UNCHANGED <<seg, alloc, open, cur, rpc, rseg, rsize, msg>>
    BY <1>6 DEF RenderReturn, AccessBegin, KeepSegment, Locked, Busy, segVars, readerVars
  <2> QED BY <2>1 DEF SinkReaders, Busy
<1>7. ASSUME NEW n \in Sizes, SetInitialSize(n) PROVE SinkReaders'
  BY <1>7 DEF SetInitialSize, vars, segVars, writerVars, readerVars, SinkReaders, Busy
<1>8. ASSUME NEW n \in Sizes, NEW o \in BOOLEAN, Alloc(n, o) PROVE SinkReaders'
  BY <1>8, ResizeReaders DEF Alloc
<1>9. ASSUME NEW n \in Sizes, Foreign(n) PROVE SinkReaders'
  BY <1>9 DEF Foreign, vars, segVars, writerVars, readerVars, SinkReaders, Busy
<1>10. ASSUME NEW b \in bufs, Fill(b) \/ Drop(b) \/ RenderRefused(b) PROVE SinkReaders'
  BY <1>10 DEF Fill, Drop, RenderRefused, vars, segVars, writerVars, readerVars, SinkReaders, Busy
<1>11. ASSUME NEW b \in bufs, RenderOther(b) PROVE SinkReaders'
  BY <1>11, <1>n, ResizeReaders DEF RenderOther
<1>12. ASSUME NEW b \in bufs, NEW n \in Sizes, RenderOwn(b, n) PROVE SinkReaders'
  <2>1. /\ kpc = "idle" /\ kpc' = "render" /\ open /\ open' = open /\ cur' = b /\ b.own
        /\ n = b.size /\ Notify(n)
    BY <1>12 DEF RenderOwn, NeedNewMemory
  <2>2. alloc = size /\ b.size <= size
    BY <2>1 DEF InStep, SegmentKnown, OneBuffer
  <2>3. remade => b.size = alloc
    BY <2>1, <2>2 DEF NewSegment
  <2> QED BY <2>1, <2>2, <2>3, NotifyFacts
<1>13. ASSUME NEW r \in Readers, ReaderNext(r) PROVE SinkReaders'
  <2>1. UNCHANGED <<open, seg, wpc, remade, alloc, kpc, cur>>
    BY <1>13 DEF ReaderNext, Attach, Join, Update, Callback, CallbackEnd, Leave, segVars,
       writerVars
  <2>2. CASE Attach(r)
    <3>1. open
      BY <2>2 DEF Attach, SegmentKnown
    <3> QED BY <2>1, <2>2, <3>1, <1>n DEF Attach, SinkReaders, Busy, SharedTypeOK
  <2>3. CASE Join(r)
    BY <2>1, <2>3 DEF Join, SinkReaders, Busy, SharedTypeOK
  <2>4. CASE Update(r)
    <3>1. /\ rpc[r] = "told" /\ rpc' = [rpc EXCEPT ![r] = "lock"]
          /\ rseg'[r] = seg /\ rsize' = [rsize EXCEPT ![r] = msg[r]] /\ msg' = msg
          /\ \A q \in Readers \ {r} : rseg'[q] = rseg[q]
      BY <2>4 DEF Update, MustAttach, SinkReaders, SharedTypeOK
    <3>2. msg[r] <= alloc /\ kpc = "render" /\ msg[r] = cur.size
      BY <3>1 DEF SinkReaders, Busy, InStep
    <3> QED BY <2>1, <3>1, <3>2 DEF SinkReaders, Busy, SharedTypeOK
  <2>5. CASE Callback(r)
    BY <2>1, <2>5 DEF Callback, SinkReaders, Busy, SharedTypeOK
  <2>6. CASE CallbackEnd(r)
    BY <2>1, <2>6 DEF CallbackEnd, SinkReaders, Busy, SharedTypeOK
  <2>7. CASE Leave(r)
    BY <2>1, <2>7 DEF Leave, SinkReaders, Busy, SharedTypeOK
  <2> QED BY <1>13, <2>2, <2>3, <2>4, <2>5, <2>6, <2>7 DEF ReaderNext
<1>14. CASE UNCHANGED allVars
  BY <1>14 DEF allVars, vars, segVars, writerVars, readerVars, SinkReaders, Busy
<1> QED BY <1>1, <1>2, <1>3, <1>4, <1>5, <1>6, <1>7, <1>8, <1>9, <1>10, <1>11, <1>12, <1>13,
           <1>14 DEF SinkNext

-----------------------------------------------------------------------------
(* The theorems.                                                           *)

\* The element before on_caps: no writer, no reader, no buffer.
LEMMA SinkInitInvariant == SinkInit => SinkInvariant
<1> SUFFICES ASSUME SinkInit PROVE SinkInvariant
  OBVIOUS
<1>1. SinkTypeOK
  <2>1. /\ 0 \in 0..MaxFrames /\ 0 \in 0..MaxSegs /\ 0 \in Segs \cup {0} /\ 0 \in SizesOrZero
        /\ size \in Sizes
    BY DEF SinkInit, SizesOrZero
  <2>2. cur \in Buffers
    BY <2>1 DEF SinkInit, Buffers
  <2>3. store \in [Segs -> 0..MaxFrames] /\ len \in [Segs -> SizesOrZero]
    BY <2>1 DEF SinkInit
  <2>4. 0 \in 0..0
    OBVIOUS
  <2> QED BY <2>1, <2>2, <2>3, <2>4 DEF SinkInit, SinkTypeOK
<1>2. SharedTypeOK
  <2>1. 0 \in SizesOrZero
    BY DEF SizesOrZero
  <2> QED BY <2>1 DEF SinkInit, SharedTypeOK
<1>3. InStep /\ SegmentKnown
  BY DEF SinkInit, InStep, SegmentKnown
<1>4. OneBuffer /\ NewSegment /\ Rendered
  BY DEF SinkInit, OneBuffer, NewSegment, Rendered
<1>5. SinkReaders
  BY DEF SinkInit, SinkReaders, Busy
<1> QED BY <1>1, <1>2, <1>3, <1>4, <1>5 DEF SinkInvariant

\* The invariant holds of every state.
LEMMA SinkAlways ==
  ASSUME Orderly, ~CanFail
  PROVE  SinkSpec => []SinkInvariant
<1>1. SinkInvariant /\ [SinkNext]_allVars => SinkInvariant'
  BY SharedStep, SinkTypeStep, ThreadStep, BufferStep, ReadersStep DEF SinkInvariant
<1> QED BY <1>1, SinkInitInvariant, PTL DEF SinkSpec

\* self->size is the size of the segment whenever it decides about a resize,
\* across renegotiations, stops and resizes.
THEOREM SizeSafe ==
  ASSUME Orderly, ~CanFail
  PROVE  SinkSpec => []SizeIsReal
<1>1. SinkInvariant => SizeIsReal
  BY DEF SinkInvariant, SegmentKnown, SizeIsReal
<1> QED BY <1>1, SinkAlways, PTL

\* What render takes for its writer's memory is in the present segment, whatever
\* upstream had when the writer was stopped or made again: the comparison of
\* allocators in render is enough.
THEOREM OwnSafe ==
  ASSUME Orderly, ~CanFail
  PROVE  SinkSpec => []OwnIsCurrent
<1>1. ASSUME SinkInvariant PROVE OwnIsCurrent
  <2> SUFFICES ASSUME NEW b \in bufs, open, b.own
               PROVE  b.seg = seg /\ seg # 0 /\ b.size <= len[seg]
    BY DEF OwnIsCurrent
  <2>1. kpc = "idle" /\ b.seg = seg /\ b.size <= size
    BY <1>1 DEF SinkInvariant, OneBuffer
  <2>2. seg # 0 /\ len[seg] = size
    BY <1>1, <2>1 DEF SinkInvariant, InStep, SegmentKnown
  <2> QED BY <2>1, <2>2
<1> QED BY <1>1, SinkAlways, PTL

\* A callback is given the frame that was rendered last, whole, in the segment
\* it was written to, for any number of readers and whatever sizes follow one
\* another.
THEOREM SentSafe ==
  ASSUME Orderly, ~CanFail
  PROVE  SinkSpec => []SentIsFrame
<1>1. ASSUME SinkInvariant PROVE SentIsFrame
  <2> SUFFICES ASSUME NEW r \in Readers, rpc[r] = "cb"
               PROVE  /\ rseg[r] = seg /\ store[seg] = sent
                      /\ msg[r] = cur.size /\ msg[r] <= len[seg]
    BY DEF SentIsFrame
  <2>1. kpc = "render" /\ wpc = "idle" /\ msg[r] = cur.size /\ rseg[r] = seg
    BY <1>1 DEF SinkInvariant, SinkReaders, Busy
  <2>2. open /\ cur.size <= alloc /\ len[seg] = alloc
    BY <1>1, <2>1 DEF SinkInvariant, InStep, SegmentKnown
  <2> QED BY <1>1, <2>1, <2>2 DEF SinkInvariant, Rendered
<1> QED BY <1>1, SinkAlways, PTL

\* The sink keeps the contract under which WriterShm proves that a callback reads
\* the segment of its frame: whatever upstream asks for, the sink's resizes grow
\* and the next frame it announces fills the new segment.
THEOREM SinkGrows ==
  ASSUME Orderly, ~CanFail
  PROVE  SinkSpec => GrowsOnly
<1> DEFINE Allowable == Stop \/ OnCaps \/ OnCapsFails \/ Grown!Next \/ UNCHANGED vars
<1>1. ASSUME SinkInvariant, [SinkNext]_allVars PROVE Allowable
  <2> USE <1>1 DEF SinkInvariant, Grown!Next
  <2>n. /\ size \in Nat /\ alloc \in Nat /\ cur.size \in Sizes
        /\ \A b \in bufs : b.size \in Sizes /\ b.size \in Nat
    BY SizeTypes, BufferTypes DEF SinkTypeOK, SharedTypeOK
  <2>1. CASE ResizeShm
    BY <2>1 DEF ResizeShm, CreateSegment, Grown!CreateSegment, Segs, Grown!Segs, segVars,
       Grown!segVars, readerVars, Grown!readerVars
  <2>2. ASSUME NEW n \in Sizes, Notify(n), remade => n = alloc PROVE Grown!Next
    <3>1. Grown!Notify(n)
      BY <2>2 DEF Notify, Grown!Notify, segVars, Grown!segVars
    <3> QED BY <3>1
  <2>3. ASSUME NEW n \in Sizes, AllocBegin(n), kpc = "idle", open \/ n <= size
        PROVE  Allowable
    <3>1. CASE UNCHANGED vars BY <3>1
    <3>2. CASE size < n /\ ShmResize(n)
      <4>1. n > alloc
        BY <2>3, <2>n, <3>2, SizeTypes DEF InStep, SegmentKnown
      <4>2. Grown!ShmResize(n)
        BY <3>2, <4>1 DEF ShmResize, Grown!ShmResize, Grown!Allowed, DropSegment,
           Grown!DropSegment, readerVars, Grown!readerVars
      <4> QED BY <4>2
    <3> QED BY <2>3, <3>1, <3>2 DEF AllocBegin
  <2>4. CASE RenderCopy
    <3>1. kpc = "copy" /\ wpc = "open" /\ Notify(cur.size)
      BY <2>4 DEF RenderCopy, Notify
    <3>2. remade => cur.size = alloc
      BY <3>1 DEF InStep, SegmentKnown, NewSegment
    <3> QED BY <2>2, <2>n, <3>1, <3>2
  <2>5. CASE RenderRelease
    <3>1. mem # 0
      BY <2>5 DEF RenderRelease, InStep, SegmentKnown
    <3> QED BY <2>5, <3>1 DEF RenderRelease, Release, Grown!Release, segVars, Grown!segVars,
               readerVars, Grown!readerVars
  <2>6. CASE RenderReturn
    BY <2>6 DEF RenderReturn, AccessBegin, Grown!AccessBegin, Locked, Grown!Locked, KeepSegment,
       Grown!KeepSegment, segVars, Grown!segVars, readerVars, Grown!readerVars
  <2>7. ASSUME NEW n \in Sizes, NEW o \in BOOLEAN, Alloc(n, o) PROVE Allowable
    BY <2>3, <2>7 DEF Alloc
  <2>8. ASSUME NEW b \in bufs, RenderOther(b) PROVE Allowable
    BY <2>3, <2>8, <2>n DEF RenderOther
  <2>9. ASSUME NEW b \in bufs, NEW n \in Sizes, RenderOwn(b, n) PROVE Allowable
    <3>1. kpc = "idle" /\ open /\ b.own /\ n = b.size /\ Notify(n)
      BY <2>9 DEF RenderOwn, NeedNewMemory
    <3>2. remade => n = alloc
      BY <3>1 DEF InStep, SegmentKnown, NewSegment
    <3> QED BY <2>2, <3>1, <3>2
  <2>10. ASSUME NEW r \in Readers, ReaderNext(r) PROVE Allowable
    BY <2>10 DEF ReaderNext, Attach, Join, Update, Callback, CallbackEnd, Leave, MustAttach,
       Grown!Attach, Grown!Join, Grown!Update, Grown!Callback, Grown!CallbackEnd, Grown!Leave,
       Grown!MustAttach, segVars, Grown!segVars, writerVars, Grown!writerVars
  <2>11. CASE AllocReturn BY <2>11 DEF AllocReturn
  <2>12. ASSUME NEW n \in Sizes, SetInitialSize(n) \/ Foreign(n) PROVE Allowable
    BY <2>12 DEF SetInitialSize, Foreign
  <2>13. ASSUME NEW b \in bufs, Fill(b) \/ Drop(b) \/ RenderRefused(b) PROVE Allowable
    BY <2>13 DEF Fill, Drop, RenderRefused
  <2>14. CASE UNCHANGED allVars BY <2>14 DEF allVars
  <2>15. CASE Stop \/ OnCaps \/ OnCapsFails BY <2>15
  <2> QED BY <2>1, <2>4, <2>5, <2>6, <2>7, <2>8, <2>9, <2>10, <2>11, <2>12, <2>13, <2>14, <2>15
             DEF SinkNext
<1>2. SinkInvariant /\ [SinkNext]_allVars => [Stop \/ OnCaps \/ OnCapsFails \/ Grown!Next]_vars
  BY <1>1
<1> QED BY <1>2, SinkAlways, PTL DEF SinkSpec, GrowsOnly

=============================================================================
