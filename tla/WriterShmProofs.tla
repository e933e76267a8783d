-------------------------- MODULE WriterShmProofs --------------------------
(***************************************************************************)
(* Proofs about WriterShm, for any set of readers, any sizes, any number   *)
(* of segments and a shmget that may fail, in which case the accesses are  *)
(* written to (Growing): one that is not may be announced without memory.  *)
(***************************************************************************)
EXTENDS WriterShm, TLAPS

USE SizesAssumption, MaxSegsAssumption, CanFailAssumption, GrowingAssumption

-----------------------------------------------------------------------------
(* The inductive invariants.                                               *)

\* What the Writer knows of its segment is true, in the middle of a resize and
\* after a shmget that failed too.
WriterKnows ==
  /\ mem = seg /\ seg <= made /\ objSize = alloc
  /\ wpc = "resize" => seg = 0 /\ remade
  /\ wpc = "idle" => seg # 0
  /\ seg # 0 => len[seg] = alloc
  /\ seg = 0 => wpc = "resize" \/ CanFail
  /\ wpc = "open" /\ op = "copy" => want <= alloc

Busy(r) == rpc[r] \in {"told", "lock", "cb"}

\* Sizes never shrink, so that no reader has seen a greater size than the one of
\* the segment.
SizesGrow ==
  /\ wpc = "resize" => want > alloc
  /\ \A r \in Readers : rsize[r] <= alloc /\ (rpc[r] = "joining" => rsize[r] = 0)

\* A reader that handles an update is attached to the writer's segment once it
\* has compared the sizes, and the sizes differ if it is not before.
BusyReaders ==
  \A r \in Readers : Busy(r) =>
    /\ wpc \in {"notified", "idle"}
    /\ msg[r] # 0 /\ msg[r] <= alloc
    /\ rpc[r] = "cb" => wpc = "idle"
    /\ rpc[r] # "told" => rseg[r] = seg
    /\ rpc[r] = "told" /\ rseg[r] # seg => msg[r] # rsize[r]

\* A reader that waits with a segment that is not the writer's has not seen an
\* update yet, or the access that made the segment is still to announce a frame
\* greater than any this reader has seen.
WaitingReaders ==
  \A r \in Readers : rpc[r] \in {"joining", "idle"} /\ rseg[r] # seg =>
    \/ rsize[r] = 0
    \/ wpc = "resize"
    \/ wpc = "open" /\ remade /\ rsize[r] < alloc

ReaderInvariant == SizesGrow /\ BusyReaders /\ WaitingReaders

-----------------------------------------------------------------------------
(* Types, and what the Writer knows.                                       *)

\* The state that Writer's constructor leaves is well typed.
LEMMA TypeInit == Init => TypeOK
<1> SUFFICES ASSUME Init PROVE TypeOK
  OBVIOUS
<1> USE DEF Init, Segs, SizesOrZero
<1>1. len \in [Segs -> SizesOrZero] /\ want \in Sizes /\ alloc \in Sizes /\ objSize \in Sizes
  OBVIOUS
<1>2. /\ rpc \in [Readers -> {"off", "joining", "idle", "told", "lock", "cb"}]
      /\ rseg \in [Readers -> Segs \cup {0}]
      /\ rsize \in [Readers -> SizesOrZero] /\ msg \in [Readers -> SizesOrZero]
  OBVIOUS
<1>3. seg \in Segs /\ made \in Segs /\ mem \in Segs
  OBVIOUS
<1> QED BY <1>1, <1>2, <1>3 DEF TypeOK

\* Every step keeps the types.
LEMMA TypeStep == TypeOK /\ [Next]_vars => TypeOK'
<1> SUFFICES ASSUME TypeOK, [Next]_vars PROVE TypeOK'
  OBVIOUS
<1> USE DEF TypeOK, Segs, SizesOrZero, segVars, writerVars, readerVars,
            KeepSegment, DropSegment
<1>1. CASE AccessBegin BY <1>1 DEF AccessBegin
<1>2. CASE CreateSegment BY <1>2 DEF CreateSegment
<1>3. CASE Release BY <1>3 DEF Release
<1>4. ASSUME NEW n \in Sizes, CopyBegin(n) PROVE TypeOK' BY <1>4 DEF CopyBegin
<1>5. ASSUME NEW n \in Sizes, AccessResize(n) PROVE TypeOK' BY <1>5 DEF AccessResize
<1>6. ASSUME NEW n \in Sizes, AccessPtrResize(n) PROVE TypeOK'
  BY <1>6 DEF AccessPtrResize
<1>7. ASSUME NEW n \in Sizes, ShmResize(n) PROVE TypeOK' BY <1>7 DEF ShmResize
<1>8. ASSUME NEW n \in Sizes, Notify(n) PROVE TypeOK' BY <1>8 DEF Notify
<1>9. ASSUME NEW r \in Readers, Attach(r) PROVE TypeOK' BY <1>9 DEF Attach
<1>10. ASSUME NEW r \in Readers, Join(r) PROVE TypeOK' BY <1>10 DEF Join
<1>11. ASSUME NEW r \in Readers, Update(r) PROVE TypeOK' BY <1>11 DEF Update
<1>12. ASSUME NEW r \in Readers, Callback(r) PROVE TypeOK' BY <1>12 DEF Callback
<1>13. ASSUME NEW r \in Readers, CallbackEnd(r) PROVE TypeOK' BY <1>13 DEF CallbackEnd
<1>14. ASSUME NEW r \in Readers, Leave(r) PROVE TypeOK' BY <1>14 DEF Leave
<1>15. CASE UNCHANGED vars BY <1>15 DEF vars
<1> QED BY <1>1, <1>2, <1>3, <1>4, <1>5, <1>6, <1>7, <1>8, <1>9, <1>10, <1>11,
           <1>12, <1>13, <1>14, <1>15 DEF Next

\* Every step keeps what the Writer knows true: a segment is made, dropped or
\* kept together with its size, and an access without one is never released.
LEMMA WriterStep ==
  ASSUME CanFail => Growing, TypeOK, WriterKnows, [Next]_vars
  PROVE  WriterKnows'
<1> USE DEF TypeOK, WriterKnows, Segs, SizesOrZero, segVars, writerVars, readerVars,
            KeepSegment, DropSegment, Locked
<1>1. CASE AccessBegin BY <1>1 DEF AccessBegin
<1>2. CASE CreateSegment BY <1>2 DEF CreateSegment
<1>3. CASE Release BY <1>3 DEF Release
<1>4. ASSUME NEW n \in Sizes, CopyBegin(n) PROVE WriterKnows'
  BY <1>4 DEF CopyBegin, Fits
<1>5. ASSUME NEW n \in Sizes, AccessResize(n) PROVE WriterKnows'
  BY <1>5 DEF AccessResize
<1>6. ASSUME NEW n \in Sizes, AccessPtrResize(n) PROVE WriterKnows'
  BY <1>6 DEF AccessPtrResize
<1>7. ASSUME NEW n \in Sizes, ShmResize(n) PROVE WriterKnows' BY <1>7 DEF ShmResize
<1>8. ASSUME NEW n \in Sizes, Notify(n) PROVE WriterKnows' BY <1>8 DEF Notify
<1>9. ASSUME NEW r \in Readers,
             Attach(r) \/ Join(r) \/ Update(r) \/ Callback(r) \/ CallbackEnd(r) \/ Leave(r)
      PROVE  WriterKnows'
  BY <1>9 DEF Attach, Join, Update, Callback, CallbackEnd, Leave
<1>10. CASE UNCHANGED vars BY <1>10 DEF vars
<1> QED BY <1>1, <1>2, <1>3, <1>4, <1>5, <1>6, <1>7, <1>8, <1>9, <1>10 DEF Next

\* The types and the Writer's knowledge hold in every state, whether sizes grow
\* or not, unless a shmget fails and nobody writes.
LEMMA WriterAlways ==
  ASSUME CanFail => Growing
  PROVE  Spec => [](TypeOK /\ WriterKnows)
<1>1. Init => TypeOK /\ WriterKnows
  BY TypeInit DEF Init, WriterKnows, Segs
<1>2. TypeOK /\ WriterKnows /\ [Next]_vars => (TypeOK /\ WriterKnows)'
  BY TypeStep, WriterStep
<1> QED BY <1>1, <1>2, PTL DEF Spec

\* Between two writes alloc_size_ and the size of the sysVShm object are those of
\* the segment of the path, whatever resizes came before, and failures too if the
\* accesses are written to.
THEOREM AllocSafe ==
  ASSUME CanFail => Growing
  PROVE  Spec => []AllocIsReal
<1>1. TypeOK /\ WriterKnows => AllocIsReal
  BY DEF WriterKnows, AllocIsReal
<1> QED BY <1>1, WriterAlways, PTL

\* Sizes are numbers.
LEMMA SizeTypes ==
  ASSUME TypeOK, NEW r \in Readers
  PROVE  rsize[r] \in Nat /\ msg[r] \in Nat /\ alloc \in Nat /\ want \in Nat
<1>1. rsize[r] \in Sizes \cup {0} /\ msg[r] \in Sizes \cup {0}
  BY DEF TypeOK, SizesOrZero
<1>2. alloc \in Sizes /\ want \in Sizes
  BY DEF TypeOK
<1>3. Sizes \cup {0} \subseteq Nat
  OBVIOUS
<1> QED BY <1>1, <1>2, <1>3, Zenon

-----------------------------------------------------------------------------
(* The readers, when accesses only grow the segment.                       *)

\* Every step keeps the readers' invariant.
LEMMA ReaderStep ==
  ASSUME Growing, TypeOK, WriterKnows, ReaderInvariant, [Next]_vars
  PROVE  ReaderInvariant'
<1> USE DEF TypeOK, WriterKnows, Segs, SizesOrZero, segVars, writerVars, readerVars,
            KeepSegment, DropSegment, Locked, Busy,
            ReaderInvariant, SizesGrow, BusyReaders, WaitingReaders
<1>1. CASE AccessBegin BY <1>1 DEF AccessBegin
<1>2. CASE CreateSegment
  <2>1. alloc' = want /\ want > alloc /\ remade' /\ wpc' = "open" /\ UNCHANGED readerVars
    BY <1>2 DEF CreateSegment
  <2>2. \A r \in Readers : rsize[r] < want /\ ~Busy(r)
    <3> TAKE r \in Readers
    <3>1. rsize[r] \in Nat /\ alloc \in Nat /\ want \in Nat BY SizeTypes
    <3>2. rsize[r] <= alloc OBVIOUS
    <3> QED BY <1>2, <2>1, <3>1, <3>2 DEF CreateSegment
  <2>3. SizesGrow'
    <3> SUFFICES ASSUME NEW r \in Readers
                 PROVE  rsize[r] <= want /\ (rpc[r] = "joining" => rsize[r] = 0)
      BY <2>1
    <3>1. rsize[r] \in Nat /\ want \in Nat BY SizeTypes
    <3> QED BY <2>2, <3>1
  <2>4. BusyReaders' BY <2>1, <2>2
  <2>5. WaitingReaders' BY <2>1, <2>2
  <2> QED BY <2>3, <2>4, <2>5
<1>3. CASE Release BY <1>3 DEF Release
<1>4. ASSUME NEW n \in Sizes, CopyBegin(n) PROVE ReaderInvariant'
  BY <1>4 DEF CopyBegin, Fits
<1>5. ASSUME NEW n \in Sizes, AccessResize(n) PROVE ReaderInvariant'
  BY <1>5 DEF AccessResize
<1>6. ASSUME NEW n \in Sizes, AccessPtrResize(n) PROVE ReaderInvariant'
  BY <1>6 DEF AccessPtrResize, Allowed
<1>7. ASSUME NEW n \in Sizes, ShmResize(n) PROVE ReaderInvariant'
  BY <1>7 DEF ShmResize, Allowed
<1>8. ASSUME NEW n \in Sizes, Notify(n) PROVE ReaderInvariant'
  <2>1. SizesGrow' BY <1>8 DEF Notify
  <2>2. n <= alloc BY <1>8 DEF Notify
  <2>3. BusyReaders'
    <3> SUFFICES ASSUME NEW r \in Readers, Busy(r)' PROVE BusyReaders!(r)'
      OBVIOUS
    <3>1. rpc[r] = "idle" /\ rpc'[r] = "told" /\ msg'[r] = n BY <1>8 DEF Notify
    <3>2. CASE rseg[r] = seg BY <1>8, <2>2, <3>1, <3>2 DEF Notify
    <3>3. CASE rseg[r] # seg BY <1>8, <2>2, <3>1, <3>3 DEF Notify
    <3> QED BY <3>2, <3>3
  <2>4. WaitingReaders' BY <1>8 DEF Notify
  <2> QED BY <2>1, <2>3, <2>4
<1>9. ASSUME NEW r \in Readers, Attach(r) PROVE ReaderInvariant' BY <1>9 DEF Attach
<1>10. ASSUME NEW r \in Readers, Join(r) PROVE ReaderInvariant' BY <1>10 DEF Join
<1>11. ASSUME NEW r \in Readers, Update(r) PROVE ReaderInvariant'
  BY <1>11 DEF Update, MustAttach
<1>12. ASSUME NEW r \in Readers, Callback(r) PROVE ReaderInvariant'
  BY <1>12 DEF Callback
<1>13. ASSUME NEW r \in Readers, CallbackEnd(r) PROVE ReaderInvariant'
  BY <1>13 DEF CallbackEnd
<1>14. ASSUME NEW r \in Readers, Leave(r) PROVE ReaderInvariant' BY <1>14 DEF Leave
<1>15. CASE UNCHANGED vars BY <1>15 DEF vars
<1> QED BY <1>1, <1>2, <1>3, <1>4, <1>5, <1>6, <1>7, <1>8, <1>9, <1>10, <1>11,
           <1>12, <1>13, <1>14, <1>15 DEF Next

\* A callback reads the segment the writer wrote to, and within it, for any
\* number of readers that come and go, if accesses only grow the segment and
\* announce the new size when they do.
THEOREM SegmentSafe == ASSUME Growing PROVE Spec => []ReadsWritersSegment
<1>1. Init => ReaderInvariant
  BY DEF Init, ReaderInvariant, SizesGrow, BusyReaders, WaitingReaders, Busy
<1>2. /\ TypeOK /\ WriterKnows /\ ReaderInvariant
      /\ [Next]_vars
      => ReaderInvariant'
  BY ReaderStep
<1>3. TypeOK /\ WriterKnows /\ ReaderInvariant => ReadsWritersSegment
  BY DEF TypeOK, WriterKnows, ReaderInvariant, BusyReaders, Busy, ReadsWritersSegment
<1> QED BY <1>1, <1>2, <1>3, WriterAlways, PTL DEF Spec

-----------------------------------------------------------------------------
(* The readers, whatever the resizes.                                      *)

\* A Reader has compared sizes with the segment it is attached to, which may be an
\* old one; it is attached to none only if there was none, and then the access
\* that announced the frame is never released.
Attached ==
  \A r \in Readers :
    /\ rseg[r] <= made
    /\ rseg[r] # 0 => rsize[r] <= len[rseg[r]]
    /\ rpc[r] # "off" /\ rseg[r] = 0 => rpc[r] = "lock" /\ wpc = "notified" /\ seg = 0
    /\ Busy(r) => wpc \in {"notified", "idle"}
    /\ rpc[r] = "told" => msg[r] <= alloc
    /\ rpc[r] \in {"lock", "cb"} => msg[r] = rsize[r]

\* What the comparisons are about: numbers, and segments that are there.
LEMMA AttachedTypes ==
  ASSUME TypeOK, Attached, NEW r \in Readers
  PROVE  /\ rseg[r] \in Nat /\ made \in Nat /\ seg \in Nat /\ MaxSegs \in Nat
         /\ rsize[r] \in Nat /\ msg[r] \in Nat /\ alloc \in Nat
         /\ rseg[r] # 0 => rseg[r] \in Segs /\ len[rseg[r]] \in Nat
<1>1. rseg[r] \in Segs \cup {0} /\ made \in Segs /\ seg \in Segs \cup {0}
  BY DEF TypeOK
<1>2. rseg[r] # 0 => rseg[r] \in Segs /\ len[rseg[r]] \in SizesOrZero
  BY <1>1 DEF TypeOK
<1>3. SizesOrZero \subseteq Nat
  BY DEF SizesOrZero
<1>4. rseg[r] # 0 => len[rseg[r]] \in Nat
  BY <1>2, <1>3, Zenon
<1>5. rseg[r] \in Nat /\ made \in Nat /\ seg \in Nat /\ MaxSegs \in Nat
  BY <1>1 DEF Segs
<1> QED BY <1>2, <1>4, <1>5, SizeTypes

\* Every step keeps the readers' segments large enough: a new segment has a new
\* number, and an announced size is within the writer's segment.
LEMMA AttachedStep ==
  ASSUME CanFail => Growing, TypeOK, WriterKnows, Attached, [Next]_vars
  PROVE  Attached'
<1> USE DEF TypeOK, WriterKnows, segVars, writerVars, readerVars,
            KeepSegment, DropSegment, Locked, Busy
<1> SUFFICES ASSUME NEW r \in Readers PROVE Attached!(r)'
  BY DEF Attached
<1>a. Attached!(r)
  BY DEF Attached
<1>t. /\ rseg[r] \in Nat /\ made \in Nat /\ seg \in Nat
      /\ rsize[r] \in Nat /\ msg[r] \in Nat /\ alloc \in Nat
      /\ rseg[r] # 0 => rseg[r] \in Segs /\ len[rseg[r]] \in Nat
  BY AttachedTypes
<1>1. CASE AccessBegin BY <1>1, <1>a DEF AccessBegin
<1>2. CASE CreateSegment
  <2>1. made' >= made /\ (rseg[r] # 0 => len'[rseg[r]] = len[rseg[r]])
    BY <1>2, <1>a, <1>t DEF CreateSegment, Segs
  <2>2. UNCHANGED readerVars /\ wpc = "resize"
    BY <1>2 DEF CreateSegment
  <2>3. rpc[r] # "told" /\ ~Busy(r)
    BY <1>a, <2>2
  <2>4. rseg[r] <= made' 
    <3>1. made' \in Nat BY <1>2, <1>t DEF CreateSegment
    <3> QED BY <1>a, <1>t, <2>1, <3>1
  <2> QED BY <1>a, <2>1, <2>2, <2>3, <2>4
<1>3. CASE Release BY <1>3, <1>a DEF Release
<1>4. ASSUME NEW n \in Sizes, CopyBegin(n) PROVE Attached!(r)'
  BY <1>4, <1>a DEF CopyBegin
<1>5. ASSUME NEW n \in Sizes, AccessResize(n) PROVE Attached!(r)'
  BY <1>5, <1>a DEF AccessResize
<1>6. ASSUME NEW n \in Sizes, AccessPtrResize(n) PROVE Attached!(r)'
  BY <1>6, <1>a DEF AccessPtrResize
<1>7. ASSUME NEW n \in Sizes, ShmResize(n) PROVE Attached!(r)'
  BY <1>7, <1>a DEF ShmResize
<1>8. ASSUME NEW n \in Sizes, Notify(n) PROVE Attached!(r)'
  <2>1. n <= alloc
    BY <1>8 DEF Notify
  <2>2. UNCHANGED <<segVars, rseg, rsize, alloc>> /\ wpc = "open" /\ wpc' = "notified"
    BY <1>8 DEF Notify
  <2>3. CASE rpc[r] = "idle"
    <3>1. rpc'[r] = "told" /\ msg'[r] = n BY <1>8, <2>3 DEF Notify
    <3> QED BY <1>a, <2>1, <2>2, <2>3, <3>1
  <2>4. CASE rpc[r] # "idle"
    <3>1. rpc'[r] = rpc[r] /\ msg'[r] = msg[r] BY <1>8, <2>4 DEF Notify
    <3> QED BY <1>a, <2>2, <3>1
  <2> QED BY <2>3, <2>4
<1>9. ASSUME NEW q \in Readers, Attach(q) PROVE Attached!(r)'
  <2>1. CASE q = r
    <3>1. rpc'[r] = "joining" /\ rseg'[r] = seg /\ rsize'[r] = 0 /\ seg # 0
      BY <1>9, <2>1 DEF Attach
    <3>2. len[seg] \in Nat
      BY <3>1 DEF SizesOrZero
    <3> QED BY <1>9, <1>t, <3>1, <3>2 DEF Attach
  <2>2. CASE q # r BY <1>9, <1>a, <2>2 DEF Attach
  <2> QED BY <2>1, <2>2
<1>10. ASSUME NEW q \in Readers, Join(q) PROVE Attached!(r)' BY <1>10, <1>a DEF Join
<1>11. ASSUME NEW q \in Readers, Update(q) PROVE Attached!(r)'
  <2>1. CASE q = r
    <3>1. rpc'[r] = "lock" /\ rpc[r] = "told" /\ rsize'[r] = msg[r] /\ msg' = msg
          /\ UNCHANGED <<segVars, writerVars>>
      BY <1>11, <2>1 DEF Update
    <3>2. CASE msg[r] # rsize[r]
      <4>1. rseg'[r] = seg BY <1>11, <2>1, <3>2 DEF Update, MustAttach
      <4>2. CASE seg = 0 BY <1>a, <3>1, <4>1, <4>2
      <4>3. CASE seg # 0 BY <1>a, <1>t, <3>1, <4>1, <4>3
      <4> QED BY <4>2, <4>3
    <3>3. CASE msg[r] = rsize[r]
      <4>1. rseg'[r] = rseg[r] BY <1>11, <2>1, <3>3 DEF Update, MustAttach
      <4> QED BY <1>a, <3>1, <3>3, <4>1
    <3> QED BY <3>2, <3>3
  <2>2. CASE q # r
    <3>1. rpc'[r] = rpc[r] /\ rseg'[r] = rseg[r] /\ rsize'[r] = rsize[r] /\ msg' = msg
          /\ UNCHANGED <<segVars, writerVars>>
      BY <1>11, <2>2 DEF Update
    <3> QED BY <1>a, <3>1
  <2> QED BY <2>1, <2>2
<1>12. ASSUME NEW q \in Readers, Callback(q) PROVE Attached!(r)'
  BY <1>12, <1>a DEF Callback
<1>13. ASSUME NEW q \in Readers, CallbackEnd(q) PROVE Attached!(r)'
  BY <1>13, <1>a DEF CallbackEnd
<1>14. ASSUME NEW q \in Readers, Leave(q) PROVE Attached!(r)'
  BY <1>14, <1>a, <1>t DEF Leave
<1>15. CASE UNCHANGED vars BY <1>15, <1>a DEF vars
<1> QED BY <1>1, <1>2, <1>3, <1>4, <1>5, <1>6, <1>7, <1>8, <1>9, <1>10, <1>11,
           <1>12, <1>13, <1>14, <1>15 DEF Next

\* A callback reads within the segment its Reader is attached to, for any use of
\* the Writer that announces no more than it has allocated: also when segments
\* shrink, or are replaced between frames of equal size.  When shmget may fail,
\* the accesses must be written to.
THEOREM WithinSegment ==
  ASSUME CanFail => Growing
  PROVE  Spec => []ReadsWithinSegment
<1>1. Init => Attached
  BY DEF Init, Attached, Busy
<1>2. TypeOK /\ WriterKnows /\ Attached /\ [Next]_vars => Attached'
  BY AttachedStep
<1>3. TypeOK /\ Attached => ReadsWithinSegment
  BY DEF Attached, ReadsWithinSegment
<1> QED BY <1>1, <1>2, <1>3, WriterAlways, PTL DEF Spec

-----------------------------------------------------------------------------
(* The lock.                                                               *)

Told == {r \in Readers : rpc[r] \in {"told", "lock"}}
Reading == {r \in Readers : rpc[r] = "cb"}

\* Each step of the Writer and of its readers is a step of the exchange, or none.
LEMMA ExchangeStep ==
  ASSUME TypeOK, [Next]_vars
  PROVE  [Exchange!Next]_(Exchange!vars)
<1> DEFINE pending == IF wpc = "idle" THEN Told ELSE {}
<1>0. /\ Exchange!vars = <<wpc # "idle", pending, Reading>>
      /\ Exchange!vars' = <<wpc' # "idle", pending', Reading'>>
  BY DEF Exchange!vars, Told, Reading
<1>s. ASSUME Locked, wpc' # "idle", rpc' = rpc PROVE Exchange!Next
  <2>1. wpc = "idle" /\ Told = {} /\ Reading = {} /\ Reading' = {}
    BY <1>s DEF Locked, Told, Reading
  <2> QED BY <1>s, <2>1 DEF Exchange!Next, Exchange!StartWrite, Told, Reading
<1>u. ASSUME (wpc = "idle") <=> (wpc' = "idle"), pending' = pending, Reading' = Reading
      PROVE  Exchange!vars' = Exchange!vars
  BY <1>u, <1>0
<1> HIDE DEF pending
<1> USE DEF segVars, writerVars, readerVars, KeepSegment, DropSegment
<1>1. CASE AccessBegin BY <1>1, <1>s DEF AccessBegin
<1>2. CASE CreateSegment
  BY <1>2, <1>u DEF CreateSegment, pending, Told, Reading
<1>3. CASE Release
  <2>1. wpc # "idle" /\ wpc' = "idle" /\ rpc' = rpc
    BY <1>3 DEF Release
  <2>2. Told' \in SUBSET Readers /\ Reading' = Reading
    BY <2>1 DEF Told, Reading
  <2> QED BY <2>1, <2>2 DEF Exchange!Next, Exchange!Publish, Told, Reading
<1>4. ASSUME NEW n \in Sizes, CopyBegin(n) PROVE Exchange!Next
  BY <1>4, <1>s DEF CopyBegin
<1>5. ASSUME NEW n \in Sizes, AccessResize(n) PROVE Exchange!Next
  BY <1>5, <1>s DEF AccessResize
<1>6. ASSUME NEW n \in Sizes, AccessPtrResize(n) PROVE Exchange!Next
  BY <1>6, <1>s DEF AccessPtrResize
<1>7. ASSUME NEW n \in Sizes, ShmResize(n) PROVE Exchange!vars' = Exchange!vars
  BY <1>7, <1>u DEF ShmResize, pending, Told, Reading
<1>8. ASSUME NEW n \in Sizes, Notify(n) PROVE Exchange!vars' = Exchange!vars
  <2>1. wpc = "open" /\ wpc' = "notified"
    BY <1>8 DEF Notify
  <2>2. \A r \in Readers : rpc'[r] = "cb" <=> rpc[r] = "cb"
    BY <1>8 DEF Notify
  <2>3. Reading' = Reading
    BY <2>2 DEF Reading
  <2> QED BY <2>1, <2>3, <1>u DEF pending
<1>9. ASSUME NEW r \in Readers, Attach(r) \/ Join(r) \/ Update(r) \/ Leave(r)
      PROVE  Exchange!vars' = Exchange!vars
  <2>1. UNCHANGED wpc
    BY <1>9 DEF Attach, Join, Update, Leave
  <2>2. \A q \in Readers : /\ rpc'[q] = "cb" <=> rpc[q] = "cb"
                           /\ rpc'[q] \in {"told", "lock"} <=> rpc[q] \in {"told", "lock"}
    BY <1>9 DEF TypeOK, Attach, Join, Update, Leave
  <2>3. Reading' = Reading /\ Told' = Told
    BY <2>2 DEF Reading, Told
  <2> QED BY <2>1, <2>3, <1>u DEF pending
<1>10. ASSUME NEW r \in Readers, Callback(r) PROVE Exchange!Next
  <2>1. wpc = "idle" /\ wpc' = "idle" /\ r \in Told
    BY <1>10 DEF Callback, Told
  <2>2. \A q \in Readers : q # r => rpc'[q] = rpc[q]
    BY <1>10 DEF Callback, TypeOK
  <2>3. rpc'[r] = "cb"
    BY <1>10 DEF Callback, TypeOK
  <2>4. Told' = Told \ {r} /\ Reading' = Reading \cup {r}
    BY <2>2, <2>3 DEF Told, Reading
  <2> QED BY <2>1, <2>4 DEF Exchange!Next, Exchange!StartRead, Told, Reading
<1>11. ASSUME NEW r \in Readers, CallbackEnd(r) PROVE Exchange!Next
  <2>1. wpc' = wpc /\ r \in Reading
    BY <1>11 DEF CallbackEnd, Reading
  <2>2. \A q \in Readers : q # r => rpc'[q] = rpc[q]
    BY <1>11 DEF CallbackEnd, TypeOK
  <2>3. rpc'[r] = "idle" /\ rpc[r] = "cb"
    BY <1>11 DEF CallbackEnd, TypeOK
  <2>4. Told' = Told /\ Reading' = Reading \ {r}
    BY <2>2, <2>3 DEF Told, Reading
  <2> QED BY <2>1, <2>4 DEF Exchange!Next, Exchange!EndRead, Told, Reading
<1>12. CASE UNCHANGED vars
  BY <1>12, <1>u DEF vars, pending, Told, Reading
<1> QED BY <1>1, <1>2, <1>3, <1>4, <1>5, <1>6, <1>7, <1>8, <1>9, <1>10, <1>11,
           <1>12 DEF Next

\* The five ways to write, their resizes and the readers use the lock the way
\* FrameExchange has it: what is proved of the semaphores (SysVSemProofs) is what
\* this module takes for granted.
THEOREM SegmentsUseExchange == Spec => UsesExchange
<1>1. Init => Exchange!Init
  BY DEF Init, Exchange!Init
<1>2. TypeOK /\ [Next]_vars => [Exchange!Next]_(Exchange!vars)
  BY ExchangeStep
<1> QED BY <1>1, <1>2, TypeInit, TypeStep, PTL DEF Spec, UsesExchange, Exchange!Spec
=============================================================================
