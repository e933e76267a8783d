--------------------------- MODULE SysVSemProofs ---------------------------
(***************************************************************************)
(* Proofs about SysVSem, for any finite set of readers, any number of      *)
(* frames and any socket buffer.                                           *)
(***************************************************************************)
EXTENDS SysVSem, FiniteSetTheorems, TLAPS

USE ReadersAssumption, CrashingAssumption, NumFramesAssumption,
    MaxQueueAssumption, TimingAssumption

-----------------------------------------------------------------------------
(* Type correctness.                                                       *)

\* The next frame number is a frame number, and the mark of torn memory is none.
LEMMA FrameTypes ==
  /\ 0 \in Frames /\ Torn \notin Frames
  /\ \A f \in Frames : (f + 1) % NumFrames \in Frames
BY DEF Frames, Torn

\* The state that Writer's constructor leaves is well typed.
LEMMA TypeInit == Init => TypeOK
<1> SUFFICES ASSUME Init PROVE TypeOK
  OBVIOUS
<1>1. upd \in [Readers -> Seq(Frames)]
  BY DEF Init
<1>2. /\ rpc \in [Readers -> {"off", "idle", "lock", "cb", "unlock", "dead"}]
      /\ quit \in [Readers -> BOOLEAN] /\ cur \in [Readers -> Frames]
  BY FrameTypes DEF Init
<1> QED BY <1>1, <1>2, FrameTypes DEF Init, TypeOK

\* What the queue of one reader becomes when an update is sent or received.
LEMMA QueueTypes ==
  ASSUME NEW q \in Seq(Frames), NEW k \in Frames
  PROVE  /\ <<>> \in Seq(Frames)
         /\ Append(q, k) \in Seq(Frames)
         /\ q # <<>> => Head(q) \in Frames /\ Tail(q) \in Seq(Frames)
OBVIOUS

\* Every step keeps the types: no semop takes a semaphore below zero.
LEMMA TypeStep == TypeOK /\ [Next]_vars => TypeOK'
<1> SUFFICES ASSUME TypeOK, [Next]_vars PROVE TypeOK'
  OBVIOUS
<1> USE FrameTypes DEF TypeOK, semVars, writerVars, serverVars, notifyVars, readerVars
<1>1. ASSUME WriterStep PROVE TypeOK'
  <2>1. CASE WriteStart BY <2>1 DEF WriteStart
  <2>2. CASE WriteLockDone BY <2>2 DEF WriteLockDone
  <2>3. CASE NotifyBegin BY <2>3 DEF NotifyBegin
  <2>4. ASSUME NEW r \in Readers, NotifySend(r) PROVE TypeOK'
    <3>1. CASE rpc[r] # "dead"
      <4>1. upd' \in [Readers -> Seq(Frames)]
        <5>1. Append(upd[r], frame) \in Seq(Frames)
          BY QueueTypes
        <5> QED BY <2>4, <3>1, <5>1 DEF NotifySend
      <4> QED BY <2>4, <3>1, <4>1 DEF NotifySend
    <3>2. CASE rpc[r] = "dead"
      BY <2>4, <3>2 DEF NotifySend
    <3> QED BY <3>1, <3>2
  <2>5. CASE NotifyEnd BY <2>5 DEF NotifyEnd
  <2>6. CASE CommitReaders
    <3>1. Cardinality(notified) \in Nat
      BY FS_Subset, FS_CardinalityType
    <3> QED BY <2>6, <3>1 DEF CommitReaders, NumReaders
  <2>7. CASE WriteEnd BY <2>7 DEF WriteEnd, WriterGone
  <2> QED BY <1>1, <2>1, <2>2, <2>3, <2>4, <2>5, <2>6, <2>7 DEF WriterStep
<1>2. CASE ResetReaders BY <1>2 DEF ResetReaders
<1>3. CASE ServerStep
  <2>1. CASE CancelCommitedReader
    <3>1. upd' \in [Readers -> Seq(Frames)]
      <4>1. <<>> \in Seq(Frames)
        OBVIOUS
      <4> QED BY <2>1, <4>1 DEF CancelCommitedReader
    <3> QED BY <2>1, <3>1 DEF CancelCommitedReader
  <2>2. CASE ServerStop BY <2>2 DEF ServerStop
  <2> QED BY <1>3, <2>1, <2>2 DEF ServerStep
<1>4. ASSUME NEW r \in Readers, Reap(r) \/ ReaderStep(r) PROVE TypeOK'
  <2>1. CASE ReapReset(r) BY <2>1 DEF ReapReset
  <2>2. CASE ReapEof(r) BY <2>2, QueueTypes DEF ReapEof
  <2>3. CASE ReadUpdate(r) BY <2>3, QueueTypes DEF ReadUpdate
  <2>4. CASE ReadQuit(r) BY <2>4 DEF ReadQuit
  <2>5. CASE ReadLock(r) BY <2>5 DEF ReadLock
  <2>6. CASE CallbackEnd(r) BY <2>6 DEF CallbackEnd
  <2>7. CASE ReadUnlock(r) BY <2>7 DEF ReadUnlock
  <2> QED BY <1>4, <2>1, <2>2, <2>3, <2>4, <2>5, <2>6, <2>7 DEF Reap, ReaderStep
<1>5. CASE Environment
  <2>1. CASE WriteLockBegin BY <2>1 DEF WriteLockBegin
  <2>2. CASE NoNotify BY <2>2 DEF NoNotify
  <2>3. CASE DestroySem BY <2>3 DEF DestroySem
  <2>4. CASE WriterCrash BY <2>4 DEF WriterCrash
  <2>5. CASE ForceSemaphoreCleaning BY <2>5 DEF ForceSemaphoreCleaning
  <2>6. ASSUME NEW r \in Readers, Join(r) PROVE TypeOK'
    BY <2>6, QueueTypes DEF Join
  <2>7. ASSUME NEW r \in Readers, Leave(r) PROVE TypeOK'
    BY <2>7 DEF Leave
  <2>8. ASSUME NEW r \in Readers, ReaderCrash(r) PROVE TypeOK'
    BY <2>8 DEF ReaderCrash
  <2> QED BY <1>5, <2>1, <2>2, <2>3, <2>4, <2>5, <2>6, <2>7, <2>8 DEF Environment
<1>6. CASE UNCHANGED vars BY <1>6 DEF vars
<1> QED BY <1>1, <1>2, <1>3, <1>4, <1>5, <1>6 DEF Next

\* Every variable of the lock keeps its type, semaphores that never go below
\* zero included, whatever the timing of the reset thread.
THEOREM TypeCorrect == Spec => []TypeOK
BY TypeInit, TypeStep, PTL DEF Spec

-----------------------------------------------------------------------------
(* The lock's inductive invariant.                                         *)

\* Cardinalities of the sets of readers the semaphores count.
LEMMA CardFacts ==
  ASSUME NEW S \in SUBSET Readers
  PROVE  /\ Cardinality(S) \in Nat
         /\ Cardinality(S) = 0 <=> S = {}
         /\ \A r \in Readers \ S : Cardinality(S \cup {r}) = Cardinality(S) + 1
         /\ \A r \in S : Cardinality(S \ {r}) = Cardinality(S) - 1
<1>1. IsFiniteSet(S)
  BY FS_Subset
<1>2. \A r \in Readers \ S : Cardinality(S \cup {r}) = Cardinality(S) + 1
  BY <1>1, FS_AddElement
<1>3. \A r \in S : Cardinality(S \ {r}) = Cardinality(S) - 1
  BY <1>1, FS_RemoveElement
<1> QED BY <1>1, <1>2, <1>3, FS_CardinalityType, FS_EmptySet

\* No reader owes anything when the semaphores have just been created.
LEMMA InvInit == Init => SemInvariant
<1> SUFFICES ASSUME Init PROVE SemInvariant
  OBVIOUS
<1>1. TypeOK
  BY TypeInit
<1>2. SemaphoresCount
  BY FS_EmptySet DEF Init, SemaphoresCount, Token, Uncommited, Accessing
<1>3. DebtsKnown
  BY DEF Init, DebtsKnown, Alive, Busy
<1>4. CurrentFrameOnly
  BY DEF Init, CurrentFrameOnly, Alive, Busy
<1>5. MemoryGuarded
  BY DEF Init, MemoryGuarded, Accessing
<1>6. ThreadsInPlace
  BY DEF Init, ThreadsInPlace
<1> QED BY <1>1, <1>2, <1>3, <1>4, <1>5, <1>6 DEF SemInvariant

\* SemInvariant without the types.
Parts == SemaphoresCount /\ DebtsKnown /\ CurrentFrameOnly /\ MemoryGuarded
         /\ ThreadsInPlace

\* Every step keeps the count of semaphore 0, given that the timeout expires
\* only behind readers that are gone.
LEMMA InvStep ==
  ASSUME Timing = "reasonable", SemInvariant, TypeOK', [Next]_vars
  PROVE  Parts'
<1> USE DEF SemInvariant, TypeOK, Parts, SemaphoresCount, DebtsKnown,
            CurrentFrameOnly, MemoryGuarded, ThreadsInPlace, Token, Uncommited,
            Accessing, Alive, Busy,
            semVars, writerVars, serverVars, notifyVars, readerVars
<1>c. /\ Cardinality(debt) \in Nat /\ Cardinality(notified) \in Nat
      /\ Cardinality(debt) = 0 <=> debt = {}
      /\ Cardinality({}) = 0
  BY CardFacts
<1>1. ASSUME WriterStep PROVE Parts'
  <2>1. CASE WriteStart BY <1>c, <2>1 DEF WriteStart, ReadersDone
  <2>2. CASE WriteLockDone BY <1>c, <2>2 DEF WriteLockDone
  <2>3. CASE NotifyBegin BY <1>c, <2>3 DEF NotifyBegin
  <2>4. ASSUME NEW r \in Readers, NotifySend(r) PROVE Parts'
    <3>1. CASE rpc[r] = "dead" BY <1>c, <2>4, <3>1 DEF NotifySend
    <3>2. CASE rpc[r] # "dead"
      <4>1. r \notin notified /\ r \notin debt
        BY <2>4 DEF NotifySend
      <4>2. /\ Cardinality(debt \cup {r}) = Cardinality(debt) + 1
            /\ Cardinality(notified \cup {r}) = Cardinality(notified) + 1
        <5>1. debt \in SUBSET Readers /\ notified \in SUBSET Readers
          OBVIOUS
        <5> HIDE DEF SemInvariant
        <5> QED BY <4>1, <5>1, CardFacts
      <4>3. upd[r] = <<>> /\ ~Busy(r)
        BY <4>1, <3>2
      <4>4. upd' = [upd EXCEPT ![r] = <<frame>>]
        BY <2>4, <3>2, <4>3 DEF NotifySend
      <4>5. SemaphoresCount' /\ MemoryGuarded' /\ ThreadsInPlace'
        <5>1. SemaphoresCount'
          <6>1. /\ wpc = "notify" /\ UNCHANGED <<wpc, semid, sem0, sem1>>
                /\ debt' = debt \cup {r} /\ notified' = notified \cup {r}
            BY <2>4, <3>2 DEF NotifySend
          <6>2. sem0 + Cardinality(notified) = 1 + Cardinality(debt)
            BY <6>1
          <6>3. sem0 + Cardinality(notified)' = 1 + Cardinality(debt)'
            BY <1>c, <4>2, <6>1, <6>2
          <6> QED BY <6>1, <6>3
        <5>2. MemoryGuarded'
          BY <2>4, <3>2 DEF NotifySend
        <5>3. ThreadsInPlace'
          BY <2>4, <3>2 DEF NotifySend
        <5> QED BY <5>1, <5>2, <5>3
      <4>6. DebtsKnown' /\ CurrentFrameOnly'
        BY <2>4, <3>2, <4>3, <4>4 DEF NotifySend
      <4> QED BY <4>5, <4>6
    <3> QED BY <3>1, <3>2
  <2>5. CASE NotifyEnd BY <1>c, <2>5 DEF NotifyEnd
  <2>6. CASE CommitReaders BY <1>c, <2>6 DEF CommitReaders, NumReaders
  <2>7. CASE WriteEnd BY <1>c, <2>7 DEF WriteEnd, WriterGone
  <2> QED BY <1>1, <2>1, <2>2, <2>3, <2>4, <2>5, <2>6, <2>7 DEF WriterStep
<1>2. CASE ResetReaders BY <1>c, <1>2 DEF ResetReaders, TimeoutExpires, OnlyDeadReadersOwe
<1>3. CASE ServerStep
  <2>1. CASE CancelCommitedReader
    <3>1. victim \in debt /\ Cardinality(debt \ {victim}) = Cardinality(debt) - 1
      BY <2>1, CardFacts DEF CancelCommitedReader
    <3>2. SemaphoresCount' /\ MemoryGuarded' /\ ThreadsInPlace'
      BY <1>c, <2>1, <3>1 DEF CancelCommitedReader
    <3>3. DebtsKnown' /\ CurrentFrameOnly'
      BY <2>1, <3>1 DEF CancelCommitedReader
    <3> QED BY <3>2, <3>3
  <2>2. CASE ServerStop BY <1>c, <2>2 DEF ServerStop
  <2> QED BY <1>3, <2>1, <2>2 DEF ServerStep
<1>4. ASSUME NEW r \in Readers, Reap(r) \/ ReaderStep(r) PROVE Parts'
  <2>1. CASE ReapReset(r) BY <1>c, <2>1 DEF ReapReset
  <2>2. CASE ReapEof(r) BY <1>c, <2>2 DEF ReapEof
  <2>3. CASE ReadUpdate(r) BY <1>c, <2>3 DEF ReadUpdate
  <2>4. CASE ReadQuit(r) BY <1>c, <2>4 DEF ReadQuit
  <2>5. CASE ReadLock(r) BY <1>c, <2>5 DEF ReadLock, WriterAway
  <2>6. CASE CallbackEnd(r) BY <1>c, <2>6 DEF CallbackEnd
  <2>7. CASE ReadUnlock(r)
    <3>1. r \in debt /\ Cardinality(debt \ {r}) = Cardinality(debt) - 1
      BY <2>7, CardFacts DEF ReadUnlock
    <3>2. SemaphoresCount' /\ MemoryGuarded' /\ ThreadsInPlace'
      BY <1>c, <2>7, <3>1 DEF ReadUnlock
    <3>3. DebtsKnown' /\ CurrentFrameOnly'
      BY <2>7, <3>1 DEF ReadUnlock
    <3> QED BY <3>2, <3>3
  <2> QED BY <1>4, <2>1, <2>2, <2>3, <2>4, <2>5, <2>6, <2>7 DEF Reap, ReaderStep
<1>5. CASE Environment
  <2>1. CASE WriteLockBegin BY <1>c, <2>1 DEF WriteLockBegin
  <2>2. CASE NoNotify BY <1>c, <2>2 DEF NoNotify
  <2>3. CASE DestroySem BY <1>c, <2>3 DEF DestroySem
  <2>4. CASE WriterCrash BY <1>c, <2>4 DEF WriterCrash
  <2>5. CASE ForceSemaphoreCleaning BY <1>c, <2>5 DEF ForceSemaphoreCleaning
  <2>6. ASSUME NEW r \in Readers, Join(r) PROVE Parts'
    BY <1>c, <2>6 DEF Join
  <2>7. ASSUME NEW r \in Readers, Leave(r) PROVE Parts'
    BY <1>c, <2>7 DEF Leave
  <2>8. ASSUME NEW r \in Readers, ReaderCrash(r) PROVE Parts'
    BY <1>c, <2>8 DEF ReaderCrash
  <2> QED BY <1>5, <2>1, <2>2, <2>3, <2>4, <2>5, <2>6, <2>7, <2>8 DEF Environment
<1>6. CASE UNCHANGED vars BY <1>6 DEF vars
<1> QED BY <1>1, <1>2, <1>3, <1>4, <1>5, <1>6 DEF Next

\* With a reasonable timeout, semaphore 0 always counts the writer and the
\* readers that owe a unit, and semaphore 1 is up exactly during an access.
THEOREM SemSafe ==
  ASSUME Timing = "reasonable"
  PROVE  Spec => []SemInvariant
<1>1. SemInvariant => TypeOK
  BY DEF SemInvariant
<1>2. SemInvariant /\ [Next]_vars => SemInvariant'
  BY <1>1, TypeStep, InvStep DEF SemInvariant, Parts
<1> QED BY InvInit, <1>2, PTL DEF Spec

\* With a reasonable timeout, a callback always runs on the whole frame its
\* update announced, for any number of readers, killed ones included.
THEOREM FrameSafe ==
  ASSUME Timing = "reasonable"
  PROVE  Spec => []ReadsAnnouncedFrame
<1>1. SemInvariant => ReadsAnnouncedFrame
  BY DEF SemInvariant, CurrentFrameOnly, MemoryGuarded, ReadsAnnouncedFrame,
         Alive, Busy
<1> QED BY <1>1, SemSafe, PTL

\* With a reasonable timeout, neither ~WriteLock nor ~ReadLock ever blocks
\* while the writer lives.
THEOREM UnlockSafe ==
  ASSUME Timing = "reasonable"
  PROVE  Spec => []NoUnlockBlocks
<1>1. ASSUME SemInvariant PROVE NoUnlockBlocks
  <2> SUFFICES ASSUME wpc \notin {"closed", "crashed"}
               PROVE  /\ wpc = "writing" => sem0 > 0 /\ sem1 > 0
                      /\ \A r \in Readers : rpc[r] = "unlock" => sem0 > 0
    BY DEF NoUnlockBlocks
  <2> USE <1>1 DEF SemInvariant, TypeOK, SemaphoresCount, Token, Uncommited, Accessing
  <2>1. Cardinality(debt) \in Nat /\ (Cardinality(debt) = 0 <=> debt = {})
    BY CardFacts
  <2>2. wpc = "writing" => sem0 > 0 /\ sem1 > 0
    BY <2>1
  <2>3. ASSUME NEW r \in Readers, rpc[r] = "unlock" PROVE sem0 > 0
    <3>1. r \in debt /\ ~Accessing
      BY <2>3 DEF DebtsKnown, MemoryGuarded, Alive, Busy
    <3> QED BY <2>1, <3>1
  <2> QED BY <2>2, <2>3
<1> QED BY <1>1, SemSafe, PTL

\* With a reasonable timeout, the writer goes on to the next frame only when
\* every living reader is done with the previous one.
THEOREM FramesInOrder ==
  ASSUME Timing = "reasonable"
  PROVE  Spec => NoFrameSkipped
<1> DEFINE Done == \A r \in Readers : Alive(r) => upd[r] = <<>> /\ ~Busy(r)
<1>1. ASSUME SemInvariant, Next, frame' # frame PROVE Done
  <2>1. WriteStart
    BY <1>1 DEF Next, WriterStep, ServerStep, Reap, ReaderStep, Environment,
       WriteLockDone, NotifyBegin, NotifySend, NotifyEnd, CommitReaders, WriteEnd,
       ResetReaders, CancelCommitedReader, ServerStop, ReapReset, ReapEof,
       ReadUpdate, ReadQuit, ReadLock, CallbackEnd, ReadUnlock, WriteLockBegin,
       NoNotify, DestroySem, WriterCrash, ForceSemaphoreCleaning, Join, Leave,
       ReaderCrash, writerVars
  <2>2. Cardinality(debt) \in Nat /\ (Cardinality(debt) = 0 <=> debt = {})
    BY <1>1, CardFacts DEF SemInvariant, TypeOK
  <2>3. debt = {}
    BY <1>1, <2>1, <2>2 DEF WriteStart, ReadersDone, SemInvariant, TypeOK,
       SemaphoresCount, Token, Uncommited, Accessing
  <2> QED BY <1>1, <2>3 DEF SemInvariant, DebtsKnown
<1>2. SemInvariant /\ [Next]_vars => [frame' # frame => Done]_vars
  BY <1>1
<1> QED BY <1>2, SemSafe, PTL DEF Spec, NoFrameSkipped

-----------------------------------------------------------------------------
(* The lock implements FrameExchange.                                      *)

\* The readers whose callback runs.
Reading == {r \in Readers : rpc[r] = "cb"}

\* Every step of the lock is a step of the exchange or leaves it unchanged.
LEMMA ExchangeStep ==
  ASSUME SemInvariant, SemInvariant', [Next]_vars
  PROVE  [Exchange!Next]_(Exchange!vars)
<1> USE DEF SemInvariant, Alive, Busy, Accessing, writerVars, readerVars
<1> DEFINE Step == [Exchange!Next]_(Exchange!vars)
<1>s. ASSUME UNCHANGED <<rpc, upd, mem>> PROVE Step
  BY <1>s DEF Exchange!vars, Published
<1>1. ASSUME WriterStep PROVE Step
  <2>1. CASE WriteStart
    <3>1. debt = {}
      <4>1. Cardinality(debt) \in Nat /\ (Cardinality(debt) = 0 <=> debt = {})
        BY CardFacts DEF TypeOK
      <4> QED BY <2>1, <4>1 DEF WriteStart, ReadersDone, TypeOK, SemaphoresCount,
                                Token, Uncommited
    <3>2. mem # Torn
      BY <2>1, FrameTypes DEF WriteStart, TypeOK, MemoryGuarded, SemaphoresCount,
         Token
    <3>3. Published = {} /\ Reading = {}
      BY <3>1 DEF Published, Reading, DebtsKnown
    <3>4. mem' = Torn /\ Published' = {} /\ Reading' = {}
      BY <2>1, <3>3 DEF WriteStart, Published, Reading
    <3>5. Exchange!StartWrite
      BY <3>2, <3>3, <3>4 DEF Exchange!StartWrite, Reading
    <3> QED BY <3>5 DEF Exchange!Next
  <2>2. CASE WriteEnd
    <3>1. mem = Torn
      BY <2>2 DEF WriteEnd, MemoryGuarded
    <3>2. mem' # Torn /\ Reading' = Reading /\ Published' \in SUBSET Readers
      BY <2>2, FrameTypes DEF WriteEnd, Reading, Published, TypeOK
    <3> QED BY <3>1, <3>2 DEF Exchange!Publish, Exchange!Next, Reading
  <2>3. ASSUME NEW r \in Readers, NotifySend(r) PROVE Step
    <3>1. mem = Torn
      BY <2>3 DEF NotifySend, MemoryGuarded
    <3> QED BY <2>3, <3>1 DEF NotifySend, Published, Exchange!vars
  <2>4. CASE WriteLockDone \/ NotifyBegin \/ NotifyEnd \/ CommitReaders
    BY <2>4, <1>s DEF WriteLockDone, NotifyBegin, NotifyEnd, CommitReaders
  <2> QED BY <1>1, <2>1, <2>2, <2>3, <2>4 DEF WriterStep
<1>2. CASE ResetReaders \/ ServerStop
  BY <1>2, <1>s DEF ResetReaders, ServerStop
\* Only a dead reader's queue is emptied by the server.
<1>3. ASSUME NEW v \in Readers, rpc[v] = "dead", UNCHANGED <<rpc, mem>>,
             upd' = [upd EXCEPT ![v] = <<>>]
      PROVE  Step
  <2>1. \A r \in Readers : r # v => upd'[r] = upd[r]
    BY <1>3 DEF TypeOK
  <2>2. Published' = Published
    BY <1>3, <2>1 DEF Published
  <2> QED BY <1>3, <2>2 DEF Exchange!vars
<1>4. CASE CancelCommitedReader
  BY <1>4, <1>3 DEF CancelCommitedReader, ThreadsInPlace, TypeOK
<1>5. ASSUME NEW r \in Readers, Reap(r) PROVE Step
  BY <1>5, <1>3, <1>s DEF Reap, ReapReset, ReapEof
<1>6. ASSUME NEW r \in Readers, ReaderStep(r) PROVE Step
  <2>1. CASE ReadUpdate(r)
    <3>1. \A x \in Readers : x # r => upd'[x] = upd[x] /\ rpc'[x] = rpc[x]
      BY <2>1 DEF ReadUpdate, TypeOK
    <3>2. upd[r] # <<>> /\ rpc[r] = "idle" /\ rpc'[r] = "lock" /\ mem' = mem
      BY <2>1 DEF ReadUpdate, TypeOK
    <3>3. Published' = Published
      BY <3>1, <3>2 DEF Published
    <3> QED BY <3>1, <3>2, <3>3 DEF Exchange!vars
  <2>2. CASE ReadQuit(r)
    BY <2>2, ZenonT(60) DEF ReadQuit, Published, Exchange!vars, TypeOK
  <2>3. CASE ReadLock(r)
    <3>1. CASE semid
      <4>1. rpc[r] = "lock" /\ sem1 = 0 /\ rpc' = [rpc EXCEPT ![r] = "cb"]
            /\ UNCHANGED <<upd, mem>>
        BY <2>3, <3>1 DEF ReadLock, WriterAway
      <4>2. mem # Torn /\ upd[r] = <<>>
        BY <3>1, <4>1, FrameTypes DEF MemoryGuarded, CurrentFrameOnly, TypeOK
      <4>3. r \in Published /\ Published' = Published \ {r}
        BY <4>1, <4>2 DEF Published, TypeOK
      <4>4. Reading' = Reading \cup {r}
        BY <4>1 DEF Reading, TypeOK
      <4> QED BY <4>1, <4>2, <4>3, <4>4 DEF Exchange!StartRead, Exchange!Next, Reading
    <3>2. CASE ~semid
      <4>1. rpc[r] = "lock" /\ rpc' = [rpc EXCEPT ![r] = "idle"]
            /\ UNCHANGED <<upd, mem>>
        BY <2>3, <3>2 DEF ReadLock
      <4>2. upd[r] = <<>> /\ r \notin Reading /\ Reading' = Reading
        BY <4>1 DEF CurrentFrameOnly, Reading, TypeOK
      <4>3. Published' = Published \ {r}
        BY <4>1, <4>2 DEF Published, TypeOK
      <4>4. CASE r \in Published
        <5>1. Exchange!Lose(r)
          BY <4>1, <4>2, <4>3, <4>4 DEF Exchange!Lose, Reading
        <5> QED BY <5>1 DEF Exchange!Next
      <4>5. CASE r \notin Published
        BY <4>1, <4>2, <4>3, <4>5 DEF Exchange!vars, Reading
      <4> QED BY <4>4, <4>5
    <3> QED BY <3>1, <3>2
  <2>4. CASE CallbackEnd(r)
    <3>1. rpc[r] = "cb" /\ upd[r] = <<>> /\ UNCHANGED <<upd, mem>>
          /\ rpc' = [rpc EXCEPT ![r] = "unlock"]
      BY <2>4 DEF CallbackEnd, CurrentFrameOnly
    <3>2. Published' = Published /\ Reading' = Reading \ {r} /\ r \in Reading
      BY <3>1 DEF Published, Reading, TypeOK
    <3> QED BY <3>1, <3>2, ZenonT(60) DEF Exchange!EndRead, Exchange!Next, Reading
  <2>5. CASE ReadUnlock(r)
    BY <2>5, ZenonT(60) DEF ReadUnlock, Published, Exchange!vars, TypeOK
  <2> QED BY <1>6, <2>1, <2>2, <2>3, <2>4, <2>5 DEF ReaderStep
<1>7. CASE Environment
  <2>1. CASE WriteLockBegin \/ NoNotify \/ DestroySem \/ WriterCrash
             \/ ForceSemaphoreCleaning
    BY <2>1, <1>s DEF WriteLockBegin, NoNotify, DestroySem, WriterCrash,
                      ForceSemaphoreCleaning
  <2>2. ASSUME NEW r \in Readers, Join(r) PROVE Step
    <3>1. \A x \in Readers : x # r => upd'[x] = upd[x] /\ rpc'[x] = rpc[x]
      BY <2>2 DEF Join, TypeOK
    <3>2. rpc[r] \in {"off", "dead"} /\ rpc'[r] = "idle" /\ upd'[r] = <<>> /\ mem' = mem
      BY <2>2 DEF Join, TypeOK
    <3>3. r \notin Published
      BY <2>2, <3>2 DEF Join, Published, DebtsKnown
    <3>4. Published' = Published
      BY <3>1, <3>2, <3>3 DEF Published
    <3> QED BY <3>1, <3>2, <3>4 DEF Exchange!vars
  <2>3. ASSUME NEW r \in Readers, Leave(r) PROVE Step
    BY <2>3, <1>s DEF Leave
  <2>4. ASSUME NEW r \in Readers, ReaderCrash(r) PROVE Step
    <3>1. rpc' = [rpc EXCEPT ![r] = "dead"] /\ UNCHANGED <<upd, mem>>
      BY <2>4 DEF ReaderCrash
    <3>2. Published' = Published \ {r} /\ Reading' = Reading \ {r}
      BY <3>1 DEF Published, Reading, TypeOK
    <3>3. CASE r \in Published \cup Reading
      <4>1. Exchange!Lose(r)
        BY <3>1, <3>2, <3>3 DEF Exchange!Lose, Reading
      <4> QED BY <4>1 DEF Exchange!Next
    <3>4. CASE r \notin Published \cup Reading
      BY <3>1, <3>2, <3>4 DEF Exchange!vars, Reading
    <3> QED BY <3>3, <3>4
  <2> QED BY <1>7, <2>1, <2>2, <2>3, <2>4 DEF Environment
<1>8. CASE UNCHANGED vars
  BY <1>8, <1>s DEF vars
<1> QED BY <1>1, <1>2, <1>4, <1>5, <1>6, <1>7, <1>8 DEF Next, ServerStep

\* With a reasonable timeout, the semaphores, the update messages and the reset
\* thread implement FrameExchange: writes are exclusive and every reader told of
\* a frame reads it once before the next one, or is lost.
THEOREM LockImplementsExchange ==
  ASSUME Timing = "reasonable"
  PROVE  Spec => ImplementsExchange
<1>1. Init => Exchange!Init
  BY FrameTypes DEF Init, Exchange!Init, Published
<1>2. SemInvariant /\ SemInvariant' /\ [Next]_vars => [Exchange!Next]_(Exchange!vars)
  BY ExchangeStep
<1> QED BY <1>1, <1>2, SemSafe, PTL DEF Spec, ImplementsExchange, Exchange!Spec

-----------------------------------------------------------------------------
(* What remains of the lock when the timeout expires at any moment.        *)

\* Semaphore 1 is the writer's alone, and is down only behind a whole frame.
WriterMarked ==
  /\ wpc \notin {"closed", "crashed"} => semid /\ sem1 = Token
  /\ semid /\ sem1 = 0 => mem = frame

\* Every step leaves semaphore 1 to tell of the writer.
LEMMA MarkedStep ==
  ASSUME TypeOK, WriterMarked, [Next]_vars
  PROVE  WriterMarked'
<1> USE DEF WriterMarked, Token, Accessing, semVars, writerVars
<1>1. CASE WriterStep
  <2>1. CASE WriteStart BY <2>1 DEF WriteStart
  <2>2. CASE WriteLockDone BY <2>2 DEF WriteLockDone
  <2>3. CASE NotifyBegin BY <2>3 DEF NotifyBegin
  <2>4. ASSUME NEW r \in Readers, NotifySend(r) PROVE WriterMarked'
    BY <2>4 DEF NotifySend
  <2>5. CASE NotifyEnd BY <2>5 DEF NotifyEnd
  <2>6. CASE CommitReaders BY <2>6 DEF CommitReaders
  <2>7. CASE WriteEnd BY <2>7 DEF WriteEnd, WriterGone
  <2> QED BY <1>1, <2>1, <2>2, <2>3, <2>4, <2>5, <2>6, <2>7 DEF WriterStep
<1>2. CASE ResetReaders BY <1>2 DEF ResetReaders
<1>3. CASE ServerStep BY <1>3 DEF ServerStep, CancelCommitedReader, ServerStop
<1>4. ASSUME NEW r \in Readers, Reap(r) \/ ReaderStep(r) PROVE WriterMarked'
  BY <1>4 DEF Reap, ReapReset, ReapEof, ReaderStep, ReadUpdate, ReadQuit, ReadLock,
     CallbackEnd, ReadUnlock
<1>5. CASE Environment
  <2>1. CASE WriteLockBegin \/ NoNotify \/ DestroySem
    BY <2>1 DEF WriteLockBegin, NoNotify, DestroySem
  <2>2. CASE WriterCrash \/ ForceSemaphoreCleaning
    BY <2>2 DEF WriterCrash, ForceSemaphoreCleaning
  <2>3. ASSUME NEW r \in Readers, Join(r) \/ Leave(r) \/ ReaderCrash(r) PROVE WriterMarked'
    BY <2>3 DEF Join, Leave, ReaderCrash
  <2> QED BY <1>5, <2>1, <2>2, <2>3 DEF Environment
<1>6. CASE UNCHANGED vars BY <1>6 DEF vars
<1> QED BY <1>1, <1>2, <1>3, <1>4, <1>5, <1>6 DEF Next

\* Only read_start starts a callback.
LEMMA CallbackStarts ==
  ASSUME TypeOK, [Next]_vars, NEW r \in Readers, rpc[r] # "cb", rpc'[r] = "cb"
  PROVE  semid /\ sem1 = 0
<1>1. ASSUME NEW q \in Readers, ReadLock(q) PROVE semid /\ sem1 = 0
  BY <1>1 DEF ReadLock, WriterAway, TypeOK
<1>2. ASSUME UNCHANGED rpc PROVE FALSE
  BY <1>2
<1>3. ASSUME NEW q \in Readers, ReadUpdate(q) \/ ReadQuit(q) \/ CallbackEnd(q) \/ ReadUnlock(q)
      PROVE  FALSE
  BY <1>3 DEF ReadUpdate, ReadQuit, CallbackEnd, ReadUnlock, TypeOK
<1>4. ASSUME NEW q \in Readers, Join(q) \/ ReaderCrash(q) PROVE FALSE
  BY <1>4 DEF Join, ReaderCrash, TypeOK
<1>5. WriterStep \/ ResetReaders \/ ServerStep => UNCHANGED rpc
  BY DEF WriterStep, WriteStart, WriteLockDone, NotifyBegin, NotifySend, NotifyEnd,
     CommitReaders, WriteEnd, ResetReaders, ServerStep, CancelCommitedReader, ServerStop,
     readerVars
<1>6. \A q \in Readers : Reap(q) \/ Leave(q) => UNCHANGED rpc
  BY DEF Reap, ReapReset, ReapEof, Leave, readerVars
<1>7. WriteLockBegin \/ NoNotify \/ DestroySem \/ WriterCrash \/ ForceSemaphoreCleaning
        => UNCHANGED rpc
  BY DEF WriteLockBegin, NoNotify, DestroySem, WriterCrash, ForceSemaphoreCleaning, readerVars
<1>8. CASE Environment
  BY <1>2, <1>4, <1>6, <1>7, <1>8 DEF Environment
<1>9. ASSUME NEW q \in Readers, ReaderStep(q) PROVE semid /\ sem1 = 0
  BY <1>1, <1>3, <1>9 DEF ReaderStep
<1> QED BY <1>2, <1>5, <1>6, <1>8, <1>9 DEF Next, vars, readerVars

\* Whatever the timing of the reset thread, a callback starts on the last whole
\* frame: what an early reset can break is the rest of the callback, not its start.
THEOREM CallbackStartsWhole == Spec => StartsOnLastFrame
<1>1. Init => WriterMarked
  BY DEF Init, WriterMarked, Token, Accessing
<1>2. TypeOK /\ WriterMarked /\ [Next]_vars => WriterMarked'
  BY MarkedStep
<1>3. ASSUME TypeOK, WriterMarked, [Next]_vars,
             NEW r \in Readers, rpc[r] # "cb", rpc'[r] = "cb"
      PROVE  mem # Torn /\ mem = frame
  <2>1. semid /\ sem1 = 0
    BY <1>3, CallbackStarts
  <2>2. mem = frame
    BY <1>3, <2>1 DEF WriterMarked
  <2>3. frame \in Frames
    BY <1>3 DEF TypeOK
  <2> QED BY <2>2, <2>3, FrameTypes
<1>4. TypeOK /\ WriterMarked /\ [Next]_vars =>
        [\A r \in Readers : rpc[r] # "cb" /\ rpc'[r] = "cb" => mem # Torn /\ mem = frame]_vars
  BY <1>3
<1> QED BY <1>1, <1>2, <1>4, TypeCorrect, PTL DEF Spec, StartsOnLastFrame

=============================================================================
