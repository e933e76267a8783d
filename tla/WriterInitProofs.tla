-------------------------- MODULE WriterInitProofs --------------------------
(***************************************************************************)
(* Proofs about WriterInit, for any number of writers that start, stop and *)
(* resize one at a time and may be killed at any step, any readers, and    *)
(* a file system that reuses inode numbers.  That a constructor fails only *)
(* if the path is used holds for the other kind of file system too.        *)
(***************************************************************************)
EXTENDS WriterInit, TLAPS

USE WritersAssumption, MaxInodeAssumption

-----------------------------------------------------------------------------
(* The inductive invariant.                                                *)

Active(w) == pc[w] \notin {"new", "serving", "failed", "gone", "killed"}

\* The file is the first inode number or none: a writer gets the number, hence the
\* keys, of the one it replaces.  No other key is used.
OneKey ==
  /\ file \in {0, 1}
  /\ \A k \in Keys : k # 1 => sems[k] = None /\ segs[k] = None

\* What a writer that owns nothing looks like.
Empty(w) == bound[w] = 0 /\ semKey[w] = NoKey /\ shmKey[w] = NoKey

\* Where a writer that has not served is.
Starting(w) ==
  /\ pc[w] \in {"new", "failed", "inspect", "sem2"} => Empty(w)
  /\ pc[w] = "shm" => shmKey[w] = NoKey
  /\ pc[w] \in {"shm", "sem"} => semKey[w] = NoKey
  /\ pc[w] \in {"shm", "sem", "check", "inspect", "sem2", "shm2", "sock", "check2"} =>
       file = 1
  /\ pc[w] \in {"sem", "check"} =>
       shmKey[w] = NoKey \/ (shmKey[w] = 1 /\ segs[1] = w)
  /\ pc[w] = "check" => semKey[w] = NoKey \/ (semKey[w] = 1 /\ sems[1] = w)
  /\ pc[w] = "sem2" => sems[1] = None
  /\ pc[w] \in {"shm2", "sock", "bind2", "check2"} => semKey[w] = 1 /\ sems[1] = w
  /\ pc[w] = "shm2" => shmKey[w] = NoKey /\ segs[1] = None
  /\ pc[w] \in {"sock", "bind2", "check2"} => shmKey[w] = 1 /\ segs[1] = w
  /\ pc[w] = "bind2" => file = 0
  /\ pc[w] = "check2" => bound[w] = 1

\* Where one that has served is: it removes what it made, in order.
Served(w) ==
  /\ pc[w] \in {"serving", "resizing"} => w \in served
  /\ pc[w] \in {"end1", "end2", "end3"} /\ w \notin served => Empty(w)
  /\ w \in served =>
       /\ pc[w] \in {"serving", "resizing", "end1", "end2", "end3"}
       /\ file = 1 /\ bound[w] = 1 /\ semKey[w] = 1
       /\ shmKey[w] = IF pc[w] = "resizing" THEN NoKey ELSE 1
       /\ sems[1] = IF pc[w] \in {"serving", "resizing", "end1"} THEN w ELSE None
       /\ segs[1] = IF pc[w] \in {"resizing", "end3"} THEN None ELSE w

\* A listening socket is the one of the path.
Bound(w) ==
  bound[w] # 0 =>
    /\ bound[w] = 1 /\ file = 1
    /\ w \in served \/ pc[w] \in {"shm", "sem", "check", "check2"}

\* At most one writer starts or stops, at most one listens, and none cleans while
\* another one listens.
Alone ==
  \A v, w \in Writers : v # w =>
    /\ Active(v) => ~Active(w)
    /\ bound[v] # 0 =>
         bound[w] = 0 /\ pc[w] \notin {"sem2", "shm2", "sock", "bind2", "check2"}

WriterInvariant ==
  /\ TypeOK /\ OneKey /\ Alone
  /\ \A w \in Writers : Starting(w) /\ Served(w) /\ Bound(w)

\* Where a writer that has not served is if inode numbers are never given twice: it
\* replaces the dead one, but with the keys of the dead one's file.
Retrying(w) ==
  /\ pc[w] \in {"shm", "sem", "check", "inspect", "sem2", "shm2", "sock"} => file # 0
  /\ pc[w] = "sem2" => sems[file] = None
  /\ pc[w] \in {"shm2", "sock", "bind2", "check2"} => semKey[w] # NoKey
  /\ pc[w] = "shm2" => segs[file] = None
  /\ pc[w] \in {"sock", "bind2", "check2"} => shmKey[w] # NoKey
  /\ pc[w] = "bind2" => file = 0
  /\ pc[w] = "check2" => bound[w] # 0
  /\ w \in served => pc[w] \in {"serving", "resizing", "end1", "end2", "end3"}

FreshInvariant ==
  /\ TypeOK
  /\ \A v, w \in Writers : v # w /\ Active(v) => ~Active(w)
  /\ \A w \in Writers : Retrying(w)

\* A reader may have opened what a dead writer left, but then the writer it is
\* connected to has not made its own and will close the connection.
Opened(r) ==
  conn[r] # None =>
    LET w == conn[r] IN
      /\ w \in Writers /\ bound[w] # 0
      /\ rpc[r] \in {"sem", "start", "up"} /\ rshm[r] \notin {None, w} =>
           /\ pc[w] \in {"shm", "sem", "check"} /\ shmKey[w] = NoKey
           /\ pc[w] = "shm" => segs[1] # None
      /\ rpc[r] \in {"start", "up"} /\ rsem[r] \notin {None, w} =>
           /\ pc[w] \in {"shm", "sem", "check"} /\ semKey[w] = NoKey
           /\ pc[w] # "check" => sems[1] # None

ReaderInvariant == RightSemaphore /\ \A r \in Readers : Opened(r)

-----------------------------------------------------------------------------
(* Types and numbers.                                                      *)

\* A key is none of the marks for no key, and no writer is None.
LEMMA KeyFacts ==
  /\ 0 \in Keys /\ 1 \in Keys /\ NoKey \notin Keys /\ NoKey # 1 /\ NoKey # 0
  /\ None \notin Writers
BY DEF Keys, NoKey, None

\* When nothing is bound, the first inode number is free and the next one given.
LEMMA FirstInode ==
  ASSUME Reuse, file = 0, \A w \in Writers : bound[w] = 0
  PROVE  NewInode = 1
<1>1. \A i \in FreeInodes : i \in Nat /\ 1 <= i
  BY DEF FreeInodes, Inodes
<1>2. 1 \in FreeInodes
  BY DEF FreeInodes, Inodes
<1>3. \A x \in FreeInodes : (\A y \in FreeInodes : x <= y) => x = 1
  BY <1>1, <1>2
<1>4. \E x \in FreeInodes : \A y \in FreeInodes : x <= y
  BY <1>1, <1>2
<1> QED BY <1>3, <1>4 DEF NewInode, Min

\* bind() succeeds with the first inode number, or finds a file.
LEMMA BindFacts ==
  ASSUME Reuse, WriterInvariant, NEW w \in Writers, BindAndListen(w)
  PROVE  /\ file' = 1 /\ last' \in Keys
         /\ \/ file = 0 /\ bound' = [bound EXCEPT ![w] = 1]
            \/ file = 1 /\ bound' = bound
<1>1. CASE file = 0
  <2>1. NewInode = 1
    BY <1>1, FirstInode DEF WriterInvariant, Bound
  <2> QED BY <1>1, <2>1, KeyFacts DEF BindAndListen, WriterInvariant, TypeOK, Keys
<1>2. CASE file # 0
  BY <1>2 DEF BindAndListen, WriterInvariant, OneKey, TypeOK
<1> QED BY <1>1, <1>2

\* Every step of a writer or a reader keeps the types.
LEMMA TypeStep ==
  ASSUME TypeOK, [Next]_vars,
         \A w \in Writers : BindAndListen(w) =>
           file' \in Keys /\ last' \in Keys /\ bound' \in [Writers -> Keys]
  PROVE  TypeOK'
<1> USE KeyFacts DEF TypeOK, systemVars, writerVars, readerVars, Goes, Key, CloseSocket
<1>0. TypeOK OBVIOUS
<1>1. ASSUME NEW w \in Writers, StartServer(w) PROVE TypeOK'
  BY <1>0, <1>1 DEF StartServer
<1>2. ASSUME NEW w \in Writers, WriterStep(w) PROVE TypeOK'
  <2>1. CASE StartShm(w) BY <1>0, <2>1 DEF StartShm, MakeShm
  <2>2. CASE StartSem(w) BY <1>0, <2>2 DEF StartSem, MakeSem
  <2>3. CASE StartServing(w) BY <1>0, <2>3 DEF StartServing
  <2>4. CASE StartOver(w) BY <1>0, <2>4 DEF StartOver, Removed
  <2>5. CASE InspectUsed(w) BY <1>0, <2>5 DEF InspectUsed
  <2>6. CASE InspectDead(w) BY <1>0, <2>6 DEF InspectDead
  <2>7. CASE RetrySem(w) BY <1>0, <2>7 DEF RetrySem, MakeSem
  <2>8. CASE RetryShm(w) BY <1>0, <2>8 DEF RetryShm, MakeShm
  <2>9. CASE CleanSocket(w) BY <1>0, <2>9 DEF CleanSocket, SocketFileAfterCleaning
  <2>10. CASE RetryServer(w) BY <1>0, <2>10 DEF RetryServer
  <2>11. CASE RetryServing(w) BY <1>0, <2>11 DEF RetryServing
  <2>12. CASE EndSem(w) BY <1>0, <2>12 DEF EndSem, Removed
  <2>13. CASE EndShm(w) BY <1>0, <2>13 DEF EndShm, Removed
  <2>14. CASE EndServer(w) BY <1>0, <2>14 DEF EndServer
  <2>15. CASE ResizeMake(w) BY <1>0, <2>15 DEF ResizeMake, MakeShm
  <2> QED BY <1>2, <2>1, <2>2, <2>3, <2>4, <2>5, <2>6, <2>7, <2>8, <2>9, <2>10,
             <2>11, <2>12, <2>13, <2>14, <2>15 DEF WriterStep
<1>3. ASSUME NEW w \in Writers, ResizeDrop(w) \/ EndBegin(w) \/ Kill(w) PROVE TypeOK'
  BY <1>0, <1>3 DEF ResizeDrop, Removed, EndBegin, Kill
<1>4. ASSUME NEW r \in Readers, ReaderStep(r) PROVE TypeOK'
  BY <1>0, <1>4 DEF ReaderStep, Reads, ReaderConnect, ReaderShm, ReaderSem,
     ReaderStart, ReaderGone
<1>5. CASE UNCHANGED vars BY <1>0, <1>5 DEF vars
<1> QED BY <1>1, <1>2, <1>3, <1>4, <1>5 DEF Next

-----------------------------------------------------------------------------
(* Every step keeps the writers' invariant.                                *)

\* The writers' invariant without the types.
WriterParts ==
  OneKey /\ Alone /\ \A w \in Writers : Starting(w) /\ Served(w) /\ Bound(w)

\* A writer does its steps alone: what it makes and removes belongs to nobody
\* that lives.
LEMMA WriterInvStep ==
  ASSUME Reuse, ~Overlap, ~ResizeAnyTime, WriterInvariant, [Next]_vars
  PROVE  WriterParts'
<1> USE KeyFacts DEF WriterInvariant, WriterParts, TypeOK, OneKey, Alone, Starting, Served,
        Bound, Empty, Active, systemVars, writerVars, readerVars, Goes, Key, CloseSocket
<1>1. ASSUME NEW w \in Writers, StartServer(w) PROVE WriterParts'
  BY <1>1, BindFacts DEF StartServer, Quiet
<1>2. ASSUME NEW w \in Writers, WriterStep(w) PROVE WriterParts'
  <2>1. CASE StartShm(w) BY <2>1 DEF StartShm, MakeShm
  <2>2. CASE StartSem(w) BY <2>2 DEF StartSem, MakeSem
  <2>3. CASE StartServing(w) BY <2>3 DEF StartServing, AllValid
  <2>4. CASE StartOver(w) BY <2>4 DEF StartOver, AllValid, Removed
  <2>5. CASE InspectUsed(w) BY <2>5 DEF InspectUsed
  <2>6. CASE InspectDead(w) BY <2>6 DEF InspectDead, CanRead, Answerable, Listening
  <2>7. CASE RetrySem(w) BY <2>7 DEF RetrySem, MakeSem
  <2>8. CASE RetryShm(w) BY <2>8 DEF RetryShm, MakeShm
  <2>9. CASE CleanSocket(w) BY <2>9 DEF CleanSocket, SocketFileAfterCleaning
  <2>10. CASE RetryServer(w) BY <2>10, BindFacts DEF RetryServer
  <2>11. CASE RetryServing(w) BY <2>11 DEF RetryServing, AllValid
  <2>12. CASE EndSem(w) BY <2>12 DEF EndSem, Removed
  <2>13. CASE EndShm(w) BY <2>13 DEF EndShm, Removed
  <2>14. CASE EndServer(w) BY <2>14 DEF EndServer
  <2>15. CASE ResizeMake(w) BY <2>15 DEF ResizeMake, MakeShm
  <2> QED BY <1>2, <2>1, <2>2, <2>3, <2>4, <2>5, <2>6, <2>7, <2>8, <2>9, <2>10,
             <2>11, <2>12, <2>13, <2>14, <2>15 DEF WriterStep
<1>3. ASSUME NEW w \in Writers, EndBegin(w) PROVE WriterParts'
  BY <1>3 DEF EndBegin, Quiet
<1>7. ASSUME NEW w \in Writers, ResizeDrop(w) PROVE WriterParts'
  BY <1>7 DEF ResizeDrop, Removed, Quiet
<1>4. ASSUME NEW w \in Writers, Kill(w) PROVE WriterParts'
  BY <1>4 DEF Kill
<1>5. ASSUME NEW r \in Readers, ReaderStep(r) PROVE WriterParts'
  BY <1>5 DEF ReaderStep, ReaderConnect, ReaderShm, ReaderSem, ReaderStart, ReaderGone
<1>6. CASE UNCHANGED vars BY <1>6 DEF vars
<1> QED BY <1>1, <1>2, <1>3, <1>4, <1>5, <1>6, <1>7 DEF Next

\* The writers' invariant holds in every state.
LEMMA WriterAlways ==
  ASSUME Reuse, ~Overlap, ~ResizeAnyTime
  PROVE  Spec => []WriterInvariant
<1>1. Init => WriterInvariant
  BY KeyFacts DEF Init, WriterInvariant, TypeOK, OneKey, Alone, Starting, Served, Bound,
     Empty, Active
<1>2. ASSUME WriterInvariant, [Next]_vars PROVE WriterInvariant'
  <2>1. \A w \in Writers : BindAndListen(w) =>
          file' \in Keys /\ last' \in Keys /\ bound' \in [Writers -> Keys]
    BY <1>2, BindFacts, KeyFacts DEF WriterInvariant, TypeOK
  <2>2. TypeOK'
    BY <1>2, <2>1, TypeStep DEF WriterInvariant
  <2> QED BY <1>2, <2>2, WriterInvStep DEF WriterInvariant, WriterParts
<1> QED BY <1>1, <1>2, PTL DEF Spec

-----------------------------------------------------------------------------
(* The readers.                                                            *)

\* A reader that opened what is not its writer's loses its connection before the
\* writer serves.
LEMMA OpenedStep ==
  ASSUME Reuse, ~Overlap, ~ResizeAnyTime, WriterInvariant, ReaderInvariant, [Next]_vars
  PROVE  \A r \in Readers : Opened(r)'
<1> USE KeyFacts DEF ReaderInvariant, Opened, WriterInvariant, TypeOK, OneKey, Alone,
        Starting, Served, Bound, Empty, Active, systemVars, writerVars, readerVars, Goes,
        Key, CloseSocket
<1> SUFFICES ASSUME NEW r \in Readers PROVE Opened(r)'
  OBVIOUS
<1>1. ASSUME NEW w \in Writers, StartServer(w) PROVE Opened(r)'
  BY <1>1, BindFacts DEF StartServer, Quiet
<1>2. ASSUME NEW w \in Writers, WriterStep(w) PROVE Opened(r)'
  <2>1. CASE StartShm(w) BY <2>1 DEF StartShm, MakeShm
  <2>2. CASE StartSem(w) BY <2>2 DEF StartSem, MakeSem
  <2>3. CASE StartServing(w) BY <2>3 DEF StartServing, AllValid
  <2>4. CASE StartOver(w) BY <2>4 DEF StartOver
  <2>5. CASE InspectUsed(w) BY <2>5 DEF InspectUsed
  <2>6. CASE InspectDead(w) BY <2>6 DEF InspectDead
  <2>7. CASE RetrySem(w) BY <2>7 DEF RetrySem, MakeSem
  <2>8. CASE RetryShm(w) BY <2>8 DEF RetryShm, MakeShm
  <2>9. CASE CleanSocket(w) BY <2>9 DEF CleanSocket
  <2>10. CASE RetryServer(w) BY <2>10, BindFacts DEF RetryServer
  <2>11. CASE RetryServing(w) BY <2>11 DEF RetryServing, AllValid
  <2>12. CASE EndSem(w) BY <2>12 DEF EndSem
  <2>13. CASE EndShm(w) BY <2>13 DEF EndShm
  <2>14. CASE EndServer(w) BY <2>14 DEF EndServer
  <2>15. CASE ResizeMake(w) BY <2>15 DEF ResizeMake, MakeShm
  <2> QED BY <1>2, <2>1, <2>2, <2>3, <2>4, <2>5, <2>6, <2>7, <2>8, <2>9, <2>10,
             <2>11, <2>12, <2>13, <2>14, <2>15 DEF WriterStep
<1>3. ASSUME NEW w \in Writers, EndBegin(w) PROVE Opened(r)'
  BY <1>3 DEF EndBegin, Quiet
<1>7. ASSUME NEW w \in Writers, ResizeDrop(w) PROVE Opened(r)'
  BY <1>7 DEF ResizeDrop, Removed, Quiet
<1>4. ASSUME NEW w \in Writers, Kill(w) PROVE Opened(r)'
  BY <1>4 DEF Kill
<1>5. ASSUME NEW q \in Readers, ReaderStep(q) PROVE Opened(r)'
  <2> USE DEF Reads, Listening
  <2>1. CASE ReaderConnect(q) BY <2>1 DEF ReaderConnect
  <2>2. CASE ReaderShm(q) BY <2>2 DEF ReaderShm
  <2>3. CASE ReaderSem(q) BY <2>3 DEF ReaderSem
  <2>4. CASE ReaderStart(q) BY <2>4 DEF ReaderStart
  <2>5. CASE ReaderGone(q) BY <2>5 DEF ReaderGone
  <2> QED BY <1>5, <2>1, <2>2, <2>3, <2>4, <2>5 DEF ReaderStep
<1>6. CASE UNCHANGED vars BY <1>6 DEF vars
<1> QED BY <1>1, <1>2, <1>3, <1>4, <1>5, <1>6, <1>7 DEF Next

\* A reader becomes valid with what its writer made, and keeps it.
LEMMA RightStep ==
  ASSUME Reuse, ~Overlap, ~ResizeAnyTime, WriterInvariant, ReaderInvariant, [Next]_vars
  PROVE  RightSemaphore'
<1> USE KeyFacts DEF ReaderInvariant, RightSemaphore, TypeOK, systemVars, writerVars,
        readerVars
<1>0. TypeOK BY DEF WriterInvariant
<1>1. ASSUME NEW w \in Writers, StartServer(w) \/ ResizeDrop(w) \/ EndBegin(w) \/ Kill(w)
      PROVE  RightSemaphore'
  BY <1>0, <1>1 DEF StartServer, ResizeDrop, EndBegin, Kill, CloseSocket
<1>2. ASSUME NEW w \in Writers, WriterStep(w) PROVE RightSemaphore'
  BY <1>0, <1>2 DEF WriterStep, StartShm, StartSem, StartServing, StartOver, InspectUsed,
     InspectDead, RetrySem, RetryShm, CleanSocket, RetryServer, RetryServing, ResizeMake,
     EndSem, EndShm, EndServer, CloseSocket
<1>3. ASSUME NEW r \in Readers, ReaderStep(r) PROVE RightSemaphore'
  <2> USE DEF Reads
  <2>1. CASE ReaderStart(r)
    <3>1. conn[r] \in served /\ conn[r] \in Writers /\ conn[r] # None
      BY <1>0, <2>1 DEF ReaderStart
    <3>2. pc[conn[r]] \in {"serving", "resizing", "end1", "end2", "end3"}
      BY <3>1 DEF WriterInvariant, Served
    <3>3. rshm[r] = conn[r] /\ rsem[r] = conn[r]
      BY <2>1, <3>1, <3>2 DEF ReaderStart, Opened
    <3> QED BY <1>0, <2>1, <3>3 DEF ReaderStart
  <2>2. CASE ReaderConnect(r) \/ ReaderShm(r) \/ ReaderSem(r) \/ ReaderGone(r)
    BY <1>0, <2>2 DEF ReaderConnect, ReaderShm, ReaderSem, ReaderGone
  <2> QED BY <1>3, <2>1, <2>2 DEF ReaderStep
<1>4. CASE UNCHANGED vars BY <1>4 DEF vars
<1> QED BY <1>1, <1>2, <1>3, <1>4 DEF Next

-----------------------------------------------------------------------------
(* The theorems.                                                           *)

\* A writer that serves keeps its path, its semaphores and its memory, however
\* many other writers try to start on the path and whoever is killed.
THEOREM ServedSafe ==
  ASSUME Reuse, ~Overlap, ~ResizeAnyTime
  PROVE  Spec => []ServedIsIntact
<1>1. WriterInvariant => ServedIsIntact
  BY KeyFacts DEF WriterInvariant, Served, ServedIsIntact, Serving
<1> QED BY <1>1, WriterAlways, PTL

\* A writer that serves can be read.
THEOREM ReadableSafe ==
  ASSUME Reuse, ~Overlap, ~ResizeAnyTime
  PROVE  Spec => []ServedIsReadable
<1>1. WriterInvariant => ServedIsReadable
  BY DEF WriterInvariant, Served, ServedIsReadable, Serving
<1> QED BY <1>1, WriterAlways, PTL

\* A valid reader uses what the writer it is connected to made.
THEOREM SemaphoreSafe ==
  ASSUME Reuse, ~Overlap, ~ResizeAnyTime
  PROVE  Spec => []RightSemaphore
<1>1. Init => ReaderInvariant
  BY DEF Init, ReaderInvariant, RightSemaphore, Opened
<1>2. WriterInvariant /\ ReaderInvariant /\ [Next]_vars => ReaderInvariant'
  BY OpenedStep, RightStep DEF ReaderInvariant
<1>3. ReaderInvariant => RightSemaphore
  BY DEF ReaderInvariant
<1> QED BY <1>1, <1>2, <1>3, WriterAlways, PTL DEF Spec

\* Two steps make a constructor fail; the first does so if somebody serves, and the
\* second never does, as everything has been made again.
LEMMA FailureStep ==
  ASSUME TypeOK, Next, NEW w \in Writers, pc'[w] = "failed", pc[w] # "failed",
         \A v \in Writers : v # w /\ Active(w) => ~Active(v),
         \A v \in served : pc[v] \in {"serving", "resizing", "end1", "end2", "end3"},
         pc[w] = "check2" => AllValid(w)
  PROVE  \E v \in Writers \ {w} : Serving(v)
<1> USE DEF TypeOK, Goes
<1>1. InspectUsed(w) \/ RetryServing(w)
  BY DEF Next, StartServer, WriterStep, StartShm, StartSem, StartServing, StartOver,
     InspectUsed, InspectDead, RetrySem, RetryShm, CleanSocket, RetryServer, RetryServing,
     ResizeMake, EndSem, EndShm, EndServer, ResizeDrop, EndBegin, Kill, ReaderStep,
     ReaderConnect, ReaderShm,
     ReaderSem, ReaderStart, ReaderGone, writerVars
<1>2. CASE InspectUsed(w)
  <2>1. PICK v \in served : TRUE BY <1>2 DEF InspectUsed, CanRead
  <2>2. v \in Writers /\ pc[v] \in {"serving", "resizing", "end1", "end2", "end3"}
    BY <2>1
  <2>3. pc[w] = "inspect" /\ v # w /\ Active(w)
    BY <1>2, <2>2 DEF InspectUsed, Active
  <2>4. ~Active(v) BY <2>2, <2>3
  <2> QED BY <2>2, <2>3, <2>4 DEF Active, Serving
<1>3. CASE RetryServing(w)
  BY <1>3 DEF RetryServing
<1> QED BY <1>1, <1>2, <1>3

\* The invariant without reuse holds in every state.
LEMMA FreshAlways ==
  ASSUME ~Reuse, ~Overlap, ~ResizeAnyTime
  PROVE  Spec => []FreshInvariant
<1>1. Init => FreshInvariant
  BY KeyFacts DEF Init, FreshInvariant, TypeOK, Retrying, Active
<1>2. ASSUME FreshInvariant, [Next]_vars PROVE FreshInvariant'
  <2> USE <1>2, KeyFacts
  <2>0. TypeOK BY DEF FreshInvariant
  <2>b. ASSUME NEW w \in Writers, BindAndListen(w)
        PROVE  /\ file' \in Keys /\ last' \in Keys /\ bound' \in [Writers -> Keys]
               /\ file' # 0 /\ (file = 0 => bound'[w] # 0)
               /\ \A v \in Writers : v # w => bound'[v] = bound[v]
    BY <2>0, <2>b DEF BindAndListen, NewInode, InodeLeft, TypeOK, Keys
  <2>t. TypeOK' BY <2>0, <2>b, TypeStep
  <2> DEFINE Parts == /\ \A v, w \in Writers : v # w /\ Active(v) => ~Active(w)
                      /\ \A w \in Writers : Retrying(w)
  <2> SUFFICES Parts'
    BY <2>t DEF FreshInvariant
  <2> USE <2>0 DEF FreshInvariant, TypeOK, Active, Retrying, systemVars, writerVars, readerVars,
          Goes, Key
  <2>1. ASSUME NEW w \in Writers, StartServer(w) PROVE Parts'
    BY <2>1, <2>b DEF StartServer, Quiet
  <2>2. ASSUME NEW w \in Writers, WriterStep(w) PROVE Parts'
    <3>1. CASE StartShm(w) BY <3>1 DEF StartShm, MakeShm
    <3>2. CASE StartSem(w) BY <3>2 DEF StartSem, MakeSem
    <3>3. CASE StartServing(w) BY <3>3 DEF StartServing
    <3>4. CASE StartOver(w) BY <3>4 DEF StartOver, CloseSocket
    <3>5. CASE InspectUsed(w) BY <3>5 DEF InspectUsed
    <3>6. CASE InspectDead(w) BY <3>6 DEF InspectDead
    <3>7. CASE RetrySem(w) BY <3>7 DEF RetrySem, MakeSem
    <3>8. CASE RetryShm(w) BY <3>8 DEF RetryShm, MakeShm
    <3>9. CASE CleanSocket(w) BY <3>9 DEF CleanSocket, SocketFileAfterCleaning
    <3>10. CASE RetryServer(w) BY <3>10, <2>b DEF RetryServer
    <3>11. CASE RetryServing(w) BY <3>11 DEF RetryServing
    <3>12. CASE EndSem(w) BY <3>12 DEF EndSem
    <3>13. CASE EndShm(w) BY <3>13 DEF EndShm
    <3>14. CASE EndServer(w) BY <3>14 DEF EndServer, CloseSocket
    <3>15. CASE ResizeMake(w) BY <3>15 DEF ResizeMake, MakeShm
    <3> QED BY <2>2, <3>1, <3>2, <3>3, <3>4, <3>5, <3>6, <3>7, <3>8, <3>9, <3>10,
               <3>11, <3>12, <3>13, <3>14, <3>15 DEF WriterStep
  <2>3. ASSUME NEW w \in Writers, EndBegin(w) PROVE Parts'
    BY <2>3 DEF EndBegin, Quiet
  <2>7. ASSUME NEW w \in Writers, ResizeDrop(w) PROVE Parts'
    BY <2>7 DEF ResizeDrop, Removed, Quiet
  <2>4. ASSUME NEW w \in Writers, Kill(w) PROVE Parts'
    BY <2>4 DEF Kill, CloseSocket
  <2>5. ASSUME NEW r \in Readers, ReaderStep(r) PROVE Parts'
    BY <2>5 DEF ReaderStep, ReaderConnect, ReaderShm, ReaderSem, ReaderStart, ReaderGone
  <2>6. CASE UNCHANGED vars BY <2>6 DEF vars
  <2> QED BY <2>1, <2>2, <2>3, <2>4, <2>5, <2>6, <2>7 DEF Next
<1> QED BY <1>1, <1>2, PTL DEF Spec

\* A constructor fails only if another writer serves the path, whatever the file
\* system does with inode numbers.
THEOREM FailureJustified ==
  ASSUME ~Overlap, ~ResizeAnyTime
  PROVE  Spec => FailsOnlyIfUsed
<1> DEFINE Justified == \A w \in Writers : pc'[w] = "failed" /\ pc[w] # "failed" =>
                          \E v \in Writers \ {w} : Serving(v)
<1>1. ASSUME WriterInvariant, Next PROVE Justified
  BY <1>1, FailureStep, KeyFacts DEF WriterInvariant, Alone, Served, Starting, AllValid, TypeOK
<1>2. ASSUME FreshInvariant, Next PROVE Justified
  BY <1>2, FailureStep DEF FreshInvariant, Retrying, AllValid, TypeOK
<1>3. WriterInvariant /\ [Next]_vars => [Justified]_vars
  BY <1>1
<1>4. FreshInvariant /\ [Next]_vars => [Justified]_vars
  BY <1>2
<1>5. CASE Reuse
  BY <1>3, <1>5, WriterAlways, PTL DEF Spec, FailsOnlyIfUsed
<1>6. CASE ~Reuse
  BY <1>4, <1>6, FreshAlways, PTL DEF Spec, FailsOnlyIfUsed
<1> QED BY <1>5, <1>6

\* A writer that leaves properly leaves nothing at the path, not even what others
\* that were killed had left.
THEOREM EndLeavesNothing ==
  ASSUME Reuse, ~Overlap, ~ResizeAnyTime
  PROVE  Spec => NothingLeft
<1>1. ASSUME WriterInvariant, Next, NEW w \in Writers, pc'[w] = "gone", pc[w] # "gone",
             w \in served
      PROVE  file' = 0 /\ \A k \in Keys : sems'[k] = None /\ segs'[k] = None
  <2> USE DEF WriterInvariant, TypeOK, Goes
  <2>1. EndServer(w)
    BY <1>1 DEF Next, StartServer, WriterStep, StartShm, StartSem, StartServing, StartOver,
       InspectUsed, InspectDead, RetrySem, RetryShm, CleanSocket, RetryServer, RetryServing,
       ResizeMake, EndSem, EndShm, EndServer, ResizeDrop, EndBegin, Kill, ReaderStep,
     ReaderConnect, ReaderShm,
       ReaderSem, ReaderStart, ReaderGone, writerVars
  <2>2. sems[1] = None /\ segs[1] = None
    BY <1>1, <2>1 DEF EndServer, Served
  <2> QED BY <1>1, <2>1, <2>2 DEF EndServer, OneKey
<1>2. WriterInvariant /\ [Next]_vars =>
        [\A w \in Writers : pc'[w] = "gone" /\ pc[w] # "gone" /\ w \in served =>
           /\ file' = 0
           /\ \A k \in Keys : sems'[k] = None /\ segs'[k] = None]_vars
  BY <1>1
<1> QED BY <1>2, WriterAlways, PTL DEF Spec, NothingLeft
=============================================================================
