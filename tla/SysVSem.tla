------------------------------ MODULE SysVSem ------------------------------
(***************************************************************************)
(* The two-semaphore lock that shares one frame between a writer and its   *)
(* readers: sysVSem, ReadLock and WriteLock (shmdata/sysv-sem.cpp), driven *)
(* the way Writer::copy_to_shm, OneWriteAccess and Reader::on_buffer drive *)
(* them.  A reader takes nothing when it starts to read; the writer counts *)
(* it in semaphore 0 when it notifies it ("commits" it), the reader gives  *)
(* that unit back at the end of its callback, and the writer starts again  *)
(* only when semaphore 0 is back to zero.  A one-second timeout per write  *)
(* resets semaphore 0, the safeguard against readers that crashed.         *)
(*                                                                         *)
(* The socket carries one update message per notified reader, in order;    *)
(* connecting and quitting are single steps here (UnixSocket.tla has the   *)
(* handshakes).  A frame is its number modulo NumFrames.                   *)
(***************************************************************************)
EXTENDS Integers, Sequences, FiniteSets

CONSTANTS
  Readers,         \* the Reader objects, one socket thread each
  Crashing,        \* the readers whose process may be killed
  NumFrames,       \* frames are numbered modulo NumFrames
  MaxQueue,        \* update messages a socket buffers before send() blocks
  Timing           \* when the 1000 ms timeout expires: "reasonable", only when
                   \* the writer waits for units that no living reader will
                   \* give back; "slow", also when it waits for a living
                   \* reader; "any", at any moment

ASSUME ReadersAssumption == IsFiniteSet(Readers)
ASSUME CrashingAssumption == Crashing \subseteq Readers
ASSUME NumFramesAssumption == NumFrames \in Nat \ {0}
ASSUME MaxQueueAssumption == MaxQueue \in Nat \ {0}
ASSUME TimingAssumption == Timing \in {"reasonable", "slow", "any"}

VARIABLES
  semid,     \* the semaphore set exists
  sem0,      \* semaphore 0, "reading"
  sem1,      \* semaphore 1, "writer"
  wpc,       \* where the writing thread is
  armed,     \* the reset thread of this WriteLock is waiting
  frame,     \* the frame the writer writes, or wrote last
  mem,       \* the frame the shared memory holds, or Torn
  spc,       \* the server thread: "loop", "cancel" or "stopped"
  victim,    \* the client the server thread is cancelling
  mutex,     \* who holds clients_mutex_: "free", "writer" or "server"
  clients,   \* UnixSocketServer::clients_
  toSend,    \* the clients notify_update has still to send to
  notified,  \* UnixSocketServer::clients_notified_
  rpc,       \* where each reader's socket thread is
  upd,       \* frames announced to a reader and not yet received
  quit,      \* a quit message (or end of file) is queued behind upd
  cur,       \* the frame announced by the update being handled
  debt       \* auxiliary: readers a unit of sem0 is (or will be) held for

semVars    == <<semid, sem0, sem1>>
writerVars == <<wpc, armed, frame, mem>>
serverVars == <<spc, victim, mutex, clients>>
notifyVars == <<toSend, notified>>
readerVars == <<rpc, upd, quit, cur>>
vars == <<semVars, writerVars, serverVars, notifyVars, readerVars, debt>>

Frames == 0..(NumFrames - 1)
None == "none"
Torn == -1

\* Between write_start and write_end the writer may touch the memory
Accessing == wpc \in {"got", "locked", "notify", "commit", "writing"}

TypeOK ==
  /\ semid \in BOOLEAN /\ sem0 \in Nat /\ sem1 \in Nat
  /\ wpc \in {"idle", "start", "got", "locked", "notify", "commit", "writing",
              "closed", "crashed"}
  /\ armed \in BOOLEAN
  /\ frame \in Frames /\ mem \in Frames \cup {Torn}
  /\ spc \in {"loop", "cancel", "stopped"}
  /\ victim \in Readers \cup {None}
  /\ mutex \in {"free", "writer", "server"}
  /\ clients \subseteq Readers
  /\ toSend \subseteq Readers
  /\ notified \subseteq Readers
  /\ rpc \in [Readers -> {"off", "idle", "lock", "cb", "unlock", "dead"}]
  /\ upd \in [Readers -> Seq(Frames)]
  /\ quit \in [Readers -> BOOLEAN]
  /\ cur \in [Readers -> Frames]
  /\ debt \subseteq Readers

\* Writer::Writer created the semaphores and the server thread serves.
Init ==
  /\ semid = TRUE /\ sem0 = 0 /\ sem1 = 0
  /\ wpc = "idle" /\ armed = FALSE /\ frame = 0 /\ mem = 0
  /\ spc = "loop" /\ victim = None /\ mutex = "free"
  /\ clients = {} /\ toSend = {} /\ notified = {}
  /\ rpc = [r \in Readers |-> "off"]
  /\ upd = [r \in Readers |-> <<>>]
  /\ quit = [r \in Readers |-> FALSE]
  /\ cur = [r \in Readers |-> 0]
  /\ debt = {}

-----------------------------------------------------------------------------
(* The writing thread: one write access.                                   *)

\* WriteLock::WriteLock: the reset thread is created, then semop is called.
WriteLockBegin ==
  /\ wpc = "idle"
  /\ wpc' = "start" /\ armed' = TRUE
  /\ UNCHANGED <<semVars, frame, mem, serverVars, notifyVars, readerVars, debt>>

\* Mutant: write_start without its first operation, the wait for zero.
ReadersDoneUnchecked == TRUE

\* {0, 0, 0}: every commited reader gave its unit back.
ReadersDone == sem0 = 0

\* semops::write_start: wait for sem0 = 0, then both semaphores go up.
WriteStart ==
  /\ wpc = "start"
  /\ ReadersDone
  /\ sem0' = sem0 + 1 /\ sem1' = sem1 + 1
  /\ wpc' = "got"
  /\ frame' = (frame + 1) % NumFrames /\ mem' = Torn
  /\ UNCHANGED <<semid, armed, serverVars, notifyVars, readerVars, debt>>

\* The flag is set under cv_m, which the reset thread holds while it resets:
\* from here on it does not reset.  The constructor joins it.
WriteLockDone ==
  /\ wpc = "got"
  /\ wpc' = "locked" /\ armed' = FALSE
  /\ UNCHANGED <<semVars, frame, mem, serverVars, notifyVars, readerVars, debt>>

\* The units of sem0 are held for readers that are gone, and the server
\* thread has already noticed that they are.
OnlyDeadReadersOwe == \A r \in debt : rpc[r] = "dead" /\ r \notin clients

\* Mutant: the safeguard is missing.
NeverExpires == FALSE

TimeoutExpires ==
  /\ Timing # "any" => wpc = "start" /\ sem0 > 0
  /\ Timing = "reasonable" => OnlyDeadReadersOwe

\* read_semaphore_reset_thread: the flag is not set after 1000 ms.
ResetReaders ==
  /\ armed
  /\ TimeoutExpires
  /\ sem0' = 0 /\ debt' = {}
  /\ armed' = FALSE
  /\ UNCHANGED <<semid, sem1, wpc, frame, mem, serverVars, notifyVars, readerVars>>

\* UnixSocketServer::notify_update takes clients_mutex_ and forgets the
\* clients of the previous update.
NotifyBegin ==
  /\ wpc = "locked"
  /\ mutex = "free"
  /\ mutex' = "writer" /\ wpc' = "notify"
  /\ toSend' = clients /\ notified' = {}
  /\ UNCHANGED <<semVars, armed, frame, mem, spc, victim, clients, readerVars, debt>>

\* send() to one client: EPIPE when it is gone, blocking when its buffer is
\* full (the accepted descriptors are blocking).
NotifySend(r) ==
  /\ wpc = "notify"
  /\ r \in toSend
  /\ toSend' = toSend \ {r}
  /\ \/ /\ rpc[r] # "dead"
        /\ Len(upd[r]) < MaxQueue
        /\ upd' = [upd EXCEPT ![r] = Append(@, frame)]
        /\ notified' = notified \cup {r}
        /\ debt' = debt \cup {r}
     \/ /\ rpc[r] = "dead"
        /\ UNCHANGED <<upd, notified, debt>>
  /\ UNCHANGED <<semVars, writerVars, serverVars, rpc, quit, cur>>

NotifyEnd ==
  /\ wpc = "notify"
  /\ toSend = {}
  /\ mutex' = "free" /\ wpc' = "commit"
  /\ UNCHANGED <<semVars, armed, frame, mem, spc, victim, clients, notifyVars,
                 readerVars, debt>>

\* Mutant: one notified reader is not counted.
OneReaderUncounted == IF notified = {} THEN 0 ELSE Cardinality(notified) - 1

\* The value notify_update returns.
NumReaders == Cardinality(notified)

\* WriteLock::commit_readers, called with the number of notified clients (and
\* not called when there is none).
CommitReaders ==
  /\ wpc = "commit"
  /\ sem0' = sem0 + NumReaders
  /\ wpc' = "writing"
  /\ UNCHANGED <<semid, sem1, armed, frame, mem, serverVars, notifyVars, readerVars,
                 debt>>

\* A OneWriteAccess is released without notify_clients.
NoNotify ==
  /\ wpc = "locked"
  /\ wpc' = "writing"
  /\ UNCHANGED <<semVars, armed, frame, mem, serverVars, notifyVars, readerVars, debt>>

\* Mutant: write_end without {1, -1, 0}.
WriterStaysMarked == sem1

\* {1, -1, 0}: the readers may start.
WriterGone == sem1 - 1

\* WriteLock::~WriteLock, semops::write_end: blocks when either is zero.
WriteEnd ==
  /\ wpc = "writing"
  /\ sem0 > 0 /\ sem1 > 0
  /\ sem0' = sem0 - 1 /\ sem1' = WriterGone
  /\ wpc' = "idle" /\ mem' = frame
  /\ UNCHANGED <<semid, armed, frame, serverVars, notifyVars, readerVars, debt>>

\* ~Writer destroys the semaphore first, the server last.
DestroySem ==
  /\ wpc = "idle"
  /\ wpc' = "closed" /\ semid' = FALSE
  /\ UNCHANGED <<sem0, sem1, armed, frame, mem, serverVars, notifyVars, readerVars,
                 debt>>

-----------------------------------------------------------------------------
(* The server thread.                                                      *)

\* A client completes its connection.  A name is used again only when the unit
\* its former bearer owed is settled: it stands for one client at a time.
Join(r) ==
  /\ spc = "loop" /\ mutex = "free"
  /\ rpc[r] \in {"off", "dead"}
  /\ r \notin clients \cup debt
  /\ clients' = clients \cup {r}
  /\ rpc' = [rpc EXCEPT ![r] = "idle"]
  /\ upd' = [upd EXCEPT ![r] = <<>>]
  /\ quit' = [quit EXCEPT ![r] = FALSE]
  /\ UNCHANGED <<semVars, writerVars, spc, victim, mutex, notifyVars, cur, debt>>

\* A client asked to quit: the server answers and removes it.
Leave(r) ==
  /\ spc = "loop" /\ mutex = "free"
  /\ r \in clients /\ rpc[r] # "dead"
  /\ clients' = clients \ {r}
  /\ quit' = [quit EXCEPT ![r] = TRUE]
  /\ UNCHANGED <<semVars, writerVars, spc, victim, mutex, notifyVars,
                 rpc, upd, cur, debt>>

\* A dead client with an unread update: read() fails (ECONNRESET) and, the
\* client being in clients_notified_, its unit of sem0 must be cancelled.
ReapReset(r) ==
  /\ spc = "loop" /\ mutex = "free"
  /\ r \in clients /\ rpc[r] = "dead"
  /\ upd[r] # <<>> /\ r \in notified
  /\ spc' = "cancel" /\ victim' = r /\ mutex' = "server"
  /\ UNCHANGED <<semVars, writerVars, clients, notifyVars, readerVars, debt>>

\* sysVSem::cancel_commited_reader, with clients_mutex_ held; it returns with
\* an error once the semaphore is removed.
CancelCommitedReader ==
  /\ spc = "cancel"
  /\ \/ semid /\ sem0 > 0 /\ sem0' = sem0 - 1
     \/ ~semid /\ UNCHANGED sem0
  /\ debt' = debt \ {victim}
  /\ clients' = clients \ {victim}
  /\ upd' = [upd EXCEPT ![victim] = <<>>]
  /\ spc' = "loop" /\ victim' = None /\ mutex' = "free"
  /\ UNCHANGED <<semid, sem1, writerVars, notifyVars, rpc, quit, cur>>

\* A dead client with nothing unread (read() returns 0), or not notified.
ReapEof(r) ==
  /\ spc = "loop" /\ mutex = "free"
  /\ r \in clients /\ rpc[r] = "dead"
  /\ upd[r] = <<>> \/ r \notin notified
  /\ clients' = clients \ {r}
  /\ upd' = [upd EXCEPT ![r] = <<>>]
  /\ UNCHANGED <<semVars, writerVars, spc, victim, mutex, notifyVars,
                 rpc, quit, cur, debt>>

\* ~UnixSocketServer: the thread is joined, then every client is told to quit.
ServerStop ==
  /\ wpc = "closed" /\ spc = "loop"
  /\ spc' = "stopped"
  /\ quit' = [r \in Readers |-> quit[r] \/ r \in clients]
  /\ clients' = {}
  /\ UNCHANGED <<semVars, writerVars, victim, mutex, notifyVars,
                 rpc, upd, cur, debt>>

\* The writer's process is killed: the semaphores stay as they are (no
\* SEM_UNDO) and the clients' connections end.
WriterCrash ==
  /\ wpc \notin {"closed", "crashed"}
  /\ wpc' = "crashed" /\ armed' = FALSE
  /\ spc' = "stopped" /\ victim' = None /\ mutex' = "free"
  /\ quit' = [r \in Readers |-> quit[r] \/ r \in clients]
  /\ clients' = {} /\ toSend' = {}
  /\ UNCHANGED <<semVars, frame, mem, notified, rpc, upd, cur, debt>>

\* The next Writer at this path calls force_semaphore_cleaning.
ForceSemaphoreCleaning ==
  /\ wpc = "crashed" /\ semid
  /\ semid' = FALSE
  /\ UNCHANGED <<sem0, sem1, writerVars, serverVars, notifyVars, readerVars, debt>>

-----------------------------------------------------------------------------
(* The readers' socket threads.                                            *)

ReadUpdate(r) ==
  /\ rpc[r] = "idle" /\ upd[r] # <<>>
  /\ cur' = [cur EXCEPT ![r] = Head(upd[r])]
  /\ upd' = [upd EXCEPT ![r] = Tail(@)]
  /\ rpc' = [rpc EXCEPT ![r] = "lock"]
  /\ UNCHANGED <<semVars, writerVars, serverVars, notifyVars, quit, debt>>

ReadQuit(r) ==
  /\ rpc[r] = "idle" /\ upd[r] = <<>> /\ quit[r]
  /\ rpc' = [rpc EXCEPT ![r] = "off"]
  /\ quit' = [quit EXCEPT ![r] = FALSE]
  /\ UNCHANGED <<semVars, writerVars, serverVars, notifyVars, upd, cur, debt>>

\* Mutant: read_start does not wait.
WriterIgnored == TRUE

\* {1, 0, 0}: no writer is in an access.
WriterAway == sem1 = 0

\* Mutant: read_start retried when the semaphore is removed.
ReadLockRetries(r) ==
  /\ rpc[r] = "lock"
  /\ semid /\ WriterAway
  /\ rpc' = [rpc EXCEPT ![r] = "cb"]
  /\ UNCHANGED <<semVars, writerVars, serverVars, notifyVars, upd, quit, cur, debt>>

\* ReadLock::ReadLock, semops::read_start: wait for sem1 = 0, take nothing.
\* On a removed semaphore the lock is invalid and on_buffer returns.
ReadLock(r) ==
  /\ rpc[r] = "lock"
  /\ \/ semid /\ WriterAway /\ rpc' = [rpc EXCEPT ![r] = "cb"]
     \/ ~semid /\ rpc' = [rpc EXCEPT ![r] = "idle"]
  /\ UNCHANGED <<semVars, writerVars, serverVars, notifyVars, upd, quit, cur, debt>>

\* The user's on_data callback returns.
CallbackEnd(r) ==
  /\ rpc[r] = "cb"
  /\ rpc' = [rpc EXCEPT ![r] = "unlock"]
  /\ UNCHANGED <<semVars, writerVars, serverVars, notifyVars, upd, quit, cur, debt>>

\* ReadLock::~ReadLock, semops::read_end: blocks when sem0 is zero.
ReadUnlock(r) ==
  /\ rpc[r] = "unlock"
  /\ \/ semid /\ sem0 > 0 /\ sem0' = sem0 - 1
     \/ ~semid /\ UNCHANGED sem0
  /\ rpc' = [rpc EXCEPT ![r] = "idle"]
  /\ debt' = debt \ {r}
  /\ UNCHANGED <<semid, sem1, writerVars, serverVars, notifyVars, upd, quit, cur>>

\* The reader's process is killed; no SEM_UNDO gives its unit back.
ReaderCrash(r) ==
  /\ r \in Crashing
  /\ rpc[r] \notin {"off", "dead"}
  /\ rpc' = [rpc EXCEPT ![r] = "dead"]
  /\ UNCHANGED <<semVars, writerVars, serverVars, notifyVars, upd, quit, cur, debt>>

-----------------------------------------------------------------------------
WriterStep ==
  \/ WriteStart \/ WriteLockDone
  \/ NotifyBegin \/ (\E r \in Readers : NotifySend(r)) \/ NotifyEnd
  \/ CommitReaders \/ WriteEnd

Reap(r) == ReapReset(r) \/ ReapEof(r)

ServerStep == CancelCommitedReader \/ ServerStop

ReaderStep(r) ==
  ReadUpdate(r) \/ ReadQuit(r) \/ ReadLock(r) \/ CallbackEnd(r) \/ ReadUnlock(r)

Environment ==
  \/ WriteLockBegin \/ NoNotify \/ DestroySem
  \/ WriterCrash \/ ForceSemaphoreCleaning
  \/ \E r \in Readers : Join(r) \/ Leave(r) \/ ReaderCrash(r)

Next ==
  \/ WriterStep \/ ResetReaders \/ ServerStep
  \/ \E r \in Readers : Reap(r) \/ ReaderStep(r)
  \/ Environment

Spec == Init /\ [][Next]_vars

\* Threads that can run do run, callbacks return and the timeout expires; the
\* server's loop looks at each of its clients.
\* Nothing makes a user write, connect, quit or restart a crashed writer.
Fairness ==
  /\ WF_vars(WriterStep) /\ WF_vars(ResetReaders) /\ WF_vars(ServerStep)
  /\ \A r \in Readers : WF_vars(Reap(r)) /\ WF_vars(ReaderStep(r))

FairSpec == Spec /\ Fairness
-----------------------------------------------------------------------------
(* Properties.                                                             *)

\* Handling an update: from its reception to the end of read_end.
Busy(r) == rpc[r] \in {"lock", "cb", "unlock"}
Alive(r) == rpc[r] # "dead"

\* While a reader's callback runs, the memory holds the whole frame announced
\* by the update it handles: the writer neither is in an access, nor was
\* killed in one, nor has gone on to another frame (Reader::on_buffer reads
\* with no lock of its own, relying on the unit commit_readers took for it).
ReadsAnnouncedFrame == \A r \in Readers : rpc[r] = "cb" => mem = cur[r]

\* A callback starts on a whole frame, the last one that was written, even when
\* the timeout resets semaphore 0 under living readers: read_start waits for
\* semaphore 1, which the reset leaves alone.
StartsOnLastFrame ==
  [][\A r \in Readers :
       rpc[r] # "cb" /\ rpc'[r] = "cb" => mem # Torn /\ mem = frame]_vars

\* The writer moves to the next frame only when every living reader has
\* received and finished with the previous one: commit_readers and write_start
\* never let a slow but living reader lose a frame.
NoFrameSkipped ==
  [][frame' # frame =>
       \A r \in Readers : Alive(r) => upd[r] = <<>> /\ ~Busy(r)]_vars

\* Giving a unit back never blocks: when write_end or read_end is called,
\* semaphore 0 holds the caller's unit (both are blocking semops whose result
\* nobody checks).
NoUnlockBlocks ==
  wpc \notin {"closed", "crashed"} =>
    /\ wpc = "writing" => sem0 > 0 /\ sem1 > 0
    /\ \A r \in Readers : rpc[r] = "unlock" => sem0 > 0

\* Every write access that starts ends (WriteLock's constructor, notify_update,
\* commit_readers and ~WriteLock all return) although readers are killed while
\* they owe a unit, unless the writer itself is killed.
WriteCompletes == (wpc = "start" \/ Accessing) ~> wpc \in {"idle", "closed", "crashed"}

\* A reader that is told of a frame gets to read it, unless it or the writer is
\* gone.
UpdateIsRead ==
  \A r \in Readers :
    upd[r] # <<>> /\ Alive(r)
      ~> rpc[r] \in {"cb", "dead"} \/ wpc \in {"closed", "crashed"}

\* No reader stays blocked in ReadLock or ~ReadLock, except behind a killed
\* writer whose semaphores nobody has cleaned yet.
BlockedReaderReleased ==
  \A r \in Readers :
    rpc[r] \in {"lock", "unlock"}
      ~> rpc[r] \notin {"lock", "unlock"} \/ (wpc = "crashed" /\ semid)

\* The readers a finished frame is published to and that have yet to begin.
Published ==
  IF mem = Torn THEN {}
  ELSE {r \in Readers : Alive(r) /\ (upd[r] # <<>> \/ rpc[r] = "lock")}

Exchange == INSTANCE FrameExchange WITH
  writing <- mem = Torn,
  pending <- Published,
  reading <- {r \in Readers : rpc[r] = "cb"}

\* The semaphores, the update messages and the reset thread together implement
\* the exchange of frames: exclusive writes, and one read of each frame by each
\* reader that was told of it.
ImplementsExchange == Exchange!Spec

-----------------------------------------------------------------------------
(* The inductive invariant behind ReadsAnnouncedFrame and NoFrameSkipped,  *)
(* when timeouts are reasonable.                                           *)

Token == IF Accessing THEN 1 ELSE 0
Uncommited == IF wpc \in {"notify", "commit"} THEN Cardinality(notified) ELSE 0

\* Semaphore 0 counts the writer and the readers that owe a unit, those
\* notified and not yet commited excepted; semaphore 1 is the writer.
SemaphoresCount ==
  wpc \notin {"closed", "crashed"} =>
    /\ semid
    /\ sem1 = Token
    /\ sem0 + Uncommited = Token + Cardinality(debt)

\* Who owes a unit, and what an access has done so far.
DebtsKnown ==
  /\ debt \subseteq notified
  /\ wpc \in {"got", "locked"} => debt = {}
  /\ wpc = "notify" => toSend \cap notified = {}
  /\ \A r \in Readers :
       /\ Alive(r) /\ (upd[r] # <<>> \/ Busy(r)) => r \in debt
       /\ r \in clients /\ upd[r] # <<>> => r \in debt

\* A living reader is told of the current frame only, and of it once.
CurrentFrameOnly ==
  \A r \in Readers :
    Alive(r) =>
      /\ upd[r] \in {<<>>, <<frame>>}
      /\ Busy(r) => upd[r] = <<>> /\ cur[r] = frame

\* The memory is torn only behind semaphore 1, and nobody reads it then.
MemoryGuarded ==
  /\ Accessing =>
       mem = Torn /\ \A r \in Readers : rpc[r] \notin {"cb", "unlock"}
  /\ semid /\ sem1 = 0 => mem = frame
  /\ \A r \in Readers : rpc[r] = "cb" => mem = frame

\* clients_mutex_ and the reset thread.
ThreadsInPlace ==
  /\ mutex = "writer" <=> wpc = "notify"
  /\ mutex = "server" <=> spc = "cancel"
  /\ armed => wpc \in {"start", "got"}
  /\ spc = "cancel" =>
       /\ victim \in clients \cap debt
       /\ rpc[victim] = "dead"

SemInvariant ==
  /\ TypeOK
  /\ SemaphoresCount
  /\ DebtsKnown
  /\ CurrentFrameOnly
  /\ MemoryGuarded
  /\ ThreadsInPlace
=============================================================================
