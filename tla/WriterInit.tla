----------------------------- MODULE WriterInit -----------------------------
(***************************************************************************)
(* How a Writer takes possession of a path, and gives it up: its socket    *)
(* file, its semaphores and its shared memory, whose System V keys come    *)
(* from the inode of the socket file (ftok).  A writer that cannot make    *)
(* all three asks, as a Reader, whether somebody serves the path; if not   *)
(* it takes what it finds for the rest of a dead shmdata, removes it and   *)
(* tries again.  A writer that serves may replace its segment by another.  *)
(* Writers may be killed at any step.                                      *)
(*                                                                         *)
(* There is one path.  A file is its inode number.  A key is the number it *)
(* was computed from, 0 standing for (key_t)-1 when there is no file (a    *)
(* semaphore set can be made with that key; a segment is then invalid).    *)
(* Semaphore sets and segments are named after the writer that made them.  *)
(***************************************************************************)
EXTENDS Naturals, FiniteSets, FiniteSetsExt

CONSTANTS
  Writers,    \* the Writer objects, one life each
  Readers,    \* Reader objects that try to connect
  MaxInode,   \* bound: inode numbers
  Reuse,      \* TRUE: the file system gives a freed inode number to the next
              \* file; FALSE: it never gives a number twice
  Overlap,    \* TRUE: writers may start and stop while another one does
  ResizeAnyTime \* TRUE: a serving writer may replace its segment while another
                \* writer starts or stops

ASSUME WritersAssumption == IsFiniteSet(Writers) /\ "none" \notin Writers
ASSUME MaxInodeAssumption == MaxInode \in Nat \ {0}
ASSUME ReuseAssumption == Reuse \in BOOLEAN
ASSUME OverlapAssumption == Overlap \in BOOLEAN
ASSUME ResizeAssumption == ResizeAnyTime \in BOOLEAN

VARIABLES
  file,      \* inode of the socket file at the path, 0 if there is none
  last,      \* greatest inode number given so far
  sems,      \* the semaphore set of each key
  segs,      \* the segment of each key
  pc,        \* where each writer is
  bound,     \* inode its listening socket is bound to, 0 if none
  semKey,    \* key of its valid sysVSem, or NoKey
  shmKey,    \* key of its valid sysVShm, or NoKey
  served,    \* writers whose server thread was started
  rpc,       \* where each reader is
  conn,      \* the writer it is connected to, None once the connection ended
  rsem, rshm \* the set and the segment it opened, by their makers

systemVars == <<file, last, sems, segs>>
writerVars == <<pc, bound, semKey, shmKey, served>>
readerVars == <<rpc, conn, rsem, rshm>>
vars == <<systemVars, writerVars, readerVars>>

Inodes == 1..MaxInode
Keys == 0..MaxInode
NoKey == MaxInode + 1
None == "none"

TypeOK ==
  /\ file \in Keys /\ last \in Keys
  /\ sems \in [Keys -> Writers \cup {None}]
  /\ segs \in [Keys -> Writers \cup {None}]
  /\ pc \in [Writers -> {"new", "shm", "sem", "check", "inspect", "sem2", "shm2",
                         "sock", "bind2", "check2", "serving", "resizing", "failed",
                         "end1", "end2", "end3", "gone", "killed"}]
  /\ bound \in [Writers -> Keys]
  /\ semKey \in [Writers -> Keys \cup {NoKey}]
  /\ shmKey \in [Writers -> Keys \cup {NoKey}]
  /\ served \subseteq Writers
  /\ rpc \in [Readers -> {"off", "shm", "sem", "start", "up"}]
  /\ conn \in [Readers -> Writers \cup {None}]
  /\ rsem \in [Readers -> Writers \cup {None}]
  /\ rshm \in [Readers -> Writers \cup {None}]

Init ==
  /\ file = 0 /\ last = 0
  /\ sems = [k \in Keys |-> None] /\ segs = [k \in Keys |-> None]
  /\ pc = [w \in Writers |-> "new"]
  /\ bound = [w \in Writers |-> 0]
  /\ semKey = [w \in Writers |-> NoKey] /\ shmKey = [w \in Writers |-> NoKey]
  /\ served = {}
  /\ rpc = [r \in Readers |-> "off"]
  /\ conn = [r \in Readers |-> None]
  /\ rsem = [r \in Readers |-> None] /\ rshm = [r \in Readers |-> None]

-----------------------------------------------------------------------------
(* The operating system.                                                   *)

\* ftok(path).
Key == file

\* A bound socket keeps its inode although its file is unlinked.
FreeInodes == Inodes \ ({file} \cup {bound[w] : w \in Writers})
NewInode == IF Reuse THEN Min(FreeInodes) ELSE last + 1
InodeLeft == IF Reuse THEN FreeInodes # {} ELSE last < MaxInode

Listening(w) == bound[w] # 0 /\ bound[w] = file

\* The listening socket is closed: the connections made through it end.
CloseSocket(w) ==
  /\ bound' = [bound EXCEPT ![w] = 0]
  /\ conn' = [r \in Readers |-> IF conn[r] = w THEN None ELSE conn[r]]

Goes(w, from, to) == pc[w] = from /\ pc' = [pc EXCEPT ![w] = to]

\* UnixSocketServer::UnixSocketServer: socket, bind, listen.
BindAndListen(w) ==
  \/ /\ file = 0 /\ InodeLeft
     /\ file' = NewInode /\ last' = IF NewInode > last THEN NewInode ELSE last
     /\ bound' = [bound EXCEPT ![w] = NewInode]
  \/ /\ file # 0
     /\ UNCHANGED <<file, last, bound>>

\* sysVSem::sysVSem of an owner: IPC_CREAT | IPC_EXCL.
MakeSem(w) ==
  \/ /\ sems[Key] = None
     /\ sems' = [sems EXCEPT ![Key] = w]
     /\ semKey' = [semKey EXCEPT ![w] = Key]
  \/ /\ sems[Key] # None
     /\ UNCHANGED <<sems, semKey>>

\* sysVShm::sysVShm of an owner.
MakeShm(w) ==
  \/ /\ Key # 0 /\ segs[Key] = None
     /\ segs' = [segs EXCEPT ![Key] = w]
     /\ shmKey' = [shmKey EXCEPT ![w] = Key]
  \/ /\ Key = 0 \/ segs[Key] # None
     /\ UNCHANGED <<segs, shmKey>>

\* Mutant: made without owner_, never removed.
NotOwner(table, key, w) == table

\* sysVSem::~sysVSem and sysVShm::~sysVShm of an owner: removal by identifier,
\* which fails when somebody else removed it.
Removed(table, key, w) ==
  IF key # NoKey /\ table[key] = w THEN [table EXCEPT ![key] = None] ELSE table

-----------------------------------------------------------------------------
(* Writer::Writer.                                                         *)

\* No writer is between two steps that another one may not see.
Quiet ==
  \A w \in Writers :
    \/ pc[w] \in {"new", "serving", "failed", "gone", "killed"}
    \/ pc[w] = "resizing" /\ ResizeAnyTime

StartServer(w) ==
  /\ Overlap \/ Quiet
  /\ Goes(w, "new", "shm")
  /\ BindAndListen(w)
  /\ UNCHANGED <<sems, segs, semKey, shmKey, served, readerVars>>

StartShm(w) ==
  /\ Goes(w, "shm", "sem")
  /\ MakeShm(w)
  /\ UNCHANGED <<file, last, sems, bound, semKey, served, readerVars>>

StartSem(w) ==
  /\ Goes(w, "sem", "check")
  /\ MakeSem(w)
  /\ UNCHANGED <<file, last, segs, bound, shmKey, served, readerVars>>

AllValid(w) == bound[w] # 0 /\ semKey[w] # NoKey /\ shmKey[w] # NoKey

\* All three are valid: start_serving.
StartServing(w) ==
  /\ Goes(w, "check", "serving") /\ AllValid(w)
  /\ served' = served \cup {w}
  /\ UNCHANGED <<systemVars, bound, semKey, shmKey, readerVars>>

\* Mutant: the server is kept while the rest is made again.
StartOverListening(w) ==
  /\ Goes(w, "check", "inspect") /\ ~AllValid(w)
  /\ sems' = Removed(sems, semKey[w], w)
  /\ segs' = Removed(segs, shmKey[w], w)
  /\ semKey' = [semKey EXCEPT ![w] = NoKey] /\ shmKey' = [shmKey EXCEPT ![w] = NoKey]
  /\ UNCHANGED <<file, last, bound, served, readerVars>>

\* One is not: sem_.reset(), shm_.reset(), srv_.reset().  A server that was not
\* started leaves its socket file.
StartOver(w) ==
  /\ Goes(w, "check", "inspect") /\ ~AllValid(w)
  /\ sems' = Removed(sems, semKey[w], w)
  /\ segs' = Removed(segs, shmKey[w], w)
  /\ CloseSocket(w)
  /\ semKey' = [semKey EXCEPT ![w] = NoKey] /\ shmKey' = [shmKey EXCEPT ![w] = NoKey]
  /\ UNCHANGED <<file, last, served, rpc, rsem, rshm>>

\* The rest a Reader needs is there and somebody listens ...
Answerable(l) == Listening(l) /\ sems[Key] # None /\ segs[Key] # None

\* Mutant: whoever has the file is taken for dead.
NeverReads == FALSE

\* ... and serves: the inspector is a valid Reader.
CanRead == \E l \in served : Answerable(l)

\* Reader inspector(path, ...): another writer uses the path.  It waits a second
\* for a server that is about to serve.
InspectUsed(w) ==
  /\ Goes(w, "inspect", "failed") /\ CanRead
  /\ UNCHANGED <<systemVars, bound, semKey, shmKey, served, readerVars>>

\* Nobody does: force_semaphore_cleaning ...
InspectDead(w) ==
  /\ Goes(w, "inspect", "sem2") /\ ~CanRead
  /\ \A l \in Writers \ {w} : Answerable(l) => l \in served
  /\ sems' = [sems EXCEPT ![Key] = None]
  /\ UNCHANGED <<file, last, segs, bound, semKey, shmKey, served, readerVars>>

\* ... new sysVSem, force_shm_cleaning ...
RetrySem(w) ==
  /\ Goes(w, "sem2", "shm2")
  /\ MakeSem(w)
  /\ segs' = [segs EXCEPT ![Key] = None]
  /\ UNCHANGED <<file, last, bound, shmKey, served, readerVars>>

\* ... new sysVShm ...
RetryShm(w) ==
  /\ Goes(w, "shm2", "sock")
  /\ MakeShm(w)
  /\ UNCHANGED <<file, last, sems, bound, semKey, served, readerVars>>

\* Mutant: the file of the dead shmdata stays.
KeepSocketFile == file

SocketFileAfterCleaning == 0

\* ... force_sockserv_cleaning: unlink ...
CleanSocket(w) ==
  /\ Goes(w, "sock", "bind2")
  /\ file' = SocketFileAfterCleaning
  /\ UNCHANGED <<last, sems, segs, bound, semKey, shmKey, served, readerVars>>

\* ... new UnixSocketServer ...
RetryServer(w) ==
  /\ Goes(w, "bind2", "check2")
  /\ BindAndListen(w)
  /\ UNCHANGED <<sems, segs, semKey, shmKey, served, readerVars>>

\* ... and is_valid_.
RetryServing(w) ==
  /\ \/ AllValid(w) /\ Goes(w, "check2", "serving") /\ served' = served \cup {w}
     \/ ~AllValid(w) /\ Goes(w, "check2", "failed") /\ UNCHANGED served
  /\ UNCHANGED <<systemVars, bound, semKey, shmKey, readerVars>>

-----------------------------------------------------------------------------
(* Writer::copy_to_shm, the accesses that resize and                       *)
(* OneWriteAccess::shm_resize, as far as the path is concerned.            *)

\* shm_.reset(): for a moment there is no segment ...
ResizeDrop(w) ==
  /\ ResizeAnyTime \/ Quiet
  /\ Goes(w, "serving", "resizing")
  /\ segs' = Removed(segs, shmKey[w], w)
  /\ shmKey' = [shmKey EXCEPT ![w] = NoKey]
  /\ UNCHANGED <<file, last, sems, bound, semKey, served, readerVars>>

\* ... until shm_.reset(new sysVShm(ftok(path), ...)), whose failure changes nothing
\* here: the writer goes on serving.
ResizeMake(w) ==
  /\ Goes(w, "resizing", "serving")
  /\ MakeShm(w)
  /\ UNCHANGED <<file, last, sems, bound, semKey, served, readerVars>>

-----------------------------------------------------------------------------
(* Writer::~Writer: the members in the reverse order of their declaration. *)

EndBegin(w) ==
  /\ Overlap \/ Quiet
  /\ Goes(w, "serving", "end1") \/ Goes(w, "failed", "end1")
  /\ UNCHANGED <<systemVars, bound, semKey, shmKey, served, readerVars>>

EndSem(w) ==
  /\ Goes(w, "end1", "end2")
  /\ sems' = Removed(sems, semKey[w], w)
  /\ UNCHANGED <<file, last, segs, bound, semKey, shmKey, served, readerVars>>

EndShm(w) ==
  /\ Goes(w, "end2", "end3")
  /\ segs' = Removed(segs, shmKey[w], w)
  /\ UNCHANGED <<file, last, sems, bound, semKey, shmKey, served, readerVars>>

\* ~UnixSocketServer: a server that was started unlinks the path.
EndServer(w) ==
  /\ Goes(w, "end3", "gone")
  /\ file' = IF w \in served THEN 0 ELSE file
  /\ served' = served \ {w}
  /\ CloseSocket(w)
  /\ UNCHANGED <<last, sems, segs, semKey, shmKey, rpc, rsem, rshm>>

Kill(w) ==
  /\ pc[w] \notin {"new", "gone", "killed"}
  /\ pc' = [pc EXCEPT ![w] = "killed"]
  /\ served' = served \ {w}
  /\ CloseSocket(w)
  /\ UNCHANGED <<systemVars, semKey, shmKey, rpc, rsem, rshm>>

-----------------------------------------------------------------------------
(* Reader::Reader: connect, open the segment and the semaphores of the     *)
(* path, start.                                                            *)

Reads(r, from, to) == rpc[r] = from /\ rpc' = [rpc EXCEPT ![r] = to]

ReaderConnect(r) ==
  /\ Reads(r, "off", "shm")
  /\ \E w \in Writers : Listening(w) /\ conn' = [conn EXCEPT ![r] = w]
  /\ UNCHANGED <<systemVars, writerVars, rsem, rshm>>

ReaderShm(r) ==
  /\ Reads(r, "shm", "sem")
  /\ rshm' = [rshm EXCEPT ![r] = segs[Key]]
  /\ UNCHANGED <<systemVars, writerVars, conn, rsem>>

ReaderSem(r) ==
  /\ Reads(r, "sem", "start")
  /\ rsem' = [rsem EXCEPT ![r] = sems[Key]]
  /\ UNCHANGED <<systemVars, writerVars, conn, rshm>>

\* start() succeeds with a server that serves.
ReaderStart(r) ==
  /\ Reads(r, "start", "up")
  /\ rshm[r] # None /\ rsem[r] # None
  /\ conn[r] \in served
  /\ UNCHANGED <<systemVars, writerVars, conn, rsem, rshm>>

\* It does not, or the connection ended: the Reader is deleted.
ReaderGone(r) ==
  /\ \/ Reads(r, "start", "off") /\ (rshm[r] = None \/ rsem[r] = None)
     \/ /\ Reads(r, "start", "off") \/ Reads(r, "up", "off")
        /\ conn[r] = None
  /\ conn' = [conn EXCEPT ![r] = None]
  /\ rsem' = [rsem EXCEPT ![r] = None] /\ rshm' = [rshm EXCEPT ![r] = None]
  /\ UNCHANGED <<systemVars, writerVars>>

-----------------------------------------------------------------------------
WriterStep(w) ==
  \/ StartShm(w) \/ StartSem(w) \/ StartServing(w) \/ StartOver(w)
  \/ InspectUsed(w) \/ InspectDead(w)
  \/ RetrySem(w) \/ RetryShm(w) \/ CleanSocket(w) \/ RetryServer(w) \/ RetryServing(w)
  \/ ResizeMake(w) \/ EndSem(w) \/ EndShm(w) \/ EndServer(w)

ReaderStep(r) ==
  ReaderConnect(r) \/ ReaderShm(r) \/ ReaderSem(r) \/ ReaderStart(r) \/ ReaderGone(r)

Next ==
  \/ \E w \in Writers : StartServer(w) \/ WriterStep(w) \/ ResizeDrop(w) \/ EndBegin(w)
                         \/ Kill(w)
  \/ \E r \in Readers : ReaderStep(r)

Spec == Init /\ [][Next]_vars

-----------------------------------------------------------------------------
(* Properties.                                                             *)

Serving(w) == pc[w] = "serving"

\* A writer that serves keeps its path and its semaphores, also while it replaces
\* its segment, and otherwise its memory: no other writer takes them for those of a
\* dead one, and there are never two writers.  (A writer that starts between the two
\* halves of a resize does take them: ResizeAnyTime must be FALSE.)
ServedIsIntact ==
  /\ TypeOK
  /\ \A w \in Writers :
       Serving(w) \/ pc[w] = "resizing" =>
         /\ bound[w] = file /\ semKey[w] # NoKey /\ sems[semKey[w]] = w
         /\ Serving(w) => shmKey[w] # NoKey /\ segs[shmKey[w]] = w

\* A writer that serves can be read: its semaphores and its memory have the keys
\* that a Reader computes from the path.
ServedIsReadable ==
  \A w \in Writers : Serving(w) => semKey[w] = file /\ shmKey[w] = file

\* A valid Reader uses the semaphores and the memory of the writer it is
\* connected to, not those of a dead one this writer was about to replace.
RightSemaphore ==
  \A r \in Readers :
    rpc[r] = "up" /\ conn[r] # None => rsem[r] = conn[r] /\ rshm[r] = conn[r]

\* A constructor fails only if another writer serves the path: whatever a killed
\* writer left, at any step of its constructor or destructor, is recovered.
FailsOnlyIfUsed ==
  [][\A w \in Writers :
       pc'[w] = "failed" /\ pc[w] # "failed" => \E v \in Writers \ {w} : Serving(v)]_vars

\* A writer that leaves properly leaves nothing behind, nor does what it found
\* from killed writers stay.
NothingLeft ==
  [][\A w \in Writers :
       pc'[w] = "gone" /\ pc[w] # "gone" /\ w \in served =>
         /\ file' = 0
         /\ \A k \in Keys : sems'[k] = None /\ segs'[k] = None]_vars
=============================================================================
