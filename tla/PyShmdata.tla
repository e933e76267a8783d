----------------------------- MODULE PyShmdata -----------------------------
(***************************************************************************)
(* The Python module: a Writer and a Reader object of the same path in one *)
(* interpreter, its threads, and the socket thread of the Reader's         *)
(* follower, which calls on_connect and on_data.  All of them meet at the  *)
(* interpreter's lock (GIL): the wrapper releases it around every call of  *)
(* the library that may block (PyEval_SaveThread, PyEval_RestoreThread),   *)
(* and the handlers take it (PyGILState_Ensure, PyGILState_Release).       *)
(*                                                                         *)
(* The library is what the wrapper sees of it: copy_to_shm waits for the   *)
(* reader's on_data to have returned (FrameExchange), and deleting the     *)
(* follower joins its socket thread.  A bytearray is the number of its     *)
(* frame, a type description that of the writer it came from.              *)
(***************************************************************************)
EXTENDS Naturals, FiniteSets

CONSTANTS
  Threads,     \* threads of the interpreter
  MaxFrames,   \* bound: frames pushed
  MaxRuns      \* bound: Writer objects made

ASSUME PyBoundsAssumption == MaxFrames \in Nat /\ MaxRuns \in Nat
ASSUME ThreadsAssumption == IsFiniteSet(Threads) /\ Threads \cap {"sock", "none"} = {}

VARIABLES
  gil,        \* who has the lock: a thread, "sock" or "none"
  pc,         \* threads: "py", "winit", "push", "wdel", "rinit", "rdel" (in the
              \* library, without GIL), "back", "rfree" (waiting for the GIL)
  held,       \* the buffer each thread got from pull, 0 for none
  \* the Writer
  writer,     \* "none", "up", "del"
  run,        \* writers made
  frame,      \* frames written
  unread,     \* the reader was told of a frame and has not given the lock back
  runOf,      \* the writer of each frame
  \* the Reader
  reader,     \* "none", "init", "up", "del", "joined", "gone"
  linked,     \* the server counts the reader as a client
  spc,        \* socket thread: "idle", "conn", "data" (waiting for the GIL), "cb",
              \* "cbwait" (in the callback, with and without the GIL)
  arg,        \* what its handler was called with: a type description or a frame
  lastBuffer, datatype, parsed_datatype,
  rc          \* reference count of each buffer

writerVars == <<writer, run, frame, unread, runOf>>
readerVars == <<reader, linked, spc, arg, lastBuffer, datatype, parsed_datatype>>
vars == <<gil, pc, held, writerVars, readerVars, rc>>

Frames == 1..MaxFrames
Back == {"back", "rfree"}

TypeOK ==
  /\ gil \in Threads \cup {"sock", "none"}
  /\ pc \in [Threads -> {"py", "winit", "push", "wdel", "rinit", "rdel"} \cup Back]
  /\ held \in [Threads -> Frames \cup {0}]
  /\ writer \in {"none", "up", "del"} /\ run \in 0..MaxRuns
  /\ frame \in 0..MaxFrames /\ unread \in BOOLEAN
  /\ runOf \in [Frames -> 0..MaxRuns]
  /\ reader \in {"none", "init", "up", "del", "joined", "gone"} 
  /\ linked \in BOOLEAN /\ spc \in {"idle", "conn", "data", "cb", "cbwait"}
  /\ lastBuffer \in Frames \cup {0} /\ arg \in Nat
  /\ datatype \in 0..MaxRuns /\ parsed_datatype \in 0..MaxRuns
  /\ rc \in [Frames -> Nat]

Init ==
  /\ gil = "none"
  /\ pc = [t \in Threads |-> "py"] /\ held = [t \in Threads |-> 0]
  /\ writer = "none" /\ run = 0 /\ frame = 0 /\ unread = FALSE
  /\ runOf = [f \in Frames |-> 0]
  /\ reader = "none" /\ linked = FALSE /\ spc = "idle" /\ arg = 0
  /\ lastBuffer = 0 /\ datatype = 0 /\ parsed_datatype = 0
  /\ rc = [f \in Frames |-> 0]

-----------------------------------------------------------------------------
(* The interpreter.                                                        *)

\* A thread that runs Python code gives the GIL up and gets it at any time.
Switch(t) ==
  /\ pc[t] = "py"
  /\ \/ gil = t /\ gil' = "none"
     \/ gil = "none" /\ gil' = t
  /\ UNCHANGED <<pc, held, writerVars, readerVars, rc>>

Running(t) == gil = t /\ pc[t] = "py"

\* Mutant: the GIL is kept.
KeptBy(t) == t

\* Whose the GIL is when t begins a call of the library, and has to be when t goes
\* on after it.
LeftBy(t) == "none"

\* PyEval_SaveThread, and on to the call of the library.
SaveThread(t, call) ==
  /\ Running(t)
  /\ gil' = LeftBy(t)
  /\ pc' = [pc EXCEPT ![t] = call]

\* The call of the library returns.
Returned(t, call) ==
  /\ pc[t] = call
  /\ pc' = [pc EXCEPT ![t] = "back"]
  /\ UNCHANGED gil

\* PyEval_RestoreThread, and the return from the wrapper's function.
RestoreThread(t) ==
  /\ pc[t] = "back" /\ gil = LeftBy(t)
  /\ gil' = t
  /\ pc' = [pc EXCEPT ![t] = "py"]
  /\ UNCHANGED <<held, writerVars, readerVars, rc>>

-----------------------------------------------------------------------------
(* The Writer.                                                             *)

\* Writer_new and Writer_init, up to the making of the writer.
WriterInit(t) ==
  /\ writer = "none" /\ run < MaxRuns
  /\ \A u \in Threads : pc[u] # "winit"
  /\ SaveThread(t, "winit")
  /\ UNCHANGED <<held, writerVars, readerVars, rc>>

\* shmdata_make_writer, which may fail: then __init__ raises.
MakeWriter(t) ==
  /\ Returned(t, "winit")
  /\ \/ writer' = "up" /\ run' = run + 1
     \/ UNCHANGED <<writer, run>>
  /\ UNCHANGED <<held, frame, unread, runOf, readerVars, rc>>

\* push of a bytearray.
Push(t) ==
  /\ writer = "up"
  /\ frame + Cardinality({u \in Threads : pc[u] = "push"}) < MaxFrames
  /\ SaveThread(t, "push")
  /\ UNCHANGED <<held, writerVars, readerVars, rc>>

\* shmdata_copy_to_shm, once the last frame has been read.
CopyToShm(t) ==
  /\ ~unread
  /\ Returned(t, "push")
  /\ frame' = frame + 1
  /\ runOf' = [runOf EXCEPT ![frame'] = run]
  /\ unread' = linked
  /\ UNCHANGED <<held, writer, run, readerVars, rc>>

\* Writer_dealloc: no reference is left, so that no thread is in push.
WriterDealloc(t) ==
  /\ writer = "up"
  /\ \A u \in Threads : pc[u] # "push"
  /\ writer' = "del"
  /\ SaveThread(t, "wdel")
  /\ UNCHANGED <<held, run, frame, unread, runOf, readerVars, rc>>

\* shmdata_delete_writer: a frame that nobody has begun to read is lost.
DeleteWriter(t) ==
  /\ Returned(t, "wdel")
  /\ writer' = "none" /\ unread' = FALSE /\ linked' = FALSE
  /\ UNCHANGED <<held, run, frame, runOf, reader, spc, arg, lastBuffer, datatype,
                 parsed_datatype, rc>>

-----------------------------------------------------------------------------
(* The Reader, as Python sees it.                                          *)

\* Reader_new and Reader_init, up to the making of the follower.
ReaderInit(t) ==
  /\ reader = "none"
  /\ reader' = "init"
  /\ SaveThread(t, "rinit")
  /\ UNCHANGED <<held, writerVars, linked, spc, arg, lastBuffer, datatype, parsed_datatype, rc>>

MakeFollower(t) ==
  /\ Returned(t, "rinit")
  /\ reader' = "up"
  /\ UNCHANGED <<held, writerVars, linked, spc, arg, lastBuffer, datatype,
                 parsed_datatype, rc>>

IncRef(f) == IF f = 0 THEN rc ELSE [rc EXCEPT ![f] = @ + 1]

\* Mutant: pull returns a borrowed reference.
PullBorrowed == rc

PullRef == IncRef(lastBuffer)

\* pull; a thread keeps what it got until DropPulled.
Pull(t) ==
  /\ Running(t) /\ reader = "up" /\ held[t] = 0
  /\ held' = [held EXCEPT ![t] = lastBuffer]
  /\ rc' = PullRef
  /\ UNCHANGED <<gil, pc, writerVars, readerVars>>

DropPulled(t) ==
  /\ Running(t) /\ held[t] # 0
  /\ held' = [held EXCEPT ![t] = 0]
  /\ rc' = [rc EXCEPT ![held[t]] = @ - 1]
  /\ UNCHANGED <<gil, pc, writerVars, readerVars>>

\* Reader_dealloc, by the thread that gives up the last reference.
ReaderDealloc(t) ==
  /\ reader = "up"
  /\ reader' = "del"
  /\ SaveThread(t, "rdel")
  /\ UNCHANGED <<held, writerVars, linked, spc, arg, lastBuffer, datatype,
                 parsed_datatype, rc>>

\* shmdata_delete_follower joins the socket thread, which reads what it was told of.
DeleteFollower(t) ==
  /\ pc[t] = "rdel" /\ spc = "idle" /\ ~unread
  /\ pc' = [pc EXCEPT ![t] = "rfree"]
  /\ reader' = "joined" /\ linked' = FALSE
  /\ UNCHANGED <<gil, held, writerVars, spc, arg, lastBuffer, datatype,
                 parsed_datatype, rc>>

\* The rest of Reader_dealloc, with the GIL: lastBuffer is not given up.
ReaderFree(t) ==
  /\ pc[t] = "rfree" /\ gil = LeftBy(t)
  /\ gil' = t
  /\ pc' = [pc EXCEPT ![t] = "py"]
  /\ reader' = "gone"
  /\ UNCHANGED <<held, writerVars, linked, spc, arg, lastBuffer, datatype, parsed_datatype, rc>>

-----------------------------------------------------------------------------
(* The socket thread.                                                      *)

\* The follower connects: the server has its acknowledgement, and may announce
\* frames, before on_connect is called.  It may do so before shmdata_make_follower
\* has returned.
Connect ==
  /\ reader \in {"init", "up", "del"} /\ spc = "idle" /\ writer = "up" /\ ~linked
  /\ linked' = TRUE /\ spc' = "conn" /\ arg' = run
  /\ UNCHANGED <<gil, pc, held, writerVars, reader, lastBuffer, datatype,
                 parsed_datatype, rc>>

\* Mutant: the type description is parsed for the first writer only.
ParsedOnce == IF parsed_datatype = 0 THEN arg ELSE parsed_datatype

ParseDatatype == arg

\* Reader_on_connect_handler, within the GIL.
OnConnect ==
  /\ spc = "conn" /\ gil = "none"
  /\ datatype' = arg /\ parsed_datatype' = ParseDatatype
  /\ spc' = "idle"
  /\ UNCHANGED <<gil, pc, held, writerVars, reader, linked, arg, lastBuffer, rc>>

\* Reader_on_data_handler, up to PyGILState_Ensure.  frame_mutex is only ever
\* locked by this thread: try_lock succeeds.
OnData ==
  /\ spc = "idle" /\ linked /\ unread
  /\ spc' = "data" /\ arg' = frame
  /\ UNCHANGED <<gil, pc, held, writerVars, reader, linked, lastBuffer, datatype,
                 parsed_datatype, rc>>

\* The new buffer takes the place of the last one, and the callback is called
\* with a tuple that refers to it too.
OnDataEnsure ==
  /\ spc = "data" /\ gil = "none"
  /\ gil' = "sock" /\ spc' = "cb"
  /\ lastBuffer' = arg
  /\ rc' = [f \in Frames |-> CASE f = arg -> 2
                               [] f = lastBuffer /\ f # arg -> rc[f] - 1
                               [] OTHER -> rc[f]]
  /\ UNCHANGED <<pc, held, writerVars, reader, linked, arg, datatype, parsed_datatype>>

\* The callback is Python code: the GIL may go and come.
CallbackSwitch ==
  /\ \/ spc = "cb" /\ spc' = "cbwait" /\ gil' = "none"
     \/ spc = "cbwait" /\ gil = "none" /\ spc' = "cb" /\ gil' = "sock"
  /\ UNCHANGED <<pc, held, writerVars, reader, linked, arg, lastBuffer, datatype,
                 parsed_datatype, rc>>

\* The callback ends, the tuple goes, the GIL and then the read lock are released.
OnDataReturn ==
  /\ spc = "cb"
  /\ spc' = "idle" /\ gil' = "none" /\ unread' = FALSE
  /\ rc' = [rc EXCEPT ![lastBuffer] = @ - 1]
  /\ UNCHANGED <<pc, held, writer, run, frame, runOf, reader, linked, arg, lastBuffer,
                 datatype, parsed_datatype>>

-----------------------------------------------------------------------------
Library(t) ==
  MakeWriter(t) \/ CopyToShm(t) \/ DeleteWriter(t) \/ MakeFollower(t) \/ DeleteFollower(t)

ThreadNext(t) ==
  \/ Switch(t) \/ RestoreThread(t) \/ WriterInit(t) \/ Push(t) \/ WriterDealloc(t)
  \/ ReaderInit(t) \/ Pull(t) \/ DropPulled(t) \/ ReaderDealloc(t) \/ ReaderFree(t)
  \/ Library(t)

SockNext == Connect \/ OnConnect \/ OnData \/ OnDataEnsure \/ CallbackSwitch \/ OnDataReturn

Next == (\E t \in Threads : ThreadNext(t)) \/ SockNext

Spec == Init /\ [][Next]_vars

\* Calls of the library end when they can, Python threads give the GIL up, every
\* thread that waits for it gets it, and callbacks end.
Fairness ==
  /\ \A t \in Threads :
       /\ WF_vars(Library(t))
       /\ WF_vars(gil = t /\ Switch(t))
       /\ SF_vars(RestoreThread(t) \/ ReaderFree(t))
  /\ WF_vars(OnData)
  /\ SF_vars(OnConnect \/ OnDataEnsure \/ (spc = "cbwait" /\ CallbackSwitch))
  /\ SF_vars(OnDataReturn)

FairSpec == Spec /\ Fairness

-----------------------------------------------------------------------------
(* Properties.                                                             *)

\* The references to f that the wrapper and its callers have.
Refs(f) ==
  Cardinality({t \in Threads : held[t] = f})
  + (IF lastBuffer = f THEN 1 ELSE 0)
  + (IF lastBuffer = f /\ spc \in {"cb", "cbwait"} THEN 1 ELSE 0)

\* Reference counts are exact while on_data replaces lastBuffer between the pulls
\* of other threads: no buffer is freed in use, and none but lastBuffer is kept.
BuffersCounted == TypeOK /\ \A f \in Frames : rc[f] = Refs(f)

\* The callback gets a buffer with the type description, parsed too, of the
\* writer that sent it, across writers and although frames may be announced
\* before on_connect has the GIL.
TypeOfFrame ==
  spc = "cb" => /\ datatype = runOf[lastBuffer]
                /\ parsed_datatype = datatype

\* Nobody waits in a circle: who has the GIL is in Python code and waits for
\* nothing, and the frame that push and Reader_dealloc wait for is one that a
\* socket thread is there to read.
NoCircularWait ==
  /\ gil \in Threads => pc[gil] = "py"
  /\ gil = "sock" => spc = "cb"
  /\ unread => linked /\ reader \in {"init", "up", "del"}

\* push returns although it waits for a reader of the same process, whose on_data
\* waits for the GIL.
PushReturns == \A t \in Threads : pc[t] = "push" ~> pc[t] = "py"

\* Reader_dealloc returns although it joins a thread that waits for the GIL.
DeallocReturns == reader = "del" ~> reader = "gone"
=============================================================================
