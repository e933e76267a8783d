# A TLA+ model of shmdata

shmdata shares frames of data between processes: one *writer* publishes frames in a System V shared
memory segment and any number of *followers* read them. This directory holds TLA+ modules that model
its core, TLC configurations that check them on small instances, and machine-checked proofs of the
main results for every instance. `PROJECT.json` maps each definition to the source lines it stands for.

## Inventory

Paths are relative to `src/`.

| Part | State | Operations | Modelled by |
|---|---|---|---|
| `shmdata/sysv-sem.*`: `sysVSem`, `ReadLock`, `WriteLock` | two semaphores: 0 counts the readers that owe a unit plus the writer, 1 is the writer; the reset thread of each `WriteLock` | `read_start/end`, `write_start/end`, `commit_readers`, `cancel_commited_reader`, reset after 1000 ms, removal, `force_semaphore_cleaning` | `SysVSem` |
| `shmdata/unix-socket-server.*` | `clients_`, `pending_clients_`, `clients_notified_`, the select set, `clients_mutex_` | accept and greet, read acknowledgements and quits, notice lost clients, `notify_update`, destructor | `UnixSocket` (handshakes), `SysVSem` (effect on the lock), `WriterInit` (bind, cleaning) |
| `shmdata/unix-socket-client.*`, `unix-socket.*`, `unix-socket-protocol.*` | the descriptor, `connected_`, `is_valid_`, the socket thread | connect, `start` with a 1000 ms timeout, `server_interaction`, destructor | `UnixSocket` |
| `shmdata/follower.*`, `file-monitor.*` | `quit_`, `is_destructing_`, `monitor_`, `reader_`, two mutexes | constructor, destructor, `monitor`, `on_server_disconnected` | `Follower` |
| `shmdata/reader.*` | its client, its view of the memory and of the semaphores | constructor, `on_buffer` | constructor in `WriterInit`, attachment in `WriterShm`, `on_buffer` in `SysVSem`, outcomes in `UnixSocket` and `Follower` |
| `shmdata/writer.*`: `Writer`, `OneWriteAccess` | segment, semaphores, server, sizes | constructor with recovery of a dead shmdata, `copy_to_shm`, write accesses with or without resize, destructor | locking and notification in `SysVSem`, the five ways to write in `WriterShm`, the rest in `WriterInit` |
| `shmdata/sysv-shm.*` | a segment: key, size, attachment | create, attach, remove, `force_shm_cleaning` | `WriterShm`, `WriterInit` |
| `shmdata/type.*` | name, properties and custom type names of a type description | constructor (parser), `set_prop`, `str` | `TypeDescr` |
| `gst/gstshmdatasrc.*` | flags and two mutex/condition pairs between the socket thread and the streaming thread; caps | state changes, `unlock`, `on_data`, `create`, release of a wrapped buffer, (dis)connection | `GstShmdataSrc` |
| `gst/gstshmdatasink.*` | a writer with its one open access, `size`, an allocator of the shared memory | `on_caps`, `alloc`, `render`, `stop`, `initial-size` | `GstShmdataSink`, on `WriterShm` |
| `wrappers/python/pyshmdata.*` | Python objects around `Writer` and `Follower`, `lastBuffer`, the interpreter's lock | construction, `push`, `pull`, the two handlers, deallocation, a parser of type descriptions | `PyShmdata`, the parser in `TypeDescr` |
| C API | none of its own | forwards to `Writer` and `Follower`; NULL for a writer that could not be made | through its users in `PyShmdata` and `GstShmdataSink` |
| loggers, tools, packaging, tests | none of their own | | not modelled |

How they interact. The server thread and the writing thread of the writer's process share the client
sets under `clients_mutex_`. A client's socket thread is the only one that runs the reader's
callbacks. Writer and readers meet in three places: the socket (connect, update and quit messages),
the semaphores and the memory. A follower adds monitor threads that wait for the socket file and make
the next reader. The source element puts a second exchange behind the first: `on_data` keeps the read
lock until the pipeline has released the buffer. The sink element keeps a write access open while upstream
writes to the shared memory, and may be stopped or renegotiated while upstream still has some of it. The Python wrapper adds the interpreter's lock to everything that waits.

What is hard. A reader takes nothing when it begins to read: the *writer* counts it in semaphore 0 when
it notifies it, before the frame is written, and the reader gives that unit back later. Processes can be
killed at every point, no semaphore operation uses `SEM_UNDO`, and three mechanisms repair the count:
the server's cancel of a client that died with an unread update, the reset thread of the next write,
and the removal of the semaphores by the next writer. A writer that resizes has no segment for a moment,
and looks dead to a writer that starts then. The keys of the memory and the semaphores are computed from the inode of the socket file, which
the recovery of a dead shmdata replaces, and a reader guesses from the size of a frame whether the
segment was replaced. In the follower three kinds of threads share one flag and wait for each other. In the source
element a token (`data_rendered`) may be given with nobody waiting for it, and flags are shared without lock.
`PROJECT.json` lists these under `hazards`, each at its line.

## Modules

- **`FrameExchange`** is the abstract specification: a frame is written while nobody reads, published to
  some readers, read once by each of them (or the reader is lost), and only then is the next written.
- **`SysVSem`** is the lock under the way `Writer` and `Reader` drive it. The writing thread (`wpc`)
  goes through `WriteLockBegin`, `WriteStart` (the atomic `write_start`), `WriteLockDone`,
  `NotifyBegin`/`NotifySend`/`NotifyEnd` under `clients_mutex_`, `CommitReaders` and `WriteEnd`;
  `ResetReaders` is the reset thread. Readers (`rpc`) receive an update, take the `ReadLock`, run the
  callback and unlock. The server thread lets clients join and leave, and reaps the dead ones, with or
  without a cancel. Either side may be killed between any two of these steps. `debt` is auxiliary: the
  readers for which a unit of semaphore 0 is held or about to be. `mem` is the frame in the memory, or
  `Torn` while it is being written. Which frame an update announces (`upd`, `cur`) is also auxiliary: the
  real message holds its size.
  A failing `semop` is modelled where the set is removed. A reader's re-attachment of the segment before
  `on_buffer` does not touch this state and is modelled in `WriterShm`.
- **`UnixSocket`** is the protocol over the sockets: the select loop of the server, one descriptor per
  step; `notify_update`; the destructor; and for each client the user's thread (`cpc`) and the socket
  thread (`tpc`). Closing a socket with unread messages makes the peer's `read` fail (`ECONNRESET`)
  instead of returning 0, which is what the server's cancel depends on. A descriptor is the name of its
  client: reuse of descriptor numbers is not modelled.
- **`Follower`** has the statements of `follower.cpp` as its actions, for the user's thread, the monitor
  threads and the socket threads. A `Reader` is its number and the writer's run it met.
- **`WriterShm`** takes the lock as `FrameExchange` describes it and has the segments: `seg` is the one of
  the path, `mem` the one the writer writes to, `rseg` the one each reader is attached to, `alloc` and
  `objSize` the two sizes the writer decides from. `CopyBegin`, `AccessBegin`, `AccessResize`,
  `AccessPtrResize` and `ShmResize` are the five ways to write; between `DropSegment` and
  `CreateSegment` the path has no segment, and a reader may try to attach. `Update` is the reader's
  callback before the lock, which attaches again only if the frame's size changed.
- **`WriterInit`** is the life of writers at one path: the constructor with the recovery of a dead
  shmdata, one action per system object it makes or removes, the destructor in the order of the
  members, and `Kill` at any of these steps. A serving writer may replace its segment (`ResizeDrop`,
  `ResizeMake`), whichever of the four resizing calls does it. A key is the inode number it came from, 0 standing for
  `(key_t)-1`; a set or a segment is named after the writer that made it. The inspecting `Reader` of
  the recovery is one step, which waits for a server that is about to serve (it has a second); other
  readers open the socket, the memory and the semaphores in three steps.
- **`GstShmdataSrc`** has three threads: the socket thread (`spc`), with one action for each part of
  `on_data` between two locks; the streaming thread in `create` (`cpc`), which holds `on_data_mutex` from
  its take of a frame to its end; and the application (`apc`), which changes the state and flushes. The base
  class is what the element sees of it. The source is live (`gstshmdatasrc.c:205`), so `create` is called in
  PLAYING only; a flush, a pause or a stop calls `unlock` and waits for `create` to return, and after a pause
  `unlocked` stays set until the element plays again. `keepsLast`, chosen once, says whether
  downstream keeps a buffer until it has the next one, as a sink does. `forced` counts the tokens that
  `make_data_rendered` gave out of turn. The follower starts looking for the next writer before it tells of
  the lost one, so `OnServerDisconnect` may come after the next `OnServerConnect`.
- **`GstShmdataSink`** extends `WriterShm` and takes its actions for the write access (`ShmResize`,
  `CreateSegment`, `Notify`, `Release`, `AccessBegin`) and for the readers. What is new is the element: its
  size, the buffers that upstream has, and for each segment the frame it holds. `Stop`, `OnCaps` and
  `OnCapsFails` do not ask what upstream has, as the code does not: buffers stay, with memory of a removed
  segment, and belong to no present allocator (`Disown`). An allocator of earlier caps may still be asked for
  memory, and uses the access all the same. `ShmMax` is the limit over which `render` refuses a buffer. Deleting
  a writer sends every reader away; a callback that runs at that moment is not followed further (its segment keeps its
  content until it detaches).
- **`PyShmdata`** has the Python threads and the socket thread of one Reader, with the GIL as the variable
  `gil`. A call of the library is made of `SaveThread`, the library's step, and `RestoreThread`; Python code
  may lose the GIL at any time. Reference counts of the received buffers are kept as the code does
  (`rc`), and compared with who really refers to them.
- **`TypeDescr`** has the parser and the serializer as operators over texts, sequences of tokens (a
  special character, a digit, a word), and the Python wrapper's parser beside them. A value is an `int`, a
  text, a number of another type (its type name, of one word or two, is what differs on reading back), or of a
  type `str` does not know. An uninitialized `tmp_int` (`type.cpp:68`) is a choice. The actions build a
  `Type`; the properties compare the operators on each `Type` that can be built. Tokens are needed because
  escaping, quoting and the search for a type name depend on what stands next to what.
- **`MC…`** modules instantiate these for TLC; the bounds are in the `.cfg` files.
- **`…Proofs`** modules, one per component but `TypeDescr`, extend the component's module with its inductive
  invariant, the lemmas and the theorems.

## Runs

| Run | Question | Result |
|---|---|---|
| `SysVSem` | two readers that may be killed at any step, timeouts that are reasonable, fair threads: the inductive invariant, whole frames, no blocked unlock, no skipped frame, refinement of `FrameExchange`; writes end, updates are read, blocked readers are released | holds |
| `SysVSem_stuckwriter` | living readers whose callback lasts over a second, fair threads: writes end | violated |
| `UnixSocket` | two clients that connect, give up, quit or die: no update before the acknowledgement, descriptor sets, cancels, goodbyes | holds |
| `WriterShm` | two readers, segments that only grow, a `shmget` that may fail: callbacks read the writer's segment, within its bounds | holds |
| `WriterInit` | four writers, killed at any step, resizes included, inode numbers reused: a served path stays intact and readable, readers get the right semaphores, recovery always works, nothing is left | holds |
| `WriterInit_inode` | inode numbers never reused: a served path is readable | violated |
| `Follower` | three runs of a writer that leaves the follower time to finish connecting | holds |
| `Follower_lost` | a writer that may stop at any moment: the follower reconnects | violated |
| `GstShmdataSrc` | two writers one after the other, pauses, flushes, stops, restarts, caps that are refused: frames in use are overwritten at most as often as tokens were given out of turn, stops included; order, caps; `on_data` never waits for a token nobody will give; it returns while the element plays; the change to NULL returns | holds |
| `GstShmdataSink` | renegotiation, stop, resizes, own, outdated and foreign buffers, a reader: `size` is real, only memory of the present segment is announced uncopied, callbacks get the frame that was rendered, `render` returns | holds |
| `PyShmdata` | two Python threads that make, use and drop a Writer and a Reader of the same path: reference counts, the type that goes with a frame, `push` and deallocation return | holds |
| `TypeDescr` | types of two properties, integers, texts, custom types, other numbers: parsing the serialization gives integers and texts back, and the same text exactly if no number type has a name of two words; the Python parser reads plain values alike | holds |

Bounds. Two readers let one be dead or joining while the other is busy; the proofs are for any number. Frames are numbered
modulo 2 in the passing runs, enough to tell a frame from its predecessor, because the invariant says
that no living reader is ever more than one frame behind. One update per socket buffer is the smallest
that does not block every `send`; the invariant shows that more are never used. Three sizes and four
segments let a segment be replaced twice after a reader attached, by each of the resizing calls. Four
writers let the recovery of a writer killed in its own recovery be killed again, and three inode
numbers leave one free even while the file and the socket of another writer each hold one. Three runs of the writer and four readers let a follower lose and
find its writer twice. In the source element three frames over two connections let one be wrapped, one
handed over and one written, and three tokens out of turn let it be paused, flushed, stopped and restarted; in the
sink three segments let it be resized and renegotiated, and the largest of four sizes is over `ShmMax`; in Python two threads are
needed for one to pull or push while the other deallocates, and three frames for a buffer to be replaced
while an older one is held. A text of three tokens holds a character to be escaped between two others, and
the second property shows what a first one does to its neighbour. `CHECK_DEADLOCK FALSE` is set throughout: a destroyed writer, client or follower
does nothing more.

`Timing` names the assumption on the 1000 ms timeout. `"reasonable"`: it expires only while the writer
waits for units of readers that are gone and that the server (which looks every 10 ms) has already
removed; this is what the comment at `sysv-sem.cpp:119-127` counts on. `"slow"`: also when it waits for
a living reader. `"any"`: at any moment. The passing run is under
the first, `SysVSem_stuckwriter` under the second; the table below says which proofs need the first. No run uses the third: the reset thread tests a flag
that is set after `semop` returned, and with `Timing = "any"` and no reader at all TLC finds a reset in
that window, which removes the writer's own unit, so that `WriteCompletes` fails.

`WriterWaits` and `UserWaits` play the same part for the follower: the writer does not stop between the making
of a reader and the end of the thread that made it, and the destructor does not start during a disconnection
handler. Without the first the follower may never reconnect (`Follower_lost`), or may have two readers
(`OneReader` fails). Without the second the destructor may wait for a monitor that only a writer's return ends,
and a reader that monitor makes outlives the follower: `DtorReturns` and `NoThreadSurvives` are not claimed there.

`Growing`: an access resizes only to a greater size, is then written to, and announces a frame of that size;
`copy_to_shm` alone always does. `Reuse`: the file system gives a freed inode number to the next file
(ext4 and tmpfs differ here). `Overlap` is FALSE in the runs: writers start and stop one at a time,
though they may be killed at any step. With TRUE, TLC finds a writer that takes the half-made
objects of another, still starting one for those of a dead one, and `ServedIsIntact` fails.
`ResizeAnyTime` is FALSE in the passing run: no writer starts or stops between the two halves of a resize.
With TRUE all five properties of the run fail (see below).

`Orderly`, of the sink: upstream has one buffer at a time and pushes it whole, does not keep back one that the
segment was resized for, neither writes to nor pushes memory of a segment that is gone, and `initial-size` is
set while there is no writer. None of this is checked by the element; a buffer that upstream has when the
writer is deleted stays, and may only be let go. `SetAnyTime` and `BadTypes`, of the source: whether `copy-buffers` may be switched
while the element runs (it may not in the run: a switch from copies to wrapped buffers comes without the
token of the first read, a sink that keeps its last buffer then stalls, and `OnDataReturns` and `WaitIsPaid` fail), and the connections whose type description is no caps string. `CapsFail`: the pipeline may
refuse caps. In `TypeDescr` the alphabet has all characters with a meaning except the backslash and the
quotation mark, which the serializer does not escape.

Fairness. Weak fairness per thread: a thread that can go on eventually does, callbacks return, the
timeout of the reset thread expires, the server's loop handles each readable descriptor (it visits all
of them in each round), downstream's buffers are released unless the pipeline is paused. Strong fairness where a
thread competes for a lock that is given up again and again: the streaming thread between flushes (in PLAYING,
the only state in which `create` is called), and whoever waits
for the interpreter's lock. Users are free never to write, connect, quit or restart anything.

### What the violated runs show

- After a reset a slow, living reader still executes `read_end`. It takes the writer's own unit, and
  `write_end` blocks for ever (`SysVSem_stuckwriter`). While its callback runs the memory may also be
  rewritten under it: `ReadsAnnouncedFrame` fails under the same constants.
- The recovery makes the semaphores and the memory with the key of the old socket file, then unlinks it
  and binds a new one. Unless the new file gets the old inode number, readers compute other keys and
  nobody can read the recovered writer (`WriterInit_inode`).
- `quit_` serves both the ending and the starting monitor (`Follower_lost`).

### What fails outside the constants of the runs

These were found with other constants or with properties that the runs do not keep:

- A resize removes the segment before it makes the next (`writer.cpp:93-94`, `130-131`, `145-146`, `160-162`). A
  `Writer` that starts at the path at that moment has an inspecting `Reader` without memory, which is invalid
  (`reader.cpp:46`), takes the living writer for a dead one, and removes its semaphores, its memory and its
  socket file (`writer.cpp:48-60`). It may also make its own segment in the gap, so that the living writer's
  is not made. With `ResizeAnyTime = TRUE` every property of `WriterInit` fails, and the theorems have
  `~ResizeAnyTime` as a hypothesis.
- `str` writes `(long long)5`, which is no type for the parser's `\([\w]+\)` (`type.cpp:49`, `170`): it comes back
  as a string with the parentheses in it, and serializes differently. Types with a name of one word (`long`,
  `unsigned`, `float`, `double`) keep their text but come back as strings, and a value of a type that `str` does
  not know is not written at all. `RoundTrip` states which is which.
- A reader looks for a new segment only when the size of the frame changes (`reader.cpp:30`). With
  `Growing = FALSE` a segment is replaced between two frames of equal size and `ReadsWritersSegment`
  fails: the reader goes on with the removed segment.
- After `new sysVShm` the writer tests the pointer, which is never null, instead of the object's validity
  (`writer.cpp:97`, `163`), so a failed allocation is reported as success. An access that is then released
  unwritten leaves a writer without segment that believes in one: with `CanFail` and without `Growing`,
  `AllocIsReal` and `ReadsWithinSegment` fail.
- `~UnixSocketServer` says quit to `clients_` only (`unix-socket-server.cpp:96`): a client whose
  acknowledgement is still unread keeps a silent connection as long as the process lives.
- In PAUSED nobody takes a frame from the source element: `on_data` waits with the read lock in hand, and the
  writer of the other process behind it, for as long as the pipeline is paused (`gstshmdatasrc.c:390`).
  `OnDataReturns` is about PLAYING.
- A source element that goes from READY to NULL without having run has `stop_read` FALSE, and its
  `~Follower` may wait for an `on_data` that waits for a token; `StopReturns` fails without `stop_read` in
  its premise. After refused caps `on_data_mutex` stays locked (`gstshmdatasrc.c:445`), and both
  `OnDataReturns` and `StopReturns` except that case.
- With `Orderly = FALSE` the sink's three invariants fail: two memories of its allocator are the same
  bytes, a resize, a stop or new caps unmap memory that upstream still has and may push, and `initial-size` set
  while a writer is up makes `size` a wish. `GrowsOnly` fails too: a resize may then shrink the segment.
- A type description that is no caps string, after one that is, sets `self->caps` to NULL while
  `has_new_caps` of the first is still up (`gstshmdatasrc.c:297`): with `BadTypes = {2}` a frame of the first
  connection is pushed with no caps and `CapsNotOlder` fails.
- With a `shmget` that fails, the sink's `size` is wrong, `alloc` falls back to standard memory, and `render` of
  that announces a frame which is in no segment: `SizeIsReal` and `SentIsFrame` fail.
- With a backslash or a quotation mark in the alphabet `RoundTrip` fails: neither is escaped.
- The Python reader's `drop_frames` never drops a frame: only the socket thread locks `frame_mutex`.

## Proofs

Every invariant and every action property of the passing runs is a theorem, except the two of `TypeDescr`.
All of them hold for any values of the bounds; what they assume beyond the `ASSUME`s of the modules is
in the second column, and TLC refutes the property without it wherever it is a hypothesis (`OwnSafe` and
`SinkGrows` excepted, which share `~CanFail` with the others' invariant).

| Module | Hypotheses | Theorems |
|---|---|---|
| `SysVSemProofs` | none | `TypeCorrect`, `CallbackStartsWhole` |
| | `Timing = "reasonable"` | `SemSafe`, `FrameSafe`, `UnlockSafe`, `FramesInOrder`, `LockImplementsExchange` (refinement of `FrameExchange`) |
| `UnixSocketProofs` | none | `SetsSafe`, `ConnectSafe`, `UpdatesHandled`, `CancelSafe` |
| `WriterShmProofs` | none | `SegmentsUseExchange` (refinement of `FrameExchange`) |
| | `CanFail => Growing` | `AllocSafe`, `WithinSegment` |
| | `Growing` | `SegmentSafe` |
| `WriterInitProofs` | `~Overlap`, `~ResizeAnyTime` | `FailureJustified` |
| | `Reuse`, `~Overlap`, `~ResizeAnyTime` | `ServedSafe`, `ReadableSafe`, `SemaphoreSafe`, `EndLeavesNothing` |
| `FollowerProofs` | `WriterWaits` | `OneReaderSafe` |
| | `WriterWaits`, `UserWaits` | `ThreadsJoined` |
| `GstShmdataSrcProofs` | none | `OverwrittenBounded`, `PushedInOrder` |
| | `BadFirst` | `CapsInTime` |
| | `~SetAnyTime` | `WaitsArePaid` |
| `GstShmdataSinkProofs` | `Orderly`, `~CanFail` | `SizeSafe`, `OwnSafe`, `SentSafe`, `SinkGrows` (steps of `WriterShm` with `Growing`) |
| `PyShmdataProofs` | none | `CountsExact`, `TypesMatch`, `WaitsAreFree` |

Six of these state a property that is not part of a run, because a run's own property is the stronger or the
more telling one under that run's constants: `AllocIsReal`, `ReadsWithinSegment` and `UsesExchange` (`WriterShm`),
`StartsOnLastFrame` (`SysVSem`), `GrowsOnly` (`GstShmdataSink`) and `NoCircularWait` (`PyShmdata`). TLC was asked
about each of them before it was proved.

Three of the theorems put the modules together. `LockImplementsExchange` and `SegmentsUseExchange` meet in
`FrameExchange`: what the segments take for granted of the lock is what the semaphores give. `SinkGrows` and
`SegmentSafe` meet in `Growing`: what `WriterShm` assumes of its user is what the sink element does.

The `ASSUME`s are the types of the constants, and that the sets of readers, of Python threads and of writers
are finite (`"none"` is no writer). Each inductive invariant was checked by TLC on an instance like that of the
component's run before it was proved.

### The arguments

**`SysVSem`.** `ReadsAnnouncedFrame` is not inductive: that a callback's frame stays in memory depends on
semaphore 0 being above zero, which depends on who owes units. `SemInvariant` adds exactly this.
`SemaphoresCount`: `sem0 + (notified, not yet commited) = (1 during an access) + |debt|`.
`DebtsKnown`: every living reader with an update, received or not, is in `debt`, and only notified
readers are. `CurrentFrameOnly`: what a living reader was told of is the current frame, once.
`MemoryGuarded`: the memory is torn only while semaphore 1 is up, and then nobody reads.
`ThreadsInPlace`: the mutex, the reset thread and a cancel's victim. `write_start` needs `sem0 = 0`, so
`debt` is empty and no living reader is behind; `ResetReaders` empties `debt` only of dead ones. The
other theorems follow from `SemInvariant`; the refinement adds one step per action. None of this survives a
reset under a living reader; what does is in `WriterMarked`, which needs no `Timing`: semaphore 1 is up from
`write_start` to the end of the access, and while it is down the memory holds the last frame. `read_start` waits for it to be
down, so that every callback at least starts on a whole frame.

**`UnixSocket`.** `SocketInvariant` follows each message from one end to the other: what may be in a backlog,
where each of a client's two threads is (`Threads`), when a peer may see a reset (`Resets`), and which
messages may be in the socket at each of these points (`Messages`). A cancel needs a reset, a reset an unread
message, and only a killed client leaves an update unread.

**`WriterShm`.** `WriterKnows`: the writer's two sizes are those of its segment, in the middle of a resize
and, with `Growing`, after a failed `shmget` too; this gives `AllocIsReal` for any resizes where none fails. `ReaderInvariant` is about a
reader's guess: sizes never shrink (`SizesGrow`), a reader that has compared sizes has the writer's
segment and one that has not yet will see a difference (`BusyReaders`), and one that waits with an old
segment has seen no size, or only smaller ones (`WaitingReaders`). Without `Growing` a reader may be left with
a removed segment, but the size it compares is still one that fits the segment it has (`Attached`): hence
`WithinSegment`.

**`WriterInit`.** With inode numbers reused there is one key at a time (`OneKey`), and with writers one at
a time all objects of that key are those of the writer that starts or serves, or a dead one's (`Alone`,
`Starting`, `Served`, `Bound`). In the gap of a resize the key has no segment, and nobody else starts. Readers add what they have opened so far (`Opened`): a reader that has
opened the socket before the recovery has lost its connection when it is done. Where inode numbers are not
reused little of this is true, but a recovery still removes what stands in its own way (`Retrying`), which is
all that `FailureJustified` needs.

**`Follower`.** The threads come one after the other: each reader has been made by a thread that is over when
the next one starts (`InOrder`), and for each place of the user's thread the invariant says which threads
may still run (`Constructing`, `Watchers`, `Monitors`, `Leaving`, `Destructing`). A destructor that begins during a handler
invalidates one part only (`Joined`, which is conditional on `UserWaits`): the monitor it may leave behind makes
a reader only when the last one no longer serves. That a thread number
is fresh needs the least number of a set, which `NatMin` takes from the well-foundedness of the naturals.

**`GstShmdataSrc`.** The token of `data_rendered` is an account: `Accounts` says that the frames that have
been handed over and have given no token, plus the token there may be, are at most the tokens out of turn,
plus one while `on_data` waits. Handing over raises both sides, consuming a token lowers both, releasing a
buffer or copying it turns a frame into a token, and a token that is set twice only makes the left side
smaller. It is this, and not `stop_read`, that bounds overwritten frames, so that `FewOverwritten` is claimed
of stopped elements too. `Ordered` has the frames of the memory, of `on_data`, of `create` and of the
pipeline in this order. For caps, `Parsed` (no frame is of a later connection than `self->caps`) and
`Announced` (whatever the pad does not have is flagged, or about to be set) are needed; `self->caps` must not go
back, hence `BadFirst`: type descriptions that are no caps string come before those that are. `WaitIsPaid` is the
safety half of `OnDataReturns`: a token is owed by somebody who can give it. `Kept` says that a downstream
which keeps the last buffer has it, so that from the second frame on a wait begins with a buffer that
will be released; `Paid` that after the take the waiting frame is itself a buffer, with an older one beside it
unless the token of the first read is coming.

**`GstShmdataSink`.** The sink resizes only to a greater size, and an orderly upstream pushes the buffer it
asked for, so that a new segment is always announced with a frame that fills it (`NewSegment`). That is
what `Growing` assumes of a writer's user; here it is a consequence, and the readers' part of the invariant
(`SinkReaders`) is that of `WriterShm`. `OneBuffer` relates the buffer upstream has to the segment and to the
frame it holds if it is the present allocator's, and says that it is not if its segment has gone: this is where
`Disown` is needed. `InStep` relates the two programs, `SegmentKnown` the three sizes. `SinkGrows` states the consequence as a relation of steps: each is one of
`WriterShm` with `Growing <- TRUE`, or makes or deletes the writer.

**`PyShmdata`.** `on_data` gives a buffer the count 2, which is right only if nobody has a reference to it
yet: buffers arrive in the order of the frames (`Arriving`), so that all that is held is older.
`Described` relates the type description to the writer that is linked, or to the frame being handled when
that writer has already gone. The interpreter's lock is not needed for either. It is what `NoCircularWait` is about,
the safety half of `PushReturns` and `DeallocReturns`: `GilRuns` (whoever has the lock runs Python code) and `Reading`
(one thread makes the Reader, one deletes it, and an unread frame always has a socket thread).

### What stays with TLC

The `~>` properties (`WriteCompletes`, `UpdateIsRead`, `BlockedReaderReleased`, `QuitAnswered`, `StopIsTold`,
`Reconnects`, `DtorReturns`, `OnDataReturns`, `StopReturns`, `RenderReturns`, `PushReturns`, `DeallocReturns`): the proof
system does not handle fairness and `ENABLED`. `RoundTrip` and `PythonReadsSame`: what the parsers and the serializer
compute for every text is a matter of induction over data.

## Not modelled

Loggers and formatting change no state; the command line tools are thin users of `Follower` and of the
cleaning functions. Descriptor exhaustion, failing `listen`, `select` and `accept`, permissions of the three
objects and whether they survive a resize, identifiers that are 0, keys of two paths that collide in the
16 bits `ftok` keeps of an inode, reuse of descriptor numbers, signals interrupting a `semop`, and the
freeing of C++ objects under another thread are outside the present models (see the notes under `hazards`).
Of the elements: counters, `getcaps`, extra caps, sub-memories, prefix, padding and alignment (which are not in the
size the segment is resized to), client signals, `render` without a writer, a resize through the access of a
deleted writer, and the unmapping of memory that a wrapped buffer points to. Of the Python wrapper: a second `__init__` of an object
(the first follower is leaked and goes on calling back), a callback that drops the last reference to its own
Reader, a `bytearray` resized during `push`, failing allocations. Of `Type`: numbers too large for
`stoi`, custom types over integer values (which make `str` throw), and the getters.

## Plan

The components are modelled and their safety properties proved, each with the weakest hypothesis found. What is left:

1. What `ServedSafe`, `ReadableSafe` and `SemaphoreSafe` keep when inode numbers are not reused, for a path that
   has no dead shmdata to recover.
2. What a follower keeps of `OneReader` when the writer stops at any moment.
3. The liveness properties and the text properties of `TypeDescr`, which need a prover with fairness and
   induction over data.
