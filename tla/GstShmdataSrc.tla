--------------------------- MODULE GstShmdataSrc ---------------------------
(***************************************************************************)
(* The GStreamer source element: frames come in on_data, called by the     *)
(* follower's socket thread with the read lock held, and leave as buffers  *)
(* of create, called by the streaming thread.  on_data hands its frame     *)
(* over with on_data_mutex and on_data, and returns, letting the writer    *)
(* go on to the next frame, when it has consumed data_rendered: a token    *)
(* that the release of a wrapped buffer gives, and that                    *)
(* make_data_rendered gives out of turn (first read, unlock, READY to      *)
(* NULL).                                                                  *)
(*                                                                         *)
(* The writer, the follower and the base class GstPushSrc are what the     *)
(* element sees of them: a frame is written when on_data has returned      *)
(* (FrameExchange), and a change of state or a flush waits for the         *)
(* streaming thread to leave create.  The element is a live source: create *)
(* is called in PLAYING only, and PLAYING to PAUSED calls unlock, until    *)
(* PAUSED to PLAYING calls unlock_stop.  A frame is its number.            *)
(***************************************************************************)
EXTENDS Naturals, FiniteSets

CONSTANTS
  MaxFrames,   \* bound: frames ever written
  MaxRuns,     \* bound: connections to a writer
  MaxForced,   \* bound: flushes, pauses and stops
  CapsFail,    \* TRUE: gst_pad_set_caps may fail
  BadTypes,    \* connections whose type description is no caps string
  SetAnyTime   \* TRUE: copy-buffers may be set while the element runs

ASSUME BoundsAssumption == {MaxFrames, MaxRuns, MaxForced} \subseteq Nat
ASSUME CapsFailAssumption == CapsFail \in BOOLEAN
ASSUME BadTypesAssumption == BadTypes \subseteq 1..MaxRuns
ASSUME SetAnyTimeAssumption == SetAnyTime \in BOOLEAN

VARIABLES
  \* the element
  state,          \* GST_STATE
  stop_read, unlocked, on_data, data_rendered, is_first_read, has_new_caps,
  copy_buffers, connected,
  caps,           \* connection whose caps self->caps are, 0 for NULL
  current,        \* the frame of current_data
  \* the threads
  apc,            \* application: "idle", "flush", "pause", "stop", "delete"
  cpc,            \* create: "idle", "wait", "flushing", "clear", "setcaps",
                  \* "make", "first", "failed" (on_data_mutex is never unlocked)
  spc,            \* socket thread: "idle", "connect", "call", "lock", "wait"
  \* the pipeline
  buffers,        \* wrapped frames whose buffer is alive
  last,           \* the last frame pushed
  padcaps,        \* connection whose caps the pad has
  keepsLast,      \* downstream keeps a buffer until it has the next, as a sink does
  \* the writer and the follower
  mem,            \* the frame in the memory
  runOf,          \* the connection each frame came through
  run,            \* connections made so far
  linked,         \* the last one is up
  osd,            \* disconnections not yet told to the element
  forced          \* calls of make_data_rendered

elementVars == <<stop_read, unlocked, on_data, data_rendered, is_first_read,
                 has_new_caps, copy_buffers, connected, caps, current>>
pipelineVars == <<buffers, last, padcaps, keepsLast>>
writerVars == <<mem, runOf, run, linked, osd>>
vars == <<state, elementVars, apc, cpc, spc, pipelineVars, writerVars, forced>>

Frames == 1..MaxFrames
Runs == 0..MaxRuns

TypeOK ==
  /\ state \in {"NULL", "READY", "PAUSED", "PLAYING"}
  /\ {stop_read, unlocked, on_data, data_rendered, is_first_read, has_new_caps,
      copy_buffers, connected, linked, keepsLast} \subseteq BOOLEAN
  /\ caps \in Runs /\ padcaps \in Runs /\ run \in Runs
  /\ apc \in {"idle", "flush", "pause", "stop", "delete"}
  /\ cpc \in {"idle", "wait", "flushing", "clear", "setcaps", "make", "first", "failed"}
  /\ spc \in {"idle", "connect", "call", "lock", "wait"}
  /\ buffers \subseteq Frames
  /\ {current, last, mem} \subseteq Frames \cup {0}
  /\ runOf \in [Frames -> Runs]
  /\ osd \in Nat /\ forced \in Nat

Init ==
  /\ state = "NULL"
  /\ is_first_read = TRUE /\ has_new_caps = FALSE /\ caps = 0 /\ on_data = FALSE
  /\ copy_buffers = FALSE /\ connected = FALSE /\ stop_read = FALSE
  /\ data_rendered = FALSE /\ unlocked = FALSE /\ current = 0
  /\ apc = "idle" /\ cpc = "idle" /\ spc = "idle"
  /\ buffers = {} /\ last = 0 /\ padcaps = 0 /\ keepsLast \in BOOLEAN
  /\ mem = 0 /\ runOf = [f \in Frames |-> 0] /\ run = 0 /\ linked = FALSE /\ osd = 0
  /\ forced = 0

Running == state \in {"PAUSED", "PLAYING"}

\* on_data_mutex: held by create from its take of a frame to its end.
MutexFree == cpc \notin {"clear", "setcaps", "make", "first", "failed"}

\* make_data_rendered.
MakeDataRendered ==
  /\ data_rendered' = TRUE
  /\ forced' = forced + 1

-----------------------------------------------------------------------------
(* The socket thread and what it is told.                                  *)

\* A writer is found; no frame comes before on_server_connect has returned.
Connect ==
  /\ state # "NULL" /\ ~linked /\ spc = "idle" /\ run < MaxRuns
  /\ run' = run + 1 /\ linked' = TRUE
  /\ spc' = "connect"
  /\ UNCHANGED <<state, elementVars, apc, cpc, pipelineVars, mem, runOf, osd, forced>>

\* Mutant: the flag is set before the caps.
OnServerConnectFlagFirst ==
  /\ spc = "connect"
  /\ \/ /\ ~has_new_caps
        /\ has_new_caps' = TRUE
        /\ UNCHANGED <<spc, caps, connected>>
     \/ /\ caps # run
        /\ caps' = run
        /\ connected' = TRUE /\ spc' = "idle"
        /\ UNCHANGED has_new_caps
  /\ UNCHANGED <<state, stop_read, unlocked, on_data, data_rendered, is_first_read,
                 copy_buffers, current, apc, cpc, pipelineVars, writerVars, forced>>

\* on_server_connect: the new caps, then the flag that tells create of them.
OnServerConnect ==
  /\ spc = "connect"
  /\ LET parsed == IF run \in BadTypes THEN 0 ELSE run
     IN \/ /\ caps # parsed
           /\ caps' = parsed
           /\ UNCHANGED <<spc, has_new_caps, connected>>
        \/ /\ caps = parsed
           /\ has_new_caps' = (has_new_caps \/ caps # 0)
           /\ connected' = TRUE /\ spc' = "idle"
           /\ UNCHANGED caps
  /\ UNCHANGED <<state, stop_read, unlocked, on_data, data_rendered, is_first_read,
                 copy_buffers, current, apc, cpc, pipelineVars, writerVars, forced>>

\* The writer has gone.  The follower looks for the next one before it tells the
\* element (follower.cpp), so that the next connection may come first.
Disconnect ==
  /\ linked /\ spc = "idle"
  /\ linked' = FALSE /\ osd' = osd + 1
  /\ UNCHANGED <<state, elementVars, apc, cpc, spc, pipelineVars, mem, runOf, run, forced>>

OnServerDisconnect ==
  /\ osd > 0 /\ osd' = osd - 1
  /\ connected' = FALSE
  /\ UNCHANGED <<state, stop_read, unlocked, on_data, data_rendered, is_first_read,
                 has_new_caps, copy_buffers, caps, current, apc, cpc, spc, pipelineVars,
                 mem, runOf, run, linked, forced>>

\* The writer writes a frame and on_data is called.
WriteFrame ==
  /\ linked /\ spc = "idle" /\ mem < MaxFrames
  /\ mem' = mem + 1
  /\ runOf' = [runOf EXCEPT ![mem + 1] = run]
  /\ spc' = "call"
  /\ UNCHANGED <<state, elementVars, apc, cpc, pipelineVars, run, linked, osd, forced>>

\* on_data, up to the mutex.
OnDataEnter ==
  /\ spc = "call"
  /\ spc' = IF stop_read THEN "idle" ELSE "lock"
  /\ UNCHANGED <<state, elementVars, apc, cpc, pipelineVars, writerVars, forced>>

OnDataHandOver ==
  /\ spc = "lock" /\ MutexFree
  /\ current' = mem /\ on_data' = TRUE
  /\ spc' = "wait"
  /\ UNCHANGED <<state, stop_read, unlocked, data_rendered, is_first_read, has_new_caps,
                 copy_buffers, connected, caps, apc, cpc, pipelineVars, writerVars, forced>>

\* Mutant: the token is left for the next frame.
OnDataReturnKeepsToken ==
  /\ spc = "wait" /\ data_rendered
  /\ spc' = "idle"
  /\ UNCHANGED <<state, elementVars, apc, cpc, pipelineVars, writerVars, forced>>

OnDataReturn ==
  /\ spc = "wait" /\ data_rendered
  /\ data_rendered' = FALSE
  /\ spc' = "idle"
  /\ UNCHANGED <<state, stop_read, unlocked, on_data, is_first_read, has_new_caps,
                 copy_buffers, connected, caps, current, apc, cpc, pipelineVars, writerVars,
                 forced>>

-----------------------------------------------------------------------------
(* The streaming thread.                                                   *)

\* create, up to its wait; the base class of a live source calls it in PLAYING.
CreateEnter ==
  /\ state = "PLAYING" /\ cpc = "idle" /\ ~unlocked
  /\ cpc' = "wait"
  /\ UNCHANGED <<state, elementVars, apc, spc, pipelineVars, writerVars, forced>>

\* The wait ends because of unlock: the frame is given up.
CreateUnlocked ==
  /\ cpc = "wait" /\ unlocked
  /\ on_data' = FALSE
  /\ cpc' = "flushing"
  /\ UNCHANGED <<state, stop_read, unlocked, data_rendered, is_first_read, has_new_caps,
                 copy_buffers, connected, caps, current, apc, spc, pipelineVars, writerVars,
                 forced>>

CreateFlushing ==
  /\ cpc = "flushing"
  /\ MakeDataRendered
  /\ cpc' = "idle"
  /\ UNCHANGED <<state, stop_read, unlocked, on_data, is_first_read, has_new_caps,
                 copy_buffers, connected, caps, current, apc, spc, pipelineVars, writerVars>>

\* Mutant: the frame is not marked as taken.
CreateTakeAgain ==
  /\ cpc = "wait" /\ on_data /\ ~unlocked
  /\ cpc' = IF has_new_caps /\ Running THEN "clear" ELSE "make"
  /\ UNCHANGED <<state, elementVars, apc, spc, pipelineVars, writerVars, forced>>

\* The wait ends because of on_data: create holds the mutex and has a frame.
CreateTake ==
  /\ cpc = "wait" /\ on_data /\ ~unlocked
  /\ on_data' = FALSE
  /\ cpc' = IF has_new_caps /\ Running THEN "clear" ELSE "make"
  /\ UNCHANGED <<state, stop_read, unlocked, data_rendered, is_first_read, has_new_caps,
                 copy_buffers, connected, caps, current, apc, spc, pipelineVars, writerVars,
                 forced>>

CreateClearNewCaps ==
  /\ cpc = "clear"
  /\ has_new_caps' = FALSE
  /\ cpc' = "setcaps"
  /\ UNCHANGED <<state, stop_read, unlocked, on_data, data_rendered, is_first_read,
                 copy_buffers, connected, caps, current, apc, spc, pipelineVars, writerVars,
                 forced>>

\* gst_pad_set_caps; when it fails create returns with the mutex locked.
CreateSetCaps ==
  /\ cpc = "setcaps"
  /\ \/ padcaps' = caps /\ cpc' = "make"
     \/ CapsFail /\ cpc' = "failed" /\ UNCHANGED padcaps
  /\ UNCHANGED <<state, elementVars, apc, spc, buffers, last, keepsLast, writerVars, forced>>

\* The buffer: of the memory itself, whose release gives the token, or of a copy
\* of it, after which create gives the token.
CreateMake ==
  /\ cpc = "make"
  /\ \/ ~copy_buffers /\ buffers' = buffers \cup {current} /\ UNCHANGED data_rendered
     \/ copy_buffers /\ data_rendered' = TRUE /\ UNCHANGED buffers
  /\ last' = current
  /\ cpc' = "first"
  /\ UNCHANGED <<state, stop_read, unlocked, on_data, is_first_read, has_new_caps,
                 copy_buffers, connected, caps, current, apc, spc, padcaps, keepsLast,
                 writerVars, forced>>

\* Mutant: the first buffer gives no token out of turn.
NeverFirst == FALSE

FirstRead == is_first_read

\* The first read gives a token out of turn: downstream may keep a buffer until
\* it has the next one.  Then the mutex is unlocked and the buffer pushed.
CreateReturn ==
  /\ cpc = "first"
  /\ IF FirstRead
       THEN MakeDataRendered /\ is_first_read' = FALSE
       ELSE UNCHANGED <<data_rendered, forced, is_first_read>>
  /\ cpc' = "idle"
  /\ UNCHANGED <<state, stop_read, unlocked, on_data, has_new_caps, copy_buffers,
                 connected, caps, current, apc, spc, pipelineVars, writerVars>>

\* on_data_rendered, called when the last reference to a wrapped buffer goes.
OnDataRendered(b) ==
  /\ b \in buffers /\ (b = last => cpc # "first")
  /\ keepsLast => b < last \/ ~Running
  /\ buffers' = buffers \ {b}
  /\ data_rendered' = TRUE
  /\ UNCHANGED <<state, stop_read, unlocked, on_data, is_first_read, has_new_caps,
                 copy_buffers, connected, caps, current, apc, cpc, spc, last, padcaps,
                 keepsLast, writerVars, forced>>

-----------------------------------------------------------------------------
(* The application.                                                        *)

SetCopyBuffers ==
  /\ SetAnyTime \/ state = "NULL"
  /\ apc = "idle"
  /\ copy_buffers' = ~copy_buffers
  /\ UNCHANGED <<state, stop_read, unlocked, on_data, data_rendered, is_first_read,
                 has_new_caps, connected, caps, current, apc, cpc, spc, pipelineVars,
                 writerVars, forced>>

\* NULL to READY: start_reading.
StartReading ==
  /\ state = "NULL" /\ apc = "idle"
  /\ is_first_read' = TRUE
  /\ state' = "READY"
  /\ UNCHANGED <<stop_read, unlocked, on_data, data_rendered, has_new_caps, copy_buffers,
                 connected, caps, current, apc, cpc, spc, pipelineVars, writerVars, forced>>

\* READY to PAUSED, and PAUSED to PLAYING: the base class calls unlock_stop.
Play ==
  /\ apc = "idle"
  /\ \/ state = "READY" /\ state' = "PAUSED"
     \/ state = "PAUSED" /\ state' = "PLAYING"
  /\ unlocked' = FALSE
  /\ UNCHANGED <<stop_read, on_data, data_rendered, is_first_read, has_new_caps,
                 copy_buffers, connected, caps, current, apc, cpc, spc, pipelineVars,
                 writerVars, forced>>

\* unlock: at the beginning of a flush, on the way to PAUSED and to READY.
Unlock(to) ==
  /\ \/ to = "flush" /\ Running
     \/ to = "pause" /\ state = "PLAYING"
     \/ to = "stop" /\ state = "PAUSED"
  /\ apc = "idle" /\ forced < MaxForced
  /\ unlocked' = TRUE
  /\ apc' = to
  /\ UNCHANGED <<state, stop_read, on_data, data_rendered, is_first_read, has_new_caps,
                 copy_buffers, connected, caps, current, cpc, spc, pipelineVars, writerVars,
                 forced>>

\* unlock_stop at the end of a flush: no call of create is in progress.
UnlockStop ==
  /\ apc = "flush" /\ cpc \in {"idle", "failed"}
  /\ unlocked' = FALSE
  /\ apc' = "idle"
  /\ UNCHANGED <<state, stop_read, on_data, data_rendered, is_first_read, has_new_caps,
                 copy_buffers, connected, caps, current, cpc, spc, pipelineVars, writerVars,
                 forced>>

\* PLAYING to PAUSED, when no call of create is in progress; unlocked stays set.
PlayingToPaused ==
  /\ apc = "pause" /\ cpc \in {"idle", "failed"}
  /\ state' = "PAUSED" /\ apc' = "idle"
  /\ UNCHANGED <<elementVars, cpc, spc, pipelineVars, writerVars, forced>>

\* PAUSED to READY, when the streaming thread has ended.
PausedToReady ==
  /\ apc = "stop" /\ cpc \in {"idle", "failed"}
  /\ stop_read' = TRUE
  /\ state' = "READY" /\ apc' = "idle"
  /\ UNCHANGED <<unlocked, on_data, data_rendered, is_first_read, has_new_caps,
                 copy_buffers, connected, caps, current, cpc, spc, pipelineVars, writerVars,
                 forced>>

\* Mutant: an on_data that waits is not released.
ReadyToNullWithoutToken ==
  /\ state = "READY" /\ apc = "idle" /\ forced < MaxForced
  /\ apc' = "delete"
  /\ UNCHANGED <<state, elementVars, cpc, spc, pipelineVars, writerVars, forced>>

\* READY to NULL, up to the deletion of the follower.
ReadyToNull ==
  /\ state = "READY" /\ apc = "idle" /\ forced < MaxForced
  /\ MakeDataRendered
  /\ apc' = "delete"
  /\ UNCHANGED <<state, stop_read, unlocked, on_data, is_first_read, has_new_caps,
                 copy_buffers, connected, caps, current, cpc, spc, pipelineVars, writerVars>>

\* stop_reading: ~Follower joins the socket threads; the connection that was up
\* is told to the element as a disconnection.
StopReading ==
  /\ apc = "delete" /\ spc = "idle" /\ osd = 0
  /\ linked' = FALSE /\ connected' = (connected /\ ~linked)
  /\ state' = "NULL" /\ apc' = "idle"
  /\ UNCHANGED <<stop_read, unlocked, on_data, data_rendered, is_first_read, has_new_caps,
                 copy_buffers, caps, current, cpc, spc, pipelineVars, mem, runOf, run, osd,
                 forced>>

-----------------------------------------------------------------------------
SocketNext ==
  \/ Connect \/ OnServerConnect \/ Disconnect \/ OnServerDisconnect
  \/ WriteFrame \/ OnDataEnter \/ OnDataHandOver \/ OnDataReturn

CreateNext ==
  \/ CreateEnter \/ CreateUnlocked \/ CreateFlushing \/ CreateTake
  \/ CreateClearNewCaps \/ CreateSetCaps \/ CreateMake \/ CreateReturn

AppNext ==
  \/ SetCopyBuffers \/ StartReading \/ Play \/ UnlockStop \/ PlayingToPaused
  \/ PausedToReady \/ ReadyToNull \/ StopReading
  \/ \E to \in {"flush", "pause", "stop"} : Unlock(to)

Next == SocketNext \/ CreateNext \/ AppNext \/ \E b \in Frames : OnDataRendered(b)

Spec == Init /\ [][Next]_vars

\* Threads go on, the streaming thread also between flushes, and downstream lets
\* go of buffers unless the pipeline is paused; whether writers and states come and
\* go is free.
Fairness ==
  /\ WF_vars(OnServerConnect \/ OnDataEnter \/ OnDataHandOver \/ OnDataReturn)
  /\ WF_vars(OnServerDisconnect)
  /\ SF_vars(CreateNext)
  /\ WF_vars(UnlockStop \/ PlayingToPaused \/ PausedToReady \/ StopReading)
  /\ \A b \in Frames : WF_vars(state # "PAUSED" /\ OnDataRendered(b))

FairSpec == Spec /\ Fairness

-----------------------------------------------------------------------------
(* Properties.                                                             *)

\* Of the frames in use, as a wrapped buffer or by a create that copies or wraps
\* it, at most as many have been overwritten in the shared memory as
\* make_data_rendered gave tokens out of turn: one, for an element that is neither
\* flushed nor paused.  (Nor from PAUSED to READY on, when on_data waits for nobody:
\* a frame it lets pass is never in use.)
FewOverwritten ==
  LET inUse == buffers \cup (IF cpc = "make" THEN {current} ELSE {})
  IN TypeOK /\ Cardinality({f \in inUse : f < mem}) <= forced

\* create pushes frames in the order they were written and none twice.
InOrderOnce == [][cpc = "make" /\ cpc' = "first" => last' > last]_vars

\* A buffer is pushed with the caps of the connection its frame came through, or
\* of a later one, although caps and has_new_caps are written without lock.
CapsNotOlder == cpc = "first" /\ runOf[current] \notin BadTypes => padcaps >= runOf[current]

\* on_data never waits for a token that nobody will give: its frame is still to be
\* made a buffer, or a flush or the first read is about to give the token, or there
\* is a buffer that downstream releases.  (Or the mutex is held for good.)
WaitIsPaid ==
  spc = "wait" /\ ~data_rendered /\ cpc # "failed" =>
    \/ on_data \/ cpc \in {"clear", "setcaps", "make", "flushing"}
    \/ cpc = "first" /\ is_first_read
    \/ \E b \in buffers : keepsLast => b < last \/ ~Running

\* While the element plays on_data returns, and with it the lock that the writer
\* waits for, although a sink keeps the last buffer it was given.  (In PAUSED it
\* waits, and the writer with it, until the element plays or stops.)
OnDataReturns ==
  (spc = "wait" /\ state = "PLAYING") ~>
    (spc # "wait" \/ state # "PLAYING" \/ cpc = "failed")

\* An element that ran gets to NULL: ~Follower does not wait for an on_data that
\* waits for a buffer.  (After a failed negotiation it may: the mutex is held.)
StopReturns == (apc = "delete" /\ stop_read /\ cpc # "failed") ~> apc # "delete"
=============================================================================
