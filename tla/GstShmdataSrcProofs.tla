------------------------ MODULE GstShmdataSrcProofs ------------------------
(***************************************************************************)
(* Proofs about GstShmdataSrc, for any number of frames, connections and   *)
(* flushes, whether or not negotiations fail, and with copy-buffers set at *)
(* any time but for the last theorem.                                      *)
(***************************************************************************)
EXTENDS GstShmdataSrc, FiniteSetTheorems, TLAPS

USE BoundsAssumption, CapsFailAssumption, BadTypesAssumption, SetAnyTimeAssumption
    DEF Running

-----------------------------------------------------------------------------
(* The inductive invariant.                                                *)

\* A call of create is made while the element plays, and one that has the mutex
\* has taken the frame; the follower is deleted in READY.
Creating ==
  /\ apc = "delete" => state = "READY"
  /\ apc = "pause" => state = "PLAYING"
  /\ cpc \notin {"idle", "failed"} => state = "PLAYING"
  /\ ~MutexFree => ~on_data

\* The frame handed over is not newer than that of the memory and not older than
\* the last one pushed, which is not older than any buffer.
Ordered ==
  /\ last <= current /\ current <= mem
  /\ on_data \/ cpc \in {"clear", "setcaps", "make"} => last < current
  /\ cpc = "first" => last = current
  /\ spc \in {"call", "lock"} => current < mem
  /\ spc = "wait" => current = mem
  /\ \A b \in buffers : b <= last

\* Frames handed over that have given no token: with downstream, or the current one.
Pending == on_data \/ cpc \in {"clear", "setcaps", "make"}
Owing == buffers \cup (IF Pending THEN {current} ELSE {})

Token == IF data_rendered THEN 1 ELSE 0
Waiting == IF spc = "wait" THEN 1 ELSE 0

\* Every on_data that has returned has consumed a token: all frames that have not
\* given theirs but the one whose on_data waits are paid for out of turn.
Accounts ==
  /\ Cardinality(Owing) + Token <= forced + Waiting
  /\ spc = "wait" /\ current \notin Owing => Cardinality(Owing) <= forced

SrcInvariant == TypeOK /\ Creating /\ Ordered /\ Accounts

\* Type descriptions that are no caps come before those that are.
BadFirst == \A b \in BadTypes : \A r \in (1..MaxRuns) \ BadTypes : b < r

Good(r) == r \notin BadTypes

\* self->caps are those of the last connection, at the latest when its
\* on_server_connect has returned, and no frame is of a later one.
Parsed ==
  /\ caps <= run
  /\ run \in BadTypes => caps = 0
  /\ spc # "connect" /\ Good(run) => caps = run
  /\ spc = "connect" => run # 0
  /\ \A f \in Frames : /\ runOf[f] <= run
                       /\ Good(runOf[f]) => runOf[f] <= caps

\* Caps that the pad does not have are announced, or create is about to set them.
Announced ==
  /\ \/ has_new_caps \/ cpc \in {"setcaps", "failed"}
     \/ /\ spc # "connect" /\ Good(run) => run <= padcaps
        /\ \A f \in Frames : Good(runOf[f]) => runOf[f] <= padcaps
  /\ cpc \in {"make", "first"} /\ Good(runOf[current]) => runOf[current] <= padcaps

CapsInvariant == Parsed /\ Announced

\* Socket threads live between start_reading and stop_reading, and an element that
\* pushed buffers and has not stopped runs.
Started ==
  /\ state = "NULL" => spc = "idle" /\ ~linked
  /\ ~stop_read /\ ~is_first_read => Running

\* A downstream that keeps the last buffer has it while the element runs, so that
\* the frame after the first is handed over with a buffer to be released.
Kept ==
  ~copy_buffers /\ keepsLast =>
    /\ (~stop_read /\ ~is_first_read) \/ cpc = "first" => last \in buffers
    /\ spc = "lock" \/ (spc = "wait" /\ Pending) =>
         is_first_read \/ data_rendered \/ buffers # {}

\* An on_data whose frame was taken and that has no token: the frame is a wrapped
\* buffer, and not the only one if downstream keeps the last.
Paid ==
  spc = "wait" /\ ~Pending /\ ~data_rendered /\ cpc \notin {"flushing", "failed"} =>
    /\ ~copy_buffers /\ current \in buffers
    /\ keepsLast => (cpc = "first" /\ is_first_read) \/ \E b \in buffers : b < last

WaitInvariant == Started /\ Kept /\ Paid

-----------------------------------------------------------------------------
(* Types.                                                                  *)

\* The types of the numbers that are compared.
LEMMA NumberTypes ==
  ASSUME TypeOK
  PROVE  /\ MaxFrames \in Nat /\ MaxRuns \in Nat /\ MaxForced \in Nat
         /\ current \in 0..MaxFrames /\ last \in 0..MaxFrames /\ mem \in 0..MaxFrames
         /\ run \in 0..MaxRuns /\ caps \in 0..MaxRuns /\ padcaps \in 0..MaxRuns
         /\ forced \in Nat /\ buffers \in SUBSET (1..MaxFrames)
BY DEF TypeOK, Frames, Runs

\* Every step keeps the types.
LEMMA TypeStep == SrcInvariant /\ [Next]_vars => TypeOK'
<1> SUFFICES ASSUME SrcInvariant, [Next]_vars PROVE TypeOK'
  OBVIOUS
<1> USE DEF SrcInvariant, TypeOK, Frames, Runs, elementVars, pipelineVars, writerVars,
            MakeDataRendered
<1>1. CASE SocketNext
  <2>1. CASE Connect BY <2>1 DEF Connect
  <2>2. CASE OnServerConnect
    <3>1. caps' \in Runs /\ spc' \in {"idle", "connect", "call", "lock", "wait"}
      BY <2>2 DEF OnServerConnect
    <3>2. has_new_caps' \in BOOLEAN /\ connected' \in BOOLEAN
      <4>1. has_new_caps \in BOOLEAN /\ connected \in BOOLEAN
        OBVIOUS
      <4> QED BY <2>2, <4>1, Zenon DEF OnServerConnect
    <3> QED BY <2>2, <3>1, <3>2 DEF OnServerConnect
  <2>3. CASE Disconnect
    <3>1. osd' \in Nat
      BY <2>3 DEF Disconnect
    <3>2. linked' \in BOOLEAN
      BY <2>3 DEF Disconnect
    <3> QED BY <2>3, <3>1, <3>2 DEF Disconnect
  <2>4. CASE OnServerDisconnect
    <3>1. osd' \in Nat
      BY <2>4 DEF OnServerDisconnect
    <3>2. connected' \in BOOLEAN
      BY <2>4 DEF OnServerDisconnect
    <3> QED BY <2>4, <3>1, <3>2 DEF OnServerDisconnect
  <2>5. CASE WriteFrame BY <2>5, SMTT(30) DEF WriteFrame
  <2>6. CASE OnDataEnter BY <2>6 DEF OnDataEnter
  <2>7. CASE OnDataHandOver BY <2>7 DEF OnDataHandOver
  <2>8. CASE OnDataReturn BY <2>8 DEF OnDataReturn
  <2> QED BY <1>1, <2>1, <2>2, <2>3, <2>4, <2>5, <2>6, <2>7, <2>8 DEF SocketNext
<1>2. CASE CreateNext
  <2>1. CASE CreateEnter BY <2>1 DEF CreateEnter
  <2>2. CASE CreateUnlocked BY <2>2 DEF CreateUnlocked
  <2>3. CASE CreateFlushing BY <2>3 DEF CreateFlushing
  <2>4. CASE CreateTake BY <2>4 DEF CreateTake
  <2>5. CASE CreateClearNewCaps BY <2>5 DEF CreateClearNewCaps
  <2>6. CASE CreateSetCaps BY <2>6 DEF CreateSetCaps
  <2>7. CASE CreateMake
    <3>1. current \in Frames
      BY <2>7, NumberTypes DEF CreateMake, Ordered
    <3>2. buffers' \subseteq Frames /\ last' = current /\ cpc' = "first"
      BY <2>7, <3>1 DEF CreateMake
    <3>3. data_rendered' \in BOOLEAN
      BY <2>7 DEF CreateMake
    <3> QED BY <2>7, <3>1, <3>2, <3>3 DEF CreateMake
  <2>8. CASE CreateReturn
    <3>1. data_rendered' \in BOOLEAN /\ is_first_read' \in BOOLEAN
      BY <2>8 DEF CreateReturn
    <3>2. forced' \in Nat
      BY <2>8 DEF CreateReturn
    <3> QED BY <2>8, <3>1, <3>2 DEF CreateReturn
  <2> QED BY <1>2, <2>1, <2>2, <2>3, <2>4, <2>5, <2>6, <2>7, <2>8 DEF CreateNext
<1>3. CASE AppNext
  <2>1. CASE SetCopyBuffers BY <2>1 DEF SetCopyBuffers
  <2>2. CASE StartReading BY <2>2 DEF StartReading
  <2>3. CASE Play \/ PlayingToPaused BY <2>3 DEF Play, PlayingToPaused
  <2>4. CASE UnlockStop BY <2>4 DEF UnlockStop
  <2>5. CASE PausedToReady BY <2>5 DEF PausedToReady
  <2>6. CASE ReadyToNull BY <2>6 DEF ReadyToNull
  <2>7. CASE StopReading BY <2>7 DEF StopReading
  <2>8. ASSUME NEW to \in {"flush", "pause", "stop"}, Unlock(to) PROVE TypeOK'
    BY <2>8 DEF Unlock
  <2> QED BY <1>3, <2>1, <2>2, <2>3, <2>4, <2>5, <2>6, <2>7, <2>8 DEF AppNext
<1>4. ASSUME NEW b \in Frames, OnDataRendered(b) PROVE TypeOK'
  BY <1>4 DEF OnDataRendered
<1>5. CASE UNCHANGED vars BY <1>5 DEF vars
<1> QED BY <1>1, <1>2, <1>3, <1>4, <1>5 DEF Next

-----------------------------------------------------------------------------
(* The order of frames.                                                    *)

\* create is called and returns within PLAYING, and on_data does not hand over while
\* it has the mutex.
LEMMA CreatingStep == SrcInvariant /\ [Next]_vars => Creating'
<1> SUFFICES ASSUME SrcInvariant, [Next]_vars PROVE Creating'
  OBVIOUS
<1> USE DEF SrcInvariant, Creating, MutexFree
<1>1. CASE SocketNext
  BY <1>1 DEF SocketNext, Connect, OnServerConnect, Disconnect, OnServerDisconnect,
     WriteFrame, OnDataEnter, OnDataHandOver, OnDataReturn, elementVars
<1>2. CASE CreateNext
  BY <1>2 DEF CreateNext, CreateEnter, CreateUnlocked, CreateFlushing, CreateTake,
     CreateClearNewCaps, CreateSetCaps, CreateMake, CreateReturn, elementVars
<1>3. CASE AppNext
  BY <1>3 DEF AppNext, SetCopyBuffers, StartReading, Play, UnlockStop, PlayingToPaused, PausedToReady,
     ReadyToNull, StopReading, Unlock, elementVars
<1>4. ASSUME NEW b \in Frames, OnDataRendered(b) PROVE Creating'
  BY <1>4 DEF OnDataRendered
<1>5. CASE UNCHANGED vars BY <1>5 DEF vars, elementVars
<1> QED BY <1>1, <1>2, <1>3, <1>4, <1>5 DEF Next

\* Frames are handed over and pushed in the order they were written.
LEMMA OrderedStep == SrcInvariant /\ [Next]_vars => Ordered'
<1> SUFFICES ASSUME SrcInvariant, [Next]_vars PROVE Ordered'
  OBVIOUS
<1> USE NumberTypes DEF SrcInvariant
<1>1. CASE SocketNext
  <2>1. CASE WriteFrame
    BY <2>1 DEF WriteFrame, Ordered, elementVars, pipelineVars
  <2>2. CASE OnDataHandOver
    BY <2>2 DEF OnDataHandOver, MutexFree, Ordered, pipelineVars, writerVars
  <2>3. CASE OnDataEnter
    BY <2>3 DEF OnDataEnter, Ordered, elementVars, pipelineVars, writerVars
  <2>4. CASE Connect \/ OnServerConnect \/ Disconnect \/ OnServerDisconnect \/ OnDataReturn
    <3>1. /\ UNCHANGED <<on_data, current, last, mem, buffers, cpc>>
          /\ spc' = spc \/ spc' \in {"connect", "idle"}
      BY <2>4 DEF Connect, OnServerConnect, Disconnect, OnServerDisconnect, OnDataReturn,
         elementVars, pipelineVars, writerVars
    <3> QED BY <3>1 DEF Ordered
  <2> QED BY <1>1, <2>1, <2>2, <2>3, <2>4 DEF SocketNext
<1>2. CASE CreateNext
  <2>1. CASE CreateUnlocked
    BY <2>1 DEF CreateUnlocked, Ordered, pipelineVars, writerVars
  <2>2. CASE CreateTake
    BY <2>2 DEF CreateTake, Ordered, pipelineVars, writerVars
  <2>3. CASE CreateMake
    <3>1. /\ on_data = FALSE /\ on_data' = FALSE /\ last < current /\ last' = current
          /\ cpc' = "first"
          /\ UNCHANGED <<current, mem, spc>> /\ buffers' \subseteq buffers \cup {current}
      BY <2>3 DEF CreateMake, Creating, MutexFree, Ordered, TypeOK, writerVars
    <3> QED BY <3>1 DEF Ordered
  <2>4. CASE CreateEnter \/ CreateFlushing \/ CreateClearNewCaps \/ CreateSetCaps
             \/ CreateReturn
    <3>1. UNCHANGED <<on_data, current, last, mem, buffers, spc>>
      BY <2>4 DEF CreateEnter, CreateFlushing, CreateClearNewCaps, CreateSetCaps,
         CreateReturn, elementVars, pipelineVars, writerVars
    <3>2. \/ cpc \in {"clear", "setcaps"} /\ cpc' \in {"setcaps", "make", "failed"}
          \/ cpc' \in {"idle", "wait"}
      BY <2>4 DEF CreateEnter, CreateFlushing, CreateClearNewCaps, CreateSetCaps,
         CreateReturn
    <3> QED BY <3>1, <3>2 DEF Ordered
  <2> QED BY <1>2, <2>1, <2>2, <2>3, <2>4 DEF CreateNext
<1>3. CASE AppNext
  <2>1. UNCHANGED <<on_data, current, last, mem, buffers, spc, cpc>>
    BY <1>3 DEF AppNext, SetCopyBuffers, StartReading, Play, UnlockStop, PlayingToPaused, PausedToReady,
       ReadyToNull, StopReading, Unlock, elementVars, pipelineVars, writerVars
  <2> QED BY <2>1 DEF Ordered
<1>4. ASSUME NEW b \in Frames, OnDataRendered(b) PROVE Ordered'
  BY <1>4 DEF OnDataRendered, Ordered, writerVars
<1>5. CASE UNCHANGED vars
  BY <1>5 DEF vars, elementVars, pipelineVars, writerVars, Ordered
<1> QED BY <1>1, <1>2, <1>3, <1>4, <1>5 DEF Next

-----------------------------------------------------------------------------
(* The account of tokens.                                                  *)

\* Sets of frames, with one more and with one less.
LEMMA CardFacts ==
  ASSUME NEW S \in SUBSET (0..MaxFrames)
  PROVE  /\ Cardinality(S) \in Nat
         /\ \A f \in 0..MaxFrames :
              /\ f \notin S => Cardinality(S \cup {f}) = Cardinality(S) + 1
              /\ f \in S => Cardinality(S \ {f}) = Cardinality(S) - 1
         /\ \A T \in SUBSET S : Cardinality(T) <= Cardinality(S)
<1>1. IsFiniteSet(S)
  <2>1. 0 \in Int /\ MaxFrames \in Int
    OBVIOUS
  <2>2. IsFiniteSet(0..MaxFrames)
    BY <2>1, FS_Interval
  <2> QED BY <2>2, FS_Subset
<1>2. \A f \in 0..MaxFrames : f \notin S => Cardinality(S \cup {f}) = Cardinality(S) + 1
  BY <1>1, FS_AddElement
<1>3. \A f \in S : Cardinality(S \ {f}) = Cardinality(S) - 1
  BY <1>1, FS_RemoveElement
<1>4. \A T \in SUBSET S : Cardinality(T) <= Cardinality(S)
  BY <1>1, FS_Subset
<1> QED BY <1>1, <1>2, <1>3, <1>4, FS_CardinalityType

\* A frame that stops to owe a token, or of which one is given, is not paid for
\* twice, whatever becomes of the token.
LEMMA Settled ==
  ASSUME SrcInvariant, NEW f \in Owing, Owing' = Owing \ {f},
         UNCHANGED <<spc, forced, current>>
  PROVE  Accounts'
<1> USE DEF SrcInvariant
<1>1. Owing \in SUBSET (0..MaxFrames) /\ forced \in Nat
  BY NumberTypes DEF Owing
<1>2. Cardinality(Owing') = Cardinality(Owing) - 1 /\ Cardinality(Owing) \in Nat
  BY <1>1, CardFacts
<1>3. Token \in {0, 1} /\ Token' \in {0, 1} /\ Waiting \in {0, 1} /\ Waiting' = Waiting
  BY DEF Token, Waiting
<1> HIDE DEF Owing, Token
<1>4. Cardinality(Owing') + Token' <= forced + Waiting
  BY <1>1, <1>2, <1>3 DEF Accounts
<1>5. Cardinality(Owing') <= forced
  BY <1>1, <1>2, <1>3 DEF Accounts
<1> QED BY <1>3, <1>4, <1>5 DEF Accounts

\* A token out of turn is counted.
LEMMA Forced ==
  ASSUME SrcInvariant, MakeDataRendered, Owing' = Owing, UNCHANGED <<spc, current>>
  PROVE  Accounts'
<1> USE DEF SrcInvariant
<1>1. Cardinality(Owing) \in Nat /\ forced \in Nat
  <2>1. Owing \in SUBSET (0..MaxFrames)
    BY NumberTypes DEF Owing
  <2> QED BY <2>1, CardFacts, NumberTypes
<1>2. Token \in {0, 1} /\ Token' \in {0, 1} /\ Waiting \in {0, 1} /\ Waiting' = Waiting
  BY DEF Token, Waiting
<1>3. forced' = forced + 1
  BY DEF MakeDataRendered
<1> HIDE DEF Owing, Token
<1> QED BY <1>1, <1>2, <1>3 DEF Accounts

\* Every step keeps the account.
LEMMA AccountsStep == SrcInvariant /\ [Next]_vars => Accounts'
<1> SUFFICES ASSUME SrcInvariant, [Next]_vars PROVE Accounts'
  OBVIOUS
<1> USE DEF SrcInvariant
<1>n. /\ Owing \in SUBSET (0..MaxFrames) /\ Cardinality(Owing) \in Nat
      /\ Token \in {0, 1} /\ Waiting \in {0, 1} /\ Token' \in {0, 1} /\ Waiting' \in {0, 1}
  <2>1. Owing \in SUBSET (0..MaxFrames)
    BY NumberTypes DEF Owing
  <2> QED BY <2>1, CardFacts DEF Token, Waiting
<1>s. ASSUME UNCHANGED <<buffers, on_data, cpc, current, data_rendered, forced>>,
             spc # "wait", spc' # "wait"
      PROVE  Accounts'
  <2>1. Owing' = Owing /\ Token' = Token /\ Waiting' = Waiting
    BY <1>s DEF Owing, Pending, Token, Waiting
  <2> QED BY <1>s, <2>1 DEF Accounts
<1>u. ASSUME UNCHANGED <<buffers, current, data_rendered, forced, spc>>, Pending' <=> Pending
      PROVE  Accounts'
  <2>1. Owing' = Owing /\ Token' = Token /\ Waiting' = Waiting
    BY <1>u DEF Owing, Token, Waiting
  <2> QED BY <1>u, <2>1 DEF Accounts
<1>1. CASE SocketNext
  <2>1. CASE OnDataHandOver
    <3>1. /\ mem \in 1..MaxFrames /\ current < mem /\ spc' = "wait" /\ current' = mem
          /\ on_data' = TRUE /\ spc # "wait"
          /\ UNCHANGED <<buffers, cpc, data_rendered, forced>>
      BY <2>1, NumberTypes DEF OnDataHandOver, Ordered, pipelineVars, writerVars
    <3>2. Owing' = buffers \cup {mem} /\ mem \notin buffers /\ buffers \in SUBSET Owing
      <4>1. mem \notin buffers
        BY <3>1, NumberTypes DEF Ordered
      <4> QED BY <3>1, <4>1 DEF Owing, Pending
    <3>3. /\ buffers \in SUBSET (0..MaxFrames) /\ mem \in 0..MaxFrames
          /\ forced \in Nat
      BY NumberTypes
    <3>4. /\ Cardinality(buffers) <= Cardinality(Owing) /\ Cardinality(buffers) \in Nat
          /\ Cardinality(Owing') = Cardinality(buffers) + 1
      BY <1>n, <3>2, <3>3, CardFacts
    <3>5. Token' = Token /\ Waiting = 0 /\ Waiting' = 1
      BY <3>1 DEF Token, Waiting
    <3>6. current' \in Owing'
      BY <3>1, <3>2
    <3> QED BY <1>n, <3>1, <3>3, <3>4, <3>5, <3>6 DEF Accounts
  <2>2. CASE OnDataReturn
    <3>1. /\ Owing' = Owing /\ Token = 1 /\ Token' = 0 /\ Waiting = 1 /\ Waiting' = 0
          /\ forced' = forced /\ spc' # "wait" /\ forced \in Nat
      BY <2>2, NumberTypes
         DEF OnDataReturn, Owing, Pending, Token, Waiting, pipelineVars, writerVars
    <3> QED BY <1>n, <3>1 DEF Accounts
  <2>3. CASE Connect \/ OnServerConnect \/ Disconnect \/ WriteFrame \/ OnDataEnter
    BY <2>3, <1>s DEF Connect, OnServerConnect, Disconnect, WriteFrame, OnDataEnter,
       elementVars, pipelineVars
  <2>4. CASE OnServerDisconnect
    BY <2>4, <1>u DEF OnServerDisconnect, Pending, pipelineVars
  <2> QED BY <1>1, <2>1, <2>2, <2>3, <2>4 DEF SocketNext
<1>2. CASE CreateNext
  <2>1. CASE CreateUnlocked
    <3>1. CASE on_data
      <4>1. Owing' = Owing \ {current} /\ current \in Owing
        <5>1. current \notin buffers
          BY <3>1, NumberTypes DEF Ordered
        <5> QED BY <2>1, <3>1, <5>1 DEF CreateUnlocked, Owing, Pending, pipelineVars
      <4> QED BY <2>1, <4>1, Settled DEF CreateUnlocked
    <3>2. CASE ~on_data
      BY <2>1, <3>2, <1>u DEF CreateUnlocked, Pending, pipelineVars
    <3> QED BY <3>1, <3>2
  <2>2. CASE CreateTake
    BY <2>2, <1>u DEF CreateTake, Pending, pipelineVars
  <2>3. CASE CreateMake
    <3>1. ~on_data /\ current \notin buffers
      BY <2>3, NumberTypes DEF CreateMake, Creating, MutexFree, Ordered
    <3>2. CASE copy_buffers
      <4>1. Owing' = Owing \ {current} /\ current \in Owing
        BY <2>3, <3>1, <3>2 DEF CreateMake, Owing, Pending
      <4> QED BY <2>3, <4>1, Settled DEF CreateMake
    <3>3. CASE ~copy_buffers
      <4>1. Owing' = Owing
        BY <2>3, <3>1, <3>3 DEF CreateMake, Owing, Pending
      <4>2. Token' = Token /\ Waiting' = Waiting
        BY <2>3, <3>3 DEF CreateMake, Token, Waiting
      <4> QED BY <2>3, <4>1, <4>2 DEF CreateMake, Accounts
    <3> QED BY <3>2, <3>3
  <2>4. CASE CreateSetCaps
    <3>1. CASE cpc' = "make"
      BY <2>4, <3>1, <1>u DEF CreateSetCaps, Pending, elementVars
    <3>2. CASE cpc' = "failed"
      <4>1. Owing' = Owing \ {current} /\ current \in Owing
        <5>1. current \notin buffers /\ ~on_data
          BY <2>4, NumberTypes DEF CreateSetCaps, Creating, MutexFree, Ordered
        <5> QED BY <2>4, <3>2, <5>1 DEF CreateSetCaps, Owing, Pending, elementVars
      <4> QED BY <2>4, <4>1, Settled DEF CreateSetCaps, elementVars
    <3> QED BY <2>4, <3>1, <3>2 DEF CreateSetCaps
  <2>5. CASE CreateFlushing
    <3>1. Owing' = Owing
      BY <2>5 DEF CreateFlushing, Owing, Pending, pipelineVars
    <3> QED BY <2>5, <3>1, Forced DEF CreateFlushing
  <2>6. CASE CreateReturn
    <3>1. Owing' = Owing
      BY <2>6 DEF CreateReturn, Owing, Pending, pipelineVars
    <3>2. CASE FirstRead
      BY <2>6, <3>1, <3>2, Forced DEF CreateReturn
    <3>3. CASE ~FirstRead
      BY <2>6, <3>3, <1>u DEF CreateReturn, Pending, pipelineVars
    <3> QED BY <3>2, <3>3
  <2>7. CASE CreateEnter \/ CreateClearNewCaps
    BY <2>7, <1>u DEF CreateEnter, CreateClearNewCaps, Pending, elementVars, pipelineVars
  <2> QED BY <1>2, <2>1, <2>2, <2>3, <2>4, <2>5, <2>6, <2>7 DEF CreateNext
<1>3. CASE AppNext
  <2>1. CASE ReadyToNull
    <3>1. Owing' = Owing
      BY <2>1 DEF ReadyToNull, Owing, Pending, pipelineVars
    <3> QED BY <2>1, <3>1, Forced DEF ReadyToNull
  <2>2. CASE ~ReadyToNull
    <3>1. UNCHANGED <<buffers, on_data, cpc, current, data_rendered, forced, spc>>
      BY <1>3, <2>2 DEF AppNext, SetCopyBuffers, StartReading, Play, UnlockStop, PlayingToPaused,
         PausedToReady, StopReading, Unlock, elementVars, pipelineVars
    <3> QED BY <3>1, <1>u DEF Pending
  <2> QED BY <2>1, <2>2
<1>4. ASSUME NEW b \in Frames, OnDataRendered(b) PROVE Accounts'
  <2>1. b \in Owing /\ Owing' = Owing \ {b}
    <3>1. Pending => b # current
      BY <1>4, NumberTypes DEF OnDataRendered, Ordered, Pending
    <3> QED BY <1>4, <3>1 DEF OnDataRendered, Owing, Pending
  <2> QED BY <1>4, <2>1, Settled DEF OnDataRendered
<1>5. CASE UNCHANGED vars
  BY <1>5, <1>u DEF vars, elementVars, pipelineVars, Pending
<1> QED BY <1>1, <1>2, <1>3, <1>4, <1>5 DEF Next

\* The element that gst_element_factory_make returns.
LEMMA SrcInit == Init => SrcInvariant
<1> SUFFICES ASSUME Init PROVE SrcInvariant
  OBVIOUS
<1>1. MaxFrames \in Nat /\ MaxRuns \in Nat
  OBVIOUS
<1>2. TypeOK
  <2>1. runOf \in [Frames -> Runs] /\ 0 \in Runs
    BY <1>1 DEF Init, Runs
  <2> QED BY <2>1 DEF Init, TypeOK
<1>3. Creating /\ Ordered
  BY DEF Init, Creating, MutexFree, Ordered
<1>4. Accounts
  <2>1. Owing = {} /\ Token = 0 /\ Waiting = 0 /\ forced = 0 /\ spc # "wait"
    BY DEF Init, Owing, Pending, Token, Waiting
  <2> QED BY <2>1, FS_EmptySet DEF Accounts
<1> QED BY <1>2, <1>3, <1>4 DEF SrcInvariant

\* The invariant holds of every state.
LEMMA SrcAlways == Spec => []SrcInvariant
<1>1. SrcInvariant /\ [Next]_vars => SrcInvariant'
  BY TypeStep, CreatingStep, OrderedStep, AccountsStep DEF SrcInvariant
<1> QED BY <1>1, SrcInit, PTL DEF Spec

-----------------------------------------------------------------------------
(* Theorems about frames.                                                  *)

\* At most as many frames in use have been overwritten as make_data_rendered has
\* been called: a wrapped buffer is stable until then.
THEOREM OverwrittenBounded == Spec => []FewOverwritten
<1>1. ASSUME SrcInvariant PROVE FewOverwritten
  <2> USE <1>1 DEF SrcInvariant
  <2> DEFINE inUse == buffers \cup (IF cpc = "make" THEN {current} ELSE {})
             old == {f \in inUse : f < mem}
  <2>1. Owing \in SUBSET (0..MaxFrames) /\ current \in 0..MaxFrames /\ forced \in Nat
    BY NumberTypes DEF Owing
  <2>2. old \in SUBSET Owing
    BY DEF Owing, Pending
  <2>3. Cardinality(old) <= Cardinality(Owing) /\ Cardinality(Owing) \in Nat
    BY <2>1, <2>2, CardFacts
  <2>4. Token \in {0, 1}
    BY DEF Token
  <2>o. Cardinality(old) \in Nat
    <3>1. old \in SUBSET (0..MaxFrames)
      BY <2>1, <2>2
    <3> HIDE DEF old
    <3> QED BY <3>1, CardFacts
  <2>5. CASE spc # "wait"
    <3>1. Cardinality(Owing) <= forced
      BY <2>1, <2>3, <2>4, <2>5 DEF Accounts, Waiting
    <3> HIDE DEF old
    <3>2. Cardinality(old) <= forced
      BY <2>1, <2>3, <2>o, <3>1
    <3> QED BY <3>2 DEF FewOverwritten, old
  <2>6. CASE spc = "wait" /\ current \notin Owing
    <3>1. Cardinality(Owing) <= forced
      BY <2>6 DEF Accounts
    <3> HIDE DEF old
    <3>2. Cardinality(old) <= forced
      BY <2>1, <2>3, <2>o, <3>1
    <3> QED BY <3>2 DEF FewOverwritten, old
  <2>7. CASE spc = "wait" /\ current \in Owing
    <3>1. current = mem /\ current \notin old
      BY <2>7, NumberTypes DEF Ordered
    <3>2. old \in SUBSET (Owing \ {current})
      BY <2>2, <3>1
    <3>3. /\ Owing \ {current} \in SUBSET (0..MaxFrames)
          /\ Cardinality(Owing \ {current}) = Cardinality(Owing) - 1
      BY <2>1, <2>7, CardFacts
    <3>4. Cardinality(old) <= Cardinality(Owing \ {current})
      <4> HIDE DEF old
      <4> QED BY <3>2, <3>3, CardFacts
    <3>5. Cardinality(Owing) <= forced + 1
      BY <2>1, <2>3, <2>4, <2>7 DEF Accounts, Waiting
    <3> HIDE DEF old
    <3>6. Cardinality(old) <= forced
      BY <2>1, <2>3, <2>o, <3>3, <3>4, <3>5
    <3> QED BY <3>6 DEF FewOverwritten, old
  <2> QED BY <2>5, <2>6, <2>7
<1> QED BY <1>1, SrcAlways, PTL

\* create pushes frames in order and none twice, whatever the tokens out of turn.
THEOREM PushedInOrder == Spec => InOrderOnce
<1>1. ASSUME SrcInvariant, [Next]_vars
      PROVE  [cpc = "make" /\ cpc' = "first" => last' > last]_vars
  <2> SUFFICES ASSUME cpc = "make", cpc' = "first" PROVE last' > last
    OBVIOUS
  <2>1. CreateMake
    BY <1>1 DEF Next, SocketNext, CreateNext, AppNext, vars, Connect, OnServerConnect,
       Disconnect, OnServerDisconnect, WriteFrame, OnDataEnter, OnDataHandOver, OnDataReturn,
       CreateEnter, CreateUnlocked, CreateFlushing, CreateTake, CreateClearNewCaps,
       CreateSetCaps, CreateReturn, SetCopyBuffers, StartReading, Play, UnlockStop, PlayingToPaused,
       PausedToReady, ReadyToNull, StopReading, Unlock, OnDataRendered
  <2> QED BY <1>1, <2>1, NumberTypes DEF SrcInvariant, CreateMake, Ordered
<1> QED BY <1>1, SrcAlways, PTL DEF Spec, InOrderOnce

-----------------------------------------------------------------------------
(* Theorems about caps.                                                    *)

\* A number that is no description's is good.
LEMMA GoodZero == Good(0)
BY DEF Good

\* What the steps that are not about caps leave alone.
LEMMA CapsOnly ==
  ASSUME [Next]_vars,
         ~Connect, ~OnServerConnect, ~WriteFrame, ~OnDataHandOver, ~CreateTake,
         ~CreateClearNewCaps, ~CreateSetCaps, ~CreateMake
  PROVE  /\ UNCHANGED <<caps, run, runOf, has_new_caps, padcaps, current>>
         /\ \/ cpc' = cpc
            \/ cpc' \in {"idle", "wait", "flushing"} /\ cpc \notin {"setcaps", "failed"}
         /\ \/ spc' = spc
            \/ spc' # "connect" /\ spc # "connect"
BY DEF Next, SocketNext, CreateNext, AppNext, vars, elementVars, pipelineVars, writerVars,
   Disconnect, OnServerDisconnect, OnDataEnter, OnDataReturn, CreateEnter, CreateUnlocked,
   CreateFlushing, CreateReturn, SetCopyBuffers, StartReading, Play, UnlockStop, PlayingToPaused,
   PausedToReady, ReadyToNull, StopReading, Unlock, OnDataRendered, MakeDataRendered

\* The type of the connection of a frame.
LEMMA RunTypes ==
  ASSUME TypeOK
  PROVE  /\ \A f \in Frames : runOf[f] \in 0..MaxRuns
         /\ Frames = 1..MaxFrames
BY DEF TypeOK, Frames, Runs

\* self->caps follow the connections, while no bad description follows a good one.
LEMMA ParsedStep ==
  ASSUME BadFirst, SrcInvariant, Parsed, [Next]_vars
  PROVE  Parsed'
<1> USE NumberTypes, RunTypes DEF SrcInvariant
<1>1. CASE Connect
  <2>1. /\ run' = run + 1 /\ run' \in 1..MaxRuns /\ spc' = "connect" /\ spc = "idle"
        /\ UNCHANGED <<caps, runOf>>
    BY <1>1 DEF Connect, elementVars
  <2>2. run' \in BadTypes => run \in BadTypes \/ run = 0
    BY <2>1 DEF BadFirst
  <2>3. run' \in BadTypes => caps = 0
    <3>1. CASE run = 0
      BY <3>1 DEF Parsed
    <3>2. CASE run \in BadTypes
      BY <3>2 DEF Parsed
    <3> QED BY <2>2, <3>1, <3>2
  <2> QED BY <2>1, <2>3 DEF Parsed
<1>2. CASE OnServerConnect
  <2>1. run # 0 /\ UNCHANGED <<run, runOf>>
    BY <1>2 DEF OnServerConnect, Parsed, writerVars
  <2>2. CASE run \in BadTypes
    <3>1. caps = 0 /\ caps' = 0
      BY <1>2, <2>2 DEF OnServerConnect, Parsed
    <3> QED BY <2>1, <2>2, <3>1 DEF Parsed, Good
  <2>3. CASE run \notin BadTypes
    <3>1. caps' = run
      BY <1>2, <2>3 DEF OnServerConnect
    <3> QED BY <2>1, <2>3, <3>1 DEF Parsed, Good
  <2> QED BY <2>2, <2>3
<1>3. CASE WriteFrame
  <2>1. /\ mem + 1 \in Frames /\ runOf' = [runOf EXCEPT ![mem + 1] = run]
        /\ spc = "idle" /\ spc' = "call" /\ UNCHANGED <<caps, run>>
    BY <1>3 DEF WriteFrame, elementVars
  <2>2. \A f \in Frames : runOf'[f] = IF f = mem + 1 THEN run ELSE runOf[f]
    BY <2>1 DEF TypeOK
  <2> QED BY <2>1, <2>2 DEF Parsed
<1>4. CASE ~Connect /\ ~OnServerConnect /\ ~WriteFrame
  <2>1. /\ UNCHANGED <<caps, run, runOf>>
        /\ \/ spc' = spc
           \/ spc' # "connect" /\ spc # "connect"
    BY <1>4, CapsOnly DEF OnDataHandOver, CreateTake, CreateClearNewCaps, CreateSetCaps,
       CreateMake, elementVars, writerVars
  <2> QED BY <2>1 DEF Parsed
<1> QED BY <1>1, <1>2, <1>3, <1>4

\* A flag that is cleared is followed by the setting of the caps.
LEMMA AnnouncedStep ==
  ASSUME SrcInvariant, Parsed, Parsed', Announced, [Next]_vars
  PROVE  Announced'
<1> USE NumberTypes, RunTypes, GoodZero DEF SrcInvariant
<1>1. CASE Connect
  BY <1>1 DEF Connect, Announced, elementVars, pipelineVars
<1>2. CASE OnServerConnect
  <2>1. /\ UNCHANGED <<run, runOf, padcaps, cpc, current>> /\ spc = "connect"
        /\ \/ spc' = "connect" /\ UNCHANGED has_new_caps
           \/ spc' = "idle" /\ has_new_caps' = (has_new_caps \/ caps # 0)
                            /\ caps = (IF run \in BadTypes THEN 0 ELSE run)
    BY <1>2 DEF OnServerConnect, pipelineVars, writerVars
  <2>2. run # 0
    BY <2>1 DEF Parsed
  <2>3. has_new_caps => has_new_caps'
    BY <2>1
  <2>4. spc' # "connect" /\ Good(run) => has_new_caps'
    BY <2>1, <2>2 DEF Good
  <2> QED BY <2>1, <2>3, <2>4 DEF Announced
<1>3. CASE WriteFrame
  <2>1. /\ mem + 1 \in Frames /\ runOf' = [runOf EXCEPT ![mem + 1] = run]
        /\ spc = "idle" /\ spc' = "call"
        /\ UNCHANGED <<caps, run, has_new_caps, padcaps, cpc, current>>
    BY <1>3 DEF WriteFrame, elementVars, pipelineVars
  <2>2. \A f \in Frames : runOf'[f] = IF f = mem + 1 THEN run ELSE runOf[f]
    BY <2>1 DEF TypeOK
  <2>3. runOf'[current] = runOf[current]
    BY <2>1 DEF TypeOK, Ordered
  <2> QED BY <2>1, <2>2, <2>3 DEF Announced
<1>4. CASE OnDataHandOver
  BY <1>4 DEF OnDataHandOver, MutexFree, Announced, pipelineVars, writerVars
<1>5. CASE CreateTake
  <2>1. /\ UNCHANGED <<caps, run, has_new_caps, padcaps, runOf, current, spc>>
        /\ cpc = "wait" /\ on_data /\ Running
        /\ cpc' = IF has_new_caps THEN "clear" ELSE "make"
    BY <1>5 DEF CreateTake, Creating, pipelineVars, writerVars
  <2>2. current \in Frames
    BY <2>1 DEF Ordered
  <2> QED BY <2>1, <2>2 DEF Announced
<1>6. CASE CreateClearNewCaps
  BY <1>6 DEF CreateClearNewCaps, Announced, pipelineVars, writerVars
<1>7. CASE CreateSetCaps
  <2>1. /\ UNCHANGED <<caps, run, has_new_caps, runOf, current, spc>>
        /\ cpc = "setcaps"
        /\ \/ padcaps' = caps /\ cpc' = "make"
           \/ cpc' = "failed" /\ UNCHANGED padcaps
    BY <1>7 DEF CreateSetCaps, elementVars, writerVars
  <2>2. current \in Frames
    BY <2>1 DEF Ordered
  <2> QED BY <2>1, <2>2 DEF Announced, Parsed
<1>8. CASE CreateMake
  BY <1>8 DEF CreateMake, Announced, writerVars
<1>9. CASE ~Connect /\ ~OnServerConnect /\ ~WriteFrame /\ ~OnDataHandOver /\ ~CreateTake
           /\ ~CreateClearNewCaps /\ ~CreateSetCaps /\ ~CreateMake
  <2>1. /\ UNCHANGED <<caps, run, runOf, has_new_caps, padcaps, current>>
        /\ \/ cpc' = cpc
           \/ cpc' \in {"idle", "wait", "flushing"} /\ cpc \notin {"setcaps", "failed"}
        /\ \/ spc' = spc
           \/ spc' # "connect" /\ spc # "connect"
    BY <1>9, CapsOnly
  <2> QED BY <2>1 DEF Announced
<1> QED BY <1>1, <1>2, <1>3, <1>4, <1>5, <1>6, <1>7, <1>8, <1>9

\* No buffer is pushed with caps older than its connection, although caps and
\* has_new_caps are shared without lock, unless a type description that is no
\* caps string follows one that is.
THEOREM CapsInTime ==
  ASSUME BadFirst
  PROVE  Spec => []CapsNotOlder
<1>1. Init => CapsInvariant
  BY GoodZero DEF Init, CapsInvariant, Parsed, Announced, Good
<1>2. SrcInvariant /\ CapsInvariant /\ [Next]_vars => CapsInvariant'
  BY ParsedStep, AnnouncedStep DEF CapsInvariant
<1>3. SrcInvariant /\ CapsInvariant => CapsNotOlder
  BY NumberTypes, RunTypes DEF SrcInvariant, CapsInvariant, Announced, CapsNotOlder, Ordered, Good
<1> QED BY <1>1, <1>2, <1>3, SrcAlways, PTL DEF Spec

-----------------------------------------------------------------------------
(* on_data's wait.                                                         *)

\* Steps that leave what the wait depends on.
LEMMA WaitAlone ==
  ASSUME WaitInvariant,
         UNCHANGED <<state, stop_read, is_first_read, on_data, data_rendered, copy_buffers,
                     keepsLast, current, last, buffers, cpc>>,
         spc' = spc \/ spc' \in {"idle", "connect", "call"},
         state # "NULL" \/ (UNCHANGED spc /\ ~linked')
  PROVE  WaitInvariant'
BY DEF WaitInvariant, Started, Kept, Paid, Pending

\* The socket thread: a frame is handed over with a buffer to be released, or before
\* the first read.
LEMMA WaitSocket ==
  ASSUME SrcInvariant, WaitInvariant, SocketNext
  PROVE  WaitInvariant'
<1> USE DEF SrcInvariant
<1>1. CASE Connect
  <2>1. state # "NULL"
    BY <1>1 DEF Connect
  <2> QED BY <1>1, <2>1, WaitAlone DEF Connect, elementVars, pipelineVars
<1>2. CASE OnServerConnect \/ Disconnect \/ OnServerDisconnect
  <2>1. spc' = spc \/ (spc = "connect" /\ spc' = "idle")
    BY <1>2 DEF OnServerConnect, Disconnect, OnServerDisconnect
  <2>2. linked' = linked \/ linked
    BY <1>2 DEF OnServerConnect, Disconnect, OnServerDisconnect, writerVars
  <2>3. state # "NULL" \/ (UNCHANGED spc /\ ~linked')
    BY <2>1, <2>2 DEF WaitInvariant, Started
  <2> QED BY <1>2, <2>1, <2>3, WaitAlone
          DEF OnServerConnect, Disconnect, OnServerDisconnect, elementVars, pipelineVars
<1>3. CASE WriteFrame
  <2>1. UNCHANGED <<state, elementVars, cpc, pipelineVars>> /\ spc' = "call" /\ linked
    BY <1>3 DEF WriteFrame
  <2>2. state # "NULL"
    BY <2>1 DEF WaitInvariant, Started
  <2> QED BY <2>1, <2>2, WaitAlone DEF elementVars, pipelineVars
<1>4. CASE OnDataEnter
  <2>1. /\ UNCHANGED <<state, stop_read, is_first_read, on_data, data_rendered, copy_buffers,
                      keepsLast, current, last, buffers, cpc>>
        /\ spc = "call" /\ (spc' = "idle" \/ (spc' = "lock" /\ ~stop_read))
    BY <1>4 DEF OnDataEnter, elementVars, pipelineVars
  <2>2. Started' /\ Paid'
    BY <1>4, <2>1 DEF WaitInvariant, Started, Paid, OnDataEnter, writerVars
  <2>3. Kept'
    BY <2>1 DEF WaitInvariant, Kept
  <2> QED BY <2>2, <2>3 DEF WaitInvariant
<1>5. CASE OnDataHandOver
  <2>1. /\ UNCHANGED <<state, stop_read, is_first_read, data_rendered, copy_buffers, keepsLast,
                      last, buffers, cpc>>
        /\ spc = "lock" /\ spc' = "wait" /\ on_data' = TRUE
    BY <1>5 DEF OnDataHandOver, pipelineVars
  <2>2. Started' /\ Paid'
    BY <1>5, <2>1 DEF WaitInvariant, Started, Paid, Pending, OnDataHandOver, writerVars
  <2>3. Kept'
    BY <2>1 DEF WaitInvariant, Kept
  <2> QED BY <2>2, <2>3 DEF WaitInvariant
<1>6. CASE OnDataReturn
  <2>1. /\ UNCHANGED <<state, stop_read, is_first_read, copy_buffers, keepsLast, last, buffers, cpc>>
        /\ spc' = "idle"
    BY <1>6 DEF OnDataReturn, pipelineVars
  <2> QED BY <1>6, <2>1 DEF WaitInvariant, Started, Kept, Paid, OnDataReturn, writerVars
<1> QED BY <1>1, <1>2, <1>3, <1>4, <1>5, <1>6 DEF SocketNext

\* create: the frame it takes becomes a buffer besides the last, or gives its token.
LEMMA WaitCreate ==
  ASSUME SrcInvariant, WaitInvariant, CreateNext
  PROVE  WaitInvariant'
<1> USE DEF SrcInvariant
<1>0. UNCHANGED <<state, stop_read, copy_buffers, keepsLast, current, spc, linked>>
  BY DEF CreateNext, CreateEnter, CreateUnlocked, CreateFlushing, CreateTake, CreateClearNewCaps,
     CreateSetCaps, CreateMake, CreateReturn, elementVars, pipelineVars, writerVars
<1>1. Started'
  <2>1. is_first_read' = is_first_read \/ (cpc = "first" /\ is_first_read' = FALSE)
    BY DEF CreateNext, CreateEnter, CreateUnlocked, CreateFlushing, CreateTake,
       CreateClearNewCaps, CreateSetCaps, CreateMake, CreateReturn, elementVars
  <2> QED BY <1>0, <2>1 DEF WaitInvariant, Started, Creating
<1>2. CASE CreateEnter \/ CreateClearNewCaps \/ CreateSetCaps
  <2>1. /\ UNCHANGED <<is_first_read, on_data, data_rendered, last, buffers>>
        /\ \/ cpc = "idle" /\ cpc' = "wait"
           \/ cpc = "clear" /\ cpc' = "setcaps"
           \/ cpc = "setcaps" /\ cpc' \in {"make", "failed"}
    BY <1>2 DEF CreateEnter, CreateClearNewCaps, CreateSetCaps, elementVars, pipelineVars
  <2> QED BY <1>0, <1>1, <2>1 DEF WaitInvariant, Kept, Paid, Pending
<1>3. CASE CreateUnlocked
  <2>1. /\ UNCHANGED <<is_first_read, data_rendered, last, buffers>>
        /\ cpc = "wait" /\ cpc' = "flushing" /\ on_data' = FALSE
    BY <1>3 DEF CreateUnlocked, pipelineVars
  <2> QED BY <1>0, <1>1, <2>1 DEF WaitInvariant, Kept, Paid, Pending
<1>4. CASE CreateFlushing
  <2>1. /\ UNCHANGED <<is_first_read, on_data, last, buffers>>
        /\ cpc = "flushing" /\ cpc' = "idle" /\ data_rendered' = TRUE
    BY <1>4 DEF CreateFlushing, MakeDataRendered, pipelineVars
  <2> QED BY <1>0, <1>1, <2>1 DEF WaitInvariant, Kept, Paid, Pending
<1>5. CASE CreateTake
  <2>1. /\ UNCHANGED <<is_first_read, data_rendered, last, buffers>>
        /\ cpc = "wait" /\ cpc' \in {"clear", "make"} /\ on_data
    BY <1>5 DEF CreateTake, pipelineVars
  <2> QED BY <1>0, <1>1, <2>1 DEF WaitInvariant, Kept, Paid, Pending
<1>6. CASE CreateMake
  <2>1. /\ UNCHANGED <<is_first_read, on_data>> /\ cpc = "make" /\ cpc' = "first" /\ last' = current
        /\ \/ ~copy_buffers /\ buffers' = buffers \cup {current} /\ UNCHANGED data_rendered
           \/ copy_buffers /\ data_rendered' = TRUE /\ UNCHANGED buffers
    BY <1>6 DEF CreateMake
  <2>2. CASE copy_buffers
    BY <1>0, <1>1, <2>1, <2>2 DEF WaitInvariant, Kept, Paid
  <2>3. CASE ~copy_buffers
    <3>1. Kept'
      BY <1>0, <2>1, <2>3 DEF WaitInvariant, Kept, Pending
    <3>2. Pending /\ \A b \in buffers : b < current
      BY <2>1, NumberTypes DEF Ordered, Pending
    <3>3. spc = "wait" /\ ~data_rendered /\ keepsLast /\ ~is_first_read => \E b \in buffers' : b < last'
      BY <2>1, <2>3, <3>2 DEF WaitInvariant, Kept
    <3>4. Paid'
      BY <1>0, <2>1, <2>3, <3>3 DEF Paid
    <3> QED BY <1>1, <3>1, <3>4 DEF WaitInvariant
  <2> QED BY <2>2, <2>3
<1>7. CASE CreateReturn
  <2>1. /\ UNCHANGED <<on_data, last, buffers>> /\ cpc = "first" /\ cpc' = "idle"
        /\ \/ data_rendered' = TRUE
           \/ ~is_first_read /\ UNCHANGED <<data_rendered, is_first_read>>
    BY <1>7 DEF CreateReturn, FirstRead, MakeDataRendered, pipelineVars
  <2>2. Kept'
    BY <1>0, <2>1 DEF WaitInvariant, Kept, Pending
  <2>3. Paid'
    BY <1>0, <2>1 DEF WaitInvariant, Paid, Pending
  <2> QED BY <1>1, <2>2, <2>3 DEF WaitInvariant
<1> QED BY <1>2, <1>3, <1>4, <1>5, <1>6, <1>7 DEF CreateNext

\* The application: the way of making buffers changes in NULL only, and a change of
\* state stops the reading or gives a token.
LEMMA WaitApp ==
  ASSUME ~SetAnyTime, SrcInvariant, WaitInvariant, AppNext
  PROVE  WaitInvariant'
<1> USE DEF SrcInvariant
<1>0. UNCHANGED <<on_data, current, last, buffers, keepsLast, spc, cpc>>
  BY DEF AppNext, SetCopyBuffers, StartReading, Play, UnlockStop, PlayingToPaused, PausedToReady, ReadyToNull,
     StopReading, Unlock, elementVars, pipelineVars, writerVars
<1>1. CASE SetCopyBuffers \/ StartReading
  <2>1. /\ state = "NULL" /\ UNCHANGED <<stop_read, data_rendered>>
        /\ UNCHANGED linked
        /\ \/ UNCHANGED <<state, is_first_read>>
           \/ is_first_read' = TRUE /\ UNCHANGED copy_buffers /\ state' # "NULL"
    BY <1>1 DEF SetCopyBuffers, StartReading, writerVars
  <2>2. spc = "idle" /\ (stop_read \/ is_first_read) /\ cpc # "first"
    BY <2>1 DEF WaitInvariant, Started, Creating
  <2> QED BY <1>0, <2>1, <2>2 DEF WaitInvariant, Started, Kept, Paid
<1>2. CASE Play \/ UnlockStop \/ PlayingToPaused
           \/ \E to \in {"flush", "pause", "stop"} : Unlock(to)
  <2>1. /\ UNCHANGED <<stop_read, is_first_read, data_rendered, copy_buffers>>
        /\ state' = state \/ (Running' /\ state # "NULL")
        /\ UNCHANGED linked
    BY <1>2 DEF Play, UnlockStop, PlayingToPaused, Unlock, Creating, elementVars, writerVars
  <2> QED BY <1>0, <2>1 DEF WaitInvariant, Started, Kept, Paid, Pending
<1>3. CASE PausedToReady
  <2>1. /\ UNCHANGED <<is_first_read, data_rendered, copy_buffers>> /\ stop_read' = TRUE
        /\ state' = "READY"
    BY <1>3 DEF PausedToReady
  <2> QED BY <1>0, <2>1 DEF WaitInvariant, Started, Kept, Paid, Pending
<1>4. CASE ReadyToNull
  <2>1. UNCHANGED <<state, stop_read, is_first_read, copy_buffers, linked>> /\ data_rendered' = TRUE
    BY <1>4 DEF ReadyToNull, MakeDataRendered, writerVars
  <2> QED BY <1>0, <2>1 DEF WaitInvariant, Started, Kept, Paid, Pending
<1>5. CASE StopReading
  <2>1. /\ UNCHANGED <<stop_read, is_first_read, data_rendered, copy_buffers>> /\ spc = "idle"
        /\ state = "READY" /\ ~linked'
    BY <1>5 DEF StopReading, Creating
  <2> QED BY <1>0, <2>1 DEF WaitInvariant, Started, Kept, Paid, Pending
<1> QED BY <1>1, <1>2, <1>3, <1>4, <1>5 DEF AppNext

\* Every step leaves a token to come.
LEMMA WaitStep ==
  ASSUME ~SetAnyTime, SrcInvariant, WaitInvariant, [Next]_vars
  PROVE  WaitInvariant'
<1>1. ASSUME NEW b \in Frames, OnDataRendered(b) PROVE WaitInvariant'
  <2>1. /\ UNCHANGED <<state, stop_read, is_first_read, on_data, copy_buffers, keepsLast, current,
                      last, cpc, spc>>
        /\ buffers' = buffers \ {b} /\ data_rendered' = TRUE /\ (b = last => cpc # "first")
        /\ keepsLast => b < last \/ ~Running
    BY <1>1 DEF OnDataRendered
  <2>2. Started' /\ Paid'
    BY <1>1, <2>1 DEF WaitInvariant, Started, Paid, OnDataRendered, writerVars
  <2>3. b = last /\ keepsLast => ~Running
    BY <2>1, NumberTypes DEF SrcInvariant
  <2>4. Kept'
    BY <2>1, <2>3 DEF WaitInvariant, Kept, Started
  <2> QED BY <2>2, <2>4 DEF WaitInvariant
<1>2. CASE UNCHANGED vars
  BY <1>2, WaitAlone DEF vars, elementVars, pipelineVars, writerVars, WaitInvariant, Started
<1> QED BY <1>1, <1>2, WaitSocket, WaitCreate, WaitApp DEF Next

\* While on_data waits there is always somebody who will give it the token, and
\* with it the lock back to the writer: the safety part of OnDataReturns.  A
\* copy-buffers that is set while the element runs breaks it.
THEOREM WaitsArePaid ==
  ASSUME ~SetAnyTime
  PROVE  Spec => []WaitIsPaid
<1>1. Init => WaitInvariant
  BY DEF Init, WaitInvariant, Started, Kept, Paid, Pending
<1>2. SrcInvariant /\ WaitInvariant /\ [Next]_vars => WaitInvariant'
  BY WaitStep
<1>3. SrcInvariant /\ WaitInvariant => WaitIsPaid
  BY DEF WaitInvariant, Paid, Pending, WaitIsPaid
<1> QED BY <1>1, <1>2, <1>3, SrcAlways, PTL DEF Spec

=============================================================================
