-------------------------- MODULE PyShmdataProofs --------------------------
(***************************************************************************)
(* Proofs about PyShmdata, for any finite set of threads, any number of    *)
(* frames and of Writer objects.  The first two do not need the GIL: that  *)
(* no buffer is freed in use follows from the order of the frames alone.   *)
(* The third is about the waiting, and about nothing but who has the GIL.  *)
(***************************************************************************)
EXTENDS PyShmdata, FiniteSetTheorems, TLAPS

-----------------------------------------------------------------------------
(* The inductive invariant.                                                *)

Pushers == {u \in Threads : pc[u] = "push"}
Holders(f) == {t \in Threads : held[t] = f}

\* The Writer object is made by one thread, pushed to while it is there and
\* deleted by one thread; what is being pushed fits in the bound.
Writing ==
  /\ frame + Cardinality(Pushers) <= MaxFrames
  /\ \A t \in Threads :
       /\ pc[t] = "winit" => writer = "none" /\ run < MaxRuns
       /\ pc[t] = "push" => writer = "up"
       /\ pc[t] = "wdel" => writer = "del"
  /\ \A t, u \in Threads : pc[t] = pc[u] /\ pc[t] \in {"winit", "wdel"} => t = u

\* A client has a writer, and only a client leaves a frame unread: the last one,
\* of the writer that is there.
Linked ==
  /\ linked => writer # "none"
  /\ unread => linked /\ frame # 0 /\ runOf[frame] = run

\* Buffers arrive in the order of the frames, and nobody has one that has not.
Arriving ==
  /\ lastBuffer <= frame
  /\ \A t \in Threads : held[t] <= lastBuffer
  /\ spc = "data" => lastBuffer < arg /\ arg <= frame
  /\ spc \in {"cb", "cbwait"} => lastBuffer # 0
  /\ unread /\ spc \in {"idle", "conn"} => lastBuffer < frame
  /\ linked /\ spc \in {"data", "cb", "cbwait"} => unread

\* The type description is that of the writer the socket is connected to, or of
\* the frame that is being handled.
Described ==
  /\ parsed_datatype = datatype
  /\ spc = "conn" => arg \in 0..MaxRuns
  /\ linked => run = (IF spc = "conn" THEN arg ELSE datatype)
  /\ spc = "data" => datatype = runOf[arg]
  /\ spc \in {"cb", "cbwait"} => datatype = runOf[lastBuffer]

PyInvariant == TypeOK /\ Writing /\ Linked /\ Arriving /\ Described

\* Every buffer has the references it counts.
Counted == \A f \in Frames : rc[f] = Refs(f)

-----------------------------------------------------------------------------
(* Cardinalities.                                                          *)

\* A set of threads, with one more and with one less.
LEMMA CardFacts ==
  ASSUME NEW S \in SUBSET Threads
  PROVE  /\ Cardinality(S) \in Nat
         /\ \A t \in Threads \ S : Cardinality(S \cup {t}) = Cardinality(S) + 1
         /\ \A t \in S : /\ Cardinality(S) # 0
                        /\ Cardinality(S \ {t}) = Cardinality(S) - 1
<1>1. IsFiniteSet(S)
  BY FS_Subset, ThreadsAssumption
<1>2. \A t \in Threads \ S : Cardinality(S \cup {t}) = Cardinality(S) + 1
  BY <1>1, FS_AddElement
<1>3. \A t \in S : Cardinality(S \ {t}) = Cardinality(S) - 1
  BY <1>1, FS_RemoveElement
<1>4. \A t \in S : Cardinality(S) # 0
  BY <1>1, FS_EmptySet
<1> QED BY <1>1, <1>2, <1>3, <1>4, FS_CardinalityType

\* What a pull and the end of its use do to the threads that have a buffer.
LEMMA HolderFacts ==
  ASSUME held \in [Threads -> Frames \cup {0}], NEW t \in Threads, NEW g \in Frames \cup {0},
         held' = [held EXCEPT ![t] = g], g # held[t]
  PROVE  \A f \in Frames :
           Cardinality(Holders(f)') =
             IF f = g THEN Cardinality(Holders(f)) + 1
             ELSE IF f = held[t] THEN Cardinality(Holders(f)) - 1
             ELSE Cardinality(Holders(f))
<1> TAKE f \in Frames
<1>1. Holders(f) \in SUBSET Threads
  BY DEF Holders
<1>2. CASE f = g
  <2>1. t \in Threads \ Holders(f) /\ Holders(f)' = Holders(f) \cup {t}
    BY <1>2 DEF Holders
  <2> QED BY <1>1, <1>2, <2>1, CardFacts
<1>3. CASE f # g /\ f = held[t]
  <2>1. t \in Holders(f) /\ Holders(f)' = Holders(f) \ {t}
    BY <1>3 DEF Holders
  <2> QED BY <1>1, <1>3, <2>1, CardFacts
<1>4. CASE f # g /\ f # held[t]
  <2>1. Holders(f)' = Holders(f)
    BY <1>4 DEF Holders
  <2> QED BY <1>4, <2>1
<1> QED BY <1>2, <1>3, <1>4

\* What the beginning and the end of a call do to the number of pushes.
LEMMA PusherFacts ==
  ASSUME TypeOK, NEW t \in Threads, NEW call, pc' = [pc EXCEPT ![t] = call]
  PROVE  /\ Cardinality(Pushers) \in Nat
         /\ Cardinality(Pushers') =
              IF pc[t] # "push" /\ call = "push" THEN Cardinality(Pushers) + 1
              ELSE IF pc[t] = "push" /\ call # "push" THEN Cardinality(Pushers) - 1
              ELSE Cardinality(Pushers)
<1>1. Pushers \in SUBSET Threads
  BY DEF Pushers
<1>2. CASE pc[t] # "push" /\ call = "push"
  <2>1. t \in Threads \ Pushers /\ Pushers' = Pushers \cup {t}
    BY <1>2 DEF Pushers, TypeOK
  <2> QED BY <1>1, <1>2, <2>1, CardFacts
<1>3. CASE pc[t] = "push" /\ call # "push"
  <2>1. t \in Pushers /\ Pushers' = Pushers \ {t}
    BY <1>3 DEF Pushers, TypeOK
  <2> QED BY <1>1, <1>3, <2>1, CardFacts
<1>4. CASE (pc[t] = "push") <=> (call = "push")
  <2>1. Pushers' = Pushers
    BY <1>4 DEF Pushers, TypeOK
  <2> QED BY <1>1, <1>4, <2>1, CardFacts
<1> QED BY <1>2, <1>3, <1>4

\* There is a number for the frame of every push.
LEMMA NextFrame ==
  ASSUME TypeOK, Writing, NEW t \in Threads, pc[t] = "push"
  PROVE  frame + 1 \in Frames
<1>1. Pushers \in SUBSET Threads /\ t \in Pushers
  BY DEF Pushers
<1>2. Cardinality(Pushers) \in Nat \ {0}
  BY <1>1, CardFacts
<1> QED BY <1>2, PyBoundsAssumption DEF Writing, TypeOK, Frames

-----------------------------------------------------------------------------
(* References.                                                             *)

\* The references of a buffer whose holders and place are the same.
LEMMA SameRefs ==
  ASSUME Counted, TypeOK, UNCHANGED <<held, lastBuffer, rc>>,
         (spc \in {"cb", "cbwait"}) <=> (spc' \in {"cb", "cbwait"})
  PROVE  Counted' /\ rc' \in [Frames -> Nat]
BY DEF Counted, TypeOK, Refs

\* Every step keeps the reference counts exact.
LEMMA CountedStep ==
  ASSUME PyInvariant, Counted, [Next]_vars
  PROVE  Counted' /\ rc' \in [Frames -> Nat]
<1> USE DEF PyInvariant
<1>f. \A f \in Frames :
        /\ f # 0 /\ Cardinality(Holders(f)) \in Nat
        /\ Refs(f) = Cardinality(Holders(f)) + (IF lastBuffer = f THEN 1 ELSE 0)
                      + (IF lastBuffer = f /\ spc \in {"cb", "cbwait"} THEN 1 ELSE 0)
        /\ Refs(f)' = Cardinality(Holders(f)') + (IF lastBuffer' = f THEN 1 ELSE 0)
                      + (IF lastBuffer' = f /\ spc' \in {"cb", "cbwait"} THEN 1 ELSE 0)
  <2> TAKE f \in Frames
  <2>1. Holders(f) \in SUBSET Threads
    BY DEF Holders
  <2> QED BY <2>1, CardFacts, PyBoundsAssumption DEF Refs, Holders, Frames
<1>1. ASSUME NEW t \in Threads, ThreadNext(t) PROVE Counted' /\ rc' \in [Frames -> Nat]
  <2>1. CASE Pull(t)
    <3>1. CASE lastBuffer = 0
      <4>1. held' = held /\ rc' = rc
        BY <2>1, <3>1 DEF Pull, PullRef, IncRef, TypeOK
      <4> QED BY <2>1, <4>1, SameRefs DEF Pull, readerVars
    <3>2. CASE lastBuffer # 0
      <4>1. \A f \in Frames : Cardinality(Holders(f)') =
               IF f = lastBuffer THEN Cardinality(Holders(f)) + 1
               ELSE Cardinality(Holders(f))
        <5>1. held \in [Threads -> Frames \cup {0}] /\ lastBuffer \in Frames \cup {0}
          BY <3>2 DEF TypeOK
        <5>2. held[t] = 0 /\ held' = [held EXCEPT ![t] = lastBuffer]
          BY <2>1 DEF Pull
        <5>3. lastBuffer # held[t]
          BY <5>2, <3>2, <1>f
        <5>4. \A f \in Frames :
                Cardinality(Holders(f)') =
                  IF f = lastBuffer THEN Cardinality(Holders(f)) + 1
                  ELSE IF f = held[t] THEN Cardinality(Holders(f)) - 1
                  ELSE Cardinality(Holders(f))
          <6> HIDE DEF PyInvariant
          <6> QED BY <5>1, <5>2, <5>3, HolderFacts
        <5> HIDE DEF PyInvariant
        <5> QED BY <5>2, <5>4, <1>f
      <4>2. rc' = [rc EXCEPT ![lastBuffer] = @ + 1] /\ UNCHANGED <<lastBuffer, spc>>
        BY <2>1, <3>2 DEF Pull, PullRef, IncRef, readerVars
      <4> QED BY <3>2, <4>1, <4>2, <1>f DEF TypeOK, Counted
    <3> QED BY <3>1, <3>2
  <2>2. CASE DropPulled(t)
    <3>1. held[t] \in Frames
      BY <2>2 DEF DropPulled, TypeOK
    <3>2. \A f \in Frames : Cardinality(Holders(f)') =
             IF f = held[t] THEN Cardinality(Holders(f)) - 1
             ELSE Cardinality(Holders(f))
      <4>1. held \in [Threads -> Frames \cup {0}] /\ 0 \in Frames \cup {0}
        BY DEF TypeOK
      <4>2. held' = [held EXCEPT ![t] = 0]
        BY <2>2 DEF DropPulled
      <4>3. 0 # held[t]
        BY <3>1, <1>f
      <4>4. \A f \in Frames :
              Cardinality(Holders(f)') =
                IF f = 0 THEN Cardinality(Holders(f)) + 1
                ELSE IF f = held[t] THEN Cardinality(Holders(f)) - 1
                ELSE Cardinality(Holders(f))
        <5> HIDE DEF PyInvariant
        <5> QED BY <4>1, <4>2, <4>3, HolderFacts
      <4> HIDE DEF PyInvariant
      <4> QED BY <4>4, <1>f
    <3>3. rc' = [rc EXCEPT ![held[t]] = @ - 1] /\ UNCHANGED <<lastBuffer, spc>>
      BY <2>2 DEF DropPulled, readerVars
    <3>4. Cardinality(Holders(held[t])) # 0
      <4>1. Holders(held[t]) \in SUBSET Threads /\ t \in Holders(held[t])
        BY DEF Holders
      <4> QED BY <4>1, CardFacts
    <3> QED BY <3>1, <3>2, <3>3, <3>4, <1>f DEF TypeOK, Counted
  <2>3. CASE ~Pull(t) /\ ~DropPulled(t)
    <3>1. UNCHANGED <<held, lastBuffer, rc, spc>>
      BY <1>1, <2>3 DEF ThreadNext, Library, Switch, RestoreThread, WriterInit, Push,
         WriterDealloc, ReaderInit, ReaderDealloc, ReaderFree, MakeWriter, CopyToShm,
         DeleteWriter, MakeFollower, DeleteFollower, readerVars
    <3> QED BY <3>1, SameRefs
  <2> QED BY <2>1, <2>2, <2>3
<1>2. CASE OnDataEnsure
  <2>1. /\ arg \in Frames /\ lastBuffer < arg /\ lastBuffer' = arg /\ spc' = "cb"
        /\ spc = "data" /\ held' = held
    BY <1>2, PyBoundsAssumption DEF OnDataEnsure, Arriving, TypeOK, Frames
  <2>2. \A f \in Frames : Holders(f)' = Holders(f)
    BY <2>1 DEF Holders
  <2>3. Cardinality(Holders(arg)) = 0
    <3>1. \A t \in Threads : held[t] # arg
      BY <2>1, PyBoundsAssumption DEF Arriving, TypeOK, Frames
    <3>2. Holders(arg) = {}
      BY <3>1 DEF Holders
    <3> QED BY <3>2, FS_EmptySet
  <2>4. \A f \in Frames : rc'[f] = CASE f = arg -> 2
                               [] f = lastBuffer /\ f # arg -> rc[f] - 1
                               [] OTHER -> rc[f]
    BY <1>2 DEF OnDataEnsure
  <2>5. \A f \in Frames : rc'[f] = Refs(f)' /\ rc'[f] \in Nat
    <3> TAKE f \in Frames
    <3>1. rc[f] = Refs(f) /\ Holders(f)' = Holders(f)
      BY <2>2 DEF Counted
    <3>2. CASE f = arg
      BY <3>1, <3>2, <2>1, <2>3, <2>4, <1>f
    <3>3. CASE f # arg /\ f = lastBuffer
      BY <3>1, <3>3, <2>1, <2>4, <1>f
    <3>4. CASE f # arg /\ f # lastBuffer
      BY <3>1, <3>4, <2>1, <2>4, <1>f
    <3> QED BY <3>2, <3>3, <3>4
  <2>6. rc' = [f \in Frames |-> rc'[f]]
    BY <1>2 DEF OnDataEnsure
  <2> QED BY <2>5, <2>6 DEF Counted
<1>3. CASE OnDataReturn
  <2>1. /\ lastBuffer \in Frames /\ lastBuffer' = lastBuffer /\ spc = "cb" /\ spc' = "idle"
        /\ held' = held /\ rc' = [rc EXCEPT ![lastBuffer] = @ - 1]
    BY <1>3 DEF OnDataReturn, Arriving, TypeOK
  <2>2. \A f \in Frames : Holders(f)' = Holders(f)
    BY <2>1 DEF Holders
  <2> QED BY <2>1, <2>2, <1>f DEF TypeOK, Counted
<1>4. CASE Connect \/ OnConnect \/ OnData \/ CallbackSwitch
  <2>1. UNCHANGED <<held, lastBuffer, rc>>
    BY <1>4 DEF Connect, OnConnect, OnData, CallbackSwitch
  <2>2. (spc \in {"cb", "cbwait"}) <=> (spc' \in {"cb", "cbwait"})
    BY <1>4 DEF Connect, OnConnect, OnData, CallbackSwitch
  <2> QED BY <2>1, <2>2, SameRefs
<1>5. CASE UNCHANGED vars
  BY <1>5, SameRefs DEF vars, readerVars
<1> QED BY <1>1, <1>2, <1>3, <1>4, <1>5 DEF Next, SockNext

-----------------------------------------------------------------------------
(* The other parts of the invariant.                                       *)

\* Every step keeps the types, given those of the reference counts.
LEMMA TypeStep ==
  ASSUME PyInvariant, rc' \in [Frames -> Nat], [Next]_vars
  PROVE  TypeOK'
<1> USE PyBoundsAssumption DEF PyInvariant, TypeOK, Frames, Back, writerVars, readerVars
<1>1. ASSUME NEW t \in Threads, ThreadNext(t) PROVE TypeOK'
  <2> USE DEF SaveThread, Returned, Running, LeftBy
  <2>1. CASE Switch(t) BY <2>1 DEF Switch
  <2>2. CASE RestoreThread(t) BY <2>2 DEF RestoreThread
  <2>3. CASE WriterInit(t) BY <2>3 DEF WriterInit
  <2>4. CASE Push(t) BY <2>4 DEF Push
  <2>5. CASE WriterDealloc(t) BY <2>5 DEF WriterDealloc
  <2>6. CASE ReaderInit(t) BY <2>6 DEF ReaderInit
  <2>7. CASE Pull(t) BY <2>7 DEF Pull
  <2>8. CASE DropPulled(t) BY <2>8 DEF DropPulled
  <2>9. CASE ReaderDealloc(t) BY <2>9 DEF ReaderDealloc
  <2>10. CASE ReaderFree(t) BY <2>10 DEF ReaderFree
  <2>11. CASE MakeWriter(t) BY <2>11 DEF MakeWriter, Writing
  <2>12. CASE CopyToShm(t)
    <3>1. frame + 1 \in Frames
      BY <2>12, NextFrame DEF CopyToShm, Returned
    <3> QED BY <2>12, <3>1 DEF CopyToShm
  <2>13. CASE DeleteWriter(t) BY <2>13 DEF DeleteWriter
  <2>14. CASE MakeFollower(t) BY <2>14 DEF MakeFollower
  <2>15. CASE DeleteFollower(t) BY <2>15 DEF DeleteFollower
  <2> QED BY <1>1, <2>1, <2>2, <2>3, <2>4, <2>5, <2>6, <2>7, <2>8, <2>9, <2>10, <2>11,
             <2>12, <2>13, <2>14, <2>15 DEF ThreadNext, Library
<1>2. CASE Connect BY <1>2 DEF Connect
<1>3. CASE OnConnect BY <1>3 DEF OnConnect, ParseDatatype, Described
<1>4. CASE OnData BY <1>4 DEF OnData
<1>5. CASE OnDataEnsure BY <1>5 DEF OnDataEnsure, Arriving
<1>6. CASE CallbackSwitch BY <1>6 DEF CallbackSwitch
<1>7. CASE OnDataReturn BY <1>7 DEF OnDataReturn
<1>8. CASE UNCHANGED vars BY <1>8 DEF vars
<1> QED BY <1>1, <1>2, <1>3, <1>4, <1>5, <1>6, <1>7, <1>8 DEF Next, SockNext

\* One thread at a time makes or deletes the Writer, and none pushes to a
\* deleted one.
LEMMA WritingStep ==
  ASSUME PyInvariant, [Next]_vars
  PROVE  Writing'
<1> USE PyBoundsAssumption DEF PyInvariant
<1>1. ASSUME NEW t \in Threads, ThreadNext(t) PROVE Writing'
  <2> DEFINE N == Cardinality(Pushers)
             Calls == /\ \A u \in Threads :
                           /\ pc[u] = "winit" => writer = "none" /\ run < MaxRuns
                           /\ pc[u] = "push" => writer = "up"
                           /\ pc[u] = "wdel" => writer = "del"
                      /\ \A u, v \in Threads :
                           pc[u] = pc[v] /\ pc[u] \in {"winit", "wdel"} => u = v
  <2>i. Calls /\ frame + N <= MaxFrames
    BY DEF Writing
  <2>n. /\ N \in Nat /\ frame \in Nat
        /\ pc \in [Threads -> {"py", "winit", "push", "wdel", "rinit", "rdel"} \cup Back]
    <3>1. Pushers \in SUBSET Threads
      BY DEF Pushers
    <3>2. N \in Nat
      BY <3>1, CardFacts
    <3> QED BY <3>2 DEF TypeOK
  <2>a. pc[t] # "push" /\ pc' = [pc EXCEPT ![t] = "push"] => N' = N + 1
    BY PusherFacts
  <2>b. pc[t] = "push" /\ pc' = [pc EXCEPT ![t] = "back"] => N' = N - 1
    BY PusherFacts
  <2>c. pc[t] # "push" /\ pc' = [pc EXCEPT ![t] = pc'[t]] /\ pc'[t] # "push" => N' = N
    BY PusherFacts
  <2>s. UNCHANGED pc => N' = N
    BY DEF Pushers
  <2> HIDE DEF N
  <2> USE DEF SaveThread, Returned, Running, LeftBy
  <2>1. CASE Push(t)
    <3>1. frame + N < MaxFrames /\ UNCHANGED <<frame, writer, run>>
      BY <2>1 DEF Push, N, Pushers, writerVars
    <3>2. N' = N + 1
      BY <2>1, <2>a, <2>n DEF Push
    <3>3. Calls'
      BY <2>1, <2>i, <2>n, <3>1 DEF Push
    <3> QED BY <3>1, <3>2, <3>3, <2>n DEF Writing, N
  <2>2. CASE CopyToShm(t)
    <3>1. N' = N - 1 /\ frame' = frame + 1 /\ UNCHANGED <<writer, run>>
      BY <2>2, <2>b, <2>n DEF CopyToShm
    <3>2. Calls'
      BY <2>2, <2>i, <2>n, <3>1 DEF CopyToShm
    <3> QED BY <3>1, <3>2, <2>i, <2>n DEF Writing, N
  <2>3. CASE ~Push(t) /\ ~CopyToShm(t)
    <3>1. frame' = frame /\ N' = N
      <4>1. CASE Switch(t) \/ Pull(t) \/ DropPulled(t)
        BY <4>1, <2>s DEF Switch, Pull, DropPulled, writerVars
      <4>2. CASE WriterInit(t) \/ WriterDealloc(t) \/ ReaderInit(t) \/ ReaderDealloc(t)
        BY <4>2, <2>c, <2>n
           DEF WriterInit, WriterDealloc, ReaderInit, ReaderDealloc, writerVars
      <4>3. CASE RestoreThread(t) \/ ReaderFree(t) \/ DeleteFollower(t)
        BY <4>3, <2>c, <2>n DEF RestoreThread, ReaderFree, DeleteFollower, writerVars
      <4>4. CASE MakeWriter(t) \/ DeleteWriter(t) \/ MakeFollower(t)
        BY <4>4, <2>c, <2>n DEF MakeWriter, DeleteWriter, MakeFollower, writerVars
      <4> QED BY <1>1, <2>3, <4>1, <4>2, <4>3, <4>4 DEF ThreadNext, Library
    <3>2. Calls'
      <4> USE <2>i, <2>n DEF writerVars
      <4>1. CASE Switch(t) \/ Pull(t) \/ DropPulled(t)
        BY <4>1 DEF Switch, Pull, DropPulled
      <4>2. CASE WriterInit(t) BY <4>2 DEF WriterInit
      <4>3. CASE WriterDealloc(t) BY <4>3 DEF WriterDealloc
      <4>4. CASE ReaderInit(t) \/ ReaderDealloc(t)
        BY <4>4 DEF ReaderInit, ReaderDealloc
      <4>5. CASE RestoreThread(t) \/ ReaderFree(t) \/ DeleteFollower(t)
        BY <4>5 DEF RestoreThread, ReaderFree, DeleteFollower
      <4>6. CASE MakeWriter(t) BY <4>6 DEF MakeWriter
      <4>7. CASE DeleteWriter(t) BY <4>7 DEF DeleteWriter
      <4>8. CASE MakeFollower(t) BY <4>8 DEF MakeFollower
      <4> QED BY <1>1, <2>3, <4>1, <4>2, <4>3, <4>4, <4>5, <4>6, <4>7, <4>8
                 DEF ThreadNext, Library
    <3> QED BY <2>i, <2>n, <3>1, <3>2 DEF Writing, N
  <2> QED BY <2>1, <2>2, <2>3
<1>2. CASE SockNext \/ UNCHANGED vars
  <2>1. UNCHANGED <<pc, frame, writer, run>>
    BY <1>2 DEF SockNext, vars, Connect, OnConnect, OnData, OnDataEnsure, CallbackSwitch,
       OnDataReturn, writerVars
  <2> QED BY <2>1 DEF Writing, Pushers
<1> QED BY <1>1, <1>2 DEF Next

\* A frame stays unread only for a client of the writer that is there.
LEMMA LinkedStep ==
  ASSUME PyInvariant, [Next]_vars
  PROVE  Linked'
<1> USE PyBoundsAssumption DEF PyInvariant, TypeOK, Frames, writerVars, readerVars
<1>1. ASSUME NEW t \in Threads, ThreadNext(t) PROVE Linked'
  <2>1. CASE MakeWriter(t)
    BY <2>1 DEF MakeWriter, Returned, Writing, Linked
  <2>2. CASE CopyToShm(t)
    <3>1. frame + 1 \in Frames
      BY <2>2, NextFrame DEF CopyToShm, Returned
    <3> QED BY <2>2, <3>1 DEF CopyToShm, Linked
  <2>3. CASE DeleteWriter(t) \/ DeleteFollower(t)
    BY <2>3 DEF DeleteWriter, DeleteFollower, Linked
  <2>4. CASE WriterDealloc(t)
    BY <2>4 DEF WriterDealloc, Linked
  <2>5. CASE ~(MakeWriter(t) \/ CopyToShm(t) \/ DeleteWriter(t) \/ DeleteFollower(t)
               \/ WriterDealloc(t))
    <3>1. UNCHANGED <<writer, run, frame, unread, runOf, linked>>
      BY <1>1, <2>5 DEF ThreadNext, Library, Switch, RestoreThread, WriterInit, Push,
         ReaderInit, Pull, DropPulled, ReaderDealloc, ReaderFree, MakeFollower
    <3> QED BY <3>1 DEF Linked
  <2> QED BY <2>1, <2>2, <2>3, <2>4, <2>5
<1>2. CASE SockNext \/ UNCHANGED vars
  BY <1>2 DEF SockNext, vars, Connect, OnConnect, OnData, OnDataEnsure, CallbackSwitch,
     OnDataReturn, Linked
<1> QED BY <1>1, <1>2 DEF Next

\* What the handlers have been given is older than what they have not, and
\* carries the type description of its writer.
LEMMA ArrivingStep ==
  ASSUME PyInvariant, [Next]_vars
  PROVE  Arriving' /\ Described'
<1> USE PyBoundsAssumption DEF PyInvariant, TypeOK, Frames, writerVars, readerVars
<1>1. ASSUME NEW t \in Threads, ThreadNext(t) PROVE Arriving' /\ Described'
  <2>1. CASE MakeWriter(t)
    BY <2>1 DEF MakeWriter, Returned, Writing, Linked, Arriving, Described
  <2>2. CASE CopyToShm(t)
    <3>1. frame + 1 \in Frames
      BY <2>2, NextFrame DEF CopyToShm, Returned
    <3>2. /\ frame' = frame + 1 /\ unread = FALSE /\ unread' = linked
          /\ runOf' = [runOf EXCEPT ![frame + 1] = run]
          /\ UNCHANGED <<held, run, linked, spc, arg, lastBuffer, datatype, parsed_datatype>>
      BY <2>2 DEF CopyToShm
    <3>3. Described'
      BY <3>1, <3>2 DEF Described, Arriving
    <3>4. Arriving'
      <4>1. /\ lastBuffer <= frame /\ frame \in Nat /\ lastBuffer \in Nat
            /\ \A u \in Threads : held[u] <= lastBuffer
            /\ spc = "data" => lastBuffer < arg /\ arg <= frame
            /\ spc \in {"cb", "cbwait"} => lastBuffer # 0
        BY DEF Arriving
      <4>2. unread' => spc \in {"idle", "conn"}
        BY <3>2 DEF Arriving
      <4> QED BY <3>2, <4>1, <4>2 DEF Arriving
    <3> QED BY <3>3, <3>4
  <2>3. CASE DeleteWriter(t)
    BY <2>3 DEF DeleteWriter, Arriving, Described
  <2>4. CASE DeleteFollower(t)
    BY <2>4 DEF DeleteFollower, Arriving, Described
  <2>5. CASE Pull(t)
    BY <2>5 DEF Pull, Arriving, Described
  <2>6. CASE DropPulled(t)
    BY <2>6 DEF DropPulled, Arriving, Described
  <2>7. CASE ~(MakeWriter(t) \/ CopyToShm(t) \/ DeleteWriter(t) \/ DeleteFollower(t)
               \/ Pull(t) \/ DropPulled(t))
    <3>1. UNCHANGED <<held, run, frame, unread, runOf, linked, spc, arg, lastBuffer, datatype,
                      parsed_datatype>>
      BY <1>1, <2>7 DEF ThreadNext, Library, Switch, RestoreThread, WriterInit, Push,
         WriterDealloc, ReaderInit, ReaderDealloc, ReaderFree, MakeFollower
    <3> QED BY <3>1 DEF Arriving, Described
  <2> QED BY <2>1, <2>2, <2>3, <2>4, <2>5, <2>6, <2>7
<1>2. CASE Connect BY <1>2 DEF Connect, Linked, Arriving, Described
<1>3. CASE OnConnect BY <1>3 DEF OnConnect, ParseDatatype, Arriving, Described
<1>4. CASE OnData BY <1>4 DEF OnData, Linked, Arriving, Described
<1>5. CASE OnDataEnsure
  <2>1. /\ spc = "data" /\ spc' = "cb" /\ lastBuffer' = arg
        /\ UNCHANGED <<held, frame, run, runOf, unread, linked, arg, datatype, parsed_datatype>>
    BY <1>5 DEF OnDataEnsure
  <2>2. /\ arg \in Nat /\ lastBuffer \in Nat /\ lastBuffer < arg /\ arg <= frame
        /\ \A t \in Threads : held[t] <= lastBuffer /\ held[t] \in Nat
    BY <2>1 DEF Arriving
  <2>3. Arriving'
    BY <2>1, <2>2 DEF Arriving
  <2>4. Described'
    BY <2>1 DEF Described
  <2> QED BY <2>3, <2>4
<1>6. CASE CallbackSwitch BY <1>6 DEF CallbackSwitch, Arriving, Described
<1>7. CASE OnDataReturn BY <1>7 DEF OnDataReturn, Arriving, Described
<1>8. CASE UNCHANGED vars BY <1>8 DEF vars, Arriving, Described
<1> QED BY <1>1, <1>2, <1>3, <1>4, <1>5, <1>6, <1>7, <1>8 DEF Next, SockNext

-----------------------------------------------------------------------------
(* The theorems.                                                           *)

\* Before any object is made, nothing is counted.
LEMMA PyInit == Init => PyInvariant /\ Counted
<1> SUFFICES ASSUME Init PROVE PyInvariant /\ Counted
  OBVIOUS
<1> USE PyBoundsAssumption DEF Init
<1>1. TypeOK
  <2>1. /\ pc \in [Threads -> {"py", "winit", "push", "wdel", "rinit", "rdel"} \cup Back]
        /\ held \in [Threads -> Frames \cup {0}] /\ runOf \in [Frames -> 0..MaxRuns]
        /\ rc \in [Frames -> Nat]
    OBVIOUS
  <2>2. 0 \in 0..MaxRuns /\ 0 \in 0..MaxFrames
    OBVIOUS
  <2> QED BY <2>1, <2>2 DEF TypeOK
<1>2. Writing
  <2>1. Pushers = {}
    BY DEF Pushers
  <2> QED BY <2>1, FS_EmptySet DEF Writing
<1>3. Linked /\ Arriving /\ Described
  BY DEF Linked, Arriving, Described
<1>4. Counted
  <2> SUFFICES ASSUME NEW f \in Frames PROVE rc[f] = Refs(f)
    BY DEF Counted
  <2>1. f # 0 /\ {t \in Threads : held[t] = f} = {}
    BY DEF Frames
  <2> QED BY <2>1, FS_EmptySet DEF Refs
<1> QED BY <1>1, <1>2, <1>3, <1>4 DEF PyInvariant

\* The invariant holds of every state.
LEMMA PyAlways == Spec => [](PyInvariant /\ Counted)
<1>1. PyInvariant /\ Counted /\ [Next]_vars => PyInvariant' /\ Counted'
  <2> SUFFICES ASSUME PyInvariant, Counted, [Next]_vars PROVE PyInvariant' /\ Counted'
    OBVIOUS
  <2>1. Counted' /\ rc' \in [Frames -> Nat]
    BY CountedStep
  <2>2. TypeOK'
    BY <2>1, TypeStep
  <2>3. Writing' /\ Linked' /\ Arriving' /\ Described'
    BY WritingStep, LinkedStep, ArrivingStep
  <2> QED BY <2>1, <2>2, <2>3 DEF PyInvariant
<1> QED BY <1>1, PyInit, PTL DEF Spec

\* pull, its callers and on_data keep the reference count of every buffer exact,
\* however many threads pull and whenever the socket thread replaces lastBuffer.
THEOREM CountsExact == Spec => []BuffersCounted
<1>1. PyInvariant /\ Counted => BuffersCounted
  BY DEF PyInvariant, Counted, BuffersCounted
<1> QED BY <1>1, PyAlways, PTL

\* The callback sees a frame with the type description of the writer that sent
\* it, parsed too, however many writers come and go.
THEOREM TypesMatch == Spec => []TypeOfFrame
<1>1. PyInvariant => TypeOfFrame
  BY DEF PyInvariant, Described, TypeOfFrame
<1> QED BY <1>1, PyAlways, PTL

-----------------------------------------------------------------------------
(* Waiting.                                                                *)

\* The GIL is with a thread that runs Python code.
GilRuns ==
  /\ gil \in Threads => pc[gil] = "py"
  /\ gil = "sock" <=> spc = "cb"

\* The Reader object is made by one thread and deleted by one thread, and is a
\* client in between only.
Reading ==
  /\ linked => reader \in {"init", "up", "del"}
  /\ \A t \in Threads :
       /\ pc[t] = "rinit" => reader = "init"
       /\ pc[t] = "rdel" => reader = "del"
       /\ pc[t] = "rfree" => reader = "joined"
  /\ \A t, u \in Threads : pc[t] = pc[u] /\ pc[t] \in {"rinit", "rdel", "rfree"} => t = u

\* The GIL is given up before every call that may block.
LEMMA GilStep ==
  ASSUME TypeOK, GilRuns, [Next]_vars
  PROVE  GilRuns'
<1> USE DEF GilRuns
<1>a. "sock" \notin Threads /\ "none" \notin Threads
  BY ThreadsAssumption
<1>p. pc \in [Threads -> {"py", "winit", "push", "wdel", "rinit", "rdel"} \cup Back]
  BY DEF TypeOK
<1>1. ASSUME NEW t \in Threads, ThreadNext(t) PROVE GilRuns'
  <2>0. UNCHANGED spc
    BY <1>1 DEF ThreadNext, Library, Switch, RestoreThread, WriterInit, Push, WriterDealloc,
       ReaderInit, Pull, DropPulled, ReaderDealloc, ReaderFree, MakeWriter, CopyToShm,
       DeleteWriter, MakeFollower, DeleteFollower, readerVars
  <2>1. CASE Switch(t) BY <1>a, <2>0, <2>1 DEF Switch
  <2>2. ASSUME NEW call, SaveThread(t, call) PROVE GilRuns'
    BY <1>a, <2>0, <2>2 DEF SaveThread, Running, LeftBy
  <2>3. ASSUME NEW call, pc[t] = call, call # "py", UNCHANGED gil, NEW next,
               pc' = [pc EXCEPT ![t] = next]
        PROVE  GilRuns'
    BY <1>p, <2>0, <2>3
  <2>4. CASE RestoreThread(t) \/ ReaderFree(t)
    BY <1>a, <1>p, <2>0, <2>4 DEF RestoreThread, ReaderFree, LeftBy
  <2>5. CASE Pull(t) \/ DropPulled(t) BY <2>0, <2>5 DEF Pull, DropPulled
  <2>6. CASE WriterInit(t) \/ Push(t) \/ WriterDealloc(t) \/ ReaderInit(t) \/ ReaderDealloc(t)
    BY <2>2, <2>6 DEF WriterInit, Push, WriterDealloc, ReaderInit, ReaderDealloc
  <2>7. CASE Library(t)
    BY <2>3, <2>7 DEF Library, MakeWriter, CopyToShm, DeleteWriter, MakeFollower,
       DeleteFollower, Returned
  <2> QED BY <1>1, <2>1, <2>4, <2>5, <2>6, <2>7 DEF ThreadNext
<1>2. CASE SockNext
  BY <1>a, <1>2 DEF SockNext, Connect, OnConnect, OnData, OnDataEnsure, CallbackSwitch,
     OnDataReturn
<1>3. CASE UNCHANGED vars BY <1>3 DEF vars, readerVars
<1> QED BY <1>1, <1>2, <1>3 DEF Next

\* The Reader is a client of the server only while it has a socket thread.
LEMMA ReadingStep ==
  ASSUME TypeOK, Reading, [Next]_vars
  PROVE  Reading'
<1> USE DEF Reading
<1>p. pc \in [Threads -> {"py", "winit", "push", "wdel", "rinit", "rdel"} \cup Back]
  BY DEF TypeOK
<1>1. ASSUME NEW t \in Threads, ThreadNext(t) PROVE Reading'
  <2> USE <1>p DEF SaveThread, Running, Returned, writerVars, readerVars
  <2>1. CASE Switch(t) \/ Pull(t) \/ DropPulled(t)
    BY <2>1 DEF Switch, Pull, DropPulled
  <2>2. CASE RestoreThread(t) BY <2>2 DEF RestoreThread
  <2>3. CASE WriterInit(t) \/ Push(t) \/ WriterDealloc(t)
    BY <2>3 DEF WriterInit, Push, WriterDealloc
  <2>4. CASE ReaderInit(t) BY <2>4 DEF ReaderInit
  <2>5. CASE ReaderDealloc(t) BY <2>5 DEF ReaderDealloc
  <2>6. CASE ReaderFree(t) BY <2>6 DEF ReaderFree
  <2>7. CASE MakeWriter(t) \/ CopyToShm(t) \/ DeleteWriter(t)
    BY <2>7 DEF MakeWriter, CopyToShm, DeleteWriter
  <2>8. CASE MakeFollower(t) BY <2>8 DEF MakeFollower
  <2>9. CASE DeleteFollower(t) BY <2>9 DEF DeleteFollower
  <2> QED BY <1>1, <2>1, <2>2, <2>3, <2>4, <2>5, <2>6, <2>7, <2>8, <2>9 DEF ThreadNext, Library
<1>2. CASE SockNext
  BY <1>2 DEF SockNext, Connect, OnConnect, OnData, OnDataEnsure, CallbackSwitch, OnDataReturn
<1>3. CASE UNCHANGED vars BY <1>3 DEF vars, readerVars
<1> QED BY <1>1, <1>2, <1>3 DEF Next

\* For any number of threads, no call of the wrapper blocks with the GIL in hand,
\* and what blocks one is always something another thread is free to do: the
\* safety part of PushReturns and DeallocReturns.
THEOREM WaitsAreFree == Spec => []NoCircularWait
<1>1. Init => GilRuns /\ Reading
  BY ThreadsAssumption DEF Init, GilRuns, Reading
<1>2. TypeOK /\ GilRuns /\ Reading /\ [Next]_vars => GilRuns' /\ Reading'
  BY GilStep, ReadingStep
<1>3. PyInvariant => TypeOK /\ Linked
  BY DEF PyInvariant
<1>4. Linked /\ GilRuns /\ Reading => NoCircularWait
  BY DEF Linked, GilRuns, Reading, NoCircularWait
<1> QED BY <1>1, <1>2, <1>3, <1>4, PyAlways, PTL DEF Spec

=============================================================================
