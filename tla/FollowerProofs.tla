--------------------------- MODULE FollowerProofs ---------------------------
(***************************************************************************)
(* Proofs about Follower, for any number of runs of the writer and of      *)
(* Readers, when the writer does not stop while the follower is still busy *)
(* with the last connection (WriterWaits).  What is left when ~Follower    *)
(* returns also needs a call outside disconnection handlers (UserWaits).   *)
(***************************************************************************)
EXTENDS Follower, WellFoundedInduction, TLAPS

USE MaxRunsAssumption, MaxReadersAssumption

-----------------------------------------------------------------------------
(* The inductive invariant.                                                *)

Started(m) == mpc[m] # "none"
Live(m) == mpc[m] \notin {"none", "done"}
Made(r) == tpc[r] # "none"

\* The socket thread has not started a monitor yet.
Watching(r) == tpc[r] \in {"serve", "clear", "mutex"}

Destroying == upc \notin {"make", "store", "alive"}

\* Threads are numbered in the order they start, and only the last monitor lives.
InOrder ==
  /\ \A m, n \in MonitorIds : Started(m) /\ n < m => Started(n)
  /\ \A r, s \in ReaderIds : Made(r) /\ s < r => Made(s)
  /\ \A m, n \in MonitorIds : Live(m) /\ Started(n) => n <= m
  /\ \A m \in MonitorIds : ~Started(m) => made[m] = 0
  /\ \A r \in ReaderIds : tpc[r] = "assign" => \E m \in MonitorIds : Started(m)

\* Before there is a reader_ or a monitor.
Constructing ==
  /\ upc = "make" => reader = 0 /\ made[0] = 0 /\ \A r \in ReaderIds : ~Made(r)
  /\ upc \in {"make", "store"} => \A m \in MonitorIds : ~Started(m)
  /\ upc = "store" =>
       /\ reader = 0
       /\ \A r \in ReaderIds : Made(r) => r = made[0]
       /\ made[0] # 0 => Connected(made[0])

\* The Reader that watches the writer is the last one, and reader_ points to it;
\* the only monitor that lives with it is the one that made it.
Watchers ==
  \A r \in ReaderIds : Watching(r) =>
    /\ \A s \in ReaderIds : Made(s) => s <= r
    /\ ~Started(r + 1)
    /\ reader = r \/ (upc = "store" /\ made[0] = r)
    /\ \A m \in MonitorIds : Live(m) => made[m] = r /\ Connected(r)

\* A monitor lives without Reader, until it has made one and only ends.
Monitors ==
  \A m \in MonitorIds : Live(m) =>
    /\ monitor = m \/ \E r \in ReaderIds : tpc[r] = "assign"
    /\ made[m] = 0 =>
         \A r \in ReaderIds : ~Watching(r) /\ (r < m => Made(r))
    /\ made[m] # 0 =>
         /\ mpc[m] \in {"join", "check", "while", "end"}
         /\ mpc[m] \in {"while", "end"} => quitFlag
         /\ Connected(made[m]) \/ destructing

\* Readers being deleted exist, and are not watching unless ~Follower deletes them.
Leaving ==
  /\ reader # 0 => Made(reader)
  /\ \A r \in leaving :
       Made(r) /\ (Watching(r) => upc \in {"join", "last", "dead"})

\* What ~Follower has waited for is gone, if no handler was running when it began.
Joined ==
  /\ Destroying => \A r \in ReaderIds :
       /\ tpc[r] \in {"none", "serve", "osd", "done"}
       /\ tpc[r] \in {"serve", "osd"} => reader = r
       /\ tpc[r] = "osd" => \A m \in MonitorIds : ~Live(m)
  /\ upc \in {"mutex", "join", "last", "dead"} => \A m \in MonitorIds : ~Live(m)
  /\ upc \in {"last", "dead"} => \A r \in ReaderIds : tpc[r] \in {"none", "done"}

Destructing ==
  /\ destructing <=> Destroying
  /\ UserWaits => Joined

FollowerInvariant ==
  /\ TypeOK /\ InOrder /\ Constructing /\ Watchers /\ Monitors /\ Leaving
  /\ Destructing

-----------------------------------------------------------------------------
(* The numbers of threads.                                                 *)

\* A set of numbers has a least one.
LEMMA NatMin ==
  ASSUME NEW T \in SUBSET Nat, T # {}
  PROVE  \E x \in T : \A y \in T : x <= y
<1> DEFINE R == OpToRel(<, Nat)
<1>1. IsWellFoundedOn(R, Nat)
  BY NatLessThanWellFounded
<1>2. \A x, y \in Nat : <<x, y>> \in R <=> x < y
  BY DEF OpToRel
<1> HIDE DEF R
<1>3. PICK x \in T : \A y \in T : ~ (<<y, x>> \in R)
  BY <1>1, WFMin
<1>4. ASSUME NEW y \in T PROVE x <= y
  <2>1. x \in Nat /\ y \in Nat
    OBVIOUS
  <2>2. ~(y < x) BY <1>2, <1>3, <2>1
  <2> QED BY <2>1, <2>2
<1> QED BY <1>4

\* Identifiers are numbers.
LEMMA IdFacts ==
  /\ ReaderIds \subseteq Nat /\ MonitorIds \subseteq Nat
  /\ \A r \in ReaderIds : r # 0 /\ r + 1 \in MonitorIds
  /\ \A m \in MonitorIds : m # 0 /\ (m - 1 = 0 \/ m - 1 \in MonitorIds)
  /\ 0 \notin ReaderIds /\ 0 \notin MonitorIds /\ 1 \in MonitorIds
  /\ MaxReaders + 1 \in MonitorIds /\ \A m \in MonitorIds : m <= MaxReaders + 1
BY DEF ReaderIds, MonitorIds

\* Fresh is the first number not given to a thread.
LEMMA FreshIs ==
  ASSUME NEW ids \in SUBSET Nat, NEW pcs, \E i \in ids : pcs[i] = "none"
  PROVE  /\ Fresh(pcs, ids) \in ids /\ pcs[Fresh(pcs, ids)] = "none"
         /\ \A j \in ids : pcs[j] = "none" => Fresh(pcs, ids) <= j
<1> DEFINE T == {i \in ids : pcs[i] = "none"}
<1>1. T \in SUBSET Nat /\ T # {}
  OBVIOUS
<1>2. \E x \in T : \A y \in T : x <= y
  BY <1>1, NatMin
<1>3. \E x \in ids : pcs[x] = "none" /\ \A j \in ids : pcs[j] = "none" => x <= j
  BY <1>2
<1> QED BY <1>3 DEF Fresh

\* The first number not given is above all those given.
LEMMA FreshReader ==
  ASSUME FollowerInvariant, CanMake
  PROVE  /\ Fresh(tpc, ReaderIds) \in ReaderIds /\ ~Made(Fresh(tpc, ReaderIds))
         /\ \A s \in ReaderIds : s < Fresh(tpc, ReaderIds) <=> Made(s)
<1> DEFINE f == Fresh(tpc, ReaderIds)
<1>1. /\ f \in ReaderIds /\ tpc[f] = "none"
      /\ \A j \in ReaderIds : tpc[j] = "none" => f <= j
  BY FreshIs, IdFacts DEF CanMake
<1> HIDE DEF f
<1>2. ASSUME NEW s \in ReaderIds PROVE s < f <=> Made(s)
  <2>1. s \in Nat /\ f \in Nat BY <1>1, IdFacts
  <2>2. CASE s < f BY <1>1, <2>1, <2>2 DEF Made
  <2>3. CASE s = f BY <1>1, <2>1, <2>3 DEF Made
  <2>4. CASE f < s BY <1>1, <2>1, <2>4 DEF Made, FollowerInvariant, InOrder
  <2> QED BY <2>1, <2>2, <2>3, <2>4
<1> QED BY <1>1, <1>2 DEF Made, f

\* The same for the monitors.
LEMMA FreshMonitor ==
  ASSUME FollowerInvariant, \E m \in MonitorIds : ~Started(m)
  PROVE  /\ Fresh(mpc, MonitorIds) \in MonitorIds /\ ~Started(Fresh(mpc, MonitorIds))
         /\ \A n \in MonitorIds : n < Fresh(mpc, MonitorIds) <=> Started(n)
<1> DEFINE f == Fresh(mpc, MonitorIds)
<1>1. /\ f \in MonitorIds /\ mpc[f] = "none"
      /\ \A j \in MonitorIds : mpc[j] = "none" => f <= j
  BY FreshIs, IdFacts DEF Started
<1> HIDE DEF f
<1>2. ASSUME NEW s \in MonitorIds PROVE s < f <=> Started(s)
  <2>1. s \in Nat /\ f \in Nat BY <1>1, IdFacts
  <2>2. CASE s < f BY <1>1, <2>1, <2>2 DEF Started
  <2>3. CASE s = f BY <1>1, <2>1, <2>3 DEF Started
  <2>4. CASE f < s BY <1>1, <2>1, <2>4 DEF Started, FollowerInvariant, InOrder
  <2> QED BY <2>1, <2>2, <2>3, <2>4
<1> QED BY <1>1, <1>2 DEF Started, f

LastMonitor(m) == Started(m) /\ \A n \in MonitorIds : Started(n) => n <= m

\* There is a last monitor, and the CHOOSE of ThreadAssign is that one.
LEMMA LastIs ==
  ASSUME FollowerInvariant, NEW k \in MonitorIds, Started(k)
  PROVE  /\ \E m \in MonitorIds : LastMonitor(m)
         /\ \A m, n \in MonitorIds : LastMonitor(m) /\ LastMonitor(n) => m = n
<1>1. \A m, n \in MonitorIds : LastMonitor(m) /\ LastMonitor(n) => m = n
  <2> SUFFICES ASSUME NEW m \in MonitorIds, NEW n \in MonitorIds,
                      LastMonitor(m), LastMonitor(n)
               PROVE  m = n
    OBVIOUS
  <2>1. m \in Nat /\ n \in Nat BY IdFacts
  <2> QED BY <2>1 DEF LastMonitor
<1>2. CASE \A m \in MonitorIds : Started(m)
  BY <1>1, <1>2, IdFacts DEF LastMonitor
<1>3. CASE \E m \in MonitorIds : ~Started(m)
  <2> DEFINE f == Fresh(mpc, MonitorIds)
  <2>1. f \in MonitorIds /\ \A n \in MonitorIds : n < f <=> Started(n)
    BY <1>3, FreshMonitor
  <2> HIDE DEF f
  <2>2. f \in Nat /\ k \in Nat /\ f # 0 /\ k # 0 /\ k < f
    BY <2>1, IdFacts
  <2>3. f - 1 \in MonitorIds
    BY <2>1, <2>2, IdFacts
  <2>4. Started(f - 1) BY <2>1, <2>2, <2>3
  <2>5. ASSUME NEW n \in MonitorIds, Started(n) PROVE n <= f - 1
    <3>1. n \in Nat /\ n < f BY <2>1, <2>5, IdFacts
    <3> QED BY <2>2, <3>1
  <2> QED BY <1>1, <2>3, <2>4, <2>5 DEF LastMonitor
<1> QED BY <1>2, <1>3

-----------------------------------------------------------------------------
(* Every step keeps the types.                                             *)

\* A valid Reader gets the number above those of all others.
LEMMA NewReaderFacts ==
  ASSUME FollowerInvariant, NEW slot \in MonitorIds \cup {0}, NewReader(slot)
  PROVE  \/ /\ up
            /\ \E r \in ReaderIds :
                 /\ ~Made(r) /\ \A s \in ReaderIds : s < r <=> Made(s)
                 /\ tpc' = [tpc EXCEPT ![r] = "serve"]
                 /\ met' = [met EXCEPT ![r] = run]
                 /\ made' = [made EXCEPT ![slot] = r]
         \/ ~up /\ made' = [made EXCEPT ![slot] = 0] /\ UNCHANGED <<tpc, met>>
BY FreshReader DEF NewReader

\* A monitor that starts gets the number above those of all others.
LEMMA StartFacts ==
  ASSUME FollowerInvariant, StartMonitor, \E m \in MonitorIds : ~Started(m)
  PROVE  LET m == Fresh(mpc, MonitorIds) IN
           /\ m \in MonitorIds /\ ~Started(m)
           /\ \A n \in MonitorIds : n < m <=> Started(n)
           /\ mpc' = [mpc EXCEPT ![m] = "while"]
BY FreshMonitor DEF StartMonitor

\* There is a monitor left for the constructor and for each socket thread.
LEMMA MonitorLeft ==
  ASSUME FollowerInvariant
  PROVE  /\ upc = "store" => \E m \in MonitorIds : ~Started(m)
         /\ \A r \in ReaderIds : tpc[r] = "mutex" => \E m \in MonitorIds : ~Started(m)
BY IdFacts DEF FollowerInvariant, Constructing, Watchers, Watching

\* Every step keeps the types.
LEMMA TypeStep ==
  ASSUME FollowerInvariant, [Next]_vars
  PROVE  TypeOK'
<1>0. TypeOK BY DEF FollowerInvariant
<1> USE IdFacts DEF TypeOK, writerVars, flagVars, mutexVars, Holders, User, Nobody
<1>1. CASE WriterStart BY <1>0, <1>1 DEF WriterStart
<1>2. CASE WriterStop BY <1>0, <1>2, ZenonT(60) DEF WriterStop
<1>3. CASE UserStep \/ DtorFlag
  <2> USE DEF UserGoes
  <2>1. CASE CtorMake
    <3>1. CASE NewReader(0) BY <1>0, <2>1, <3>1, NewReaderFacts DEF CtorMake
    <3>2. CASE UNCHANGED <<tpc, met, made>> BY <1>0, <2>1, <3>2 DEF CtorMake
    <3> QED BY <2>1, <3>1, <3>2 DEF CtorMake
  <2>2. CASE CtorStore BY <1>0, <2>2, StartFacts, FreshMonitor, MonitorLeft DEF CtorStore
  <2>3. CASE DtorFlag BY <1>0, <2>3 DEF DtorFlag
  <2>4. CASE DtorQuit BY <1>0, <2>4 DEF DtorQuit
  <2>5. CASE DtorMutex BY <1>0, <2>5 DEF DtorMutex
  <2>6. CASE DtorGet BY <1>0, <2>6 DEF DtorGet
  <2>7. CASE DtorReset BY <1>0, <2>7 DEF DtorReset
  <2>8. CASE DtorJoin BY <1>0, <2>8 DEF DtorJoin
  <2>9. CASE DtorLast BY <1>0, <2>9 DEF DtorLast
  <2> QED BY <1>3, <2>1, <2>2, <2>3, <2>4, <2>5, <2>6, <2>7, <2>8, <2>9 DEF UserStep
<1>4. ASSUME NEW m \in MonitorIds, MonitorStep(m) PROVE TypeOK'
  <2> USE DEF MonitorGoes
  <2>1. CASE MonitorWhile(m) BY <1>0, <2>1 DEF MonitorWhile
  <2>2. CASE MonitorMutex(m) BY <1>0, <2>2 DEF MonitorMutex
  <2>3. CASE MonitorMake(m) BY <1>0, <2>3, NewReaderFacts DEF MonitorMake
  <2>4. CASE MonitorJoin(m) BY <1>0, <2>4 DEF MonitorJoin
  <2>5. CASE MonitorCheck(m) BY <1>0, <2>5 DEF MonitorCheck, Settled
  <2>6. CASE MonitorEnd(m) BY <1>0, <2>6 DEF MonitorEnd
  <2> QED BY <1>4, <2>1, <2>2, <2>3, <2>4, <2>5, <2>6 DEF MonitorStep
<1>5. ASSUME NEW r \in ReaderIds, ThreadStep(r) PROVE TypeOK'
  <2> USE DEF ThreadGoes
  <2>1. CASE ThreadDisconnected(r) BY <1>0, <2>1 DEF ThreadDisconnected
  <2>2. CASE ThreadClear(r)
    <3>1. quitFlag' \in BOOLEAN BY <2>2 DEF ThreadClear
    <3>2. tpc' = [tpc EXCEPT ![r] = "mutex"] BY <2>2 DEF ThreadClear
    <3> QED BY <1>0, <2>2, <3>1, <3>2 DEF ThreadClear
  <2>3. CASE ThreadMonitor(r) BY <1>0, <2>3, StartFacts, MonitorLeft DEF ThreadMonitor
  <2>4. CASE ThreadAssign(r)
    <3>1. \E k \in MonitorIds : Started(k)
      BY <2>4 DEF ThreadAssign, FollowerInvariant, InOrder
    <3>2. monitor' \in MonitorIds
      BY <2>4, <3>1, LastIs DEF ThreadAssign, LastMonitor, Started
    <3> QED BY <1>0, <2>4, <3>2 DEF ThreadAssign
  <2>5. CASE ThreadOsd(r) BY <1>0, <2>5 DEF ThreadOsd
  <2> QED BY <1>5, <2>1, <2>2, <2>3, <2>4, <2>5 DEF ThreadStep
<1>6. CASE UNCHANGED vars BY <1>0, <1>6 DEF vars
<1> QED BY <1>1, <1>2, <1>3, <1>4, <1>5, <1>6 DEF Next

-----------------------------------------------------------------------------
(* Every step keeps the invariant.                                         *)

\* The invariant without the types.
Parts == InOrder /\ Constructing /\ Watchers /\ Monitors /\ Leaving /\ Destructing

\* The steps of the writer and of the user.
LEMMA UserInvStep ==
  ASSUME WriterWaits, FollowerInvariant, WriterStart \/ WriterStop \/ UserStep \/ DtorFlag
  PROVE  Parts'
<1> USE IdFacts DEF FollowerInvariant, TypeOK, Parts, InOrder, Constructing, Watchers,
        Monitors, Leaving, Destructing, Joined, Started, Live, Made, Watching, Destroying,
        Connected,
        writerVars, flagVars, mutexVars, UserGoes
<1>1. CASE WriterStart BY <1>1 DEF WriterStart
<1>2. CASE WriterStop BY <1>2 DEF WriterStop, JustConnected
<1>3. CASE CtorMake
  <2>1. CASE NewReader(0) BY <1>3, <2>1, NewReaderFacts DEF CtorMake
  <2>2. CASE UNCHANGED <<tpc, met, made>> BY <1>3, <2>2 DEF CtorMake
  <2> QED BY <1>3, <2>1, <2>2 DEF CtorMake
<1>4. CASE CtorStore
  <2>1. CASE made[0] # 0 BY <1>4, <2>1 DEF CtorStore
  <2>2. CASE made[0] = 0
    BY <1>4, <2>2, StartFacts, MonitorLeft DEF CtorStore
  <2> QED BY <2>1, <2>2
<1>5. CASE DtorFlag
  <2>1. InOrder' BY <1>5 DEF DtorFlag
  <2>2. Constructing' BY <1>5 DEF DtorFlag
  <2>3. Watchers' BY <1>5 DEF DtorFlag
  <2>4. Monitors' BY <1>5 DEF DtorFlag
  <2>5. Leaving' BY <1>5 DEF DtorFlag
  <2>6. Destructing' BY <1>5 DEF DtorFlag
  <2> QED BY <2>1, <2>2, <2>3, <2>4, <2>5, <2>6
<1>6. CASE DtorQuit BY <1>6 DEF DtorQuit
<1>7. CASE DtorMutex BY <1>7 DEF DtorMutex
<1>8. CASE DtorGet BY <1>8 DEF DtorGet
<1>9. CASE DtorReset BY <1>9 DEF DtorReset
<1>10. CASE DtorJoin BY <1>10 DEF DtorJoin
<1>11. CASE DtorLast BY <1>11 DEF DtorLast
<1> QED BY <1>1, <1>2, <1>3, <1>4, <1>5, <1>6, <1>7, <1>8, <1>9, <1>10, <1>11 DEF UserStep

\* The steps of a monitor.
LEMMA MonitorInvStep ==
  ASSUME WriterWaits, FollowerInvariant, NEW m \in MonitorIds, MonitorStep(m)
  PROVE  Parts'
<1> USE IdFacts DEF FollowerInvariant, TypeOK, Parts, InOrder, Constructing, Watchers,
        Monitors, Leaving, Destructing, Joined, Started, Live, Made, Watching, Destroying,
        Connected,
        writerVars, flagVars, mutexVars, MonitorGoes
<1>1. CASE MonitorWhile(m) BY <1>1 DEF MonitorWhile
<1>2. CASE MonitorMutex(m) BY <1>2 DEF MonitorMutex
<1>3. CASE MonitorMake(m) BY <1>3, NewReaderFacts DEF MonitorMake
<1>4. CASE MonitorJoin(m) BY <1>4 DEF MonitorJoin
<1>5. CASE MonitorCheck(m) BY <1>5 DEF MonitorCheck, Settled
<1>6. CASE MonitorEnd(m) BY <1>6 DEF MonitorEnd
<1> QED BY <1>1, <1>2, <1>3, <1>4, <1>5, <1>6 DEF MonitorStep

\* The steps of a socket thread.
LEMMA ThreadInvStep ==
  ASSUME WriterWaits, FollowerInvariant, NEW r \in ReaderIds, ThreadStep(r)
  PROVE  Parts'
<1> USE IdFacts DEF FollowerInvariant, TypeOK, Parts, InOrder, Constructing, Watchers,
        Monitors, Leaving, Destructing, Joined, Started, Live, Made, Watching, Destroying,
        Connected,
        writerVars, flagVars, mutexVars, ThreadGoes
<1>1. CASE ThreadDisconnected(r)
  <2>1. InOrder' BY <1>1 DEF ThreadDisconnected
  <2>2. Constructing' BY <1>1 DEF ThreadDisconnected
  <2>3. Watchers' BY <1>1 DEF ThreadDisconnected
  <2>4. Monitors' BY <1>1 DEF ThreadDisconnected
  <2>5. Leaving' BY <1>1 DEF ThreadDisconnected
  <2>6. Destructing' BY <1>1 DEF ThreadDisconnected
  <2> QED BY <2>1, <2>2, <2>3, <2>4, <2>5, <2>6
<1>2. CASE ThreadClear(r) BY <1>2 DEF ThreadClear
<1>3. CASE ThreadMonitor(r)
  <2>1. InOrder'
    <3>1. \A m \in MonitorIds : ~Live(m) BY <1>3 DEF ThreadMonitor
    <3>2. PICK f \in MonitorIds :
            /\ ~Started(f) /\ \A n \in MonitorIds : n < f <=> Started(n)
            /\ mpc' = [mpc EXCEPT ![f] = "while"]
      BY <1>3, StartFacts, MonitorLeft DEF ThreadMonitor
    <3>3. \A n \in MonitorIds : n \in Nat /\ (Started(n)' <=> n <= f) /\ (Live(n)' <=> n = f)
      BY <3>1, <3>2
    <3>4. \A m, n \in MonitorIds : Started(m)' /\ n < m => Started(n)'
      BY <3>3
    <3>5. \A m, n \in MonitorIds : Live(m)' /\ Started(n)' => n <= m
      BY <3>3
    <3> QED BY <1>3, <3>2, <3>3, <3>4, <3>5 DEF ThreadMonitor
  <2>2. Constructing' BY <1>3, StartFacts, MonitorLeft DEF ThreadMonitor
  <2>3. Watchers' BY <1>3, StartFacts, MonitorLeft DEF ThreadMonitor
  <2>4. Monitors' BY <1>3, StartFacts, MonitorLeft DEF ThreadMonitor
  <2>5. Leaving' BY <1>3, StartFacts, MonitorLeft DEF ThreadMonitor
  <2>6. Destructing' BY <1>3, StartFacts, MonitorLeft DEF ThreadMonitor
  <2> QED BY <2>1, <2>2, <2>3, <2>4, <2>5, <2>6
<1>4. CASE ThreadAssign(r)
  <2>1. InOrder' BY <1>4, LastIs DEF ThreadAssign, LastMonitor
  <2>2. Constructing' BY <1>4, LastIs DEF ThreadAssign, LastMonitor
  <2>3. Watchers' BY <1>4, LastIs DEF ThreadAssign, LastMonitor
  <2>4. Monitors'
    <3>1. ASSUME NEW m \in MonitorIds, Live(m) PROVE monitor' = m
      <4>1. LastMonitor(m) BY <3>1 DEF LastMonitor
      <4>2. monitor' = CHOOSE k \in MonitorIds : LastMonitor(k)
        BY <1>4 DEF ThreadAssign, LastMonitor
      <4>3. \A k \in MonitorIds : LastMonitor(k) => k = m BY <3>1, <4>1, LastIs
      <4> HIDE DEF Started, Live
      <4> QED BY <4>1, <4>2, <4>3
    <3> QED BY <1>4, <3>1 DEF ThreadAssign
  <2>5. Leaving' BY <1>4, LastIs DEF ThreadAssign, LastMonitor
  <2>6. Destructing' BY <1>4, LastIs DEF ThreadAssign, LastMonitor
  <2> QED BY <2>1, <2>2, <2>3, <2>4, <2>5, <2>6
<1>5. CASE ThreadOsd(r) BY <1>5 DEF ThreadOsd
<1> QED BY <1>1, <1>2, <1>3, <1>4, <1>5 DEF ThreadStep

-----------------------------------------------------------------------------
(* The theorems.                                                           *)

\* The invariant of the follower holds in every state.
LEMMA FollowerAlways == ASSUME WriterWaits PROVE Spec => []FollowerInvariant
<1>1. Init => FollowerInvariant
  <2> SUFFICES ASSUME Init PROVE FollowerInvariant
    OBVIOUS
  <2>1. run \in 0..MaxRuns /\ up \in BOOLEAN /\ file \in BOOLEAN BY DEF Init
  <2>2. /\ mpc \in [MonitorIds -> {"none", "while", "mutex", "make", "join", "check",
                                   "end", "done"}]
        /\ made \in [MonitorIds \cup {0} -> ReaderIds \cup {0}]
        /\ tpc \in [ReaderIds -> {"none", "serve", "gone", "clear", "mutex", "assign",
                                  "osd", "done"}]
        /\ met \in [ReaderIds -> 0..MaxRuns]
    BY DEF Init
  <2>3. monitorMtx \in Holders /\ readerMtx \in Holders BY DEF Init, Holders
  <2>4. TypeOK BY <2>1, <2>2, <2>3 DEF Init, TypeOK
  <2> QED BY <2>4, IdFacts DEF Init, FollowerInvariant, InOrder, Constructing, Watchers,
             Monitors, Leaving, Destructing, Joined, Started, Live, Made, Watching, Destroying
<1>2. FollowerInvariant /\ [Next]_vars => FollowerInvariant'
  <2> SUFFICES ASSUME FollowerInvariant, [Next]_vars PROVE FollowerInvariant'
    OBVIOUS
  <2>1. TypeOK' BY TypeStep
  <2>2. CASE Next BY <2>1, <2>2, UserInvStep, MonitorInvStep, ThreadInvStep
                  DEF Next, FollowerInvariant, Parts
  <2>3. CASE UNCHANGED vars
    BY <2>1, <2>3 DEF vars, FollowerInvariant, writerVars, flagVars, mutexVars, InOrder,
       Constructing, Watchers, Monitors, Leaving, Destructing, Joined, Started, Live, Made, Watching,
       Destroying, Connected
  <2> QED BY <2>2, <2>3
<1> QED BY <1>1, <1>2, PTL DEF Spec

\* Two Readers of a follower never serve the same writer at the same time.
THEOREM OneReaderSafe == ASSUME WriterWaits PROVE Spec => []OneReader
<1>1. FollowerInvariant => OneReader
  <2> SUFFICES ASSUME FollowerInvariant, NEW r \in ReaderIds, NEW s \in ReaderIds,
                      Connected(r), Connected(s)
               PROVE  r = s
    BY DEF OneReader, FollowerInvariant
  <2>1. r <= s /\ s <= r
    BY DEF FollowerInvariant, Watchers, Watching, Made, Connected
  <2>2. r \in Nat /\ s \in Nat BY IdFacts
  <2> QED BY <2>1, <2>2
<1> QED BY <1>1, FollowerAlways, PTL

\* No thread that uses the follower is left when ~Follower has returned.
THEOREM ThreadsJoined == ASSUME WriterWaits, UserWaits PROVE Spec => []NoThreadSurvives
<1>1. FollowerInvariant => NoThreadSurvives
  BY DEF FollowerInvariant, Destructing, Joined, Live, TypeOK, NoThreadSurvives
<1> QED BY <1>1, FollowerAlways, PTL
=============================================================================
