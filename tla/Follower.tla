------------------------------ MODULE Follower ------------------------------
(***************************************************************************)
(* Follower: a Reader that is made again each time the writer comes back.  *)
(* Three kinds of threads share it: the user's (constructor, destructor),  *)
(* the socket thread of each Reader, which calls on_server_disconnected,   *)
(* and the monitor threads that std::async starts, which wait for the      *)
(* writer and make the next Reader.                                        *)
(*                                                                         *)
(* A Reader is its number; what it does with data is not modelled here.    *)
(* The writer's runs are numbered too: a Reader serves the run it met.     *)
(***************************************************************************)
EXTENDS Naturals, Sequences, FiniteSets

CONSTANTS
  MaxRuns,     \* bound: how many times a writer starts at the path
  MaxReaders,  \* bound: valid Readers ever made
  WriterWaits, \* TRUE: the writer does not stop between the making of a Reader
               \* and the end of the thread that made it
  UserWaits    \* TRUE: the user does not destroy the follower during a
               \* disconnection handler

ASSUME MaxRunsAssumption == MaxRuns \in Nat \ {0}
ASSUME MaxReadersAssumption == MaxReaders \in Nat \ {0}
ASSUME WaitsAssumption == WriterWaits \in BOOLEAN /\ UserWaits \in BOOLEAN

ReaderIds == 1..MaxReaders
MonitorIds == 1..(MaxReaders + 1)
User == <<"user", 0>>
Nobody == <<"nobody", 0>>

VARIABLES
  run,       \* number of the writer's last run
  up,        \* that writer serves
  file,      \* the socket file is there
  destructing, quitFlag,   \* Follower::is_destructing_ and quit_
  monitorMtx, readerMtx,   \* who holds each mutex
  monitor,   \* the thread of Follower::monitor_, or 0
  reader,    \* Follower::reader_, or 0
  upc,       \* the user's thread
  mpc,       \* the monitor threads
  made,      \* the valid Reader each monitor just made, or 0
  tpc,       \* the socket threads of the Readers
  met,       \* the writer's run each Reader connected to
  leaving    \* Readers whose destructor waits for their socket thread

writerVars == <<run, up, file>>
flagVars == <<destructing, quitFlag>>
mutexVars == <<monitorMtx, readerMtx>>
vars == <<writerVars, flagVars, mutexVars, monitor, reader, upc, mpc, made,
          tpc, met, leaving>>

Holders == {User, Nobody} \cup {<<"t", r>> : r \in ReaderIds}
             \cup {<<"m", m>> : m \in MonitorIds}

TypeOK ==
  /\ run \in 0..MaxRuns /\ up \in BOOLEAN /\ file \in BOOLEAN
  /\ destructing \in BOOLEAN /\ quitFlag \in BOOLEAN
  /\ monitorMtx \in Holders /\ readerMtx \in Holders
  /\ monitor \in MonitorIds \cup {0} /\ reader \in ReaderIds \cup {0}
  /\ upc \in {"make", "store", "alive", "flag", "quit", "get", "mutex", "join",
              "last", "dead"}
  /\ mpc \in [MonitorIds -> {"none", "while", "mutex", "make", "join", "check",
                             "end", "done"}]
  /\ made \in [MonitorIds \cup {0} -> ReaderIds \cup {0}]
  /\ tpc \in [ReaderIds -> {"none", "serve", "gone", "clear", "mutex", "assign",
                            "osd", "done"}]
  /\ met \in [ReaderIds -> 0..MaxRuns]
  /\ leaving \subseteq ReaderIds

\* The writer's first run may have begun or not.
Init ==
  /\ run \in {0, 1} /\ up = (run = 1) /\ file = up
  /\ destructing = FALSE /\ quitFlag = FALSE
  /\ monitorMtx = Nobody /\ readerMtx = Nobody
  /\ monitor = 0 /\ reader = 0
  /\ upc = "make"
  /\ mpc = [m \in MonitorIds |-> "none"]
  /\ made = [m \in MonitorIds \cup {0} |-> 0]
  /\ tpc = [r \in ReaderIds |-> "none"]
  /\ met = [r \in ReaderIds |-> 0]
  /\ leaving = {}

\* The next number of a thread.
Fresh(pc, ids) ==
  CHOOSE i \in ids : pc[i] = "none" /\ \A j \in ids : pc[j] = "none" => i <= j
CanMake == \E r \in ReaderIds : tpc[r] = "none"

\* new Reader(...) by a thread: valid when a writer serves; slot remembers it.
NewReader(slot) ==
  \/ /\ up /\ CanMake
     /\ LET r == Fresh(tpc, ReaderIds) IN
          /\ tpc' = [tpc EXCEPT ![r] = "serve"]
          /\ met' = [met EXCEPT ![r] = run]
          /\ made' = [made EXCEPT ![slot] = r]
  \/ /\ ~up
     /\ made' = [made EXCEPT ![slot] = 0]
     /\ UNCHANGED <<tpc, met>>

\* std::async(std::launch::async, monitor).
StartMonitor == mpc' = [mpc EXCEPT ![Fresh(mpc, MonitorIds)] = "while"]

\* A thread has made a valid Reader and has not finished with it.
JustConnected ==
  \/ upc = "store" /\ made[0] # 0
  \/ \E m \in MonitorIds : mpc[m] \notin {"none", "done"} /\ made[m] # 0

-----------------------------------------------------------------------------
(* The writer.                                                             *)

WriterStart ==
  /\ ~up /\ run < MaxRuns
  /\ run' = run + 1 /\ up' = TRUE /\ file' = TRUE
  /\ UNCHANGED <<flagVars, mutexVars, monitor, reader, upc, mpc, made, tpc, met,
                 leaving>>

\* Destroyed, or killed with its socket file left behind.
WriterStop ==
  /\ up
  /\ WriterWaits => ~JustConnected
  /\ up' = FALSE /\ file' \in BOOLEAN
  /\ UNCHANGED <<run, flagVars, mutexVars, monitor, reader, upc, mpc, made, tpc,
                 met, leaving>>

-----------------------------------------------------------------------------
(* The user's thread.                                                      *)

\* Follower::Follower, initialisation of reader_.
CtorMake ==
  /\ upc = "make"
  /\ \/ file /\ NewReader(0)
     \/ ~file /\ UNCHANGED <<tpc, met, made>>
  /\ upc' = "store"
  /\ UNCHANGED <<writerVars, flagVars, mutexVars, monitor, reader, mpc, leaving>>

\* reader_ gets its value; without a valid Reader a monitor starts.  (An invalid
\* Reader behind reader_ is the same as none: its thread has been joined.)
CtorStore ==
  /\ upc = "store"
  /\ reader' = made[0]
  /\ \/ made[0] # 0 /\ UNCHANGED <<monitor, mpc>>
     \/ made[0] = 0 /\ monitor' = Fresh(mpc, MonitorIds) /\ StartMonitor
  /\ upc' = "alive"
  /\ UNCHANGED <<writerVars, flagVars, mutexVars, made, tpc, met, leaving>>

UserGoes(from, to) == upc = from /\ upc' = to

DtorFlag ==
  /\ UserGoes("alive", "flag")
  /\ UserWaits => \A r \in ReaderIds : tpc[r] \in {"none", "serve", "done"}
  /\ destructing' = TRUE
  /\ UNCHANGED <<writerVars, quitFlag, mutexVars, monitor, reader, mpc, made, tpc,
                 met, leaving>>

\* Mutant: the destructor does not stop the monitor.
DtorQuitForgotten ==
  /\ UserGoes("flag", "quit")
  /\ UNCHANGED <<writerVars, flagVars, mutexVars, monitor, reader, mpc, made, tpc,
                 met, leaving>>

DtorQuit ==
  /\ UserGoes("flag", "quit")
  /\ quitFlag' = TRUE
  /\ UNCHANGED <<writerVars, destructing, mutexVars, monitor, reader, mpc, made,
                 tpc, met, leaving>>

DtorMutex ==
  /\ UserGoes("quit", "get")
  /\ monitorMtx = Nobody /\ monitorMtx' = User
  /\ UNCHANGED <<writerVars, flagVars, readerMtx, monitor, reader, mpc, made, tpc,
                 met, leaving>>

\* Mutant: the future is dropped, not waited for.
DtorGetDetached ==
  /\ UserGoes("get", "mutex")
  /\ monitor' = 0
  /\ monitorMtx' = Nobody
  /\ UNCHANGED <<writerVars, flagVars, readerMtx, reader, mpc, made, tpc, met,
                 leaving>>

\* monitor_.get() waits for the monitor; the future is invalid afterwards.
DtorGet ==
  /\ UserGoes("get", "mutex")
  /\ monitor # 0 => mpc[monitor] = "done"
  /\ monitor' = 0
  /\ monitorMtx' = Nobody
  /\ UNCHANGED <<writerVars, flagVars, readerMtx, reader, mpc, made, tpc, met,
                 leaving>>

\* reader_.reset() under reader_mtx_: the client asks to quit ...
DtorReset ==
  /\ UserGoes("mutex", "join")
  /\ readerMtx = Nobody /\ readerMtx' = User
  /\ leaving' = IF reader # 0 THEN leaving \cup {reader} ELSE leaving
  /\ UNCHANGED <<writerVars, flagVars, monitorMtx, monitor, reader, mpc, made, tpc,
                 met>>

\* ... and waits for its thread.
DtorJoin ==
  /\ UserGoes("join", "last")
  /\ reader # 0 => tpc[reader] = "done"
  /\ reader' = 0 /\ readerMtx' = Nobody
  /\ UNCHANGED <<writerVars, flagVars, monitorMtx, monitor, mpc, made, tpc, met,
                 leaving>>

\* ~future of monitor_ waits for the thread std::async started.
DtorLast ==
  /\ UserGoes("last", "dead")
  /\ monitor # 0 => mpc[monitor] = "done"
  /\ UNCHANGED <<writerVars, flagVars, mutexVars, monitor, reader, mpc, made, tpc,
                 met, leaving>>

-----------------------------------------------------------------------------
(* A monitor thread.                                                       *)

MonitorGoes(m, from, to) == mpc[m] = from /\ mpc' = [mpc EXCEPT ![m] = to]

\* while (!quit_) and is_unix_socket: poll again, make a Reader, or leave.
MonitorWhile(m) ==
  /\ \/ ~quitFlag /\ file /\ MonitorGoes(m, "while", "mutex")
     \/ quitFlag /\ MonitorGoes(m, "while", "end")
  /\ UNCHANGED <<writerVars, flagVars, mutexVars, monitor, reader, upc, made, tpc,
                 met, leaving>>

MonitorMutex(m) ==
  /\ MonitorGoes(m, "mutex", "make")
  /\ readerMtx = Nobody /\ readerMtx' = <<"m", m>>
  /\ UNCHANGED <<writerVars, flagVars, monitorMtx, monitor, reader, upc, made, tpc,
                 met, leaving>>

\* new Reader, then reader_.reset(...): the new one is in place, the old one is
\* being deleted.
MonitorMake(m) ==
  /\ MonitorGoes(m, "make", "join")
  /\ NewReader(m)
  /\ reader' = made'[m]
  /\ leaving' = IF reader # 0 THEN leaving \cup {reader} ELSE leaving
  /\ UNCHANGED <<writerVars, flagVars, mutexVars, monitor, upc>>

MonitorJoin(m) ==
  /\ MonitorGoes(m, "join", "check")
  /\ \A r \in leaving : tpc[r] = "done"
  /\ UNCHANGED <<writerVars, flagVars, mutexVars, monitor, reader, upc, made, tpc,
                 met, leaving>>

\* Mutant: the loop goes on although a Reader is connected.
KeepWatching(m) == quitFlag

\* quit_.store(true) when the new Reader is valid.
Settled(m) == quitFlag \/ made[m] # 0

MonitorCheck(m) ==
  /\ MonitorGoes(m, "check", "while")
  /\ quitFlag' = Settled(m)
  /\ readerMtx' = Nobody
  /\ UNCHANGED <<writerVars, destructing, monitorMtx, monitor, reader, upc, made,
                 tpc, met, leaving>>

MonitorEnd(m) ==
  /\ MonitorGoes(m, "end", "done")
  /\ quitFlag' = TRUE
  /\ UNCHANGED <<writerVars, destructing, mutexVars, monitor, reader, upc, made,
                 tpc, met, leaving>>

-----------------------------------------------------------------------------
(* The socket thread of a Reader: on_server_disconnected.                  *)

Connected(r) == tpc[r] = "serve" /\ up /\ met[r] = run

ThreadGoes(r, from, to) == tpc[r] = from /\ tpc' = [tpc EXCEPT ![r] = to]

\* The server is gone, or answers our quit: either way on_disconnect_cb_ is
\* called, and tests is_destructing_.
ThreadDisconnected(r) ==
  /\ ~Connected(r) \/ r \in leaving
  /\ \/ ~destructing /\ ThreadGoes(r, "serve", "clear")
     \/ destructing /\ ThreadGoes(r, "serve", "osd")
  /\ UNCHANGED <<writerVars, flagVars, mutexVars, monitor, reader, upc, mpc, made,
                 met, leaving>>

\* Mutant: quit_ is left as the last monitor set it.
ThreadClearForgotten(r) ==
  /\ ThreadGoes(r, "clear", "mutex")
  /\ UNCHANGED <<writerVars, flagVars, mutexVars, monitor, reader, upc,
                 mpc, made, met, leaving>>

ThreadClear(r) ==
  /\ ThreadGoes(r, "clear", "mutex")
  /\ quitFlag' = FALSE
  /\ UNCHANGED <<writerVars, destructing, mutexVars, monitor, reader, upc,
                 mpc, made, met, leaving>>

\* Under monitor_mtx_ a new monitor starts ...
ThreadMonitor(r) ==
  /\ ThreadGoes(r, "mutex", "assign")
  /\ monitorMtx = Nobody /\ monitorMtx' = <<"t", r>>
  /\ StartMonitor
  /\ UNCHANGED <<writerVars, flagVars, readerMtx, monitor, reader, upc, made, met,
                 leaving>>

\* ... and its future is assigned to monitor_, which first waits for the old one.
ThreadAssign(r) ==
  /\ ThreadGoes(r, "assign", "osd")
  /\ monitor # 0 => mpc[monitor] = "done"
  /\ monitor' = CHOOSE m \in MonitorIds :
                  mpc[m] # "none" /\ \A n \in MonitorIds : mpc[n] # "none" => n <= m
  /\ monitorMtx' = Nobody
  /\ UNCHANGED <<writerVars, flagVars, readerMtx, reader, upc, mpc, made, met,
                 leaving>>

\* The user's osd_, then the end of server_interaction.
ThreadOsd(r) ==
  /\ ThreadGoes(r, "osd", "done")
  /\ UNCHANGED <<writerVars, flagVars, mutexVars, monitor, reader, upc, mpc, made,
                 met, leaving>>

-----------------------------------------------------------------------------
UserStep ==
  \/ CtorMake \/ CtorStore
  \/ DtorQuit \/ DtorMutex \/ DtorGet \/ DtorReset \/ DtorJoin \/ DtorLast

MonitorStep(m) ==
  MonitorWhile(m) \/ MonitorMutex(m) \/ MonitorMake(m) \/ MonitorJoin(m)
    \/ MonitorCheck(m) \/ MonitorEnd(m)

ThreadStep(r) ==
  ThreadDisconnected(r) \/ ThreadClear(r) \/ ThreadMonitor(r) \/ ThreadAssign(r)
    \/ ThreadOsd(r)

Next ==
  \/ WriterStart \/ WriterStop \/ UserStep \/ DtorFlag
  \/ \E m \in MonitorIds : MonitorStep(m)
  \/ \E r \in ReaderIds : ThreadStep(r)

Spec == Init /\ [][Next]_vars

\* Every thread that can run does; the writer and the user are free.
Fairness ==
  /\ WF_vars(UserStep)
  /\ \A m \in MonitorIds : WF_vars(MonitorStep(m))
  /\ \A r \in ReaderIds : WF_vars(ThreadStep(r))

FairSpec == Spec /\ Fairness

-----------------------------------------------------------------------------
(* Properties.                                                             *)

Following == reader # 0 /\ Connected(reader)

\* A writer that stays is followed: Follower handles the connection and the
\* disconnection of the writer, whatever happened before.
Reconnects == <>[](up /\ upc = "alive") => <>[]Following

\* ~Follower returns: it never waits for a monitor or a socket thread that waits
\* for it, or for a writer that does not come.
DtorReturns == upc = "flag" ~> upc = "dead"

\* The follower's callbacks come from one Reader: two never serve the same
\* writer at the same time, each with its own socket thread.
OneReader ==
  /\ TypeOK
  /\ \A r, s \in ReaderIds : Connected(r) /\ Connected(s) => r = s

\* When ~Follower has returned no thread is left that could use the members of
\* the destroyed object or call the user's callbacks.
NoThreadSurvives ==
  upc = "dead" =>
    /\ \A m \in MonitorIds : mpc[m] \in {"none", "done"}
    /\ \A r \in ReaderIds : tpc[r] \in {"none", "done"}
=============================================================================
