----------------------------- MODULE UnixSocket -----------------------------
(***************************************************************************)
(* The connections between a writer and its readers: UnixSocketServer      *)
(* (its select loop, notify_update, its destructor) against the            *)
(* UnixSocketClients (their user's thread: constructor, start, destructor; *)
(* and their socket thread, server_interaction).                           *)
(*                                                                         *)
(* The server greets an accepted client with the connect message; the      *)
(* client's answer moves it from pending_clients_ to clients_, the set     *)
(* that notify_update sends to.  A client leaves by sending quit and       *)
(* waiting for the server's quit; the server leaves by sending quit.       *)
(*                                                                         *)
(* A descriptor is the name of the client at its other end, and each       *)
(* connection is made once.  Messages are their types; each read takes     *)
(* exactly one, by the sizes the two sides use.                            *)
(***************************************************************************)
EXTENDS Naturals, Sequences, FiniteSets

CONSTANTS
  Clients,    \* the UnixSocketClient objects
  Crashing,   \* those whose process may be killed
  LateStart,  \* TRUE: start() may give up after 1000 ms before the server answers
  MaxQueue    \* messages a socket buffers before send() blocks

ASSUME ClientsAssumption == IsFiniteSet(Clients)
ASSUME CrashingAssumption == Crashing \subseteq Clients
ASSUME LateStartAssumption == LateStart \in BOOLEAN
ASSUME MaxQueueAssumption == MaxQueue \in Nat \ {0}

VARIABLES
  srv,        \* "serving", "stopped" (destroyed) or "exited" (its process too)
  backlog,    \* connections that accept() has not returned yet, in order
  pending,    \* pending_clients_
  clients,    \* clients_
  notified,   \* clients_notified_
  sopen,      \* descriptors open on the server's side
  allset,     \* descriptors the server selects on
  reported,   \* clients given to on_connect_cb_ and not to on_disconnect_cb_
  cancelled,  \* clients given to on_client_error_
  toC,        \* messages on their way to each client
  toS,        \* messages on their way to the server
  copen,      \* clients whose end of the connection is open
  reset,      \* clients that closed with unread messages: the server's read()
              \* fails with ECONNRESET
  cpc,        \* the user's thread of each client
  tpc,        \* its socket thread
  connected,  \* UnixSocketClient::connected_
  valid,      \* UnixSocketClient::is_valid_
  killed      \* clients whose process was killed

serverVars == <<srv, backlog, pending, clients, notified, sopen, allset,
                reported, cancelled>>
linkVars   == <<toC, toS, copen, reset>>
clientVars == <<cpc, tpc, connected, valid, killed>>
vars == <<serverVars, linkVars, clientVars>>

Msg == {"cnx", "ack", "upd", "quit"}

TypeOK ==
  /\ srv \in {"serving", "stopped", "exited"}
  /\ backlog \in Seq(Clients)
  /\ pending \subseteq Clients /\ clients \subseteq Clients
  /\ notified \subseteq Clients /\ sopen \subseteq Clients
  /\ allset \subseteq Clients
  /\ reported \subseteq Clients /\ cancelled \subseteq Clients
  /\ toC \in [Clients -> Seq(Msg)] /\ toS \in [Clients -> Seq(Msg)]
  /\ copen \subseteq Clients /\ reset \subseteq Clients
  /\ cpc \in [Clients -> {"new", "made", "starting", "up", "joining",
                        "aborting", "gone"}]
  /\ tpc \in [Clients -> {"none", "loop", "done"}]
  /\ connected \subseteq Clients /\ valid \subseteq Clients
  /\ killed \subseteq Clients

\* The server is bound, listening and serving.
Init ==
  /\ srv = "serving" /\ backlog = <<>>
  /\ pending = {} /\ clients = {} /\ notified = {}
  /\ sopen = {} /\ allset = {}
  /\ reported = {} /\ cancelled = {}
  /\ toC = [c \in Clients |-> <<>>] /\ toS = [c \in Clients |-> <<>>]
  /\ copen = {} /\ reset = {}
  /\ cpc = [c \in Clients |-> "new"] /\ tpc = [c \in Clients |-> "none"]
  /\ connected = {} /\ valid = {} /\ killed = {}

Send(q, c, m) == [q EXCEPT ![c] = Append(@, m)]
Drop(q, c) == [q EXCEPT ![c] = Tail(@)]

\* The client's end is closed (close() or the end of its process).
CloseClient(c) ==
  /\ copen' = copen \ {c}
  /\ reset' = IF toC[c] # <<>> THEN reset \cup {c} ELSE reset

-----------------------------------------------------------------------------
(* The user's thread of a client.                                          *)

\* UnixSocketClient::UnixSocketClient; the path is there while srv serves.
Connect(c) ==
  /\ cpc[c] = "new" /\ srv = "serving"
  /\ cpc' = [cpc EXCEPT ![c] = "made"]
  /\ valid' = valid \cup {c}
  /\ copen' = copen \cup {c}
  /\ backlog' = Append(backlog, c)
  /\ UNCHANGED <<srv, pending, clients, notified, sopen, allset, reported,
                 cancelled, toC, toS, reset, tpc, connected, killed>>

\* Reader::Reader found no shared memory or semaphore and deletes the client
\* before start(): proto_ is null, so the destructor's send() fails.
Abandon(c) ==
  /\ cpc[c] = "made"
  /\ cpc' = [cpc EXCEPT ![c] = "gone"]
  /\ CloseClient(c)
  /\ UNCHANGED <<serverVars, toC, toS, tpc, connected, valid, killed>>

Start(c) ==
  /\ cpc[c] = "made"
  /\ cpc' = [cpc EXCEPT ![c] = "starting"]
  /\ tpc' = [tpc EXCEPT ![c] = "loop"]
  /\ UNCHANGED <<serverVars, linkVars, connected, valid, killed>>

StartReturns(c) ==
  /\ cpc[c] = "starting" /\ c \in connected
  /\ cpc' = [cpc EXCEPT ![c] = "up"]
  /\ UNCHANGED <<serverVars, linkVars, tpc, connected, valid, killed>>

\* start() gives up, also when the socket thread has ended: is_valid_ becomes
\* false, and Reader::Reader deletes the client, which then sends no quit.
StartFails(c) ==
  /\ cpc[c] = "starting" /\ c \notin connected
  /\ LateStart \/ tpc[c] = "done"
  /\ cpc' = [cpc EXCEPT ![c] = "aborting"]
  /\ valid' = valid \ {c}
  /\ UNCHANGED <<serverVars, linkVars, tpc, connected, killed>>

\* Mutant: the destructor does not send quit.
DestroySilently(c) ==
  /\ cpc[c] = "up"
  /\ cpc' = [cpc EXCEPT ![c] = "joining"]
  /\ UNCHANGED <<serverVars, linkVars, tpc, connected, valid, killed>>

\* UnixSocketClient::~UnixSocketClient up to socket_thread_.join(): quit is
\* sent while the socket is valid; sending to a closed end fails.
Destroy(c) ==
  /\ cpc[c] = "up"
  /\ cpc' = [cpc EXCEPT ![c] = "joining"]
  /\ toS' = IF c \in valid /\ c \in sopen THEN Send(toS, c, "quit") ELSE toS
  /\ UNCHANGED <<serverVars, toC, copen, reset, tpc, connected, valid, killed>>

JoinThread(c) ==
  /\ cpc[c] \in {"joining", "aborting"} /\ tpc[c] = "done"
  /\ cpc' = [cpc EXCEPT ![c] = "gone"]
  /\ UNCHANGED <<serverVars, linkVars, tpc, connected, valid, killed>>

\* The client's process is killed.
Kill(c) ==
  /\ c \in Crashing \ killed /\ cpc[c] \notin {"new", "gone"}
  /\ killed' = killed \cup {c}
  /\ cpc' = [cpc EXCEPT ![c] = "gone"]
  /\ tpc' = [tpc EXCEPT ![c] = "done"]
  /\ IF c \in copen THEN CloseClient(c) ELSE UNCHANGED <<copen, reset>>
  /\ UNCHANGED <<serverVars, toC, toS, connected, valid>>

-----------------------------------------------------------------------------
(* The socket thread of a client: server_interaction.  Its loop ends only  *)
(* with a quit message or an error, whatever quit_ says.                   *)

\* The connect message: acknowledge it, call on_connect_cb_, wake start().
ThreadConnected(c) ==
  /\ tpc[c] = "loop" /\ c \notin connected
  /\ toC[c] # <<>>
  /\ toC' = Drop(toC, c)
  /\ toS' = IF c \in sopen THEN Send(toS, c, "ack") ELSE toS
  /\ connected' = connected \cup {c}
  /\ UNCHANGED <<serverVars, copen, reset, cpc, tpc, valid, killed>>

\* An update message: on_update_cb_ reads the frame.
ThreadUpdate(c) ==
  /\ tpc[c] = "loop" /\ c \in connected
  /\ toC[c] # <<>> /\ Head(toC[c]) = "upd"
  /\ toC' = Drop(toC, c)
  /\ UNCHANGED <<serverVars, toS, copen, reset, clientVars>>

\* Mutant: a thread asked to quit does not wait for the server's quit.
ThreadQuitAtOnce(c) ==
  /\ tpc[c] = "loop" /\ c \in connected
  /\ cpc[c] = "joining"
  /\ tpc' = [tpc EXCEPT ![c] = "done"]
  /\ valid' = valid \ {c}
  /\ CloseClient(c)
  /\ UNCHANGED <<serverVars, toC, toS, cpc, connected, killed>>

\* A quit message, the server's own or its answer to ours: on_disconnect_cb_,
\* close, end of the loop.
ThreadQuit(c) ==
  /\ tpc[c] = "loop" /\ c \in connected
  /\ toC[c] # <<>> /\ Head(toC[c]) = "quit"
  /\ toC' = Drop(toC, c)
  /\ tpc' = [tpc EXCEPT ![c] = "done"]
  /\ valid' = valid \ {c}
  /\ copen' = copen \ {c}
  /\ UNCHANGED <<serverVars, toS, reset, cpc, connected, killed>>

\* read() returns 0 or fails: on_disconnect_cb_ if connected, close, end.
ThreadEof(c) ==
  /\ tpc[c] = "loop"
  /\ toC[c] = <<>>
  /\ c \notin sopen /\ \A i \in DOMAIN backlog : backlog[i] # c
  /\ tpc' = [tpc EXCEPT ![c] = "done"]
  /\ valid' = valid \ {c}
  /\ copen' = copen \ {c}
  /\ UNCHANGED <<serverVars, toC, toS, reset, cpc, connected, killed>>

-----------------------------------------------------------------------------
(* The server thread: client_interaction, one descriptor at a time.        *)

\* Mutant: an accepted client is notified at once.
EnlistAtOnce(c) == /\ clients' = clients \cup {c}
                   /\ UNCHANGED pending

\* An accepted client waits in pending_clients_ for its acknowledgement.
Enlist(c) == /\ pending' = pending \cup {c}
             /\ UNCHANGED clients

\* accept() and the connect message.  When that cannot be sent the descriptor
\* is neither selected on nor closed.
Accept ==
  /\ srv = "serving" /\ backlog # <<>>
  /\ backlog' = Tail(backlog)
  /\ LET c == Head(backlog) IN
       /\ sopen' = sopen \cup {c}
       /\ \/ /\ c \in copen
             /\ toC' = Send(toC, c, "cnx")
             /\ allset' = allset \cup {c}
             /\ Enlist(c)
          \/ /\ c \notin copen
             /\ UNCHANGED <<toC, allset, pending, clients>>
  /\ UNCHANGED <<srv, notified, reported, cancelled, toS, copen, reset, clientVars>>

Readable(c) == c \in allset /\ (toS[c] # <<>> \/ c \notin copen)

\* Mutant: the descriptor is closed and still selected on.
RemoveKeepsSelecting(c) ==
  /\ clients' = clients \ {c}
  /\ sopen' = sopen \ {c}
  /\ UNCHANGED allset

\* Leaving clients_, FD_CLR and close.
Remove(c) ==
  /\ clients' = clients \ {c}
  /\ allset' = allset \ {c} /\ sopen' = sopen \ {c}

\* A client's quit: answer it, call on_disconnect_cb_.
ReadQuit(c) ==
  /\ srv = "serving"
  /\ c \in clients /\ Readable(c) /\ toS[c] # <<>>
  /\ toS' = Drop(toS, c)
  /\ toC' = IF c \in copen THEN Send(toC, c, "quit") ELSE toC
  /\ reported' = reported \ {c}
  /\ Remove(c)
  /\ UNCHANGED <<srv, backlog, pending, notified, cancelled, copen, reset, clientVars>>

\* Mutant: a client that is gone has its unit cancelled, read or not.
EveryLostClient(c) == TRUE

\* nread < 0, and the client was told of the last update.
MustCancel(c) == c \in reset /\ c \in notified

\* nread < 0 or nread = 0: the client is gone.  on_disconnect_cb_ is not called.
ReadLost(c) ==
  /\ srv = "serving"
  /\ c \in clients /\ Readable(c) /\ toS[c] = <<>>
  /\ cancelled' = IF MustCancel(c) THEN cancelled \cup {c} ELSE cancelled
  /\ Remove(c)
  /\ UNCHANGED <<srv, backlog, pending, notified, reported, linkVars, clientVars>>

\* A pending client's acknowledgement: on_connect_cb_.
ReadAck(c) ==
  /\ srv = "serving"
  /\ c \in pending /\ Readable(c) /\ toS[c] # <<>>
  /\ toS' = Drop(toS, c)
  /\ clients' = clients \cup {c} /\ pending' = pending \ {c}
  /\ reported' = reported \cup {c}
  /\ UNCHANGED <<srv, backlog, notified, sopen, allset, cancelled,
                 toC, copen, reset, clientVars>>

\* A pending client is gone: with nread = 0 its descriptor is closed, with
\* nread < 0 it is only forgotten, still open and selected on.
PendingLost(c) ==
  /\ srv = "serving"
  /\ c \in pending /\ Readable(c) /\ toS[c] = <<>>
  /\ pending' = pending \ {c}
  /\ \/ c \in reset /\ UNCHANGED <<sopen, allset>>
     \/ c \notin reset /\ sopen' = sopen \ {c} /\ allset' = allset \ {c}
  /\ UNCHANGED <<srv, backlog, clients, notified, reported, cancelled,
                 linkVars, clientVars>>

-----------------------------------------------------------------------------
(* The writer's thread.                                                    *)

\* notify_update, under clients_mutex_: a client that is gone does not count.
NotifyUpdate ==
  /\ srv = "serving"
  /\ \A c \in clients \cap copen : Len(toC[c]) < MaxQueue
  /\ notified' = clients \cap copen
  /\ toC' = [c \in Clients |->
               IF c \in clients \cap copen THEN Append(toC[c], "upd") ELSE toC[c]]
  /\ UNCHANGED <<srv, backlog, pending, clients, sopen, allset, reported,
                 cancelled, toS, copen, reset, clientVars>>

\* Mutant: the destructor leaves without a word.
ToldToQuit == {}

\* The destructor sends quit to clients_, not to pending_clients_.
Dismissed == clients \cap copen

\* UnixSocketServer::~UnixSocketServer: the path is unlinked, the thread
\* joined, quit sent, the listening socket closed.  No client's descriptor is.
ServerStop ==
  /\ srv = "serving"
  /\ srv' = "stopped"
  /\ toC' = [c \in Clients |-> IF c \in Dismissed THEN Append(toC[c], "quit")
                                                  ELSE toC[c]]
  /\ backlog' = <<>>
  /\ UNCHANGED <<pending, clients, notified, sopen, allset, reported, cancelled,
                 toS, copen, reset, clientVars>>

\* The writer's process ends, killed or not: all its descriptors are closed.
ServerExit ==
  /\ srv # "exited"
  /\ srv' = "exited"
  /\ backlog' = <<>> /\ sopen' = {} /\ allset' = {}
  /\ UNCHANGED <<pending, clients, notified, reported, cancelled, linkVars, clientVars>>

-----------------------------------------------------------------------------
UserStep(c) == StartReturns(c) \/ StartFails(c) \/ JoinThread(c)
ThreadStep(c) == ThreadConnected(c) \/ ThreadUpdate(c) \/ ThreadQuit(c) \/ ThreadEof(c)
ServerStep(c) == ReadQuit(c) \/ ReadLost(c) \/ ReadAck(c) \/ PendingLost(c)
Environment(c) == Connect(c) \/ Abandon(c) \/ Start(c) \/ Destroy(c) \/ Kill(c)

Next ==
  \/ Accept \/ NotifyUpdate \/ ServerStop \/ ServerExit
  \/ \E c \in Clients :
       UserStep(c) \/ ThreadStep(c) \/ ServerStep(c) \/ Environment(c)

Spec == Init /\ [][Next]_vars

\* Both sides' threads loop; nothing makes a user connect, write or leave.
Fairness ==
  /\ WF_vars(Accept)
  /\ \A c \in Clients :
       WF_vars(UserStep(c)) /\ WF_vars(ThreadStep(c)) /\ WF_vars(ServerStep(c))

FairSpec == Spec /\ Fairness

-----------------------------------------------------------------------------
(* Properties.                                                             *)

Unread(c, m) == \E i \in DOMAIN toC[c] : toC[c][i] = m

\* A client that has not read the connect message has at most that one in its
\* socket: it is sent no update, and the writer counts it as a reader of no frame,
\* before it is known to have the connect data.  It holds because the server waits
\* for the acknowledgement before it notifies.
ConnectComesAlone ==
  \A c \in Clients : c \notin connected => toC[c] \in {<<>>, <<"cnx">>}

\* The three sets of the server agree: a descriptor is in clients_ or in
\* pending_clients_, never both, is open and selected on; no closed one is; and
\* clients_ holds only clients that took the connect message and were announced
\* to on_connect_cb_, none of them announced to on_disconnect_cb_.
ServerSetsAgree ==
  /\ TypeOK
  /\ srv = "serving" =>
       /\ clients \cap pending = {}
       /\ clients \cup pending \subseteq allset /\ allset \subseteq sopen
       /\ clients \subseteq connected \cap reported

\* No update is abandoned: a client that leaves on its own has handled all the
\* updates the server sent it.  The writer commited it as a reader for each, and
\* one it never reads stalls the next write for a second.
NoUpdateAbandoned ==
  \A c \in Clients : tpc[c] = "done" /\ c \notin killed => ~Unread(c, "upd")

\* on_client_error_ gives back the unit of a client that never read its last
\* update, hence never of one that gave it back itself.
CancelsUnreadOnly == \A c \in cancelled : Unread(c, "upd") /\ c \in killed

\* The destructor of a client that had connected returns unless the server is
\* destroyed meanwhile: quit is always answered.
QuitAnswered ==
  \A c \in Clients :
    cpc[c] = "joining" ~> cpc[c] = "gone" \/ srv = "stopped"

\* A client the server counts among clients_ learns that the server stopped.  (One
\* whose acknowledgement is still unread does not: quit is sent to clients_ only.)
StopIsTold ==
  \A c \in Clients : srv = "stopped" /\ c \in clients ~> tpc[c] = "done"
=============================================================================
