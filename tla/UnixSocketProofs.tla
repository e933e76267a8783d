-------------------------- MODULE UnixSocketProofs --------------------------
(***************************************************************************)
(* Proofs about UnixSocket, for any finite set of clients, any of which    *)
(* may be killed, any socket buffer, and a start() that gives up or not.   *)
(***************************************************************************)
EXTENDS UnixSocket, TLAPS

USE CrashingAssumption, LateStartAssumption, MaxQueueAssumption

-----------------------------------------------------------------------------
(* The inductive invariant.                                                *)

InBacklog(c) == \E i \in DOMAIN backlog : backlog[i] = c

Distinct == \A i, j \in DOMAIN backlog : backlog[i] = backlog[j] => i = j

\* A client waits once for accept(), and meanwhile nothing is sent to it.
Backlog ==
  /\ Distinct
  /\ \A c \in Clients : InBacklog(c) =>
       c \notin sopen /\ c \notin connected /\ toC[c] = <<>> /\ cpc[c] # "new"

\* How far the threads of a client are, and what follows for its socket.
Threads ==
  \A c \in Clients :
    /\ cpc[c] \in {"new", "made"} => tpc[c] = "none"
    /\ cpc[c] = "new" => toC[c] = <<>> /\ c \notin sopen /\ c \notin killed
    /\ cpc[c] = "made" => c \in copen
    /\ cpc[c] \in {"up", "joining"} => c \in connected
    /\ tpc[c] = "none" => c \notin connected
    /\ tpc[c] = "done" => c \notin copen /\ (c \notin killed => toC[c] = <<>>)
    /\ c \in killed => tpc[c] = "done"
    /\ toS[c] # <<>> => c \in connected

\* A reset connection has an unread message that nobody will read.
Resets ==
  \A c \in reset :
    /\ c \notin copen /\ toC[c] # <<>> /\ tpc[c] # "loop"
    /\ c \in connected => c \in killed

Updates == Seq({"upd"})
Farewells == {Append(q, "quit") : q \in Updates}

\* What is on its way to a connected client: updates, and a quit behind them only
\* when the server no longer counts it.
Messages ==
  \A c \in connected :
    \/ toC[c] \in Updates
    \/ toC[c] \in Farewells /\ (srv = "serving" => c \notin clients \cup pending)

SocketInvariant ==
  ServerSetsAgree /\ ConnectComesAlone /\ Backlog /\ Threads /\ Resets /\ Messages
  /\ CancelsUnreadOnly

-----------------------------------------------------------------------------
(* Sequences of messages and of clients.                                   *)

\* Sending and receiving one message.
LEMMA MsgSeqs ==
  ASSUME NEW q \in Seq(Msg)
  PROVE  /\ \A m \in Msg : Append(q, m) \in Seq(Msg) /\ Append(q, m) # <<>>
         /\ q # <<>> => Tail(q) \in Seq(Msg)
OBVIOUS

\* Sending to and receiving from a client whose messages are in order.
LEMMA UpdateSeqs ==
  /\ <<>> \in Updates
  /\ \A q \in Updates :
       /\ Append(q, "upd") \in Updates /\ Append(q, "quit") \in Farewells
       /\ q # <<>> => /\ Head(q) = "upd" /\ Tail(q) \in Updates
                      /\ 1 \in DOMAIN q /\ q[1] = "upd"
  /\ \A q \in Farewells :
       /\ Head(q) = "quit" => Tail(q) = <<>>
       /\ Head(q) = "upd" => Tail(q) \in Farewells
<1>1. \A q \in Updates : q # <<>> =>
        Head(q) = "upd" /\ Tail(q) \in Updates /\ 1 \in DOMAIN q /\ q[1] = "upd"
  BY DEF Updates
<1>2. ASSUME NEW p \in Updates
      PROVE  /\ Head(Append(p, "quit")) = "quit" => Tail(Append(p, "quit")) = <<>>
             /\ Head(Append(p, "quit")) = "upd" => Tail(Append(p, "quit")) \in Farewells
  <2>1. CASE p = <<>> BY <2>1
  <2>2. CASE p # <<>>
    <3>1. Tail(p) \in Updates /\ p \in Seq({"upd"}) /\ Head(p) = "upd"
      BY <2>2, <1>1 DEF Updates
    <3>2. Tail(Append(p, "quit")) = Append(Tail(p), "quit")
      BY <2>2, <3>1
    <3>3. Head(Append(p, "quit")) = "upd"
      BY <2>2, <3>1
    <3> QED BY <3>1, <3>2, <3>3 DEF Farewells
  <2> QED BY <2>1, <2>2
<1>3. \A q \in Farewells : \E p \in Updates : q = Append(p, "quit")
  BY DEF Farewells
<1>4. <<>> \in Updates /\ \A q \in Updates : Append(q, "upd") \in Updates
  BY DEF Updates
<1>5. \A q \in Updates : Append(q, "quit") \in Farewells
  BY DEF Farewells
<1>6. \A q \in Farewells : /\ Head(q) = "quit" => Tail(q) = <<>>
                           /\ Head(q) = "upd" => Tail(q) \in Farewells
  BY <1>2, <1>3
<1> QED BY <1>1, <1>4, <1>5, <1>6

\* connect() adds one client to the backlog and accept() takes the first.
LEMMA BacklogSeqs ==
  ASSUME NEW q \in Seq(Clients)
  PROVE  /\ \A c \in Clients :
              /\ Append(q, c) \in Seq(Clients)
              /\ DOMAIN Append(q, c) = DOMAIN q \cup {Len(q) + 1}
              /\ Append(q, c)[Len(q) + 1] = c
              /\ \A i \in DOMAIN q : Append(q, c)[i] = q[i] /\ i # Len(q) + 1
         /\ q # <<>> =>
              /\ Head(q) \in Clients /\ 1 \in DOMAIN q /\ q[1] = Head(q)
              /\ Tail(q) \in Seq(Clients)
              /\ \A i \in DOMAIN Tail(q) : i + 1 \in DOMAIN q /\ i + 1 # 1
                                           /\ Tail(q)[i] = q[i + 1]
OBVIOUS

-----------------------------------------------------------------------------
(* Types.                                                                  *)

\* Every step keeps the types.
LEMMA TypeStep == TypeOK /\ [Next]_vars => TypeOK'
<1> SUFFICES ASSUME TypeOK, [Next]_vars PROVE TypeOK'
  OBVIOUS
<1> USE DEF TypeOK, serverVars, linkVars, clientVars, Send, Drop, CloseClient
<1>0. {"cnx", "ack", "upd", "quit"} = Msg BY DEF Msg
<1>1. CASE Accept
  <2>1. Head(backlog) \in Clients /\ Tail(backlog) \in Seq(Clients)
    BY <1>1, BacklogSeqs DEF Accept
  <2>2. toC' \in [Clients -> Seq(Msg)]
    <3>1. toC[Head(backlog)] \in Seq(Msg) BY <2>1
    <3>2. Append(toC[Head(backlog)], "cnx") \in Seq(Msg) BY <1>0, <3>1, MsgSeqs
    <3> QED BY <1>1, <2>1, <3>2 DEF Accept
  <2> QED BY <1>1, <2>1, <2>2 DEF Accept, Enlist
<1>2. CASE NotifyUpdate BY <1>0, <1>2, MsgSeqs DEF NotifyUpdate
<1>3. CASE ServerStop BY <1>0, <1>3, MsgSeqs DEF ServerStop
<1>4. CASE ServerExit BY <1>4 DEF ServerExit
<1>5. ASSUME NEW c \in Clients, UserStep(c) PROVE TypeOK'
  BY <1>5 DEF UserStep, StartReturns, StartFails, JoinThread
<1>6. ASSUME NEW c \in Clients, ThreadStep(c) PROVE TypeOK'
  <2>1. CASE ThreadConnected(c) BY <1>0, <2>1, MsgSeqs DEF ThreadConnected
  <2>2. CASE ThreadUpdate(c) BY <2>2, MsgSeqs DEF ThreadUpdate
  <2>3. CASE ThreadQuit(c) BY <2>3, MsgSeqs DEF ThreadQuit
  <2>4. CASE ThreadEof(c) BY <2>4 DEF ThreadEof
  <2> QED BY <1>6, <2>1, <2>2, <2>3, <2>4 DEF ThreadStep
<1>7. ASSUME NEW c \in Clients, ServerStep(c) PROVE TypeOK'
  <2>1. CASE ReadQuit(c) BY <1>0, <2>1, MsgSeqs DEF ReadQuit, Remove
  <2>2. CASE ReadLost(c) BY <2>2 DEF ReadLost, Remove
  <2>3. CASE ReadAck(c) BY <2>3, MsgSeqs DEF ReadAck
  <2>4. CASE PendingLost(c) BY <2>4 DEF PendingLost
  <2> QED BY <1>7, <2>1, <2>2, <2>3, <2>4 DEF ServerStep
<1>8. ASSUME NEW c \in Clients, Environment(c) PROVE TypeOK'
  <2>1. CASE Connect(c) BY <2>1, BacklogSeqs DEF Connect
  <2>2. CASE Abandon(c) BY <2>2 DEF Abandon
  <2>3. CASE Start(c) BY <2>3 DEF Start
  <2>4. CASE Destroy(c) BY <1>0, <2>4, MsgSeqs DEF Destroy
  <2>5. CASE Kill(c) BY <2>5 DEF Kill
  <2> QED BY <1>8, <2>1, <2>2, <2>3, <2>4, <2>5 DEF Environment
<1>9. CASE UNCHANGED vars BY <1>9 DEF vars
<1> QED BY <1>1, <1>2, <1>3, <1>4, <1>5, <1>6, <1>7, <1>8, <1>9 DEF Next

-----------------------------------------------------------------------------
(* Every step keeps the invariant, part by part.                           *)

\* A descriptor enters pending_clients_, clients_ and the selected ones in order,
\* and leaves all of them together.
LEMMA SetsStep ==
  ASSUME SocketInvariant, [Next]_vars
  PROVE  ServerSetsAgree'
<1>0. TypeOK' BY TypeStep DEF SocketInvariant, ServerSetsAgree
<1> USE DEF SocketInvariant, ServerSetsAgree, TypeOK, serverVars, linkVars, clientVars
<1>1. CASE Accept
  <2>1. Head(backlog) \in Clients /\ InBacklog(Head(backlog))
    BY <1>1, BacklogSeqs DEF Accept, InBacklog
  <2>2. Head(backlog) \notin sopen BY <2>1 DEF Backlog
  <2> QED BY <1>0, <1>1, <2>1, <2>2 DEF Accept, Enlist
<1>2. CASE NotifyUpdate BY <1>0, <1>2 DEF NotifyUpdate
<1>3. CASE ServerStop BY <1>0, <1>3 DEF ServerStop
<1>4. CASE ServerExit BY <1>0, <1>4 DEF ServerExit
<1>5. ASSUME NEW c \in Clients, UserStep(c) PROVE ServerSetsAgree'
  BY <1>0, <1>5 DEF UserStep, StartReturns, StartFails, JoinThread
<1>6. ASSUME NEW c \in Clients, ThreadStep(c) PROVE ServerSetsAgree'
  BY <1>0, <1>6 DEF ThreadStep, ThreadConnected, ThreadUpdate, ThreadQuit, ThreadEof
<1>7. ASSUME NEW c \in Clients, ServerStep(c) PROVE ServerSetsAgree'
  <2>1. CASE ReadQuit(c) BY <1>0, <2>1 DEF ReadQuit, Remove
  <2>2. CASE ReadLost(c) BY <1>0, <2>2 DEF ReadLost, Remove
  <2>3. CASE ReadAck(c)
    <3>1. c \in connected BY <2>3 DEF ReadAck, Threads
    <3> QED BY <1>0, <2>3, <3>1 DEF ReadAck, Readable
  <2>4. CASE PendingLost(c) BY <1>0, <2>4 DEF PendingLost
  <2> QED BY <1>7, <2>1, <2>2, <2>3, <2>4 DEF ServerStep
<1>8. ASSUME NEW c \in Clients, Environment(c) PROVE ServerSetsAgree'
  BY <1>0, <1>8 DEF Environment, Connect, Abandon, Start, Destroy, Kill
<1>9. CASE UNCHANGED vars BY <1>0, <1>9 DEF vars
<1> QED BY <1>1, <1>2, <1>3, <1>4, <1>5, <1>6, <1>7, <1>8, <1>9 DEF Next

\* Nothing but the connect message is sent to a client before it answers, and
\* that once.
LEMMA AloneStep ==
  ASSUME SocketInvariant, [Next]_vars
  PROVE  ConnectComesAlone'
<1> USE DEF SocketInvariant, ServerSetsAgree, TypeOK, ConnectComesAlone,
            serverVars, linkVars, clientVars, Send, Drop
<1>1. CASE Accept
  <2>1. Head(backlog) \in Clients /\ InBacklog(Head(backlog))
    BY <1>1, BacklogSeqs DEF Accept, InBacklog
  <2>2. toC[Head(backlog)] = <<>> BY <2>1 DEF Backlog
  <2>3. Append(toC[Head(backlog)], "cnx") = <<"cnx">> BY <2>2
  <2> QED BY <1>1, <2>1, <2>3 DEF Accept
<1>2. CASE NotifyUpdate BY <1>2 DEF NotifyUpdate
<1>3. CASE ServerStop BY <1>3 DEF ServerStop, Dismissed
<1>4. CASE ServerExit BY <1>4 DEF ServerExit
<1>5. ASSUME NEW c \in Clients, UserStep(c) PROVE ConnectComesAlone'
  BY <1>5 DEF UserStep, StartReturns, StartFails, JoinThread
<1>6. ASSUME NEW c \in Clients, ThreadStep(c) PROVE ConnectComesAlone'
  BY <1>6 DEF ThreadStep, ThreadConnected, ThreadUpdate, ThreadQuit, ThreadEof
<1>7. ASSUME NEW c \in Clients, ServerStep(c) PROVE ConnectComesAlone'
  BY <1>7 DEF ServerStep, ReadQuit, ReadLost, ReadAck, PendingLost
<1>8. ASSUME NEW c \in Clients, Environment(c) PROVE ConnectComesAlone'
  BY <1>8 DEF Environment, Connect, Abandon, Start, Destroy, Kill
<1>9. CASE UNCHANGED vars BY <1>9 DEF vars
<1> QED BY <1>1, <1>2, <1>3, <1>4, <1>5, <1>6, <1>7, <1>8, <1>9 DEF Next

\* A client joins the backlog once, when it connects, and leaves it when accepted.
LEMMA BacklogStep ==
  ASSUME SocketInvariant, [Next]_vars
  PROVE  Backlog'
<1> USE DEF SocketInvariant, ServerSetsAgree, TypeOK, Backlog,
            serverVars, linkVars, clientVars, Send, Drop
<1>0. backlog' = backlog => /\ Distinct'
                            /\ \A c \in Clients : InBacklog(c)' => InBacklog(c)
  BY DEF Distinct, InBacklog
<1>1. CASE Accept
  <2> DEFINE h == Head(backlog)
  <2>1. /\ h \in Clients /\ 1 \in DOMAIN backlog /\ backlog[1] = h
        /\ \A i \in DOMAIN backlog' : i \in Nat /\ i + 1 \in DOMAIN backlog /\ i + 1 # 1
                                      /\ backlog'[i] = backlog[i + 1]
    BY <1>1, BacklogSeqs DEF Accept
  <2>2. Distinct'
    BY <2>1 DEF Distinct
  <2>3. ASSUME NEW c \in Clients, InBacklog(c)' PROVE InBacklog(c) /\ c # h
    <3>1. PICK i \in DOMAIN backlog' : backlog'[i] = c
      BY <2>3 DEF InBacklog
    <3>2. i + 1 \in DOMAIN backlog /\ backlog[i + 1] = c /\ i + 1 # 1
      BY <2>1, <3>1
    <3> QED BY <2>1, <3>2 DEF InBacklog, Distinct
  <2> QED BY <1>1, <2>1, <2>2, <2>3 DEF Accept
<1>2. CASE NotifyUpdate BY <1>0, <1>2 DEF NotifyUpdate
<1>3. CASE ServerStop BY <1>3 DEF ServerStop, Distinct, InBacklog
<1>4. CASE ServerExit BY <1>4 DEF ServerExit, Distinct, InBacklog
<1>5. ASSUME NEW c \in Clients, UserStep(c) PROVE Backlog'
  BY <1>0, <1>5 DEF UserStep, StartReturns, StartFails, JoinThread
<1>6. ASSUME NEW c \in Clients, ThreadStep(c) PROVE Backlog'
  BY <1>0, <1>6 DEF ThreadStep, ThreadConnected, ThreadUpdate, ThreadQuit, ThreadEof
<1>7. ASSUME NEW c \in Clients, ServerStep(c) PROVE Backlog'
  <2>1. CASE ReadQuit(c) BY <1>0, <2>1 DEF ReadQuit, Remove
  <2>2. CASE ReadLost(c) BY <1>0, <2>2 DEF ReadLost, Remove
  <2>3. CASE ReadAck(c) BY <1>0, <2>3 DEF ReadAck
  <2>4. CASE PendingLost(c) BY <1>0, <2>4 DEF PendingLost
  <2> QED BY <1>7, <2>1, <2>2, <2>3, <2>4 DEF ServerStep
<1>8. ASSUME NEW c \in Clients, Environment(c) PROVE Backlog'
  <2>1. CASE Connect(c)
    <3>1. ~InBacklog(c) /\ c \notin sopen /\ toC[c] = <<>> /\ c \notin connected
      BY <2>1 DEF Connect, Threads
    <3> DEFINE n == Len(backlog) + 1
    <3>2. /\ DOMAIN backlog' = DOMAIN backlog \cup {n} /\ backlog'[n] = c
          /\ \A i \in DOMAIN backlog : backlog'[i] = backlog[i] /\ i # n
      BY <2>1, BacklogSeqs DEF Connect
    <3> HIDE DEF n
    <3>3. Distinct' BY <3>1, <3>2 DEF Distinct, InBacklog
    <3>4. \A d \in Clients : InBacklog(d)' => d = c \/ InBacklog(d)
      BY <3>2 DEF InBacklog
    <3> QED BY <2>1, <3>1, <3>3, <3>4 DEF Connect
  <2>2. CASE Abandon(c) \/ Start(c) \/ Destroy(c) \/ Kill(c)
    BY <1>0, <2>2 DEF Abandon, Start, Destroy, Kill
  <2> QED BY <1>8, <2>1, <2>2 DEF Environment
<1>9. CASE UNCHANGED vars BY <1>0, <1>9 DEF vars
<1> QED BY <1>1, <1>2, <1>3, <1>4, <1>5, <1>6, <1>7, <1>8, <1>9 DEF Next

\* A client that is new or not started is untouched; one whose thread has ended
\* has closed its socket, and read everything unless it was killed.
LEMMA ThreadsStep ==
  ASSUME SocketInvariant, [Next]_vars
  PROVE  Threads'
<1> USE DEF SocketInvariant, ServerSetsAgree, TypeOK, Threads,
            serverVars, linkVars, clientVars, Send, Drop
<1>1. CASE Accept
  <2>1. Head(backlog) \in Clients /\ InBacklog(Head(backlog))
    BY <1>1, BacklogSeqs DEF Accept, InBacklog
  <2>2. cpc[Head(backlog)] # "new" BY <2>1 DEF Backlog
  <2> QED BY <1>1, <2>1, <2>2 DEF Accept
<1>2. CASE NotifyUpdate BY <1>2 DEF NotifyUpdate
<1>3. CASE ServerStop BY <1>3 DEF ServerStop, Dismissed
<1>4. CASE ServerExit BY <1>4 DEF ServerExit
<1>5. ASSUME NEW c \in Clients, UserStep(c) PROVE Threads'
  BY <1>5 DEF UserStep, StartReturns, StartFails, JoinThread
<1>6. ASSUME NEW c \in Clients, ThreadStep(c) PROVE Threads'
  <2>1. CASE ThreadConnected(c) BY <2>1 DEF ThreadConnected
  <2>2. CASE ThreadUpdate(c) BY <2>2 DEF ThreadUpdate
  <2>3. CASE ThreadQuit(c)
    <3>1. Tail(toC[c]) = <<>>
      BY <2>3, UpdateSeqs DEF ThreadQuit, Messages
    <3> QED BY <2>3, <3>1 DEF ThreadQuit
  <2>4. CASE ThreadEof(c) BY <2>4 DEF ThreadEof
  <2> QED BY <1>6, <2>1, <2>2, <2>3, <2>4 DEF ThreadStep
<1>7. ASSUME NEW c \in Clients, ServerStep(c) PROVE Threads'
  <2>1. CASE ReadQuit(c) BY <2>1 DEF ReadQuit, Remove
  <2>2. CASE ReadLost(c) BY <2>2 DEF ReadLost, Remove
  <2>3. CASE ReadAck(c) BY <2>3 DEF ReadAck
  <2>4. CASE PendingLost(c) BY <2>4 DEF PendingLost
  <2> QED BY <1>7, <2>1, <2>2, <2>3, <2>4 DEF ServerStep
<1>8. ASSUME NEW c \in Clients, Environment(c) PROVE Threads'
  <2>1. CASE Connect(c) BY <2>1 DEF Connect
  <2>2. CASE Abandon(c) BY <2>2 DEF Abandon, CloseClient
  <2>3. CASE Start(c) BY <2>3 DEF Start
  <2>4. CASE Destroy(c) BY <2>4 DEF Destroy
  <2>5. CASE Kill(c) BY <2>5 DEF Kill, CloseClient
  <2> QED BY <1>8, <2>1, <2>2, <2>3, <2>4, <2>5 DEF Environment
<1>9. CASE UNCHANGED vars BY <1>9 DEF vars
<1> QED BY <1>1, <1>2, <1>3, <1>4, <1>5, <1>6, <1>7, <1>8, <1>9 DEF Next

\* Only a client that was killed, or that never answered, leaves messages unread,
\* and they stay there.
LEMMA ResetsStep ==
  ASSUME SocketInvariant, [Next]_vars
  PROVE  Resets'
<1> USE DEF SocketInvariant, ServerSetsAgree, TypeOK, Resets,
            serverVars, linkVars, clientVars, Send, Drop
<1>1. CASE Accept
  <2>1. Head(backlog) \in Clients /\ InBacklog(Head(backlog))
    BY <1>1, BacklogSeqs DEF Accept, InBacklog
  <2>2. toC[Head(backlog)] = <<>> BY <2>1 DEF Backlog
  <2> QED BY <1>1, <2>1, <2>2 DEF Accept
<1>2. CASE NotifyUpdate BY <1>2 DEF NotifyUpdate
<1>3. CASE ServerStop BY <1>3 DEF ServerStop, Dismissed
<1>4. CASE ServerExit BY <1>4 DEF ServerExit
<1>5. ASSUME NEW c \in Clients, UserStep(c) PROVE Resets'
  BY <1>5 DEF UserStep, StartReturns, StartFails, JoinThread
<1>6. ASSUME NEW c \in Clients, ThreadStep(c) PROVE Resets'
  BY <1>6 DEF ThreadStep, ThreadConnected, ThreadUpdate, ThreadQuit, ThreadEof
<1>7. ASSUME NEW c \in Clients, ServerStep(c) PROVE Resets'
  BY <1>7 DEF ServerStep, ReadQuit, ReadLost, ReadAck, PendingLost
<1>8. ASSUME NEW c \in Clients, Environment(c) PROVE Resets'
  <2>1. CASE Connect(c) BY <2>1 DEF Connect, Threads
  <2>2. CASE Abandon(c) BY <2>2 DEF Abandon, CloseClient, Threads
  <2>3. CASE Start(c) BY <2>3 DEF Start, Threads
  <2>4. CASE Destroy(c) BY <2>4 DEF Destroy
  <2>5. CASE Kill(c) BY <2>5 DEF Kill, CloseClient
  <2> QED BY <1>8, <2>1, <2>2, <2>3, <2>4, <2>5 DEF Environment
<1>9. CASE UNCHANGED vars BY <1>9 DEF vars
<1> QED BY <1>1, <1>2, <1>3, <1>4, <1>5, <1>6, <1>7, <1>8, <1>9 DEF Next

\* The server sends updates to a client it counts, and quit as the last message.
LEMMA MessagesStep ==
  ASSUME SocketInvariant, [Next]_vars
  PROVE  Messages'
<1> USE DEF SocketInvariant, ServerSetsAgree, TypeOK, Messages,
            serverVars, linkVars, clientVars, Send, Drop
<1>1. CASE Accept
  <2>1. Head(backlog) \in Clients /\ InBacklog(Head(backlog))
    BY <1>1, BacklogSeqs DEF Accept, InBacklog
  <2>2. Head(backlog) \notin connected BY <2>1 DEF Backlog
  <2> QED BY <1>1, <2>1, <2>2 DEF Accept, Enlist
<1>2. CASE NotifyUpdate BY <1>2, UpdateSeqs DEF NotifyUpdate
<1>3. CASE ServerStop BY <1>3, UpdateSeqs DEF ServerStop, Dismissed
<1>4. CASE ServerExit BY <1>4 DEF ServerExit
<1>5. ASSUME NEW c \in Clients, UserStep(c) PROVE Messages'
  BY <1>5 DEF UserStep, StartReturns, StartFails, JoinThread
<1>6. ASSUME NEW c \in Clients, ThreadStep(c) PROVE Messages'
  <2>1. CASE ThreadConnected(c)
    <3>1. toC[c] = <<"cnx">> BY <2>1 DEF ThreadConnected, ConnectComesAlone
    <3>2. toC'[c] \in Updates /\ connected' = connected \cup {c}
      BY <2>1, <3>1, UpdateSeqs DEF ThreadConnected
    <3>3. \A d \in connected : toC'[d] = toC[d]
      BY <2>1 DEF ThreadConnected
    <3>4. UNCHANGED <<srv, clients, pending>> BY <2>1 DEF ThreadConnected
    <3> QED BY <3>2, <3>3, <3>4
  <2>2. CASE ThreadUpdate(c) BY <2>2, UpdateSeqs DEF ThreadUpdate
  <2>3. CASE ThreadQuit(c) BY <2>3, UpdateSeqs DEF ThreadQuit
  <2>4. CASE ThreadEof(c) BY <2>4 DEF ThreadEof
  <2> QED BY <1>6, <2>1, <2>2, <2>3, <2>4 DEF ThreadStep
<1>7. ASSUME NEW c \in Clients, ServerStep(c) PROVE Messages'
  <2>1. CASE ReadQuit(c) BY <2>1, UpdateSeqs DEF ReadQuit, Remove
  <2>2. CASE ReadLost(c) BY <2>2 DEF ReadLost, Remove
  <2>3. CASE ReadAck(c) BY <2>3 DEF ReadAck
  <2>4. CASE PendingLost(c) BY <2>4 DEF PendingLost
  <2> QED BY <1>7, <2>1, <2>2, <2>3, <2>4 DEF ServerStep
<1>8. ASSUME NEW c \in Clients, Environment(c) PROVE Messages'
  BY <1>8 DEF Environment, Connect, Abandon, Start, Destroy, Kill
<1>9. CASE UNCHANGED vars BY <1>9 DEF vars
<1> QED BY <1>1, <1>2, <1>3, <1>4, <1>5, <1>6, <1>7, <1>8, <1>9 DEF Next

\* on_client_error_ is called for a client with an unread update, which stays
\* unread.
LEMMA CancelStep ==
  ASSUME SocketInvariant, [Next]_vars
  PROVE  CancelsUnreadOnly'
<1> USE DEF SocketInvariant, ServerSetsAgree, TypeOK, CancelsUnreadOnly,
            serverVars, linkVars, clientVars
<1>1. \A c \in cancelled : c \in killed /\ c \notin copen /\ tpc[c] = "done"
                           /\ Unread(c, "upd")
  BY DEF Threads
<1>2. ASSUME NEW c \in cancelled, toC'[c] = toC[c] PROVE Unread(c, "upd")'
  BY <1>1, <1>2 DEF Unread
<1> HIDE DEF CancelsUnreadOnly
<1>3. SUFFICES ASSUME NEW d \in cancelled' PROVE Unread(d, "upd")' /\ d \in killed'
  BY DEF CancelsUnreadOnly
<1>4. CASE d \in cancelled
  <2>1. toC'[d] = toC[d] /\ killed \subseteq killed'
    <3> USE DEF Send, Drop
    <3>1. CASE Accept
      <4>1. Head(backlog) \in Clients /\ InBacklog(Head(backlog))
        BY <3>1, BacklogSeqs DEF Accept, InBacklog
      <4> QED BY <1>1, <1>4, <3>1, <4>1 DEF Accept
    <3>2. CASE NotifyUpdate \/ ServerStop \/ ServerExit
      BY <1>1, <1>4, <3>2 DEF NotifyUpdate, ServerStop, ServerExit, Dismissed
    <3>3. ASSUME NEW c \in Clients, UserStep(c) \/ ThreadStep(c)
          PROVE  toC'[d] = toC[d] /\ killed \subseteq killed'
      BY <1>1, <1>4, <3>3 DEF UserStep, StartReturns, StartFails, JoinThread,
         ThreadStep, ThreadConnected, ThreadUpdate, ThreadQuit, ThreadEof
    <3>4. ASSUME NEW c \in Clients, ServerStep(c) \/ Environment(c)
          PROVE  toC'[d] = toC[d] /\ killed \subseteq killed'
      BY <1>1, <1>4, <3>4 DEF ServerStep, ReadQuit, ReadLost, ReadAck, PendingLost,
         Environment, Connect, Abandon, Start, Destroy, Kill
    <3>5. CASE UNCHANGED vars BY <3>5 DEF vars
    <3> QED BY <3>1, <3>2, <3>3, <3>4, <3>5 DEF Next
  <2> QED BY <1>1, <1>2, <1>4, <2>1
<1>5. CASE d \notin cancelled
  <2>1. ReadLost(d) /\ MustCancel(d)
    BY <1>3, <1>5 DEF Next, vars, Accept, NotifyUpdate, ServerStop, ServerExit,
       UserStep, StartReturns, StartFails, JoinThread,
       ThreadStep, ThreadConnected, ThreadUpdate, ThreadQuit, ThreadEof,
       ServerStep, ReadQuit, ReadLost, ReadAck, PendingLost,
       Environment, Connect, Abandon, Start, Destroy, Kill
  <2>2. d \in killed /\ toC[d] # <<>>
    BY <2>1 DEF ReadLost, MustCancel, Resets
  <2>3. toC[d] \in Updates
    BY <2>1 DEF ReadLost, Messages
  <2>4. Unread(d, "upd")
    BY <2>2, <2>3, UpdateSeqs DEF Unread
  <2> QED BY <2>1, <2>2, <2>4 DEF ReadLost, Unread
<1> QED BY <1>4, <1>5

-----------------------------------------------------------------------------
(* The theorems.                                                           *)

\* The invariant of the connections holds in every state.
LEMMA SocketAlways == Spec => []SocketInvariant
<1>1. Init => SocketInvariant
  <2> SUFFICES ASSUME Init PROVE SocketInvariant
    OBVIOUS
  <2>1. ServerSetsAgree BY DEF Init, ServerSetsAgree, TypeOK
  <2>2. ConnectComesAlone /\ CancelsUnreadOnly
    BY DEF Init, ConnectComesAlone, CancelsUnreadOnly
  <2>3. Backlog BY DEF Init, Backlog, Distinct, InBacklog
  <2>4. Threads /\ Resets /\ Messages BY DEF Init, Threads, Resets, Messages
  <2> QED BY <2>1, <2>2, <2>3, <2>4 DEF SocketInvariant
<1>2. SocketInvariant /\ [Next]_vars => SocketInvariant'
  <2> SUFFICES ASSUME SocketInvariant, [Next]_vars PROVE SocketInvariant'
    OBVIOUS
  <2> QED BY SetsStep, AloneStep, BacklogStep, ThreadsStep, ResetsStep, MessagesStep,
             CancelStep DEF SocketInvariant
<1> QED BY <1>1, <1>2, PTL DEF Spec

\* The sets of the server agree, for any number of clients killed at any time.
THEOREM SetsSafe == Spec => []ServerSetsAgree
<1>1. SocketInvariant => ServerSetsAgree BY DEF SocketInvariant
<1> QED BY <1>1, SocketAlways, PTL

\* The connect message is alone in a client's socket until the client has read it.
THEOREM ConnectSafe == Spec => []ConnectComesAlone
<1>1. SocketInvariant => ConnectComesAlone BY DEF SocketInvariant
<1> QED BY <1>1, SocketAlways, PTL

\* A client that leaves on its own has handled every update sent to it.
THEOREM UpdatesHandled == Spec => []NoUpdateAbandoned
<1>1. SocketInvariant => NoUpdateAbandoned
  BY DEF SocketInvariant, Threads, NoUpdateAbandoned, Unread
<1> QED BY <1>1, SocketAlways, PTL

\* on_client_error_ gives back the unit of a killed client that never read its
\* last update, and of no other.
THEOREM CancelSafe == Spec => []CancelsUnreadOnly
<1>1. SocketInvariant => CancelsUnreadOnly BY DEF SocketInvariant
<1> QED BY <1>1, SocketAlways, PTL
=============================================================================
