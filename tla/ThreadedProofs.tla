--------------------------- MODULE ThreadedProofs ---------------------------
(***************************************************************************)
(* Proofs about ThreadedAdapter for any number of threads of the device,   *)
(* clients and data items: the two locks are held by one thread each, the  *)
(* loops over the clients stay in the list, a line is the work of one      *)
(* gather, and between gathers the clients are in step.                    *)
(***************************************************************************)
EXTENDS ThreadedAdapter, ServerProofs

HoldsGather == {"set", "append", "send", "remove", "write"}
HoldsList == {"write", "read", "heartbeats"}
Initialising == {"append", "send", "remove"}

\* Where a thread is says which locks it holds, and the other way round.
\* sendToClients() is not reached while a client is initialised.
LockInv ==
  /\ \A t \in Gatherers : pc[t] \in {"idle", "set", "append", "send", "write"}
  /\ pc[ServerThread] \in {"connect", "lockInitial", "lockRead", "read",
                           "heartbeats", "sleep", "append", "send", "remove"}
  /\ \A t \in Threads : pc[t] \in HoldsGather <=> mGatherLock = t
  /\ \A t \in Threads : pc[t] \in HoldsList <=> mListLock = t
  /\ mInitializeClient = IF pc[ServerThread] \in Initialising THEN client ELSE NULL
  /\ pc[ServerThread] \in Initialising \cup {"lockInitial"} => client \in Clients

ThreadInv == TypeOK /\ ServerInv /\ LockInv /\ LoopsStayInList

\* mBuffer holds current values, under the stamp of who holds mGatherLock.
BufferInv ==
  /\ \A d \in changed : value[d] # NoValue
  /\ \A line \in buffer :
       line[3] = stamp /\ line[2] = value[line[1]] /\ line[2] \in Values
  /\ mGatherLock # NULL => stamp = mGatherLock
  /\ mGatherLock = NULL => buffer = {} /\ changed = {}
  /\ \A t \in Gatherers :
       /\ pc[t] = "set" => buffer = {}
       /\ pc[t] \in {"append", "send", "write"} => \A d \in changed : d >= cursor[t]
  /\ pc[ServerThread] \in Initialising => changed = {}

Buffered == {line[1] : line \in buffer}
Pending(c) == pc[ServerThread] = "lockInitial" /\ c = client

\* The running loop over the clients has passed this one.
Written(c) ==
  \E t \in Gatherers : /\ pc[t] = "write"
                       /\ \E k \in Used : k > idx[t] /\ mClients[k] = c

\* What the thread that holds mGatherLock is still going to send a client.
Due(c, d) ==
  \/ d \in changed
  \/ /\ d \in Buffered /\ ~Written(c)
     /\ mInitializeClient # NULL => c = mInitializeClient
  \/ /\ pc[ServerThread] \in Initialising /\ c = mInitializeClient
     /\ d >= cursor[ServerThread]

\* An open client lacks no value but those it is still going to be sent.
ViewInv ==
  /\ \A c \in Clients, d \in Data :
       peer[c] = "up" =>
         /\ value[d] = NoValue => view[c][d] = NoValue
         /\ ~Pending(c) => view[c][d] = value[d] \/ Due(c, d)
  /\ pc[ServerThread] = "remove" => peer[mInitializeClient] # "up"

DataInv == BufferInv /\ ViewInv

-----------------------------------------------------------------------------
(* The threads and the list of clients. *)

\* No thread holds a lock at the start, and nobody is connected.
LEMMA ThreadsStart == Init => ThreadInv /\ DataInv
<1> SUFFICES ASSUME Init PROVE ThreadInv /\ DataInv
  OBVIOUS
<1> USE ServerAssumption, ThreadedAssumption
<1>1. ServerInit
  BY DEF Init
<1>2. Used = {} /\ Open = {} /\ Listed = {}
  BY <1>1 DEF ServerInit, Used, Open, Listed
<1>3. ServerTypeOK
  BY <1>1 DEF ServerInit, ServerTypeOK, PeerStates, Slots
<1>4. ServerInv
  BY <1>1, <1>2, <1>3 DEF ServerInit, ServerInv, ClientListExact, BacklogOK
<1>5. value \in [Data -> Values \cup {NoValue}] /\ view = [c \in Clients |-> value]
  BY DEF Init
<1>6. view \in [Clients -> [Data -> Values \cup {NoValue}]]
  BY <1>5
<1>7. /\ pc \in [Threads -> GathererPcs \cup ServerPcs]
      /\ cursor \in [Threads -> 1 .. NumData + 1]
      /\ idx \in [Threads -> -1 .. MaxClients - 1]
  BY DEF Init, GathererPcs, ServerPcs, ThreadPcs
<1>8. TypeOK
  BY <1>3, <1>5, <1>6, <1>7 DEF Init, TypeOK
<1>9. LockInv /\ LoopsStayInList
  BY DEF Init, LockInv, LoopsStayInList, HoldsGather, HoldsList, Initialising, Threads
<1>10. BufferInv
  BY DEF Init, BufferInv, Initialising, Threads
<1>11. ViewInv
  BY <1>1, <1>5 DEF Init, ViewInv, Threads, ServerInit
<1> QED BY <1>4, <1>8, <1>9, <1>10, <1>11 DEF ThreadInv, DataInv

\* A step that leaves the server alone.
LEMMA ServerAlone ==
  ASSUME ServerInv, UNCHANGED serverVars
  PROVE  ServerInv' /\ ServerTypeOK' /\ mNumClients' = mNumClients
BY ListUnchanged DEF serverVars, clientVars, ServerInv, ServerTypeOK

\* What a remote end has been sent is a value of each item.
LEMMA DeliverTypes ==
  ASSUME TypeOK, NEW c \in Clients, Deliver(c)
  PROVE  view' \in [Clients -> [Data -> Values \cup {NoValue}]]
<1> DEFINE sent == [d \in Data |-> IF \E v \in Values : Sent(d, v)
                                  THEN CHOOSE v \in Values : Sent(d, v)
                                  ELSE view[c][d]]
<1>1. sent \in [Data -> Values \cup {NoValue}]
  BY DEF TypeOK
<1>2. view' = IF peer[c] = "up" THEN [view EXCEPT ![c] = sent] ELSE view
  BY DEF Deliver
<1> HIDE DEF sent
<1> QED BY <1>1, <1>2 DEF TypeOK

\* The steps that leave the server alone keep the locks in order.
LEMMA QuietStep ==
  ASSUME ThreadInv, BufferInv, NEW t \in Threads,
         \/ NoneWaiting \/ LockInitial \/ LockRead \/ ReadDone \/ HeartbeatsDone \/ Wake
         \/ t \in Gatherers /\ (BeginGather(t) \/ SetValue(t) \/ CompleteGather(t))
         \/ SkipDatum(t) \/ SendBuffer(t) \/ AppendDatum(t) \/ SendDone(t)
         \/ WriteInitial(t) \/ LockWrite(t) \/ WriteDone(t)
  PROVE  ThreadInv'
<1> USE ServerAssumption, ThreadedAssumption DEF ThreadInv, Goto
<1>1. UNCHANGED serverVars
  BY DEF NoneWaiting, LockInitial, BeginInitial, LockRead, ReadDone,
         HeartbeatsDone, Wake, BeginGather, SetValue, CompleteGather, SkipDatum,
         SendBuffer, AppendDatum, SendDone, WriteInitial, LockWrite, WriteDone
<1>2. ServerInv' /\ ServerTypeOK' /\ mNumClients' = mNumClients
  BY <1>1, ServerAlone
<1>3. /\ mNumClients \in 0 .. MaxClients /\ Readable \subseteq Clients
      /\ ServerThread \in Threads
      /\ mNumClients - 1 \in -1 .. MaxClients - 1
  BY DEF ServerTypeOK, ServerInv, Readable, ClientListExact, Open, Threads
<1>4. TypeOK'
  <2> USE <1>2, <1>3 DEF TypeOK, GathererPcs, ServerPcs, ThreadPcs
  <2>1. CASE NoneWaiting BY <2>1 DEF NoneWaiting, dataVars
  <2>2. CASE LockInitial BY <2>2 DEF LockInitial, BeginInitial, LockInv
  <2>3. CASE LockRead BY <2>3 DEF LockRead, dataVars
  <2>4. CASE ReadDone BY <2>4 DEF ReadDone, dataVars
  <2>5. CASE HeartbeatsDone BY <2>5 DEF HeartbeatsDone, dataVars
  <2>6. CASE BeginGather(t) BY <2>6 DEF BeginGather
  <2>7. CASE SetValue(t) BY <2>7 DEF SetValue, threadVars
  <2>8. CASE CompleteGather(t) BY <2>8 DEF CompleteGather, dataVars
  <2>9. CASE SkipDatum(t) BY <2>9 DEF SkipDatum, dataVars
  <2>10. CASE SendBuffer(t) BY <2>10 DEF SendBuffer, dataVars
  <2>11. CASE AppendDatum(t)
    <3>1. cursor[t] \in Data /\ value[cursor[t]] \in Values
      BY <2>11 DEF AppendDatum, ToSend, BufferInv, Data
    <3>2. buffer' \subseteq Data \X Values \X Threads
      BY <2>11, <3>1 DEF AppendDatum
    <3>3. cursor' \in [Threads -> 1 .. NumData + 1]
      BY <2>11, <3>1 DEF AppendDatum, Data
    <3>4. pc' \in [Threads -> GathererPcs \cup ServerPcs]
      BY <2>11 DEF AppendDatum
    <3> QED BY <2>11, <3>2, <3>3, <3>4 DEF AppendDatum
  <2>12. CASE SendDone(t) BY <2>12 DEF SendDone, dataVars
  <2>13. CASE WriteInitial(t)
    <3>1. mInitializeClient \in Clients
      BY <2>13 DEF WriteInitial
    <3>2. view' \in [Clients -> [Data -> Values \cup {NoValue}]]
      BY <2>13, <3>1, DeliverTypes DEF WriteInitial
    <3> QED BY <2>13, <3>2 DEF WriteInitial
  <2>14. CASE LockWrite(t) BY <2>14 DEF LockWrite, dataVars
  <2>15. CASE WriteDone(t) BY <2>15 DEF WriteDone
  <2>16. CASE Wake BY <2>16 DEF Wake, dataVars
  <2> QED BY <2>1, <2>2, <2>3, <2>4, <2>5, <2>6, <2>7, <2>8, <2>9, <2>10,
             <2>11, <2>12, <2>13, <2>14, <2>15, <2>16
<1>5. LockInv'
  <2> USE <1>3 DEF LockInv, TypeOK, HoldsGather, HoldsList, Initialising, Threads
  <2>1. CASE NoneWaiting BY <2>1 DEF NoneWaiting
  <2>2. CASE LockInitial BY <2>2 DEF LockInitial, BeginInitial
  <2>3. CASE LockRead BY <2>3 DEF LockRead
  <2>4. CASE ReadDone BY <2>4 DEF ReadDone
  <2>5. CASE HeartbeatsDone BY <2>5 DEF HeartbeatsDone
  <2>6. CASE t \in Gatherers /\ BeginGather(t) BY <2>6 DEF BeginGather
  <2>7. CASE t \in Gatherers /\ SetValue(t) BY <2>7 DEF SetValue, threadVars
  <2>8. CASE t \in Gatherers /\ CompleteGather(t) BY <2>8 DEF CompleteGather
  <2>9. CASE SkipDatum(t) BY <2>9 DEF SkipDatum
  <2>10. CASE SendBuffer(t) BY <2>10 DEF SendBuffer
  <2>11. CASE AppendDatum(t) BY <2>11 DEF AppendDatum
  <2>12. CASE SendDone(t) BY <2>12 DEF SendDone
  <2>13. CASE WriteInitial(t) BY <2>13 DEF WriteInitial
  <2>14. CASE LockWrite(t) BY <2>14 DEF LockWrite
  <2>15. CASE WriteDone(t) BY <2>15 DEF WriteDone
  <2>16. CASE Wake BY <2>16 DEF Wake, dataVars
  <2> QED BY <2>1, <2>2, <2>3, <2>4, <2>5, <2>6, <2>7, <2>8, <2>9, <2>10,
             <2>11, <2>12, <2>13, <2>14, <2>15, <2>16
<1>6. LoopsStayInList'
  <2> USE <1>2, <1>3 DEF LoopsStayInList, TypeOK
  <2>1. CASE LockRead \/ ReadDone
    BY <2>1 DEF LockRead, ReadDone
  <2>2. CASE LockWrite(t)
    BY <2>2 DEF LockWrite
  <2>3. CASE ~(LockRead \/ ReadDone \/ LockWrite(t))
    BY <2>3 DEF NoneWaiting, LockInitial, BeginInitial,
         HeartbeatsDone, Wake, BeginGather, SetValue, CompleteGather, SkipDatum,
         SendBuffer, AppendDatum, SendDone, WriteInitial, WriteDone, threadVars
  <2> QED BY <2>1, <2>2, <2>3
<1> QED BY <1>2, <1>4, <1>5, <1>6

\* The steps of the server thread under mListLock.
LEMMA ReadStep ==
  ASSUME ThreadInv, ReadNext \/ HeartbeatNext
  PROVE  /\ ThreadInv'
         /\ \A c \in Clients : peer'[c] = "up" => peer[c] = "up"
         /\ UNCHANGED <<mGatherLock, mListLock, pc, cursor, client,
                        mInitializeClient, dataVars>>
<1> USE ServerAssumption, ThreadedAssumption DEF ThreadInv
<1> DEFINE i == idx[ServerThread]
<1>1. ServerThread \in Threads /\ i \in Used /\ mListLock = ServerThread
  BY DEF ReadNext, HeartbeatNext, LoopsStayInList, TypeOK, ServerTypeOK, Used,
         Threads, LockInv, HoldsList
<1>2. ServerInv' /\ ServerTypeOK' /\ mNumClients' \in {mNumClients - 1, mNumClients}
  <2>1. CASE ReadNext
    BY <1>1, <2>1, ReadListed, ServerAlone DEF ReadNext, ServerInv
  <2>2. CASE HeartbeatNext
    BY <1>1, <2>2, CheckListed DEF HeartbeatNext, ServerInv
  <2> QED BY <2>1, <2>2
<1>3. UNCHANGED <<mGatherLock, mListLock, pc, cursor, ready, client,
                  mInitializeClient, dataVars>>
      /\ idx' = [idx EXCEPT ![ServerThread] = i - 1] /\ i >= 0
  BY DEF ReadNext, HeartbeatNext
<1>4. TypeOK'
  BY <1>1, <1>2, <1>3 DEF TypeOK, dataVars, Used, ServerTypeOK
<1>5. LockInv'
  BY <1>3 DEF LockInv
<1>6. LoopsStayInList'
  <2>1. \A t \in Threads : t # ServerThread => pc[t] \notin HoldsList
    BY <1>1 DEF LockInv
  <2> QED BY <1>1, <1>2, <1>3, <2>1
          DEF LoopsStayInList, HoldsList, TypeOK, Used, ServerTypeOK
<1>7. \A c \in Clients : peer'[c] = "up" => peer[c] = "up"
  <2>1. peer' \in {peer, [peer EXCEPT ![mClients[i]] = "away"]}
    <3>1. CASE ReadNext
      BY <1>1, <3>1, RemoveListed DEF ReadNext, ReadClient, serverVars, clientVars
    <3>2. CASE HeartbeatNext
      BY <1>1, <3>2, RemoveListed DEF HeartbeatNext, CheckHeartbeat, clientVars
    <3> QED BY <3>1, <3>2
  <2> QED BY <2>1 DEF ServerInv, ServerTypeOK
<1> QED BY <1>2, <1>3, <1>4, <1>5, <1>6, <1>7

\* A write of changes: it is delivered, or the client is removed.
LEMMA WriteStep ==
  ASSUME ThreadInv, NEW t \in Threads, WriteNext(t)
  PROVE  /\ ThreadInv' /\ t \in Gatherers /\ idx[t] \in Used
         /\ mListLock = t /\ mInitializeClient = NULL
         /\ \/ /\ peer' = [peer EXCEPT ![mClients[idx[t]]] = "away"]
               /\ RemoveClientInternal(mClients[idx[t]])
               /\ UNCHANGED view
            \/ Deliver(mClients[idx[t]]) /\ UNCHANGED <<mClients, mNumClients, peer>>
<1> USE ServerAssumption, ThreadedAssumption DEF ThreadInv
<1> DEFINE i == idx[t]
           c == mClients[i]
<1>1. i \in Used /\ t \in Gatherers /\ mListLock = t /\ mGatherLock = t
      /\ mInitializeClient = NULL
  BY DEF WriteNext, LoopsStayInList, TypeOK, ServerTypeOK, Used, Threads,
         LockInv, HoldsList, HoldsGather, Initialising
<1>2. c \in Clients
  BY <1>1 DEF ServerInv, ClientListExact, Listed, Open
<1>3. /\ UNCHANGED <<backlog, mGatherLock, mListLock, pc, cursor, ready, client,
                     mInitializeClient, value, changed, buffer, stamp>>
      /\ idx' = [idx EXCEPT ![t] = i - 1] /\ i >= 0
  BY DEF WriteNext
<1>4. \/ RemoveClientInternal(c) /\ UNCHANGED view
      \/ /\ Deliver(c)
         /\ UNCHANGED clientVars
  BY DEF WriteNext
<1>5. /\ ServerInv' /\ ServerTypeOK' /\ mNumClients' \in {mNumClients - 1, mNumClients}
      /\ view' \in [Clients -> [Data -> Values \cup {NoValue}]]
  <2>1. CASE RemoveClientInternal(c) /\ UNCHANGED view
    BY <1>1, <1>3, <2>1, RemoveListed DEF ServerInv, TypeOK
  <2>2. CASE Deliver(c) /\ UNCHANGED clientVars
    BY <1>2, <1>3, <2>2, DeliverTypes, ServerAlone DEF serverVars, clientVars
  <2> QED BY <1>4, <2>1, <2>2
<1>6. TypeOK'
  BY <1>1, <1>3, <1>5 DEF TypeOK, Used, ServerTypeOK
<1>7. LockInv'
  BY <1>3 DEF LockInv
<1>8. LoopsStayInList'
  <2>1. \A u \in Threads : u # t => pc[u] \notin HoldsList
    BY <1>1 DEF LockInv
  <2> QED BY <1>1, <1>3, <1>5, <2>1 DEF LoopsStayInList, HoldsList, TypeOK, Used, ServerTypeOK
<1> QED BY <1>1, <1>3, <1>4, <1>5, <1>6, <1>7, <1>8, RemoveListed DEF clientVars

\* The client that is being initialised is removed, if nobody else did.
LEMMA RemoveStep ==
  ASSUME ThreadInv, NEW t \in Threads, RemoveInitial(t)
  PROVE  /\ ThreadInv' /\ t = ServerThread
         /\ \A c \in Clients : peer'[c] = "up" => peer[c] = "up"
<1> USE ServerAssumption, ThreadedAssumption DEF ThreadInv, Goto
<1>1. t = ServerThread /\ mListLock = NULL /\ mInitializeClient \in Clients
  BY DEF RemoveInitial, LockInv, Threads, Initialising
<1>2. UNCHANGED <<mGatherLock, mListLock, cursor, idx, ready, client,
                  mInitializeClient, value, changed, stamp, view>>
      /\ pc' = [pc EXCEPT ![t] = "append"] /\ pc[t] = "remove" /\ buffer' = {}
  BY DEF RemoveInitial
<1>3. /\ ServerInv' /\ ServerTypeOK'
      /\ peer' \in {peer, [peer EXCEPT ![mInitializeClient] = "away"]}
  <2>1. CASE mInitializeClient \in Listed
    <3>1. PICK p \in Used : mClients[p] = mInitializeClient
      BY <2>1 DEF Listed
    <3>2. RemoveClientInternal(mClients[p]) /\ UNCHANGED backlog
      BY <3>1 DEF RemoveInitial
    <3>3. ServerInv' /\ peer' = [peer EXCEPT ![mClients[p]] = "away"]
      BY <3>2, RemoveListed
    <3>4. peer' = [peer EXCEPT ![mInitializeClient] = "away"]
      BY <3>1, <3>3
    <3>5. ServerTypeOK'
      BY <3>3 DEF ServerInv
    <3> QED BY <3>3, <3>4, <3>5
  <2>2. CASE mInitializeClient \notin Listed
    <3>1. Position(mInitializeClient) = mNumClients /\ mNumClients \in Nat
      BY <2>2 DEF Position, ServerInv, ServerTypeOK
    <3>2. UNCHANGED serverVars
      BY <3>1 DEF RemoveInitial, RemoveClientInternal, serverVars, clientVars
    <3> QED BY <3>2, ServerAlone DEF serverVars, clientVars
  <2> QED BY <2>1, <2>2
<1>4. TypeOK'
  BY <1>2, <1>3 DEF TypeOK, GathererPcs, ServerPcs, ThreadPcs
<1>5. LockInv'
  BY <1>1, <1>2 DEF LockInv, HoldsGather, HoldsList, Initialising, Threads, TypeOK
<1>6. LoopsStayInList'
  <2>1. \A u \in Threads : pc'[u] \notin HoldsList
    BY <1>1, <1>2, <1>5 DEF LockInv, Threads
  <2> QED BY <2>1 DEF LoopsStayInList, HoldsList
<1>7. \A c \in Clients : peer'[c] = "up" => peer[c] = "up"
  BY <1>3 DEF ServerInv, ServerTypeOK
<1> QED BY <1>1, <1>3, <1>4, <1>5, <1>6, <1>7

\* A client that is accepted is in the list, and waits for its initial data.
LEMMA AcceptStep ==
  ASSUME ThreadInv, Accept
  PROVE  /\ ThreadInv' /\ mListLock = NULL
         /\ \A c \in Clients :
              peer'[c] = "up" =>
                \/ peer[c] = "up" /\ view'[c] = view[c]
                \/ /\ pc'[ServerThread] = "lockInitial" /\ c = client'
                   /\ view'[c] = [d \in Data |-> NoValue]
<1> USE ServerAssumption, ThreadedAssumption DEF ThreadInv, Goto
<1> DEFINE c == Head(backlog)
           blank == [d \in Data |-> NoValue]
<1>1. ServerInv' /\ ServerTypeOK' /\ mListLock = NULL
  BY AddWaiting DEF Accept, ServerInv
<1>2. c \in Clients /\ peer[c] = "waiting"
  <2>1. backlog \in Seq(Clients) /\ backlog # <<>>
    BY DEF Accept, ServerInv, ServerTypeOK
  <2>2. c \in Clients
    BY <2>1
  <2>3. c = backlog[1] /\ 1 \in 1 .. Len(backlog)
    BY <2>1
  <2> QED BY <2>2, <2>3 DEF ServerInv, BacklogOK
<1>3. /\ pc[ServerThread] = "connect"
      /\ \/ /\ pc' = [pc EXCEPT ![ServerThread] = "lockInitial"] /\ client' = c
            /\ view' = [view EXCEPT ![c] = blank]
            /\ \E s \in {"up", "closed"} : peer' = [peer EXCEPT ![c] = s]
         \/ /\ pc' = [pc EXCEPT ![ServerThread] = "lockRead"]
            /\ UNCHANGED <<client, view>>
            /\ peer' = [peer EXCEPT ![c] = "away"]
      /\ UNCHANGED <<mGatherLock, mListLock, cursor, idx, ready,
                     mInitializeClient, value, changed, buffer, stamp>>
  BY DEF Accept, AddClient, Delete
<1>4. blank \in [Data -> Values \cup {NoValue}]
  OBVIOUS
<1> HIDE DEF blank
<1>5. TypeOK'
  BY <1>1, <1>2, <1>3, <1>4 DEF TypeOK, GathererPcs, ServerPcs, ThreadPcs
<1>6. LockInv'
  BY <1>2, <1>3 DEF LockInv, HoldsGather, HoldsList, Initialising, Threads, TypeOK
<1>7. LoopsStayInList'
  <2>1. \A t \in Threads : pc'[t] \notin HoldsList
    BY <1>1, <1>3, <1>6 DEF LockInv, Threads
  <2> QED BY <2>1 DEF LoopsStayInList, HoldsList
<1>8. \A x \in Clients :
        peer'[x] = "up" =>
          \/ peer[x] = "up" /\ view'[x] = view[x]
          \/ pc'[ServerThread] = "lockInitial" /\ x = client' /\ view'[x] = blank
  BY <1>2, <1>3 DEF TypeOK, ServerTypeOK, Threads
<1> QED BY <1>1, <1>5, <1>6, <1>7, <1>8 DEF blank

\* The remote ends open no connection by themselves.
LEMMA WorldStep ==
  ASSUME ThreadInv, World
  PROVE  /\ ThreadInv'
         /\ \A c \in Clients : peer'[c] = "up" => peer[c] = "up"
         /\ UNCHANGED <<mClients, mNumClients>>
<1>1. ServerInv' /\ ServerTypeOK' /\ mNumClients' = mNumClients
  BY RemoteKeepsList DEF World, ThreadInv, ServerInv
<1>2. TypeOK' /\ LockInv' /\ LoopsStayInList'
  BY <1>1 DEF World, threadVars, dataVars, ThreadInv, TypeOK, LockInv, LoopsStayInList
<1>3. (\A c \in Clients : peer'[c] = "up" => peer[c] = "up") /\ UNCHANGED mClients
  <2>1. PICK c \in Clients : Dial(c) \/ Ping(c) \/ Hangup(c) \/ Vanish(c) \/ GoLate(c)
                           \/ Stall(c) \/ Resume(c)
    BY DEF World, Remote
  <2>2. peer' \in {peer, [peer EXCEPT ![c] = "waiting"],
                   [peer EXCEPT ![c] = "closed"], [peer EXCEPT ![c] = "silent"]}
        /\ UNCHANGED mClients
    BY <2>1 DEF Dial, Ping, Hangup, Vanish, GoLate, Stall, Resume
  <2> QED BY <2>2 DEF ThreadInv, ServerInv, ServerTypeOK
<1> QED BY <1>1, <1>2, <1>3 DEF ThreadInv

-----------------------------------------------------------------------------
(* The buffer and what the clients have been sent. *)

\* Only the thread that holds mGatherLock is in a gather.
LEMMA OneHolder ==
  ASSUME ThreadInv, NEW t \in Threads, pc[t] \in HoldsGather
  PROVE  /\ mGatherLock = t /\ mGatherLock # NULL
         /\ \A u \in Threads : u # t => pc[u] \notin HoldsGather
BY ThreadedAssumption DEF ThreadInv, LockInv, Threads

\* A client is passed over by a thread that holds both locks.
LEMMA WrittenBy ==
  ASSUME ThreadInv, NEW c, Written(c)
  PROVE  \E t \in Gatherers : pc[t] = "write" /\ mGatherLock = t /\ mListLock = t
BY DEF Written, ThreadInv, LockInv, HoldsGather, HoldsList, Threads

\* The steps that touch neither the data nor what is due keep what is shown.
LEMMA SteadyStep ==
  ASSUME ThreadInv, DataInv,
         UNCHANGED <<mGatherLock, cursor, mInitializeClient, dataVars>>,
         \A t \in Gatherers : pc'[t] = pc[t],
         (pc[ServerThread] \in Initialising) <=> (pc'[ServerThread] \in Initialising),
         pc'[ServerThread] = "remove" => pc[ServerThread] = "remove",
         \A c \in Clients : peer'[c] = "up" => peer[c] = "up",
         \A c \in Clients : Pending(c) => Pending(c)',
         \A c \in Clients : Written(c)' => Written(c)
  PROVE  DataInv'
<1>1. BufferInv'
  BY DEF DataInv, BufferInv, dataVars
<1>2. ViewInv'
  <2>1. UNCHANGED <<value, changed, Buffered, view>>
    BY DEF dataVars, Buffered
  <2>2. ASSUME NEW c \in Clients, NEW d \in Data, peer'[c] = "up"
        PROVE  /\ value'[d] = NoValue => view'[c][d] = NoValue
               /\ ~Pending(c)' => view'[c][d] = value'[d] \/ Due(c, d)'
    <3>1. /\ value[d] = NoValue => view[c][d] = NoValue
          /\ ~Pending(c) => view[c][d] = value[d] \/ Due(c, d)
      BY <2>2 DEF DataInv, ViewInv
    <3>2. Due(c, d) => Due(c, d)'
      BY <2>1 DEF Due
    <3> QED BY <2>1, <3>1, <3>2
  <2>3. pc'[ServerThread] = "remove" => peer'[mInitializeClient'] # "up"
    BY DEF DataInv, ViewInv, ThreadInv, LockInv, Initialising
  <2> QED BY <2>2, <2>3 DEF ViewInv
<1> QED BY <1>1, <1>2 DEF DataInv

\* The steps of the server thread outside sendInitialData(), and the world.
LEMMA ServerData ==
  ASSUME ThreadInv, DataInv,
         \/ NoneWaiting \/ LockRead \/ ReadNext \/ ReadDone \/ HeartbeatNext
         \/ HeartbeatsDone \/ Wake \/ World
  PROVE  DataInv'
<1> USE ThreadedAssumption
<1>1. CASE NoneWaiting \/ Wake
  <2>1. UNCHANGED serverVars /\ UNCHANGED idx
        /\ \E l \in {"connect", "lockRead"} : pc' = [pc EXCEPT ![ServerThread] = l]
        /\ pc[ServerThread] \in {"connect", "sleep"}
        /\ UNCHANGED <<mGatherLock, cursor, mInitializeClient, dataVars>>
    BY <1>1 DEF NoneWaiting, Wake, Goto
  <2>2. \A t \in Gatherers : pc'[t] = pc[t]
    BY <2>1 DEF ThreadInv, TypeOK, Threads
  <2>3. pc'[ServerThread] \in {"connect", "lockRead"}
    BY <2>1 DEF ThreadInv, TypeOK, Threads
  <2>4. \A c \in Clients : Written(c)' => Written(c)
    BY <2>1, <2>2 DEF Written, serverVars, clientVars, Used
  <2> QED BY <2>1, <2>2, <2>3, <2>4, SteadyStep DEF serverVars, clientVars, Pending, Initialising
<1>2. CASE LockRead \/ ReadDone \/ HeartbeatsDone
  <2>1. /\ UNCHANGED serverVars
        /\ \E l \in {"read", "heartbeats", "sleep"} :
             pc' = [pc EXCEPT ![ServerThread] = l]
        /\ pc[ServerThread] \in {"lockRead", "read", "heartbeats"}
        /\ UNCHANGED <<mGatherLock, cursor, mInitializeClient, dataVars>>
        /\ mListLock = NULL \/ mListLock = ServerThread
    BY <1>2 DEF LockRead, ReadDone, HeartbeatsDone, Goto, ThreadInv, LockInv,
                HoldsList, Threads
  <2>2. \A t \in Gatherers : pc'[t] = pc[t]
    BY <2>1 DEF ThreadInv, TypeOK, Threads
  <2>3. pc'[ServerThread] \in {"read", "heartbeats", "sleep"}
    BY <2>1 DEF ThreadInv, TypeOK, Threads
  <2>4. \A t \in Gatherers : pc'[t] # "write"
    BY <2>1, <2>2 DEF ThreadInv, LockInv, HoldsList, Threads
  <2>5. \A c \in Clients : ~Written(c)'
    BY <2>4 DEF Written
  <2> QED BY <2>1, <2>2, <2>3, <2>5, SteadyStep DEF serverVars, clientVars, Pending, Initialising
<1>3. CASE ReadNext \/ HeartbeatNext
  <2>1. /\ UNCHANGED <<mGatherLock, mListLock, pc, cursor, client,
                       mInitializeClient, dataVars>>
        /\ \A c \in Clients : peer'[c] = "up" => peer[c] = "up"
    BY <1>3, ReadStep
  <2>2. \A t \in Gatherers : pc'[t] # "write"
    BY <1>3, <2>1 DEF ReadNext, HeartbeatNext, ThreadInv, LockInv, HoldsList, Threads
  <2>3. \A c \in Clients : ~Written(c)'
    BY <2>2 DEF Written
  <2> QED BY <2>1, <2>3, SteadyStep DEF Pending
<1>4. CASE World
  <2>1. UNCHANGED <<threadVars, dataVars, mClients, mNumClients>>
        /\ \A c \in Clients : peer'[c] = "up" => peer[c] = "up"
    BY <1>4, WorldStep DEF World
  <2>2. \A c \in Clients : Written(c)' => Written(c)
    BY <2>1 DEF Written, threadVars, Used
  <2> QED BY <2>1, <2>2, SteadyStep DEF Pending, threadVars
<1> QED BY <1>1, <1>2, <1>3, <1>4

\* Accepting a client and starting to initialise it.
LEMMA AcceptData ==
  ASSUME ThreadInv, DataInv, Accept \/ LockInitial
  PROVE  DataInv'
<1> USE ThreadedAssumption DEF Goto
<1>1. CASE Accept
  <2>1. /\ mListLock = NULL
        /\ \A c \in Clients :
             peer'[c] = "up" =>
               \/ peer[c] = "up" /\ view'[c] = view[c]
               \/ /\ pc'[ServerThread] = "lockInitial" /\ c = client'
                  /\ view'[c] = [d \in Data |-> NoValue]
    BY <1>1, AcceptStep
  <2>2. /\ pc[ServerThread] = "connect"
        /\ \E l \in {"lockInitial", "lockRead"} :
             pc' = [pc EXCEPT ![ServerThread] = l]
        /\ UNCHANGED <<mGatherLock, mListLock, cursor, mInitializeClient, value,
                       changed, buffer, stamp>>
    BY <1>1 DEF Accept
  <2>3. /\ \A t \in Gatherers : pc'[t] = pc[t]
        /\ pc'[ServerThread] \in {"lockInitial", "lockRead"}
    BY <2>2 DEF ThreadInv, TypeOK, Threads
  <2>4. BufferInv'
    BY <2>2, <2>3 DEF DataInv, BufferInv, Initialising
  <2>5. \A c \in Clients : ~Written(c)'
    BY <2>1, <2>3 DEF Written, ThreadInv, LockInv, HoldsList, Threads
  <2>6. ASSUME NEW c \in Clients, NEW d \in Data, peer'[c] = "up"
        PROVE  /\ value'[d] = NoValue => view'[c][d] = NoValue
               /\ ~Pending(c)' => view'[c][d] = value'[d] \/ Due(c, d)'
    <3>1. CASE peer[c] = "up" /\ view'[c] = view[c]
      <4>1. /\ value[d] = NoValue => view[c][d] = NoValue
            /\ view[c][d] = value[d] \/ Due(c, d)
        BY <2>2, <3>1 DEF DataInv, ViewInv, Pending
      <4>2. Due(c, d) => Due(c, d)'
        BY <2>2, <2>3, <2>5 DEF Due, Buffered, Initialising
      <4> QED BY <2>2, <3>1, <4>1, <4>2
    <3>2. CASE /\ pc'[ServerThread] = "lockInitial" /\ c = client'
               /\ view'[c] = [x \in Data |-> NoValue]
      BY <3>2 DEF Pending
    <3> QED BY <2>1, <2>6, <3>1, <3>2
  <2> QED BY <2>3, <2>4, <2>6 DEF DataInv, ViewInv
<1>2. CASE LockInitial
  <2>1. /\ pc[ServerThread] = "lockInitial" /\ mGatherLock = NULL
        /\ mGatherLock' = ServerThread /\ stamp' = ServerThread
        /\ mInitializeClient' = client
        /\ cursor' = [cursor EXCEPT ![ServerThread] = 1]
        /\ pc' = [pc EXCEPT ![ServerThread] = "append"]
        /\ UNCHANGED <<serverVars, mListLock, idx, ready, client, value, changed,
                       buffer, view>>
    BY <1>2 DEF LockInitial, BeginInitial
  <2>2. /\ \A t \in Gatherers : pc'[t] = pc[t] /\ pc[t] \notin HoldsGather
        /\ pc'[ServerThread] = "append" /\ cursor'[ServerThread] = 1
    BY <2>1 DEF ThreadInv, TypeOK, LockInv, Threads
  <2>3. buffer = {} /\ changed = {} /\ buffer' = {} /\ changed' = {}
    BY <2>1 DEF DataInv, BufferInv
  <2>4. BufferInv'
    BY <2>1, <2>2, <2>3 DEF BufferInv, HoldsGather, Threads
  <2>5. ASSUME NEW c \in Clients, NEW d \in Data, peer'[c] = "up"
        PROVE  /\ value'[d] = NoValue => view'[c][d] = NoValue
               /\ ~Pending(c)' => view'[c][d] = value'[d] \/ Due(c, d)'
    <3>1. /\ value[d] = NoValue => view[c][d] = NoValue
          /\ ~Pending(c) => view[c][d] = value[d] \/ Due(c, d)
      BY <2>1, <2>5 DEF DataInv, ViewInv, serverVars, clientVars
    <3>2. CASE c = client
      BY <2>1, <2>2, <3>1, <3>2 DEF Due, Initialising, Data
    <3>3. CASE c # client
      BY <2>1, <2>3, <3>1, <3>3 DEF Due, Pending, Buffered, Initialising
    <3> QED BY <3>2, <3>3
  <2> QED BY <2>2, <2>4, <2>5 DEF DataInv, ViewInv
<1> QED BY <1>1, <1>2

\* A gather of the device's threads: it begins with everybody in step.
LEMMA GatherData ==
  ASSUME ThreadInv, DataInv, NEW t \in Gatherers,
         BeginGather(t) \/ SetValue(t) \/ CompleteGather(t)
  PROVE  DataInv'
<1> USE ThreadedAssumption DEF Goto
<1>1. t \in Threads /\ t # ServerThread
  BY DEF Threads
<1>2. /\ \A u \in Threads : u # t => pc'[u] = pc[u] /\ pc[u] \notin HoldsGather
      /\ mGatherLock' = t /\ stamp' = t /\ mGatherLock' # NULL
  <2>1. CASE BeginGather(t)
    BY <1>1, <2>1 DEF BeginGather, ThreadInv, TypeOK, LockInv, Threads
  <2>2. CASE SetValue(t) \/ CompleteGather(t)
    <3>1. pc[t] = "set" /\ pc' \in {pc, [pc EXCEPT ![t] = "append"]}
          /\ UNCHANGED <<mGatherLock, stamp>>
      BY <2>2 DEF SetValue, CompleteGather, threadVars, dataVars
    <3>2. pc[t] \in HoldsGather
      BY <3>1 DEF HoldsGather
    <3>3. mGatherLock = t /\ mGatherLock # NULL
          /\ \A u \in Threads : u # t => pc[u] \notin HoldsGather
      BY <1>1, <3>2, OneHolder
    <3> QED BY <1>1, <3>1, <3>3 DEF ThreadInv, TypeOK, DataInv, BufferInv
  <2> QED BY <2>1, <2>2
<1>3. \A c : ~Written(c) /\ ~Written(c)'
  <2>1. pc[t] # "write" /\ pc'[t] # "write"
    BY <1>1 DEF BeginGather, SetValue, CompleteGather, threadVars, ThreadInv, TypeOK
  <2> QED BY <1>2, <2>1 DEF Written, HoldsGather, Threads
<1>4. pc'[ServerThread] = pc[ServerThread] /\ pc[ServerThread] \notin HoldsGather
      /\ UNCHANGED client /\ UNCHANGED mInitializeClient
  BY <1>1, <1>2 DEF Threads, BeginGather, SetValue, CompleteGather, threadVars
<1>5. buffer = {} /\ buffer' = {} /\ UNCHANGED <<peer, view>>
  BY DEF BeginGather, SetValue, CompleteGather, DataInv, BufferInv, serverVars, clientVars, dataVars
<1>6. \/ UNCHANGED <<value, changed>>
      \/ /\ pc[t] = "set" /\ pc' = pc
         /\ \E x \in Data, v \in Values :
              value' = [value EXCEPT ![x] = v] /\ changed' = changed \cup {x}
  BY DEF BeginGather, SetValue, CompleteGather, threadVars, dataVars
<1>7. BufferInv'
  <2>1. \A d \in changed' : value'[d] # NoValue
    BY <1>6 DEF DataInv, BufferInv, ThreadInv, TypeOK
  <2>2. pc'[t] \in {"append", "send", "write"} => \A d \in changed' : d >= cursor'[t]
    <3>1. CASE CompleteGather(t)
      BY <1>1, <3>1 DEF CompleteGather, ThreadInv, TypeOK, dataVars, Data
    <3>2. CASE BeginGather(t) \/ SetValue(t)
      <4>1. pc'[t] = "set"
        BY <1>1, <3>2 DEF BeginGather, SetValue, threadVars, ThreadInv, TypeOK
      <4> QED BY <4>1
    <3> QED BY <3>1, <3>2
  <2>3. \A u \in Gatherers : u # t => pc'[u] \notin {"set", "append", "send", "write"}
    BY <1>2 DEF Threads, HoldsGather
  <2>4. pc'[ServerThread] \notin Initialising
    BY <1>4 DEF HoldsGather, Initialising
  <2> QED BY <1>2, <1>5, <2>1, <2>2, <2>3, <2>4 DEF BufferInv
<1>8. ViewInv'
  <2>1. ASSUME NEW c \in Clients, NEW d \in Data, peer'[c] = "up"
        PROVE  /\ value'[d] = NoValue => view'[c][d] = NoValue
               /\ ~Pending(c)' => view'[c][d] = value'[d] \/ Due(c, d)'
    <3>1. /\ value[d] = NoValue => view[c][d] = NoValue
          /\ ~Pending(c) => view[c][d] = value[d] \/ d \in changed
      BY <1>4, <1>5, <2>1 DEF DataInv, ViewInv, Due, Buffered, HoldsGather, Initialising
    <3>2. d \in changed' \/ (d \notin changed /\ value'[d] = value[d])
      BY <1>6 DEF ThreadInv, TypeOK
    <3>3. value'[d] = NoValue => value[d] = NoValue
      BY <1>6 DEF ThreadInv, TypeOK
    <3>4. Pending(c) <=> Pending(c)'
      BY <1>4 DEF Pending
    <3> QED BY <1>5, <3>1, <3>2, <3>3, <3>4 DEF Due
  <2>2. pc'[ServerThread] # "remove"
    BY <1>4 DEF HoldsGather
  <2> QED BY <2>1, <2>2 DEF ViewInv
<1> QED BY <1>7, <1>8 DEF DataInv

\* The loop over the items moves an item from the changed ones to the buffer,
\* or passes one that is not to be sent.
LEMMA AppendData ==
  ASSUME ThreadInv, DataInv, NEW t \in Threads,
         SkipDatum(t) \/ SendBuffer(t) \/ AppendDatum(t)
  PROVE  DataInv'
<1> USE ThreadedAssumption DEF Goto
<1>1. /\ pc[t] = "append" /\ mGatherLock = t /\ stamp = t /\ mGatherLock # NULL
      /\ \A u \in Threads : u # t => pc[u] \notin HoldsGather
  <2>1. pc[t] = "append"
    BY DEF SkipDatum, SendBuffer, AppendDatum
  <2> QED BY <2>1, OneHolder DEF HoldsGather, DataInv, BufferInv
<1>2. /\ \E l \in {"append", "send"} : pc' = [pc EXCEPT ![t] = l]
      /\ UNCHANGED <<mGatherLock, client, mInitializeClient, value, stamp, view, peer>>
      /\ \A u \in Threads : u # t => cursor'[u] = cursor[u]
  BY <1>1 DEF SkipDatum, SendBuffer, AppendDatum, dataVars, serverVars, clientVars, ThreadInv, TypeOK
<1>3. /\ pc'[t] \in {"append", "send"}
      /\ \A u \in Threads : u # t => pc'[u] = pc[u]
  BY <1>2 DEF ThreadInv, TypeOK
<1>4. \A c : ~Written(c) /\ ~Written(c)'
  <2>1. \A u \in Gatherers : pc[u] # "write" /\ pc'[u] # "write"
    BY <1>1, <1>3 DEF Threads, HoldsGather
  <2> QED BY <2>1 DEF Written
<1>5. ServerThread \in Threads
      /\ (pc[ServerThread] \in Initialising <=> t = ServerThread)
      /\ (pc'[ServerThread] \in Initialising <=> t = ServerThread)
      /\ pc'[ServerThread] # "remove"
      /\ (mInitializeClient # NULL => t = ServerThread)
      /\ \A c : Pending(c) <=> Pending(c)'
  BY <1>1, <1>2, <1>3 DEF Threads, HoldsGather, Initialising, ThreadInv, LockInv, Pending
<1>6. CASE SendBuffer(t)
  <2>1. UNCHANGED <<cursor, changed, buffer>>
    BY <1>6 DEF SendBuffer, dataVars
  <2>2. BufferInv'
    BY <1>1, <1>2, <1>3, <1>5, <2>1
       DEF DataInv, BufferInv, HoldsGather, Threads
  <2>3. \A c \in Clients, d \in Data : Due(c, d) => Due(c, d)'
    BY <1>2, <1>4, <1>5, <2>1 DEF Due, Buffered
  <2> QED BY <1>2, <1>5, <2>2, <2>3 DEF DataInv, ViewInv
<1>7. CASE SkipDatum(t)
  <2>1. /\ UNCHANGED <<changed, buffer>>
        /\ cursor' = [cursor EXCEPT ![t] = cursor[t] + 1]
        /\ ~ToSend(t, cursor[t]) /\ cursor[t] \in Data
    BY <1>7 DEF SkipDatum, dataVars, ThreadInv, TypeOK, Data
  <2>2. cursor'[t] = cursor[t] + 1 /\ cursor \in [Threads -> 1 .. NumData + 1]
    BY <2>1 DEF ThreadInv, TypeOK
  <2>3. BufferInv'
    <3>1. t \in Gatherers => \A d \in changed' : d >= cursor'[t]
      BY <1>1, <2>1, <2>2 DEF DataInv, BufferInv, ToSend, Data, ThreadInv, TypeOK
    <3> QED BY <1>1, <1>2, <1>3, <1>5, <2>1, <3>1
            DEF DataInv, BufferInv, HoldsGather, Threads
  <2>4. ASSUME NEW c \in Clients, NEW d \in Data, peer'[c] = "up"
        PROVE  /\ value'[d] = NoValue => view'[c][d] = NoValue
               /\ ~Pending(c)' => view'[c][d] = value'[d] \/ Due(c, d)'
    <3>1. /\ value[d] = NoValue => view[c][d] = NoValue
          /\ ~Pending(c) => view[c][d] = value[d] \/ Due(c, d)
      BY <1>2, <2>4 DEF DataInv, ViewInv
    <3>2. CASE t = ServerThread /\ d = cursor[t]
      BY <1>2, <2>1, <3>1, <3>2 DEF ToSend
    <3>3. CASE ~(t = ServerThread /\ d = cursor[t])
      <4>1. Due(c, d) => Due(c, d)'
        BY <1>2, <1>4, <1>5, <2>1, <2>2, <3>3 DEF Due, Buffered, Data
      <4> QED BY <1>2, <1>5, <3>1, <4>1
    <3> QED BY <3>2, <3>3
  <2> QED BY <1>5, <2>3, <2>4 DEF DataInv, ViewInv
<1>8. CASE AppendDatum(t)
  <2>1. /\ changed' = changed \ {cursor[t]}
        /\ buffer' = buffer \cup {<<cursor[t], value[cursor[t]], t>>}
        /\ cursor' = [cursor EXCEPT ![t] = cursor[t] + 1]
        /\ ToSend(t, cursor[t]) /\ cursor[t] \in Data
    BY <1>8 DEF AppendDatum, ThreadInv, TypeOK, Data
  <2>2. cursor'[t] = cursor[t] + 1 /\ cursor \in [Threads -> 1 .. NumData + 1]
    BY <2>1 DEF ThreadInv, TypeOK
  <2>3. value[cursor[t]] \in Values
    BY <2>1 DEF ToSend, DataInv, BufferInv, ThreadInv, TypeOK
  <2>4. BufferInv'
    <3>1. t \in Gatherers => \A d \in changed' : d >= cursor'[t]
      BY <1>1, <2>1, <2>2 DEF DataInv, BufferInv, Data, ThreadInv, TypeOK
    <3>2. \A line \in buffer' :
            line[3] = stamp' /\ line[2] = value'[line[1]] /\ line[2] \in Values
      BY <1>1, <1>2, <2>1, <2>3 DEF DataInv, BufferInv
    <3> QED BY <1>1, <1>2, <1>3, <1>5, <2>1, <3>1, <3>2
            DEF DataInv, BufferInv, HoldsGather, Threads
  <2>5. Buffered' = Buffered \cup {cursor[t]}
    <3> DEFINE new == <<cursor[t], value[cursor[t]], t>>
    <3>1. new[1] = cursor[t]
      OBVIOUS
    <3> HIDE DEF new
    <3>2. buffer' = buffer \cup {new}
      BY <2>1 DEF new
    <3> QED BY <3>1, <3>2 DEF Buffered
  <2>6. ASSUME NEW c \in Clients, NEW d \in Data
        PROVE  Due(c, d) => Due(c, d)'
    <3>1. CASE d = cursor[t]
      <4>1. t # ServerThread => mInitializeClient' = NULL
        BY <1>2, <1>5
      <4>2. t = ServerThread => changed = {}
        BY <1>5 DEF DataInv, BufferInv
      <4>3. Due(c, d) => (mInitializeClient' # NULL => c = mInitializeClient')
        BY <1>2, <4>1, <4>2 DEF Due
      <4> QED BY <1>4, <2>5, <3>1, <4>3 DEF Due
    <3>2. CASE d # cursor[t]
      BY <1>2, <1>4, <1>5, <2>1, <2>2, <2>5, <3>2 DEF Due, Data
    <3> QED BY <3>1, <3>2
  <2> QED BY <1>2, <1>5, <2>4, <2>6 DEF DataInv, ViewInv
<1> QED BY <1>6, <1>7, <1>8

\* A delivery brings an open client up to the value of each item in the
\* buffer, and changes nothing else.
LEMMA Delivered ==
  ASSUME ThreadInv, BufferInv, NEW c \in Clients, Deliver(c)
  PROVE  \A x \in Clients, d \in Data :
           view'[x][d] = IF x = c /\ peer[c] = "up" /\ d \in Buffered
                         THEN value[d] ELSE view[x][d]
<1>1. ASSUME NEW d \in Data
      PROVE  /\ d \in Buffered => value[d] \in Values /\ Sent(d, value[d])
             /\ \A v : Sent(d, v) => d \in Buffered /\ v = value[d]
  <2>1. ASSUME d \in Buffered PROVE value[d] \in Values /\ Sent(d, value[d])
    <3>1. PICK line \in buffer : line[1] = d
      BY <2>1 DEF Buffered
    <3>2. line[2] = value[d] /\ line[2] \in Values
      BY <3>1 DEF BufferInv
    <3>3. line = <<line[1], line[2], line[3]>> /\ line[3] \in Threads
      BY DEF ThreadInv, TypeOK
    <3>4. <<d, value[d], line[3]>> \in buffer
      BY <3>1, <3>2, <3>3
    <3> QED BY <3>2, <3>3, <3>4 DEF Sent
  <2>2. ASSUME NEW v, Sent(d, v) PROVE d \in Buffered /\ v = value[d]
    <3>1. PICK t \in Threads : <<d, v, t>> \in buffer
      BY <2>2 DEF Sent
    <3> DEFINE line == <<d, v, t>>
    <3>2. line[1] = d /\ line[2] = v
      OBVIOUS
    <3> HIDE DEF line
    <3>3. line \in buffer
      BY <3>1 DEF line
    <3> QED BY <3>2, <3>3 DEF Buffered, BufferInv
  <2> QED BY <2>1, <2>2
<1> DEFINE sent == [d \in Data |-> IF \E v \in Values : Sent(d, v)
                                  THEN CHOOSE v \in Values : Sent(d, v)
                                  ELSE view[c][d]]
<1>2. \A d \in Data : sent[d] = IF d \in Buffered THEN value[d] ELSE view[c][d]
  <2>1. ASSUME NEW d \in Data
        PROVE  (IF \E v \in Values : Sent(d, v)
                THEN CHOOSE v \in Values : Sent(d, v)
                ELSE view[c][d]) = IF d \in Buffered THEN value[d] ELSE view[c][d]
    <3>1. CASE d \in Buffered
      <4>1. \E v \in Values : Sent(d, v)
        BY <1>1, <3>1
      <4>2. Sent(d, CHOOSE v \in Values : Sent(d, v))
        BY <4>1
      <4> QED BY <1>1, <3>1, <4>1, <4>2
    <3>2. CASE d \notin Buffered
      BY <1>1, <3>2
    <3> QED BY <3>1, <3>2
  <2> QED BY <2>1
<1>3. view' = IF peer[c] = "up" THEN [view EXCEPT ![c] = sent] ELSE view
  BY DEF Deliver
<1> HIDE DEF sent
<1> QED BY <1>2, <1>3 DEF ThreadInv, TypeOK

\* The end of a gather, or of the initial data: nothing is due any more.
LEMMA DoneData ==
  ASSUME ThreadInv, DataInv, NEW t \in Threads, SendDone(t)
  PROVE  DataInv'
<1> USE ThreadedAssumption DEF Goto
<1>1. pc[t] = "append" /\ cursor[t] > NumData /\ buffer = {}
      /\ mGatherLock' = NULL
      /\ UNCHANGED <<serverVars, cursor, client, dataVars>>
      /\ \E l \in {"lockRead", "idle"} : pc' = [pc EXCEPT ![t] = l]
  BY DEF SendDone
<1>2. \A u \in Threads : u # t => pc[u] \notin HoldsGather
  BY <1>1, OneHolder DEF HoldsGather
<1>3. pc'[t] \in {"lockRead", "idle"} /\ \A u \in Threads : u # t => pc'[u] = pc[u]
  BY <1>1 DEF ThreadInv, TypeOK
<1>4. \A u \in Threads : pc'[u] \notin HoldsGather
  BY <1>2, <1>3 DEF HoldsGather
<1>5. changed = {}
  <2>1. CASE t = ServerThread
    BY <1>1, <2>1 DEF DataInv, BufferInv, Initialising
  <2>2. CASE t # ServerThread
    <3>1. \A d \in changed : d >= cursor[t] /\ d \in Data
      BY <1>1, <2>2 DEF DataInv, BufferInv, Threads, ThreadInv, TypeOK
    <3> QED BY <1>1, <3>1 DEF Data, ThreadInv, TypeOK
  <2> QED BY <2>1, <2>2
<1>6. BufferInv'
  BY <1>1, <1>4, <1>5 DEF BufferInv, HoldsGather, Initialising, Threads, dataVars
<1>7. ASSUME NEW c \in Clients, NEW d \in Data, peer'[c] = "up"
      PROVE  /\ value'[d] = NoValue => view'[c][d] = NoValue
             /\ ~Pending(c)' => view'[c][d] = value'[d] \/ Due(c, d)'
  <2>1. ~Pending(c)' => ~Pending(c)
    BY <1>1, <1>3 DEF Pending, Threads
  <2>2. ~Due(c, d)
    <3>1. pc[ServerThread] \in Initialising => t = ServerThread
      BY <1>2 DEF Threads, HoldsGather, Initialising
    <3> QED BY <1>1, <1>5, <3>1 DEF Due, Buffered, Data, ThreadInv, TypeOK
  <2> QED BY <1>1, <1>7, <2>1, <2>2 DEF DataInv, ViewInv, dataVars, serverVars, clientVars
<1>8. pc'[ServerThread] # "remove"
  BY <1>4 DEF HoldsGather, Threads
<1> QED BY <1>6, <1>7, <1>8 DEF DataInv, ViewInv

\* The write of the initial data brings the new client up to the buffer, or
\* finds it closed or deleted; removeClient() then empties the buffer.
LEMMA InitialData ==
  ASSUME ThreadInv, DataInv, NEW t \in Threads, WriteInitial(t) \/ RemoveInitial(t)
  PROVE  DataInv'
<1> USE ThreadedAssumption DEF Goto
<1> DEFINE c0 == mInitializeClient
<1>1. /\ pc[t] \in {"send", "remove"} /\ t = ServerThread
      /\ c0 \in Clients /\ c0 = client /\ c0 # NULL
      /\ \A u \in Threads : u # t => pc[u] \notin HoldsGather
  <2>1. pc[t] \in {"send", "remove"} /\ t = ServerThread
    <3>1. CASE WriteInitial(t)
      <4>1. pc[t] = "send" /\ pc[ServerThread] \in HoldsGather
        BY <3>1 DEF WriteInitial, ThreadInv, LockInv, HoldsGather, Initialising
      <4> QED BY <4>1, OneHolder DEF HoldsGather, Threads
    <3>2. CASE RemoveInitial(t)
      BY <3>2, RemoveStep DEF RemoveInitial
    <3> QED BY <3>1, <3>2
  <2> QED BY <2>1, OneHolder, ServerAssumption
          DEF HoldsGather, ThreadInv, LockInv, Initialising
<1>2. /\ \E l \in {"append", "remove"} : pc' = [pc EXCEPT ![t] = l]
      /\ UNCHANGED <<mGatherLock, cursor, client, mInitializeClient, value, changed, stamp>>
  BY DEF WriteInitial, RemoveInitial
<1>3. /\ pc'[t] \in {"append", "remove"}
      /\ \A u \in Threads : u # t => pc'[u] = pc[u]
  BY <1>2 DEF ThreadInv, TypeOK
<1>4. \A c : ~Written(c) /\ ~Written(c)'
  <2>1. \A u \in Gatherers : pc[u] # "write" /\ pc'[u] # "write"
    BY <1>1, <1>3 DEF Threads, HoldsGather
  <2> QED BY <2>1 DEF Written
<1>5. changed = {} /\ (buffer' = {} \/ buffer' = buffer)
  BY <1>1 DEF DataInv, BufferInv, Initialising, WriteInitial, RemoveInitial
<1>6. BufferInv'
  BY <1>1, <1>2, <1>3, <1>5 DEF DataInv, BufferInv, HoldsGather, Threads
\* The new client is up to the buffer if the buffer is emptied while it is up.
<1>7. /\ \A x \in Clients : peer'[x] = "up" => peer[x] = "up"
      /\ pc'[t] = "remove" => UNCHANGED buffer /\ peer'[c0] # "up"
      /\ \A x \in Clients, d \in Data : peer'[x] = "up" =>
           /\ view'[x][d] = view[x][d] \/ (x = c0 /\ view'[x][d] = value[d])
           /\ d \in Buffered /\ x = c0 => buffer' = buffer \/ view'[x][d] = value[d]
  <2>1. CASE RemoveInitial(t)
    <3>1. peer'[c0] # "up" /\ \A x \in Clients : peer'[x] = "up" => peer[x] = "up"
      BY <1>1, <2>1, RemoveStep DEF DataInv, ViewInv, RemoveInitial
    <3>2. pc'[t] = "append" /\ UNCHANGED view
      BY <2>1 DEF RemoveInitial, ThreadInv, TypeOK
    <3> QED BY <3>1, <3>2
  <2>2. CASE WriteInitial(t) /\ c0 \in Listed /\ Deliver(c0) /\ pc' = [pc EXCEPT ![t] = "append"]
    <3>1. UNCHANGED peer /\ pc'[t] = "append"
      BY <2>2 DEF WriteInitial, serverVars, clientVars, ThreadInv, TypeOK
    <3>2. \A x \in Clients, d \in Data :
            view'[x][d] = IF x = c0 /\ peer[c0] = "up" /\ d \in Buffered
                          THEN value[d] ELSE view[x][d]
      BY <1>1, <2>2, Delivered DEF DataInv
    <3> QED BY <3>1, <3>2
  <2>3. CASE WriteInitial(t) /\ (c0 \in Listed => TRUE \in WriteFails(c0))
             /\ UNCHANGED <<buffer, view>>
    <3>1. UNCHANGED peer
      BY <2>3 DEF WriteInitial, serverVars, clientVars
    <3>2. peer[c0] # "up"
      BY <1>1, <2>3 DEF WriteFails, ThreadInv, ServerInv, ClientListExact, Open
    <3> QED BY <2>3, <3>1, <3>2
  <2> QED BY <2>1, <2>2, <2>3 DEF WriteInitial
<1>8. ASSUME NEW c \in Clients, NEW d \in Data, peer'[c] = "up"
      PROVE  /\ value'[d] = NoValue => view'[c][d] = NoValue
             /\ ~Pending(c)' => view'[c][d] = value'[d] \/ Due(c, d)'
  <2>1. /\ value[d] = NoValue => view[c][d] = NoValue
        /\ view[c][d] = value[d] \/ Due(c, d)
    BY <1>1, <1>7, <1>8 DEF DataInv, ViewInv, Pending
  <2>2. CASE view[c][d] = value[d]
    BY <1>2, <1>7, <1>8, <2>1, <2>2
  <2>3. CASE Due(c, d)
    <3>1. c = c0
      BY <1>1, <1>5, <2>3 DEF Due
    <3>2. CASE d >= cursor[ServerThread]
      <4>1. Due(c, d)'
        BY <1>1, <1>2, <1>3, <3>1, <3>2 DEF Due, Initialising
      <4> QED BY <1>2, <1>7, <1>8, <2>1, <4>1
    <3>3. CASE ~(d >= cursor[ServerThread])
      <4>1. d \in Buffered
        BY <1>5, <2>3, <3>3 DEF Due
      <4>2. buffer' = buffer => Due(c, d)'
        BY <1>2, <1>4, <3>1, <4>1 DEF Due, Buffered
      <4> QED BY <1>2, <1>7, <1>8, <2>1, <3>1, <4>1, <4>2
    <3> QED BY <3>2, <3>3
  <2> QED BY <2>1, <2>2, <2>3
<1>9. pc'[ServerThread] = "remove" => peer'[mInitializeClient'] # "up"
  BY <1>1, <1>2, <1>7
<1> QED BY <1>6, <1>8, <1>9 DEF DataInv, ViewInv

\* The loop of sendToClients() over the list.
LEMMA WriteData ==
  ASSUME ThreadInv, DataInv, NEW t \in Threads,
         LockWrite(t) \/ WriteNext(t) \/ WriteDone(t)
  PROVE  DataInv'
<1> USE ThreadedAssumption DEF Goto
<1>1. /\ pc[t] \in {"send", "write"} /\ t \in Gatherers /\ t # ServerThread
      /\ mInitializeClient = NULL
      /\ \A u \in Threads : u # t => pc[u] \notin HoldsGather
  <2>1. pc[t] \in {"send", "write"} /\ t \in Gatherers /\ mInitializeClient = NULL
    <3>1. CASE LockWrite(t)
      BY <3>1, ServerAssumption DEF LockWrite, ThreadInv, LockInv, Threads, Initialising
    <3>2. CASE WriteNext(t)
      BY <3>2, WriteStep DEF WriteNext
    <3>3. CASE WriteDone(t)
      <4>1. pc[t] = "write" /\ t # ServerThread
        BY <3>3 DEF WriteDone, ThreadInv, LockInv
      <4>2. pc[ServerThread] \notin HoldsGather
        BY <4>1, OneHolder DEF HoldsGather, Threads
      <4> QED BY <4>1, <4>2 DEF ThreadInv, LockInv, Initialising, HoldsGather, Threads
    <3> QED BY <3>1, <3>2, <3>3
  <2> QED BY <2>1, OneHolder DEF HoldsGather
<1>2. pc[ServerThread] \notin HoldsGather /\ pc'[ServerThread] = pc[ServerThread]
      /\ UNCHANGED <<mGatherLock, cursor, client, mInitializeClient, value, changed, stamp>>
      /\ \A u \in Threads : u # t => pc'[u] = pc[u]
  BY <1>1 DEF LockWrite, WriteNext, WriteDone, dataVars, ThreadInv, TypeOK, Threads
<1>3. /\ pc'[t] \in {"append", "write"}
      /\ buffer' \in {buffer, {}}
  BY DEF LockWrite, WriteNext, WriteDone, dataVars, ThreadInv, TypeOK
<1>4. BufferInv'
  BY <1>1, <1>2, <1>3 DEF DataInv, BufferInv, HoldsGather, Initialising, Threads
<1>5. \A c : /\ Written(c) <=> pc[t] = "write" /\ \E k \in Used : k > idx[t] /\ mClients[k] = c
             /\ Written(c)' <=> pc'[t] = "write" /\ \E k \in Used' : k > idx'[t] /\ mClients'[k] = c
  BY <1>1, <1>2 DEF Written, HoldsGather, Threads
<1>6. ASSUME NEW c \in Clients, NEW d \in Data, peer'[c] = "up"
      PROVE  /\ peer[c] = "up"
             /\ view'[c][d] = view[c][d] \/ view'[c][d] = value[d]
             /\ d \in Buffered /\ ~Written(c) =>
                  \/ buffer' = buffer /\ ~Written(c)'
                  \/ view'[c][d] = value[d]
  <2>1. CASE LockWrite(t)
    <3>1. UNCHANGED <<serverVars, dataVars>> /\ idx'[t] = mNumClients - 1
      BY <2>1 DEF LockWrite, ThreadInv, TypeOK
    <3>2. ~Written(c)'
      BY <1>5, <3>1 DEF Used, serverVars, clientVars, ThreadInv, ServerInv, ServerTypeOK
    <3> QED BY <1>6, <3>1, <3>2 DEF serverVars, clientVars, dataVars
  <2>2. CASE WriteNext(t)
    <3> DEFINE i == idx[t]
               x == mClients[i]
    <3>1. /\ i \in Used /\ idx'[t] = i - 1 /\ pc[t] = "write" /\ UNCHANGED buffer
          /\ x \in Clients
      BY <2>2, WriteStep DEF WriteNext, ThreadInv, TypeOK, ServerInv,
         ClientListExact, Listed, Open
    <3>2. CASE /\ peer' = [peer EXCEPT ![x] = "away"]
               /\ RemoveClientInternal(x) /\ UNCHANGED view
      <4>1. peer[c] = "up" /\ c # x
        BY <1>6, <3>1, <3>2 DEF ThreadInv, ServerInv, ServerTypeOK
      <4>2. Written(c)' => Written(c)
        <5>1. ASSUME NEW k \in Used', k > i - 1, mClients'[k] = c
              PROVE  k + 1 \in Used /\ k + 1 > i /\ mClients[k + 1] = c
          BY <3>1, <3>2, <5>1, RemovedFromList DEF ThreadInv, ServerInv, ServerTypeOK, Used
        <5> QED BY <1>5, <3>1, <5>1
      <4> QED BY <3>1, <3>2, <4>1, <4>2
    <3>3. CASE Deliver(x) /\ UNCHANGED <<mClients, mNumClients, peer>>
      <4>1. view'[c][d] = IF c = x /\ peer[x] = "up" /\ d \in Buffered
                          THEN value[d] ELSE view[c][d]
        BY <3>1, <3>3, Delivered DEF DataInv
      <4>2. c # x /\ Written(c)' => Written(c)
        <5>1. ASSUME NEW k \in Used', k > i - 1, mClients'[k] = c, c # x
              PROVE  k \in Used /\ k > i /\ mClients[k] = c
          BY <3>1, <3>3, <5>1 DEF Used
        <5> QED BY <1>5, <3>1, <5>1
      <4> QED BY <1>6, <3>1, <3>3, <4>1, <4>2
    <3> QED BY <2>2, <3>2, <3>3, WriteStep
  <2>3. CASE WriteDone(t)
    <3>1. UNCHANGED <<serverVars, view>> /\ pc[t] = "write" /\ idx[t] < 0
      BY <2>3 DEF WriteDone
    <3>2. c \in Listed
      BY <1>6, <3>1 DEF serverVars, clientVars, ThreadInv, ServerInv, ClientListExact, Open
    <3>3. Written(c)
      BY <1>5, <3>1, <3>2 DEF Listed, Used, ThreadInv, TypeOK
    <3> QED BY <1>6, <3>1, <3>3 DEF serverVars, clientVars
  <2> QED BY <2>1, <2>2, <2>3
<1>7. ASSUME NEW c \in Clients, NEW d \in Data, peer'[c] = "up"
      PROVE  /\ value'[d] = NoValue => view'[c][d] = NoValue
             /\ ~Pending(c)' => view'[c][d] = value'[d] \/ Due(c, d)'
  <2>1. /\ value[d] = NoValue => view[c][d] = NoValue
        /\ ~Pending(c) => view[c][d] = value[d] \/ Due(c, d)
    BY <1>6, <1>7 DEF DataInv, ViewInv
  <2>2. Pending(c) <=> Pending(c)'
    BY <1>2 DEF Pending
  <2>3. Due(c, d) => Due(c, d)' \/ view'[c][d] = value[d]
    <3>1. Due(c, d) => d \in changed \/ (d \in Buffered /\ ~Written(c))
      BY <1>2 DEF Due, HoldsGather, Initialising
    <3>2. buffer' = buffer => Buffered' = Buffered
      BY DEF Buffered
    <3> QED BY <1>1, <1>2, <1>6, <1>7, <3>1, <3>2 DEF Due
  <2> QED BY <1>2, <1>6, <1>7, <2>1, <2>2, <2>3
<1>8. pc'[ServerThread] # "remove"
  BY <1>2 DEF HoldsGather
<1> QED BY <1>4, <1>7, <1>8 DEF DataInv, ViewInv

-----------------------------------------------------------------------------

\* Every step keeps the locks, the list, the buffer and what is shown.
LEMMA ThreadedStep == ThreadInv /\ DataInv /\ [Next]_vars => ThreadInv' /\ DataInv'
<1> SUFFICES ASSUME ThreadInv, DataInv, [Next]_vars PROVE ThreadInv' /\ DataInv'
  OBVIOUS
<1>1. BufferInv
  BY DEF DataInv
<1>2. CASE Accept \/ LockInitial
  BY <1>1, <1>2, AcceptStep, QuietStep, AcceptData DEF Threads
<1>3. CASE NoneWaiting \/ LockRead \/ ReadNext \/ ReadDone \/ HeartbeatNext
           \/ HeartbeatsDone \/ Wake \/ World
  <2>1. ThreadInv'
    BY <1>1, <1>3, ReadStep, QuietStep, WorldStep DEF Threads
  <2> QED BY <1>3, <2>1, ServerData
<1>4. ASSUME NEW t \in Threads, Send(t) PROVE ThreadInv' /\ DataInv'
  <2>1. CASE SkipDatum(t) \/ SendBuffer(t) \/ AppendDatum(t)
    BY <1>1, <2>1, QuietStep, AppendData
  <2>2. CASE SendDone(t)
    BY <1>1, <2>2, QuietStep, DoneData
  <2>3. CASE WriteInitial(t) \/ RemoveInitial(t)
    BY <1>1, <2>3, QuietStep, RemoveStep, InitialData
  <2>4. CASE LockWrite(t) \/ WriteNext(t) \/ WriteDone(t)
    <3>1. ThreadInv'
      BY <1>1, <2>4, QuietStep, WriteStep
    <3> QED BY <2>4, <3>1, WriteData
  <2> QED BY <1>4, <2>1, <2>2, <2>3, <2>4 DEF Send
<1>5. ASSUME NEW t \in Gatherers, BeginGather(t) \/ SetValue(t) \/ CompleteGather(t)
      PROVE  ThreadInv' /\ DataInv'
  BY <1>1, <1>5, QuietStep, GatherData DEF Threads
<1>6. CASE UNCHANGED vars
  <2>1. ServerInv' /\ ServerTypeOK' /\ mNumClients' = mNumClients
    BY <1>6, ServerAlone DEF vars, ThreadInv
  <2>2. TypeOK' /\ LockInv' /\ LoopsStayInList'
    BY <1>6, <2>1 DEF vars, threadVars, dataVars, ThreadInv, TypeOK, LockInv, LoopsStayInList
  <2>3. DataInv'
    BY <1>6, SteadyStep DEF vars, serverVars, clientVars, threadVars, dataVars, Pending, Written, Used
  <2> QED BY <2>1, <2>2, <2>3 DEF ThreadInv
<1>7. ServerThread \in Threads /\ Gatherers \subseteq Threads
  BY DEF Threads
<1> QED BY <1>2, <1>3, <1>4, <1>5, <1>6, <1>7 DEF Next, ServerStep, GatherStep

LEMMA ThreadedInvariant == Spec => [](ThreadInv /\ DataInv)
BY ThreadsStart, ThreadedStep, PTL DEF Spec

\* The variables of the threads keep their types.
THEOREM ThreadedTypeCorrect == Spec => []TypeOK
<1>1. ThreadInv => TypeOK
  BY DEF ThreadInv
<1> QED BY <1>1, ThreadedInvariant, PTL

\* However many threads gather, the loops over the list of clients stay in
\* it and the list holds every open connection once (mListLock).
THEOREM ThreadsKeepList == Spec => [](LoopsStayInList /\ ClientListExact)
<1>1. ThreadInv => LoopsStayInList /\ ClientListExact
  BY DEF ThreadInv, ServerInv
<1> QED BY <1>1, ThreadedInvariant, PTL

\* No line mixes the items of two gathers or carries the time stamp of
\* another one (mGatherLock).
THEOREM LinesAreWhole == Spec => []OneGatherPerLine
<1>1. DataInv => OneGatherPerLine
  BY DEF DataInv, BufferInv, OneGatherPerLine
<1> QED BY <1>1, ThreadedInvariant, PTL

\* Between gathers every client that has its initial data is in step, for
\* any number of threads, clients and data items.
THEOREM ThreadsKeepClientsInStep == Spec => []ClientsInStep
<1>1. ThreadInv /\ DataInv => ClientsInStep
  <2> SUFFICES ASSUME ThreadInv, DataInv, mGatherLock = NULL,
                      NEW c \in Listed, peer[c] = "up", ~Pending(c)
               PROVE  view[c] = value
    BY DEF ClientsInStep, Pending
  <2>1. c \in Clients
    BY DEF ThreadInv, ServerInv, ClientListExact, Open
  <2>2. changed = {} /\ buffer = {}
    BY DEF DataInv, BufferInv
  <2>3. pc[ServerThread] \notin Initialising
    <3>1. pc[ServerThread] \notin HoldsGather
      BY ThreadedAssumption DEF ThreadInv, LockInv, Threads
    <3> QED BY <3>1 DEF HoldsGather, Initialising
  <2>4. \A d \in Data : view[c][d] = value[d]
    BY <2>1, <2>2, <2>3 DEF DataInv, ViewInv, Due, Buffered
  <2>5. view[c] \in [Data -> Values \cup {NoValue}] /\ value \in [Data -> Values \cup {NoValue}]
    BY <2>1 DEF ThreadInv, TypeOK
  <2> QED BY <2>4, <2>5
<1> QED BY <1>1, ThreadedInvariant, PTL
=============================================================================
