--------------------------- MODULE ThreadedAdapter ---------------------------
(***************************************************************************)
(* The adapter core as it is built with THREADED: a server thread accepts  *)
(* clients, sends them the initial data and reads them                     *)
(* (Adapter::serverThread), while the threads of the device report changes *)
(* in gathers of their own (beginGather, completeGather, AutoGather).      *)
(* mGatherLock guards the data items and mBuffer, mListLock guards the     *)
(* list of clients; neither is recursive.                                  *)
(*                                                                         *)
(* One step is one iteration of a loop, or the acquisition of a lock with  *)
(* what follows it.  Nothing is assumed of what the subclass does between  *)
(* beginGather() and completeGather() but that it sets values there and    *)
(* nowhere else, which is what the two are for; gatherDeviceData(), which  *)
(* sendInitialData() calls, and periodicWork() do nothing.                 *)
(***************************************************************************)
EXTENDS Server

CONSTANTS
  ServerThread,
  Gatherers,   \* the device's threads
  NumData,     \* mNumDeviceData
  FlushData,   \* the items whose requiresFlush() is true
  Values,      \* values of a data item
  NoValue,     \* the item has no value yet
  Heartbeating \* the connections whose remote ends use heartbeats

ASSUME ThreadedAssumption ==
  /\ ServerThread \notin Gatherers
  /\ NULL \notin Gatherers \cup {ServerThread}
  /\ NumData \in Nat
  /\ FlushData \subseteq 1 .. NumData
  /\ NoValue \notin Values
  /\ Heartbeating \subseteq Clients

VARIABLES
  mGatherLock,        \* the thread that holds it, or NULL
  mListLock,
  pc,                 \* where each thread is
  cursor,             \* its i in a loop over the items
  idx,                \* its i in a loop over the clients, counting down
  ready,              \* rset after select(), in the server thread
  client,             \* the client the server thread accepted last
  mInitializeClient,
  value,              \* the value of each item
  changed,            \* the items whose mChanged is set
  buffer,             \* mBuffer: item, value and the thread that appended
  stamp,              \* the thread that set the time stamp of mBuffer
  view                \* what each remote end has been sent

dataVars == <<value, changed, buffer, stamp, view>>
threadVars == <<mGatherLock, mListLock, pc, cursor, idx, ready, client,
                mInitializeClient>>
vars == <<serverVars, threadVars, dataVars>>

Threads == Gatherers \cup {ServerThread}
Data == 1 .. NumData

Init ==
  /\ ServerInit
  /\ mGatherLock = NULL /\ mListLock = NULL
  /\ pc = [t \in Threads |-> IF t = ServerThread THEN "connect" ELSE "idle"]
  /\ cursor = [t \in Threads |-> 1]
  /\ idx = [t \in Threads |-> -1]
  /\ ready = {}
  /\ client = NULL /\ mInitializeClient = NULL
  /\ value = [d \in Data |-> NoValue]
  /\ changed = {} /\ buffer = {} /\ stamp = NULL
  /\ view = [c \in Clients |-> [d \in Data |-> NoValue]]

Goto(t, label) == pc' = [pc EXCEPT ![t] = label]

-----------------------------------------------------------------------------
(* The server thread: connectToClients() and sendInitialData().            *)

\* addClient() takes mListLock for its own length.
Accept ==
  /\ pc[ServerThread] = "connect" /\ backlog # <<>> /\ mListLock = NULL
  /\ LET c == Head(backlog) IN
       /\ AddClient(c)
       /\ IF mNumClients < MaxClients
          THEN /\ Goto(ServerThread, "lockInitial")
               /\ client' = c
               /\ view' = [view EXCEPT ![c] = [d \in Data |-> NoValue]]
          ELSE /\ Goto(ServerThread, "lockRead")
               /\ UNCHANGED <<client, view>>
  /\ backlog' = Tail(backlog)
  /\ UNCHANGED <<mGatherLock, mListLock, cursor, idx, ready,
                 mInitializeClient, value, changed, buffer, stamp>>

NoneWaiting ==
  /\ pc[ServerThread] = "connect" /\ backlog = <<>>
  /\ Goto(ServerThread, "lockRead")
  /\ UNCHANGED <<serverVars, mGatherLock, mListLock, cursor, idx, ready, client,
                 mInitializeClient, dataVars>>

\* The client is in the list while the thread waits for mGatherLock: it may
\* be sent changes, and be removed by a write of theirs that fails.
BeginInitial ==
  /\ mInitializeClient' = client
  /\ stamp' = ServerThread
  /\ cursor' = [cursor EXCEPT ![ServerThread] = 1]
  /\ Goto(ServerThread, "append")
  /\ UNCHANGED <<serverVars, mListLock, idx, ready, client, value, changed,
                 buffer, view>>

\* Mutant: sendInitialData() does not take the lock.
LockInitialNot ==
  /\ pc[ServerThread] = "lockInitial"
  /\ BeginInitial
  /\ UNCHANGED mGatherLock

LockInitial ==
  /\ pc[ServerThread] = "lockInitial" /\ mGatherLock = NULL
  /\ mGatherLock' = ServerThread
  /\ BeginInitial

-----------------------------------------------------------------------------
(* The threads of the device.                                              *)

\* beginGather().  The marks that begin() sets on conditions are module
\* Condition's.
BeginGather(t) ==
  /\ pc[t] = "idle" /\ mGatherLock = NULL
  /\ mGatherLock' = t
  /\ buffer' = {} /\ stamp' = t
  /\ Goto(t, "set")
  /\ UNCHANGED <<serverVars, mListLock, cursor, idx, ready, client,
                 mInitializeClient, value, changed, view>>

SetValue(t) ==
  /\ pc[t] = "set"
  /\ \E d \in Data, v \in Values :
       /\ value[d] # v
       /\ value' = [value EXCEPT ![d] = v]
       /\ changed' = changed \cup {d}
  /\ UNCHANGED <<serverVars, threadVars, buffer, stamp, view>>

\* completeGather() up to the loop of sendChangedData().
CompleteGather(t) ==
  /\ pc[t] = "set"
  /\ cursor' = [cursor EXCEPT ![t] = 1]
  /\ Goto(t, "append")
  /\ UNCHANGED <<serverVars, mGatherLock, mListLock, idx, ready, client,
                 mInitializeClient, dataVars>>

-----------------------------------------------------------------------------
(* The loop over the items of sendInitialData() and sendChangedData().     *)

\* Mutant: a new client is sent the changes only.
ToSendChanged(t, d) == d \in changed

ToSend(t, d) == IF t = ServerThread THEN value[d] # NoValue ELSE d \in changed

SkipDatum(t) ==
  /\ pc[t] = "append" /\ cursor[t] <= NumData /\ ~ToSend(t, cursor[t])
  /\ cursor' = [cursor EXCEPT ![t] = @ + 1]
  /\ UNCHANGED <<serverVars, mGatherLock, mListLock, pc, idx, ready, client,
                 mInitializeClient, dataVars>>

\* sendBuffer() before an item that requires it, and at the end.
SendBuffer(t) ==
  /\ pc[t] = "append" /\ buffer # {}
  /\ \/ cursor[t] \in FlushData /\ ToSend(t, cursor[t])
     \/ cursor[t] > NumData
  /\ Goto(t, "send")
  /\ UNCHANGED <<serverVars, mGatherLock, mListLock, cursor, idx, ready, client,
                 mInitializeClient, dataVars>>

AppendDatum(t) ==
  /\ pc[t] = "append" /\ cursor[t] <= NumData /\ ToSend(t, cursor[t])
  /\ cursor[t] \in FlushData => buffer = {}
  /\ buffer' = buffer \cup {<<cursor[t], value[cursor[t]], t>>}
  /\ changed' = changed \ {cursor[t]}
  /\ cursor' = [cursor EXCEPT ![t] = @ + 1]
  /\ Goto(t, IF cursor[t] \in FlushData THEN "send" ELSE "append")
  /\ UNCHANGED <<serverVars, mGatherLock, mListLock, idx, ready, client,
                 mInitializeClient, value, stamp, view>>

\* The loop ends, and with it sendInitialData() or completeGather().
SendDone(t) ==
  /\ pc[t] = "append" /\ cursor[t] > NumData /\ buffer = {}
  /\ mGatherLock' = NULL
  /\ IF t = ServerThread
     THEN mInitializeClient' = NULL /\ Goto(t, "lockRead")
     ELSE UNCHANGED mInitializeClient /\ Goto(t, "idle")
  /\ UNCHANGED <<serverVars, mListLock, cursor, idx, ready, client, dataVars>>

-----------------------------------------------------------------------------
(* sendBuffer(): sendToClient() for mInitializeClient, sendToClients() for *)
(* all, which holds mListLock.                                             *)

Sent(d, v) == \E t \in Threads : <<d, v, t>> \in buffer

Deliver(c) ==
  view' = IF peer[c] = "up"
          THEN [view EXCEPT ![c] =
                  [d \in Data |-> IF \E v \in Values : Sent(d, v)
                                  THEN CHOOSE v \in Values : Sent(d, v)
                                  ELSE view[c][d]]]
          ELSE view

\* Mutant: a write that fails is tried again.
WriteInitialAgain(t) ==
  /\ pc[t] = "send" /\ mInitializeClient # NULL
  /\ ~Blocks(mInitializeClient)
  /\ LET c == mInitializeClient IN
       \/ /\ c \in Listed /\ FALSE \in WriteFails(c)
          /\ Deliver(c)
          /\ buffer' = {}
          /\ Goto(t, "append")
       \/ /\ c \in Listed => TRUE \in WriteFails(c)
          /\ UNCHANGED <<pc, buffer, view>>
  /\ UNCHANGED <<serverVars, mGatherLock, mListLock, cursor, idx, ready, client,
                 mInitializeClient, value, changed, stamp>>

\* The lock is not needed to write to one client.  A Client that has been
\* deleted is written to all the same: its socket is closed, send() fails
\* and removeClient() does not find it.
WriteInitial(t) ==
  /\ pc[t] = "send" /\ mInitializeClient # NULL
  /\ ~Blocks(mInitializeClient)
  /\ LET c == mInitializeClient IN
       \/ /\ c \in Listed /\ FALSE \in WriteFails(c)
          /\ Deliver(c)
          /\ buffer' = {}
          /\ Goto(t, "append")
       \/ /\ c \in Listed => TRUE \in WriteFails(c)
          /\ Goto(t, "remove")
          /\ UNCHANGED <<buffer, view>>
  /\ UNCHANGED <<serverVars, mGatherLock, mListLock, cursor, idx, ready, client,
                 mInitializeClient, value, changed, stamp>>

\* removeClient(), with mListLock for its own length.
RemoveInitial(t) ==
  /\ pc[t] = "remove" /\ mListLock = NULL
  /\ RemoveClientInternal(mInitializeClient)
  /\ buffer' = {}
  /\ Goto(t, "append")
  /\ UNCHANGED <<backlog, mGatherLock, mListLock, cursor, idx, ready, client,
                 mInitializeClient, value, changed, stamp, view>>

LockWrite(t) ==
  /\ pc[t] = "send" /\ mInitializeClient = NULL /\ mListLock = NULL
  /\ mListLock' = t
  /\ idx' = [idx EXCEPT ![t] = mNumClients - 1]
  /\ Goto(t, "write")
  /\ UNCHANGED <<serverVars, mGatherLock, cursor, ready, client,
                 mInitializeClient, dataVars>>

WriteNext(t) ==
  /\ pc[t] = "write" /\ idx[t] >= 0
  /\ LET c == mClients[idx[t]] IN
       /\ ~Blocks(c)
       /\ \E fails \in WriteFails(c) :
            IF fails
            THEN RemoveClientInternal(c) /\ UNCHANGED view
            ELSE Deliver(c) /\ UNCHANGED clientVars
  /\ idx' = [idx EXCEPT ![t] = @ - 1]
  /\ UNCHANGED <<backlog, mGatherLock, mListLock, pc, cursor, ready, client,
                 mInitializeClient, value, changed, buffer, stamp>>

WriteDone(t) ==
  /\ pc[t] = "write" /\ idx[t] < 0
  /\ mListLock' = NULL
  /\ buffer' = {}
  /\ Goto(t, "append")
  /\ UNCHANGED <<serverVars, mGatherLock, cursor, idx, ready, client,
                 mInitializeClient, value, changed, stamp, view>>

-----------------------------------------------------------------------------
(* The server thread: readFromClients(), which holds mListLock.            *)

\* Mutant: readFromClients() does not take the lock.
LockReadNot ==
  /\ pc[ServerThread] = "lockRead"
  /\ ready' = Readable
  /\ idx' = [idx EXCEPT ![ServerThread] = mNumClients - 1]
  /\ Goto(ServerThread, "read")
  /\ UNCHANGED <<serverVars, mGatherLock, mListLock, cursor, client,
                 mInitializeClient, dataVars>>

\* Mutant: the loop over the clients starts past the last one.
LockReadPastEnd ==
  /\ pc[ServerThread] = "lockRead" /\ mListLock = NULL
  /\ mListLock' = ServerThread
  /\ ready' = Readable
  /\ idx' = [idx EXCEPT ![ServerThread] = mNumClients]
  /\ Goto(ServerThread, "read")
  /\ UNCHANGED <<serverVars, mGatherLock, cursor, client, mInitializeClient,
                 dataVars>>

LockRead ==
  /\ pc[ServerThread] = "lockRead" /\ mListLock = NULL
  /\ mListLock' = ServerThread
  /\ ready' = Readable
  /\ idx' = [idx EXCEPT ![ServerThread] = mNumClients - 1]
  /\ Goto(ServerThread, "read")
  /\ UNCHANGED <<serverVars, mGatherLock, cursor, client, mInitializeClient,
                 dataVars>>

\* Mutant: a client is read, and waited for, although select() did not
\* report it.
ReadNextBlocks ==
  /\ pc[ServerThread] = "read" /\ idx[ServerThread] >= 0
  /\ IF mClients[idx[ServerThread]] \in Readable
     THEN /\ ReadClient(mClients[idx[ServerThread]])
          /\ idx' = [idx EXCEPT ![ServerThread] = @ - 1]
          /\ UNCHANGED backlog
     ELSE UNCHANGED <<serverVars, idx>>
  /\ UNCHANGED <<mGatherLock, mListLock, pc, cursor, ready, client,
                 mInitializeClient, dataVars>>

ReadNext ==
  /\ pc[ServerThread] = "read" /\ idx[ServerThread] >= 0
  /\ IF mClients[idx[ServerThread]] \in ready
     THEN ReadClient(mClients[idx[ServerThread]]) /\ UNCHANGED backlog
     ELSE UNCHANGED serverVars
  /\ idx' = [idx EXCEPT ![ServerThread] = @ - 1]
  /\ UNCHANGED <<mGatherLock, mListLock, pc, cursor, ready, client,
                 mInitializeClient, dataVars>>

ReadDone ==
  /\ pc[ServerThread] = "read" /\ idx[ServerThread] < 0
  /\ ready' = {}
  /\ idx' = [idx EXCEPT ![ServerThread] = mNumClients - 1]
  /\ Goto(ServerThread, "heartbeats")
  /\ UNCHANGED <<serverVars, mGatherLock, mListLock, cursor, client,
                 mInitializeClient, dataVars>>

HeartbeatNext ==
  /\ pc[ServerThread] = "heartbeats" /\ idx[ServerThread] >= 0
  /\ CheckHeartbeat(mClients[idx[ServerThread]]) /\ UNCHANGED backlog
  /\ idx' = [idx EXCEPT ![ServerThread] = @ - 1]
  /\ UNCHANGED <<mGatherLock, mListLock, pc, cursor, ready, client,
                 mInitializeClient, dataVars>>

\* readFromClients() returns, and the thread sleeps for mScanDelay.
HeartbeatsDone ==
  /\ pc[ServerThread] = "heartbeats" /\ idx[ServerThread] < 0
  /\ mListLock' = NULL
  /\ Goto(ServerThread, "sleep")
  /\ UNCHANGED <<serverVars, mGatherLock, cursor, idx, ready, client,
                 mInitializeClient, dataVars>>

Wake ==
  /\ pc[ServerThread] = "sleep"
  /\ Goto(ServerThread, "connect")
  /\ UNCHANGED <<serverVars, mGatherLock, mListLock, cursor, idx, ready, client,
                 mInitializeClient, dataVars>>

-----------------------------------------------------------------------------
Send(t) ==
  \/ SkipDatum(t) \/ SendBuffer(t) \/ AppendDatum(t) \/ SendDone(t)
  \/ WriteInitial(t) \/ RemoveInitial(t)
  \/ LockWrite(t) \/ WriteNext(t) \/ WriteDone(t)

ServerStep ==
  \/ Accept \/ NoneWaiting \/ LockInitial
  \/ Send(ServerThread)
  \/ LockRead \/ ReadNext \/ ReadDone \/ HeartbeatNext \/ HeartbeatsDone
  \/ Wake

\* What a thread of the device does once its gather has begun.
GatherStep(t) == CompleteGather(t) \/ Send(t)

World ==
  /\ Remote
  /\ pings' \subseteq Heartbeating
  /\ UNCHANGED <<threadVars, dataVars>>

Next ==
  \/ ServerStep
  \/ \E t \in Gatherers : BeginGather(t) \/ SetValue(t) \/ GatherStep(t)
  \/ World

Spec == Init /\ [][Next]_vars

\* A thread runs when nothing keeps it.  A send() that blocks goes on when the
\* remote end reads again.  A mutex promises no thread its turn: all that is
\* assumed is that a gather that waits for mListLock takes it while the server
\* thread, the only other one that wants it then, sleeps between its turns.
FairSpec ==
  /\ Spec
  /\ WF_vars(ServerStep)
  /\ SF_vars(WriteInitial(ServerThread) \/ WriteNext(ServerThread) \/ ReadNext)
  /\ \A t \in Gatherers :
       /\ WF_vars(GatherStep(t))
       /\ SF_vars(WriteNext(t))
       /\ SF_vars(pc[ServerThread] = "sleep" /\ LockWrite(t))

-----------------------------------------------------------------------------
(* Properties. *)

ThreadPcs == {"append", "send", "remove", "write"}
GathererPcs == {"idle", "set"} \cup ThreadPcs
ServerPcs ==
  {"connect", "lockInitial", "lockRead", "read", "heartbeats", "sleep"} \cup ThreadPcs

\* The server's and the threads' variables keep their types.
TypeOK ==
  /\ ServerTypeOK
  /\ mGatherLock \in Threads \cup {NULL} /\ mListLock \in Threads \cup {NULL}
  /\ pc \in [Threads -> GathererPcs \cup ServerPcs]
  /\ cursor \in [Threads -> 1 .. NumData + 1]
  /\ idx \in [Threads -> -1 .. MaxClients - 1]
  /\ ready \subseteq Clients
  /\ client \in Clients \cup {NULL} /\ mInitializeClient \in Clients \cup {NULL}
  /\ value \in [Data -> Values \cup {NoValue}]
  /\ changed \subseteq Data
  /\ buffer \subseteq Data \X Values \X Threads
  /\ stamp \in Threads \cup {NULL}
  /\ view \in [Clients -> [Data -> Values \cup {NoValue}]]

\* No loop over the clients looks at a slot past the end of the list, also
\* when another thread removes clients (server.cpp:110, 190, 270).
LoopsStayInList ==
  \A t \in Threads :
    pc[t] \in {"write", "read", "heartbeats"} /\ idx[t] >= 0 => idx[t] < mNumClients

\* A line is the work of one thread, under the time stamp of its own gather,
\* whichever threads gather while a client is sent its initial data
\* (adapter.cpp:297, 351).
OneGatherPerLine == \A line \in buffer : line[3] = stamp

\* When no gather is under way every client that has been sent its initial
\* data has the current values: the initial data takes nothing from the
\* others, and no change falls between it and the first gather after it.
ClientsInStep ==
  mGatherLock = NULL =>
    \A c \in Listed :
      \/ peer[c] # "up"
      \/ pc[ServerThread] = "lockInitial" /\ c = client
      \/ view[c] = value

\* Every gather ends, with its changes sent, as long as everyone reads: no
\* thread waits for a lock that it holds itself (removeClient() and the loops
\* of server.cpp), nor two for each other's.
GatherCompletes ==
  EveryoneReads => \A t \in Gatherers : pc[t] = "set" ~> pc[t] = "idle"

\* From some time on the device's threads have nothing to report.
DevicesQuiet == <>[](\A t \in Gatherers : pc[t] = "idle")

\* A client that was accepted is sent its initial data when everyone reads and
\* the device's threads let go of mGatherLock in the end: the server thread
\* does not hang on what they and the failures of the client leave behind.  No
\* code promises it the lock against threads that take it again and again.
InitialDataSent ==
  EveryoneReads /\ DevicesQuiet =>
    (pc[ServerThread] = "lockInitial" ~> pc[ServerThread] = "lockRead")
=============================================================================
