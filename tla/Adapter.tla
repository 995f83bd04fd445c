------------------------------- MODULE Adapter -------------------------------
(***************************************************************************)
(* The main loop of the C++ adapters (src/src/adapter.cpp), single         *)
(* threaded as the Fanuc and most other products are built: accept at most *)
(* one client and send it the initial data, read the clients, and when     *)
(* there is a client gather the device's data and send what changed.       *)
(*                                                                         *)
(* One step is one iteration of a loop over clients or data items, or one  *)
(* call between two of them: the remote ends (module Server) act between   *)
(* any two steps.  Data items are 1 .. NumData in the order of             *)
(* mDeviceData; a value is opaque.  The mark and sweep of conditions is    *)
(* module Condition.  Text formatting and the time stamps are left out.    *)
(***************************************************************************)
EXTENDS Server

CONSTANTS
  NumData,     \* mNumDeviceData
  FlushData,   \* the items whose requiresFlush() is true
  Values,      \* values of a data item
  NoValue      \* the item has no value yet: mHasValue is false

ASSUME AdapterAssumption ==
  /\ NumData \in Nat
  /\ FlushData \subseteq 1 .. NumData
  /\ NoValue \notin Values

VARIABLES
  pc,                 \* where the loop is
  idx,                \* i of the loop over clients that runs, counting down
  ready,              \* rset after select()
  mInitializeClient,
  value,              \* the value of each item
  changed,            \* the items whose mChanged is set
  cursor,             \* i of the loop over items
  buffer,             \* mBuffer: the item and value of each line
  flush,              \* flush() in the gather: "none", "running", "done"
  view,               \* what each remote end has been sent
  newest,             \* the client accepted last
  fresh,              \* the items the running scan found changed
  told                \* clientsDisconnected() was called since the last scan

loopVars == <<pc, idx, ready, mInitializeClient, value, changed, cursor,
              buffer, flush, view, newest, fresh, told>>
vars == <<serverVars, loopVars>>

Data == 1 .. NumData

Init ==
  /\ ServerInit
  /\ pc = "connect"
  /\ idx = -1
  /\ ready = {}
  /\ mInitializeClient = NULL
  /\ value = [d \in Data |-> NoValue]
  /\ changed = {}
  /\ cursor = 1
  /\ buffer = {}
  /\ flush = "none"
  /\ view = [c \in Clients |-> [d \in Data |-> NoValue]]
  /\ newest = NULL
  /\ fresh = {}
  /\ told = FALSE

-----------------------------------------------------------------------------
(* Accepting a client. *)

\* connectToClients(): a client for whom there is no room is dropped.
Accept ==
  /\ pc = "connect" /\ backlog # <<>>
  /\ LET c == Head(backlog) IN
       /\ AddClient(c)
       /\ IF mNumClients < MaxClients
          THEN /\ pc' = "initGather"
               /\ mInitializeClient' = c
               /\ newest' = c
               /\ view' = [view EXCEPT ![c] = [d \in Data |-> NoValue]]
          ELSE /\ pc' = "select"
               /\ UNCHANGED <<mInitializeClient, newest, view>>
  /\ backlog' = Tail(backlog)
  /\ UNCHANGED <<idx, ready, value, changed, cursor, buffer, flush, fresh,
                 told>>

NoneWaiting ==
  /\ pc = "connect" /\ backlog = <<>>
  /\ pc' = "select"
  /\ UNCHANGED <<serverVars, idx, ready, mInitializeClient, value, changed,
                 cursor, buffer, flush, view, newest, fresh, told>>

\* gatherDeviceData(): items read from the device take their value, and are
\* changed when it differs from the last one; others are left alone.
GatherDeviceData ==
  /\ value' \in [Data -> Values \cup {NoValue}]
  /\ \A d \in Data : value'[d] = NoValue => value[d] = NoValue
  /\ changed' = changed \cup {d \in Data : value'[d] # value[d]}

\* sendInitialData(): the gather for the new client, without begin() and
\* with flush() disabled.
GatherInitial ==
  /\ pc = "initGather"
  /\ GatherDeviceData
  /\ cursor' = 1
  /\ pc' = "append"
  /\ UNCHANGED <<serverVars, idx, ready, mInitializeClient, buffer, flush,
                 view, newest, fresh, told>>

-----------------------------------------------------------------------------
(* sendInitialData() and sendChangedData(): the loop over the items.       *)
(* sendDatum() sends the buffer before and after an item that requires it. *)

\* Mutant: a new client is sent the changes only.
ToSendChanged(d) == d \in changed

ToSend(d) ==
  IF mInitializeClient # NULL THEN value[d] # NoValue ELSE d \in changed

\* Mutant: the loop over the clients starts at the end of the list.
StartWritePastEnd ==
  /\ pc' = "write"
  /\ idx' = mNumClients

StartWrite ==
  /\ pc' = "write"
  /\ idx' = mNumClients - 1

SkipDatum ==
  /\ pc = "append" /\ cursor <= NumData /\ ~ToSend(cursor)
  /\ cursor' = cursor + 1
  /\ UNCHANGED <<serverVars, pc, idx, ready, mInitializeClient, value, changed,
                 buffer, flush, view, newest, fresh, told>>

FlushBefore ==
  /\ pc = "append" /\ cursor \in FlushData /\ ToSend(cursor) /\ buffer # {}
  /\ StartWrite
  /\ UNCHANGED <<serverVars, ready, mInitializeClient, value, changed, cursor,
                 buffer, flush, view, newest, fresh, told>>

AppendDatum ==
  /\ pc = "append" /\ cursor <= NumData /\ ToSend(cursor)
  /\ cursor \in FlushData => buffer = {}
  /\ buffer' = buffer \cup {<<cursor, value[cursor]>>}
  /\ changed' = changed \ {cursor}
  /\ cursor' = cursor + 1
  /\ IF cursor \in FlushData THEN StartWrite ELSE UNCHANGED <<pc, idx>>
  /\ UNCHANGED <<serverVars, ready, mInitializeClient, value, flush, view,
                 newest, fresh, told>>

FlushRest ==
  /\ pc = "append" /\ cursor > NumData /\ buffer # {}
  /\ StartWrite
  /\ UNCHANGED <<serverVars, ready, mInitializeClient, value, changed, cursor,
                 buffer, flush, view, newest, fresh, told>>

\* The loop over the items ends.  After the initial data the clients are
\* read; after a flush() in the gather the gather goes on; after the changed
\* data the next turn of the loop starts.
SendDone ==
  /\ pc = "append" /\ cursor > NumData /\ buffer = {}
  /\ CASE mInitializeClient # NULL ->
            pc' = "select" /\ mInitializeClient' = NULL /\ UNCHANGED flush
       [] mInitializeClient = NULL /\ flush = "running" ->
            pc' = "gather" /\ flush' = "done" /\ UNCHANGED mInitializeClient
       [] OTHER ->
            pc' = "connect" /\ UNCHANGED <<flush, mInitializeClient>>
  /\ UNCHANGED <<serverVars, idx, ready, value, changed, cursor, buffer, view,
                 newest, fresh, told>>

-----------------------------------------------------------------------------
(* sendBuffer(): to the client that is being initialised, or to all.       *)

Deliver(c) ==
  view' = IF peer[c] = "up"
          THEN [view EXCEPT ![c] =
                  [d \in Data |-> IF \E v \in Values : <<d, v>> \in buffer
                                  THEN CHOOSE v \in Values : <<d, v>> \in buffer
                                  ELSE view[c][d]]]
          ELSE view

\* Client::write() and what sendToClient() and sendToClients() make of it:
\* nothing while send() blocks.
WriteTo(c) ==
  /\ ~Blocks(c)
  /\ \E fails \in WriteFails(c) :
       IF fails
       THEN RemoveClientInternal(c) /\ UNCHANGED view
       ELSE Deliver(c) /\ UNCHANGED clientVars

WrittenAll ==
  /\ pc' = "append"
  /\ buffer' = {}

\* A client deleted by an earlier write of the same sendInitialData() is
\* still written to: its socket is closed, so send() fails and removeClient()
\* does not find it.
WriteInitial ==
  /\ pc = "write" /\ mInitializeClient # NULL
  /\ IF mInitializeClient \in Listed
     THEN WriteTo(mInitializeClient) /\ UNCHANGED backlog
     ELSE UNCHANGED <<serverVars, view>>
  /\ WrittenAll
  /\ UNCHANGED <<idx, ready, mInitializeClient, value, changed, cursor, flush,
                 newest, fresh, told>>

\* Mutant: the loop skips a client after it removed one.
WriteNextSkips ==
  /\ pc = "write" /\ mInitializeClient = NULL /\ idx >= 0
  /\ WriteTo(mClients[idx])
  /\ idx' = IF mNumClients' < mNumClients /\ idx > 0 THEN idx - 2 ELSE idx - 1
  /\ UNCHANGED <<backlog, pc, ready, mInitializeClient, value, changed, cursor,
                 buffer, flush, newest, fresh, told>>

WriteNext ==
  /\ pc = "write" /\ mInitializeClient = NULL /\ idx >= 0
  /\ WriteTo(mClients[idx])
  /\ idx' = idx - 1
  /\ UNCHANGED <<backlog, pc, ready, mInitializeClient, value, changed, cursor,
                 buffer, flush, newest, fresh, told>>

WriteDone ==
  /\ pc = "write" /\ mInitializeClient = NULL /\ idx < 0
  /\ WrittenAll
  /\ UNCHANGED <<serverVars, idx, ready, mInitializeClient, value, changed,
                 cursor, flush, view, newest, fresh, told>>

-----------------------------------------------------------------------------
(* readFromClients(): select(), the loop that reads, the loop that checks  *)
(* the heartbeats, both from the last client to the first.                 *)

Select ==
  /\ pc = "select"
  /\ ready' = Readable
  /\ idx' = mNumClients - 1
  /\ pc' = "read"
  /\ UNCHANGED <<serverVars, mInitializeClient, value, changed, cursor, buffer,
                 flush, view, newest, fresh, told>>

ReadNext ==
  /\ pc = "read" /\ idx >= 0
  /\ IF mClients[idx] \in ready
     THEN ReadClient(mClients[idx]) /\ UNCHANGED backlog
     ELSE UNCHANGED serverVars
  /\ idx' = idx - 1
  /\ UNCHANGED <<pc, ready, mInitializeClient, value, changed, cursor, buffer,
                 flush, view, newest, fresh, told>>

\* Mutant: the heartbeat of the last client is never looked at.
ReadDoneOneShort ==
  /\ pc = "read" /\ idx < 0
  /\ ready' = {}
  /\ idx' = IF mNumClients > 0 THEN mNumClients - 2 ELSE -1
  /\ pc' = "heartbeats"
  /\ UNCHANGED <<serverVars, mInitializeClient, value, changed, cursor, buffer,
                 flush, view, newest, fresh, told>>

ReadDone ==
  /\ pc = "read" /\ idx < 0
  /\ ready' = {}
  /\ idx' = mNumClients - 1
  /\ pc' = "heartbeats"
  /\ UNCHANGED <<serverVars, mInitializeClient, value, changed, cursor, buffer,
                 flush, view, newest, fresh, told>>

HeartbeatNext ==
  /\ pc = "heartbeats" /\ idx >= 0
  /\ CheckHeartbeat(mClients[idx]) /\ UNCHANGED backlog
  /\ idx' = idx - 1
  /\ UNCHANGED <<pc, ready, mInitializeClient, value, changed, cursor, buffer,
                 flush, view, newest, fresh, told>>

HasClients == mNumClients > 0

\* Gather for whoever is connected; else ask hasClients() whether to call
\* clientsDisconnected(), and sleep.
Decide ==
  /\ pc = "heartbeats" /\ idx < 0
  /\ IF mNumClients > 0
     THEN pc' = "gather" /\ flush' = "none" /\ fresh' = {} /\ told' = FALSE
     ELSE pc' = "unread" /\ told' = (told \/ HasClients) /\ UNCHANGED <<flush, fresh>>
  /\ UNCHANGED <<serverVars, idx, ready, mInitializeClient, value, changed,
                 cursor, buffer, view, newest>>

\* Mutant: an idle adapter no longer looks for new clients.
SleepDeaf ==
  /\ pc = "unread"
  /\ pc' = "select"
  /\ UNCHANGED <<serverVars, idx, ready, mInitializeClient, value, changed,
                 cursor, buffer, flush, view, newest, fresh, told>>

\* sleepMs() when nobody was there to read.
Sleep ==
  /\ pc = "unread"
  /\ pc' = "connect"
  /\ UNCHANGED <<serverVars, idx, ready, mInitializeClient, value, changed,
                 cursor, buffer, flush, view, newest, fresh, told>>

\* The gather of a scan.  A device that comes or goes makes it call flush()
\* once before it returns (unavailable(), initializeDeviceDatum()).
StartSend ==
  /\ pc = "gather"
  /\ GatherDeviceData
  /\ fresh' = fresh \cup changed'
  /\ cursor' = 1
  /\ pc' = "append"

FlushInGather ==
  /\ flush = "none"
  /\ StartSend
  /\ flush' = "running"
  /\ UNCHANGED <<serverVars, idx, ready, mInitializeClient, buffer, view,
                 newest, told>>

Gather ==
  /\ StartSend
  /\ flush' = "done"
  /\ UNCHANGED <<serverVars, idx, ready, mInitializeClient, buffer, view,
                 newest, told>>

-----------------------------------------------------------------------------
Loop ==
  \/ Accept \/ NoneWaiting \/ GatherInitial
  \/ SkipDatum \/ FlushBefore \/ AppendDatum \/ FlushRest \/ SendDone
  \/ WriteInitial \/ WriteNext \/ WriteDone
  \/ Select \/ ReadNext \/ ReadDone \/ HeartbeatNext \/ Decide \/ Sleep
  \/ FlushInGather \/ Gather

World == Remote /\ UNCHANGED loopVars

Next == Loop \/ World

Spec == Init /\ [][Next]_vars

\* Nothing but a send() can keep the loop from its next step: a write of the
\* initial data, one of sendToClients(), or a "* PONG".
Sends == WriteInitial \/ WriteNext \/ ReadNext

\* The thread of the loop runs, and a send() that blocks goes on when the
\* remote end reads again.  Time passes for a client that is silent.  No
\* remote end need do anything, and none need read.
FairSpec ==
  /\ Spec
  /\ WF_vars(Loop)
  /\ SF_vars(Sends)
  /\ \A c \in Clients : WF_vars(peer[c] = "silent" /\ GoLate(c) /\ UNCHANGED loopVars)

-----------------------------------------------------------------------------
(* Properties. *)

\* The server's and the loop's variables keep their types.
TypeOK ==
  /\ ServerTypeOK
  /\ pc \in {"connect", "initGather", "append", "write", "select", "read",
             "heartbeats", "gather", "unread"}
  /\ idx \in -1 .. MaxClients - 1
  /\ ready \subseteq Clients
  /\ mInitializeClient \in Clients \cup {NULL}
  /\ value \in [Data -> Values \cup {NoValue}]
  /\ changed \subseteq Data
  /\ cursor \in 1 .. NumData + 1
  /\ buffer \subseteq Data \X Values
  /\ flush \in {"none", "running", "done"}
  /\ view \in [Clients -> [Data -> Values \cup {NoValue}]]
  /\ newest \in Clients \cup {NULL}
  /\ fresh \subseteq Data
  /\ told \in BOOLEAN

\* The loops that remove clients while they run never look at a slot past
\* the end of the list ("lists should always be iterated from last to
\* first", server.cpp:264-267).
LoopsStayInList ==
  pc \in {"write", "read", "heartbeats"} /\ idx >= 0 => idx < mNumClients

\* An open client is only ever dropped for a heartbeat it missed, never in
\* the place of another one (the slot an index names moves in a removal).
OnlyLateDropped ==
  [][\A c \in Clients :
       peer[c] = "up" /\ peer'[c] = "away" => c \in mHeartbeats /\ c \in late]_vars

\* The client accepted last has been sent the current value of every item:
\* the initial data and the changes since then leave no gap between them.
NewestInStep ==
  pc \in {"connect", "select", "read", "heartbeats"} =>
    (newest \in Listed /\ peer[newest] = "up" => view[newest] = value)

\* What a scan found changed has reached every open client when the scan
\* ends, also when clients are removed while it is being sent or when the
\* gather flushed half way.
ScanReachesAll ==
  pc = "connect" =>
    \A c \in Listed, d \in fresh : peer[c] = "up" => view[c][d] = value[d]

\* "send the data values that have changed to the clients"
\* (adapter.cpp:224): between two turns of the loop every open client has
\* the current values.
EveryClientInStep ==
  pc = "connect" => \A c \in Listed : peer[c] = "up" => view[c] = value

\* "Overload this method to handle situation when all clients disconnect"
\* (adapter.hpp:130), as OpcAdapter does to end its process: when the loop
\* finds that everybody left, it is called.
DisconnectNoticed == pc = "unread" /\ newest # NULL => told

\* Every connection attempt is accepted or refused, as long as everyone reads.
AcceptedEventually ==
  EveryoneReads => \A c \in Clients : peer[c] = "waiting" ~> peer[c] # "waiting"

\* A client that closed its end is removed, as long as the others read.
ClosedRemoved ==
  EveryoneReads => \A c \in Clients : peer[c] = "closed" ~> peer[c] # "closed"

\* A client that used heartbeats and vanished is removed, although no read
\* or write ever has to report it, as long as those that are there read.
SilentRemoved ==
  EveryoneReads =>
    \A c \in Clients :
      peer[c] = "silent" /\ c \in mHeartbeats ~> peer[c] # "silent"
=============================================================================
