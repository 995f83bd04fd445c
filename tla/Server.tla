------------------------------- MODULE Server --------------------------------
(***************************************************************************)
(* The socket server of the C++ adapters (src/src/server.cpp, client.cpp): *)
(* the array of connected clients, its add and remove operations, and the  *)
(* connections themselves as the operating system keeps them.  The calls   *)
(* are made by the adapter's loop; module Adapter composes the two.        *)
(*                                                                         *)
(* A member of Clients is a connection and the Client object made for it;  *)
(* the same one may dial again after the adapter dropped it.               *)
(***************************************************************************)
EXTENDS Integers, Sequences

CONSTANTS
  Clients,      \* connections
  NULL,         \* the null pointer
  MaxClients,   \* MAX_CLIENTS, 64 in the code
  Stalling      \* the connections whose remote end may stop reading

ASSUME ServerAssumption ==
  /\ NULL \notin Clients
  /\ MaxClients \in Nat \ {0}
  /\ Stalling \subseteq Clients

VARIABLES
  mClients,     \* Client *mClients[MAX_CLIENTS + 1]
  mNumClients,
  mHeartbeats,  \* the clients that have sent a "* PING"
  late,         \* the clients whose last "* PING" is older than mTimeout
  peer,         \* the state of each connection
  backlog,      \* connections the system holds for accept(), oldest first
  pings,        \* the connections with an unread "* PING"
  stalled       \* those whose remote end is there and does not read, with
                \* no room left in the buffers between the two

clientVars == <<mClients, mNumClients, mHeartbeats, late, peer, pings, stalled>>
serverVars == <<clientVars, backlog>>

\* "away": no connection; "waiting": in the backlog; "up": accepted, both
\* ends open; "closed": accepted, the remote end has closed; "silent":
\* accepted, the remote end is gone and nothing told the adapter's host.
PeerStates == {"away", "waiting", "up", "closed", "silent"}

Slots == 0 .. MaxClients
Used == 0 .. mNumClients - 1

Listed == {mClients[k] : k \in Used}
Open == {c \in Clients : peer[c] \in {"up", "closed", "silent"}}

ServerInit ==
  /\ mClients = [k \in Slots |-> NULL]   \* not set by the constructor, not read
  /\ mNumClients = 0
  /\ mHeartbeats = {}
  /\ late = {}
  /\ peer = [c \in Clients |-> "away"]
  /\ backlog = <<>>
  /\ pings = {}
  /\ stalled = {}

-----------------------------------------------------------------------------
(* The client list.  Every operation leaves backlog alone.                 *)

\* The first slot that holds the client, or mNumClients.
Position(c) ==
  IF c \in Listed
  THEN CHOOSE k \in Used : mClients[k] = c /\ \A j \in Used : j < k => mClients[j] # c
  ELSE mNumClients

\* Mutant: memmove() starts one slot too late.
WithoutNextSlot(pos) ==
  [k \in Slots |->
     CASE k = mNumClients                -> NULL
       [] pos < k /\ k < mNumClients - 1 -> mClients[k + 1]
       [] OTHER                          -> mClients[k]]

\* memmove() closes the gap; the slot past the old end is set to 0, so the
\* last used slot keeps its old pointer.
WithoutSlot(pos) ==
  [k \in Slots |->
     CASE k = mNumClients                 -> NULL
       [] pos <= k /\ k < mNumClients - 1 -> mClients[k + 1]
       [] OTHER                           -> mClients[k]]

\* delete aClient: ~Client() closes the socket.
Delete(c) ==
  /\ peer' = [peer EXCEPT ![c] = "away"]
  /\ pings' = pings \ {c}
  /\ mHeartbeats' = mHeartbeats \ {c}
  /\ late' = late \ {c}
  /\ stalled' = stalled \ {c}

RemoveClientInternal(c) ==
  IF Position(c) < mNumClients
  THEN /\ mNumClients' = mNumClients - 1
       /\ mClients' = WithoutSlot(Position(c))
       /\ Delete(c)
  ELSE UNCHANGED clientVars

\* Mutant: one client too many is let in.
AddClientPastLimit(c) ==
  IF mNumClients <= MaxClients
  THEN /\ mClients' = [mClients EXCEPT ![mNumClients] = c]
       /\ mNumClients' = mNumClients + 1
       /\ \E s \in {"up", "closed"} : peer' = [peer EXCEPT ![c] = s]
       /\ UNCHANGED <<mHeartbeats, late, pings, stalled>>
  ELSE /\ Delete(c)
       /\ UNCHANGED <<mClients, mNumClients>>

\* connectToClients() and addClient() for the oldest waiting connection,
\* whose remote end may have closed already.  At the limit it is dropped.
AddClient(c) ==
  IF mNumClients < MaxClients
  THEN /\ mClients' = [mClients EXCEPT ![mNumClients] = c]
       /\ mNumClients' = mNumClients + 1
       /\ \E s \in {"up", "closed"} : peer' = [peer EXCEPT ![c] = s]
       /\ UNCHANGED <<mHeartbeats, late, pings, stalled>>
  ELSE /\ Delete(c)
       /\ UNCHANGED <<mClients, mNumClients>>

\* The socket blocks and has no send timeout (connectToClients() sets
\* TCP_NODELAY alone): send() does not return while the remote end is there
\* and does not read.  That it closes or is lost makes send() return.
Blocks(c) == c \in stalled

\* Mutant: a read that returns 0 is taken for nothing to read.
ReadClientPings(c) ==
  IF c \in pings
  THEN /\ pings' = pings \ {c}
       /\ mHeartbeats' = mHeartbeats \cup {c}
       /\ late' = late \ {c}
       /\ UNCHANGED <<mClients, mNumClients, peer, stalled>>
  ELSE UNCHANGED clientVars

\* A read of a client that select() reported: a "* PING" is answered, the
\* end of the stream removes the client.
ReadClient(c) ==
  CASE c \in pings ->
         /\ ~Blocks(c)   \* client->write(mPong)
         /\ pings' = pings \ {c}
         /\ mHeartbeats' = mHeartbeats \cup {c}
         /\ late' = late \ {c}
         /\ UNCHANGED <<mClients, mNumClients, peer, stalled>>
    [] c \notin pings /\ peer[c] = "closed" -> RemoveClientInternal(c)
    [] OTHER -> UNCHANGED clientVars

\* Mutant: the time since the last heartbeat is not looked at.
CheckHeartbeatAlways(c) ==
  IF c \in mHeartbeats
  THEN RemoveClientInternal(c)
  ELSE UNCHANGED clientVars

CheckHeartbeat(c) ==
  IF c \in mHeartbeats /\ c \in late
  THEN RemoveClientInternal(c)
  ELSE UNCHANGED clientVars

\* What send() can return for a connection in this state.
WriteFails(c) == {FALSE} \cup (IF peer[c] \in {"closed", "silent"} THEN {TRUE} ELSE {})

Readable == {c \in Listed : c \in pings \/ peer[c] = "closed"}

-----------------------------------------------------------------------------
(* The remote ends and the clock. *)

Dial(c) ==
  /\ peer[c] = "away"
  /\ peer' = [peer EXCEPT ![c] = "waiting"]
  /\ backlog' = Append(backlog, c)
  /\ UNCHANGED <<mClients, mNumClients, mHeartbeats, late, pings, stalled>>

Ping(c) ==
  /\ peer[c] = "up"
  /\ pings' = pings \cup {c}
  /\ UNCHANGED <<mClients, mNumClients, mHeartbeats, late, peer, backlog, stalled>>

Hangup(c) ==
  /\ peer[c] = "up"
  /\ peer' = [peer EXCEPT ![c] = "closed"]
  /\ stalled' = stalled \ {c}
  /\ UNCHANGED <<mClients, mNumClients, mHeartbeats, late, backlog, pings>>

Vanish(c) ==
  /\ peer[c] = "up"
  /\ peer' = [peer EXCEPT ![c] = "silent"]
  /\ stalled' = stalled \ {c}
  /\ UNCHANGED <<mClients, mNumClients, mHeartbeats, late, backlog, pings>>

\* mTimeout passes without a "* PING" of this client being read.
GoLate(c) ==
  /\ c \in mHeartbeats
  /\ late' = late \cup {c}
  /\ UNCHANGED <<mClients, mNumClients, mHeartbeats, peer, backlog, pings, stalled>>

\* The remote end stops reading, and the buffers fill; it reads again.
Stall(c) ==
  /\ peer[c] = "up" /\ c \in Stalling
  /\ stalled' = stalled \cup {c}
  /\ UNCHANGED <<mClients, mNumClients, mHeartbeats, late, peer, backlog, pings>>

Resume(c) ==
  /\ c \in stalled
  /\ stalled' = stalled \ {c}
  /\ UNCHANGED <<mClients, mNumClients, mHeartbeats, late, peer, backlog, pings>>

Remote ==
  \E c \in Clients :
    \/ Dial(c) \/ Ping(c) \/ Hangup(c) \/ Vanish(c) \/ GoLate(c)
    \/ Stall(c) \/ Resume(c)
-----------------------------------------------------------------------------
(* Properties, checked in Adapter's runs. *)

\* The server's variables keep their types.
ServerTypeOK ==
  /\ mClients \in [Slots -> Clients \cup {NULL}]
  /\ mNumClients \in 0 .. MaxClients
  /\ mHeartbeats \subseteq Clients
  /\ late \subseteq Clients
  /\ peer \in [Clients -> PeerStates]
  /\ backlog \in Seq(Clients)
  /\ pings \subseteq Clients
  /\ stalled \subseteq Clients

\* The used slots hold every accepted connection once and nothing else: no
\* deleted Client stays in the list, none is listed twice (it would be
\* deleted twice), and none is lost from it (its socket would leak), however
\* removals by a failed write, an end of stream and a late heartbeat
\* interleave with the remote ends (removeClientInternal, addClient).
ClientListExact ==
  /\ \A j, k \in Used : mClients[j] = mClients[k] => j = k
  /\ Listed = Open

\* No remote end stops reading for good while it stays connected.  One that
\* does keeps the thread that writes to it in send() for ever, and whoever
\* waits for the locks that thread holds (client.cpp:57, server.cpp:190).
EveryoneReads == \A c \in Clients : []<>(c \notin stalled)
=============================================================================
