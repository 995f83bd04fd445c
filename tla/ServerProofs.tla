---------------------------- MODULE ServerProofs ----------------------------
(***************************************************************************)
(* What the operations of Server do to the client list, for any set of     *)
(* connections and any limit: each of them keeps the list exact.           *)
(***************************************************************************)
EXTENDS Server, TLAPS

\* The backlog holds the waiting connections, each once.
BacklogOK ==
  /\ \A i \in 1 .. Len(backlog) : peer[backlog[i]] = "waiting"
  /\ \A i, j \in 1 .. Len(backlog) : backlog[i] = backlog[j] => i = j

ServerInv == ServerTypeOK /\ ClientListExact /\ BacklogOK

-----------------------------------------------------------------------------

\* A listed client is found in the one slot that holds it.
LEMMA PositionFound ==
  ASSUME ServerInv, NEW p \in Used
  PROVE  Position(mClients[p]) = p
BY DEF ServerInv, ServerTypeOK, ClientListExact, Position, Listed, Used

\* Closing the gap keeps the other clients, in their order.
LEMMA ShiftedSlots ==
  ASSUME ServerInv, NEW p \in Used, mClients' = WithoutSlot(p),
         mNumClients' = mNumClients - 1
  PROVE  /\ mClients' \in [Slots -> Clients \cup {NULL}]
         /\ \A j, k \in Used' : mClients'[j] = mClients'[k] => j = k
         /\ Listed' = Listed \ {mClients[p]}
<1> USE ServerAssumption DEF ServerInv, ServerTypeOK, ClientListExact, Slots, Used
<1> DEFINE from(k) == IF k < p THEN k ELSE k + 1
<1>1. /\ p \in 0 .. mNumClients - 1 /\ mNumClients \in 1 .. MaxClients
      /\ Used' = 0 .. mNumClients - 2
  OBVIOUS
<1>2. mClients' \in [Slots -> Clients \cup {NULL}]
  BY <1>1 DEF WithoutSlot
<1>3. \A k \in Used' : mClients'[k] = mClients[from(k)] /\ from(k) \in Used \ {p}
  BY <1>1 DEF WithoutSlot
<1>4. \A j, k \in Used' : from(j) = from(k) => j = k
  BY <1>1
<1>5. \A i \in Used \ {p} : \E k \in Used' : from(k) = i
  <2> SUFFICES ASSUME NEW i \in Used \ {p} PROVE \E k \in Used' : from(k) = i
    OBVIOUS
  <2>1. CASE i < p
    <3>1. i \in Used' /\ from(i) = i
      BY <2>1, <1>1
    <3> QED BY <3>1
  <2>2. CASE i > p
    <3>1. i - 1 \in Used' /\ from(i - 1) = i
      BY <2>2, <1>1
    <3> QED BY <3>1
  <2> QED BY <2>1, <2>2, <1>1
<1> HIDE DEF from
<1>6. \A j, k \in Used' : mClients'[j] = mClients'[k] => j = k
  BY <1>3, <1>4
<1>7. Listed' = Listed \ {mClients[p]}
  <2>1. Listed' = {mClients'[k] : k \in Used'}
    BY DEF Listed
  <2>2. \A x \in Listed' : x \in Listed /\ x # mClients[p]
    BY <1>3, <1>1, <2>1 DEF Listed
  <2>3. ASSUME NEW x \in Listed, x # mClients[p] PROVE x \in Listed'
    <3>1. PICK i \in Used : mClients[i] = x
      BY DEF Listed
    <3>2. PICK k \in Used' : from(k) = i
      BY <2>3, <3>1, <1>5
    <3> QED BY <3>1, <3>2, <1>3, <2>1
  <2> QED BY <2>2, <2>3
<1> QED BY <1>2, <1>6, <1>7

\* Removing a listed client takes it out of the list and of the open
\* connections, and nothing else (removeClientInternal, ~Client).
LEMMA RemoveListed ==
  ASSUME ServerInv, NEW p \in Used,
         RemoveClientInternal(mClients[p]), UNCHANGED backlog
  PROVE  /\ ServerInv'
         /\ mNumClients' = mNumClients - 1
         /\ peer' = [peer EXCEPT ![mClients[p]] = "away"]
<1> DEFINE c == mClients[p]
<1>1. c \in Clients /\ c \in Listed /\ c \in Open
  BY DEF ServerInv, ClientListExact, Listed, Open
<1>2. Position(c) = p /\ p < mNumClients
  BY PositionFound DEF Used, ServerInv, ServerTypeOK
<1>3. /\ mNumClients' = mNumClients - 1
      /\ mClients' = WithoutSlot(p)
      /\ Delete(c)
  BY <1>2 DEF RemoveClientInternal
<1>4. /\ mClients' \in [Slots -> Clients \cup {NULL}]
      /\ \A j, k \in Used' : mClients'[j] = mClients'[k] => j = k
      /\ Listed' = Listed \ {c}
  BY <1>3, ShiftedSlots
<1>5. ServerTypeOK'
  BY <1>1, <1>2, <1>3, <1>4, ServerAssumption
     DEF ServerInv, ServerTypeOK, Delete, PeerStates, Slots, Used
<1>6. Open' = Open \ {c}
  BY <1>1, <1>3 DEF Open, Delete, ServerInv, ServerTypeOK
<1>7. ClientListExact'
  BY <1>4, <1>6 DEF ClientListExact, ServerInv
<1>8. BacklogOK'
  BY <1>1, <1>3 DEF BacklogOK, Delete, ServerInv, ServerTypeOK, Open
<1> QED BY <1>3, <1>5, <1>7, <1>8 DEF ServerInv, Delete

\* The list after a removal: it loses that client, and the ones behind it
\* keep their order.
LEMMA RemovedFromList ==
  ASSUME ServerInv, NEW p \in Used, RemoveClientInternal(mClients[p])
  PROVE  \A k \in Used' : /\ k < p => mClients'[k] = mClients[k]
                          /\ k >= p => k + 1 \in Used /\ mClients'[k] = mClients[k + 1]
<1>1. Position(mClients[p]) = p
  BY PositionFound
<1>2. mClients' = WithoutSlot(p) /\ mNumClients' = mNumClients - 1
  BY <1>1 DEF RemoveClientInternal, Used, ServerInv, ServerTypeOK
<1> QED BY <1>2, ServerAssumption DEF WithoutSlot, Used, Slots, ServerInv, ServerTypeOK

\* The list as it is when a call leaves it and the connections' ends alone.
LEMMA ListUnchanged ==
  ASSUME ServerInv, UNCHANGED <<mClients, mNumClients, peer, backlog>>,
         mHeartbeats' \subseteq Clients, late' \subseteq Clients,
         pings' \subseteq Clients, stalled' \subseteq Clients
  PROVE  ServerInv'
BY DEF ServerInv, ServerTypeOK, ClientListExact, BacklogOK, Listed, Open, Used, Slots

\* The oldest waiting connection is added, or dropped when the list is full
\* (connectToClients, addClient).
LEMMA AddWaiting ==
  ASSUME ServerInv, backlog # <<>>, AddClient(Head(backlog)),
         backlog' = Tail(backlog)
  PROVE  ServerInv'
<1> DEFINE c == Head(backlog)
<1> USE ServerAssumption DEF ServerInv
<1>1. c \in Clients /\ peer[c] = "waiting" /\ backlog' \in Seq(Clients)
  BY DEF ServerTypeOK, BacklogOK
<1>2. /\ Len(backlog') = Len(backlog) - 1
      /\ \A i \in 1 .. Len(backlog') : /\ i + 1 \in 1 .. Len(backlog)
                                       /\ backlog'[i] = backlog[i + 1]
  BY DEF ServerTypeOK
<1>3. \A i \in 1 .. Len(backlog') : backlog'[i] # c
  BY <1>2 DEF ServerTypeOK, BacklogOK
<1>4. c \notin Open /\ c \notin Listed
  BY <1>1 DEF Open, ClientListExact
<1>5. CASE mNumClients < MaxClients
  <2>1. /\ mClients' = [mClients EXCEPT ![mNumClients] = c]
        /\ mNumClients' = mNumClients + 1
        /\ UNCHANGED <<mHeartbeats, late, pings, stalled>>
    BY <1>5 DEF AddClient
  <2>2. PICK s \in {"up", "closed"} : peer' = [peer EXCEPT ![c] = s]
    BY <1>5 DEF AddClient
  <2>3. /\ mNumClients \in Slots
        /\ Used' = Used \cup {mNumClients}
        /\ \A k \in Used : mClients'[k] = mClients[k]
        /\ mClients'[mNumClients] = c
    BY <1>5, <2>1 DEF ServerTypeOK, Used, Slots
  <2>4. ServerTypeOK'
    BY <1>1, <1>5, <2>1, <2>2 DEF ServerTypeOK, PeerStates, Slots
  <2>5. Listed' = Listed \cup {c}
    BY <2>3 DEF Listed
  <2>6. Open' = Open \cup {c}
    BY <1>1, <2>2 DEF Open, ServerTypeOK
  <2>7. \A k \in Used : mClients[k] # c
    BY <1>4 DEF Listed
  <2>8. ClientListExact'
    BY <2>3, <2>5, <2>6, <2>7 DEF ClientListExact
  <2>9. BacklogOK'
    BY <1>1, <1>2, <1>3, <2>2 DEF BacklogOK, ServerTypeOK
  <2> QED BY <2>4, <2>8, <2>9
<1>6. CASE ~(mNumClients < MaxClients)
  <2>1. Delete(c) /\ UNCHANGED <<mClients, mNumClients>>
    BY <1>6 DEF AddClient
  <2>2. ServerTypeOK'
    BY <1>1, <2>1 DEF Delete, ServerTypeOK, PeerStates, Slots
  <2>3. Open' = Open
    BY <1>1, <1>4, <2>1 DEF Open, Delete, ServerTypeOK
  <2>4. ClientListExact'
    BY <2>1, <2>3 DEF ClientListExact, Listed, Used
  <2>5. BacklogOK'
    BY <1>1, <1>2, <1>3, <2>1 DEF BacklogOK, Delete, ServerTypeOK
  <2> QED BY <2>2, <2>4, <2>5
<1> QED BY <1>5, <1>6

\* A read of a listed client removes at most that one (readFromClients).
LEMMA ReadListed ==
  ASSUME ServerInv, NEW p \in Used, ReadClient(mClients[p]), UNCHANGED backlog
  PROVE  ServerInv' /\ mNumClients' \in {mNumClients - 1, mNumClients}
<1> DEFINE c == mClients[p]
<1>1. CASE c \in pings
  <2>1. c \in Clients
    BY <1>1 DEF ServerInv, ServerTypeOK
  <2> QED BY <1>1, <2>1, ListUnchanged DEF ReadClient, clientVars, ServerInv, ServerTypeOK
<1>2. CASE c \notin pings /\ peer[c] = "closed"
  BY <1>2, RemoveListed DEF ReadClient
<1>3. CASE c \notin pings /\ peer[c] # "closed"
  BY <1>3, ListUnchanged DEF ReadClient, clientVars, ServerInv, ServerTypeOK
<1> QED BY <1>1, <1>2, <1>3

\* So does the check of its heartbeat.
LEMMA CheckListed ==
  ASSUME ServerInv, NEW p \in Used, CheckHeartbeat(mClients[p]), UNCHANGED backlog
  PROVE  ServerInv' /\ mNumClients' \in {mNumClients - 1, mNumClients}
<1>1. CASE mClients[p] \in mHeartbeats /\ mClients[p] \in late
  BY <1>1, RemoveListed DEF CheckHeartbeat
<1>2. CASE ~(mClients[p] \in mHeartbeats /\ mClients[p] \in late)
  BY <1>2, ListUnchanged DEF CheckHeartbeat, clientVars, ServerInv, ServerTypeOK
<1> QED BY <1>1, <1>2

\* The remote ends and the clock leave the list exact.
LEMMA RemoteKeepsList ==
  ASSUME ServerInv, Remote
  PROVE  ServerInv' /\ UNCHANGED mNumClients
<1>1. PICK c \in Clients : Dial(c) \/ Ping(c) \/ Hangup(c) \/ Vanish(c) \/ GoLate(c)
                           \/ Stall(c) \/ Resume(c)
  BY DEF Remote
<1>2. CASE Dial(c)
  <2>1. ServerTypeOK'
    BY <1>2 DEF Dial, ServerInv, ServerTypeOK, PeerStates, Slots
  <2>2. Open' = Open
    BY <1>2 DEF Dial, Open, ServerInv, ServerTypeOK
  <2>3. ClientListExact'
    BY <1>2, <2>2 DEF Dial, ClientListExact, Listed, Used, ServerInv
  <2>4. /\ Len(backlog') = Len(backlog) + 1
        /\ backlog'[Len(backlog')] = c
        /\ \A i \in 1 .. Len(backlog) : backlog'[i] = backlog[i] /\ backlog[i] # c
    BY <1>2 DEF Dial, ServerInv, ServerTypeOK, BacklogOK
  <2>5. \A i \in 1 .. Len(backlog') : peer'[backlog'[i]] = "waiting"
    BY <1>2, <2>4 DEF Dial, ServerInv, ServerTypeOK, BacklogOK
  <2>6. \A i, j \in 1 .. Len(backlog') : backlog'[i] = backlog'[j] => i = j
    BY <2>4 DEF ServerInv, ServerTypeOK, BacklogOK
  <2> QED BY <1>2, <2>1, <2>3, <2>5, <2>6 DEF Dial, ServerInv, BacklogOK
<1>3. CASE Ping(c) \/ GoLate(c) \/ Stall(c) \/ Resume(c)
  BY <1>3, ListUnchanged DEF Ping, GoLate, Stall, Resume, ServerInv, ServerTypeOK
<1>4. CASE Hangup(c) \/ Vanish(c)
  <2>1. peer[c] = "up" /\ peer' \in {[peer EXCEPT ![c] = "closed"], [peer EXCEPT ![c] = "silent"]}
        /\ stalled' = stalled \ {c}
        /\ UNCHANGED <<mClients, mNumClients, mHeartbeats, late, backlog, pings>>
    BY <1>4 DEF Hangup, Vanish
  <2>2. ServerTypeOK'
    BY <2>1 DEF ServerInv, ServerTypeOK, PeerStates, Slots
  <2>3. Open' = Open
    BY <2>1 DEF Open, ServerInv, ServerTypeOK
  <2>4. ClientListExact'
    BY <2>1, <2>3 DEF ClientListExact, Listed, Used, ServerInv
  <2>5. BacklogOK'
    BY <2>1 DEF BacklogOK, ServerInv, ServerTypeOK
  <2> QED BY <2>1, <2>2, <2>4, <2>5 DEF ServerInv
<1> QED BY <1>1, <1>2, <1>3, <1>4
=============================================================================
