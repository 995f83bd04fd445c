---------------------------- MODULE AdapterProofs ----------------------------
(***************************************************************************)
(* Proofs about Adapter for any set of clients, any limit, any number of   *)
(* data items and any values: the type invariant, the exact client list,   *)
(* the bounds of the loops over it, that nobody else is dropped for a      *)
(* client that fails, that the newest client is in step, and that a scan   *)
(* reaches every client.                                                   *)
(***************************************************************************)
EXTENDS Adapter, ServerProofs

\* A changed item has a value: it is what makes its line one of a value.
ChangedHasValue == \A d \in changed : value[d] # NoValue

\* The exact list is inductive with the backlog of ServerInv (a client that
\* is added is not open yet) and with the bound of the running loop (the
\* client a loop looks at is a listed one).
AdapterInv == TypeOK /\ ServerInv /\ LoopsStayInList /\ ChangedHasValue

-----------------------------------------------------------------------------

\* The loop starts with nobody listed and nothing changed.
LEMMA AdapterInit == Init => AdapterInv
<1> SUFFICES ASSUME Init PROVE AdapterInv
  OBVIOUS
<1> USE ServerAssumption, AdapterAssumption DEF Init, ServerInit
<1>1. Used = {} /\ Open = {}
  BY DEF Used, Open
<1>2. Listed = {}
  BY <1>1 DEF Listed
<1>3. ServerTypeOK
  BY DEF ServerTypeOK, PeerStates, Slots
<1>4. ServerInv
  BY <1>1, <1>2, <1>3 DEF ServerInv, ClientListExact, BacklogOK
<1>5. value \in [Data -> Values \cup {NoValue}] /\ view = [c \in Clients |-> value]
  OBVIOUS
<1>6. view \in [Clients -> [Data -> Values \cup {NoValue}]]
  BY <1>5
<1>7. idx \in -1 .. MaxClients - 1 /\ cursor \in 1 .. NumData + 1
  OBVIOUS
<1>8. TypeOK
  <2> HIDE DEF ServerInit
  <2> QED BY <1>3, <1>5, <1>6, <1>7 DEF TypeOK
<1>9. LoopsStayInList /\ ChangedHasValue
  BY DEF LoopsStayInList, ChangedHasValue
<1> QED BY <1>4, <1>8, <1>9 DEF AdapterInv

\* A step of the loop that leaves the server alone.
LEMMA ServerUntouched ==
  ASSUME ServerInv, UNCHANGED serverVars
  PROVE  ServerInv' /\ UNCHANGED mNumClients
BY ListUnchanged DEF serverVars, clientVars, ServerInv, ServerTypeOK

\* The gather: items keep or take a value.
LEMMA GatherKeepsTypes ==
  ASSUME TypeOK, ChangedHasValue, GatherDeviceData
  PROVE  /\ value' \in [Data -> Values \cup {NoValue}]
         /\ changed' \subseteq Data
         /\ ChangedHasValue'
<1>1. value' \in [Data -> Values \cup {NoValue}] /\ changed' \subseteq Data
  BY DEF GatherDeviceData, TypeOK
<1>2. ChangedHasValue'
  BY DEF GatherDeviceData, TypeOK, ChangedHasValue
<1> QED BY <1>1, <1>2

\* What a remote end has been sent is a value of each item.
LEMMA DeliverKeepsTypes ==
  ASSUME TypeOK, NEW c, Deliver(c)
  PROVE  view' \in [Clients -> [Data -> Values \cup {NoValue}]]
<1> DEFINE sent == [d \in Data |-> IF \E v \in Values : <<d, v>> \in buffer
                                  THEN CHOOSE v \in Values : <<d, v>> \in buffer
                                  ELSE view[c][d]]
<1>1. ASSUME c \in Clients PROVE sent \in [Data -> Values \cup {NoValue}]
  BY <1>1 DEF TypeOK
<1>2. view' = IF peer[c] = "up" THEN [view EXCEPT ![c] = sent] ELSE view
  BY DEF Deliver
<1> HIDE DEF sent
<1>3. CASE c \in Clients
  BY <1>1, <1>2, <1>3 DEF TypeOK
<1>4. CASE c \notin Clients
  <2>1. view' = view
    BY <1>2, <1>4 DEF TypeOK
  <2> QED BY <2>1 DEF TypeOK
<1> QED BY <1>3, <1>4

\* A write to a listed client removes at most that one.
LEMMA WriteListed ==
  ASSUME TypeOK, ServerInv, NEW p \in Used, WriteTo(mClients[p]), UNCHANGED backlog
  PROVE  /\ ServerInv'
         /\ mNumClients' \in {mNumClients - 1, mNumClients}
         /\ view' \in [Clients -> [Data -> Values \cup {NoValue}]]
<1> DEFINE c == mClients[p]
<1>1. PICK fails \in WriteFails(c) :
        IF fails
        THEN RemoveClientInternal(c) /\ UNCHANGED view
        ELSE /\ Deliver(c)
             /\ UNCHANGED clientVars
  BY DEF WriteTo
<1>2. CASE fails
  BY <1>1, <1>2, RemoveListed DEF TypeOK
<1>3. CASE ~fails
  BY <1>1, <1>3, ListUnchanged, DeliverKeepsTypes DEF ServerInv, ServerTypeOK, clientVars
<1> QED BY <1>2, <1>3

-----------------------------------------------------------------------------

\* Every step of the loop keeps the invariant.
LEMMA LoopStep == AdapterInv /\ Loop => AdapterInv'
<1> SUFFICES ASSUME AdapterInv, Loop PROVE AdapterInv'
  OBVIOUS
<1> USE ServerAssumption, AdapterAssumption DEF AdapterInv
<1>1. TypeOK /\ ServerInv /\ ServerTypeOK
  BY DEF ServerInv
<1>2. ASSUME pc \in {"write", "read", "heartbeats"}, idx >= 0
      PROVE  idx \in Used /\ mClients[idx] \in Clients
  <2>1. idx \in Used
    BY <1>2 DEF TypeOK, ServerTypeOK, LoopsStayInList, Used
  <2> QED BY <2>1 DEF ServerInv, ClientListExact, Listed, Open
\* The steps that leave the server alone.
<1>3. CASE NoneWaiting \/ SkipDatum \/ FlushBefore \/ FlushRest \/ SendDone
           \/ WriteDone \/ Select \/ ReadDone \/ Decide \/ Sleep
  <2>1. UNCHANGED serverVars
    BY <1>3 DEF NoneWaiting, SkipDatum, FlushBefore, FlushRest, SendDone,
                WriteDone, Select, ReadDone, Decide, Sleep
  <2>2. ServerInv' /\ mNumClients' = mNumClients
    BY <2>1, ServerUntouched
  <2>3. /\ mNumClients \in 0 .. MaxClients /\ Readable \subseteq Clients
        /\ ServerTypeOK'
    BY <2>2 DEF ServerTypeOK, ServerInv, Readable, ClientListExact, Open
  <2>4. TypeOK' /\ ChangedHasValue'
    <3> USE <2>3 DEF TypeOK, ChangedHasValue
    <3>1. CASE NoneWaiting BY <3>1 DEF NoneWaiting
    <3>2. CASE SkipDatum BY <3>2 DEF SkipDatum, Data
    <3>3. CASE FlushBefore BY <3>3 DEF FlushBefore, StartWrite
    <3>4. CASE FlushRest BY <3>4 DEF FlushRest, StartWrite
    <3>5. CASE SendDone BY <3>5 DEF SendDone
    <3>6. CASE WriteDone BY <3>6 DEF WriteDone, WrittenAll
    <3>7. CASE Select BY <3>7 DEF Select
    <3>8. CASE ReadDone BY <3>8 DEF ReadDone
    <3>9. CASE Decide BY <3>9 DEF Decide
    <3>10. CASE Sleep BY <3>10 DEF Sleep
    <3> QED BY <1>3, <3>1, <3>2, <3>3, <3>4, <3>5, <3>6, <3>7, <3>8, <3>9, <3>10
  <2>5. LoopsStayInList'
    BY <1>3, <2>2, <2>3 DEF LoopsStayInList, TypeOK, StartWrite, WrittenAll,
       NoneWaiting, SkipDatum, FlushBefore, FlushRest, SendDone, WriteDone,
       Select, ReadDone, Decide, Sleep
  <2> QED BY <2>2, <2>4, <2>5
<1>4. CASE AppendDatum
  <2>1. ServerInv' /\ mNumClients' = mNumClients /\ ServerTypeOK'
    BY <1>4, ServerUntouched DEF AppendDatum, ServerInv
  <2>2. cursor \in Data /\ value[cursor] \in Values
    BY <1>4 DEF AppendDatum, ToSend, ChangedHasValue, TypeOK, Data
  <2>3. buffer' \subseteq Data \X Values
    BY <1>4, <2>2 DEF AppendDatum, TypeOK
  <2>4. TypeOK' /\ ChangedHasValue'
    BY <1>4, <2>1, <2>2, <2>3
       DEF AppendDatum, TypeOK, ChangedHasValue, StartWrite, Data, ServerTypeOK
  <2>5. LoopsStayInList'
    BY <1>4, <2>1 DEF AppendDatum, LoopsStayInList, StartWrite, ServerTypeOK
  <2> QED BY <2>1, <2>4, <2>5
<1>5. CASE GatherInitial \/ FlushInGather \/ Gather
  <2>1. UNCHANGED serverVars /\ GatherDeviceData
    BY <1>5 DEF GatherInitial, FlushInGather, Gather, StartSend
  <2>2. ServerInv' /\ ServerTypeOK'
    BY <2>1, ServerUntouched DEF ServerInv
  <2>3. /\ value' \in [Data -> Values \cup {NoValue}]
        /\ changed' \subseteq Data
        /\ ChangedHasValue'
    BY <2>1, GatherKeepsTypes
  <2>4. TypeOK' /\ LoopsStayInList'
    BY <1>5, <2>2, <2>3
       DEF GatherInitial, FlushInGather, Gather, StartSend, TypeOK, LoopsStayInList
  <2> QED BY <2>2, <2>3, <2>4
\* The steps that change the list of clients.
<1>6. CASE Accept
  <2>1. ServerInv' /\ ServerTypeOK'
    BY <1>6, AddWaiting DEF Accept, ServerInv
  <2>2. Head(backlog) \in Clients
    <3>1. backlog \in Seq(Clients) /\ backlog # <<>>
      BY <1>6 DEF Accept, ServerInv, ServerTypeOK
    <3> QED BY ONLY <3>1
  <2>3. view' \in [Clients -> [Data -> Values \cup {NoValue}]]
    <3> DEFINE blank == [d \in Data |-> NoValue]
    <3>1. blank \in [Data -> Values \cup {NoValue}]
      OBVIOUS
    <3>2. view' \in {view, [view EXCEPT ![Head(backlog)] = blank]}
      BY <1>6 DEF Accept
    <3> HIDE DEF blank
    <3> QED BY <2>2, <3>1, <3>2 DEF TypeOK
  <2>4. TypeOK'
    BY <1>6, <2>1, <2>2, <2>3 DEF Accept, TypeOK
  <2>5. LoopsStayInList' /\ ChangedHasValue'
    BY <1>6 DEF Accept, LoopsStayInList, ChangedHasValue
  <2> QED BY <2>1, <2>4, <2>5
<1>7. CASE WriteInitial
  <2>1. CASE mInitializeClient \in Listed
    <3>1. PICK p \in Used : mClients[p] = mInitializeClient
      BY <2>1 DEF Listed
    <3>2. ServerInv' /\ view' \in [Clients -> [Data -> Values \cup {NoValue}]]
      BY <1>7, <2>1, <3>1, WriteListed DEF WriteInitial
    <3> QED BY <1>7, <3>2
            DEF WriteInitial, WrittenAll, TypeOK, LoopsStayInList,
                ChangedHasValue, ServerInv
  <2>2. CASE mInitializeClient \notin Listed
    <3>1. ServerInv' /\ view' = view
      BY <1>7, <2>2, ServerUntouched DEF WriteInitial
    <3> QED BY <1>7, <3>1
            DEF WriteInitial, WrittenAll, TypeOK, LoopsStayInList,
                ChangedHasValue, ServerInv
  <2> QED BY <2>1, <2>2
<1>8. CASE WriteNext
  <2>1. idx \in Used
    BY <1>2, <1>8 DEF WriteNext
  <2>2. /\ ServerInv' /\ mNumClients' \in {mNumClients - 1, mNumClients}
        /\ view' \in [Clients -> [Data -> Values \cup {NoValue}]]
    BY <1>8, <2>1, WriteListed DEF WriteNext
  <2> QED BY <1>8, <2>1, <2>2
          DEF WriteNext, TypeOK, LoopsStayInList, ChangedHasValue, ServerInv,
              ServerTypeOK, Used
<1>9. CASE ReadNext
  <2>1. idx \in Used
    BY <1>2, <1>9 DEF ReadNext
  <2>2. ServerInv' /\ mNumClients' \in {mNumClients - 1, mNumClients}
    BY <1>9, <2>1, ReadListed, ServerUntouched DEF ReadNext
  <2> QED BY <1>9, <2>1, <2>2
          DEF ReadNext, TypeOK, LoopsStayInList, ChangedHasValue, ServerInv,
              ServerTypeOK, Used
<1>10. CASE HeartbeatNext
  <2>1. idx \in Used
    BY <1>2, <1>10 DEF HeartbeatNext
  <2>2. ServerInv' /\ mNumClients' \in {mNumClients - 1, mNumClients}
    BY <1>10, <2>1, CheckListed DEF HeartbeatNext
  <2> QED BY <1>10, <2>1, <2>2
          DEF HeartbeatNext, TypeOK, LoopsStayInList, ChangedHasValue, ServerInv,
              ServerTypeOK, Used
<1> QED BY <1>3, <1>4, <1>5, <1>6, <1>7, <1>8, <1>9, <1>10 DEF Loop

\* A step of the loop or of a remote end keeps the invariant.
LEMMA AdapterStep == AdapterInv /\ [Next]_vars => AdapterInv'
<1> SUFFICES ASSUME AdapterInv, [Next]_vars PROVE AdapterInv'
  OBVIOUS
<1>1. CASE Loop
  BY <1>1, LoopStep
<1>2. CASE World
  <2>1. ServerInv' /\ mNumClients' = mNumClients
    BY <1>2, RemoteKeepsList DEF World, AdapterInv
  <2> QED BY <1>2, <2>1
          DEF World, loopVars, AdapterInv, TypeOK, LoopsStayInList,
              ChangedHasValue, ServerInv
<1>3. CASE UNCHANGED vars
  <2>1. ServerInv' /\ mNumClients' = mNumClients
    BY <1>3, ServerUntouched DEF vars, AdapterInv
  <2> QED BY <1>3, <2>1
          DEF vars, loopVars, AdapterInv, TypeOK, LoopsStayInList,
              ChangedHasValue, ServerInv
<1> QED BY <1>1, <1>2, <1>3 DEF Next

\* The invariant holds throughout.
LEMMA AdapterInvariant == Spec => []AdapterInv
BY AdapterInit, AdapterStep, PTL DEF Spec

\* The variables of the server and of the loop keep their types.
THEOREM TypeCorrect == Spec => []TypeOK
<1>1. AdapterInv => TypeOK
  BY DEF AdapterInv
<1> QED BY <1>1, AdapterInvariant, PTL

\* The client list of server.cpp holds every accepted connection once and
\* nothing else, for any number of clients, any limit and any order of
\* failed writes, closed streams and late heartbeats.
THEOREM ListIsExact == Spec => []ClientListExact
<1>1. AdapterInv => ClientListExact
  BY DEF AdapterInv, ServerInv
<1> QED BY <1>1, AdapterInvariant, PTL

\* The loops of server.cpp that remove clients while they run never index
\* past the end of the list.
THEOREM LoopsAreBounded == Spec => []LoopsStayInList
<1>1. AdapterInv => LoopsStayInList
  BY DEF AdapterInv
<1> QED BY <1>1, AdapterInvariant, PTL

-----------------------------------------------------------------------------

\* One step drops an open client only when its heartbeat is late.
DropsOnlyLate ==
  \A c \in Clients :
    peer[c] = "up" /\ peer'[c] = "away" => c \in mHeartbeats /\ c \in late

\* A step that leaves the connections alone drops nobody.
LEMMA SteadyPeers == ASSUME UNCHANGED peer PROVE DropsOnlyLate
BY DEF DropsOnlyLate

\* A write drops the client it failed for, which was not open.
LEMMA WriteDrops ==
  ASSUME ServerInv, NEW p \in Used, WriteTo(mClients[p]), UNCHANGED backlog
  PROVE  DropsOnlyLate
<1> DEFINE c == mClients[p]
<1>1. PICK fails \in WriteFails(c) :
        IF fails
        THEN RemoveClientInternal(c) /\ UNCHANGED view
        ELSE /\ Deliver(c)
             /\ UNCHANGED clientVars
  BY DEF WriteTo
<1>2. CASE fails
  <2>1. peer[c] \in {"closed", "silent"}
    BY <1>1, <1>2 DEF WriteFails
  <2>2. peer' = [peer EXCEPT ![c] = "away"]
    BY <1>1, <1>2, RemoveListed
  <2> QED BY <2>1, <2>2 DEF DropsOnlyLate, ServerInv, ServerTypeOK
<1>3. CASE ~fails
  BY <1>1, <1>3, SteadyPeers DEF clientVars
<1> QED BY <1>2, <1>3

\* One step drops no open client but a late one.
LEMMA DropStep == AdapterInv /\ [Next]_vars => [DropsOnlyLate]_vars
<1> SUFFICES ASSUME AdapterInv, [Next]_vars PROVE [DropsOnlyLate]_vars
  OBVIOUS
<1>1. TypeOK /\ ServerInv /\ ServerTypeOK
  BY DEF AdapterInv, ServerInv
<1>2. ASSUME pc \in {"write", "read", "heartbeats"}, idx >= 0 PROVE idx \in Used
  BY <1>1, <1>2 DEF AdapterInv, TypeOK, ServerTypeOK, LoopsStayInList, Used
<1>3. CASE NoneWaiting \/ SkipDatum \/ FlushBefore \/ FlushRest \/ SendDone
           \/ WriteDone \/ Select \/ ReadDone \/ Decide \/ Sleep
           \/ AppendDatum \/ GatherInitial \/ FlushInGather \/ Gather
  <2>1. UNCHANGED peer
    BY <1>3 DEF NoneWaiting, SkipDatum, FlushBefore, FlushRest, SendDone,
                WriteDone, Select, ReadDone, Decide, Sleep, AppendDatum,
                GatherInitial, FlushInGather, Gather, StartSend, serverVars, clientVars
  <2> QED BY <2>1, SteadyPeers
<1>4. CASE Accept
  <2>1. backlog # <<>> /\ AddClient(Head(backlog))
    BY <1>4 DEF Accept
  <2>2. peer[Head(backlog)] = "waiting"
    BY <1>1, <2>1 DEF ServerInv, ServerTypeOK, BacklogOK
  <2>3. \A c \in Clients : c # Head(backlog) => peer'[c] = peer[c]
    BY <1>1, <2>1 DEF AddClient, Delete, ServerTypeOK
  <2> QED BY <2>2, <2>3 DEF DropsOnlyLate
<1>5. CASE WriteInitial
  <2>1. CASE mInitializeClient \in Listed
    <3>1. PICK p \in Used : mClients[p] = mInitializeClient
      BY <2>1 DEF Listed
    <3> QED BY <1>1, <1>5, <2>1, <3>1, WriteDrops DEF WriteInitial
  <2>2. CASE mInitializeClient \notin Listed
    BY <1>5, <2>2, SteadyPeers DEF WriteInitial, serverVars, clientVars
  <2> QED BY <2>1, <2>2
<1>6. CASE WriteNext
  BY <1>1, <1>2, <1>6, WriteDrops DEF WriteNext
<1>7. CASE ReadNext
  <2>1. idx \in Used
    BY <1>2, <1>7 DEF ReadNext
  <2>2. CASE /\ mClients[idx] \in ready /\ mClients[idx] \notin pings
             /\ peer[mClients[idx]] = "closed"
    <3>1. peer' = [peer EXCEPT ![mClients[idx]] = "away"]
      BY <1>1, <1>7, <2>1, <2>2, RemoveListed DEF ReadNext, ReadClient
    <3> QED BY <1>1, <2>2, <3>1 DEF DropsOnlyLate, ServerTypeOK
  <2>3. CASE ~(/\ mClients[idx] \in ready /\ mClients[idx] \notin pings
               /\ peer[mClients[idx]] = "closed")
    BY <1>7, <2>3, SteadyPeers DEF ReadNext, ReadClient, serverVars, clientVars
  <2> QED BY <2>2, <2>3
<1>8. CASE HeartbeatNext
  <2>1. idx \in Used
    BY <1>2, <1>8 DEF HeartbeatNext
  <2>2. CASE mClients[idx] \in mHeartbeats /\ mClients[idx] \in late
    <3>1. peer' = [peer EXCEPT ![mClients[idx]] = "away"]
      BY <1>1, <1>8, <2>1, <2>2, RemoveListed DEF HeartbeatNext, CheckHeartbeat
    <3> QED BY <1>1, <2>2, <3>1 DEF DropsOnlyLate, ServerTypeOK
  <2>3. CASE ~(mClients[idx] \in mHeartbeats /\ mClients[idx] \in late)
    BY <1>8, <2>3, SteadyPeers DEF HeartbeatNext, CheckHeartbeat, clientVars
  <2> QED BY <2>2, <2>3
<1>9. CASE World
  <2>1. PICK c \in Clients : Dial(c) \/ Ping(c) \/ Hangup(c) \/ Vanish(c) \/ GoLate(c)
                           \/ Stall(c) \/ Resume(c)
    BY <1>9 DEF World, Remote
  <2>2. peer' \in {peer, [peer EXCEPT ![c] = "waiting"],
                   [peer EXCEPT ![c] = "closed"], [peer EXCEPT ![c] = "silent"]}
    BY <2>1 DEF Dial, Ping, Hangup, Vanish, GoLate, Stall, Resume, clientVars
  <2> QED BY <1>1, <2>2 DEF DropsOnlyLate, ServerTypeOK
<1> QED BY <1>3, <1>4, <1>5, <1>6, <1>7, <1>8, <1>9 DEF Next, Loop

\* No failed write, closed stream or late heartbeat of one client ever makes
\* the adapter drop another one.
THEOREM OthersKept == Spec => OnlyLateDropped
<1>1. AdapterInv /\ [Next]_vars => [DropsOnlyLate]_vars
  BY DropStep
<1> QED BY <1>1, AdapterInvariant, PTL DEF Spec, OnlyLateDropped, DropsOnlyLate

-----------------------------------------------------------------------------
(* What the clients have been sent.  A client is accepted with nothing     *)
(* shown; from then on each item it should have is shown, in the buffer,   *)
(* or still ahead of the loop over the items.                              *)

Sending == pc \in {"append", "write"}

Buffered == {line[1] : line \in buffer}

\* Initial data are for the newest client; the buffer is filled and emptied
\* in one run over the items and holds what they are.
PhaseInv ==
  /\ mInitializeClient # NULL =>
       mInitializeClient = newest /\ (Sending \/ pc = "initGather")
  /\ pc = "initGather" => mInitializeClient # NULL
  /\ ~Sending => buffer = {}
  /\ \A line \in buffer : line[2] = value[line[1]] /\ line[1] < cursor
  /\ pc = "unread" => mNumClients = 0

\* Whom the properties speak of: the newest client, and every client when it
\* comes to what the scan that runs has found.
Tracked(c, d) ==
  \/ c = newest
  \/ mInitializeClient = NULL /\ d \in fresh /\ (Sending \/ pc \in {"gather", "connect"})

\* The loop over the list has been at c.
Passed(c) ==
  /\ pc = "write" /\ mInitializeClient = NULL
  /\ \E k \in Used : k > idx /\ mClients[k] = c

\* d is still to come.
Due(c, d) ==
  /\ Sending
  /\ \/ d >= cursor /\ (mInitializeClient # NULL \/ d \in changed)
     \/ d \in Buffered /\ ~Passed(c)

ViewInv ==
  /\ mInitializeClient # NULL =>
       \A d \in Data : pc = "initGather" \/ d >= cursor => view[newest][d] = NoValue
  /\ pc # "initGather" =>
       \A c \in Clients, d \in Data :
         peer[c] = "up" /\ Tracked(c, d) => view[c][d] = value[d] \/ Due(c, d)

\* NewestInStep and ScanReachesAll are about the end of a scan; this is what
\* holds on the way there.
SentInv == AdapterInv /\ PhaseInv /\ ViewInv

\* Nobody is open, and nothing is to be sent.
LEMMA SentInit == Init => SentInv
<1> SUFFICES ASSUME Init PROVE SentInv
  OBVIOUS
<1>1. AdapterInv
  BY AdapterInit
<1>2. \A c \in Clients : peer[c] # "up"
  BY DEF Init, ServerInit
<1>3. PhaseInv
  BY DEF Init, PhaseInv, Sending
<1>4. ViewInv
  BY <1>2 DEF Init, ViewInv
<1> QED BY <1>1, <1>3, <1>4 DEF SentInv

\* A delivery brings an open client up to the value of each item in the
\* buffer, and changes nothing else.
LEMMA Delivered ==
  ASSUME TypeOK, PhaseInv, NEW c \in Clients, Deliver(c)
  PROVE  \A x \in Clients, d \in Data :
           view'[x][d] = IF x = c /\ peer[c] = "up" /\ d \in Buffered
                         THEN value[d] ELSE view[x][d]
<1>1. ASSUME NEW d \in Data
      PROVE  /\ d \in Buffered => value[d] \in Values /\ <<d, value[d]>> \in buffer
             /\ \A v : <<d, v>> \in buffer => d \in Buffered /\ v = value[d]
  <2>1. ASSUME d \in Buffered PROVE value[d] \in Values /\ <<d, value[d]>> \in buffer
    <3>1. PICK line \in buffer : line[1] = d
      BY <2>1 DEF Buffered
    <3>2. line[2] = value[d] /\ line[2] \in Values /\ line = <<line[1], line[2]>>
      BY <3>1 DEF PhaseInv, TypeOK
    <3> QED BY <3>1, <3>2
  <2>2. ASSUME NEW v, <<d, v>> \in buffer PROVE d \in Buffered /\ v = value[d]
    <3> DEFINE line == <<d, v>>
    <3>1. line[1] = d /\ line[2] = v /\ line \in buffer
      BY <2>2
    <3> HIDE DEF line
    <3> QED BY <3>1 DEF Buffered, PhaseInv
  <2> QED BY <2>1, <2>2
<1> DEFINE sent == [d \in Data |-> IF \E v \in Values : <<d, v>> \in buffer
                                  THEN CHOOSE v \in Values : <<d, v>> \in buffer
                                  ELSE view[c][d]]
<1>2. \A d \in Data : sent[d] = IF d \in Buffered THEN value[d] ELSE view[c][d]
  <2>1. ASSUME NEW d \in Data
        PROVE  (IF \E v \in Values : <<d, v>> \in buffer
                THEN CHOOSE v \in Values : <<d, v>> \in buffer
                ELSE view[c][d]) = IF d \in Buffered THEN value[d] ELSE view[c][d]
    <3>1. CASE d \in Buffered
      <4>1. \E v \in Values : <<d, v>> \in buffer
        BY <1>1, <3>1
      <4>2. <<d, CHOOSE v \in Values : <<d, v>> \in buffer>> \in buffer
        BY <4>1
      <4> QED BY <1>1, <3>1, <4>1, <4>2
    <3>2. CASE d \notin Buffered
      BY <1>1, <3>2
    <3> QED BY <3>1, <3>2
  <2> QED BY <2>1
<1>3. view' = IF peer[c] = "up" THEN [view EXCEPT ![c] = sent] ELSE view
  BY DEF Deliver
<1> HIDE DEF sent
<1> QED BY <1>2, <1>3 DEF TypeOK

\* A step of a remote end, or of none: it opens no connection.
LEMMA SentStutter ==
  ASSUME SentInv, UNCHANGED <<loopVars, mClients, mNumClients>>,
         \A c \in Clients : peer'[c] = "up" => peer[c] = "up"
  PROVE  PhaseInv' /\ ViewInv'
<1>1. PhaseInv'
  BY DEF SentInv, PhaseInv, loopVars, Sending
<1>2. \A c \in Clients, d \in Data :
        (Tracked(c, d)' <=> Tracked(c, d)) /\ (Due(c, d)' <=> Due(c, d))
  BY DEF Tracked, Due, Passed, Sending, Buffered, Used, loopVars
<1>3. ViewInv'
  BY <1>2 DEF SentInv, ViewInv, loopVars
<1> QED BY <1>1, <1>3

\* Between two scans nothing is due, and nobody is added.
LEMMA SentIdle ==
  ASSUME SentInv, ~Sending, pc # "initGather", pc # "gather",
         UNCHANGED <<mInitializeClient, value, changed, cursor, buffer, view,
                     newest, fresh>>,
         \A c \in Clients : peer'[c] = "up" => peer[c] = "up",
         pc' \in {"connect", "select", "read", "heartbeats", "unread"},
         pc' = "connect" => \A c \in Clients : peer'[c] # "up",
         pc' = "unread" => mNumClients' = 0
  PROVE  PhaseInv' /\ ViewInv'
<1>1. mInitializeClient = NULL /\ buffer = {}
  BY DEF SentInv, PhaseInv
<1>2. PhaseInv'
  BY <1>1 DEF PhaseInv, Sending
<1>3. ASSUME NEW c \in Clients, NEW d \in Data, peer'[c] = "up", Tracked(c, d)'
      PROVE  view'[c][d] = value'[d]
  <2>1. pc' # "connect" /\ peer[c] = "up"
    BY <1>3
  <2>2. c = newest
    BY <1>3, <2>1 DEF Tracked, Sending
  <2> QED BY <2>1, <2>2 DEF SentInv, ViewInv, Tracked, Due
<1>4. ViewInv'
  BY <1>1, <1>3 DEF ViewInv
<1> QED BY <1>2, <1>4

\* The gather for the new client, or for all: what differs is marked.
LEMMA SentGather ==
  ASSUME SentInv, GatherInitial \/ FlushInGather \/ Gather
  PROVE  PhaseInv' /\ ViewInv'
<1>1. /\ pc' = "append" /\ cursor' = 1 /\ GatherDeviceData
      /\ UNCHANGED <<serverVars, mInitializeClient, buffer, view, newest>>
  BY DEF GatherInitial, FlushInGather, Gather, StartSend
<1>2. pc \in {"initGather", "gather"} /\ buffer = {}
  BY DEF SentInv, PhaseInv, Sending, GatherInitial, FlushInGather, Gather, StartSend
<1>3. PhaseInv'
  BY <1>1, <1>2 DEF SentInv, PhaseInv, Sending
<1>4. \A d \in Data : d >= cursor'
  BY <1>1 DEF Data
<1>5. CASE mInitializeClient # NULL
  <2>1. pc = "initGather"
    BY <1>2, <1>5 DEF SentInv, PhaseInv, Sending
  <2>2. \A c \in Clients, d \in Data : Due(c, d)'
    BY <1>1, <1>4, <1>5 DEF Due, Sending
  <2> QED BY <1>1, <1>3, <2>1, <2>2 DEF SentInv, ViewInv
<1>6. CASE mInitializeClient = NULL
  <2>1. pc = "gather" /\ fresh' = fresh \cup changed'
    BY <1>6 DEF SentInv, PhaseInv, GatherInitial, FlushInGather, Gather, StartSend
  <2>2. ASSUME NEW c \in Clients, NEW d \in Data, peer'[c] = "up", Tracked(c, d)'
        PROVE  view'[c][d] = value'[d] \/ Due(c, d)'
    <3>1. CASE d \in changed'
      BY <1>1, <1>4, <3>1 DEF Due, Sending
    <3>2. CASE d \notin changed'
      <4>1. value'[d] = value[d]
        BY <1>1, <3>2 DEF GatherDeviceData
      <4>2. Tracked(c, d)
        BY <1>1, <1>6, <2>1, <2>2, <3>2 DEF Tracked
      <4>3. peer[c] = "up" /\ ~Due(c, d) /\ pc # "initGather"
        BY <1>1, <2>1, <2>2 DEF serverVars, clientVars, Due, Sending
      <4> QED BY <1>1, <4>1, <4>2, <4>3 DEF SentInv, ViewInv
    <3> QED BY <3>1, <3>2
  <2>3. ViewInv'
    BY <1>1, <1>6, <2>2 DEF ViewInv
  <2> QED BY <1>3, <2>3
<1> QED BY <1>5, <1>6

\* The loop over the items moves an item from the changed ones to the buffer,
\* or passes one that is not to be sent.
LEMMA SentAppend ==
  ASSUME SentInv, SkipDatum \/ FlushBefore \/ AppendDatum \/ FlushRest
  PROVE  PhaseInv' /\ ViewInv'
<1> USE AdapterAssumption
<1>1. /\ pc = "append" /\ cursor \in Nat
      /\ UNCHANGED <<serverVars, mInitializeClient, value, view, newest, fresh>>
      /\ TypeOK /\ ServerInv
  BY DEF SkipDatum, FlushBefore, AppendDatum, FlushRest, SentInv, AdapterInv, TypeOK
<1>2. /\ pc' \in {"append", "write"}
      /\ pc' = "write" => idx' = mNumClients - 1
  BY <1>1 DEF SkipDatum, FlushBefore, AppendDatum, FlushRest, StartWrite
<1>3. ASSUME NEW c PROVE ~Passed(c) /\ ~Passed(c)'
  <2>1. mNumClients \in Nat /\ mNumClients' = mNumClients
    BY <1>1 DEF ServerInv, ServerTypeOK, serverVars, clientVars
  <2> QED BY <1>1, <1>2, <2>1 DEF Passed, Used
<1>4. CASE SkipDatum
  <2>1. /\ cursor \in Data /\ ~ToSend(cursor) /\ cursor' = cursor + 1
        /\ UNCHANGED <<pc, changed, buffer>>
    BY <1>1, <1>4 DEF SkipDatum, Data, TypeOK
  <2>2. PhaseInv'
    <3>1. \A line \in buffer : line[1] \in Nat
      BY <1>1 DEF TypeOK, Data
    <3> QED BY <1>1, <2>1, <3>1 DEF SentInv, PhaseInv, Sending
  <2>3. ASSUME NEW c \in Clients, NEW d \in Data, peer'[c] = "up", Tracked(c, d)'
        PROVE  view'[c][d] = value'[d] \/ Due(c, d)'
    <3>1. peer[c] = "up" /\ Tracked(c, d)
      BY <1>1, <2>1, <2>3 DEF serverVars, clientVars, Tracked, Sending
    <3>2. view[c][d] = value[d] \/ Due(c, d)
      BY <1>1, <3>1 DEF SentInv, ViewInv
    <3>3. CASE d # cursor
      <4>1. Due(c, d) => Due(c, d)'
        BY <1>1, <1>3, <2>1, <3>3 DEF Due, Sending, Buffered, Data
      <4> QED BY <1>1, <3>2, <4>1
    <3>4. CASE d = cursor
      <4>1. d \notin Buffered
        BY <1>1, <3>4 DEF SentInv, PhaseInv, Buffered
      <4>2. CASE mInitializeClient # NULL
        <5>1. value[d] = NoValue /\ view[newest][d] = NoValue
          BY <1>1, <2>1, <3>4, <4>2 DEF ToSend, SentInv, ViewInv
        <5>2. c = newest
          BY <3>1, <4>2 DEF Tracked
        <5> QED BY <1>1, <5>1, <5>2
      <4>3. CASE mInitializeClient = NULL
        <5>1. ~Due(c, d)
          BY <2>1, <3>4, <4>1, <4>3 DEF ToSend, Due
        <5> QED BY <1>1, <3>2, <5>1
      <4> QED BY <4>2, <4>3
    <3> QED BY <3>3, <3>4
  <2>4. ASSUME mInitializeClient # NULL, NEW d \in Data, d >= cursor'
        PROVE  view[newest][d] = NoValue
    <3>1. d >= cursor
      BY <1>1, <2>1, <2>4 DEF Data
    <3> QED BY <2>4, <3>1 DEF SentInv, ViewInv
  <2>5. ViewInv'
    BY <1>1, <2>1, <2>3, <2>4 DEF ViewInv
  <2> QED BY <2>2, <2>5
<1>5. CASE FlushBefore \/ FlushRest
  <2>1. UNCHANGED <<changed, cursor, buffer>> /\ pc' = "write"
    BY <1>5 DEF FlushBefore, FlushRest, StartWrite
  <2>2. PhaseInv'
    BY <1>1, <2>1 DEF SentInv, PhaseInv, Sending
  <2>3. ASSUME NEW c \in Clients, NEW d \in Data, peer'[c] = "up", Tracked(c, d)'
        PROVE  view'[c][d] = value'[d] \/ Due(c, d)'
    <3>1. peer[c] = "up" /\ Tracked(c, d)
      BY <1>1, <2>1, <2>3 DEF serverVars, clientVars, Tracked, Sending
    <3>2. view[c][d] = value[d] \/ Due(c, d)
      BY <1>1, <3>1 DEF SentInv, ViewInv
    <3>3. Due(c, d) => Due(c, d)'
      BY <1>1, <1>3, <2>1 DEF Due, Sending, Buffered
    <3> QED BY <1>1, <3>2, <3>3
  <2>4. ViewInv'
    BY <1>1, <2>1, <2>3 DEF SentInv, ViewInv
  <2> QED BY <2>2, <2>4
<1>6. CASE AppendDatum
  <2>1. /\ cursor \in Data /\ cursor' = cursor + 1
        /\ buffer' = buffer \cup {<<cursor, value[cursor]>>}
        /\ changed' = changed \ {cursor}
    BY <1>1, <1>6 DEF AppendDatum, Data, TypeOK
  <2>2. Buffered' = Buffered \cup {cursor}
    <3> DEFINE line == <<cursor, value[cursor]>>
    <3>1. line[1] = cursor /\ buffer' = buffer \cup {line}
      BY <2>1
    <3> HIDE DEF line
    <3> QED BY <3>1 DEF Buffered
  <2>3. PhaseInv'
    <3>1. \A line \in buffer : line[1] \in Nat
      BY <1>1 DEF TypeOK, Data
    <3>2. \A line \in buffer' : line[2] = value[line[1]] /\ line[1] < cursor'
      BY <1>1, <2>1, <3>1 DEF SentInv, PhaseInv, Data
    <3> QED BY <1>1, <1>2, <3>2 DEF SentInv, PhaseInv, Sending
  <2>4. ASSUME NEW c \in Clients, NEW d \in Data, peer'[c] = "up", Tracked(c, d)'
        PROVE  view'[c][d] = value'[d] \/ Due(c, d)'
    <3>1. peer[c] = "up" /\ Tracked(c, d)
      BY <1>1, <2>4 DEF serverVars, clientVars, Tracked, Sending
    <3>2. view[c][d] = value[d] \/ Due(c, d)
      BY <1>1, <3>1 DEF SentInv, ViewInv
    <3>3. Due(c, d) => Due(c, d)'
      <4>1. CASE d = cursor
        BY <1>2, <1>3, <2>2, <4>1 DEF Due, Sending
      <4>2. CASE d # cursor
        BY <1>1, <1>2, <1>3, <2>1, <2>2, <4>2 DEF Due, Sending, Data
      <4> QED BY <4>1, <4>2
    <3> QED BY <1>1, <3>2, <3>3
  <2>5. ASSUME mInitializeClient # NULL, NEW d \in Data, d >= cursor'
        PROVE  view[newest][d] = NoValue
    <3>1. d >= cursor
      BY <1>1, <2>1, <2>5 DEF Data
    <3> QED BY <2>5, <3>1 DEF SentInv, ViewInv
  <2>6. ViewInv'
    BY <1>1, <1>2, <2>4, <2>5 DEF ViewInv
  <2> QED BY <2>3, <2>6
<1> QED BY <1>4, <1>5, <1>6

\* The loop over the items ends with nothing due.
LEMMA SentDone ==
  ASSUME SentInv, SendDone
  PROVE  PhaseInv' /\ ViewInv'
<1>1. /\ pc = "append" /\ cursor > NumData /\ buffer = {}
      /\ UNCHANGED <<serverVars, value, changed, cursor, buffer, view, newest, fresh>>
      /\ mInitializeClient' = NULL
      /\ pc' \in {"select", "gather", "connect"}
      /\ mInitializeClient # NULL => pc' = "select"
  BY DEF SendDone
<1>2. PhaseInv'
  BY <1>1 DEF PhaseInv, Sending
<1>3. ASSUME NEW c \in Clients, NEW d \in Data, peer'[c] = "up", Tracked(c, d)'
      PROVE  view'[c][d] = value'[d]
  <2>1. peer[c] = "up" /\ Tracked(c, d)
    BY <1>1, <1>3 DEF serverVars, clientVars, Tracked, Sending
  <2>2. ~Due(c, d)
    BY <1>1, AdapterAssumption DEF Due, Buffered, Data, SentInv, AdapterInv, TypeOK
  <2> QED BY <1>1, <2>1, <2>2 DEF SentInv, ViewInv
<1>4. ViewInv'
  BY <1>1, <1>3 DEF ViewInv
<1> QED BY <1>2, <1>4

\* The loop decides to gather for whoever is there.
LEMMA SentDecide ==
  ASSUME SentInv, Decide
  PROVE  PhaseInv' /\ ViewInv'
<1>1. /\ pc = "heartbeats"
      /\ UNCHANGED <<serverVars, mInitializeClient, value, changed, cursor, buffer,
                     view, newest>>
  BY DEF Decide
<1>2. CASE mNumClients > 0
  <2>1. pc' = "gather" /\ fresh' = {}
    BY <1>2 DEF Decide
  <2>2. mInitializeClient = NULL /\ buffer = {}
    BY <1>1 DEF SentInv, PhaseInv, Sending
  <2>3. PhaseInv'
    BY <1>1, <2>1, <2>2 DEF PhaseInv
  <2>4. ASSUME NEW c \in Clients, NEW d \in Data, peer'[c] = "up", Tracked(c, d)'
        PROVE  view'[c][d] = value'[d]
    <3>1. c = newest /\ peer[c] = "up"
      BY <1>1, <2>1, <2>4 DEF Tracked, serverVars, clientVars
    <3> QED BY <1>1, <3>1 DEF SentInv, ViewInv, Tracked, Due, Sending
  <2>5. ViewInv'
    BY <1>1, <2>2, <2>4 DEF ViewInv
  <2> QED BY <2>3, <2>5
<1>3. CASE ~(mNumClients > 0)
  <2>1. pc' = "unread" /\ fresh' = fresh
    BY <1>3 DEF Decide
  <2>2. mNumClients' = 0
    BY <1>1, <1>3 DEF SentInv, AdapterInv, ServerInv, ServerTypeOK, serverVars, clientVars
  <2>3. \A c \in Clients : peer'[c] = "up" => peer[c] = "up"
    BY <1>1 DEF serverVars, clientVars
  <2> QED BY <1>1, <2>1, <2>2, <2>3, SentIdle DEF Sending
<1> QED BY <1>2, <1>3

\* A client that is accepted shows nothing; the others are not disturbed.
LEMMA SentAccept ==
  ASSUME SentInv, Accept
  PROVE  PhaseInv' /\ ViewInv'
<1> DEFINE x == Head(backlog)
           blank == [d \in Data |-> NoValue]
<1>1. /\ pc = "connect" /\ backlog # <<>> /\ AddClient(x)
      /\ UNCHANGED <<value, changed, cursor, buffer, fresh>>
  BY DEF Accept
<1>2. x \in Clients
  <2>1. backlog \in Seq(Clients) /\ backlog # <<>>
    BY <1>1 DEF SentInv, AdapterInv, ServerInv, ServerTypeOK
  <2> QED BY ONLY <2>1
<1>3. buffer = {} /\ mInitializeClient = NULL
  BY <1>1 DEF SentInv, PhaseInv, Sending
<1>4. CASE mNumClients < MaxClients
  <2>1. /\ pc' = "initGather" /\ mInitializeClient' = x /\ newest' = x
        /\ view' = [view EXCEPT ![x] = blank]
    BY <1>4 DEF Accept
  <2>2. x # NULL
    BY <1>2, ServerAssumption
  <2>3. PhaseInv'
    BY <1>1, <1>3, <2>1, <2>2 DEF PhaseInv, Sending
  <2>4. view'[x] = blank
    BY <1>2, <2>1 DEF SentInv, AdapterInv, TypeOK
  <2>5. ViewInv'
    BY <2>1, <2>4 DEF ViewInv
  <2> QED BY <2>3, <2>5
<1>5. CASE ~(mNumClients < MaxClients)
  <2>1. /\ pc' = "select" /\ UNCHANGED <<mInitializeClient, newest, view>>
        /\ peer' = [peer EXCEPT ![x] = "away"]
    BY <1>1, <1>5 DEF Accept, AddClient, Delete
  <2>2. \A c \in Clients : peer'[c] = "up" => peer[c] = "up"
    BY <1>2, <2>1 DEF SentInv, AdapterInv, ServerInv, ServerTypeOK
  <2> QED BY <1>1, <2>1, <2>2, SentIdle DEF Sending
<1> QED BY <1>4, <1>5

\* The write of the initial data brings the new client up to the buffer, or
\* finds it closed or deleted.
LEMMA SentInitial ==
  ASSUME SentInv, WriteInitial
  PROVE  PhaseInv' /\ ViewInv'
<1>1. /\ pc = "write" /\ mInitializeClient # NULL /\ mInitializeClient = newest
      /\ pc' = "append" /\ buffer' = {}
      /\ UNCHANGED <<mInitializeClient, value, changed, cursor, newest, fresh>>
      /\ TypeOK /\ ServerInv /\ newest \in Clients
  BY DEF WriteInitial, WrittenAll, SentInv, PhaseInv, AdapterInv, TypeOK
<1>2. PhaseInv'
  BY <1>1 DEF SentInv, PhaseInv, Sending
<1>3. \/ Deliver(newest) /\ UNCHANGED peer
      \/ UNCHANGED view /\ (\A c \in Clients : peer'[c] = "up" => peer[c] = "up")
         /\ peer'[newest] # "up"
  <2>1. CASE newest \notin Listed
    <3>1. UNCHANGED <<serverVars, view>>
      BY <1>1, <2>1 DEF WriteInitial
    <3>2. peer[newest] # "up"
      BY <1>1, <2>1 DEF ServerInv, ClientListExact, Open
    <3> QED BY <3>1, <3>2 DEF serverVars, clientVars
  <2>2. CASE newest \in Listed
    <3>1. PICK p \in Used : mClients[p] = newest
      BY <2>2 DEF Listed
    <3>2. WriteTo(mClients[p]) /\ UNCHANGED backlog
      BY <1>1, <2>2, <3>1 DEF WriteInitial
    <3>3. PICK fails \in WriteFails(mClients[p]) :
            IF fails
            THEN RemoveClientInternal(mClients[p]) /\ UNCHANGED view
            ELSE /\ Deliver(mClients[p])
                 /\ UNCHANGED clientVars
      BY <3>2 DEF WriteTo
    <3>4. CASE fails
      <4>1. peer' = [peer EXCEPT ![newest] = "away"] /\ UNCHANGED view
        BY <1>1, <3>1, <3>2, <3>3, <3>4, RemoveListed
      <4> QED BY <1>1, <4>1 DEF ServerInv, ServerTypeOK
    <3>5. CASE ~fails
      BY <3>1, <3>3, <3>5 DEF clientVars
    <3> QED BY <3>4, <3>5
  <2> QED BY <2>1, <2>2
<1>4. ASSUME NEW d \in Data, d >= cursor
      PROVE  view'[newest][d] = NoValue
  <2>1. view[newest][d] = NoValue
    BY <1>1, <1>4 DEF SentInv, ViewInv
  <2>2. d \notin Buffered
    <3>1. \A line \in buffer : line[1] < cursor
      BY DEF SentInv, PhaseInv
    <3> QED BY <1>1, <1>4, <3>1 DEF Buffered, TypeOK, Data
  <2>3. CASE UNCHANGED view
    BY <2>1, <2>3
  <2>4. CASE Deliver(newest)
    BY <1>1, <2>1, <2>2, <2>4, Delivered DEF SentInv
  <2> QED BY <1>3, <2>3, <2>4
<1>5. ASSUME NEW c \in Clients, NEW d \in Data, peer'[c] = "up", Tracked(c, d)'
      PROVE  view'[c][d] = value'[d] \/ Due(c, d)'
  <2>1. c = newest
    BY <1>1, <1>5 DEF Tracked
  <2>2. Deliver(newest) /\ UNCHANGED peer
    BY <1>3, <1>5, <2>1
  <2>3. view[c][d] = value[d] \/ Due(c, d)
    BY <1>1, <1>5, <2>1, <2>2 DEF SentInv, ViewInv, Tracked
  <2>4. view'[c][d] = IF d \in Buffered THEN value[d] ELSE view[c][d]
    BY <1>1, <1>5, <2>1, <2>2, Delivered DEF SentInv
  <2>5. d \notin Buffered /\ Due(c, d) => Due(c, d)'
    BY <1>1 DEF Due, Sending
  <2> QED BY <1>1, <2>3, <2>4, <2>5
<1>6. ViewInv'
  BY <1>1, <1>4, <1>5 DEF ViewInv
<1> QED BY <1>2, <1>6

\* The loop of sendToClients(): a client that it passes over has been sent
\* the buffer; a removal moves only clients it has passed.
LEMMA SentWrite ==
  ASSUME SentInv, WriteNext \/ WriteDone
  PROVE  PhaseInv' /\ ViewInv'
<1>1. /\ pc = "write" /\ mInitializeClient = NULL
      /\ UNCHANGED <<mInitializeClient, value, changed, cursor, newest, fresh>>
      /\ pc' \in {"append", "write"} /\ buffer' \in {buffer, {}}
      /\ TypeOK /\ ServerInv
  BY DEF WriteNext, WriteDone, WrittenAll, SentInv, AdapterInv
<1>2. PhaseInv'
  BY <1>1 DEF SentInv, PhaseInv, Sending
<1>3. ASSUME NEW c \in Clients, NEW d \in Data, peer'[c] = "up"
      PROVE  /\ peer[c] = "up"
             /\ view'[c][d] = view[c][d] \/ view'[c][d] = value[d]
             /\ d \in Buffered /\ ~Passed(c) =>
                  \/ buffer' = buffer /\ ~Passed(c)'
                  \/ view'[c][d] = value[d]
  <2>1. CASE WriteNext
    <3> DEFINE x == mClients[idx]
    <3>1. /\ idx \in Used /\ idx' = idx - 1 /\ UNCHANGED <<pc, buffer, backlog>>
          /\ WriteTo(x)
      BY <1>1, <2>1 DEF WriteNext, TypeOK, SentInv, AdapterInv, LoopsStayInList,
                        ServerTypeOK, Used
    <3>2. x \in Clients
      BY <1>1, <3>1 DEF ServerInv, ClientListExact, Listed, Open
    <3>3. PICK fails \in WriteFails(x) :
            IF fails
            THEN RemoveClientInternal(x) /\ UNCHANGED view
            ELSE /\ Deliver(x)
                 /\ UNCHANGED clientVars
      BY <3>1 DEF WriteTo
    <3>4. CASE fails
      <4>1. /\ RemoveClientInternal(x) /\ UNCHANGED view
            /\ peer' = [peer EXCEPT ![x] = "away"] /\ mNumClients' = mNumClients - 1
        BY <1>1, <3>1, <3>3, <3>4, RemoveListed
      <4>2. peer[c] = "up" /\ c # x
        BY <1>1, <1>3, <3>2, <4>1 DEF ServerInv, ServerTypeOK
      <4>3. Passed(c)' => Passed(c)
        <5>1. ASSUME NEW k \in Used', k > idx - 1, mClients'[k] = c
              PROVE  k + 1 \in Used /\ k + 1 > idx /\ mClients[k + 1] = c
          BY <1>1, <3>1, <4>1, <5>1, RemovedFromList DEF ServerInv, ServerTypeOK, Used, TypeOK
        <5> QED BY <1>1, <3>1, <5>1 DEF Passed
      <4> QED BY <3>1, <4>1, <4>2, <4>3
    <3>5. CASE ~fails
      <4>1. Deliver(x) /\ UNCHANGED <<mClients, mNumClients, peer>>
        BY <3>3, <3>5 DEF clientVars
      <4>2. view'[c][d] = IF c = x /\ peer[x] = "up" /\ d \in Buffered
                          THEN value[d] ELSE view[c][d]
        BY <1>1, <3>2, <4>1, Delivered DEF SentInv
      <4>3. c # x /\ Passed(c)' => Passed(c)
        <5>1. ASSUME NEW k \in Used', k > idx - 1, mClients'[k] = c, c # x
              PROVE  k \in Used /\ k > idx /\ mClients[k] = c
          BY <1>1, <3>1, <4>1, <5>1 DEF Used, TypeOK, ServerInv, ServerTypeOK
        <5> QED BY <1>1, <3>1, <5>1 DEF Passed
      <4> QED BY <1>3, <3>1, <4>1, <4>2, <4>3
    <3> QED BY <3>4, <3>5
  <2>2. CASE WriteDone
    <3>1. UNCHANGED <<serverVars, view>> /\ idx < 0
      BY <2>2 DEF WriteDone
    <3>2. c \in Listed
      BY <1>1, <1>3, <3>1 DEF serverVars, clientVars, ServerInv, ClientListExact, Open
    <3>3. Passed(c)
      BY <1>1, <3>1, <3>2 DEF Passed, Listed, Used, TypeOK
    <3> QED BY <1>3, <3>1, <3>3 DEF serverVars, clientVars
  <2> QED BY <2>1, <2>2
<1>4. ASSUME NEW c \in Clients, NEW d \in Data, peer'[c] = "up", Tracked(c, d)'
      PROVE  view'[c][d] = value'[d] \/ Due(c, d)'
  <2>1. view[c][d] = value[d] \/ Due(c, d)
    BY <1>1, <1>3, <1>4 DEF SentInv, ViewInv, Tracked, Sending
  <2>2. Due(c, d) => Due(c, d)' \/ view'[c][d] = value[d]
    <3>1. buffer' = buffer => Buffered' = Buffered
      BY DEF Buffered
    <3> QED BY <1>1, <1>3, <1>4, <3>1 DEF Due, Sending
  <2> QED BY <1>1, <1>3, <1>4, <2>1, <2>2
<1>5. ViewInv'
  BY <1>1, <1>4 DEF ViewInv
<1> QED BY <1>2, <1>5

\* Every step keeps what the clients have been sent.
LEMMA SentStep == SentInv /\ [Next]_vars => SentInv'
<1> SUFFICES ASSUME SentInv, [Next]_vars PROVE SentInv'
  OBVIOUS
<1>1. AdapterInv'
  BY AdapterStep DEF SentInv
<1>2. SUFFICES PhaseInv' /\ ViewInv'
  BY <1>1 DEF SentInv
<1>3. TypeOK /\ ServerInv /\ ServerTypeOK
  BY DEF SentInv, AdapterInv, ServerInv
<1>4. CASE NoneWaiting \/ Select \/ ReadDone \/ Sleep
  <2>1. \A c \in Clients : peer'[c] = "up" => peer[c] = "up"
    BY <1>4 DEF NoneWaiting, Select, ReadDone, Sleep, serverVars, clientVars
  <2>2. pc = "unread" => \A c \in Clients : peer[c] # "up"
    <3>1. pc = "unread" => Listed = {}
      BY DEF SentInv, PhaseInv, Listed, Used
    <3> QED BY <1>3, <3>1 DEF ServerInv, ClientListExact, Open
  <2>3. /\ pc \in {"connect", "select", "read", "unread"}
        /\ pc' \in {"connect", "select", "read", "heartbeats"}
        /\ pc' = "connect" => pc = "unread"
        /\ UNCHANGED <<mInitializeClient, value, changed, cursor, buffer, view,
                       newest, fresh>>
    BY <1>4 DEF NoneWaiting, Select, ReadDone, Sleep
  <2> QED BY <2>1, <2>2, <2>3, SentIdle DEF Sending
<1>5. CASE ReadNext \/ HeartbeatNext
  <2>1. idx \in Used
    BY <1>3, <1>5 DEF ReadNext, HeartbeatNext, SentInv, AdapterInv, LoopsStayInList,
                      TypeOK, ServerTypeOK, Used
  <2>2. \/ peer' = peer \/ peer' = [peer EXCEPT ![mClients[idx]] = "away"]
    <3>1. CASE ReadNext
      BY <1>3, <2>1, <3>1, RemoveListed DEF ReadNext, ReadClient, serverVars, clientVars
    <3>2. CASE HeartbeatNext
      BY <1>3, <2>1, <3>2, RemoveListed DEF HeartbeatNext, CheckHeartbeat, clientVars
    <3> QED BY <1>5, <3>1, <3>2
  <2>3. \A c \in Clients : peer'[c] = "up" => peer[c] = "up"
    BY <1>3, <2>2 DEF ServerTypeOK
  <2>4. /\ pc \in {"read", "heartbeats"} /\ UNCHANGED pc
        /\ UNCHANGED <<mInitializeClient, value, changed, cursor, buffer, view,
                       newest, fresh>>
    BY <1>5 DEF ReadNext, HeartbeatNext
  <2> QED BY <2>3, <2>4, SentIdle DEF Sending
<1>6. CASE World
  <2>1. PICK c \in Clients : Dial(c) \/ Ping(c) \/ Hangup(c) \/ Vanish(c) \/ GoLate(c)
                           \/ Stall(c) \/ Resume(c)
    BY <1>6 DEF World, Remote
  <2>2. /\ peer' \in {peer, [peer EXCEPT ![c] = "waiting"],
                      [peer EXCEPT ![c] = "closed"], [peer EXCEPT ![c] = "silent"]}
        /\ UNCHANGED <<mClients, mNumClients>>
    BY <2>1 DEF Dial, Ping, Hangup, Vanish, GoLate, Stall, Resume, clientVars
  <2>3. \A x \in Clients : peer'[x] = "up" => peer[x] = "up"
    BY <1>3, <2>2 DEF ServerTypeOK
  <2> QED BY <1>6, <2>2, <2>3, SentStutter DEF World
<1>7. CASE UNCHANGED vars
  BY <1>7, SentStutter DEF vars, serverVars, clientVars
<1> QED BY <1>4, <1>5, <1>6, <1>7, SentAccept, SentGather, SentAppend, SentDone,
           SentInitial, SentWrite, SentDecide DEF Next, Loop

LEMMA SentInvariant == Spec => []SentInv
BY SentInit, SentStep, PTL DEF Spec

\* The client that connected last has every current value, for any number of
\* clients and items and in whatever order others fail (sendInitialData() and
\* sendChangedData() of adapter.cpp).
THEOREM NewestIsInStep == Spec => []NewestInStep
<1>1. SentInv => NewestInStep
  <2> SUFFICES ASSUME SentInv, pc \in {"connect", "select", "read", "heartbeats"},
                      newest \in Listed, peer[newest] = "up"
               PROVE  view[newest] = value
    BY DEF NewestInStep
  <2>1. newest \in Clients /\ TypeOK
    BY DEF SentInv, AdapterInv, ServerInv, ClientListExact, Open
  <2>2. \A d \in Data : view[newest][d] = value[d]
    BY <2>1 DEF SentInv, ViewInv, Tracked, Due, Sending
  <2>3. view[newest] \in [Data -> Values \cup {NoValue}]
        /\ value \in [Data -> Values \cup {NoValue}]
    BY <2>1 DEF TypeOK
  <2> QED BY <2>2, <2>3
<1> QED BY <1>1, SentInvariant, PTL

\* What a scan finds reaches every open client by its end, for any number of
\* clients and items, removals and flushes in the gather.
THEOREM ScansReachAll == Spec => []ScanReachesAll
<1>1. SentInv => ScanReachesAll
  <2> SUFFICES ASSUME SentInv, pc = "connect", NEW c \in Listed, NEW d \in fresh,
                      peer[c] = "up"
               PROVE  view[c][d] = value[d]
    BY DEF ScanReachesAll
  <2>1. c \in Clients /\ d \in Data
    BY DEF SentInv, AdapterInv, TypeOK, ServerInv, ClientListExact, Open
  <2>2. mInitializeClient = NULL
    BY DEF SentInv, PhaseInv, Sending
  <2> QED BY <2>1, <2>2 DEF SentInv, ViewInv, Tracked, Due, Sending
<1> QED BY <1>1, SentInvariant, PTL
=============================================================================
