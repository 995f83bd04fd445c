---------------------------- MODULE SiemensProofs ----------------------------
(***************************************************************************)
(* Proofs about ShdrServer, for any set of connections and any number of   *)
(* lines: its types, that no socket leaks between the three kinds of       *)
(* threads, and that every client gets the last line of an item.  Then of  *)
(* SiemensAdapter: the loop is a legal user of the server, so what is      *)
(* proved of the server holds of the whole program, and what a remote end  *)
(* shows is what the loop knows of the machine.                            *)
(***************************************************************************)
EXTENDS SiemensAdapter, TLAPS

-----------------------------------------------------------------------------
(* The server. *)


\* The accept thread holds a connection in these places and in no other.
Holding == acceptor \in {"register", "replay", "drop", "close", "spawn"}

Held == conn \in Conns <=> Holding

\* Who answers for a connection.  NoSocketLeak is not inductive: it says
\* nothing while a thread is busy with the connection, so it cannot tell in
\* which state that thread will leave it.
OwnerInv ==
  \* The accept thread holds a connection that nobody reads yet.
  /\ \A c \in Conns :
       conn = c => handler[c] = "none" /\ remote[c] \in {"up", "gone"}
  \* Only accepted connections are read or registered.
  /\ \A c \in Conns :
       handler[c] # "none" \/ c \in clients => remote[c] \in {"up", "gone"}
  \* A registered connection is held by the accept thread or being read.
  /\ \A c \in clients :
       \/ conn = c /\ acceptor \in {"replay", "drop", "spawn"}
       \/ handler[c] \in {"reading", "leaving"}
  \* One that is held or read is registered until it is closed or stale.
  /\ \A c \in Conns :
       \/ conn = c /\ acceptor \in {"replay", "drop", "spawn"}
       \/ handler[c] \in {"reading", "leaving"}
       => c \in clients \/ c \in closed \/ c \in stale
  \* One that nobody holds and nobody reads is closed.
  /\ \A c \in Conns :
       remote[c] \in {"up", "gone"} /\ conn # c /\ handler[c] \in {"none", "done"}
       => c \in closed

\* Where the last line is on its way to a registered client that can still
\* be reached: it has arrived, or the broadcast has it in front of it, or
\* the replay does.
LineInv ==
  \A c \in clients :
    remote[c] = "up" =>
      \/ lastLine = 0
      \/ lastLine \in got[c]
      \/ main = "sending" /\ c \in todo \cup stale
      \/ conn = c /\ acceptor = "replay" /\ last = lastLine
      \/ conn = c /\ acceptor = "drop"

-----------------------------------------------------------------------------

\* One step keeps the types and the meaning of the accept thread's conn.
LEMMA TypeStep == TypeOK /\ Held /\ [Next]_vars => TypeOK' /\ Held'
<1> SUFFICES ASSUME TypeOK, Held, [Next]_vars PROVE TypeOK' /\ Held'
  OBVIOUS
<1> USE ShdrAssumption DEF TypeOK, Held, Holding
<1>1. CASE Main
  <2>1. CASE Broadcast BY <2>1 DEF Broadcast, acceptVars, remoteVars
  <2>2. CASE DropStale BY <2>2 DEF DropStale, acceptVars, remoteVars
  <2>3. CASE Stop BY <2>3 DEF Stop, acceptVars, remoteVars
  <2>4. CASE StopCopy BY <2>4 DEF StopCopy, acceptVars, remoteVars
  <2>5. CASE StopListening BY <2>5 DEF StopListening, acceptVars, remoteVars
  <2>6. ASSUME NEW c \in Conns, BroadcastSend(c) PROVE TypeOK' /\ Held'
    BY <2>6 DEF BroadcastSend, SendSucceeds, SendFails, acceptVars, remoteVars
  <2>7. ASSUME NEW c \in Conns, CloseStale(c) PROVE TypeOK' /\ Held'
    BY <2>7 DEF CloseStale, acceptVars, remoteVars
  <2>8. ASSUME NEW c \in Conns, StopClose(c) PROVE TypeOK' /\ Held'
    BY <2>8 DEF StopClose, acceptVars, remoteVars
  <2> QED BY <1>1, <2>1, <2>2, <2>3, <2>4, <2>5, <2>6, <2>7, <2>8 DEF Main
<1>2. CASE Acceptor
  <2>1. CASE AcceptLoop BY <2>1 DEF AcceptLoop, mainVars, remoteVars
  <2>2. CASE AcceptTimeout BY <2>2 DEF AcceptTimeout, mainVars, remoteVars
  <2>3. CASE AcceptError BY <2>3 DEF AcceptError, mainVars, remoteVars
  <2>4. CASE Register BY <2>4 DEF Register, mainVars, remoteVars
  <2>5. CASE Replay
    BY <2>5 DEF Replay, SendSucceeds, SendFails, mainVars, remoteVars
  <2>6. CASE Unregister BY <2>6 DEF Unregister, mainVars, remoteVars
  <2>7. CASE CloseConn BY <2>7 DEF CloseConn, mainVars, remoteVars
  <2>8. CASE Spawn BY <2>8 DEF Spawn, mainVars, remoteVars
  <2>9. ASSUME NEW c \in Conns, Accept(c) PROVE TypeOK' /\ Held'
    BY <2>9 DEF Accept, mainVars
  <2> QED BY <1>2, <2>1, <2>2, <2>3, <2>4, <2>5, <2>6, <2>7, <2>8, <2>9 DEF Acceptor
<1>3. ASSUME NEW c \in Conns, Handler(c) \/ PongFails(c) PROVE TypeOK' /\ Held'
  BY <1>3 DEF Handler, EndReading, PongFails, Leave, CloseRead, mainVars,
              acceptVars, remoteVars
<1>4. ASSUME NEW c \in Conns, Dial(c) \/ HangUp(c) PROVE TypeOK' /\ Held'
  BY <1>4 DEF Dial, HangUp, mainVars, acceptVars
<1>5. CASE UNCHANGED vars
  BY <1>5 DEF vars, mainVars, acceptVars, remoteVars
<1> QED BY <1>1, <1>2, <1>3, <1>4, <1>5 DEF Next

\* The server starts with no connection held.
LEMMA TypeInit == Init => TypeOK /\ Held
BY ShdrAssumption DEF Init, TypeOK, Held, Holding

\* The variables of the server keep their types (shdr.py:41-160).
THEOREM TypeCorrect == Spec => []TypeOK
<1>1. Spec => [](TypeOK /\ Held)
  BY TypeInit, TypeStep, PTL DEF Spec
<1> QED BY <1>1, PTL

-----------------------------------------------------------------------------

\* One step keeps the ownership of every connection.
LEMMA OwnerStep == TypeOK /\ Held /\ OwnerInv /\ [Next]_vars => OwnerInv'
<1> SUFFICES ASSUME TypeOK, Held, OwnerInv, [Next]_vars PROVE OwnerInv'
  OBVIOUS
<1> USE ShdrAssumption DEF TypeOK, Held, Holding, OwnerInv
<1>1. CASE Main
  <2>1. CASE Broadcast BY <2>1 DEF Broadcast, acceptVars, remoteVars
  <2>2. CASE DropStale BY <2>2 DEF DropStale, acceptVars, remoteVars
  <2>3. CASE Stop BY <2>3 DEF Stop, acceptVars, remoteVars
  <2>4. CASE StopCopy BY <2>4 DEF StopCopy, acceptVars, remoteVars
  <2>5. CASE StopListening BY <2>5 DEF StopListening, acceptVars, remoteVars
  <2>6. ASSUME NEW c \in Conns, BroadcastSend(c) PROVE OwnerInv'
    BY <2>6 DEF BroadcastSend, SendSucceeds, SendFails, acceptVars, remoteVars
  <2>7. ASSUME NEW c \in Conns, CloseStale(c) PROVE OwnerInv'
    BY <2>7 DEF CloseStale, acceptVars, remoteVars
  <2>8. ASSUME NEW c \in Conns, StopClose(c) PROVE OwnerInv'
    BY <2>8 DEF StopClose, acceptVars, remoteVars
  <2> QED BY <1>1, <2>1, <2>2, <2>3, <2>4, <2>5, <2>6, <2>7, <2>8 DEF Main
<1>2. CASE Acceptor
  <2>1. CASE AcceptLoop BY <2>1 DEF AcceptLoop, mainVars, remoteVars
  <2>2. CASE AcceptTimeout BY <2>2 DEF AcceptTimeout, mainVars, remoteVars
  <2>3. CASE AcceptError BY <2>3 DEF AcceptError, mainVars, remoteVars
  <2>4. CASE Register BY <2>4 DEF Register, mainVars, remoteVars
  <2>5. CASE Replay
    BY <2>5 DEF Replay, SendSucceeds, SendFails, mainVars, remoteVars
  <2>6. CASE Unregister BY <2>6 DEF Unregister, mainVars, remoteVars
  <2>7. CASE CloseConn BY <2>7 DEF CloseConn, mainVars, remoteVars
  <2>8. CASE Spawn BY <2>8 DEF Spawn, mainVars, remoteVars
  <2>9. ASSUME NEW c \in Conns, Accept(c) PROVE OwnerInv'
    BY <2>9 DEF Accept, mainVars
  <2> QED BY <1>2, <2>1, <2>2, <2>3, <2>4, <2>5, <2>6, <2>7, <2>8, <2>9 DEF Acceptor
<1>3. ASSUME NEW c \in Conns, Handler(c) \/ PongFails(c) PROVE OwnerInv'
  <2>1. CASE EndReading(c) \/ PongFails(c)
    BY <2>1 DEF EndReading, PongFails, mainVars, acceptVars, remoteVars
  <2>2. CASE Leave(c) BY <2>2 DEF Leave, mainVars, acceptVars, remoteVars
  <2>3. CASE CloseRead(c) BY <2>3 DEF CloseRead, mainVars, acceptVars, remoteVars
  <2> QED BY <1>3, <2>1, <2>2, <2>3 DEF Handler
<1>4. ASSUME NEW c \in Conns, Dial(c) \/ HangUp(c) PROVE OwnerInv'
  BY <1>4 DEF Dial, HangUp, mainVars, acceptVars
<1>5. CASE UNCHANGED vars
  BY <1>5 DEF vars, mainVars, acceptVars, remoteVars
<1> QED BY <1>1, <1>2, <1>3, <1>4, <1>5 DEF Next

\* Every connection has an owner in every reachable state.
LEMMA OwnerInvariant == Spec => [](TypeOK /\ Held /\ OwnerInv)
<1>1. Init => OwnerInv
  BY ShdrAssumption DEF Init, OwnerInv
<1> QED BY <1>1, TypeInit, TypeStep, OwnerStep, PTL DEF Spec

\* No socket leaks: a connection that no thread is busy with is registered or
\* closed, and a registered one is being read, however the send of a
\* broadcast, the replay, the reading thread and stop() fail or race
\* (shdr.py:63-160).
THEOREM NoLeak == Spec => []NoSocketLeak
<1>1. TypeOK /\ Held /\ OwnerInv => NoSocketLeak
  BY ShdrAssumption
     DEF TypeOK, Held, Holding, OwnerInv, NoSocketLeak, Settled, Accepted
<1> QED BY <1>1, OwnerInvariant, PTL

-----------------------------------------------------------------------------

\* One step keeps the last line on its way.
LEMMA LineStep ==
  TypeOK /\ Held /\ OwnerInv /\ LineInv /\ [Next]_vars => LineInv'
<1> SUFFICES ASSUME TypeOK, Held, OwnerInv, LineInv, [Next]_vars PROVE LineInv'
  OBVIOUS
<1> USE ShdrAssumption DEF TypeOK, Held, Holding, LineInv
<1>1. CASE Main
  <2>1. CASE Broadcast BY <2>1 DEF Broadcast, acceptVars, remoteVars
  <2>2. CASE DropStale BY <2>2 DEF DropStale, acceptVars, remoteVars
  <2>3. CASE Stop BY <2>3 DEF Stop, acceptVars, remoteVars
  <2>4. CASE StopCopy BY <2>4 DEF StopCopy, acceptVars, remoteVars
  <2>5. CASE StopListening BY <2>5 DEF StopListening, acceptVars, remoteVars
  <2>6. ASSUME NEW c \in Conns, BroadcastSend(c) PROVE LineInv'
    BY <2>6 DEF BroadcastSend, SendSucceeds, SendFails, acceptVars, remoteVars
  <2>7. ASSUME NEW c \in Conns, CloseStale(c) PROVE LineInv'
    BY <2>7 DEF CloseStale, acceptVars, remoteVars
  <2>8. ASSUME NEW c \in Conns, StopClose(c) PROVE LineInv'
    BY <2>8 DEF StopClose, acceptVars, remoteVars
  <2> QED BY <1>1, <2>1, <2>2, <2>3, <2>4, <2>5, <2>6, <2>7, <2>8 DEF Main
<1>2. CASE Acceptor
  <2>1. CASE AcceptLoop BY <2>1 DEF AcceptLoop, mainVars, remoteVars
  <2>2. CASE AcceptTimeout BY <2>2 DEF AcceptTimeout, mainVars, remoteVars
  <2>3. CASE AcceptError BY <2>3 DEF AcceptError, mainVars, remoteVars
  <2>4. CASE Register BY <2>4 DEF Register, mainVars, remoteVars
  <2>5. CASE Replay
    BY <2>5 DEF Replay, SendSucceeds, SendFails, mainVars, remoteVars
  <2>6. CASE Unregister BY <2>6 DEF Unregister, mainVars, remoteVars
  <2>7. CASE CloseConn BY <2>7 DEF CloseConn, mainVars, remoteVars
  <2>8. CASE Spawn BY <2>8 DEF Spawn, mainVars, remoteVars
  <2>9. ASSUME NEW c \in Conns, Accept(c) PROVE LineInv'
    BY <2>9 DEF OwnerInv, Accept, mainVars
  <2> QED BY <1>2, <2>1, <2>2, <2>3, <2>4, <2>5, <2>6, <2>7, <2>8, <2>9 DEF Acceptor
<1>3. ASSUME NEW c \in Conns, Handler(c) \/ PongFails(c) PROVE LineInv'
  <2>1. CASE EndReading(c) \/ PongFails(c)
    BY <2>1 DEF EndReading, PongFails, mainVars, acceptVars, remoteVars
  <2>2. CASE Leave(c) BY <2>2 DEF Leave, mainVars, acceptVars, remoteVars
  <2>3. CASE CloseRead(c) BY <2>3 DEF CloseRead, mainVars, acceptVars, remoteVars
  <2> QED BY <1>3, <2>1, <2>2, <2>3 DEF Handler
<1>4. ASSUME NEW c \in Conns, Dial(c) \/ HangUp(c) PROVE LineInv'
  BY <1>4 DEF Dial, HangUp, mainVars, acceptVars
<1>5. CASE UNCHANGED vars
  BY <1>5 DEF vars, mainVars, acceptVars, remoteVars
<1> QED BY <1>1, <1>2, <1>3, <1>4, <1>5 DEF Next

\* No line is lost between the registration and the replay of a client: the
\* copy of _clients and _last_line are taken and set in one locked region
\* (shdr.py:84-128).
THEOREM NoLineLost == Spec => []LastLineReceived
<1>1. Init => LineInv
  BY DEF Init, LineInv
<1>2. TypeOK /\ LineInv => LastLineReceived
  BY DEF TypeOK, LineInv, LastLineReceived
<1>3. Spec => []LineInv
  BY <1>1, OwnerInvariant, LineStep, PTL DEF Spec
<1> QED BY <1>2, <1>3, TypeCorrect, PTL

-----------------------------------------------------------------------------
(* The program: the loop on top of the server. *)

\* A step of the program is a step of the server, or leaves it alone.
LEMMA LoopUsesServer == [SiemensNext]_allVars => [Next]_vars
<1> SUFFICES ASSUME [SiemensNext]_allVars PROVE [Next]_vars
  OBVIOUS
<1>1. CASE Loop
  <2>1. CASE Connect \/ Poll \/ ReadWindow
    BY <2>1 DEF Connect, Poll, ReadWindow
  <2>2. CASE ReadAlarm BY <2>2 DEF ReadAlarm, emit, Next, Main
  <2>3. CASE ReadFails BY <2>3 DEF ReadFails, emit, Next, Main
  <2>4. CASE End BY <2>4 DEF End, Next, Main
  <2> QED BY <1>1, <2>1, <2>2, <2>3, <2>4 DEF Loop
<1>2. CASE Server
  BY <1>2 DEF Server, Beside, ServerMain, Remote, Next, Main
<1>3. CASE Environment
  BY <1>3 DEF Environment, Signal, DeviceChanges, LinkLost, LinkBack
<1>4. CASE UNCHANGED allVars BY <1>4 DEF allVars
<1> QED BY <1>1, <1>2, <1>3, <1>4 DEF SiemensNext

\* The program implements its server: run_loop() calls emit() and stop() only
\* as the server expects, one call after the other.
THEOREM ProgramImplementsServer == SiemensSpec => Spec
<1>1. SiemensInit => Init
  BY DEF SiemensInit
<1> QED BY <1>1, LoopUsesServer, PTL DEF SiemensSpec, Spec

\* No socket of the program leaks (shdr.py:63-160).
THEOREM ProgramLeaksNoSocket == SiemensSpec => []NoSocketLeak
BY ProgramImplementsServer, NoLeak, PTL

-----------------------------------------------------------------------------
(* What a remote end shows. *)

Items == {"avail", "window", "alarm"}
Shows == Windows \cup Alarms \cup {AVAILABLE, UNAVAILABLE}
Lines == {LossLine} \cup {SampleLine(s) : s \in Sample}

\* Where the last line comes from: while a sample is known it is the line of
\* that sample, and after a loss it is the report of the loss.
LastLineInv ==
  /\ SiemensTypeOK
  /\ at \in {"window", "chan"} => plc = "open"
  /\ at = "chan" => window \in Windows
  /\ sent \in Seq(Lines)
  /\ plc = "open" /\ (at = "top" \/ ~first) =>
       /\ previous \in Sample
       /\ lastLine > 0 /\ sent[lastLine] = SampleLine(previous)
  /\ plc = "none" => lastLine = 0 \/ sent[lastLine] = LossLine

\* ViewIsTrue speaks of the last line only; a client that lags shows an
\* earlier one, and needs to agree with that one before it gets the next.
ViewInv ==
  /\ last <= lastLine
  /\ acceptor = "replay" => last > 0
  /\ main = "sending" => lastLine > 0
  /\ \A c \in Conns : shown[c] <= lastLine
  /\ view \in [Conns -> [Items -> Shows]]
  /\ \A c \in Conns, item \in Items :
       shown[c] > 0 /\ sent[shown[c]][item] # None =>
         view[c][item] = sent[shown[c]][item]

SiemensInv == TypeOK /\ LastLineInv /\ ViewInv

\* A line is a record of the three items.
LEMMA LineItems ==
  ASSUME NEW line \in Lines
  PROVE  /\ line = [i \in Items |-> line[i]]
         /\ \A i \in Items : line[i] \in Shows \cup {None}
BY DEF Lines, LossLine, SampleLine, Sample, Items, Shows

\* A remote end that receives a line shows what the line says, and of the
\* rest what it showed.
LEMMA MergedShows ==
  ASSUME NEW shows \in [Items -> Shows], NEW line \in Lines
  PROVE  /\ Merged(shows, line) \in [Items -> Shows]
         /\ \A i \in Items : line[i] # None => Merged(shows, line)[i] = line[i]
BY LineItems DEF Merged

\* The loop and the environment leave what was received alone; a new line is
\* appended, and the lines received are not touched.
LEMMA EmitStep ==
  ASSUME SiemensInv, NEW line \in Lines, emit(line), UNCHANGED view
  PROVE  /\ ViewInv'
         /\ sent' \in Seq(Lines) /\ Len(sent') = lastLine' /\ lastLine' > 0
         /\ sent'[lastLine'] = line
<1>1. /\ lastLine' = lastLine + 1 /\ UNCHANGED <<last, shown, acceptor>>
      /\ sent' = Append(sent, line)
  BY DEF emit, Broadcast, acceptVars, remoteVars
<1>2. /\ lastLine \in Nat /\ sent \in Seq(Lines) /\ Len(sent) = lastLine
      /\ \A c \in Conns : shown[c] \in Nat /\ shown[c] <= lastLine
      /\ last \in Nat
  BY ShdrAssumption DEF SiemensInv, TypeOK, LastLineInv, SiemensTypeOK, ViewInv
<1>3. /\ sent' \in Seq(Lines) /\ Len(sent') = lastLine' /\ lastLine' > 0
      /\ sent'[lastLine'] = line
      /\ \A n \in 1 .. lastLine : sent'[n] = sent[n]
  BY <1>1, <1>2
<1>4. \A c \in Conns : shown[c] > 0 => sent'[shown[c]] = sent[shown[c]]
  BY <1>2, <1>3
<1>5. ViewInv'
  BY <1>1, <1>2, <1>4 DEF SiemensInv, ViewInv
<1> QED BY <1>3, <1>5

\* A step of the loop keeps the last line and the views.
LEMMA LoopStep == SiemensInv /\ Loop => LastLineInv' /\ ViewInv'
<1> SUFFICES ASSUME SiemensInv, Loop PROVE LastLineInv' /\ ViewInv'
  OBVIOUS
<1> USE DEF SiemensInv
<1>1. ASSUME UNCHANGED <<vars, sent, view>> PROVE ViewInv'
  BY <1>1 DEF ViewInv, vars, mainVars, acceptVars, remoteVars
<1>2. CASE Connect
  BY <1>1, <1>2 DEF Connect, LastLineInv, SiemensTypeOK, vars
<1>3. CASE Poll
  BY <1>1, <1>3 DEF Poll, LastLineInv, SiemensTypeOK, vars, deviceVars
<1>4. CASE ReadWindow
  BY <1>1, <1>4 DEF ReadWindow, LastLineInv, SiemensTypeOK, vars, deviceVars, Sample
<1>5. CASE ReadAlarm
  <2> DEFINE s == [window |-> window, alarm |-> device.alarm]
  <2>1. s \in Sample
    BY <1>5 DEF ReadAlarm, LastLineInv, SiemensTypeOK, Sample
  <2>2. SampleLine(s) \in Lines
    BY <2>1 DEF Lines
  <2>3. /\ at = "chan" /\ at' = "top" /\ plc = "open"
        /\ UNCHANGED <<plc, first, quit, view, device, link, alive>> /\ window' = None
    BY <1>5 DEF ReadAlarm, LastLineInv, SiemensTypeOK, deviceVars
  <2>4. CASE ToEmit
    <3>1. emit(SampleLine(s)) /\ previous' = s
      BY <1>5, <2>4 DEF ReadAlarm
    <3> QED BY <2>1, <2>2, <2>3, <3>1, EmitStep DEF LastLineInv, SiemensTypeOK
  <2>5. CASE ~ToEmit
    <3>1. UNCHANGED <<vars, previous, sent>> /\ ~first
      BY <1>5, <2>5 DEF ReadAlarm, ToEmit, LastLineInv
    <3> QED BY <1>1, <2>3, <3>1 DEF LastLineInv, SiemensTypeOK, vars
  <2> QED BY <2>4, <2>5
<1>6. CASE ReadFails
  <2>1. LossLine \in Lines
    BY DEF Lines
  <2>2. emit(LossLine) /\ UNCHANGED <<view, first, quit, device, link>>
        /\ plc' = "none" /\ at' = "top" /\ window' = None /\ previous' = None /\ alive' = FALSE
    BY <1>6 DEF ReadFails
  <2> QED BY <2>1, <2>2, EmitStep DEF LastLineInv, SiemensTypeOK
<1>7. CASE End
  <2>1. UNCHANGED <<lastLine, last, shown, sent, view, plc, first, previous,
                     window, quit, device, link, alive, acceptor>>
        /\ main' = "stopping" /\ at = "top" /\ at' = "ended"
    BY <1>7 DEF End, Stop, acceptVars, remoteVars, deviceVars
  <2> QED BY <2>1 DEF LastLineInv, ViewInv, SiemensTypeOK
<1> QED BY <1>2, <1>3, <1>4, <1>5, <1>6, <1>7 DEF Loop

\* The server hands out line numbers that exist.
LEMMA ServerLines ==
  ASSUME SiemensInv, Server
  PROVE  /\ lastLine' = lastLine /\ last' <= lastLine'
         /\ (acceptor = "replay" => last > 0)' /\ (main = "sending" => lastLine > 0)'
         /\ \A c \in Conns : shown'[c] = shown[c] \/ shown'[c] \in 1 .. lastLine'
<1> USE DEF SiemensInv, TypeOK, ViewInv
<1>1. lastLine \in Nat /\ last \in Nat /\ last <= lastLine
  BY ShdrAssumption
<1>2. CASE ServerMain
  BY <1>1, <1>2 DEF ServerMain, DropStale, StopCopy, StopListening, BroadcastSend,
     CloseStale, StopClose, SendSucceeds, SendFails, acceptVars, remoteVars
<1>3. CASE Acceptor
  BY <1>1, <1>3 DEF Acceptor, AcceptLoop, AcceptTimeout, AcceptError, Register,
     Replay, Unregister, CloseConn, Spawn, Accept, SendSucceeds, SendFails,
     mainVars, remoteVars
<1>4. CASE Remote
  BY <1>1, <1>4 DEF Remote, PongFails, Dial, HangUp, mainVars, acceptVars, remoteVars
<1>5. CASE \E c \in Conns : Handler(c)
  BY <1>1, <1>5 DEF Handler, EndReading, Leave, CloseRead, mainVars, acceptVars, remoteVars
<1> QED BY <1>2, <1>3, <1>4, <1>5 DEF Server, Beside

\* A step of the server keeps the last line, and a remote end that receives
\* a line then agrees with it.
LEMMA ServerStep == SiemensInv /\ TypeOK' /\ Server => LastLineInv' /\ ViewInv'
<1> SUFFICES ASSUME SiemensInv, TypeOK', Server PROVE LastLineInv' /\ ViewInv'
  OBVIOUS
<1>1. /\ Receive /\ UNCHANGED <<at, plc, first, window, previous, quit, sent,
                   device, link, alive>>
      /\ UNCHANGED lastLine
  BY ServerLines DEF Server, Beside, loopVars, deviceVars
<1>2. LastLineInv'
  BY <1>1 DEF SiemensInv, LastLineInv, SiemensTypeOK
<1>3. \A c \in Conns :
        /\ shown'[c] \in Nat /\ shown[c] \in Nat /\ shown[c] <= lastLine
        /\ shown'[c] <= lastLine
  BY <1>1, ServerLines, ShdrAssumption DEF SiemensInv, TypeOK, ViewInv
<1>4. ASSUME NEW c \in Conns
      PROVE  /\ view'[c] \in [Items -> Shows]
             /\ \A item \in Items : shown'[c] > 0 /\ sent[shown'[c]][item] # None =>
                  view'[c][item] = sent[shown'[c]][item]
  <2>1. CASE shown'[c] = shown[c]
    BY <1>1, <2>1 DEF Receive, SiemensInv, ViewInv
  <2>2. CASE shown'[c] # shown[c] /\ shown'[c] \in 1 .. lastLine
    <3>1. sent[shown'[c]] \in Lines
      BY <1>1, <1>3, <2>2 DEF SiemensInv, LastLineInv, SiemensTypeOK
    <3>2. view'[c] = Merged(view[c], sent[shown'[c]])
      BY <1>1, <2>2 DEF Receive
    <3> QED BY <3>1, <3>2, MergedShows DEF SiemensInv, ViewInv
  <2> QED BY <1>3, <2>1, <2>2, ServerLines
<1>5. view' \in [Conns -> [Items -> Shows]]
  BY <1>1, <1>4 DEF Receive
<1> QED BY <1>1, <1>2, <1>3, <1>4, <1>5, ServerLines DEF ViewInv

\* The operator and the controller change nothing of that.
LEMMA EnvironmentStep == SiemensInv /\ Environment => LastLineInv' /\ ViewInv'
<1> SUFFICES ASSUME SiemensInv, Environment PROVE LastLineInv' /\ ViewInv'
  OBVIOUS
<1>1. /\ UNCHANGED <<vars, at, plc, first, window, previous, sent, view>>
      /\ quit' \in BOOLEAN /\ device' \in Sample
      /\ link' \in {"up", "down"} /\ alive' \in BOOLEAN
  BY DEF Environment, Signal, DeviceChanges, LinkLost, LinkBack, loopVars,
     deviceVars, SiemensInv, LastLineInv, SiemensTypeOK
<1>2. LastLineInv'
  BY <1>1 DEF SiemensInv, LastLineInv, SiemensTypeOK, vars
<1>3. ViewInv'
  BY <1>1 DEF SiemensInv, ViewInv, vars, mainVars, acceptVars, remoteVars
<1> QED BY <1>2, <1>3

\* The program starts with nothing said and nothing shown.
LEMMA SiemensStart == SiemensInit => LastLineInv /\ ViewInv
<1> SUFFICES ASSUME SiemensInit PROVE LastLineInv /\ ViewInv
  OBVIOUS
<1>1. device \in Sample
  BY SiemensAssumption DEF SiemensInit, Sample
<1>2. LastLineInv
  <2>1. sent = << >> /\ sent \in Seq(Lines) /\ Len(sent) = 0
    BY DEF SiemensInit
  <2> QED BY <1>1, <2>1 DEF SiemensInit, Init, LastLineInv, SiemensTypeOK
<1>3. Blank \in [Items -> Shows]
  BY DEF Blank, Items, Shows
<1>4. ViewInv
  BY <1>3 DEF SiemensInit, Init, ViewInv
<1> QED BY <1>2, <1>4

\* The loop's facts hold throughout.
LEMMA SiemensInvariant == SiemensSpec => []SiemensInv
<1>1. SiemensInv /\ TypeOK' /\ [SiemensNext]_allVars => SiemensInv'
  <2> SUFFICES ASSUME SiemensInv, TypeOK', [SiemensNext]_allVars PROVE SiemensInv'
    OBVIOUS
  <2>1. CASE UNCHANGED allVars
    BY <2>1 DEF allVars, SiemensInv, LastLineInv, ViewInv, SiemensTypeOK, vars,
       mainVars, acceptVars, remoteVars, loopVars, deviceVars
  <2> QED BY <2>1, LoopStep, ServerStep, EnvironmentStep DEF SiemensNext, SiemensInv
<1>2. SiemensSpec => []TypeOK
  BY ProgramImplementsServer, TypeCorrect, PTL
<1>3. SiemensInit /\ TypeOK => SiemensInv
  BY SiemensStart DEF SiemensInv
<1> QED BY <1>1, <1>2, <1>3, PTL DEF SiemensSpec

\* The loop's variables keep their types, and each line has its number.
THEOREM SiemensTypeCorrect == SiemensSpec => []SiemensTypeOK
<1>1. SiemensInv => SiemensTypeOK
  BY DEF SiemensInv, LastLineInv
<1> QED BY <1>1, SiemensInvariant, PTL

\* A remote end whose last line is the last one shows the machine as the
\* loop knows it (run_loop() of adapter.py, format_shdr() of shdr.py).
THEOREM RemoteEndsShowTheMachine == SiemensSpec => []ViewIsTrue
<1>1. SiemensInv => ViewIsTrue
  <2> SUFFICES ASSUME SiemensInv, at = "top", NEW c \in Conns, InStep(c)
               PROVE  IF plc = "open" THEN view[c] = SampleLine(previous)
                      ELSE view[c].avail = UNAVAILABLE
    BY DEF ViewIsTrue
  <2>1. /\ view[c] = [i \in Items |-> view[c][i]]
        /\ shown[c] = lastLine /\ lastLine > 0
        /\ \A i \in Items : sent[lastLine][i] # None => view[c][i] = sent[lastLine][i]
    BY DEF InStep, SiemensInv, ViewInv
  <2>2. CASE plc = "open"
    <3>1. previous \in Sample /\ sent[lastLine] = SampleLine(previous)
      BY <2>2 DEF SiemensInv, LastLineInv
    <3>2. \A i \in Items : sent[lastLine][i] # None
      BY <3>1, SiemensAssumption DEF SampleLine, Sample, Items
    <3>3. sent[lastLine] = [i \in Items |-> sent[lastLine][i]]
      BY <3>1 DEF SampleLine, Items
    <3> QED BY <2>1, <2>2, <3>1, <3>2, <3>3
  <2>3. CASE plc # "open"
    <3>1. sent[lastLine] = LossLine
      BY <2>1, <2>3, ShdrAssumption DEF SiemensInv, LastLineInv, SiemensTypeOK, TypeOK
    <3> QED BY <2>1, <2>3, <3>1, SiemensAssumption DEF LossLine, Items
  <2> QED BY <2>2, <2>3
<1> QED BY <1>1, SiemensInvariant, PTL
=============================================================================
