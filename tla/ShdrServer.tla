------------------------------ MODULE ShdrServer ------------------------------
(***************************************************************************)
(* The SHDR server of the Siemens adapter (adapter/siemens/shdr.py): the   *)
(* main thread broadcasts lines and finally stops the server, the accept   *)
(* thread registers connections and replays the last line to them, one     *)
(* thread per connection reads it.  _clients and _last_line are shared     *)
(* under _lock; every send and every close() happens outside it.           *)
(*                                                                         *)
(* A step is a stretch of one thread between two points where another can  *)
(* run: a locked region, a send, a close, a receive.  Lines are numbered,  *)
(* 0 is None.  Abstracted: the order in which broadcast() visits the       *)
(* clients, the bytes of a line, and the split of the input into lines.    *)
(***************************************************************************)
EXTENDS Naturals

CONSTANTS
  Conns,      \* connections, each used once
  NoConn,
  MaxLines    \* lines the main thread broadcasts, a bound of the model

ASSUME ShdrAssumption ==
  /\ NoConn \notin Conns
  /\ MaxLines \in Nat

VARIABLES
  running,     \* _running
  listening,   \* _sock is open
  clients,     \* _clients
  lastLine,    \* _last_line
  main,        \* where the main thread is
  todo,        \* the copy of _clients it still has to visit
  stale,       \* the clients whose send failed
  acceptor,    \* where the accept thread is
  conn,        \* its conn
  last,        \* its last
  handler,     \* where the thread of each connection is
  closed,      \* the connections that were closed by the server
  remote,      \* the other end: "new", "queued", "up", "gone"
  got,         \* the lines each remote end has received
  shown        \* the line each remote end received last

mainVars == <<main, todo, stale>>
acceptVars == <<acceptor, conn, last>>
remoteVars == <<remote, got, shown>>
vars == <<running, listening, clients, lastLine, mainVars, acceptVars,
          handler, closed, remoteVars>>

Init ==
  /\ running = TRUE /\ listening = TRUE
  /\ clients = {}
  /\ lastLine = 0
  /\ main = "idle" /\ todo = {} /\ stale = {}
  /\ acceptor = "loop" /\ conn = NoConn /\ last = 0
  /\ handler = [c \in Conns |-> "none"]
  /\ closed = {}
  /\ remote = [c \in Conns |-> "new"]
  /\ got = [c \in Conns |-> {}]
  /\ shown = [c \in Conns |-> 0]

-----------------------------------------------------------------------------
(* sendall(): it succeeds only on a socket that is open here; a reader     *)
(* that is gone may go unnoticed, and one that is slow fails after 0.5 s.  *)

SendSucceeds(c, line) ==
  /\ c \notin closed
  /\ IF remote[c] = "up"
     THEN /\ got' = [got EXCEPT ![c] = @ \cup {line}]
          /\ shown' = [shown EXCEPT ![c] = line]
     ELSE UNCHANGED <<got, shown>>
  /\ UNCHANGED remote

SendFails == UNCHANGED remoteVars

-----------------------------------------------------------------------------
(* The main thread: broadcast() and stop(). *)

Broadcast ==
  /\ main = "idle" /\ lastLine < MaxLines
  /\ lastLine' = lastLine + 1
  /\ todo' = clients
  /\ main' = "sending"
  /\ UNCHANGED <<running, listening, clients, stale, acceptVars, handler,
                 closed, remoteVars>>

\* Mutant: a failed send is ignored.
BroadcastSendIgnores(c) ==
  /\ main = "sending" /\ c \in todo
  /\ todo' = todo \ {c}
  /\ SendSucceeds(c, lastLine) \/ SendFails
  /\ UNCHANGED <<running, listening, clients, lastLine, main, stale, acceptVars,
                 handler, closed>>

BroadcastSend(c) ==
  /\ main = "sending" /\ c \in todo
  /\ todo' = todo \ {c}
  /\ \/ SendSucceeds(c, lastLine) /\ UNCHANGED stale
     \/ SendFails /\ stale' = stale \cup {c}
  /\ UNCHANGED <<running, listening, clients, lastLine, main, acceptVars,
                 handler, closed>>

\* Mutant: the stale clients are forgotten but not closed.
DropStaleOpen ==
  /\ main = "sending" /\ todo = {}
  /\ clients' = clients \ stale
  /\ stale' = {}
  /\ main' = "idle"
  /\ UNCHANGED <<running, listening, lastLine, todo, acceptVars,
                 handler, closed, remoteVars>>

DropStale ==
  /\ main = "sending" /\ todo = {}
  /\ clients' = clients \ stale
  /\ main' = IF stale = {} THEN "idle" ELSE "closing"
  /\ UNCHANGED <<running, listening, lastLine, todo, stale, acceptVars,
                 handler, closed, remoteVars>>

CloseStale(c) ==
  /\ main = "closing" /\ c \in stale
  /\ closed' = closed \cup {c}
  /\ stale' = stale \ {c}
  /\ main' = IF stale = {c} THEN "idle" ELSE "closing"
  /\ UNCHANGED <<running, listening, clients, lastLine, todo, acceptVars,
                 handler, remoteVars>>

Stop ==
  /\ main = "idle"
  /\ running' = FALSE
  /\ main' = "stopping"
  /\ UNCHANGED <<listening, clients, lastLine, todo, stale, acceptVars,
                 handler, closed, remoteVars>>

StopCopy ==
  /\ main = "stopping"
  /\ todo' = clients
  /\ main' = "disconnecting"
  /\ UNCHANGED <<running, listening, clients, lastLine, stale, acceptVars,
                 handler, closed, remoteVars>>

StopClose(c) ==
  /\ main = "disconnecting" /\ c \in todo
  /\ closed' = closed \cup {c}
  /\ todo' = todo \ {c}
  /\ UNCHANGED <<running, listening, clients, lastLine, main, stale,
                 acceptVars, handler, remoteVars>>

StopListening ==
  /\ main = "disconnecting" /\ todo = {}
  /\ listening' = FALSE
  /\ main' = "stopped"
  /\ UNCHANGED <<running, clients, lastLine, todo, stale, acceptVars,
                 handler, closed, remoteVars>>

Main ==
  \/ Broadcast \/ DropStale \/ Stop \/ StopCopy \/ StopListening
  \/ \E c \in Conns : BroadcastSend(c) \/ CloseStale(c) \/ StopClose(c)

-----------------------------------------------------------------------------
(* The accept thread: _accept_loop(). *)

AcceptLoop ==
  /\ acceptor = "loop"
  /\ acceptor' = IF running THEN "accept" ELSE "done"
  /\ UNCHANGED <<running, listening, clients, lastLine, mainVars, conn, last,
                 handler, closed, remoteVars>>

Accept(c) ==
  /\ acceptor = "accept" /\ listening /\ remote[c] = "queued"
  /\ conn' = c
  /\ acceptor' = "register"
  /\ \E r \in {"up", "gone"} : remote' = [remote EXCEPT ![c] = r]
  /\ UNCHANGED <<running, listening, clients, lastLine, mainVars, last,
                 handler, closed, got, shown>>

\* Mutant: after a timeout the thread goes on with its old conn.
AcceptTimeoutGoesOn ==
  /\ acceptor = "accept" /\ listening
  /\ \A c \in Conns : remote[c] # "queued"
  /\ acceptor' = "register"
  /\ UNCHANGED <<running, listening, clients, lastLine, mainVars, conn, last,
                 handler, closed, remoteVars>>

\* socket.timeout, when nobody is waiting.
AcceptTimeout ==
  /\ acceptor = "accept" /\ listening
  /\ \A c \in Conns : remote[c] # "queued"
  /\ acceptor' = "loop"
  /\ UNCHANGED <<running, listening, clients, lastLine, mainVars, conn, last,
                 handler, closed, remoteVars>>

\* accept() on the closed socket.
AcceptError ==
  /\ acceptor = "accept" /\ ~listening
  /\ acceptor' = IF running THEN "loop" ELSE "done"
  /\ UNCHANGED <<running, listening, clients, lastLine, mainVars, conn, last,
                 handler, closed, remoteVars>>

Register ==
  /\ acceptor = "register"
  /\ clients' = clients \cup {conn}
  /\ last' = lastLine
  /\ acceptor' = IF lastLine = 0 THEN "spawn" ELSE "replay"
  /\ UNCHANGED <<running, listening, lastLine, mainVars, conn, handler,
                 closed, remoteVars>>

Replay ==
  /\ acceptor = "replay"
  /\ \/ SendSucceeds(conn, last) /\ acceptor' = "spawn"
     \/ SendFails /\ acceptor' = "drop"
  /\ UNCHANGED <<running, listening, clients, lastLine, mainVars, conn, last,
                 handler, closed>>

Unregister ==
  /\ acceptor = "drop"
  /\ clients' = clients \ {conn}
  /\ acceptor' = "close"
  /\ UNCHANGED <<running, listening, lastLine, mainVars, conn, last, handler,
                 closed, remoteVars>>

CloseConn ==
  /\ acceptor = "close"
  /\ closed' = closed \cup {conn}
  /\ conn' = NoConn
  /\ acceptor' = "loop"
  /\ UNCHANGED <<running, listening, clients, lastLine, mainVars, last,
                 handler, remoteVars>>

Spawn ==
  /\ acceptor = "spawn"
  /\ handler' = [handler EXCEPT ![conn] = "reading"]
  /\ conn' = NoConn
  /\ acceptor' = "loop"
  /\ UNCHANGED <<running, listening, clients, lastLine, mainVars, last,
                 closed, remoteVars>>

Acceptor ==
  \/ AcceptLoop \/ AcceptTimeout \/ AcceptError
  \/ Register \/ Replay \/ Unregister \/ CloseConn \/ Spawn
  \/ \E c \in Conns : Accept(c)

-----------------------------------------------------------------------------
(* The thread of one connection: _client_loop().  Reading a "* PING" and   *)
(* answering it changes nothing here unless the answer cannot be sent.     *)

\* Mutant: the reading thread does not look at _running.
EndReadingLater(c) ==
  /\ handler[c] = "reading"
  /\ remote[c] = "gone" \/ c \in closed
  /\ handler' = [handler EXCEPT ![c] = "leaving"]
  /\ UNCHANGED <<running, listening, clients, lastLine, mainVars, acceptVars,
                 closed, remoteVars>>

\* Mutant: an empty chunk does not end the reading.
EndReadingDeaf(c) ==
  /\ handler[c] = "reading"
  /\ ~running \/ c \in closed
  /\ handler' = [handler EXCEPT ![c] = "leaving"]
  /\ UNCHANGED <<running, listening, clients, lastLine, mainVars, acceptVars,
                 closed, remoteVars>>

\* The loop ends: the server stopped, the end of the stream, or an error on
\* a socket that another thread closed.
EndReading(c) ==
  /\ handler[c] = "reading"
  /\ ~running \/ remote[c] = "gone" \/ c \in closed
  /\ handler' = [handler EXCEPT ![c] = "leaving"]
  /\ UNCHANGED <<running, listening, clients, lastLine, mainVars, acceptVars,
                 closed, remoteVars>>

\* A reader that is slow: its "* PONG" times out.
PongFails(c) ==
  /\ handler[c] = "reading" /\ running /\ remote[c] = "up" /\ c \notin closed
  /\ handler' = [handler EXCEPT ![c] = "leaving"]
  /\ UNCHANGED <<running, listening, clients, lastLine, mainVars, acceptVars,
                 closed, remoteVars>>

Leave(c) ==
  /\ handler[c] = "leaving"
  /\ clients' = clients \ {c}
  /\ handler' = [handler EXCEPT ![c] = "closing"]
  /\ UNCHANGED <<running, listening, lastLine, mainVars, acceptVars, closed,
                 remoteVars>>

CloseRead(c) ==
  /\ handler[c] = "closing"
  /\ closed' = closed \cup {c}
  /\ handler' = [handler EXCEPT ![c] = "done"]
  /\ UNCHANGED <<running, listening, clients, lastLine, mainVars, acceptVars,
                 remoteVars>>

Handler(c) == EndReading(c) \/ Leave(c) \/ CloseRead(c)

-----------------------------------------------------------------------------
(* The other ends. *)

Dial(c) ==
  /\ remote[c] = "new" /\ listening
  /\ remote' = [remote EXCEPT ![c] = "queued"]
  /\ UNCHANGED <<running, listening, clients, lastLine, mainVars, acceptVars,
                 handler, closed, got, shown>>

HangUp(c) ==
  /\ remote[c] = "up"
  /\ remote' = [remote EXCEPT ![c] = "gone"]
  /\ UNCHANGED <<running, listening, clients, lastLine, mainVars, acceptVars,
                 handler, closed, got, shown>>

Next ==
  \/ Main
  \/ Acceptor
  \/ \E c \in Conns : Handler(c) \/ PongFails(c) \/ Dial(c) \/ HangUp(c)

Spec == Init /\ [][Next]_vars

\* The operating system runs every thread; the main thread need not
\* broadcast or stop, but finishes what it began.
FairSpec ==
  /\ Spec
  /\ WF_vars(Main /\ main # "idle")
  /\ WF_vars(Acceptor)
  /\ \A c \in Conns : WF_vars(Handler(c))

-----------------------------------------------------------------------------
(* Properties. *)

\* Every variable keeps its type.
TypeOK ==
  /\ running \in BOOLEAN /\ listening \in BOOLEAN
  /\ clients \subseteq Conns
  /\ lastLine \in 0 .. MaxLines
  /\ main \in {"idle", "sending", "closing", "stopping", "disconnecting", "stopped"}
  /\ todo \subseteq Conns /\ stale \subseteq Conns
  /\ acceptor \in {"loop", "accept", "register", "replay", "drop", "close",
                   "spawn", "done"}
  /\ conn \in Conns \cup {NoConn}
  /\ last \in 0 .. MaxLines
  /\ handler \in [Conns -> {"none", "reading", "leaving", "closing", "done"}]
  /\ closed \subseteq Conns
  /\ remote \in [Conns -> {"new", "queued", "up", "gone"}]
  /\ got \in [Conns -> SUBSET (0 .. MaxLines)]
  /\ shown \in [Conns -> 0 .. MaxLines]

Accepted == {c \in Conns : remote[c] \in {"up", "gone"}}

\* No socket leaks: an accepted connection that no thread is busy with is
\* registered or closed, and while the server runs a registered one has a
\* thread that reads it, whichever of the three threads saw it fail first.
Settled(c) == conn # c /\ c \notin stale /\ handler[c] # "closing"

NoSocketLeak ==
  \A c \in Accepted :
    Settled(c) => /\ c \in clients \/ c \in closed
                  /\ c \in clients => handler[c] \in {"reading", "leaving"}

\* A line is never lost between the registration and the replay: when the
\* main thread is idle, a registered client that can still be reached and
\* whose replay is over has received the last line - at some time.
LastLineReceived ==
  main = "idle" =>
    \A c \in clients :
      remote[c] = "up" /\ conn # c /\ lastLine > 0 => lastLine \in got[c]

\* "replay the last snapshot" (shdr.py:39): what such a client shows is the
\* last line.  The lines are change-gated, so no other one follows soon.
LastLineShown ==
  main = "idle" =>
    \A c \in clients :
      remote[c] = "up" /\ conn # c => shown[c] = lastLine

\* Once stop() was called every connection is closed, and every thread ends,
\* also for a connection accepted while stop() ran.
StopClosesAll ==
  ~running ~> /\ acceptor = "done"
              /\ Accepted \subseteq closed
              /\ \A c \in Conns : handler[c] \in {"none", "done"}

\* A client that hung up is forgotten and its socket closed, without any
\* line having to be broadcast.
GoneIsClosed ==
  \A c \in Conns : remote[c] = "gone" ~> c \in closed /\ c \notin clients
=============================================================================
