---------------------------- MODULE SiemensAdapter ----------------------------
(***************************************************************************)
(* The Siemens adapter (adapter/siemens/adapter.py): run_loop() polls the  *)
(* controller in the main thread and emits a line when a sample differs    *)
(* from the one before, after a connect, and when a read failed.  The      *)
(* lines go through ShdrServer, which this module extends: emit() is its   *)
(* Broadcast, and the loop goes on when the broadcast has ended.           *)
(*                                                                         *)
(* A sample is read in two requests, the window of DB90 (mode, execution,  *)
(* program) and the channel byte (alarm); both are small sets here.  The   *)
(* controller's time stamp is not part of it, as in split_pack_sample().   *)
(***************************************************************************)
EXTENDS ShdrServer, Sequences

CONSTANTS
  Windows, Alarms,          \* what the two requests may read
  None,                     \* Python's None, and an item a line leaves out
  UNAVAILABLE, AVAILABLE,
  Start,                    \* what the controller may show at the start
  MaxFaults, MaxChanges     \* lost links and failed reads, and changes of
                            \* the controller: bounds of the model

ASSUME SiemensAssumption ==
  /\ None \notin Windows \cup Alarms \cup {AVAILABLE}
  /\ UNAVAILABLE \notin Windows \cup Alarms \cup {AVAILABLE, None}
  /\ MaxFaults \in Nat /\ MaxChanges \in Nat
  /\ Start \subseteq [window : Windows, alarm : Alarms]
  /\ MaxLines >= 1 + 2 * MaxFaults + 2 * MaxChanges

Sample == [window : Windows, alarm : Alarms]

VARIABLES
  at,           \* where run_loop() is: "top", "window", "chan", "ended"
  plc,          \* "none" or "open"
  first,        \* this read is the one right after connect()
  window,       \* what the first request read
  previous,     \* last, the sample of the line before, or None
  quit,         \* a signal has cleared _running of adapter.py
  sent,         \* the lines emitted, by number
  view,         \* what each remote end shows of the machine
  device,       \* the controller: what the requests would read now
  link,         \* it can be reached
  alive,        \* the connection behind plc works
  faults, changes

loopVars == <<at, plc, first, window, previous, quit, sent>>
deviceVars == <<device, link, alive, faults, changes>>
allVars == <<vars, loopVars, view, deviceVars>>

Blank == [avail |-> UNAVAILABLE, window |-> UNAVAILABLE, alarm |-> UNAVAILABLE]

SiemensInit ==
  /\ Init
  /\ at = "top" /\ plc = "none" /\ first = FALSE
  /\ window = None /\ previous = None
  /\ quit = FALSE
  /\ sent = << >>
  /\ view = [c \in Conns |-> Blank]
  /\ device \in Start
  /\ link = "up" /\ alive = FALSE
  /\ faults = 0 /\ changes = 0

-----------------------------------------------------------------------------
(* Lines: format_shdr() leaves out what the sample does not name, and a    *)
(* remote end goes on showing the value it has of such an item.            *)

LossLine == [avail |-> UNAVAILABLE, window |-> None, alarm |-> None]

SampleLine(s) == [avail |-> AVAILABLE, window |-> s.window, alarm |-> s.alarm]

Merged(shows, line) ==
  [item \in DOMAIN shows |-> IF line[item] = None THEN shows[item] ELSE line[item]]

Receive ==
  view' = [c \in Conns |-> IF shown'[c] = shown[c] THEN view[c]
                           ELSE Merged(view[c], sent[shown'[c]])]

\* Mutant: what the line before said is left out.
emitChanges(line) ==
  /\ Broadcast
  /\ sent' = Append(sent,
       IF sent = << >> THEN line
       ELSE [i \in DOMAIN line |->
               IF line[i] = sent[Len(sent)][i] THEN None ELSE line[i]])

emit(line) ==
  /\ Broadcast
  /\ sent' = Append(sent, line)

-----------------------------------------------------------------------------
(* run_loop(), in the main thread. *)

Resting == main = "idle"

\* connect() succeeds; while it fails the loop sleeps and tries again.
Connect ==
  /\ Resting /\ at = "top" /\ ~quit /\ plc = "none" /\ link = "up"
  /\ plc' = "open" /\ alive' = TRUE
  /\ first' = TRUE
  /\ at' = "window"
  /\ UNCHANGED <<vars, window, previous, quit, sent, view, device, link, faults, changes>>

Poll ==
  /\ Resting /\ at = "top" /\ ~quit /\ plc = "open"
  /\ first' = FALSE
  /\ at' = "window"
  /\ UNCHANGED <<vars, plc, window, previous, quit, sent, view, deviceVars>>

ReadWindow ==
  /\ Resting /\ at = "window" /\ alive
  /\ window' = device.window
  /\ at' = "chan"
  /\ UNCHANGED <<vars, plc, first, previous, quit, sent, view, deviceVars>>

\* Mutant: only the channel byte is compared.
ToEmitAlarm == first \/ device.alarm # previous.alarm

\* The first sample is emitted whatever it is, a later one when it differs.
ToEmit == first \/ [window |-> window, alarm |-> device.alarm] # previous

ReadAlarm ==
  /\ Resting /\ at = "chan" /\ alive
  /\ LET s == [window |-> window, alarm |-> device.alarm] IN
       IF ToEmit
       THEN emit(SampleLine(s)) /\ previous' = s
       ELSE UNCHANGED <<vars, previous, sent>>
  /\ at' = "top"
  /\ window' = None
  /\ UNCHANGED <<plc, first, quit, view, deviceVars>>

\* Mutant: a read that fails right after connect() is not reported.
ReadFailsFirst ==
  /\ Resting /\ at \in {"window", "chan"}
  /\ \/ ~alive /\ UNCHANGED faults
     \/ alive /\ faults < MaxFaults /\ faults' = faults + 1
  /\ IF first THEN UNCHANGED <<vars, sent>> ELSE emit(LossLine)
  /\ plc' = "none" /\ alive' = FALSE
  /\ previous' = None
  /\ window' = None
  /\ at' = "top"
  /\ UNCHANGED <<first, quit, view, device, link, changes>>

\* Mutant: the sample before is kept over the loss.
ReadFailsKeeps ==
  /\ Resting /\ at \in {"window", "chan"}
  /\ \/ ~alive /\ UNCHANGED faults
     \/ alive /\ faults < MaxFaults /\ faults' = faults + 1
  /\ emit(LossLine)
  /\ plc' = "none" /\ alive' = FALSE
  /\ window' = None
  /\ at' = "top"
  /\ UNCHANGED <<first, quit, previous, view, device, link, changes>>

\* One of the requests fails: the link is gone, or the controller refuses.
ReadFails ==
  /\ Resting /\ at \in {"window", "chan"}
  /\ \/ ~alive /\ UNCHANGED faults
     \/ alive /\ faults < MaxFaults /\ faults' = faults + 1
  /\ emit(LossLine)
  /\ plc' = "none" /\ alive' = FALSE
  /\ previous' = None
  /\ window' = None
  /\ at' = "top"
  /\ UNCHANGED <<first, quit, view, device, link, changes>>

\* _running is found cleared: run() stops the server.
End ==
  /\ at = "top" /\ quit
  /\ Stop
  /\ at' = "ended"
  /\ UNCHANGED <<plc, first, window, previous, quit, sent, view, deviceVars>>

Loop == Connect \/ Poll \/ ReadWindow \/ ReadAlarm \/ ReadFails \/ End

\* A step of the server that is not a call of the loop: the rest of a
\* broadcast or of stop(), the accept thread, a reader, a remote end.
ServerMain ==
  \/ DropStale \/ StopCopy \/ StopListening
  \/ \E c \in Conns : BroadcastSend(c) \/ CloseStale(c) \/ StopClose(c)

Remote == \E c \in Conns : PongFails(c) \/ Dial(c) \/ HangUp(c)

Beside(step) == step /\ Receive /\ UNCHANGED <<loopVars, deviceVars>>

Server ==
  \/ Beside(ServerMain) \/ Beside(Acceptor) \/ Beside(Remote)
  \/ \E c \in Conns : Beside(Handler(c))

-----------------------------------------------------------------------------
(* The operator and the controller. *)

\* handle_shutdown().
Signal ==
  /\ ~quit
  /\ quit' = TRUE
  /\ UNCHANGED <<vars, at, plc, first, window, previous, sent, view, deviceVars>>

DeviceChanges ==
  /\ changes < MaxChanges
  /\ changes' = changes + 1
  /\ device' \in Sample \ {device}
  /\ UNCHANGED <<vars, loopVars, view, link, alive, faults>>

LinkLost ==
  /\ link = "up" /\ faults < MaxFaults
  /\ link' = "down"
  /\ alive' = FALSE
  /\ faults' = faults + 1
  /\ UNCHANGED <<vars, loopVars, view, device, changes>>

LinkBack ==
  /\ link = "down"
  /\ link' = "up"
  /\ UNCHANGED <<vars, loopVars, view, device, alive, faults, changes>>

Environment == Signal \/ DeviceChanges \/ LinkLost \/ LinkBack

SiemensNext == Loop \/ Server \/ Environment

SiemensSpec == SiemensInit /\ [][SiemensNext]_allVars

\* Every thread runs; no socket or controller call blocks for good.
SiemensFairSpec ==
  /\ SiemensSpec
  /\ WF_allVars(Loop \/ Beside(ServerMain))
  /\ WF_allVars(Beside(Acceptor))
  /\ \A c \in Conns : WF_allVars(Beside(Handler(c)))

-----------------------------------------------------------------------------
(* Properties. *)

\* Types of the loop's part; every number has its line, and no sample is
\* kept from a connection that was lost.
SiemensTypeOK ==
  /\ at \in {"top", "window", "chan", "ended"}
  /\ plc \in {"none", "open"} /\ first \in BOOLEAN /\ quit \in BOOLEAN
  /\ window \in Windows \cup {None}
  /\ previous \in Sample \cup {None}
  /\ plc = "none" => previous = None
  /\ Len(sent) = lastLine
  /\ device \in Sample /\ link \in {"up", "down"} /\ alive \in BOOLEAN

\* What the remote end c was sent last is the last line.
InStep(c) == c \in clients /\ remote[c] = "up" /\ lastLine > 0 /\ shown[c] = lastLine

\* A remote end whose last line is the last one shows the machine as the
\* loop knows it, whether it had the lines broadcast or only the last one
\* replayed: every item of the last sample while the controller is connected,
\* and a controller that is not available after a loss - never the values of
\* before as if they were current (run_loop(), format_shdr()).
ViewIsTrue ==
  at = "top" =>
    \A c \in Conns : InStep(c) =>
      IF plc = "open"
      THEN view[c] = SampleLine(previous)
      ELSE view[c].avail = UNAVAILABLE

\* "On PLC loss emit avail|UNAVAILABLE" (adapter.py:120): a connection to the
\* controller that broke is reported, unless the process ends first.
LossReported ==
  (plc = "open" /\ ~alive) ~> (sent # << >> /\ sent[Len(sent)] = LossLine) \/ at = "ended"

\* While the controller can be reached, the last line comes to be what it
\* reads now, in both parts, however a change fell between the two requests;
\* unless the link is lost again or the process ends.
Follows ==
  link = "up" ~> \/ sent # << >> /\ sent[Len(sent)] = SampleLine(device)
                 \/ link = "down" \/ at = "ended"
=============================================================================
