# A TLA+ model of the MTConnect adapters

The repository is a family of MTConnect adapters: programs that read a machine's
controller and offer what they read, as lines of the SHDR protocol, to MTConnect
agents that connect to a TCP port. The C++ adapters share one library
(`src/src`); each product adds the code that reads its controller (`src/fanuc`,
`src/balluff`, ...). The Siemens adapter (`src/adapter/siemens`) is a separate
program in Python with its own SHDR server.

The modules here model the shared C++ library in both its builds, the Fanuc
adapter on top of it, the Siemens program with its SHDR server, and how the
Balluff adapter follows the assets of an agent. Paths below are relative to `src/`.

## 1. Inventory

| Component | State it keeps | Operations | Hard behaviour | What makes it correct |
|---|---|---|---|---|
| Condition (`src/condition.cpp`) | array of active alarms with changed, marked and placeholder flags; mBegun, mPrepared, mChanged | begin, add, remove, prepare, append, cleanup, normal, unavailable | mark and sweep over scans, reconnects and flushes in between | the agent shows the alarms of the last scan, no alarm is stuck |
| Data items (`src/device_datum.cpp`) | value, mChanged, mHasValue, mUnavailable | setValue, unavailable, append | change detection by kind: epsilon, buffer size, missing values | what was sent last is what the device said last |
| Server, Client (`src/server.cpp`, `src/client.cpp`) | array of clients and its length, heartbeat times | connectToClients, addClient, readFromClients, sendToClient(s), removeClient | entries removed while a loop runs over them; failures of a peer at any time; a `send()` without a timeout | list equals the open connections; only dead or late clients are dropped |
| Main loop (`src/adapter.cpp`) | items, the buffer, mInitializeClient, mDisableFlush | startServer, sendInitialData, sendChangedData, flush, unavailable | changes are cleared when sent, to whomever | every client has every change |
| Threaded build (`src/adapter.cpp`, `adapter.hpp`, `threading.hpp`) | the same, under mGatherLock and mListLock | serverThread, beginGather, completeGather, AutoGather | the device's threads write to clients while the server thread accepts and removes them; locks that are not recursive | no line is shared, every client in step, nobody waits forever |
| Fanuc (`fanuc/*.cpp`) | library handle, mConnected, mConfigured, paths, items | connect, configure, gather of paths, macros, PMC, messages, disconnect | the link is lost, or a read fails, between any two calls; clients that come in the middle of it | nothing of a lost connection is shown; recovery; no handle leaks |
| SHDR server, Python (`adapter/siemens/shdr.py`) | clients, last line, running | broadcast, stop, accept with replay, reader threads | three kinds of threads close and unregister connections; replay races with broadcast | no socket leaks, no line is lost, stop ends everything |
| Siemens poll loop (`adapter/siemens/adapter.py`, `families/`) | last sample, connection | run_loop, pack, split | reconnects, change gate, absent values | clients know whether the controller is there |
| Balluff, agent side (`balluff/stream.c`, `agentMonitor`) | position and instance of the agent, the block being parsed | current, stream, HandleData, watchdog, resume | links cut anywhere or silent, requests that nothing ends, agent restarts, documents split or joined by the transport | each document is handed over once, in order, none left out |
| Balluff, RFID side (`balluff_adapter.cpp`) | outgoing asset id, current hash, RFID state | read and write of RFID | two threads without a common lock, a flaky device | no new asset id is lost, RFID and agent agree |
| ConnectOne (`c1/`) | devices and items created while streaming | handleMTConnectSamples, getOrCreateDevice | items added while the loop iterates | every item is sent |
| Krishna, Modbus, Haas, WattNode, ADC | device connections | poll loops with retries | retries after half of a scan | as the main loop |
| OPC, Delphi, Audio, EMC, Fake | vendor interfaces | poll | none beyond the loop | as the main loop |
| Assets, time series, buffers, configuration, logging, serial, services | small | formatting and I/O | none | - |

The components interact by calls within one thread: the main loop
(`Adapter::startServer`) accepts a client, reads the clients through the server,
calls the product's `gatherDeviceData`, which calls `setValue` or `unavailable`
of the items and `add` of the conditions, and writes what changed through the
server. In the threaded build a server thread does the accepting, reading and
initial data, and the device's threads send what they gather, each under
`mGatherLock`. Remote ends act at any time. In the Python server the main thread and
the other threads share `_clients` and `_last_line` under one lock; sends and
closes happen outside of it.

Everything in this code that is hard to test is listed, at its line, under
`hazards` in `PROJECT.json`, with the properties that cover it.

## 2. Modules

```
AlarmFeed  <---implemented by---  Condition  <- MCCondition
                                      ^
                               ConditionProofs

Server <- Adapter <- MCAdapter          DeviceDatum <- DatumFeed <- MCDatumFeed
  |          ^                                |             ^
  |       AdapterProofs (and ServerProofs)    |        DatumProofs
  |                                           |
  +------ ThreadedAdapter <- MCThreadedAdapter|
             ^                                +--- FanucAdapter <- MCFanucAdapter
          ThreadedProofs (and ServerProofs)            ^
                                                   FanucProofs
ShdrServer <- MCShdrServer               AssetStream <- MCAssetStream
  |                                          ^
  +------ SiemensAdapter <- MCSiemensAdapter |
             ^                           StreamProofs
          SiemensProofs
```

(`A <- B`: B extends A.) Every definition that stands for code is listed in
`PROJECT.json` under `map`, with its lines. Definitions commented as "Mutant" are
faulty variants of the definition after them; they are part of no specification
and are there to show that the properties notice the fault.

**Condition**. `list` is `mActiveList`; an entry has the fields of
`ActiveCondition`, with text, qualifier and severity as one `detail`.
`AddTo`, `ClearTo`, `RemoveFrom`, `Sweep`, `AppendLines` and `AppendList` are the
methods; the actions call them in the order of the main loop, including
`flush()` in a gather (`ClearAll`) and the gather for a new client, which runs
without `begin()`. `mSimple` is chosen once. `agent` is what a receiver shows
after the lines it was sent; the receiver (the agent) is external and follows
the SHDR convention for conditions. `device` and `pending` record what the calls
say of the device: inside a sweep the marked alarms count when `prepare()` runs.

**AlarmFeed** is the abstract promise of a condition: the agent moves from one
complete report to a later one, and gets there. `Condition` implements it with
`shown <- agent`: checked as `FeedSpec`, and proved up to the fairness.

**DeviceDatum** is the data item as a record, by five kinds: text of limited
length, integers and enumerations, samples with `mEpsilon`, positions,
availability. Values are integers: for a text in `Long` (at least
`EVENT_VALUE_LEN` characters) what is stored is the cut value, `-v`.
**DatumFeed** drives one item as the loop does, for one client.

**Server** is the client array, one operation per method, and the connections as
the operating system keeps them (`peer`, `backlog`, `pings`). `stalled` are the
peers that are connected and do not read, with full buffers: `Client::write` is a
`send()` on a blocking socket without a timeout (`client.cpp:57`; of the options
`server.cpp:222-232` sets only `TCP_NODELAY`), so a write to one of them is a step
that cannot be taken until the peer reads, hangs up or is lost. The clock is
reduced to the set `late` of clients whose last heartbeat is older than
`mTimeout`. **Adapter** is the single threaded main loop over it: each step is one
iteration of a loop, or one call between two. The gather is any change of the
items' values; an item is opaque and its line a pair of item and value. `flush`
counts the `flush()` a gather may call, at most one in a scan.

**ThreadedAdapter** is the same library built with `THREADED`: the server thread
(`serverThread`) and any number of device threads that gather with
`beginGather`/`completeGather` (the class `AutoGather`). A step is one iteration
of a loop or the acquisition of a lock with what follows it; the locks are
variables that name their holder. `mBuffer` is the set of the items appended,
each with the thread that appended it, so that a line mixed from two gathers is
visible. The window in which a client is in the list but its initial data have
not begun (`pc = "lockInitial"`) is there: other threads may write to it, and
delete it. `Heartbeating` limits which remote ends use heartbeats, to bound the
instance. The module is the contract of the library: the subclass sets values
inside a gather only. The products of this repository that are threaded
(ConnectOne, Balluff, Audio) do not use `beginGather`; they set and send values
outside of `mGatherLock`, so what is shown here does not carry over to them (see
the hazards).

**FanucAdapter** is the gather of the Fanuc product between any number of clients
and the controller. A turn of the loop accepts at most one client, whose initial
data is gathered and sent to it alone, and then scans for all; what is sent at
once is one step, which waits for receivers that do not read. `missed` is history:
the items of a client whose last change was sent in the initial gather of another
one (the code's flaw, see 5), until they are sent to all again. One item stands
for all that are read by the same FOCAS calls, and its value is the number of the
connection in which it was read, so a stale value is visible as such. The FOCAS
library is external: a call may fail at any time, with the link or without it, and
does on a connection whose link was lost, which never works again; `MaxSessions`
bounds both. Details kept because they matter: `mActiveAxes` is a `StaticEvent`,
whose `unavailable()` does nothing; tool data are given up when they failed
(`ReadTool`); the program comment may or may not be read in a scan, because
`mProgramNum` starts uninitialised; a vacant macro of a position marks the sample
of the same index (`ReadMacros`), and without one calls what happens to be in that
slot, which may end the process (`AfterMacros`). `reconnect()` has no caller.

**ShdrServer** is the Python server with all its threads. A step is the stretch
of a thread between two points where another one can run. A send may fail at any
time (slow reader, 0.5 s timeout) and succeeds only on an open socket. Lines are
numbered. The split of input in `* PING` lines is left out, a failing `* PONG`
is not.

**SiemensAdapter** puts `run_loop()` on top of `ShdrServer`, in the same main
thread: `emit()` is the server's broadcast, and the loop goes on when it has
ended. A sample is read in two requests with the controller free to change
between them; a failed request, a lost link and a signal may come at any point.
`sent` are the contents of the numbered lines, and `view` is what a remote end
shows, an item that a line leaves out keeping its value. `SiemensSpec`
implements `ShdrServer!Spec`, so its properties hold of the program.

**AssetStream** is the agent side of the Balluff adapter: `agentMonitor()`, the
callbacks of `stream.c` and the watchdog thread. The agent is external: it numbers
what it records, keeps the last `BufferSize` of it, refuses any other position,
and begins at 1 in a new instance. The bytes of a document count as three pieces,
which end where the parser looks (boundary, blank line, end of the XML); one call
of `HandleData()` brings any number of pieces, and with `Coalescing` also pieces
of two documents. `nul` is the NUL that ends the XML in place of the first byte
behind it. A document without a header ends the stream with its position not taken
(`Refuse`). The handler of a document that names a changed asset requests it from
within `HandleData()` (`pc = "asset"`). That request and the one for the position
go through `MTCWebExecute()`, which has no timeout and no watchdog: `Hang` is a
link that goes silent in one of them, after which the thread does nothing any
more. `handed` are the non-empty documents given to `HandleXmlChunk()`, with the
instance the monitor knew.

## 3. Runs

| Run | Instance | States | Shows |
|---|---|---|---|
| condition | 3 codes, 1 detail, levels WARNING and FAULT, plain and simple | 174k | `AgentInStep`, `ListShape`, `NoOrphanAlarm`, refinement `FeedSpec` |
| adapter_data | 2 clients, 2 slots, 2 items (one flushes), 2 values, both may stop reading | 4.1M | `ClientListExact`, `LoopsStayInList`, `OnlyLateDropped`, `NewestInStep`, `ScanReachesAll` |
| adapter_live | 2 clients, 1 slot, 1 item, both may stop reading | 10.6k | type correctness at the limit, `AcceptedEventually`, `ClosedRemoved`, `SilentRemoved` |
| shdr | 2 connections, 2 lines | 177k | `NoSocketLeak`, `LastLineReceived`, `StopClosesAll`, `GoneIsClosed` |
| datum | values 0..6, two of them texts that are cut, epsilon 2, every kind | 2.9k | `ShownIsTold`, `NoFalseChange` |
| fanuc | 2 clients, both may stop reading, 1 path, a macro position, 2 connections | 0.30M | `HandleBalanced`, `LostMeansUnavailable`, `OneConnection`, `Recovers` |
| siemens | 1 connection, 5 lines, 1 fault, 1 change | 0.69M | `ViewIsTrue`, `LossReported`, `Follows` |
| threaded | 2 clients, 2 slots, 1 device thread, 2 items (one flushes), both may stop reading | 0.50M | `LoopsStayInList`, `OneGatherPerLine`, `ClientsInStep`, `GatherCompletes`, `InitialDataSent` |
| stream | 3 observations, agent keeps 2, 2 faults | 0.28M | `ResumesExactly`, `ChangeReported` |
| adapter_every_client | as adapter_data | - | violation, see 5 |
| shdr_replay | 1 connection, 2 lines | - | violation, see 5 |
| stream_coalesced | as stream, with documents that share a call | - | violation, see 5 |

**Bounds.** *Condition*: an alarm interacts with others only through the tests "is
it alone" and "has it my code"; three codes give a list with a swept, a kept and a
new alarm at once. *Adapter*: two clients are the least for a removal to move the
other one's slot while a loop runs; two items, the second of which flushes, reach
every branch of `sendDatum`; two values tell a stale view from a fresh one; with
one slot for two connections the limit is met. The list properties are proved for
every number of clients. *ShdrServer*: each connection may be seen to fail by the
main, the accept and its own thread; two connections are enough for one to be
served while the other is closed, two lines for a replay of the first to overtake
the second. Safety is proved for any number. *DatumFeed*: an epsilon of 2 and
values to 6 let three steps below the epsilon drift past it; two of the values are
texts that are cut, so that one follows another. *FanucAdapter*: `MaxSessions`
bounds the connections to the controller: two are needed to tell a value of a lost
connection from a current one, and the last one neither breaks nor fails; two
clients, for a loss or a reconnect in the initial gather of one to leave the other
behind. With both of these TLC is given one path; several paths, for a loss
between them, are in the proofs, as is every other number. Of the items of the
machine the run follows the macro position, without the samples it writes to.
`Stalling` names the clients that may stop reading, which are all of them in every
run. *SiemensAdapter*: one fault and one change may fall anywhere, also between
the two requests; five lines are the most they can cause. *ThreadedAdapter*: one
device thread and the server thread are the two parties to every race of the
locks; instances with two device threads have been checked as well, and safety is
proved for any number. *AssetStream*: `MaxFaults` counts lost and slow links,
failed and hanging requests, documents without a header, and restarts; two allow a
loss during the resumption after another one, and a restart within it; a buffer of
two against three observations lets the saved position fall out of it. Symmetry is
used only in a run without liveness.

**Deadlock** is checked except in ShdrServer and SiemensAdapter, which stop after
`stop()`, in FanucAdapter, where `configure()` ends the process when a path cannot
be set up, and in AssetStream, where `HandleHeader()` calls `exit()` and a request
may hang. In the other runs it shows little, because a remote end can nearly
always do something. That the two locks of the threaded build are not waited for
in a circle is `GatherCompletes`, and follows for any number of threads from
`ThreadInv`: `mGatherLock` is taken first, and nobody waits for it who holds
`mListLock`.

**Fairness.** *Condition*: weak fairness of the loop as a whole; a receiver is one
that reads. *Adapter, FanucAdapter*: the loop is one thread, of which only
`send()` may never return: `select()` has a timeout, `accept` is not waited for
(it is called when `select()` has reported a connection), and `cnc_*` calls are
taken to return. A `send()` goes on whenever the peer reads again, which is strong
fairness of the steps that send (`Sends`), beside weak fairness of the rest. No
peer owes that it reads: one that stays connected and does not read keeps the loop
in `send()` for ever, and no heartbeat check can drop it then, because the check
is in the same loop (`client.cpp:57`, `server.cpp:165-179`). So every liveness
property of these modules begins with `EveryoneReads`: it is promised as long as
no client stops reading for good while it stays connected. *Adapter* also assumes
that time passes for a silent client (`GoLate`). `Recovers` is conditional further
on a link and a client that stay.

*ThreadedAdapter*: weak fairness of each thread, of a device thread within a
gather only (none need begin one), and strong fairness of a `send()`, as above.
POSIX mutexes promise no thread its turn, so taking a lock is only weakly fair,
with one exception: a gather that waits for `mListLock` takes it some time while
the server thread, the only other one that wants it then, sleeps between its turns
(`serverThread`). `mGatherLock` has no such rest, since the device's threads may
take it again and again: `InitialDataSent` is conditional on the device falling
quiet in the end (`DevicesQuiet`), and both properties on `EveryoneReads`, because
a `send()` that blocks keeps `mListLock` and `mGatherLock`.

*ShdrServer*: weak fairness of the accept thread and each reader, whose socket
calls have timeouts, and of the main thread within a call; it need never broadcast
or stop. Nothing is assumed of remote ends. *SiemensAdapter* adds weak fairness of
the loop. *AssetStream*: weak fairness of the monitor, the watchdog and the clock,
of an agent that is connected and has something new, and of a request that has not
hung; a request that hangs (`Hang`) never ends, and `ChangeReported` excepts that.
The faults are bounded, so the stream holds in the end.

## 4. Proofs

All proofs are checked by TLAPS for every value of the constants that the named
assumptions (`ConditionAssumption`, `ServerAssumption`, `AdapterAssumption`, `ShdrAssumption`,
`DatumAssumption`, `FeedAssumption`, `FanucAssumption`, `SiemensAssumption`,
`ThreadedAssumption`, `StreamAssumption`) allow; TLC evaluates
those in the runs.

* **ConditionProofs.** `ScanReachesAgent`: a scan that has been sent leaves the
  agent with the alarms it reported. `ShapeKept`, `AlarmsClearable`: the list that
  makes it so keeps its shape, and has a way to clear all that the agent shows.
  `ImplementsFeed`: every step is one of `AlarmFeed`. The property holds at the end
  of a scan only, so `ConditionInv` follows a scan through three facts. The list is
  good (`GoodList`): besides its shape, an entry with a code is an alarm or a
  NORMAL that is not marked, and a lone one is an alarm - `add()` drops a lone
  NORMAL without writing it. The list is the device (`DeviceInv`), except that while
  a sweep gathers it is the marked entries that are the report so far. And the agent
  is behind the list by no more than the lines of its changed entries (`AgentInv`
  with `Behind`): an entry that is not marked as changed is shown, and what else
  is shown has an entry or is wiped by a changed placeholder. The flags say when
  that makes `append()` write enough (`FlagInv`). Each method has a lemma that says
  what it does to such a list (`AddToIs`, `SweepIs`, `DroppedIs`, ...).
  `ObserveAll` and `Picked` are recursive functions over a list of any length. What
  they compute is shown by induction over a set of numbers instead of a predicate,
  which `WFMin` of the library gives (`Induction`), and the functions exist by
  `Recursion`: lines with different codes replace what was shown of those codes,
  in whatever order they come (`ObserveCoded`), and `Picked` takes each chosen
  entry once (`PickedFrom`).
* **ServerProofs, AdapterProofs.** `ListIsExact`: the used slots are the open
  connections, each once. It is not inductive: `AddClient` needs that a waiting
  connection is not in the list and waits once, hence `ServerInv` adds that
  the backlog holds each waiting connection once, and `AdapterInv` that the
  index of the running loop is in the list (the client it names is a listed
  one). The heart is `RemoveListed`: closing
  the gap with `memmove` keeps the other clients, shown with the map from each
  new slot to the old one (`ShiftedSlots`). `LoopsAreBounded` follows from
  counting down; a removal in slot `idx` leaves `idx - 1` used. `OthersKept` is
  an action property: any step that turns an open peer into "away" is the
  heartbeat check of a late client. `NewestIsInStep` and `ScansReachAll` speak of
  the end of a scan; `SentInv` says what holds on the way there: the newest
  client, and any open client for an item of the running scan, has the item's
  value, or the item is still ahead of the loop, or it is in the buffer and the
  loop over the list has not been at that client (`Due`, `Passed`).
* **SiemensProofs, the server.** `NoLeak`: an accepted connection that no thread is about
  to close is registered or closed. The strengthening `OwnerInv` says for each
  accepted connection who is responsible for it: the accept thread (`conn`), its
  reader, or the main thread (`stale`). `NoLineLost`: a registered, reachable
  client has received the last line when the main thread is idle; the
  strengthening splits clients into those still in `todo`, those in `stale`, and
  the one being replayed, whose `last` is the last line or whose broadcast is
  under way.
* **DatumProofs.** `ShownFollows`: what the client shows is what the device said
  last, up to epsilon, for all kinds, epsilons and ranges; the strengthening
  `FeedInv` says that an item that is not marked as changed is already shown.
  `NothingFalselyChanged`: an item that is told again what it was told is not
  marked, whatever texts are cut (`Long` is any set), except for such a text
  itself; of that section 5 says what happens.
* **FanucProofs.** `HandleIsBalanced`: one handle when connected and none
  otherwise, with the strengthening that only a connected gather is reading and
  only an unconnected one connects (`HandleInv`). `LostIsUnavailable` and
  `OnlyThisConnection` hold between gathers, and the step that makes them true sends
  what was marked long before. `FanucInv` therefore says where the gather is and
  which items exist (`PlaceInv`, from which `FanucTypeCorrect`), what an item may
  hold (`Sound`: it is unavailable, never set, or of this connection; `mAvail` is
  the connection), and that an item that is not marked is what each client shows
  that has not missed it (`ShownInv`), where the client that waits for its
  initial data shows nothing yet (`Waiting`). Any number of clients, paths and
  connections, and any of them not reading. A value read is the number of its
  connection, which `FanucAssumption` keeps out of `Long`: it is no text that would
  be cut.
* **SiemensProofs, the program.** `ProgramImplementsServer`: every step of the program is a
  step of the server or leaves it alone, hence `ProgramLeaksNoSocket`.
  `RemoteEndsShowTheMachine`: the strengthening `LastLineInv` says where the last
  line comes from (the sample known, or a loss), and that a client that lags
  agrees with the line it has.
* **ThreadedProofs.** `ThreadInv`, for any number of threads: the lock variables
  agree with the program counters (only the holder of `mGatherLock` has the
  buffer, only the holder of `mListLock` is in a loop over the clients), and
  `ServerInv`. From it follow `ThreadsKeepList` and `LinesAreWhole`.
  `ThreadsKeepClientsInStep` needs `DataInv`: while a gather is being sent,
  every client has each item's value, or the item is still marked, in the buffer,
  or in the part of the loop not yet done.
* **StreamProofs.** `ResumeIsExact`: `DocsInv` says that the documents under way
  continue each other from the monitor's position to the agent's, unless a NUL
  hides them, and `HandedInv` and `LastInv` tie what was handed over to that
  position, in the instance that the next document will be of. It holds for
  documents that share a call too: the stream then stops, but skips nothing.

Only model-checked: liveness (out of the prover's reach), and with it the fairness
in `FeedSpec`. Every invariant that a run checks is proved.

## 5. What the runs found

1. *adapter_every_client*: the gather for a new client clears `mChanged` after
   sending to that client alone; clients connected before miss the values it
   read (`src/adapter.cpp:354`).
2. *shdr_replay*: the replay of the last line may arrive after a newer broadcast
   and leave the client with the older line (`adapter/siemens/shdr.py:120`).
3. *stream_coalesced*: when one call of `HandleData()` brings the end of a
   document and the beginning of the next, the NUL that terminates the first
   hides everything behind it; the stream stays open, its heartbeats keep the
   watchdog quiet, and no change is handed over any more
   (`balluff/stream.c:187`).

Also met, without a run of their own: `Condition::add()` of an alarm after
`normal()` in one scan would leave older alarms at the agent (no adapter here does
so; the guard of `AddAlarm` says it), and so would `add(eNORMAL, code)` as the
first call of a scan, followed by `add()` of another code: the lone NORMAL is
dropped before it is written and the agent keeps the alarm (no adapter here passes
eNORMAL with a code; `ReportLevels` says it). `test/condition_test.cpp:83-84`
expects `append()` to write without `prepare()`, which `condition.cpp:132`
requires. The call of `clientsDisconnected()` cannot be reached
(`src/adapter.cpp:256`), although the OPC adapter relies on it. A text of 512
bytes or more is found changed whenever it is set (`src/device_datum.cpp:132`);
`NoFalseChange` says that nothing else is. In the Fanuc adapter the first of the
findings means that a loss or a reconnect which the gather for a new client runs
into is sent to that client alone: the others keep showing the old connection, or
UNAVAILABLE, until an item changes again (`missed`; `LostMeansUnavailable` and
`OneConnection` except exactly that). A client that stays connected and does not
read stops the whole adapter (`src/client.cpp:57`, see Fairness), and so does, for
the Balluff adapter's thread, an agent that goes silent while it is asked for its
position or an asset (`balluff/stream.c:347`). A client whose initial data cannot
be written is deleted and written to again (`src/server.cpp:184`). An agent that
restarts between the answer to `current` and the request of the stream is followed
from the old position, and what it records until the next reconnect's `current`
may be skipped; `NothingSkipped` leaves that case out
(`balluff/balluff_adapter.cpp:212`).

## 6. Not modelled

Formatting of values and time stamps; assets; the arithmetic of the millisecond
clock; vendored libraries, generated code and services. The RFID side of Balluff
and ConnectOne: their threads share variables without a lock that orders the
accesses, so nearly every property one would state of them fails in a data race;
the races are listed as hazards. The watchdog of a stream that has been freed:
it reads freed memory. The other products are poll loops around a vendor's
interface, with no control beyond the shared loop. `components` in
`PROJECT.json` gives each with its reason.

## 7. Plan

Done: the core library in both builds, Condition, data items, Fanuc, the Siemens
program, the agent side of Balluff. What would come next, in this order:

1. The clock arithmetic of the heartbeats modulo 2^w.
2. The RFID side of Balluff, once its threads agree on a lock.
3. The retry loops of Krishna, Modbus and Haas.
