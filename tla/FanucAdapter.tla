---------------------------- MODULE FanucAdapter ----------------------------
(***************************************************************************)
(* FanucAdapter (fanuc/fanuc_adapter.cpp, fanuc_path.cpp): the gather that *)
(* the main loop calls, between the controller and the clients.  A gather  *)
(* connects to the controller, or reads its paths and then the messages,   *)
(* macros, PMC values and counts.  One step is one group of FOCAS calls,   *)
(* so the link can be lost between any two of them; what is sent at once   *)
(* goes to all its receivers in one step, which waits for those that do    *)
(* not read.                                                               *)
(*                                                                         *)
(* A data item is a pair of a name and a path, 0 for the items of the      *)
(* whole machine; one item stands for all that are read in the same calls. *)
(* Its value is the number of the connection in which it was read.         *)
(* Conditions are module Condition, the list of clients and a write that   *)
(* fails Adapter; there is room in the list for all of Clients.            *)
(***************************************************************************)
EXTENDS DeviceDatum, Sequences

CONSTANTS
  Clients,       \* remote ends
  NULL,          \* no client
  Stalling,      \* those that may stop to read while they stay connected
  MaxPaths,      \* paths the controller may have
  Followed,      \* the items of the whole machine an instance looks at: the
                 \* message, the count, and those that adapter.ini adds
  MaxSessions    \* connections to the controller, a bound of the model: the
                 \* last of them is not lost, and no read of a path fails in it

ASSUME FanucAssumption ==
  /\ NULL \notin Clients /\ Stalling \subseteq Clients
  /\ MaxPaths \in Nat \ {0}
  /\ MaxSessions \in Nat \ {0}
  /\ Followed \subseteq {"message", "count", "macro", "macropath", "pmc"}
  /\ Long \cap (1 .. MaxSessions) = {}   \* no value that is read here is cut

VARIABLES
  items,        \* mDeviceData: the items added so far
  mConnected,
  mConfigured,
  mMaxPath,     \* 0 before configure(); then also mPaths.size()
  toolData,     \* of each path: "management" while mToolManagementEnabled,
                \* "modal" while mUseModalToolData, "none" when neither
  handles,      \* library handles allocated and not freed
  session,      \* connections made
  alive,        \* the connection behind mFlibhndl works
  link,         \* the controller can be reached
  pc,           \* the next group of calls; "idle" and "read" before and after
                \* the initial data of a turn of the loop
  path,         \* the path being configured or read
  mInitializeClient,  \* also mDisableFlush, which is set while it is
  client,       \* of each remote end: "off", "on", "stuck" while it does not
                \* read, or "gone": left, but not noticed yet
  shown,        \* what each client shows
  missed        \* history: the items whose last change was sent to a client
                \* accepted later, and to that one alone

controllerVars == <<mConnected, mConfigured, mMaxPath, toolData, handles, session,
                    alive, link>>
clientVars == <<client, shown, missed>>
vars == <<items, controllerVars, pc, path, mInitializeClient, clientVars>>

Base == {"avail"} \cup Followed
PathNames == {"block", "status", "axes", "spindle", "tool", "comment", "active"}
Items == (Base \X {0}) \cup (PathNames \X (1 .. MaxPaths))
Avail == <<"avail", 0>>

KindOf(name) ==
  CASE name = "avail"                         -> "Availability"
    [] name \in {"count", "pmc", "tool"}      -> "IntEvent"
    [] name \in {"macro", "spindle"}          -> "Sample"
    [] name \in {"macropath", "axes"}         -> "Position"
    [] OTHER                                  -> "Text"

New(names, p) == [i \in names \X {p} |-> NewDatum(KindOf(i[1]))]

Nothing == [i \in Items |-> UNAVAILABLE]

Init ==
  /\ items = [New(Base, 0) EXCEPT ![Avail] = MakeUnavailable(@)]
  /\ mConnected = FALSE
  /\ mConfigured = FALSE
  /\ mMaxPath = 0
  /\ toolData = << >>
  /\ handles = 0
  /\ session = 0
  /\ alive = FALSE
  /\ link = "up"
  /\ pc = "idle"
  /\ path = 0
  /\ mInitializeClient = NULL
  /\ client = [c \in Clients |-> "off"]
  /\ shown = [c \in Clients |-> Nothing]
  /\ missed = [c \in Clients |-> {}]

-----------------------------------------------------------------------------
(* The items. *)

\* setValue() of the items in which, with what this connection reads.
Set(its, which) ==
  [i \in DOMAIN its |-> IF i \in which THEN SetValue(its[i], session) ELSE its[i]]

\* unavailable() of one item; that of a StaticEvent does nothing.
Lose(i, d) == IF i[1] = "active" THEN d ELSE MakeUnavailable(d)

Unset(its, which) ==
  [i \in DOMAIN its |-> IF i \in which THEN Lose(i, its[i]) ELSE its[i]]

Connected == {c \in Clients : client[c] \in {"on", "stuck"}}

\* The clients in to get the items in which, and their mChanged is cleared.
\* send() blocks on a client that does not read; one that left gets nothing.
Show(its, which, to) ==
  /\ which # {} => \A c \in to : client[c] # "stuck"
  /\ items' = [i \in DOMAIN its |->
                 IF i \in which THEN Appended(its[i]) ELSE its[i]]
  /\ shown' = [c \in Clients |->
                 IF c \in to \cap Connected
                 THEN [i \in Items |-> IF i \in which THEN Said(its[i]) ELSE shown[c][i]]
                 ELSE shown[c]]
  /\ missed' = [c \in Clients |->
                  IF c \in to THEN missed[c] \ which
                  ELSE IF c \in Connected
                  THEN missed[c] \cup {i \in which : its[i].changed}
                  ELSE missed[c]]

ChangedOf(its) == {i \in DOMAIN its : its[i].changed}

\* flush(): sendChangedData(), but not while mDisableFlush is set, that is
\* in the gather for a new client.
Flush(its) ==
  IF mInitializeClient = NULL
  THEN Show(its, ChangedOf(its), Clients)
  ELSE items' = its /\ UNCHANGED <<shown, missed>>

\* Mutant: the items that were added by configure() are left out.
UnavailableBase(its) == Flush(Unset(its, Base \X {0}))

\* Adapter::unavailable().
Unavailable(its) == Flush(Unset(its, DOMAIN its))

-----------------------------------------------------------------------------
(* The main loop and the clients. *)

\* Mutant: the paths are counted from one past the last.
BeginPastEnd ==
  IF mConnected
  THEN pc' = "block" /\ path' = mMaxPath + 1
  ELSE pc' = "connect" /\ path' = 0

\* What innerGatherDeviceData() calls first.
Begin ==
  IF mConnected
  THEN pc' = "block" /\ path' = mMaxPath
  ELSE pc' = "connect" /\ path' = 0

\* connectToClients() accepts one client in a turn of the loop, at its start
\* (a turn without clients ends after "read"): sendInitialData() gathers.
Accept(c) ==
  /\ \/ pc = "idle"
     \/ pc = "read" /\ \A d \in Clients : client[d] = "off"
  /\ client[c] = "off"
  /\ client' = [client EXCEPT ![c] = "on"]
  /\ mInitializeClient' = c
  /\ Begin
  /\ UNCHANGED <<items, controllerVars, shown, missed>>

Scan ==
  /\ pc \in {"idle", "read"} /\ \E c \in Clients : client[c] # "off"
  /\ Begin
  /\ UNCHANGED <<items, controllerVars, mInitializeClient, clientVars>>

\* The rest of sendInitialData(), or sendChangedData() after the scan.
Send ==
  /\ pc = "send"
  /\ IF mInitializeClient # NULL
     THEN /\ Show(items, {i \in DOMAIN items : items[i].hasValue}, {mInitializeClient})
          /\ pc' = "read"
     ELSE /\ Show(items, ChangedOf(items), Clients)
          /\ pc' = "idle"
  /\ mInitializeClient' = NULL
  /\ UNCHANGED <<controllerVars, path, client>>

\* A client leaves, and readFromClients() notices.
Hangup(c) ==
  /\ client[c] \in {"on", "stuck"}
  /\ client' = [client EXCEPT ![c] = "gone"]
  /\ shown' = [shown EXCEPT ![c] = Nothing]
  /\ missed' = [missed EXCEPT ![c] = {}]
  /\ UNCHANGED <<items, controllerVars, pc, path, mInitializeClient>>

Notice(c) ==
  /\ pc \in {"idle", "read"} /\ client[c] = "gone"
  /\ client' = [client EXCEPT ![c] = "off"]
  /\ UNCHANGED <<items, controllerVars, pc, path, mInitializeClient, shown, missed>>

\* A client stops to read, so that a send() to it blocks, and goes on.
Stall(c) ==
  /\ c \in Stalling /\ client[c] = "on"
  /\ client' = [client EXCEPT ![c] = "stuck"]
  /\ UNCHANGED <<items, controllerVars, pc, path, mInitializeClient, shown, missed>>

Resume(c) ==
  /\ client[c] = "stuck"
  /\ client' = [client EXCEPT ![c] = "on"]
  /\ UNCHANGED <<items, controllerVars, pc, path, mInitializeClient, shown, missed>>

\* The link goes, and with it the connection, for good; the link comes back.
LinkLost ==
  /\ link = "up" /\ session < MaxSessions
  /\ link' = "down"
  /\ alive' = FALSE
  /\ UNCHANGED <<items, mConnected, mConfigured, mMaxPath, toolData, handles,
                 session, pc, path, mInitializeClient, clientVars>>

LinkBack ==
  /\ link = "down"
  /\ link' = "up"
  /\ UNCHANGED <<items, mConnected, mConfigured, mMaxPath, toolData, handles,
                 session, alive, pc, path, mInitializeClient, clientVars>>

-----------------------------------------------------------------------------
(* connect(). *)

\* cnc_allclibhndl3() succeeds: mAvail is set, and configure() is next when
\* the paths are not known.
Connect ==
  /\ pc = "connect" /\ link = "up"
  /\ handles' = handles + 1
  /\ session' = session + 1
  /\ alive' = TRUE
  /\ mConnected' = TRUE
  /\ items' = [items EXCEPT ![Avail] = SetValue(@, 0)]
  /\ pc' = IF mConfigured THEN "initialize" ELSE "configure"
  /\ UNCHANGED <<mConfigured, mMaxPath, toolData, link, path, mInitializeClient,
                 clientVars>>

\* It fails; the loop sleeps 5 seconds and goes on.
ConnectFails ==
  /\ pc = "connect" /\ link = "down"
  /\ Unavailable(items)
  /\ pc' = "send"
  /\ UNCHANGED <<controllerVars, path, mInitializeClient, client>>

\* cnc_getpath(); when it fails the controller is taken to have one path.
GetPaths ==
  /\ pc = "configure" /\ path = 0
  /\ \E n \in 1 .. MaxPaths :
       /\ ~alive => n = 1
       /\ mMaxPath' = n
  /\ path' = 1
  /\ UNCHANGED <<items, mConnected, mConfigured, toolData, handles, session,
                 alive, link, pc, mInitializeClient, clientVars>>

\* FanucPath's constructor adds the items of the path, configure() reads its
\* axes and spindles and sets mActiveAxes.
ConfigurePath ==
  /\ pc = "configure" /\ path > 0 /\ alive
  /\ LET added == New(PathNames, path) IN
       items' = [i \in DOMAIN items \cup DOMAIN added |->
                   IF i \in DOMAIN items THEN items[i]
                   ELSE IF i[1] = "active" THEN SetValue(added[i], session)
                   ELSE added[i]]
  /\ toolData' = Append(toolData, "management")
  /\ IF path = mMaxPath
     THEN mConfigured' = TRUE /\ pc' = "initialize" /\ path' = 0
     ELSE UNCHANGED <<mConfigured, pc>> /\ path' = path + 1
  /\ UNCHANGED <<mConnected, mMaxPath, handles, session, alive, link,
                 mInitializeClient, clientVars>>

\* A path cannot be configured: exit(1).
ConfigureFails ==
  /\ pc = "configure" /\ path > 0
  /\ pc' = "exited"
  /\ UNCHANGED <<items, controllerVars, path, mInitializeClient, clientVars>>

\* initializeDeviceDatum(): the conditions, and flush().
Initialize ==
  /\ pc = "initialize"
  /\ Flush(items)
  /\ pc' = "send"
  /\ UNCHANGED <<controllerVars, path, mInitializeClient, client>>

-----------------------------------------------------------------------------
(* getPathData(): the paths from the last to the first. *)

Steps == <<"block", "status", "axes", "spindle", "tool">>

\* On to the next group of this path, the next path, or the messages.
Advance ==
  \E k \in 1 .. Len(Steps) :
    /\ pc = Steps[k]
    /\ IF k < Len(Steps) THEN pc' = Steps[k + 1] /\ UNCHANGED path
       ELSE IF path > 1 THEN pc' = Steps[1] /\ path' = path - 1
       ELSE pc' = "message" /\ path' = 0

Here(name) == <<name, path>>

\* What a group that succeeds sets.  The program comment is read when the
\* controller reports another program number than mProgramNum, which is not
\* initialized, and cnc_upstart() works.
Got ==
  IF pc = "axes" THEN {{Here("axes")}, {Here("axes"), Here("comment")}}
  ELSE {{Here(pc)}}

\* cnc_rdexecprog(), cnc_statinfo(), cnc_rddynamic2() and the like.
ReadPath ==
  /\ pc \in {"block", "status", "axes", "spindle"} /\ alive
  /\ \E got \in Got : items' = Set(items, got)
  /\ Advance
  /\ UNCHANGED <<controllerVars, mInitializeClient, clientVars>>

\* Mutant: the handle is kept.
DisconnectKeeps ==
  /\ mConnected' = FALSE
  /\ UNCHANGED handles
  /\ Unavailable(items)

\* Mutant: the items are left as they are.
DisconnectQuiet ==
  /\ mConnected' = FALSE
  /\ handles' = handles - 1
  /\ UNCHANGED <<items, shown, missed>>

\* disconnect(), called when mConnected.
Disconnect ==
  /\ mConnected' = FALSE
  /\ handles' = handles - 1
  /\ Unavailable(items)

\* Mutant: the connection is kept.
ReadPathFailsStays ==
  /\ pc \in {"block", "status", "axes", "spindle"} /\ session < MaxSessions
  /\ pc' = "message" /\ path' = 0
  /\ UNCHANGED <<items, controllerVars, mInitializeClient, clientVars>>

\* One of them fails, with or without the link: gatherData() returns false,
\* getPathData() disconnects and leaves the other paths.
ReadPathFails ==
  /\ pc \in {"block", "status", "axes", "spindle"} /\ session < MaxSessions
  /\ Disconnect
  /\ alive' = FALSE
  /\ pc' = "message" /\ path' = 0
  /\ UNCHANGED <<mConfigured, mMaxPath, toolData, session, link, mInitializeClient,
                 client>>

\* getToolData(): tool management until it fails once, then the modal tool
\* number until that fails once; never a failure of the gather.
ReadTool ==
  /\ pc = "tool"
  /\ \E after \in {"management", "modal", "none"} :
       /\ toolData[path] = "modal" => after # "management"
       /\ toolData[path] = "none" => after = "none"
       /\ ~alive => after = "none"
       /\ toolData' = [toolData EXCEPT ![path] = after]
       /\ items' = IF after = "none" THEN items ELSE Set(items, {Here("tool")})
  /\ Advance
  /\ UNCHANGED <<mConnected, mConfigured, mMaxPath, handles, session, alive,
                 link, mInitializeClient, clientVars>>

-----------------------------------------------------------------------------
(* The rest of the gather: reads that may fail without consequence. *)

Optional(from, to, results) ==
  /\ pc = from
  /\ pc' \in to
  /\ items' \in {items} \cup (IF mConnected /\ alive /\ from \in Followed
                              THEN results ELSE {})
  /\ UNCHANGED <<controllerVars, path, mInitializeClient, clientVars>>

Macro == <<"macro", 0>>
MacroPath == <<"macropath", 0>>

\* A macro that is vacant makes its sample unavailable; a path position
\* with a vacant macro does so to the sample of the same index.  Without
\* such a sample that is a call of what mMacroSample[i] happens to hold,
\* which may end the process.
ReadMacros ==
  LET samples == {Set(items, {Macro}), Unset(items, {Macro})} IN
    samples \cup UNION {{Set(its, {MacroPath}), Unset(its, {Macro})} : its \in samples}

AfterMacros ==
  IF mConnected /\ alive /\ MacroPath \in DOMAIN items /\ Macro \notin DOMAIN items
  THEN {"pmc", "exited"} ELSE {"pmc"}

GetMessages == Optional("message", {"macro"}, {Set(items, {<<"message", 0>>})})
GetMacros == Optional("macro", AfterMacros, ReadMacros)
GetPMC == Optional("pmc", {"count"}, {Set(items, {<<"pmc", 0>>})})
GetCounts == Optional("count", {"send"}, {Set(items, {<<"count", 0>>})})

-----------------------------------------------------------------------------

Loop ==
  \/ Scan \/ Send \/ (\E c \in Clients : Notice(c))
  \/ Connect \/ ConnectFails \/ GetPaths \/ ConfigurePath \/ ConfigureFails \/ Initialize
  \/ ReadPath \/ ReadPathFails \/ ReadTool
  \/ GetMessages \/ GetMacros \/ GetPMC \/ GetCounts

Remote ==
  \/ \E c \in Clients : Accept(c) \/ Hangup(c) \/ Stall(c) \/ Resume(c)
  \/ LinkLost \/ LinkBack

Next == Loop \/ Remote

Spec == Init /\ [][Next]_vars

\* The steps that may wait in a send().
Sends == Send \/ ConnectFails \/ Initialize \/ ReadPathFails

\* The loop goes on, and a send() that blocks does when the client reads
\* again; clients, controller and link owe nothing.
FairSpec == Spec /\ WF_vars(Loop) /\ SF_vars(Sends)

-----------------------------------------------------------------------------
(* Properties. *)

\* The items are those of the machine and of the paths that configure() has
\* made, and the loops over the paths stay in mPaths.
TypeOK ==
  /\ \E n \in 0 .. MaxPaths :
       DOMAIN items = (Base \X {0}) \cup (PathNames \X (1 .. n))
  /\ \A i \in DOMAIN items : items[i] \in Datum /\ items[i].kind = KindOf(i[1])
  /\ mConnected \in BOOLEAN /\ mConfigured \in BOOLEAN /\ alive \in BOOLEAN
  /\ mMaxPath \in 0 .. MaxPaths
  /\ toolData \in Seq({"management", "modal", "none"})
  /\ handles \in Int
  /\ session \in 0 .. MaxSessions
  /\ link \in {"up", "down"}
  /\ pc \in {"idle", "read", "connect", "configure", "initialize", "message", "macro",
             "pmc", "count", "send", "exited"} \cup {Steps[k] : k \in 1 .. Len(Steps)}
  /\ path \in 0 .. mMaxPath
  /\ mInitializeClient \in Clients \cup {NULL}
  /\ client \in [Clients -> {"off", "on", "stuck", "gone"}]
  /\ \A c \in Clients, i \in Items : shown[c][i] \in Int \cup {UNAVAILABLE, AVAILABLE}
  /\ \A c \in Clients : missed[c] \subseteq Items

\* A client is told, when the gather has sent what it has to send: all but
\* what it missed.  The client accepted last has missed nothing.
Served(c) == pc \in {"idle", "read"} /\ c \in Connected

Told(c) == Items \ missed[c]

\* Every connection has its handle and every handle its connection, however
\* connects, lost links, failed reads and disconnects follow each other: none
\* leaks, and none is freed twice (fanuc_adapter.cpp:127-136, 274-297).
HandleBalanced == handles = IF mConnected THEN 1 ELSE 0

\* Without a connection to the controller no client shows anything of it,
\* whether the link was lost before the client came, in the gather for it or
\* for another one, which cannot flush, or in a scan; mActiveAxes alone
\* stays, as it must.  What a loss in the initial gather of another client
\* changed is sent to that one alone (adapter.cpp:354-362), and only that is
\* excepted.
LostMeansUnavailable ==
  \A c \in Clients : Served(c) /\ ~mConnected =>
    \A i \in Told(c) : i[1] # "active" => shown[c][i] = UNAVAILABLE

\* With a connection every client shows the adapter available, and what it
\* shows beside mActiveAxes was read in this connection: nothing is left of
\* one that was lost, also of data whose read fails now.  Again except what
\* changed in the initial gather of another client.
OneConnection ==
  \A c \in Clients : Served(c) /\ mConnected =>
    /\ Avail \in Told(c) => shown[c][Avail] = AVAILABLE
    /\ \A i \in Told(c) : i[1] # "active" =>
         shown[c][i] \in {UNAVAILABLE, AVAILABLE, session}

\* Once the link stays up, no read fails any more (MaxSessions) and a client
\* stays, that client shows what this connection reads of every path, unless
\* the process had to end, and provided that no client stops reading for
\* good: a send() to it would never return (client.cpp:57).  The tool and
\* the program comment are not promised: getToolData() gives up for good,
\* and the header is read with a new program; nor is what was missed.
Recovered(c) ==
  /\ Avail \in Told(c) => shown[c][Avail] = AVAILABLE
  /\ \A p \in 1 .. mMaxPath : \A n \in {"block", "status", "axes", "spindle"} :
       <<n, p>> \in Told(c) => shown[c][<<n, p>>] = session

EveryoneReads == \A c \in Clients : []<>(client[c] # "stuck")

Recovers ==
  EveryoneReads => \A c \in Clients :
    <>[](link = "up" /\ client[c] = "on") => <>[](pc = "exited" \/ Recovered(c))
=============================================================================
