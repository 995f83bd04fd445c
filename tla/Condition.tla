------------------------------ MODULE Condition ------------------------------
(***************************************************************************)
(* The Condition data item (src/src/condition.cpp, condition.hpp): the     *)
(* list of active alarms that an adapter reports by mark and sweep.  Every *)
(* scan the adapter marks the alarms the device still has; prepare() turns *)
(* the ones left unmarked into NORMAL, append() sends what changed and     *)
(* drops the swept entries.  The module drives the item the way the main   *)
(* loop of src/src/adapter.cpp does, and follows what the receiver (the    *)
(* MTConnect agent) shows after the lines it got.                          *)
(*                                                                         *)
(* Abstracted: text, qualifier and severity are one value, the detail; the *)
(* growth of the entry array (condition.cpp:246-253) is left out, a        *)
(* sequence has no capacity; writing to the socket is one step.            *)
(***************************************************************************)
EXTENDS Naturals, Sequences, SequencesExt

CONSTANTS
  Codes,          \* native codes an adapter reports, none of them empty
  NoCode,         \* the empty native code
  Details,        \* text + qualifier + severity of a report
  NoDetail,       \* the empty strings
  ReportLevels    \* levels an adapter passes to add() together with a code:
                  \* none here passes eNORMAL that way

ASSUME ConditionAssumption ==
  /\ NoCode \notin Codes
  /\ NoDetail \notin Details
  /\ ReportLevels \subseteq {"WARNING", "FAULT"}

VARIABLES
  mSimple,    \* begin() leaves the marks alone; set by the constructor only
  list,       \* mActiveList[0 .. mActiveCount-1]
  mBegun, mPrepared, mChanged,
  phase,      \* where the adapter's loop is
  cleared,    \* normal(), unavailable() or remove() was called this scan
  device,     \* what the adapter's calls say of the device, once swept
  pending,    \* what the calls of the running sweep say so far
  connected,  \* an agent is connected
  agent       \* what the agent shows

vars == <<mSimple, list, mBegun, mPrepared, mChanged, phase, cleared, device,
          pending, connected, agent>>

-----------------------------------------------------------------------------
(* ActiveCondition (condition.hpp:52-93). *)

Levels == {"UNAVAILABLE", "NORMAL", "WARNING", "FAULT"}

Unassociated(level, code) ==
  level \in {"NORMAL", "UNAVAILABLE"} /\ code = NoCode

Entry(level, detail, code) ==
  [level |-> level, detail |-> detail, code |-> code,
   changed |-> TRUE, marked |-> TRUE,
   placeHolder |-> Unassociated(level, code)]

\* Mutant: the arguments of a setValue() call swapped.
SetValueSwapped(e, level, detail, code) ==
  [level |-> level, detail |-> code, code |-> detail,
   changed |-> TRUE, marked |-> e.marked, placeHolder |-> e.placeHolder]

SetValue(e, level, detail, code) ==
  [level |-> level, detail |-> detail, code |-> code,
   changed |-> \/ e.changed
               \/ <<e.level, e.detail, e.code>> # <<level, detail, code>>,
   marked |-> e.marked,
   placeHolder |-> e.placeHolder \/ Unassociated(level, code)]

-----------------------------------------------------------------------------
(* What an observer of the condition believes: nothing is known, or the    *)
(* set of alarms that are on.  The agent is not part of this repository;   *)
(* its side is the SHDR convention that the lines follow.                  *)

Alarm(level, detail, code) == [level |-> level, detail |-> detail, code |-> code]

Unknown == [avail |-> FALSE, alarms |-> {}]
AllNormal == [avail |-> TRUE, alarms |-> {}]

Observe(view, line) ==
  IF Unassociated(line.level, line.code)
  THEN [avail |-> line.level = "NORMAL", alarms |-> {}]
  ELSE [avail |-> TRUE,
        alarms |-> {a \in view.alarms : a.code # line.code}
                     \cup (IF line.level = "NORMAL" THEN {} ELSE {line})]

ObserveAll(view, lines) ==
  LET seen[n \in 0 .. Len(lines)] ==
        IF n = 0 THEN view ELSE Observe(seen[n - 1], lines[n])
  IN  seen[Len(lines)]

-----------------------------------------------------------------------------
(* The operations on the list. *)

AlreadyIn(l, level) ==
  Len(l) = 1 /\ l[1].code = NoCode /\ l[1].level = level

\* normal() and unavailable(): clear everything, or mark what is there.
ClearTo(l, level) ==
  IF AlreadyIn(l, level)
  THEN <<[l[1] EXCEPT !.marked = TRUE]>>
  ELSE <<Entry(level, NoDetail, NoCode)>>

\* Mutant: the lone NORMAL stays in front of the new alarm.
BaseKept(l) == l

\* A code specific add() first drops a lone NORMAL or UNAVAILABLE.
BaseOf(l) ==
  IF Len(l) = 1 /\ l[1].level \in {"NORMAL", "UNAVAILABLE"} THEN <<>> ELSE l

PositionOf(l, code) == SelectInSeq(l, LAMBDA e : e.code = code)

\* Mutant: an alarm that is in the list already is not marked again.
AddUnmarked(l, level, detail, code) ==
  LET base == BaseOf(l)
      pos == PositionOf(base, code)
  IN  IF pos > 0
      THEN [base EXCEPT ![pos] = SetValue(@, level, detail, code)]
      ELSE Append(base, Entry(level, detail, code))

AddTo(l, level, detail, code) ==
  LET base == BaseOf(l)
      pos == PositionOf(base, code)
  IN  IF pos > 0
      THEN [base EXCEPT ![pos] =
              [SetValue(@, level, detail, code) EXCEPT !.marked = TRUE]]
      ELSE Append(base, Entry(level, detail, code))

\* The value add() returns and stores in mChanged.
AddChanged(l, level, detail, code) ==
  LET base == BaseOf(l)
      pos == PositionOf(base, code)
  IN  pos > 0 => SetValue(base[pos], level, detail, code).changed

RemoveFrom(l, code) ==
  LET pos == PositionOf(l, code)
  IN  CASE pos = 0 -> l
        [] pos > 0 /\ Len(l) = 1 -> ClearTo(l, "NORMAL")
        [] OTHER -> [l EXCEPT ![pos] =
                       [SetValue(@, "NORMAL", NoDetail, code) EXCEPT !.marked = FALSE]]

ClearMarks(l) == [i \in DOMAIN l |-> [l[i] EXCEPT !.marked = FALSE]]

Kept(e) == e.placeHolder \/ e.marked

\* Mutant: prepare() sweeps, but no marked entry does not mean NORMAL.
SweepOnly(l) ==
  [i \in DOMAIN l |->
     IF Kept(l[i]) THEN l[i] ELSE SetValue(l[i], "NORMAL", NoDetail, l[i].code)]

\* prepare(): nothing marked means NORMAL; then sweep the unmarked entries.
Sweep(l) ==
  LET base == IF \E i \in DOMAIN l : Kept(l[i]) THEN l ELSE ClearTo(l, "NORMAL")
  IN  [i \in DOMAIN base |->
         IF Kept(base[i]) THEN base[i]
         ELSE SetValue(base[i], "NORMAL", NoDetail, base[i].code)]

\* append() goes over the array and takes or leaves each entry: those of l at
\* the places in S.
Picked(l, S) ==
  LET picked[n \in 0 .. Len(l)] ==
        IF n = 0 THEN <<>>
        ELSE IF n \in S THEN Append(picked[n - 1], l[n]) ELSE picked[n - 1]
  IN  picked[Len(l)]

ChangedAt(l) == {i \in DOMAIN l : l[i].changed}
KeptAt(l) == {i \in DOMAIN l : Kept(l[i])}

\* append(): the lines it writes and the list it leaves behind.
LinesOf(l) ==
  [i \in DOMAIN l |-> Alarm(l[i].level, l[i].detail, l[i].code)]

\* Mutant: a swept entry is dropped before its NORMAL is written.
KeptLines(l, begun, prepared) ==
  CASE ~begun -> LinesOf(l)
    [] begun /\ prepared ->
         LinesOf(Reverse(Picked(l, ChangedAt(l) \cap KeptAt(l))))
    [] OTHER -> <<>>

AppendLines(l, begun, prepared) ==
  CASE ~begun -> LinesOf(l)
    [] begun /\ prepared ->
         LinesOf(Reverse(Picked(l, ChangedAt(l))))
    [] OTHER -> <<>>

Said(l) == [i \in DOMAIN l |-> [l[i] EXCEPT !.changed = FALSE]]

AppendList(l, begun, prepared) ==
  CASE ~begun -> Said(l)
    [] begun /\ prepared -> Said(Picked(l, KeptAt(l)))
    [] OTHER -> l
-----------------------------------------------------------------------------
(* The adapter's loop.  phase: "idle" between scans, "init" while          *)
(* sendInitialData() gathers without begin(), "gather", "prepared" and     *)
(* "sent" within a scan.                                                   *)

Init ==
  /\ mSimple \in BOOLEAN
  /\ list = <<Entry("UNAVAILABLE", NoDetail, NoCode)>>
  /\ mBegun = FALSE
  /\ mPrepared \in BOOLEAN            \* not set by the constructor
  /\ mChanged = TRUE
  /\ cleared = FALSE
  /\ device = Unknown
  /\ pending = [touched |-> FALSE, view |-> AllNormal]
  /\ agent = Unknown
  \* The item exists before the loop starts, or it is created by
  \* FanucAdapter::configure() in the middle of a scan's gather.
  /\ \/ phase = "idle" /\ connected = FALSE
     \/ phase = "gather" /\ connected = TRUE

Gathering == phase \in {"init", "gather"}
Sweeping == mBegun /\ ~mSimple

\* Outside a sweep a call speaks for itself; within one, the marked alarms
\* together are the report and prepare() makes it count.
Record(view) ==
  IF Sweeping
  THEN /\ pending' = [touched |-> TRUE, view |-> view]
       /\ UNCHANGED device
  ELSE /\ device' = view
       /\ UNCHANGED pending

Told == IF Sweeping THEN pending.view ELSE device

\* sendChangedData() for this item.
SendChangedData(l, chg) ==
  /\ list' = IF chg THEN AppendList(l, mBegun, mPrepared) ELSE l
  /\ agent' = IF chg /\ connected
              THEN ObserveAll(agent, AppendLines(l, mBegun, mPrepared))
              ELSE agent

\* An agent is accepted and sendInitialData() starts its own gather.
Connect ==
  /\ phase = "idle" /\ ~connected
  /\ connected' = TRUE
  /\ agent' = Unknown
  /\ phase' = "init"
  /\ cleared' = FALSE
  /\ UNCHANGED <<mSimple, list, mBegun, mPrepared, mChanged, device, pending>>

\* The agent goes away; what is written from now on is lost.
Disconnect ==
  /\ connected
  /\ connected' = FALSE
  /\ UNCHANGED <<mSimple, list, mBegun, mPrepared, mChanged, phase, cleared, device,
                 pending, agent>>

SendInitial ==
  /\ phase = "init"
  /\ list' = AppendList(list, mBegun, mPrepared)
  /\ agent' = IF connected
              THEN ObserveAll(agent, AppendLines(list, mBegun, mPrepared))
              ELSE agent
  /\ phase' = "idle"
  /\ UNCHANGED <<mSimple, mBegun, mPrepared, mChanged, cleared, device, pending, connected>>

Begin ==
  /\ phase = "idle" /\ connected
  /\ list' = IF mSimple THEN list ELSE ClearMarks(list)
  /\ mBegun' = TRUE
  /\ mPrepared' = FALSE
  /\ mChanged' = FALSE
  /\ phase' = "gather"
  /\ cleared' = FALSE
  /\ pending' = [touched |-> FALSE, view |-> AllNormal]
  /\ UNCHANGED <<mSimple, device, connected, agent>>

\* The device still has this alarm: add(level, detail, code).  No adapter
\* here does it after normal(), unavailable() or remove() in one scan.
AddAlarm(level, detail, code) ==
  /\ Gathering
  /\ ~cleared
  /\ list' = AddTo(list, level, detail, code)
  /\ mChanged' = AddChanged(list, level, detail, code)
  /\ Record(Observe(Told, Alarm(level, detail, code)))
  /\ UNCHANGED <<mSimple, mBegun, mPrepared, phase, cleared, connected, agent>>

\* Adapter::unavailable() and Adapter::initializeDeviceDatum(): the call on
\* every item, then flush(), which is disabled during the initial gather.
ClearAll(level) ==
  LET l == ClearTo(list, level)
      chg == ~AlreadyIn(list, level) \/ mChanged
  IN  /\ Gathering
      /\ mChanged' = chg
      /\ IF phase = "init" THEN list' = l /\ UNCHANGED agent
                           ELSE SendChangedData(l, chg)
      /\ cleared' = TRUE
      /\ Record(Observe(Told, Alarm(level, NoDetail, NoCode)))
      /\ UNCHANGED <<mSimple, mBegun, mPrepared, phase, connected>>

\* remove(code), for the alarms of a simple condition.
RemoveAlarm(code) ==
  /\ Gathering
  /\ PositionOf(list, code) > 0
  /\ list' = RemoveFrom(list, code)
  /\ mChanged' = TRUE
  /\ cleared' = TRUE
  /\ Record(Observe(Told, Alarm("NORMAL", NoDetail, code)))
  /\ UNCHANGED <<mSimple, mBegun, mPrepared, phase, connected, agent>>

\* What a finished sweep says: the alarms reported in it, or NORMAL when
\* there were none, except that a device out of reach stays out of reach.
Swept ==
  CASE pending.touched -> pending.view
    [] ~pending.touched /\ device.avail -> AllNormal
    [] OTHER -> Unknown

Prepare ==
  /\ phase = "gather"
  /\ phase' = "prepared"
  /\ IF mBegun
     THEN /\ list' = Sweep(list)
          /\ mPrepared' = TRUE
          /\ mChanged' = (mChanged \/ \E i \in DOMAIN list' : list'[i].changed)
          /\ device' = IF mSimple THEN device ELSE Swept
     ELSE UNCHANGED <<list, mPrepared, mChanged, device>>
  /\ UNCHANGED <<mSimple, mBegun, cleared, pending, connected, agent>>

Send ==
  /\ phase = "prepared"
  /\ SendChangedData(list, mChanged)
  /\ phase' = "sent"
  /\ UNCHANGED <<mSimple, mBegun, mPrepared, mChanged, cleared, device, pending, connected>>

Cleanup ==
  /\ phase = "sent"
  /\ mBegun' = FALSE
  /\ mPrepared' = FALSE
  /\ phase' = "idle"
  /\ UNCHANGED <<mSimple, list, mChanged, cleared, device, pending, connected, agent>>

Report ==
  \/ \E level \in ReportLevels, detail \in Details, code \in Codes :
       AddAlarm(level, detail, code)
  \/ \E level \in {"NORMAL", "UNAVAILABLE"} : ClearAll(level)
  \/ mSimple /\ \E code \in Codes : RemoveAlarm(code)

Loop == SendInitial \/ Begin \/ Prepare \/ Send \/ Cleanup

Next == Connect \/ Disconnect \/ Report \/ Loop

Spec == Init /\ [][Next]_vars

\* The main loop keeps running and every gather returns.
FairSpec == Spec /\ WF_vars(Loop)
-----------------------------------------------------------------------------
(* Properties. *)

AlarmSet == [level : {"WARNING", "FAULT"}, detail : Details, code : Codes]
View == [avail : BOOLEAN, alarms : SUBSET AlarmSet]
EntrySet == [level : Levels, detail : Details \cup {NoDetail},
             code : Codes \cup {NoCode},
             changed : BOOLEAN, marked : BOOLEAN, placeHolder : BOOLEAN]

\* The fields of the item and of its observer keep their types.
TypeOK ==
  /\ mSimple \in BOOLEAN
  /\ list \in Seq(EntrySet)
  /\ mBegun \in BOOLEAN /\ mPrepared \in BOOLEAN /\ mChanged \in BOOLEAN
  /\ phase \in {"idle", "init", "gather", "prepared", "sent"}
  /\ cleared \in BOOLEAN
  /\ device \in View /\ agent \in View
  /\ pending \in [touched : BOOLEAN, view : View]
  /\ connected \in BOOLEAN

\* What mark and sweep is for: when a scan has been sent, and until the next
\* one, a connected agent shows exactly the alarms the scan reported - none
\* missing, none left over from an earlier scan, across reconnects
\* (begin, add, prepare, append and sendInitialData together).
AgentInStep ==
  connected /\ phase \in {"idle", "sent"} => agent = device

\* The list shape that add()'s test "mActiveCount == 1" relies on: it is
\* never empty, a NORMAL or UNAVAILABLE without a code is alone in it, and a
\* code has at most one entry, whatever prepare() and append() removed.
ListShape ==
  /\ list # <<>>
  /\ \A i, j \in DOMAIN list :
       i # j => /\ list[i].code # list[j].code
                /\ ~list[i].placeHolder

\* An alarm the agent shows can still be cleared: its code is in the list,
\* or the whole list is being replaced by a NORMAL or UNAVAILABLE that has
\* not been sent yet.  Otherwise no later sweep would ever mention it again.
NoOrphanAlarm ==
  connected =>
    \A a \in agent.alarms :
      \/ \E i \in DOMAIN list : list[i].code = a.code
      \/ Len(list) = 1 /\ list[1].placeHolder /\ list[1].changed

\* The abstract promise: the agent only ever moves from one complete report
\* of the device to a later one, and gets there.
Feed == INSTANCE AlarmFeed WITH shown <- agent, linked <- connected, Views <- View
FeedSpec == Feed!Spec
=============================================================================
