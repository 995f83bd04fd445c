------------------------------ MODULE DatumFeed ------------------------------
(***************************************************************************)
(* One data item between the device and one client: the calls that the     *)
(* adapter's gather makes on it, sendInitialData() when the client         *)
(* connects and sendChangedData() after every scan (src/src/adapter.cpp).  *)
(***************************************************************************)
EXTENDS DeviceDatum

CONSTANT MaxValue   \* values are 0 .. MaxValue, a bound of the model

ASSUME FeedAssumption == MaxValue \in Nat

VARIABLES
  datum,
  told,       \* what the device said last: a value, AVAILABLE, UNAVAILABLE
  phase,      \* "off" or "idle" between scans, "init" or "scan" in a gather
  shown,      \* what the client shows
  repeated    \* the last call said again what the item had been told before
              \* and made it changed

vars == <<datum, told, phase, shown, repeated>>

\* An item is told nothing at first; that counts as UNAVAILABLE, except
\* that a new Availability says AVAILABLE.
Init ==
  /\ \E k \in Kinds : datum = NewDatum(k)
  /\ told = IF datum.kind = "Availability" THEN AVAILABLE ELSE UNAVAILABLE
  /\ phase = "off"
  /\ shown = UNAVAILABLE
  /\ repeated = FALSE

Connect ==
  /\ phase = "off"
  /\ phase' = "init"
  /\ shown' = UNAVAILABLE
  /\ repeated' = FALSE
  /\ UNCHANGED <<datum, told>>

Tell(said, d) ==
  /\ phase \in {"init", "scan"}
  /\ datum' = d
  /\ told' = said
  /\ repeated' = (said = told /\ datum.hasValue /\ ~datum.changed /\ d.changed)
  /\ UNCHANGED <<phase, shown>>

TellValue(v) ==
  Tell(IF datum.kind = "Availability" THEN AVAILABLE ELSE v, SetValue(datum, v))

TellUnavailable == Tell(UNAVAILABLE, MakeUnavailable(datum))

\* sendInitialData(): the item as it is, if it has a value.
SendInitial ==
  /\ phase = "init"
  /\ IF datum.hasValue
     THEN shown' = Said(datum) /\ datum' = Appended(datum)
     ELSE UNCHANGED <<shown, datum>>
  /\ phase' = "idle"
  /\ UNCHANGED <<told, repeated>>

Scan ==
  /\ phase = "idle"
  /\ phase' = "scan"
  /\ UNCHANGED <<datum, told, shown, repeated>>

SendChanged ==
  /\ phase = "scan"
  /\ IF datum.changed
     THEN shown' = Said(datum) /\ datum' = Appended(datum)
     ELSE UNCHANGED <<shown, datum>>
  /\ phase' = "idle"
  /\ UNCHANGED <<told, repeated>>

\* The client goes; what is sent before the loop notices is lost.
Leave ==
  /\ phase \in {"idle", "scan"}
  /\ phase' = "off"
  /\ datum' \in {datum} \cup (IF datum.changed THEN {Appended(datum)} ELSE {})
  /\ UNCHANGED <<told, shown, repeated>>

Next ==
  \/ Connect \/ SendInitial \/ Scan \/ SendChanged \/ Leave
  \/ \E v \in 0 .. MaxValue : TellValue(v)
  \/ TellUnavailable

Spec == Init /\ [][Next]_vars

-----------------------------------------------------------------------------
(* Properties. *)

Said0 == Int \cup {AVAILABLE, UNAVAILABLE}

\* The item and what is said of it keep their types; only a Text ever holds
\* a cut value, and an Availability no value but its flag.
TypeOK ==
  /\ datum \in Datum
  /\ datum.value < 0 => datum.kind = "Text"
  /\ datum.kind = "Availability" => datum.hasValue /\ datum.value = 0
  /\ told \in Said0 /\ shown \in Said0
  /\ phase \in {"off", "init", "idle", "scan"}
  /\ repeated \in BOOLEAN

\* As close to the device as the item can be: equal, the rest of a long
\* text, or within mEpsilon.
Close(seen, said) ==
  IF said \in {AVAILABLE, UNAVAILABLE}
  THEN seen = said
  ELSE /\ seen \in Int
       /\ seen # Stored(datum.kind, said) =>
            /\ datum.kind \in {"Sample", "Position"}
            /\ seen - said <= Epsilon /\ said - seen <= Epsilon

\* Small changes never add up: between scans the client shows what the
\* device said last, and a sample is off by mEpsilon at most, however many
\* changes below it went unsent; also for a client that just connected, and
\* across unavailable() of the kinds that do not count as a value then.
ShownIsTold == phase = "idle" => Close(shown, told)

\* "tracks when it has changed" (device_datum.hpp:51): being told the same
\* again does not make an item changed, with one exception: setValue() of a
\* text compares all of it with the EVENT_VALUE_LEN - 1 characters it kept
\* (device_datum.cpp:132), so a text that did not fit changes every time.
\* Integers, samples, positions and texts that fit never do.
NoFalseChange == repeated => datum.kind = "Text" /\ told \in Long
=============================================================================
