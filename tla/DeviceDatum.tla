----------------------------- MODULE DeviceDatum -----------------------------
(***************************************************************************)
(* The data items other than Condition (src/src/device_datum.cpp): what    *)
(* setValue(), unavailable(), append() and hasInitialValue() of each class *)
(* do to an item.  Operators only: DatumFeed drives one item, FanucAdapter *)
(* a machine full of them.                                                 *)
(*                                                                         *)
(* The classes fall into five kinds.  "Text": Event, Message, Execution,   *)
(* ControllerMode and the other enumerations, whose UNAVAILABLE is a value *)
(* like any other.  "Sample", "IntEvent" and "Position" (PathPosition)     *)
(* keep a flag for it, "Availability" is nothing but that flag.  A value   *)
(* is an integer; a text in Long does not fit EVENT_VALUE_LEN.             *)
(***************************************************************************)
EXTENDS Integers

CONSTANTS
  UNAVAILABLE,  \* the text UNAVAILABLE
  AVAILABLE,    \* what an Availability that is not unavailable says
  Epsilon,      \* mEpsilon of samples and positions
  Long          \* texts of EVENT_VALUE_LEN characters or more

ASSUME DatumAssumption ==
  /\ Epsilon \in Nat
  /\ Long \subseteq Nat \ {0}
  /\ UNAVAILABLE \notin Int /\ AVAILABLE \notin Int /\ UNAVAILABLE # AVAILABLE

Kinds == {"Text", "IntEvent", "Sample", "Position", "Availability"}

\* The constructors; mValue of an enumeration is not set, but not read
\* either before mHasValue.
NewDatum(kind) ==
  [kind |-> kind, value |-> 0, unavailable |-> FALSE,
   hasValue |-> kind = "Availability", changed |-> FALSE]

\* What is kept of a value: strncpy() cuts a long text; -v stands for what
\* is left of v.
Stored(kind, v) == IF kind = "Text" /\ v \in Long THEN -v ELSE v

\* The comparison of setValue(): strncmp() for texts, # for integers and
\* enumerations, more than mEpsilon apart for the others.
Differs(kind, new, old) ==
  IF kind \in {"Sample", "Position"}
  THEN new - old > Epsilon \/ old - new > Epsilon
  ELSE new # old

\* Mutant: available() keeps a number as its value.
SetValueNumber(d, v) ==
  IF ~d.hasValue \/ d.unavailable \/ Differs(d.kind, v, d.value)
  THEN [d EXCEPT !.changed = TRUE, !.value = Stored(d.kind, v),
                 !.hasValue = TRUE, !.unavailable = FALSE]
  ELSE d

\* Mutant: the last value is kept even when it is too close to be sent.
SetValueDrifts(d, v) ==
  IF d.kind = "Availability"
  THEN [d EXCEPT !.changed = @ \/ d.unavailable, !.unavailable = FALSE]
  ELSE [d EXCEPT !.changed = @ \/ ~d.hasValue \/ d.unavailable
                               \/ Differs(d.kind, v, d.value),
                 !.value = Stored(d.kind, v),
                 !.hasValue = TRUE, !.unavailable = FALSE]

\* Mutant: setValue() does not compare.
SetValueAlways(d, v) ==
  IF d.kind = "Availability"
  THEN [d EXCEPT !.changed = @ \/ d.unavailable, !.unavailable = FALSE]
  ELSE [d EXCEPT !.changed = TRUE, !.value = Stored(d.kind, v),
                 !.hasValue = TRUE, !.unavailable = FALSE]

\* setValue(); Availability::available() for that kind.
SetValue(d, v) ==
  IF d.kind = "Availability"
  THEN [d EXCEPT !.changed = @ \/ d.unavailable, !.unavailable = FALSE]
  ELSE IF ~d.hasValue \/ d.unavailable \/ Differs(d.kind, v, d.value)
       THEN [d EXCEPT !.changed = TRUE, !.value = Stored(d.kind, v),
                      !.hasValue = TRUE, !.unavailable = FALSE]
       ELSE d

\* unavailable().  Only Text and Sample count as having a value then.
MakeUnavailable(d) ==
  IF d.unavailable
  THEN d
  ELSE [d EXCEPT !.changed = TRUE, !.unavailable = TRUE,
                 !.hasValue = @ \/ d.kind \in {"Text", "Sample"}]

\* toString(), and append(), which clears mChanged.
Said(d) ==
  CASE d.unavailable                               -> UNAVAILABLE
    [] ~d.unavailable /\ d.kind = "Availability"   -> AVAILABLE
    [] OTHER                                       -> d.value

Appended(d) == [d EXCEPT !.changed = FALSE]

Datum == [kind : Kinds, value : Int, unavailable : BOOLEAN,
          hasValue : BOOLEAN, changed : BOOLEAN]
=============================================================================
