----------------------------- MODULE DatumProofs -----------------------------
(***************************************************************************)
(* Proofs about DatumFeed, for values without bound, any epsilon and any   *)
(* set of long texts: the client shows what the device said last, and being *)
(* told the same again changes nothing but a text that did not fit.        *)
(***************************************************************************)
EXTENDS DatumFeed, TLAPS

\* What a client that got everything the item ever sent would show.
Item == IF datum.hasValue \/ datum.unavailable THEN Said(datum) ELSE UNAVAILABLE

\* The item is close to what it was told at all times, and the client shows
\* the item unless a change is still marked in it.  ShownIsTold alone is not
\* inductive: it says nothing of the item, from which the next line is made.
FeedInv ==
  /\ Close(Item, told)
  /\ datum.unavailable => told = UNAVAILABLE
  /\ phase = "init" => shown = UNAVAILABLE
  /\ phase \in {"idle", "scan"} /\ ~datum.changed => shown = Item
  /\ phase = "idle" => shown = Item
  /\ ~datum.hasValue /\ datum.changed => datum.unavailable

-----------------------------------------------------------------------------

\* A new item has nothing to show, and the client shows nothing.
LEMMA FeedInit == Init => TypeOK /\ FeedInv
<1> SUFFICES ASSUME Init PROVE TypeOK /\ FeedInv
  OBVIOUS
<1>1. PICK k \in Kinds : datum = NewDatum(k)
  BY DEF Init
<1>2. datum = [kind |-> k, value |-> 0, unavailable |-> FALSE,
                hasValue |-> k = "Availability", changed |-> FALSE]
  BY <1>1 DEF NewDatum
<1>3. /\ datum \in Datum /\ datum.kind = k /\ datum.value = 0
      /\ datum.unavailable = FALSE /\ datum.changed = FALSE
  BY <1>2 DEF Datum, Kinds
<1>4. told = IF datum.kind = "Availability" THEN AVAILABLE ELSE UNAVAILABLE
  BY DEF Init
<1>5. CASE k = "Availability"
  <2>1. datum.hasValue = TRUE
    BY <1>2, <1>5
  <2>2. told = AVAILABLE /\ Item = AVAILABLE
    BY <2>1, <1>3, <1>4, <1>5 DEF Item, Said
  <2>3. TypeOK
    <3>1. datum.value < 0 => datum.kind = "Text"
      BY <1>3
    <3>2. datum.kind = "Availability" => datum.hasValue /\ datum.value = 0
      BY <2>1, <1>3, <1>5
    <3>3. told \in Said0 /\ shown \in Said0 /\ repeated \in BOOLEAN
      BY <2>2 DEF Init, Said0
    <3>4. phase \in {"off", "init", "idle", "scan"}
      BY DEF Init
    <3> QED BY <3>1, <3>2, <3>3, <3>4, <1>3 DEF TypeOK
  <2>4. FeedInv
    BY <2>1, <2>2, <1>3 DEF Init, FeedInv, Close
  <2> QED BY <2>3, <2>4
<1>6. CASE k # "Availability"
  <2>1. datum.hasValue = FALSE
    BY <1>2, <1>6
  <2>2. told = UNAVAILABLE /\ Item = UNAVAILABLE
    BY <2>1, <1>3, <1>4, <1>6 DEF Item, Said
  <2>3. TypeOK
    <3>1. datum.value < 0 => datum.kind = "Text"
      BY <1>3
    <3>2. datum.kind = "Availability" => datum.hasValue /\ datum.value = 0
      BY <2>1, <1>3, <1>6
    <3>3. told \in Said0 /\ shown \in Said0 /\ repeated \in BOOLEAN
      BY <2>2 DEF Init, Said0
    <3>4. phase \in {"off", "init", "idle", "scan"}
      BY DEF Init
    <3> QED BY <3>1, <3>2, <3>3, <3>4, <1>3 DEF TypeOK
  <2>4. FeedInv
    BY <2>1, <2>2, <1>3 DEF Init, FeedInv, Close
  <2> QED BY <2>3, <2>4
<1> QED BY <1>5, <1>6

\* One step keeps the types.
LEMMA TypeStep == TypeOK /\ [Next]_vars => TypeOK'
<1> SUFFICES ASSUME TypeOK, [Next]_vars PROVE TypeOK'
  OBVIOUS
<1> USE DatumAssumption, FeedAssumption DEF TypeOK, Datum, Said0, Kinds
<1>1. CASE Connect BY <1>1 DEF Connect
<1>2. CASE SendInitial BY <1>2 DEF SendInitial, Said, Appended
<1>3. CASE Scan BY <1>3 DEF Scan
<1>4. CASE SendChanged BY <1>4 DEF SendChanged, Said, Appended
<1>5. CASE Leave BY <1>5 DEF Leave, Appended
<1>6. ASSUME NEW v \in 0 .. MaxValue, TellValue(v) PROVE TypeOK'
  <2>1. v \in Int /\ v >= 0
    BY <1>6
  <2>2. SetValue(datum, v) \in Datum
    <3>1. Stored(datum.kind, v) \in Int
      BY <2>1 DEF Stored
    <3> QED BY <3>1 DEF SetValue
  <2>3. SetValue(datum, v).value < 0 => datum.kind = "Text"
    BY <2>1 DEF SetValue, Stored
  <2> QED BY <1>6, <2>1, <2>2, <2>3 DEF TellValue, Tell, SetValue
<1>7. CASE TellUnavailable BY <1>7 DEF TellUnavailable, Tell, MakeUnavailable
<1>8. CASE UNCHANGED vars BY <1>8 DEF vars
<1> QED BY <1>1, <1>2, <1>3, <1>4, <1>5, <1>6, <1>7, <1>8 DEF Next

\* One step keeps the client and the item in step.
LEMMA FeedStep == TypeOK /\ FeedInv /\ [Next]_vars => FeedInv'
<1> SUFFICES ASSUME TypeOK, FeedInv, [Next]_vars PROVE FeedInv'
  OBVIOUS
<1> USE DatumAssumption, FeedAssumption DEF TypeOK, Datum, Said0, Kinds, FeedInv, Item, Said
<1>1. CASE Connect BY <1>1 DEF Connect, Close
<1>2. CASE SendInitial BY <1>2 DEF SendInitial, Appended, Close
<1>3. CASE Scan BY <1>3 DEF Scan, Close
<1>4. CASE SendChanged BY <1>4 DEF SendChanged, Appended, Close
<1>5. CASE Leave BY <1>5 DEF Leave, Appended, Close
<1>6. ASSUME NEW v \in 0 .. MaxValue, TellValue(v) PROVE FeedInv'
  <2>1. v \in Int /\ v >= 0
    BY <1>6
  <2>2. CASE datum.kind = "Availability"
    BY <1>6, <2>1, <2>2 DEF TellValue, Tell, SetValue, Close
  <2>3. CASE datum.kind # "Availability"
    <3>1. CASE ~datum.hasValue \/ datum.unavailable \/ Differs(datum.kind, v, datum.value)
      BY <1>6, <2>1, <2>3, <3>1 DEF TellValue, Tell, SetValue, Stored, Close
    <3>2. CASE ~(~datum.hasValue \/ datum.unavailable \/ Differs(datum.kind, v, datum.value))
      BY <1>6, <2>1, <2>3, <3>2 DEF TellValue, Tell, SetValue, Stored, Differs, Close
    <3> QED BY <3>1, <3>2
  <2> QED BY <2>2, <2>3
<1>7. CASE TellUnavailable
  BY <1>7 DEF TellUnavailable, Tell, MakeUnavailable, Close
<1>8. CASE UNCHANGED vars BY <1>8 DEF vars, Close
<1> QED BY <1>1, <1>2, <1>3, <1>4, <1>5, <1>6, <1>7, <1>8 DEF Next

\* The item and what is said of it keep their types.
THEOREM TypeCorrect == Spec => []TypeOK
BY FeedInit, TypeStep, PTL DEF Spec

\* Between scans a client shows what the device said last, within mEpsilon
\* for samples and positions, whatever the sequence of values, losses of the
\* device and reconnects (device_datum.cpp, Adapter::sendInitialData and
\* sendChangedData).
THEOREM ShownFollows == Spec => []ShownIsTold
<1>1. FeedInv => ShownIsTold
  BY DEF FeedInv, ShownIsTold
<1> QED BY <1>1, FeedInit, TypeStep, FeedStep, PTL DEF Spec

\* One step makes no item changed that was told the same again, but a text
\* that does not fit.
LEMMA RepeatStep ==
  TypeOK /\ FeedInv /\ NoFalseChange /\ [Next]_vars => NoFalseChange'
<1> SUFFICES ASSUME TypeOK, FeedInv, NoFalseChange, [Next]_vars PROVE NoFalseChange'
  OBVIOUS
<1> USE DatumAssumption, FeedAssumption DEF NoFalseChange
<1>1. CASE Connect \/ SendInitial \/ Scan \/ SendChanged \/ Leave \/ UNCHANGED vars
  <2>1. CASE repeated' = FALSE
    BY <2>1
  <2>2. CASE repeated' = repeated /\ told' = told /\ datum'.kind = datum.kind
    BY <2>2
  <2>3. datum'.kind = datum.kind
    BY <1>1 DEF Connect, SendInitial, Scan, SendChanged, Leave, vars, Appended,
                TypeOK, Datum
  <2> QED BY <1>1, <2>1, <2>2, <2>3
          DEF Connect, SendInitial, Scan, SendChanged, Leave, vars
<1>2. ASSUME NEW said, NEW d, Tell(said, d), d.kind = datum.kind,
             \/ said = told /\ datum.hasValue /\ ~datum.changed => ~d.changed
             \/ datum.kind = "Text" /\ said \in Long
      PROVE  NoFalseChange'
  BY <1>2 DEF Tell
<1>3. ASSUME NEW v \in 0 .. MaxValue, TellValue(v) PROVE NoFalseChange'
  <2>0. SetValue(datum, v).kind = datum.kind
    BY DEF SetValue, TypeOK, Datum
  <2>1. CASE datum.kind = "Availability"
    <3>1. told = AVAILABLE /\ datum.hasValue /\ ~datum.changed =>
            ~SetValue(datum, v).changed
      BY <2>1 DEF SetValue, FeedInv, Item, Said, Close, TypeOK, Datum
    <3> QED BY <1>2, <1>3, <2>0, <2>1, <3>1 DEF TellValue
  <2>2. CASE datum.kind # "Availability" /\ ~(datum.kind = "Text" /\ v \in Long)
    <3>1. v \in Int /\ Stored(datum.kind, v) = v
      BY <2>2 DEF Stored
    <3>2. told = v /\ datum.hasValue =>
            ~datum.unavailable /\ ~Differs(datum.kind, v, datum.value)
      BY <2>2, <3>1 DEF FeedInv, Item, Said, Close, Differs, TypeOK, Datum
    <3>3. told = v /\ datum.hasValue /\ ~datum.changed => ~SetValue(datum, v).changed
      BY <2>2, <3>2 DEF SetValue
    <3> QED BY <1>2, <1>3, <2>0, <2>2, <3>3 DEF TellValue
  <2>3. CASE datum.kind = "Text" /\ v \in Long
    BY <1>2, <1>3, <2>0, <2>3 DEF TellValue
  <2> QED BY <2>1, <2>2, <2>3
<1>4. CASE TellUnavailable
  <2>1. told = UNAVAILABLE /\ datum.hasValue => datum.unavailable
    BY DEF FeedInv, Item, Said, Close, TypeOK, Datum
  <2>2. told = UNAVAILABLE /\ datum.hasValue /\ ~datum.changed =>
          ~MakeUnavailable(datum).changed
    BY <2>1 DEF MakeUnavailable
  <2>3. MakeUnavailable(datum).kind = datum.kind
    BY DEF MakeUnavailable, TypeOK, Datum
  <2> QED BY <1>2, <1>4, <2>2, <2>3 DEF TellUnavailable
<1> QED BY <1>1, <1>3, <1>4 DEF Next

\* Being told the same again never makes an item changed, for any values, any
\* epsilon and any texts that do not fit, except such a text itself
\* (setValue() of the classes of device_datum.cpp).
THEOREM NothingFalselyChanged == Spec => []NoFalseChange
<1>1. Init => NoFalseChange
  BY DEF Init, NoFalseChange
<1>2. TypeOK /\ FeedInv /\ NoFalseChange /\ [Next]_vars => NoFalseChange'
  BY RepeatStep
<1> QED BY <1>1, <1>2, FeedInit, TypeStep, FeedStep, PTL DEF Spec
=============================================================================
