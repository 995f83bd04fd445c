---------------------------- MODULE StreamProofs ----------------------------
(* Proofs about AssetStream, for whatever the agent records and keeps, any  *)
(* number of faults, and documents that share a call of HandleData() or     *)
(* not.                                                                     *)
EXTENDS AssetStream, TLAPS

\* A connection is there exactly while the monitor is in MTCStreamStart(), for
\* good if a request for an asset hangs in it.
SessionInv ==
  /\ pc \in {"current", "start", "exited"} => link = "none"
  /\ pc \in {"stream", "parse", "asset"} => link # "none"
  /\ link = "none" => docs = <<>> /\ nul = FALSE /\ ~late
  /\ nul => ~in_body

\* The documents under way continue each other from the monitor's position
\* to the agent's, unless a NUL hides them.
DocsInv ==
  /\ link = "up" => served <= agentNext
  /\ \A k \in 1 .. Len(docs) :
       /\ docs[k].first <= docs[k].next
       /\ docs[k].instance <= agentInstance
       /\ link = "up" => docs[k].instance = agentInstance
       /\ docs[k].instance = agentInstance => docs[k].next <= agentNext
  /\ \A k \in 1 .. Len(docs) - 1 : docs[k].next = docs[k + 1].first
  /\ docs # <<>> => docs[Len(docs)].next = served
  /\ ~nul /\ link # "none" =>
       /\ docs = <<>> => served = mNextSequence
       /\ docs # <<>> => docs[1].first = mNextSequence

\* What was handed over is older than the monitor's position, in the instance
\* the next document will be of.
HandedInv ==
  /\ instance <= agentInstance
  /\ \A i \in 1 .. Len(handed) :
       /\ handed[i].known <= instance
       /\ handed[i].doc.instance <= agentInstance
       /\ handed[i].doc.instance = agentInstance =>
            /\ handed[i].doc.next <= agentNext
            /\ instance = agentInstance \/ link # "none" \/ pc = "start"
                 => handed[i].doc.next <= mNextSequence
       /\ \A k \in 1 .. Len(docs) :
            handed[i].doc.instance = docs[k].instance
              => handed[i].doc.next <= mNextSequence

\* The last document handed over ends at the monitor's position.
LastInv ==
  Len(handed) > 0 =>
    LET last == handed[Len(handed)] IN
      last.known = instance /\ last.doc.instance = instance
        => last.doc.next = mNextSequence

StreamInv == TypeOK /\ SessionInv /\ DocsInv /\ HandedInv /\ LastInv

-----------------------------------------------------------------------------
\* Instances and positions are numbers, of which the last record is handed on.
LEMMA Numbers ==
  ASSUME TypeOK
  PROVE  /\ agentInstance \in Nat /\ agentNext \in Nat /\ served \in Nat
         /\ instance \in Nat /\ mNextSequence \in Nat
         /\ Len(docs) \in Nat /\ Len(handed) \in Nat /\ received \in Nat
         /\ \A k \in 1 .. Len(docs) :
              /\ docs[k] \in Documents
              /\ docs[k].instance \in Nat /\ docs[k].first \in Nat /\ docs[k].next \in Nat
         /\ \A i \in 1 .. Len(handed) :
              /\ handed[i].doc \in Documents /\ handed[i].known \in Nat
              /\ handed[i].doc.instance \in Nat /\ handed[i].doc.first \in Nat
              /\ handed[i].doc.next \in Nat
<1>1. \A d \in Documents : d.instance \in Nat /\ d.first \in Nat /\ d.next \in Nat
  BY StreamAssumption DEF Documents, Instances, Sequences
<1>2. /\ agentInstance \in Nat /\ agentNext \in Nat /\ served \in Nat
      /\ instance \in Nat /\ mNextSequence \in Nat
      /\ Len(docs) \in Nat /\ Len(handed) \in Nat /\ received \in Nat
  BY StreamAssumption DEF TypeOK, Instances, Sequences, Pieces
<1>3. \A k \in 1 .. Len(docs) : docs[k] \in Documents
  BY DEF TypeOK
<1>4. \A i \in 1 .. Len(handed) : handed[i] \in Entries
  BY DEF TypeOK
<1>5. \A i \in 1 .. Len(handed) : handed[i].doc \in Documents /\ handed[i].known \in Nat
  BY <1>4, StreamAssumption DEF Entries, Instances
<1> QED BY <1>1, <1>2, <1>3, <1>5

\* A number within a bound is within a larger one.
LEMMA RangeGrows ==
  \A m, n \in Nat : m <= n => \A a \in 1 .. m + 1 : a \in 1 .. n + 1
  OBVIOUS

LEMMA InitOK == Init => StreamInv /\ HandedOnce /\ NothingSkipped
<1> SUFFICES ASSUME Init PROVE StreamInv /\ HandedOnce /\ NothingSkipped
  OBVIOUS
<1>1. Len(docs) = 0 /\ Len(handed) = 0 /\ docs = <<>> /\ handed = <<>>
  BY DEF Init
<1>2. TypeOK
  <2>1. docs \in Seq(Documents) /\ handed \in Seq(Entries)
    BY <1>1
  <2>2. received \in 0 .. Pieces * Len(docs)
    BY <1>1 DEF Init, Pieces
  <2>3. agentNext \in Sequences /\ 1 \in Sequences /\ 0 \in Instances
    BY StreamAssumption DEF Init, Sequences, Instances
  <2>4. /\ faults \in 0 .. MaxFaults /\ agentInstance \in 1 .. faults + 1
        /\ served \in Sequences /\ mNextSequence \in Sequences /\ instance \in Instances
    BY <2>3, StreamAssumption DEF Init
  <2>5. /\ link = "none" /\ in_body = FALSE /\ nul = FALSE /\ stopped = FALSE
        /\ late = FALSE /\ pc = "current"
    BY DEF Init
  <2> QED BY <2>1, <2>2, <2>3, <2>4, <2>5 DEF TypeOK
<1>3. SessionInv
  BY DEF Init, SessionInv
<1>4. DocsInv
  BY <1>1 DEF Init, DocsInv
<1>5. HandedInv /\ LastInv /\ HandedOnce /\ NothingSkipped
  BY <1>1 DEF Init, HandedInv, LastInv, HandedOnce, NothingSkipped
<1> QED BY <1>2, <1>3, <1>4, <1>5 DEF StreamInv

\* What the agent and the network do leaves the monitor's part alone.
LEMMA WorldStep ==
  ASSUME StreamInv, Record \/ Publish \/ Restart \/ Lose
  PROVE  StreamInv'
<1> USE Numbers DEF StreamInv
<1>1. CASE Record
  <2>1. /\ agentNext' = agentNext + 1 /\ agentNext <= MaxSequence
        /\ UNCHANGED <<agentInstance, faults, linkVars, blockVars, dogVars, monitorVars>>
    BY <1>1 DEF Record
  <2>2. TypeOK'
    BY <2>1, StreamAssumption DEF TypeOK, Sequences, linkVars, blockVars, dogVars, monitorVars
  <2>3. SessionInv'
    BY <2>1 DEF SessionInv, linkVars, blockVars, dogVars, monitorVars
  <2>4. DocsInv'
    BY <2>1 DEF DocsInv, linkVars, blockVars, monitorVars
  <2>5. HandedInv' /\ LastInv'
    BY <2>1 DEF HandedInv, LastInv, linkVars, blockVars, monitorVars
  <2> QED BY <2>2, <2>3, <2>4, <2>5
<1>2. CASE Publish
  <2> DEFINE doc == [instance |-> agentInstance, first |-> served, next |-> agentNext]
  <2>1. doc \in Documents
    BY <1>2, StreamAssumption DEF StreamInv, TypeOK, Documents, Instances, Sequences
  <2>2. docs' = Append(docs, doc) /\ served' = agentNext
    BY <1>2 DEF Publish
  <2>3. Len(docs') = Len(docs) + 1 /\ docs' \in Seq(Documents) /\ docs'[Len(docs) + 1] = doc
        /\ \A k \in 1 .. Len(docs) : docs'[k] = docs[k]
    BY <2>1, <2>2 DEF StreamInv, TypeOK
  <2>4. UNCHANGED <<agentVars, link, received, in_body, nul, dogVars, monitorVars>> /\ link = "up"
    BY <1>2 DEF Publish
  <2>5. TypeOK'
    BY <2>2, <2>3, <2>4 DEF StreamInv, TypeOK, agentVars, dogVars, monitorVars, Pieces, Sequences, Instances, Documents
  <2>6. SessionInv'
    BY <2>4 DEF StreamInv, SessionInv, dogVars, monitorVars
  <2>7. /\ agentInstance' = agentInstance /\ agentNext' = agentNext
        /\ doc.instance = agentInstance /\ doc.first = served /\ doc.next = agentNext
        /\ nul' = nul /\ mNextSequence' = mNextSequence /\ handed' = handed
        /\ instance' = instance /\ pc' = pc /\ pc # "current"
    BY <2>4 DEF SessionInv, agentVars, monitorVars
  <2> HIDE DEF doc
  <2>8. DocsInv'
    <3>1. docs' # <<>> /\ docs'[Len(docs')].next = served'
      BY <2>2, <2>3, <2>7
    <3>2. ~nul => docs'[1].first = mNextSequence'
      <4>1. CASE docs = <<>> BY <2>3, <2>4, <2>7, <4>1 DEF DocsInv
      <4>2. CASE docs # <<>>
        <5>1. Len(docs) >= 1 BY <4>2 DEF TypeOK
        <5> QED BY <2>3, <2>4, <2>7, <4>2, <5>1 DEF DocsInv
      <4> QED BY <4>1, <4>2
    <3>3. \A k \in 1 .. Len(docs') - 1 : docs'[k].next = docs'[k + 1].first
      <4>1. SUFFICES ASSUME NEW k \in 1 .. Len(docs) PROVE docs'[k].next = docs'[k + 1].first
        BY <2>3
      <4>2. CASE k = Len(docs)
        <5>1. docs # <<>> BY <4>1
        <5> QED BY <2>3, <2>7, <4>2, <5>1 DEF DocsInv
      <4>3. CASE k # Len(docs)
        <5>1. k \in 1 .. Len(docs) - 1 /\ k + 1 \in 1 .. Len(docs)
          BY <4>1, <4>3
        <5>2. docs'[k] = docs[k] /\ docs'[k + 1] = docs[k + 1]
          BY <2>3, <5>1
        <5> QED BY <5>1, <5>2 DEF DocsInv
      <4> QED BY <4>2, <4>3
    <3>4. \A k \in 1 .. Len(docs') :
            /\ docs'[k].first <= docs'[k].next
            /\ docs'[k].instance <= agentInstance
            /\ docs'[k].instance = agentInstance
            /\ docs'[k].next <= agentNext
      BY <2>3, <2>4, <2>7 DEF DocsInv
    <3>5. /\ link' = "up" /\ served' <= agentNext'
          /\ agentInstance' = agentInstance /\ agentNext' = agentNext /\ nul' = nul
      BY <2>2, <2>4, <2>7
    <3> HIDE DEF StreamInv
    <3> QED BY <3>1, <3>2, <3>3, <3>4, <3>5 DEF DocsInv
  <2>9. HandedInv'
    <3>1. ASSUME NEW i \in 1 .. Len(handed), NEW k \in 1 .. Len(docs'),
                 handed[i].doc.instance = docs'[k].instance
          PROVE  handed[i].doc.next <= mNextSequence
      <4>1. CASE k = Len(docs) + 1
        BY <2>3, <2>4, <2>7, <3>1, <4>1 DEF HandedInv
      <4>2. CASE k \in 1 .. Len(docs)
        BY <2>3, <3>1, <4>2 DEF HandedInv
      <4> QED BY <2>3, <4>1, <4>2
    <3> QED BY <2>4, <2>7, <3>1 DEF HandedInv
  <2>10. LastInv'
    BY <2>7 DEF LastInv
  <2> QED BY <2>5, <2>6, <2>8, <2>9, <2>10 DEF StreamInv
<1>3. CASE Restart
  <2>1. agentInstance' = agentInstance + 1 /\ agentNext' = 1 /\ faults' = faults + 1
        /\ link' = (IF link = "up" THEN "closed" ELSE link) /\ faults < MaxFaults
        /\ UNCHANGED <<served, blockVars, dogVars, monitorVars>>
    BY <1>3 DEF Restart, Fault
  <2>2. TypeOK'
    BY <2>1, StreamAssumption DEF StreamInv, TypeOK, blockVars, dogVars, monitorVars,
       Sequences, Instances, Documents, Pieces
  <2>3. SessionInv'
    BY <2>1 DEF SessionInv, blockVars, dogVars, monitorVars
  <2>4. DocsInv'
    <3>1. /\ docs' = docs /\ nul' = nul /\ mNextSequence' = mNextSequence /\ served' = served
          /\ link' # "up" /\ (link' = "none" <=> link = "none")
      BY <2>1 DEF TypeOK, blockVars, monitorVars
    <3>2. \A k \in 1 .. Len(docs) :
            /\ docs[k].first <= docs[k].next
            /\ docs[k].instance <= agentInstance' /\ docs[k].instance # agentInstance'
      BY <2>1 DEF DocsInv
    <3> QED BY <3>1, <3>2 DEF DocsInv
  <2>5. HandedInv' /\ LastInv'
    BY <2>1 DEF HandedInv, LastInv, blockVars, monitorVars
  <2> QED BY <2>2, <2>3, <2>4, <2>5
<1>4. CASE Lose
  BY <1>4, StreamAssumption DEF StreamInv, TypeOK, SessionInv, DocsInv, HandedInv, LastInv,
     Lose, Fault, blockVars, dogVars, monitorVars
<1> QED BY <1>1, <1>2, <1>3, <1>4

\* Between streams, and at the start and the end of one.
LEMMA MonitorStep ==
  ASSUME StreamInv, Current \/ Start \/ StartExits \/ RequestFails \/ End \/ Hang \/ Refuse
  PROVE  StreamInv'
<1> USE Numbers DEF StreamInv
<1>1. CASE Current
  <2>1. /\ instance' = agentInstance /\ mNextSequence' \in {agentNext, mNextSequence}
        /\ pc = "current" /\ pc' = "start" /\ link = "none" /\ docs = <<>> /\ ~nul
        /\ UNCHANGED <<agentVars, linkVars, blockVars, dogVars, handed>>
    BY <1>1 DEF Current, SessionInv
  <2>6. TypeOK' /\ SessionInv'
    <3>1. agentInstance \in Instances
      BY StreamAssumption DEF TypeOK, Instances
    <3> QED BY <2>1, <3>1 DEF TypeOK, SessionInv, agentVars, linkVars, blockVars, dogVars
  <2>7. DocsInv'
    BY <2>1 DEF DocsInv, agentVars, linkVars, blockVars
  <2>2. /\ instance' = agentInstance /\ pc = "current" /\ pc' = "start"
        /\ mNextSequence' = IF instance # agentInstance THEN agentNext ELSE mNextSequence
        /\ UNCHANGED <<agentInstance, agentNext, docs, handed, link>>
    BY <1>1 DEF Current, agentVars, linkVars, blockVars
  <2>3. Len(docs) = 0
    BY <2>2 DEF SessionInv
  <2>4. HandedInv'
    BY <2>2, <2>3 DEF HandedInv
  <2>5. LastInv'
    <3>1. Len(handed) > 0 => Len(handed) \in 1 .. Len(handed)
      OBVIOUS
    <3> QED BY <2>2, <3>1 DEF HandedInv, LastInv
  <2> QED BY <2>6, <2>7, <2>4, <2>5
<1>2. CASE Start
  <2>1. /\ pc = "start" /\ pc' = "stream" /\ mNextSequence <= agentNext
        /\ link' = "up" /\ served' = mNextSequence /\ docs' = <<>> /\ received' = 0
        /\ in_body' = FALSE /\ nul' = FALSE /\ stopped' = FALSE /\ late' = FALSE
        /\ UNCHANGED <<agentVars, instance, mNextSequence, handed>>
    BY <1>2 DEF Start, Kept
  <2>2. Len(docs') = 0
    BY <2>1
  <2>3. TypeOK'
    <3>1. docs' \in Seq(Documents) /\ received' \in 0 .. Pieces * Len(docs')
      BY <2>1, <2>2 DEF Pieces
    <3> QED BY <2>1, <3>1 DEF TypeOK, agentVars
  <2>4. SessionInv' /\ DocsInv'
    BY <2>1, <2>2 DEF SessionInv, DocsInv, agentVars
  <2>5. HandedInv' /\ LastInv'
    BY <2>1, <2>2 DEF HandedInv, LastInv, agentVars
  <2> QED BY <2>3, <2>4, <2>5
<1>3. CASE StartExits
  BY <1>3 DEF StreamInv, TypeOK, SessionInv, DocsInv, HandedInv, LastInv, StartExits,
     agentVars, linkVars, blockVars, dogVars
<1>4. CASE RequestFails
  BY <1>4, StreamAssumption DEF StreamInv, TypeOK, SessionInv, DocsInv, HandedInv, LastInv,
     RequestFails, Fault, linkVars, blockVars, dogVars
<1>5. CASE End \/ Refuse
  <2>1. /\ pc \in {"stream", "parse"} /\ pc' = "current"
        /\ link' = "none" /\ docs' = <<>> /\ received' = 0
        /\ in_body' = FALSE /\ nul' = FALSE /\ stopped' = FALSE /\ late' = FALSE
        /\ UNCHANGED <<agentInstance, agentNext, served, instance, mNextSequence, handed>>
        /\ faults' \in 0 .. MaxFaults /\ faults <= faults'
    BY <1>5, StreamAssumption DEF End, Refuse, Complete, Free, Fault, TypeOK
  <2>2. Len(docs') = 0
    BY <2>1
  <2>3. TypeOK'
    <3>1. docs' \in Seq(Documents) /\ received' \in 0 .. Pieces * Len(docs')
      BY <2>1, <2>2 DEF Pieces
    <3>2. agentInstance' \in 1 .. faults' + 1
      <4>1. faults \in Nat /\ faults' \in Nat /\ agentInstance \in 1 .. faults + 1
        BY <2>1, StreamAssumption DEF TypeOK
      <4> QED BY <2>1, <4>1, RangeGrows
    <3> QED BY <2>1, <3>1, <3>2 DEF TypeOK
  <2>4. SessionInv' /\ DocsInv'
    BY <2>1, <2>2 DEF SessionInv, DocsInv
  <2>5. HandedInv' /\ LastInv'
    BY <2>1, <2>2 DEF HandedInv, LastInv, agentVars
  <2> QED BY <2>3, <2>4, <2>5
<1>6. CASE Hang
  BY <1>6, StreamAssumption DEF StreamInv, TypeOK, SessionInv, DocsInv, HandedInv, LastInv,
     Hang, Fault, linkVars, blockVars, dogVars
<1> QED BY <1>1, <1>2, <1>3, <1>4, <1>5, <1>6

\* The parser without a complete document, the request for an asset, and the
\* watchdog.
LEMMA WaitStep ==
  ASSUME StreamInv, Receive \/ NeedData \/ AssetDone \/ Late \/ Slow \/ WatchDog
  PROVE  StreamInv'
<1>1. CASE Receive
  <2>1. PICK n \in received + 1 .. Pieces * Len(docs) :
          IF nul THEN docs' = <<>> /\ received' = 0
                 ELSE received' = n /\ UNCHANGED docs
    BY <1>1 DEF Receive
  <2>2. UNCHANGED <<agentVars, linkVars, in_body, nul, stopped, instance, mNextSequence, handed>>
        /\ pc = "stream" /\ pc' = "parse" /\ late' = FALSE
    BY <1>1 DEF Receive
  <2>3. TypeOK'
    <3>1. docs' \in Seq(Documents)
      <4>1. docs \in Seq(Documents) /\ <<>> \in Seq(Documents)
        BY DEF StreamInv, TypeOK
      <4> QED BY <2>1, <4>1
    <3>2. received' \in 0 .. Pieces * Len(docs')
      BY <2>1, Numbers DEF StreamInv, Pieces
    <3> QED BY <2>2, <3>1, <3>2 DEF StreamInv, TypeOK, agentVars, linkVars
  <2>4. SessionInv' /\ DocsInv' /\ HandedInv' /\ LastInv'
    BY <2>1, <2>2 DEF StreamInv, TypeOK, SessionInv, DocsInv, HandedInv, LastInv, agentVars, linkVars
  <2> QED BY <2>3, <2>4 DEF StreamInv
<1>2. CASE NeedData
  BY <1>2 DEF StreamInv, TypeOK, SessionInv, DocsInv, HandedInv, LastInv, NeedData, Found,
     agentVars, linkVars, dogVars
<1>3. CASE Late
  BY <1>3 DEF StreamInv, TypeOK, SessionInv, DocsInv, HandedInv, LastInv, Late, agentVars,
     linkVars, blockVars, monitorVars
<1>4. CASE Slow
  BY <1>4, StreamAssumption DEF StreamInv, TypeOK, SessionInv, DocsInv, HandedInv, LastInv,
     Slow, Fault, linkVars, blockVars, monitorVars
<1>5. CASE WatchDog
  BY <1>5 DEF StreamInv, TypeOK, SessionInv, DocsInv, HandedInv, LastInv, WatchDog, agentVars,
     blockVars, monitorVars
<1>6. CASE AssetDone
  BY <1>6 DEF StreamInv, TypeOK, SessionInv, DocsInv, HandedInv, LastInv, AssetDone,
     agentVars, linkVars, blockVars, dogVars
<1> QED BY <1>1, <1>2, <1>3, <1>4, <1>5, <1>6

-----------------------------------------------------------------------------
\* What is known of the document that is handed over.
LEMMA FirstDoc ==
  ASSUME StreamInv, Consume
  PROVE  /\ Len(docs) >= 1 /\ docs # <<>> /\ Head(docs) = docs[1]
         /\ docs[1] \in Documents
         /\ docs[1].first = mNextSequence /\ docs[1].first <= docs[1].next
         /\ ~nul /\ link # "none" /\ pc = "parse"
<1>1. received >= 3 /\ Found /\ pc = "parse"
  BY DEF Consume, Complete, Pieces
<1>2. Len(docs) >= 1 /\ docs \in Seq(Documents)
  BY <1>1 DEF StreamInv, TypeOK, Pieces
<1>3. ~nul /\ link # "none"
  BY <1>1 DEF StreamInv, SessionInv, TypeOK, Found
<1>4. docs # <<>> /\ Head(docs) = docs[1] /\ docs[1] \in Documents
  BY <1>2
<1>5. docs[1].first = mNextSequence /\ docs[1].first <= docs[1].next
  BY <1>2, <1>3, <1>4 DEF StreamInv, DocsInv
<1> QED BY <1>1, <1>2, <1>3, <1>4, <1>5

\* What was handed over grows by that document, if it is not empty.
LEMMA HandedGrows ==
  ASSUME StreamInv, Consume
  PROVE  \/ handed' = handed /\ docs[1].first = docs[1].next
         \/ /\ handed' \in Seq(Entries)
            /\ Len(handed') = Len(handed) + 1
            /\ handed'[Len(handed) + 1] = [doc |-> docs[1], known |-> instance]
            /\ \A i \in 1 .. Len(handed) : handed'[i] = handed[i]
<1> DEFINE entry == [doc |-> docs[1], known |-> instance]
<1>1. entry \in Entries /\ handed \in Seq(Entries)
  BY FirstDoc DEF StreamInv, TypeOK, Entries
<1>2. handed' = IF docs[1].first = docs[1].next THEN handed ELSE Append(handed, entry)
  BY FirstDoc DEF Consume, HandleXmlChunk
<1> HIDE DEF entry
<1>3. CASE docs[1].first = docs[1].next
  BY <1>2, <1>3
<1>4. CASE docs[1].first # docs[1].next
  <2>1. handed' = Append(handed, entry)
    BY <1>2, <1>4
  <2> QED BY <1>1, <2>1 DEF entry
<1> QED BY <1>3, <1>4

LEMMA ConsumeStep ==
  ASSUME StreamInv, Consume
  PROVE  StreamInv'
<1>1. /\ docs' = Tail(docs) /\ received' = received - Pieces /\ received >= Pieces
      /\ in_body' = FALSE /\ nul' = (received > Pieces)
      /\ pc' \in {"parse", "stream", "asset"}
      /\ mNextSequence' = docs[1].next
      /\ UNCHANGED <<agentVars, linkVars, dogVars, instance>>
  BY FirstDoc DEF Consume, Complete, HandleXmlChunk
<1>2. /\ Len(docs') = Len(docs) - 1 /\ docs' \in Seq(Documents)
      /\ \A k \in 1 .. Len(docs') : docs'[k] = docs[k + 1]
  BY <1>1, FirstDoc DEF StreamInv, TypeOK
<1>3. mNextSequence <= mNextSequence' /\ mNextSequence' \in Sequences /\ mNextSequence \in Nat
      /\ mNextSequence' \in Nat
  BY <1>1, FirstDoc DEF Documents, Sequences, StreamInv, TypeOK
<1>4. TypeOK'
  <2>1. received' \in 0 .. Pieces * Len(docs')
    BY <1>1, <1>2, Numbers DEF StreamInv, TypeOK, Pieces
  <2>2. handed' \in Seq(Entries)
    BY HandedGrows DEF StreamInv, TypeOK
  <2>3. nul' \in BOOLEAN /\ pc' \in {"stream", "parse", "asset"}
    BY <1>1
  <2> QED BY <1>1, <1>2, <1>3, <2>1, <2>2, <2>3 DEF StreamInv, TypeOK, agentVars, linkVars, dogVars
<1>5. SessionInv'
  BY <1>1, FirstDoc DEF StreamInv, SessionInv, linkVars, dogVars
<1>6. DocsInv'
  <2>1. docs' # <<>> => docs'[Len(docs')].next = served' /\ docs'[1].first = mNextSequence'
    <3>1. SUFFICES ASSUME docs' # <<>>
                   PROVE  docs'[Len(docs')].next = served' /\ docs'[1].first = mNextSequence'
      OBVIOUS
    <3>2. Len(docs') \in Nat \ {0} /\ Len(docs) = Len(docs') + 1
      <4>1. Len(docs') # 0
        BY <1>2, <3>1
      <4> QED BY <1>2, <4>1, Numbers DEF StreamInv
    <3>3. docs'[Len(docs')] = docs[Len(docs)] /\ docs'[1] = docs[2]
      BY <1>2, <3>2
    <3>4. docs[Len(docs)].next = served
      BY <3>2, FirstDoc DEF StreamInv, DocsInv
    <3>5. 1 \in 1 .. Len(docs) - 1 /\ 1 + 1 = 2
      BY <3>2
    <3>6. docs[1].next = docs[2].first
      BY <3>5 DEF StreamInv, DocsInv
    <3>7. served' = served
      BY <1>1 DEF linkVars
    <3> QED BY <1>1, <3>3, <3>4, <3>6, <3>7
  <2>2. docs' = <<>> => served' = mNextSequence'
    <3>1. SUFFICES ASSUME docs' = <<>> PROVE served' = mNextSequence'
      OBVIOUS
    <3>2. Len(docs) = 1
      <4>1. Len(docs') = 0
        BY <3>1
      <4> QED BY <1>2, <4>1, Numbers DEF StreamInv
    <3>3. docs[1].next = served
      BY <3>2, FirstDoc DEF StreamInv, DocsInv
    <3> QED BY <1>1, <3>3 DEF linkVars
  <2>3. \A k \in 1 .. Len(docs') - 1 : docs'[k].next = docs'[k + 1].first
    BY <1>1, <1>2, FirstDoc DEF StreamInv, DocsInv
  <2>4. \A k \in 1 .. Len(docs') :
          /\ docs'[k].first <= docs'[k].next
          /\ docs'[k].instance <= agentInstance'
          /\ link' = "up" => docs'[k].instance = agentInstance'
          /\ docs'[k].instance = agentInstance' => docs'[k].next <= agentNext'
    BY <1>1, <1>2, FirstDoc DEF StreamInv, DocsInv, linkVars, agentVars
  <2>5. link' = "up" => served' <= agentNext'
    BY <1>1 DEF StreamInv, DocsInv, linkVars, agentVars
  <2> QED BY <2>1, <2>2, <2>3, <2>4, <2>5 DEF DocsInv
<1>7. HandedInv'
  <2>1. ASSUME NEW i \in 1 .. Len(handed)
        PROVE  /\ handed[i].doc.next \in Nat
               /\ handed[i].known <= instance
               /\ handed[i].doc.instance <= agentInstance
               /\ handed[i].doc.instance = agentInstance =>
                    /\ handed[i].doc.next <= agentNext
                    /\ handed[i].doc.next <= mNextSequence'
               /\ \A k \in 1 .. Len(docs) :
                    handed[i].doc.instance = docs[k].instance
                      => handed[i].doc.next <= mNextSequence'
    <3>1. handed[i].doc \in Documents
      BY Numbers DEF StreamInv
    <3>2. handed[i].doc.next \in Nat
      BY Numbers DEF StreamInv
    <3> QED BY <1>3, <3>2, FirstDoc DEF StreamInv, HandedInv
  <2>2. /\ docs[1].instance <= agentInstance
        /\ docs[1].instance = agentInstance => docs[1].next <= agentNext
        /\ docs[1].next <= mNextSequence'
    BY <1>1, <1>3, FirstDoc DEF StreamInv, DocsInv
  <2>3. instance <= instance /\ instance <= agentInstance
    BY DEF StreamInv, TypeOK, HandedInv, Instances
  <2>4. agentInstance' = agentInstance /\ agentNext' = agentNext /\ instance' = instance
    BY <1>1 DEF agentVars
  <2>5. \A k \in 1 .. Len(docs') : k + 1 \in 1 .. Len(docs) /\ docs'[k] = docs[k + 1]
    BY <1>2, FirstDoc DEF StreamInv, TypeOK
  <2>6. CASE handed' = handed
    BY <2>1, <2>3, <2>4, <2>5, <2>6 DEF HandedInv
  <2>7. CASE /\ handed' \in Seq(Entries)
             /\ Len(handed') = Len(handed) + 1
             /\ handed'[Len(handed) + 1] = [doc |-> docs[1], known |-> instance]
             /\ \A i \in 1 .. Len(handed) : handed'[i] = handed[i]
    <3>1. Len(handed) \in Nat
      BY DEF StreamInv, TypeOK
    <3>2. \A i \in 1 .. Len(handed') : i = Len(handed) + 1 \/ i \in 1 .. Len(handed)
      BY <2>7, <3>1
    <3>3. ASSUME NEW i \in 1 .. Len(handed')
          PROVE  /\ handed'[i].known <= instance
                 /\ handed'[i].doc.instance <= agentInstance
                 /\ handed'[i].doc.instance = agentInstance =>
                      /\ handed'[i].doc.next <= agentNext
                      /\ handed'[i].doc.next <= mNextSequence'
                 /\ \A k \in 1 .. Len(docs) :
                      handed'[i].doc.instance = docs[k].instance
                        => handed'[i].doc.next <= mNextSequence'
      <4>1. CASE i = Len(handed) + 1
        <5>1. handed'[i].doc = docs[1] /\ handed'[i].known = instance
          BY <2>7, <4>1
        <5> QED BY <1>1, <1>3, <2>2, <2>3, <5>1
      <4>2. CASE i \in 1 .. Len(handed)
        BY <2>1, <2>7, <4>2
      <4> QED BY <3>2, <4>1, <4>2
    <3> QED BY <2>3, <2>4, <2>5, <3>3 DEF HandedInv
  <2> QED BY <2>6, <2>7, HandedGrows
<1>8. LastInv'
  <2>1. CASE handed' = handed /\ docs[1].first = docs[1].next
    BY <1>1, <2>1, FirstDoc DEF StreamInv, LastInv
  <2>2. CASE /\ Len(handed') = Len(handed) + 1
             /\ handed'[Len(handed) + 1] = [doc |-> docs[1], known |-> instance]
    BY <1>1, <2>2 DEF LastInv
  <2> QED BY <2>1, <2>2, HandedGrows
<1> QED BY <1>4, <1>5, <1>6, <1>7, <1>8 DEF StreamInv

LEMMA NextStep ==
  ASSUME StreamInv, [Next]_vars
  PROVE  StreamInv'
<1>1. CASE UNCHANGED vars
  BY <1>1 DEF StreamInv, TypeOK, SessionInv, DocsInv, HandedInv, LastInv, vars, agentVars,
     linkVars, blockVars, dogVars, monitorVars
<1>2. CASE Next
  BY <1>2, WorldStep, MonitorStep, WaitStep, ConsumeStep DEF Next
<1> QED BY <1>1, <1>2

\* Only Consume adds to what was handed over.
LEMMA HandedKept ==
  ASSUME [Next]_vars, ~Consume
  PROVE  handed' = handed
  BY DEF Next, Record, Publish, Restart, Lose, Current, Start, StartExits, RequestFails, Free, End,
     Hang, Receive, NeedData, AssetDone, Refuse, Late, Slow, WatchDog, vars, monitorVars

LEMMA OnceStep ==
  ASSUME StreamInv, HandedOnce, NothingSkipped, Consume
  PROVE  HandedOnce' /\ NothingSkipped'
<1>1. CASE handed' = handed
  BY <1>1 DEF HandedOnce, NothingSkipped
<1>2. CASE /\ Len(handed') = Len(handed) + 1
           /\ handed'[Len(handed) + 1] = [doc |-> docs[1], known |-> instance]
           /\ \A i \in 1 .. Len(handed) : handed'[i] = handed[i]
  <2>1. Len(handed) \in Nat
    BY DEF StreamInv, TypeOK
  <2>2. \A i \in 1 .. Len(handed) :
          handed[i].doc.instance = docs[1].instance
            => handed[i].doc.next <= docs[1].first
    BY FirstDoc DEF StreamInv, HandedInv
  <2>3. HandedOnce'
    BY <1>2, <2>1, <2>2 DEF HandedOnce
  <2>4. NothingSkipped'
    BY <1>2, <2>1, FirstDoc DEF StreamInv, LastInv, NothingSkipped
  <2> QED BY <2>3, <2>4
<1> QED BY <1>1, <1>2, HandedGrows

LEMMA StreamInductive == Spec => [](StreamInv /\ HandedOnce /\ NothingSkipped)
<1>1. StreamInv /\ HandedOnce /\ NothingSkipped /\ [Next]_vars
      => StreamInv' /\ HandedOnce' /\ NothingSkipped'
  <2>1. ASSUME StreamInv, HandedOnce, NothingSkipped, [Next]_vars, ~Consume
        PROVE  HandedOnce' /\ NothingSkipped'
    BY <2>1, HandedKept DEF HandedOnce, NothingSkipped
  <2> QED BY <2>1, NextStep, OnceStep
<1> QED BY <1>1, InitOK, PTL DEF Spec

-----------------------------------------------------------------------------
\* The types of monitor, parser and agent, for every bound (stream.c:114-207).
THEOREM StreamTypeCorrect == Spec => []TypeOK
  BY StreamInductive, PTL DEF StreamInv

\* Nothing of an instance of the agent is handed over twice or out of order,
\* however many links are lost (balluff_adapter.cpp:206-213).
THEOREM ResumeIsExact == Spec => []ResumesExactly
  BY StreamInductive, PTL DEF ResumesExactly
=============================================================================
