---------------------------- MODULE FanucProofs ----------------------------
(***************************************************************************)
(* Proofs about FanucAdapter, for any number of clients, paths, items and  *)
(* connections: the library handle is neither leaked nor freed twice, the  *)
(* loops over the paths stay in them, and what a client shows and did not  *)
(* miss was read in the connection that there is, or is UNAVAILABLE.       *)
(***************************************************************************)
EXTENDS FanucAdapter, TLAPS

Reading == {"block", "status", "axes", "spindle", "tool"}

\* HandleBalanced is not inductive: a connection is made without a look at
\* the old handle, and a failed read frees it without a look at mConnected.
\* Where the gather is says which of the two is so.
HandleInv ==
  /\ HandleBalanced
  /\ mConnected \in BOOLEAN
  /\ pc = "connect" => mConnected = FALSE
  /\ pc \in Reading \cup {"configure", "initialize"} => mConnected = TRUE

-----------------------------------------------------------------------------

\* The adapter starts without a handle.
LEMMA HandleInit == Init => HandleInv
BY DEF Init, HandleInv, HandleBalanced, Reading

\* The groups of a path follow each other; the last is followed by the
\* first of the next path or by the messages.
LEMMA AdvanceReads ==
  ASSUME Advance
  PROVE  pc \in Reading /\ pc' \in Reading \cup {"message"}
<1>1. PICK k \in 1 .. Len(Steps) :
        /\ pc = Steps[k]
        /\ k < Len(Steps) => pc' = Steps[k + 1]
        /\ ~(k < Len(Steps)) => pc' \in {Steps[1], "message"}
  BY DEF Advance
<1>2. k \in 1 .. 5
  BY <1>1 DEF Steps
<1>3. /\ Len(Steps) = 5 /\ Steps[1] = "block" /\ Steps[2] = "status"
      /\ Steps[3] = "axes" /\ Steps[4] = "spindle" /\ Steps[5] = "tool"
  BY DEF Steps
<1>4. CASE k < 5
  <2>1. k \in 1 .. 4 /\ pc' = Steps[k + 1]
    BY <1>1, <1>2, <1>3, <1>4
  <2>2. k = 1 \/ k = 2 \/ k = 3 \/ k = 4
    BY <2>1
  <2> QED BY <1>1, <1>3, <2>1, <2>2 DEF Reading
<1>5. CASE ~(k < 5)
  <2>1. k = 5
    BY <1>2, <1>5
  <2> QED BY <1>1, <1>3, <1>5, <2>1 DEF Reading
<1> QED BY <1>4, <1>5

\* The steps that leave the handle and mConnected as they are, and do not
\* start a gather.
LEMMA Keeps ==
  ASSUME HandleInv, UNCHANGED <<handles, mConnected>>,
         pc' = pc \/ pc' \notin Reading \cup {"connect", "configure", "initialize"}
  PROVE  HandleInv'
BY DEF HandleInv, HandleBalanced

\* One step keeps the handle with the connection.
LEMMA HandleStep == HandleInv /\ [Next]_vars => HandleInv'
<1> SUFFICES ASSUME HandleInv, [Next]_vars PROVE HandleInv'
  OBVIOUS
<1> USE DEF HandleInv, HandleBalanced, Reading, controllerVars
<1>1. ASSUME Begin, UNCHANGED controllerVars PROVE HandleInv'
  BY <1>1 DEF Begin
<1>2. ASSUME NEW c \in Clients, Accept(c) PROVE HandleInv'
  BY <1>1, <1>2 DEF Accept
<1>3. CASE Scan BY <1>1, <1>3 DEF Scan
<1>4. CASE Send BY <1>4, Keeps DEF Send
<1>5. ASSUME NEW c \in Clients, Notice(c) PROVE HandleInv'
  BY <1>5, Keeps DEF Notice
<1>6. CASE Connect
  <2>1. mConnected = FALSE /\ handles = 0
    BY <1>6 DEF Connect
  <2> QED BY <1>6, <2>1 DEF Connect
<1>7. CASE ConnectFails BY <1>7, Keeps DEF ConnectFails
<1>8. CASE GetPaths BY <1>8, Keeps DEF GetPaths
<1>9. CASE ConfigurePath BY <1>9 DEF ConfigurePath
<1>10. CASE ConfigureFails BY <1>10, Keeps DEF ConfigureFails
<1>11. CASE Initialize BY <1>11, Keeps DEF Initialize
<1>12. CASE ReadPath
  <2>1. UNCHANGED <<handles, mConnected>> /\ Advance
    BY <1>12 DEF ReadPath
  <2> QED BY <2>1, AdvanceReads
<1>13. CASE ReadPathFails
  <2>1. mConnected = TRUE /\ handles = 1
    BY <1>13 DEF ReadPathFails
  <2>2. mConnected' = FALSE /\ handles' = handles - 1 /\ pc' = "message"
    BY <1>13 DEF ReadPathFails, Disconnect
  <2>3. handles' = 0
    BY <2>1, <2>2
  <2> QED BY <2>2, <2>3
<1>14. CASE ReadTool
  <2>1. UNCHANGED <<handles, mConnected>> /\ Advance
    BY <1>14 DEF ReadTool
  <2> QED BY <2>1, AdvanceReads
<1>15. ASSUME NEW from, NEW to \in SUBSET {"macro", "pmc", "count", "send", "exited"},
              NEW results, Optional(from, to, results)
       PROVE  HandleInv'
  BY <1>15, Keeps DEF Optional
<1>16. CASE GetMessages \/ GetMacros \/ GetPMC \/ GetCounts
  <2>1. AfterMacros \in SUBSET {"macro", "pmc", "count", "send", "exited"}
    BY DEF AfterMacros
  <2> QED BY <1>15, <1>16, <2>1 DEF GetMessages, GetMacros, GetPMC, GetCounts
<1>17. ASSUME NEW c \in Clients, Hangup(c) \/ Stall(c) \/ Resume(c) PROVE HandleInv'
  BY <1>17, Keeps DEF Hangup, Stall, Resume
<1>18. CASE LinkLost BY <1>18, Keeps DEF LinkLost
<1>19. CASE LinkBack BY <1>19, Keeps DEF LinkBack
<1>20. CASE UNCHANGED vars BY <1>20, Keeps DEF vars
<1> QED BY <1>2, <1>3, <1>4, <1>5, <1>6, <1>7, <1>8, <1>9, <1>10, <1>11,
           <1>12, <1>13, <1>14, <1>16, <1>17, <1>18, <1>19, <1>20
        DEF Next, Loop, Remote

\* However connects, lost links and disconnects follow each other, there is
\* one handle while connected and none otherwise (connect() and disconnect()
\* of fanuc_adapter.cpp).
THEOREM HandleIsBalanced == Spec => []HandleBalanced
<1>1. HandleInv => HandleBalanced
  BY DEF HandleInv
<1> QED BY <1>1, HandleInit, HandleStep, PTL DEF Spec
-----------------------------------------------------------------------------
(* What a client shows.  The invariant has three parts: where the gather   *)
(* is and which items there are, what an item may hold, and what of it has *)
(* been shown to whom.                                                     *)

ItemsOf(n) == (Base \X {0}) \cup (PathNames \X (1 .. n))

\* Where clients are accepted and scans begin.
Between == pc \in {"idle", "read"}

\* configure() makes one path after the other, once in the life of the
\* process; the loops over the paths are in mPaths, and elsewhere path is 0.
PlaceInv ==
  /\ mConfigured \in BOOLEAN /\ alive \in BOOLEAN /\ link \in {"up", "down"}
  /\ client \in [Clients -> {"off", "on", "stuck", "gone"}]
  /\ mInitializeClient \in Clients \cup {NULL}
  /\ Between => mInitializeClient = NULL
  /\ session \in 0 .. MaxSessions
  /\ pc \in Reading \cup {"idle", "read", "connect", "configure", "initialize", "message",
                          "macro", "pmc", "count", "send", "exited"}
  /\ mMaxPath \in 0 .. MaxPaths /\ path \in 0 .. mMaxPath
  /\ toolData \in Seq({"management", "modal", "none"})
  /\ Len(toolData) <= MaxPaths
  /\ DOMAIN items = ItemsOf(Len(toolData))
  /\ mConfigured => mMaxPath > 0 /\ Len(toolData) = mMaxPath
  /\ mConnected => mConfigured \/ pc \in {"configure", "exited"}
  /\ mConnected => session > 0
  /\ ~mConnected => ~alive
  /\ ~alive => session < MaxSessions
  /\ ~mConfigured /\ pc \notin {"configure", "exited"} => Len(toolData) = 0
  /\ pc = "configure" =>
       ~mConfigured /\ Len(toolData) = IF path = 0 THEN 0 ELSE path - 1
  /\ pc \in Reading => mConfigured /\ path > 0
  /\ pc \notin Reading \cup {"configure", "exited"} => path = 0

\* What an item is to a client that got everything it ever sent.
Shows(d) == IF d.hasValue \/ d.unavailable THEN Said(d) ELSE UNAVAILABLE

\* An item has its kind.  The availability is that of the connection (con);
\* any other but mActiveAxes is unavailable, was never set, or was read in
\* the connection that there is (ses).
Sound(i, d, con, ses) ==
  /\ d \in Datum /\ d.kind = KindOf(i[1])
  /\ ~d.hasValue /\ d.changed => d.unavailable
  /\ i = Avail => d.hasValue /\ d.unavailable = ~con
  /\ i[1] \notin {"avail", "active"} =>
       d.unavailable \/ ~d.hasValue \/ (con /\ d.value = ses)

AllSound(its, con, ses) == \A i \in DOMAIN its : Sound(i, its[i], con, ses)

\* Nothing becomes different from what was sent without being marked, and
\* what has a value keeps one.
Marks(d, e) ==
  /\ d.hasValue => e.hasValue
  /\ ~e.changed => ~d.changed /\ Shows(e) = Shows(d)

AllMark(its) ==
  /\ DOMAIN its = DOMAIN items
  /\ \A i \in DOMAIN items : Marks(items[i], its[i])

\* A client that is waiting for its initial data shows nothing, and nobody
\* shows an item that never had a value; any other client shows each item
\* that is not marked, and between gathers every item, but what it missed.
Waiting(c) == c \notin Connected \/ mInitializeClient = c

ClientInv(c) ==
  /\ Waiting(c) => \A i \in Items : shown[c][i] = UNAVAILABLE
  /\ \A i \in Items \ DOMAIN items : shown[c][i] = UNAVAILABLE
  /\ \A i \in DOMAIN items : ~items[i].hasValue => shown[c][i] = UNAVAILABLE
  /\ ~Waiting(c) => \A i \in DOMAIN items \ missed[c] :
       Between \/ ~items[i].changed => shown[c][i] = Shows(items[i])

ShownInv ==
  /\ shown \in [Clients -> [Items -> Int \cup {UNAVAILABLE, AVAILABLE}]]
  /\ missed \in [Clients -> SUBSET Items]
  /\ \A c \in Clients : ClientInv(c)

\* LostMeansUnavailable and OneConnection speak of the time between two
\* gathers; the step that makes them true sends what was marked long before.
FanucInv == HandleInv /\ PlaceInv /\ AllSound(items, mConnected, session) /\ ShownInv

-----------------------------------------------------------------------------
(* What the operations do to one item. *)

LEMMA ItemsMonotone ==
  ASSUME NEW n \in Nat, n <= MaxPaths
  PROVE  ItemsOf(n) \subseteq Items
<1>1. 1 .. n \subseteq 1 .. MaxPaths
  BY FanucAssumption
<1> QED BY <1>1 DEF ItemsOf, Items

\* A read in this connection.
LEMMA SetSound ==
  ASSUME NEW i, i[1] # "avail", NEW d, NEW con, NEW ses \in 1 .. MaxSessions,
         Sound(i, d, con, ses)
  PROVE  /\ Sound(i, SetValue(d, ses), TRUE, ses)
         /\ Marks(d, SetValue(d, ses))
<1> USE DEF Sound
<1>1. KindOf(i[1]) \in Kinds \ {"Availability"}
  BY DEF KindOf, Kinds
<1>2. ses \in Int /\ Stored(d.kind, ses) = ses
  BY FanucAssumption, DatumAssumption DEF Stored
<1>3. i # Avail
  BY DEF Avail
<1>4. d.kind # "Availability"
  BY <1>1
<1>5. CASE ~d.hasValue \/ d.unavailable \/ Differs(d.kind, ses, d.value)
  <2>1. SetValue(d, ses) = [d EXCEPT !.changed = TRUE, !.value = ses,
                                     !.hasValue = TRUE, !.unavailable = FALSE]
    BY <1>2, <1>4, <1>5 DEF SetValue
  <2>2. SetValue(d, ses) \in Datum
    BY <1>2, <2>1 DEF Datum
  <2> QED BY <1>3, <2>1, <2>2 DEF Marks, Datum
<1>6. CASE ~(~d.hasValue \/ d.unavailable \/ Differs(d.kind, ses, d.value))
  <2>1. SetValue(d, ses) = d
    BY <1>4, <1>6 DEF SetValue
  <2> QED BY <1>3, <1>6, <2>1 DEF Marks
<1> QED BY <1>5, <1>6

\* unavailable(), while connected or in a disconnect.
LEMMA LoseSound ==
  ASSUME NEW i, NEW d, NEW con \in BOOLEAN, NEW ses, Sound(i, d, con, ses)
  PROVE  /\ Sound(i, Lose(i, d), FALSE, ses)
         /\ i[1] # "avail" => Sound(i, Lose(i, d), con, ses)
         /\ Marks(d, Lose(i, d))
<1> USE DEF Sound
<1>1. CASE i[1] = "active"
  BY <1>1 DEF Lose, Marks, Avail
<1>2. CASE i[1] # "active" /\ d.unavailable
  BY <1>2 DEF Lose, MakeUnavailable, Marks, Avail
<1>3. CASE i[1] # "active" /\ ~d.unavailable
  <2>1. Lose(i, d) = [d EXCEPT !.changed = TRUE, !.unavailable = TRUE,
                               !.hasValue = @ \/ d.kind \in {"Text", "Sample"}]
    BY <1>3 DEF Lose, MakeUnavailable
  <2>2. Lose(i, d) \in Datum /\ Lose(i, d).kind = d.kind
    BY <2>1 DEF Datum
  <2>3. Lose(i, d).changed /\ Lose(i, d).unavailable
    BY <2>1 DEF Datum
  <2>4. i = Avail => Lose(i, d).hasValue
    BY <2>1 DEF Datum
  <2>5. i[1] # "avail" => i # Avail
    BY DEF Avail
  <2>6. d.hasValue => Lose(i, d).hasValue
    BY <2>1 DEF Datum
  <2> QED BY <2>2, <2>3, <2>4, <2>5, <2>6 DEF Marks
<1> QED BY <1>1, <1>2, <1>3

LEMMA AppendedSound ==
  ASSUME NEW i, NEW d, NEW con, NEW ses, Sound(i, d, con, ses)
  PROVE  /\ Sound(i, Appended(d), con, ses)
         /\ Shows(Appended(d)) = Shows(d)
         /\ ~Appended(d).changed
BY DEF Sound, Appended, Shows, Said, Datum

-----------------------------------------------------------------------------
(* What the groups of items do. *)

\* Reads in this connection of any items but the availability.
LEMMA SetAllSound ==
  ASSUME NEW its, NEW which, \A i \in which : i[1] # "avail",
         session \in 1 .. MaxSessions, AllSound(its, TRUE, session)
  PROVE  /\ DOMAIN Set(its, which) = DOMAIN its
         /\ AllSound(Set(its, which), TRUE, session)
         /\ \A i \in DOMAIN its : Marks(its[i], Set(its, which)[i])
BY SetSound DEF AllSound, Set, Marks

\* unavailable() of any items but the availability.
LEMMA UnsetAllSound ==
  ASSUME NEW its, NEW which, \A i \in which : i[1] # "avail",
         NEW con \in BOOLEAN, AllSound(its, con, session)
  PROVE  /\ DOMAIN Unset(its, which) = DOMAIN its
         /\ AllSound(Unset(its, which), con, session)
         /\ \A i \in DOMAIN its : Marks(its[i], Unset(its, which)[i])
BY LoseSound DEF AllSound, Unset, Marks

\* Adapter::unavailable(), after which nothing is left of a connection.
LEMMA LoseAllSound ==
  ASSUME NEW its, NEW con \in BOOLEAN, AllSound(its, con, session)
  PROVE  /\ DOMAIN Unset(its, DOMAIN its) = DOMAIN its
         /\ AllSound(Unset(its, DOMAIN its), FALSE, session)
         /\ \A i \in DOMAIN its : Marks(its[i], Unset(its, DOMAIN its)[i])
BY LoseSound DEF AllSound, Unset

\* A step inside a gather that changes items and sends nothing.
LEMMA QuietKeeps ==
  ASSUME ShownInv, AllMark(items'),
         UNCHANGED <<shown, missed, client, mInitializeClient>>, ~Between, ~Between'
  PROVE  ShownInv'
<1>1. SUFFICES ASSUME NEW c \in Clients PROVE ClientInv(c)'
  BY DEF ShownInv
<1>2. (Waiting(c)' <=> Waiting(c)) /\ ClientInv(c)
  BY DEF Waiting, Connected, ShownInv
<1>3. DOMAIN items' = DOMAIN items
  BY DEF AllMark
<1>4. ASSUME NEW i \in DOMAIN items, ~items'[i].hasValue
      PROVE  shown[c][i] = UNAVAILABLE
  BY <1>2, <1>4 DEF ClientInv, AllMark, Marks
<1>5. ASSUME ~Waiting(c), NEW i \in DOMAIN items \ missed[c], ~items'[i].changed
      PROVE  shown[c][i] = Shows(items'[i])
  <2>1. ~items[i].changed /\ Shows(items'[i]) = Shows(items[i])
    BY <1>5 DEF AllMark, Marks
  <2> QED BY <1>2, <1>5, <2>1 DEF ClientInv
<1> QED BY <1>2, <1>3, <1>4, <1>5 DEF ClientInv

\* What a send makes of the items, and of what the clients show.
LEMMA ShowFacts ==
  ASSUME ShownInv, NEW its, DOMAIN its \subseteq Items, NEW con, NEW ses,
         AllSound(its, con, ses), NEW which \in SUBSET DOMAIN its, NEW to,
         Show(its, which, to)
  PROVE  /\ DOMAIN items' = DOMAIN its
         /\ AllSound(items', con, ses)
         /\ shown' \in [Clients -> [Items -> Int \cup {UNAVAILABLE, AVAILABLE}]]
         /\ missed' \in [Clients -> SUBSET Items]
         /\ \A i \in DOMAIN its : /\ items'[i].hasValue = its[i].hasValue
                                  /\ Shows(items'[i]) = Shows(its[i])
                                  /\ items'[i].changed => its[i].changed /\ i \notin which
<1>1. items' = [i \in DOMAIN its |-> IF i \in which THEN Appended(its[i]) ELSE its[i]]
  BY DEF Show
<1>2. ASSUME NEW i \in DOMAIN its
      PROVE  /\ Sound(i, items'[i], con, ses)
             /\ items'[i].hasValue = its[i].hasValue
             /\ Shows(items'[i]) = Shows(its[i])
             /\ items'[i].changed => its[i].changed /\ i \notin which
  <2>1. Sound(i, its[i], con, ses)
    BY DEF AllSound
  <2>2. CASE i \in which
    <3>1. items'[i] = Appended(its[i])
      BY <1>1, <2>2
    <3>2. Appended(its[i]).hasValue = its[i].hasValue
      BY <2>1 DEF Appended, Sound, Datum
    <3> QED BY <2>1, <3>1, <3>2, AppendedSound
  <2>3. CASE i \notin which
    BY <1>1, <2>1, <2>3
  <2> QED BY <2>2, <2>3
<1>3. DOMAIN items' = DOMAIN its
  BY <1>1
<1>4. ASSUME NEW i \in which PROVE Said(its[i]) \in Int \cup {UNAVAILABLE, AVAILABLE}
  BY DEF AllSound, Sound, Said, Datum
<1>5. shown' \in [Clients -> [Items -> Int \cup {UNAVAILABLE, AVAILABLE}]]
  <2>1. shown' = [c \in Clients |->
                   IF c \in to \cap Connected
                   THEN [i \in Items |-> IF i \in which THEN Said(its[i]) ELSE shown[c][i]]
                   ELSE shown[c]]
    BY DEF Show
  <2>2. shown \in [Clients -> [Items -> Int \cup {UNAVAILABLE, AVAILABLE}]]
    BY DEF ShownInv
  <2>3. ASSUME NEW c \in Clients
        PROVE  shown'[c] \in [Items -> Int \cup {UNAVAILABLE, AVAILABLE}]
    BY <1>4, <2>1, <2>2
  <2> QED BY <2>1, <2>3
<1>6. missed' \in [Clients -> SUBSET Items]
  BY DEF Show, ShownInv
<1> QED BY <1>2, <1>3, <1>5, <1>6 DEF AllSound

\* What is marked is sent to everybody.
LEMMA ShowAllKeeps ==
  ASSUME ShownInv, DOMAIN items \subseteq Items, ~Between,
         mInitializeClient = NULL, mInitializeClient' = NULL, UNCHANGED client,
         NEW its, AllMark(its), NEW con, NEW ses, AllSound(its, con, ses),
         Show(its, ChangedOf(its), Clients)
  PROVE  /\ ShownInv'
         /\ DOMAIN items' = DOMAIN items
         /\ AllSound(items', con, ses)
<1> DEFINE which == ChangedOf(its)
<1>1. DOMAIN its = DOMAIN items /\ which \in SUBSET DOMAIN its
  BY DEF AllMark, ChangedOf
<1>2. /\ DOMAIN items' = DOMAIN its
      /\ AllSound(items', con, ses)
      /\ shown' \in [Clients -> [Items -> Int \cup {UNAVAILABLE, AVAILABLE}]]
      /\ missed' \in [Clients -> SUBSET Items]
      /\ \A i \in DOMAIN its : /\ items'[i].hasValue = its[i].hasValue
                               /\ Shows(items'[i]) = Shows(its[i])
                               /\ items'[i].changed => its[i].changed /\ i \notin which
  BY <1>1, ShowFacts
<1>3. SUFFICES ASSUME NEW c \in Clients PROVE ClientInv(c)'
  BY <1>1, <1>2 DEF ShownInv
<1>4. ClientInv(c) /\ (Waiting(c)' <=> Waiting(c)) /\ (Waiting(c) <=> c \notin Connected)
  BY FanucAssumption DEF ShownInv, Waiting, Connected
<1>5. CASE c \notin Connected
  <2>1. shown'[c] = shown[c]
    BY <1>5 DEF Show
  <2> QED BY <1>1, <1>2, <1>4, <1>5, <2>1 DEF ClientInv
<1>6. CASE c \in Connected
  <2>1. /\ shown'[c] = [i \in Items |-> IF i \in which THEN Said(its[i]) ELSE shown[c][i]]
        /\ missed'[c] = missed[c] \ which
    BY <1>6 DEF Show
  <2>2. ASSUME NEW i \in DOMAIN items
        PROVE  /\ ~items'[i].hasValue => shown'[c][i] = UNAVAILABLE
               /\ i \notin missed'[c] => shown'[c][i] = Shows(items'[i])
    <3>1. i \in Items /\ Sound(i, its[i], con, ses) /\ Marks(items[i], its[i])
      BY <1>1 DEF AllMark, AllSound
    <3>2. CASE i \in which
      <4>1. shown'[c][i] = Said(its[i])
        BY <2>1, <3>1, <3>2
      <4>2. its[i].hasValue \/ its[i].unavailable
        BY <3>1, <3>2 DEF ChangedOf, Sound, Datum
      <4> QED BY <1>1, <1>2, <4>1, <4>2 DEF Shows, Said
    <3>3. CASE i \notin which
      <4>1. shown'[c][i] = shown[c][i] /\ ~its[i].changed
        BY <1>1, <2>1, <3>1, <3>3 DEF ChangedOf
      <4>2. ~items[i].changed /\ Shows(its[i]) = Shows(items[i])
            /\ (items[i].hasValue => its[i].hasValue)
        BY <3>1, <4>1 DEF Marks
      <4> QED BY <1>1, <1>2, <1>4, <1>6, <2>1, <3>3, <4>1, <4>2 DEF ClientInv
    <3> QED BY <3>2, <3>3
  <2>3. ASSUME NEW i \in Items \ DOMAIN items PROVE shown'[c][i] = UNAVAILABLE
    BY <1>1, <1>4, <2>1 DEF ClientInv
  <2> QED BY <1>1, <1>2, <1>4, <1>6, <2>2, <2>3 DEF ClientInv
<1> QED BY <1>5, <1>6

\* A step inside a gather that calls flush().
LEMMA FlushKeeps ==
  ASSUME ShownInv, DOMAIN items \subseteq Items, NEW its, AllMark(its),
         NEW con, NEW ses, AllSound(its, con, ses), Flush(its),
         UNCHANGED <<client, mInitializeClient>>, ~Between, ~Between'
  PROVE  /\ ShownInv'
         /\ DOMAIN items' = DOMAIN items
         /\ AllSound(items', con, ses)
<1>1. CASE mInitializeClient # NULL
  <2>1. items' = its /\ UNCHANGED <<shown, missed>>
    BY <1>1 DEF Flush
  <2> QED BY <2>1, QuietKeeps DEF AllMark
<1>2. CASE mInitializeClient = NULL
  <2>1. Show(its, ChangedOf(its), Clients)
    BY <1>2 DEF Flush
  <2> QED BY <1>2, <2>1, ShowAllKeeps
<1> QED BY <1>1, <1>2

\* The initial data: what has a value goes to the new client alone, and the
\* others miss what was marked.
LEMMA ShowNewKeeps ==
  ASSUME ShownInv, DOMAIN items \subseteq Items, ~Between,
         mInitializeClient \in Clients, mInitializeClient' = NULL, UNCHANGED client,
         NEW con, NEW ses, AllSound(items, con, ses),
         NEW which \in SUBSET DOMAIN items,
         \A i \in DOMAIN items : i \in which <=> items[i].hasValue,
         Show(items, which, {mInitializeClient})
  PROVE  /\ ShownInv'
         /\ DOMAIN items' = DOMAIN items
         /\ AllSound(items', con, ses)
<1>2. /\ DOMAIN items' = DOMAIN items
      /\ AllSound(items', con, ses)
      /\ shown' \in [Clients -> [Items -> Int \cup {UNAVAILABLE, AVAILABLE}]]
      /\ missed' \in [Clients -> SUBSET Items]
      /\ \A i \in DOMAIN items : /\ items'[i].hasValue = items[i].hasValue
                                 /\ Shows(items'[i]) = Shows(items[i])
                                 /\ items'[i].changed => items[i].changed /\ i \notin which
  BY ShowFacts
<1>3. SUFFICES ASSUME NEW c \in Clients PROVE ClientInv(c)'
  BY <1>2 DEF ShownInv
<1>4. ClientInv(c) /\ (Waiting(c)' <=> c \notin Connected)
  BY FanucAssumption DEF ShownInv, Waiting, Connected
<1>5. CASE c \notin Connected
  <2>1. shown'[c] = shown[c] /\ Waiting(c)
    BY <1>5 DEF Show, Waiting
  <2> QED BY <1>2, <1>4, <1>5, <2>1 DEF ClientInv
<1>6. CASE c \in Connected /\ c = mInitializeClient
  <2>1. shown'[c] = [i \in Items |-> IF i \in which THEN Said(items[i]) ELSE shown[c][i]]
    BY <1>6 DEF Show
  <2>2. \A i \in Items : shown[c][i] = UNAVAILABLE
    BY <1>4, <1>6 DEF ClientInv, Waiting
  <2>3. ASSUME NEW i \in DOMAIN items
        PROVE  /\ ~items'[i].hasValue => shown'[c][i] = UNAVAILABLE
               /\ shown'[c][i] = Shows(items'[i])
    <3>1. CASE i \in which
      <4>1. shown'[c][i] = Said(items[i]) /\ items[i].hasValue
        BY <2>1, <3>1
      <4> QED BY <1>2, <4>1 DEF Shows
    <3>2. CASE i \notin which
      <4>1. shown'[c][i] = UNAVAILABLE /\ ~items[i].hasValue
        BY <2>1, <2>2, <3>2
      <4> QED BY <1>2, <4>1 DEF Shows, Said
    <3> QED BY <3>1, <3>2
  <2>4. ASSUME NEW i \in Items \ DOMAIN items PROVE shown'[c][i] = UNAVAILABLE
    BY <2>1, <2>2
  <2> QED BY <1>2, <1>4, <1>6, <2>3, <2>4 DEF ClientInv
<1>7. CASE c \in Connected /\ c # mInitializeClient
  <2>1. /\ shown'[c] = shown[c]
        /\ missed'[c] = missed[c] \cup {i \in which : items[i].changed}
    BY <1>7 DEF Show
  <2>2. ~Waiting(c)
    BY <1>7 DEF Waiting
  <2>3. ASSUME NEW i \in DOMAIN items, i \notin missed'[c]
        PROVE  shown[c][i] = Shows(items'[i])
    <3>1. CASE ~items[i].changed
      BY <1>2, <1>4, <2>1, <2>2, <2>3, <3>1 DEF ClientInv
    <3>2. CASE items[i].changed
      <4>1. ~items[i].hasValue
        BY <2>1, <2>3, <3>2
      <4>2. shown[c][i] = UNAVAILABLE
        BY <1>4, <4>1 DEF ClientInv
      <4> QED BY <1>2, <4>1, <4>2 DEF Shows, Said
    <3> QED BY <3>1, <3>2
  <2> QED BY <1>2, <1>4, <1>7, <2>1, <2>3 DEF ClientInv
<1> QED BY <1>5, <1>6, <1>7

\* sendInitialData() or sendChangedData() at the end of a gather.
LEMMA SendKeeps ==
  ASSUME ShownInv, DOMAIN items \subseteq Items, PlaceInv, NEW con, NEW ses,
         AllSound(items, con, ses), Send
  PROVE  /\ ShownInv'
         /\ DOMAIN items' = DOMAIN items
         /\ AllSound(items', con, ses)
<1>1. ~Between /\ mInitializeClient' = NULL /\ UNCHANGED client
  BY DEF Send, Between
<1>2. CASE mInitializeClient # NULL
  <2>1. mInitializeClient \in Clients
    BY <1>2 DEF PlaceInv
  <2>2. Show(items, {i \in DOMAIN items : items[i].hasValue}, {mInitializeClient})
    BY <1>2 DEF Send
  <2> DEFINE which == {i \in DOMAIN items : items[i].hasValue}
  <2>3. which \in SUBSET DOMAIN items /\ Show(items, which, {mInitializeClient})
        /\ \A i \in DOMAIN items : i \in which <=> items[i].hasValue
    BY <2>2
  <2> HIDE DEF which
  <2> QED BY <1>1, <2>1, <2>3, ShowNewKeeps
<1>3. CASE mInitializeClient = NULL
  <2>1. Show(items, ChangedOf(items), Clients)
    BY <1>3 DEF Send
  <2>2. AllMark(items)
    BY DEF AllMark, Marks
  <2> QED BY <1>1, <1>3, <2>1, <2>2, ShowAllKeeps
<1> QED BY <1>2, <1>3

\* A step that marks what it changes, in this connection, and sends nothing
\* or flushes, keeps the items and the clients.
LEMMA ReadKeeps ==
  ASSUME FanucInv,
         UNCHANGED <<shown, missed, client, mInitializeClient, mConnected, session>>,
         AllMark(items'), AllSound(items', mConnected, session), ~Between, ~Between'
  PROVE  AllSound(items, mConnected, session)' /\ ShownInv'
BY QuietKeeps DEF FanucInv, AllSound

-----------------------------------------------------------------------------
(* Where the gather is. *)

LEMMA SetDomain ==
  ASSUME NEW its, NEW which
  PROVE  DOMAIN Set(its, which) = DOMAIN its /\ DOMAIN Unset(its, which) = DOMAIN its
BY DEF Set, Unset

LEMMA FlushDomain ==
  ASSUME NEW its, Flush(its) \/ Unavailable(its)
  PROVE  DOMAIN items' = DOMAIN its
BY SetDomain DEF Unavailable, Flush, Show

\* The macros too only set and unset items.
LEMMA MacroDomain ==
  ASSUME NEW its \in ReadMacros
  PROVE  DOMAIN its = DOMAIN items
<1>1. DOMAIN Set(items, {Macro}) = DOMAIN items /\ DOMAIN Unset(items, {Macro}) = DOMAIN items
  BY SetDomain
<1>2. ASSUME NEW x, DOMAIN x = DOMAIN items
      PROVE  DOMAIN Set(x, {MacroPath}) = DOMAIN items /\ DOMAIN Unset(x, {Macro}) = DOMAIN items
  BY <1>2, SetDomain
<1>3. PICK x \in {Set(items, {Macro}), Unset(items, {Macro})} :
        its \in {x, Set(x, {MacroPath}), Unset(x, {Macro})}
  BY DEF ReadMacros
<1> QED BY <1>1, <1>2, <1>3

LEMMA OptionalPlace ==
  ASSUME HandleInv, PlaceInv, NEW from \in {"message", "macro", "pmc", "count"},
         NEW to \in SUBSET {"macro", "pmc", "count", "send", "exited"}, NEW results,
         \A its \in results : DOMAIN its = DOMAIN items,
         Optional(from, to, results)
  PROVE  PlaceInv'
BY DEF Optional, PlaceInv, HandleInv, Reading, Between, controllerVars, clientVars

\* The next group is of the same path or of the one before; after the first
\* path come the messages.
LEMMA AdvancePath ==
  ASSUME PlaceInv, Advance
  PROVE  /\ pc \in Reading /\ pc' \in Reading \cup {"message"}
         /\ pc' \in Reading => path' \in 1 .. mMaxPath
         /\ pc' = "message" => path' = 0
<1>1. PICK k \in 1 .. Len(Steps) :
        /\ pc = Steps[k]
        /\ IF k < Len(Steps) THEN pc' = Steps[k + 1] /\ UNCHANGED path
           ELSE IF path > 1 THEN pc' = Steps[1] /\ path' = path - 1
           ELSE pc' = "message" /\ path' = 0
  BY DEF Advance
<1>2. pc \in Reading /\ pc' \in Reading \cup {"message"}
  BY AdvanceReads
<1>3. path \in 1 .. mMaxPath /\ mMaxPath \in Nat
  BY <1>2 DEF PlaceInv
<1>4. "message" \notin Reading /\ Steps[1] # "message"
  BY DEF Reading, Steps
<1>5. CASE k < Len(Steps)
  <2>1. Steps[k + 1] # "message"
    <3>1. k \in 1 .. 4
      BY <1>5 DEF Steps
    <3>2. k = 1 \/ k = 2 \/ k = 3 \/ k = 4
      BY <3>1
    <3> QED BY <3>2 DEF Steps
  <2> QED BY <1>1, <1>2, <1>3, <1>5, <2>1
<1>6. CASE ~(k < Len(Steps))
  BY <1>1, <1>2, <1>3, <1>4, <1>6
<1> QED BY <1>5, <1>6

LEMMA PlaceInit == Init => PlaceInv
<1> SUFFICES ASSUME Init PROVE PlaceInv
  OBVIOUS
<1>1. DOMAIN items = ItemsOf(0)
  <2>1. DOMAIN items = Base \X {0}
    BY DEF Init, New
  <2>2. 1 .. 0 = {}
    OBVIOUS
  <2> QED BY <2>1, <2>2 DEF ItemsOf
<1>2. toolData \in Seq({"management", "modal", "none"}) /\ Len(toolData) = 0
  BY DEF Init
<1>3. /\ mConnected = FALSE /\ mConfigured = FALSE /\ mMaxPath = 0 /\ session = 0
      /\ alive = FALSE /\ link = "up" /\ pc = "idle" /\ path = 0
      /\ mInitializeClient = NULL /\ client = [c \in Clients |-> "off"]
  BY DEF Init
<1>4. DOMAIN items = ItemsOf(Len(toolData))
  BY <1>1, <1>2
<1>5. Len(toolData) <= MaxPaths /\ 0 \in 0 .. MaxPaths /\ 0 \in 0 .. MaxSessions
      /\ 0 < MaxSessions /\ path \in 0 .. mMaxPath
  BY <1>2, <1>3, FanucAssumption
<1>6. "idle" \notin Reading
  BY DEF Reading
<1> QED BY <1>2, <1>3, <1>4, <1>5, <1>6 DEF PlaceInv

LEMMA PlaceStep == HandleInv /\ PlaceInv /\ [Next]_vars => PlaceInv'
<1> SUFFICES ASSUME HandleInv, PlaceInv, [Next]_vars PROVE PlaceInv'
  OBVIOUS
<1> USE FanucAssumption DEF PlaceInv, HandleInv, Reading, Between, controllerVars, clientVars
<1>1. ASSUME NEW c \in Clients, Accept(c) PROVE PlaceInv'
  BY <1>1 DEF Accept, Begin
<1>2. CASE Scan BY <1>2 DEF Scan, Begin
<1>3. CASE Send BY <1>3 DEF Send, Show
<1>4. ASSUME NEW c \in Clients, Notice(c) PROVE PlaceInv'
  BY <1>4 DEF Notice
<1>5. CASE Connect BY <1>5 DEF Connect
<1>6. CASE ConnectFails BY <1>6, FlushDomain DEF ConnectFails
<1>7. CASE GetPaths BY <1>7 DEF GetPaths
<1>8. CASE ConfigurePath
  <2>1. pc = "configure" /\ path \in 1 .. mMaxPath /\ Len(toolData) = path - 1
    BY <1>8 DEF ConfigurePath
  <2>2. toolData' \in Seq({"management", "modal", "none"}) /\ Len(toolData') = path
    BY <1>8, <2>1 DEF ConfigurePath
  <2>3. DOMAIN items' = ItemsOf(path)
    <3>1. DOMAIN items' = DOMAIN items \cup (PathNames \X {path})
      BY <1>8 DEF ConfigurePath, New
    <3>2. 1 .. path = (1 .. (path - 1)) \cup {path}
      BY <2>1
    <3> QED BY <2>1, <3>1, <3>2 DEF ItemsOf
  <2>4. mMaxPath' = mMaxPath /\ UNCHANGED <<mConnected, session, alive, link,
                                         mInitializeClient, client>>
    BY <1>8 DEF ConfigurePath
  <2>5. CASE path = mMaxPath
    <3>1. mConfigured' = TRUE /\ pc' = "initialize" /\ path' = 0
      BY <1>8, <2>5 DEF ConfigurePath
    <3> QED BY <2>1, <2>2, <2>3, <2>4, <2>5, <3>1
  <2>6. CASE path # mMaxPath
    <3>1. mConfigured' = mConfigured /\ pc' = pc /\ path' = path + 1
      BY <1>8, <2>6 DEF ConfigurePath
    <3> QED BY <2>1, <2>2, <2>3, <2>4, <2>6, <3>1
  <2> QED BY <2>5, <2>6
<1>9. CASE ConfigureFails BY <1>9 DEF ConfigureFails
<1>10. CASE Initialize BY <1>10, FlushDomain DEF Initialize
<1>11. CASE ReadPath
  <2>1. Advance /\ DOMAIN items' = DOMAIN items
    BY <1>11, SetDomain DEF ReadPath
  <2>2. UNCHANGED <<mConnected, mConfigured, mMaxPath, toolData, session, alive,
                    link, mInitializeClient, client>>
    BY <1>11 DEF ReadPath
  <2> QED BY <2>1, <2>2, AdvancePath
<1>12. CASE ReadPathFails
  <2>1. DOMAIN items' = DOMAIN items
    BY <1>12, FlushDomain DEF ReadPathFails, Disconnect
  <2>2. /\ mConnected' = FALSE /\ alive' = FALSE /\ pc' = "message" /\ path' = 0
        /\ UNCHANGED <<mConfigured, mMaxPath, toolData, session, link, mInitializeClient, client>>
        /\ session < MaxSessions /\ pc \in Reading
    BY <1>12 DEF ReadPathFails, Disconnect
  <2>3. /\ mConfigured /\ mMaxPath > 0 /\ Len(toolData) = mMaxPath
        /\ pc \notin {"idle", "read"}
    BY <2>2
  <2>4. 0 \in 0 .. mMaxPath
    OBVIOUS
  <2> QED BY <2>1, <2>2, <2>3, <2>4
<1>13. CASE ReadTool
  <2>1. Advance /\ DOMAIN items' = DOMAIN items
    BY <1>13, SetDomain DEF ReadTool
  <2>2. UNCHANGED <<mConnected, mConfigured, mMaxPath, session, alive, link,
                    mInitializeClient, client>>
    BY <1>13 DEF ReadTool
  <2>3. path \in 1 .. Len(toolData)
    <3>1. pc = "tool" /\ path \in 1 .. mMaxPath /\ Len(toolData) = mMaxPath
      BY <1>13 DEF ReadTool
    <3> QED BY <3>1
  <2>4. PICK after \in {"management", "modal", "none"} :
          toolData' = [toolData EXCEPT ![path] = after]
    BY <1>13 DEF ReadTool
  <2>5. toolData' \in Seq({"management", "modal", "none"}) /\ Len(toolData') = Len(toolData)
    BY <2>3, <2>4
  <2>6. pc \in Reading /\ pc' \in Reading \cup {"message"}
        /\ (pc' \in Reading => path' \in 1 .. mMaxPath)
        /\ (pc' = "message" => path' = 0)
    BY <2>1, AdvancePath
  <2> QED BY <2>1, <2>2, <2>5, <2>6
<1>14. CASE GetMessages
  <2> DEFINE results == {Set(items, {<<"message", 0>>})}
  <2>1. Optional("message", {"macro"}, results)
    BY <1>14 DEF GetMessages
  <2>2. \A its \in results : DOMAIN its = DOMAIN items
    BY SetDomain
  <2> HIDE DEF results
  <2> QED BY <2>1, <2>2, OptionalPlace
<1>15. CASE GetMacros
  <2>1. AfterMacros \in SUBSET {"macro", "pmc", "count", "send", "exited"}
    BY DEF AfterMacros
  <2> QED BY <1>15, <2>1, OptionalPlace, MacroDomain DEF GetMacros
<1>16. CASE GetPMC
  <2> DEFINE results == {Set(items, {<<"pmc", 0>>})}
  <2>1. Optional("pmc", {"count"}, results)
    BY <1>16 DEF GetPMC
  <2>2. \A its \in results : DOMAIN its = DOMAIN items
    BY SetDomain
  <2> HIDE DEF results
  <2> QED BY <2>1, <2>2, OptionalPlace
<1>17. CASE GetCounts
  <2> DEFINE results == {Set(items, {<<"count", 0>>})}
  <2>1. Optional("count", {"send"}, results)
    BY <1>17 DEF GetCounts
  <2>2. \A its \in results : DOMAIN its = DOMAIN items
    BY SetDomain
  <2> HIDE DEF results
  <2> QED BY <2>1, <2>2, OptionalPlace
<1>18. ASSUME NEW c \in Clients, Hangup(c) \/ Stall(c) \/ Resume(c) PROVE PlaceInv'
  BY <1>18 DEF Hangup, Stall, Resume
<1>19. CASE LinkLost BY <1>19 DEF LinkLost
<1>20. CASE LinkBack BY <1>20 DEF LinkBack
<1>21. CASE UNCHANGED vars BY <1>21 DEF vars
<1> QED BY <1>1, <1>2, <1>3, <1>4, <1>5, <1>6, <1>7, <1>8, <1>9, <1>10, <1>11,
           <1>12, <1>13, <1>14, <1>15, <1>16, <1>17, <1>18, <1>19, <1>20, <1>21
        DEF Next, Loop, Remote

-----------------------------------------------------------------------------
(* The step of the whole invariant. *)

\* What a gather has read is either fresh or gone.
LEMMA MacrosSound ==
  ASSUME mConnected, session \in 1 .. MaxSessions, AllSound(items, TRUE, session),
         NEW its \in ReadMacros
  PROVE  AllMark(its) /\ AllSound(its, TRUE, session)
<1> DEFINE ok(x) == AllMark(x) /\ AllSound(x, TRUE, session)
<1>1. \A i \in {Macro} \cup {MacroPath} : i[1] # "avail"
  BY DEF Macro, MacroPath
<1>2. ok(Set(items, {Macro})) /\ ok(Unset(items, {Macro}))
  <2>1. ok(Set(items, {Macro}))
    BY <1>1, SetAllSound DEF AllMark
  <2>2. ok(Unset(items, {Macro}))
    BY <1>1, UnsetAllSound DEF AllMark
  <2> QED BY <2>1, <2>2
<1>3. ASSUME NEW x, ok(x) PROVE ok(Set(x, {MacroPath})) /\ ok(Unset(x, {Macro}))
  <2>1. /\ DOMAIN Set(x, {MacroPath}) = DOMAIN x
        /\ AllSound(Set(x, {MacroPath}), TRUE, session)
        /\ \A i \in DOMAIN x : Marks(x[i], Set(x, {MacroPath})[i])
    BY <1>1, <1>3, SetAllSound
  <2>2. /\ DOMAIN Unset(x, {Macro}) = DOMAIN x
        /\ AllSound(Unset(x, {Macro}), TRUE, session)
        /\ \A i \in DOMAIN x : Marks(x[i], Unset(x, {Macro})[i])
    BY <1>1, <1>3, UnsetAllSound
  <2>3. DOMAIN x = DOMAIN items /\ \A i \in DOMAIN items : Marks(items[i], x[i])
    BY <1>3 DEF AllMark
  <2>4. AllMark(Set(x, {MacroPath}))
    BY <2>1, <2>3 DEF AllMark, Marks
  <2>5. AllMark(Unset(x, {Macro}))
    BY <2>2, <2>3 DEF AllMark, Marks
  <2> QED BY <2>1, <2>2, <2>4, <2>5
<1> HIDE DEF ok
<1>4. PICK x \in {Set(items, {Macro}), Unset(items, {Macro})} :
        its \in {x, Set(x, {MacroPath}), Unset(x, {Macro})}
  BY DEF ReadMacros
<1>5. ok(its)
  BY <1>2, <1>3, <1>4
<1> QED BY <1>5 DEF ok

LEMMA SameMarks == AllMark(items)
BY DEF AllMark, Marks

LEMMA OptionalKeeps ==
  ASSUME FanucInv, NEW from \in {"message", "macro", "pmc", "count"},
         NEW to \in SUBSET {"macro", "pmc", "count", "send", "exited"}, NEW results,
         mConnected => \A its \in results : AllMark(its) /\ AllSound(its, TRUE, session),
         Optional(from, to, results)
  PROVE  AllSound(items, mConnected, session)' /\ ShownInv'
<1>1. mConnected \in BOOLEAN
  BY DEF FanucInv, HandleInv
<1>2. AllMark(items') /\ AllSound(items', mConnected, session)
  <2>1. CASE items' = items
    <3>1. AllMark(items) /\ AllSound(items, mConnected, session)
      BY SameMarks DEF FanucInv
    <3> QED BY <2>1, <3>1 DEF AllMark, AllSound
  <2>2. CASE mConnected /\ items' \in results
    BY <1>1, <2>2
  <2> QED BY <2>1, <2>2 DEF Optional
<1>3. /\ ~Between /\ ~Between'
      /\ UNCHANGED <<shown, missed, client, mInitializeClient, mConnected, session>>
  BY DEF Optional, Between, controllerVars, clientVars
<1> QED BY <1>2, <1>3, ReadKeeps

LEMMA FanucInit == Init => FanucInv
<1> SUFFICES ASSUME Init PROVE FanucInv
  OBVIOUS
<1>1. items = [New(Base, 0) EXCEPT ![Avail] = MakeUnavailable(@)]
  BY DEF Init
<1>2. New(Base, 0) = [i \in Base \X {0} |-> NewDatum(KindOf(i[1]))]
  BY DEF New
<1>3. DOMAIN items = Base \X {0} /\ Avail \in Base \X {0}
  BY <1>1 DEF New, Avail, Base
<1>4. ASSUME NEW i \in DOMAIN items PROVE Sound(i, items[i], mConnected, session)
  <2>1. KindOf(i[1]) \in Kinds /\ (KindOf(i[1]) = "Availability" <=> i[1] = "avail")
    BY DEF KindOf, Kinds
  <2>2. mConnected = FALSE
    BY DEF Init
  <2>3. i[1] = "avail" => i = Avail
    BY <1>3 DEF Avail
  <2>4. CASE i = Avail
    <3>1. NewDatum(KindOf(i[1])) =
            [kind |-> "Availability", value |-> 0, unavailable |-> FALSE,
             hasValue |-> TRUE, changed |-> FALSE]
      BY <2>4 DEF NewDatum, KindOf, Avail
    <3>2. KindOf(i[1]) = "Availability" /\ i[1] = "avail"
      BY <2>4 DEF KindOf, Avail
    <3>3. Sound(i, NewDatum(KindOf(i[1])), TRUE, session)
      <4> DEFINE d == NewDatum(KindOf(i[1]))
      <4>1. d \in Datum /\ d.kind = KindOf(i[1]) /\ ~d.changed /\ d.hasValue
        BY <3>1, <3>2 DEF Datum, Kinds
      <4>2. d.unavailable = FALSE
        BY <3>1
      <4> HIDE DEF d
      <4>3. Sound(i, d, TRUE, session)
        BY <3>2, <4>1, <4>2 DEF Sound
      <4> QED BY <4>3 DEF d
    <3>4. items[i] = Lose(i, NewDatum(KindOf(i[1])))
      <4>1. items[i] = MakeUnavailable(New(Base, 0)[i])
        BY <1>1, <1>2, <1>3, <2>4
      <4>2. New(Base, 0)[i] = NewDatum(KindOf(i[1]))
        BY <1>2, <1>3, <2>4
      <4> QED BY <3>2, <4>1, <4>2 DEF Lose
    <3> QED BY <2>2, <3>3, <3>4, LoseSound
  <2>5. CASE i # Avail
    <3>1. items[i] = NewDatum(KindOf(i[1]))
      BY <1>1, <1>2, <1>3, <2>5
    <3>2. items[i] = [kind |-> KindOf(i[1]), value |-> 0, unavailable |-> FALSE,
                      hasValue |-> FALSE, changed |-> FALSE]
      BY <2>1, <2>3, <2>5, <3>1 DEF NewDatum
    <3>3. items[i] \in Datum
      BY <2>1, <3>2 DEF Datum
    <3> QED BY <2>5, <3>2, <3>3 DEF Sound
  <2> QED BY <2>4, <2>5
<1>5. ShownInv
  <2>1. \A c \in Clients : Waiting(c) /\ shown[c] = Nothing
    BY DEF Init, Waiting, Connected
  <2>2. shown \in [Clients -> [Items -> Int \cup {UNAVAILABLE, AVAILABLE}]]
    <3>1. Nothing \in [Items -> Int \cup {UNAVAILABLE, AVAILABLE}]
      BY DEF Nothing
    <3> QED BY <3>1 DEF Init
  <2>3. missed \in [Clients -> SUBSET Items]
    BY DEF Init
  <2>4. DOMAIN items \subseteq Items
    BY <1>3 DEF Items
  <2>5. \A c \in Clients : \A i \in Items : shown[c][i] = UNAVAILABLE
    BY <2>1 DEF Nothing
  <2> QED BY <2>1, <2>2, <2>3, <2>4, <2>5 DEF ShownInv, ClientInv
<1> QED BY <1>4, <1>5, HandleInit, PlaceInit DEF FanucInv, AllSound

\* disconnect() and a connect() that fails leave nothing of a connection.
LEMMA UnavailableKeeps ==
  ASSUME FanucInv, DOMAIN items \subseteq Items, Unavailable(items),
         UNCHANGED <<client, mInitializeClient, session>>, mConnected' = FALSE,
         ~Between, ~Between'
  PROVE  AllSound(items, mConnected, session)' /\ ShownInv'
<1> DEFINE its == Unset(items, DOMAIN items)
<1>1. mConnected \in BOOLEAN /\ AllSound(items, mConnected, session) /\ ShownInv
  BY DEF FanucInv, HandleInv
<1>2. AllMark(its) /\ AllSound(its, FALSE, session)
  BY <1>1, LoseAllSound DEF AllMark
<1>3. Flush(its)
  BY DEF Unavailable
<1> HIDE DEF its
<1>4. ShownInv' /\ AllSound(items', FALSE, session)
  BY <1>1, <1>2, <1>3, FlushKeeps
<1> QED BY <1>4 DEF AllSound

\* configure() adds items without a value, and mActiveAxes, which has one.
LEMMA ConfigureKeeps ==
  ASSUME FanucInv, ConfigurePath
  PROVE  AllSound(items, mConnected, session)' /\ ShownInv'
<1> DEFINE added == New(PathNames, path)
<1>1. /\ pc = "configure" /\ mConnected = TRUE /\ session \in 1 .. MaxSessions
      /\ ~Between /\ ~Between'
      /\ UNCHANGED <<mConnected, session, shown, missed, client, mInitializeClient>>
  BY FanucAssumption DEF FanucInv, HandleInv, PlaceInv, ConfigurePath, Reading, Between,
                         clientVars
<1>2. items' = [i \in DOMAIN items \cup DOMAIN added |->
                  IF i \in DOMAIN items THEN items[i]
                  ELSE IF i[1] = "active" THEN SetValue(added[i], session)
                  ELSE added[i]]
  BY DEF ConfigurePath
<1>3. added = [i \in PathNames \X {path} |-> NewDatum(KindOf(i[1]))]
  BY DEF New
<1> HIDE DEF added
<1>4. ASSUME NEW i \in DOMAIN added
      PROVE  /\ Sound(i, added[i], TRUE, session)
             /\ Shows(added[i]) = UNAVAILABLE /\ ~added[i].changed
             /\ i[1] # "avail"
  <2>1. i[1] \in PathNames /\ i[1] # "avail"
    BY <1>3 DEF PathNames
  <2>2. KindOf(i[1]) \in Kinds /\ KindOf(i[1]) # "Availability"
    BY <2>1 DEF KindOf, Kinds
  <2>3. added[i] = [kind |-> KindOf(i[1]), value |-> 0, unavailable |-> FALSE,
                    hasValue |-> FALSE, changed |-> FALSE]
    BY <1>3, <2>2 DEF NewDatum
  <2>4. added[i] \in Datum
    BY <2>2, <2>3 DEF Datum
  <2>5. i # Avail
    BY <2>1 DEF Avail
  <2> QED BY <2>1, <2>3, <2>4, <2>5 DEF Sound, Shows
<1>5. ASSUME NEW i \in DOMAIN items'
      PROVE  /\ Sound(i, items'[i], TRUE, session)
             /\ i \in DOMAIN items => items'[i] = items[i]
             /\ i \notin DOMAIN items =>
                  (~items'[i].changed => Shows(items'[i]) = UNAVAILABLE)
  <2>1. CASE i \in DOMAIN items
    BY <1>1, <1>2, <2>1 DEF FanucInv, AllSound
  <2>2. CASE i \notin DOMAIN items /\ i[1] = "active"
    <3>1. i \in DOMAIN added /\ items'[i] = SetValue(added[i], session)
      BY <1>2, <2>2
    <3>2. Sound(i, items'[i], TRUE, session) /\ Marks(added[i], items'[i])
      BY <1>1, <1>4, <3>1, SetSound
    <3> QED BY <1>4, <2>2, <3>1, <3>2 DEF Marks
  <2>3. CASE i \notin DOMAIN items /\ i[1] # "active"
    <3>1. i \in DOMAIN added /\ items'[i] = added[i]
      BY <1>2, <2>3
    <3> QED BY <1>4, <2>3, <3>1
  <2> QED BY <2>1, <2>2, <2>3
<1>7. DOMAIN items \subseteq DOMAIN items'
  BY <1>2
<1>8. DOMAIN items' \subseteq Items
  <2>1. path \in 1 .. MaxPaths
    BY FanucAssumption DEF FanucInv, PlaceInv, ConfigurePath
  <2>2. DOMAIN added \subseteq Items
    BY <1>3, <2>1 DEF Items
  <2>3. DOMAIN items \subseteq Items
    BY ItemsMonotone DEF FanucInv, PlaceInv
  <2> QED BY <1>2, <2>2, <2>3
<1>9. AllSound(items, mConnected, session)'
  BY <1>1, <1>5 DEF AllSound
<1>10. ASSUME NEW c \in Clients PROVE ClientInv(c)'
  <2>1. ClientInv(c) /\ (Waiting(c)' <=> Waiting(c))
    BY <1>1 DEF FanucInv, ShownInv, Waiting, Connected
  <2>2. ASSUME NEW i \in DOMAIN items'
        PROVE  /\ ~items'[i].hasValue => shown[c][i] = UNAVAILABLE
               /\ ~Waiting(c) /\ i \notin missed[c] /\ ~items'[i].changed =>
                    shown[c][i] = Shows(items'[i])
    <3>1. CASE i \in DOMAIN items
      BY <1>1, <1>5, <2>1, <3>1 DEF ClientInv
    <3>2. CASE i \notin DOMAIN items
      <4>1. shown[c][i] = UNAVAILABLE
        BY <1>8, <2>1, <2>2, <3>2 DEF ClientInv
      <4> QED BY <1>5, <2>2, <3>2, <4>1
    <3> QED BY <3>1, <3>2
  <2>3. \A i \in Items \ DOMAIN items' : shown[c][i] = UNAVAILABLE
    BY <1>7, <2>1 DEF ClientInv
  <2> QED BY <1>1, <2>1, <2>2, <2>3 DEF ClientInv
<1>11. ShownInv'
  BY <1>1, <1>10 DEF FanucInv, ShownInv
<1> QED BY <1>9, <1>11

\* A connection begins when nothing is left of the one before.
LEMMA ConnectKeeps ==
  ASSUME FanucInv, Connect
  PROVE  AllSound(items, mConnected, session)' /\ ShownInv'
<1>1. /\ ~Between /\ ~Between' /\ mConnected = FALSE /\ mConnected' = TRUE
      /\ UNCHANGED <<shown, missed, client, mInitializeClient>>
  BY DEF FanucInv, HandleInv, Connect, Between, clientVars
<1>2. items' = [items EXCEPT ![Avail] = SetValue(@, 0)]
  BY DEF Connect
<1>3. ASSUME NEW i \in DOMAIN items
      PROVE  Sound(i, items'[i], TRUE, session') /\ Marks(items[i], items'[i])
  <2>1. Sound(i, items[i], FALSE, session)
    BY <1>1 DEF FanucInv, AllSound
  <2>2. CASE i = Avail
    <3>1. i[1] = "avail" /\ KindOf(i[1]) = "Availability"
      BY <2>2 DEF Avail, KindOf
    <3>2. items[i] \in Datum /\ items[i].kind = "Availability" /\ items[i].unavailable = TRUE
          /\ items[i].hasValue
      BY <2>1, <2>2, <3>1 DEF Sound, Datum
    <3>3. items'[i] = [items[i] EXCEPT !.changed = TRUE, !.unavailable = FALSE]
      BY <1>2, <2>2, <3>2 DEF SetValue, Datum
    <3>4. items'[i] \in Datum /\ items'[i].changed /\ items'[i].hasValue
          /\ items'[i].unavailable = FALSE /\ items'[i].kind = "Availability"
      BY <3>2, <3>3 DEF Datum
    <3> QED BY <2>2, <3>1, <3>4 DEF Sound, Marks
  <2>3. CASE i # Avail
    <3>1. items'[i] = items[i]
      BY <1>2, <2>3
    <3> QED BY <2>1, <2>3, <3>1 DEF Sound, Marks
  <2> QED BY <2>2, <2>3
<1>4. DOMAIN items' = DOMAIN items
  BY <1>2
<1>5. AllMark(items')
  BY <1>3, <1>4 DEF AllMark
<1>6. ShownInv'
  BY <1>1, <1>5, QuietKeeps DEF FanucInv
<1>7. AllSound(items, mConnected, session)'
  BY <1>1, <1>3, <1>4 DEF AllSound
<1> QED BY <1>6, <1>7

\* A group of calls of a path that succeeds.
LEMMA ReadPathKeeps ==
  ASSUME FanucInv, ReadPath \/ ReadTool
  PROVE  AllSound(items, mConnected, session)' /\ ShownInv'
<1>1. /\ Advance
      /\ UNCHANGED <<mConnected, session, shown, missed, client, mInitializeClient>>
  BY DEF ReadPath, ReadTool, controllerVars, clientVars
<1>2. pc \in Reading /\ pc' \in Reading \cup {"message"} /\ ~Between /\ ~Between'
  BY <1>1, AdvanceReads DEF Reading, Between
<1>3. mConnected = TRUE /\ session \in 1 .. MaxSessions
  BY <1>2, FanucAssumption DEF FanucInv, HandleInv, PlaceInv
<1>4. AllSound(items, TRUE, session)
  BY <1>3 DEF FanucInv
<1>5. ASSUME NEW which \in {{Here(n) : n \in ns} : ns \in SUBSET PathNames},
             items' = Set(items, which)
      PROVE  AllMark(items') /\ AllSound(items', TRUE, session)
  <2>1. \A i \in which : i[1] # "avail"
    BY DEF Here, PathNames
  <2>2. /\ DOMAIN Set(items, which) = DOMAIN items
        /\ AllSound(Set(items, which), TRUE, session)
        /\ \A i \in DOMAIN items : Marks(items[i], Set(items, which)[i])
    BY <1>3, <1>4, <2>1, SetAllSound
  <2> QED BY <1>5, <2>2 DEF AllMark, AllSound
<1>6. CASE items' = items
  <2>1. AllMark(items') /\ AllSound(items', TRUE, session)
    BY <1>4, <1>6, SameMarks DEF AllMark, AllSound
  <2> QED BY <1>1, <1>2, <1>3, <2>1, ReadKeeps DEF Reading
<1>7. CASE \E which \in {{Here(n) : n \in ns} : ns \in SUBSET PathNames} :
             items' = Set(items, which)
  <2>1. AllMark(items') /\ AllSound(items', TRUE, session)
    BY <1>5, <1>7
  <2> QED BY <1>1, <1>2, <1>3, <2>1, ReadKeeps DEF Reading
<1>8. CASE ReadPath
  <2>1. PICK got \in Got : items' = Set(items, got)
    BY <1>8 DEF ReadPath
  <2>2. PICK ns \in {{pc}, {"axes", "comment"}} : got = {Here(n) : n \in ns}
    <3>1. CASE pc = "axes"
      BY <2>1, <3>1 DEF Got
    <3>2. CASE pc # "axes"
      BY <2>1, <3>2 DEF Got
    <3> QED BY <3>1, <3>2
  <2>3. ns \in SUBSET PathNames
    BY <1>2 DEF Reading, PathNames
  <2> QED BY <1>7, <2>1, <2>2, <2>3
<1>9. CASE ReadTool
  <2>1. items' = items \/ items' = Set(items, {Here("tool")})
    BY <1>9 DEF ReadTool
  <2>2. {Here("tool")} = {Here(n) : n \in {"tool"}} /\ {"tool"} \in SUBSET PathNames
    BY DEF PathNames
  <2> QED BY <1>6, <1>7, <2>1, <2>2
<1> QED BY <1>8, <1>9

\* Steps that leave the items alone: a link that is lost, the beginning of a
\* gather, whatever leaves what clients show and who waits as they are.
LEMMA AloneKeeps ==
  ASSUME FanucInv, UNCHANGED <<items, mConnected, session, shown, missed>>,
         \A c \in Clients : Waiting(c)' <=> Waiting(c), Between' => Between
  PROVE  AllSound(items, mConnected, session)' /\ ShownInv'
<1>1. AllSound(items, mConnected, session)'
  BY DEF FanucInv, AllSound
<1>2. ASSUME NEW c \in Clients PROVE ClientInv(c)'
  BY DEF FanucInv, ShownInv, ClientInv
<1> QED BY <1>1, <1>2 DEF FanucInv, ShownInv

\* One client comes, whom nothing was sent, or goes, and shows nothing.
LEMMA OneKeeps ==
  ASSUME FanucInv, NEW c \in Clients, UNCHANGED <<items, mConnected, session>>,
         \A d \in Clients \ {c} : Waiting(d)' <=> Waiting(d),
         Waiting(c)', Between' => Between,
         \/ Waiting(c) /\ UNCHANGED <<shown, missed>>
         \/ shown' = [shown EXCEPT ![c] = Nothing] /\ missed' = [missed EXCEPT ![c] = {}]
  PROVE  AllSound(items, mConnected, session)' /\ ShownInv'
<1>1. AllSound(items, mConnected, session)'
  BY DEF FanucInv, AllSound
<1>2. /\ shown' \in [Clients -> [Items -> Int \cup {UNAVAILABLE, AVAILABLE}]]
      /\ missed' \in [Clients -> SUBSET Items]
  BY DEF FanucInv, ShownInv, Nothing
<1>3. DOMAIN items \subseteq Items
  BY ItemsMonotone, FanucAssumption DEF FanucInv, PlaceInv
<1>4. ASSUME NEW i \in Items PROVE shown'[c][i] = UNAVAILABLE
  BY DEF FanucInv, ShownInv, ClientInv, Nothing
<1>5. ClientInv(c)'
  BY <1>3, <1>4 DEF ClientInv
<1>6. ASSUME NEW d \in Clients, d # c PROVE ClientInv(d)'
  <2>1. shown'[d] = shown[d] /\ missed'[d] = missed[d]
    BY <1>6 DEF FanucInv, ShownInv
  <2> QED BY <1>6, <2>1 DEF FanucInv, ShownInv, ClientInv
<1> QED BY <1>1, <1>2, <1>5, <1>6 DEF ShownInv

LEMMA ConnectedSound ==
  ASSUME FanucInv, mConnected
  PROVE  session \in 1 .. MaxSessions /\ AllSound(items, TRUE, session)
<1>1. mConnected = TRUE
  BY DEF FanucInv, HandleInv
<1>2. session \in 1 .. MaxSessions
  BY <1>1, FanucAssumption DEF FanucInv, PlaceInv
<1> QED BY <1>1, <1>2 DEF FanucInv

LEMMA FanucStep == FanucInv /\ [Next]_vars => FanucInv'
<1> SUFFICES ASSUME FanucInv, [Next]_vars PROVE FanucInv'
  OBVIOUS
<1>1. HandleInv' /\ PlaceInv'
  BY HandleStep, PlaceStep DEF FanucInv
<1> DEFINE Goal == AllSound(items, mConnected, session)' /\ ShownInv'
<1>2. SUFFICES Goal
  BY <1>1 DEF FanucInv
<1>3. DOMAIN items \subseteq Items
  BY ItemsMonotone DEF FanucInv, PlaceInv
<1>0. client \in [Clients -> {"off", "on", "stuck", "gone"}] /\ NULL \notin Clients
      /\ (Between => mInitializeClient = NULL)
  BY FanucAssumption DEF FanucInv, PlaceInv
<1> USE DEF controllerVars, clientVars
<1>4. ASSUME NEW c \in Clients, Accept(c) PROVE Goal
  <2>1. /\ Between /\ ~Between' /\ mInitializeClient = NULL /\ mInitializeClient' = c
        /\ client[c] = "off" /\ client' = [client EXCEPT ![c] = "on"]
        /\ UNCHANGED <<items, mConnected, session, shown, missed>>
    BY <1>0, <1>4 DEF Accept, Begin, Between
  <2>2. Waiting(c) /\ Waiting(c)' /\ \A d \in Clients \ {c} : Waiting(d)' <=> Waiting(d)
    BY <1>0, <2>1 DEF Waiting, Connected
  <2> QED BY <2>1, <2>2, OneKeeps
<1>5. CASE Scan
  <2>1. ~Between' /\ UNCHANGED <<items, mConnected, session, shown, missed, client, mInitializeClient>>
    BY <1>5 DEF Scan, Begin, Between
  <2> QED BY <2>1, AloneKeeps DEF Waiting, Connected
<1>6. CASE Send
  <2>1. ShownInv' /\ AllSound(items', mConnected, session)
        /\ UNCHANGED <<mConnected, session>>
    BY <1>3, <1>6, SendKeeps DEF FanucInv, Send
  <2> QED BY <2>1 DEF AllSound
<1>7. ASSUME NEW c \in Clients, Notice(c) PROVE Goal
  <2>1. /\ UNCHANGED <<items, mConnected, session, shown, missed, mInitializeClient, pc>>
        /\ client[c] = "gone" /\ client' = [client EXCEPT ![c] = "off"]
    BY <1>7 DEF Notice
  <2>2. \A d \in Clients : Waiting(d)' <=> Waiting(d)
    BY <1>0, <2>1 DEF Waiting, Connected
  <2>3. Between' <=> Between
    BY <2>1 DEF Between
  <2> QED BY <2>1, <2>2, <2>3, AloneKeeps
<1>8. CASE Connect
  BY <1>8, ConnectKeeps
<1>9. CASE ConnectFails
  BY <1>3, <1>9, UnavailableKeeps DEF ConnectFails, FanucInv, HandleInv, Between
<1>10. CASE GetPaths
  <2>1. UNCHANGED <<items, mConnected, session, shown, missed, client, mInitializeClient>>
        /\ (Between' => Between)
    BY <1>10 DEF GetPaths, Between
  <2> QED BY <2>1, AloneKeeps DEF Waiting, Connected
<1>11. CASE ConfigurePath
  BY <1>11, ConfigureKeeps
<1>12. CASE ConfigureFails
  <2>1. UNCHANGED <<items, mConnected, session, shown, missed, client, mInitializeClient>>
        /\ (Between' => Between)
    BY <1>12 DEF ConfigureFails, Between
  <2> QED BY <2>1, AloneKeeps DEF Waiting, Connected
<1>13. CASE Initialize
  <2>1. AllMark(items) /\ AllSound(items, mConnected, session) /\ ShownInv /\ Flush(items)
        /\ ~Between /\ ~Between' /\ UNCHANGED <<client, mInitializeClient, mConnected, session>>
    BY <1>13, SameMarks DEF Initialize, FanucInv, Between
  <2>2. ShownInv' /\ AllSound(items', mConnected, session)
    BY <1>3, <2>1, FlushKeeps
  <2> QED BY <2>1, <2>2 DEF AllSound
<1>14. CASE ReadPath \/ ReadTool
  BY <1>14, ReadPathKeeps
<1>15. CASE ReadPathFails
  BY <1>3, <1>15, UnavailableKeeps DEF ReadPathFails, Disconnect, Between
<1>16. ASSUME mConnected, NEW which, \A i \in which : i[1] # "avail"
       PROVE  AllMark(Set(items, which)) /\ AllSound(Set(items, which), TRUE, session)
  <2>1. session \in 1 .. MaxSessions /\ AllSound(items, TRUE, session)
    BY <1>16, ConnectedSound
  <2> QED BY <1>16, <2>1, SetAllSound DEF AllMark
<1>17. CASE GetMessages
  <2> DEFINE which == {<<"message", 0>>}
             results == {Set(items, which)}
  <2>1. Optional("message", {"macro"}, results)
    BY <1>17 DEF GetMessages
  <2>2. mConnected => \A its \in results : AllMark(its) /\ AllSound(its, TRUE, session)
    <3>1. \A i \in which : i[1] # "avail"
      OBVIOUS
    <3> HIDE DEF which
    <3> QED BY <1>16, <3>1
  <2> HIDE DEF results
  <2> QED BY <2>1, <2>2, OptionalKeeps
<1>18. CASE GetMacros
  <2>1. ASSUME mConnected
        PROVE  \A its \in ReadMacros : AllMark(its) /\ AllSound(its, TRUE, session)
    <3>1. session \in 1 .. MaxSessions /\ AllSound(items, TRUE, session)
      BY <2>1, ConnectedSound
    <3> QED BY <2>1, <3>1, MacrosSound
  <2>2. AfterMacros \in SUBSET {"macro", "pmc", "count", "send", "exited"}
    BY DEF AfterMacros
  <2> QED BY <1>18, <2>1, <2>2, OptionalKeeps DEF GetMacros
<1>19. CASE GetPMC
  <2> DEFINE which == {<<"pmc", 0>>}
             results == {Set(items, which)}
  <2>1. Optional("pmc", {"count"}, results)
    BY <1>19 DEF GetPMC
  <2>2. mConnected => \A its \in results : AllMark(its) /\ AllSound(its, TRUE, session)
    <3>1. \A i \in which : i[1] # "avail"
      OBVIOUS
    <3> HIDE DEF which
    <3> QED BY <1>16, <3>1
  <2> HIDE DEF results
  <2> QED BY <2>1, <2>2, OptionalKeeps
<1>20. CASE GetCounts
  <2> DEFINE which == {<<"count", 0>>}
             results == {Set(items, which)}
  <2>1. Optional("count", {"send"}, results)
    BY <1>20 DEF GetCounts
  <2>2. mConnected => \A its \in results : AllMark(its) /\ AllSound(its, TRUE, session)
    <3>1. \A i \in which : i[1] # "avail"
      OBVIOUS
    <3> HIDE DEF which
    <3> QED BY <1>16, <3>1
  <2> HIDE DEF results
  <2> QED BY <2>1, <2>2, OptionalKeeps
<1>21. ASSUME NEW c \in Clients, Hangup(c) PROVE Goal
  <2>1. /\ UNCHANGED <<items, mConnected, session, mInitializeClient, pc>>
        /\ client' = [client EXCEPT ![c] = "gone"]
        /\ shown' = [shown EXCEPT ![c] = Nothing] /\ missed' = [missed EXCEPT ![c] = {}]
    BY <1>21 DEF Hangup
  <2>2. Waiting(c)' /\ \A d \in Clients \ {c} : Waiting(d)' <=> Waiting(d)
    BY <1>0, <2>1 DEF Waiting, Connected
  <2>3. Between' <=> Between
    BY <2>1 DEF Between
  <2> QED BY <2>1, <2>2, <2>3, OneKeeps
<1>22. ASSUME NEW c \in Clients, Stall(c) \/ Resume(c) PROVE Goal
  <2>1. /\ UNCHANGED <<items, mConnected, session, shown, missed, mInitializeClient, pc>>
        /\ client[c] \in {"on", "stuck"}
        /\ \E to \in {"on", "stuck"} : client' = [client EXCEPT ![c] = to]
    BY <1>22 DEF Stall, Resume
  <2>2. \A d \in Clients : Waiting(d)' <=> Waiting(d)
    BY <1>0, <2>1 DEF Waiting, Connected
  <2>3. Between' <=> Between
    BY <2>1 DEF Between
  <2> QED BY <2>1, <2>2, <2>3, AloneKeeps
<1>23. CASE LinkLost
  <2>1. UNCHANGED <<items, mConnected, session, shown, missed, client, mInitializeClient>>
        /\ (Between' => Between)
    BY <1>23 DEF LinkLost, Between
  <2> QED BY <2>1, AloneKeeps DEF Waiting, Connected
<1>24. CASE LinkBack
  <2>1. UNCHANGED <<items, mConnected, session, shown, missed, client, mInitializeClient>>
        /\ (Between' => Between)
    BY <1>24 DEF LinkBack, Between
  <2> QED BY <2>1, AloneKeeps DEF Waiting, Connected
<1>25. CASE UNCHANGED vars
  <2>1. UNCHANGED <<items, mConnected, session, shown, missed, client, mInitializeClient>>
        /\ (Between' => Between)
    BY <1>25 DEF vars, Between
  <2> QED BY <2>1, AloneKeeps DEF Waiting, Connected
<1> QED BY <1>4, <1>5, <1>6, <1>7, <1>8, <1>9, <1>10, <1>11, <1>12, <1>13, <1>14,
           <1>15, <1>17, <1>18, <1>19, <1>20, <1>21, <1>22, <1>23, <1>24, <1>25
        DEF Next, Loop, Remote

\* The items are those of the machine and of the paths that configure() has
\* made, and the loops over the paths stay in mPaths (getPathData() and
\* configure() of fanuc_adapter.cpp).
THEOREM FanucTypeCorrect == Spec => []TypeOK
<1>1. FanucInv => TypeOK
  <2> SUFFICES ASSUME FanucInv PROVE TypeOK
    OBVIOUS
  <2>1. Len(toolData) \in 0 .. MaxPaths
    BY FanucAssumption DEF FanucInv, PlaceInv
  <2>2. \E n \in 0 .. MaxPaths :
          DOMAIN items = (Base \X {0}) \cup (PathNames \X (1 .. n))
    BY <2>1 DEF FanucInv, PlaceInv, ItemsOf
  <2>3. Reading = {Steps[k] : k \in 1 .. Len(Steps)}
    <3>1. Reading \subseteq {Steps[k] : k \in 1 .. Len(Steps)}
      <4>1. 1 \in 1 .. Len(Steps) /\ 2 \in 1 .. Len(Steps) /\ 3 \in 1 .. Len(Steps)
            /\ 4 \in 1 .. Len(Steps) /\ 5 \in 1 .. Len(Steps)
        BY DEF Steps
      <4>2. Steps[1] = "block" /\ Steps[2] = "status" /\ Steps[3] = "axes"
            /\ Steps[4] = "spindle" /\ Steps[5] = "tool"
        BY DEF Steps
      <4> QED BY <4>1, <4>2 DEF Reading
    <3>2. ASSUME NEW k \in 1 .. Len(Steps) PROVE Steps[k] \in Reading
      <4>1. k \in 1 .. 5
        BY DEF Steps
      <4>2. k = 1 \/ k = 2 \/ k = 3 \/ k = 4 \/ k = 5
        BY <4>1
      <4> QED BY <4>2 DEF Steps, Reading
    <3> QED BY <3>1, <3>2
  <2>4. /\ mConnected \in BOOLEAN /\ handles \in Int
        /\ \A i \in DOMAIN items : items[i] \in Datum /\ items[i].kind = KindOf(i[1])
    BY DEF FanucInv, HandleInv, HandleBalanced, AllSound, Sound
  <2>5. /\ \A c \in Clients, i \in Items : shown[c][i] \in Int \cup {UNAVAILABLE, AVAILABLE}
        /\ \A c \in Clients : missed[c] \subseteq Items
    BY DEF FanucInv, ShownInv
  <2> QED BY <2>2, <2>3, <2>4, <2>5 DEF TypeOK, FanucInv, PlaceInv
<1> QED BY <1>1, FanucInit, FanucStep, PTL DEF Spec

\* Between gathers a client sees what the items are, but for what it missed.
LEMMA ServedSees ==
  ASSUME FanucInv, NEW c \in Clients, Served(c), NEW i \in Told(c)
  PROVE  \/ i \in DOMAIN items /\ Sound(i, items[i], mConnected, session)
            /\ shown[c][i] = Shows(items[i])
         \/ i # Avail /\ shown[c][i] = UNAVAILABLE
<1>1. Avail \in DOMAIN items
  BY DEF FanucInv, PlaceInv, ItemsOf, Avail, Base
<1>2. Between /\ ~Waiting(c) /\ ClientInv(c)
  BY FanucAssumption DEF Waiting, Served, Between, FanucInv, PlaceInv, ShownInv
<1>3. CASE i \in DOMAIN items
  BY <1>2, <1>3 DEF Told, FanucInv, ClientInv, AllSound
<1>4. CASE i \notin DOMAIN items
  BY <1>1, <1>2, <1>4 DEF Told, ClientInv
<1> QED BY <1>3, <1>4

\* For any number of clients, paths, connections and items: no client shows
\* anything of a controller that is not connected, but what it missed in the
\* initial gather of a later client (disconnect() and connect() of
\* fanuc_adapter.cpp, sendInitialData() of adapter.cpp).
THEOREM LostIsUnavailable == Spec => []LostMeansUnavailable
<1>1. FanucInv => LostMeansUnavailable
  <2> SUFFICES ASSUME FanucInv, NEW c \in Clients, Served(c), ~mConnected,
                      NEW i \in Told(c), i[1] # "active"
               PROVE  shown[c][i] = UNAVAILABLE
    BY DEF LostMeansUnavailable
  <2>1. CASE shown[c][i] = UNAVAILABLE
    BY <2>1
  <2>2. CASE /\ i \in DOMAIN items /\ Sound(i, items[i], mConnected, session)
             /\ shown[c][i] = Shows(items[i])
    <3>1. items[i].unavailable \/ ~items[i].hasValue
      <4>1. CASE i[1] = "avail"
        <5>1. i = Avail
          BY <4>1 DEF Told, Items, PathNames, Avail
        <5> QED BY <2>2, <5>1 DEF Sound, Datum
      <4>2. CASE i[1] # "avail"
        BY <2>2, <4>2 DEF Sound
      <4> QED BY <4>1, <4>2
    <3> QED BY <2>2, <3>1 DEF Shows, Said
  <2> QED BY <2>1, <2>2, ServedSees
<1> QED BY <1>1, FanucInit, FanucStep, PTL DEF Spec

\* For any number of clients, paths, connections and items, and any epsilon:
\* what a client shows of a connected controller was read in this connection,
\* but for what it missed in the initial gather of a later client.
THEOREM OnlyThisConnection == Spec => []OneConnection
<1>1. FanucInv => OneConnection
  <2> SUFFICES ASSUME FanucInv, NEW c \in Clients, Served(c), mConnected PROVE
                 /\ Avail \in Told(c) => shown[c][Avail] = AVAILABLE
                 /\ \A i \in Told(c) : i[1] # "active" =>
                      shown[c][i] \in {UNAVAILABLE, AVAILABLE, session}
    BY DEF OneConnection
  <2>1. ASSUME Avail \in Told(c) PROVE shown[c][Avail] = AVAILABLE
    <3>1. KindOf(Avail[1]) = "Availability"
      BY DEF Avail, KindOf
    <3>2. Sound(Avail, items[Avail], mConnected, session)
          /\ shown[c][Avail] = Shows(items[Avail])
      BY <2>1, ServedSees
    <3>3. mConnected \in BOOLEAN
      BY DEF FanucInv, HandleInv
    <3> QED BY <3>1, <3>2, <3>3 DEF Sound, Shows, Said, Datum
  <2>2. ASSUME NEW i \in Told(c), i[1] # "active"
        PROVE  shown[c][i] \in {UNAVAILABLE, AVAILABLE, session}
    <3>1. CASE shown[c][i] = UNAVAILABLE
      BY <3>1
    <3>2. CASE /\ i \in DOMAIN items /\ Sound(i, items[i], mConnected, session)
               /\ shown[c][i] = Shows(items[i])
      <4>1. CASE i[1] = "avail"
        <5>1. i = Avail
          BY <4>1 DEF Told, Items, PathNames, Avail
        <5> QED BY <2>1, <5>1
      <4>2. CASE i[1] # "avail"
        BY <2>2, <3>2, <4>2 DEF Sound, Shows, Said
      <4> QED BY <4>1, <4>2
    <3> QED BY <3>1, <3>2, ServedSees
  <2> QED BY <2>1, <2>2
<1> QED BY <1>1, FanucInit, FanucStep, PTL DEF Spec
=============================================================================
