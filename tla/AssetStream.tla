----------------------------- MODULE AssetStream -----------------------------
(***************************************************************************)
(* How the Balluff adapter follows the assets of the agent: agentMonitor() *)
(* asks for the agent's position, then reads a stream of XML documents     *)
(* from it (stream.c), which a watchdog ends when nothing arrives, and     *)
(* resumes where the last document ended.  The handler of a document asks  *)
(* for the asset that changed.  These requests have neither a timeout nor  *)
(* a watchdog: one that is never answered holds the thread for ever.       *)
(*                                                                         *)
(* The agent is external: it numbers what it records, keeps the last       *)
(* BufferSize of it, and starts again from 1 in a new instance.  What it   *)
(* sends is seen in three pieces a document, which end where the parser    *)
(* looks: at the boundary, at the blank line and at the end of the XML.    *)
(***************************************************************************)
EXTENDS Naturals, Sequences

CONSTANTS
  MaxSequence, \* bound on what an instance of the agent records
  BufferSize,  \* what the agent keeps
  MaxFaults,   \* bound on lost or slow links, failed requests, broken
               \* documents and restarts of the agent
  Coalescing   \* one call of HandleData() may hold bytes of two documents

ASSUME StreamAssumption ==
  /\ MaxSequence \in Nat /\ BufferSize \in Nat /\ MaxFaults \in Nat
  /\ Coalescing \in BOOLEAN

VARIABLES
  agentInstance, agentNext,  \* the agent's instanceId and nextSequence
  faults,                    \* the faults so far
  link,                      \* the stream's connection
  served,                    \* how far the agent has sent on it
  docs,                      \* documents sent and not handed over yet
  received,                  \* how many of their pieces are in the block
  in_body, stopped,
  nul,                       \* the block begins with a NUL
  late,                      \* last_received is more than 20 seconds ago
  pc,
  instance, mNextSequence,
  handed                     \* the documents given to HandleXmlChunk()

agentVars == <<agentInstance, agentNext, faults>>
linkVars == <<link, served>>
blockVars == <<docs, received, in_body, nul>>
dogVars == <<stopped, late>>
monitorVars == <<pc, instance, mNextSequence, handed>>
vars == <<agentVars, linkVars, blockVars, dogVars, monitorVars>>

Pieces == 3

Init ==
  /\ agentInstance = 1 /\ agentNext \in 1 .. MaxSequence + 1 /\ faults = 0
  /\ link = "none" /\ served = 1
  /\ docs = <<>> /\ received = 0 /\ in_body = FALSE /\ nul = FALSE
  /\ stopped = FALSE /\ late = FALSE
  /\ pc = "current" /\ instance = 0 /\ mNextSequence = 1 /\ handed = <<>>

-----------------------------------------------------------------------------
(* The agent and the network. *)

Record ==
  /\ agentNext <= MaxSequence
  /\ agentNext' = agentNext + 1
  /\ UNCHANGED <<agentInstance, faults, linkVars, blockVars, dogVars, monitorVars>>

\* A document with all that is new, or an empty one as a heartbeat.  The
\* agent has at most two documents under way.
Publish ==
  /\ link = "up" /\ Len(docs) < 2
  /\ docs' = Append(docs, [instance |-> agentInstance, first |-> served,
                           next |-> agentNext])
  /\ served' = agentNext
  /\ UNCHANGED <<agentVars, link, received, in_body, nul, dogVars, monitorVars>>

Fault == faults < MaxFaults /\ faults' = faults + 1

Restart ==
  /\ Fault
  /\ agentInstance' = agentInstance + 1 /\ agentNext' = 1
  /\ link' = IF link = "up" THEN "closed" ELSE link
  /\ UNCHANGED <<served, blockVars, dogVars, monitorVars>>

\* The agent closes the connection, or nothing passes any more and nobody
\* says so.
Lose ==
  /\ Fault /\ link = "up"
  /\ link' \in {"closed", "silent"}
  /\ UNCHANGED <<agentInstance, agentNext, served, blockVars, dogVars, monitorVars>>

-----------------------------------------------------------------------------
(* agentMonitor(). *)

\* Mutant: the position is taken from the agent every time.
CurrentAlways ==
  /\ pc = "current"
  /\ instance' = agentInstance /\ mNextSequence' = agentNext
  /\ pc' = "start"
  /\ UNCHANGED <<agentVars, linkVars, blockVars, dogVars, handed>>

Current ==
  /\ pc = "current"
  /\ instance' = agentInstance
  /\ mNextSequence' = IF instance # agentInstance THEN agentNext ELSE mNextSequence
  /\ pc' = "start"
  /\ UNCHANGED <<agentVars, linkVars, blockVars, dogVars, handed>>

Kept(sequence) == sequence <= agentNext /\ agentNext <= sequence + BufferSize

\* MTCStreamInit() and MTCStreamStart(), with a watchdog of its own.
Start ==
  /\ pc = "start" /\ Kept(mNextSequence)
  /\ link' = "up" /\ served' = mNextSequence
  /\ docs' = <<>> /\ received' = 0 /\ in_body' = FALSE /\ nul' = FALSE
  /\ stopped' = FALSE /\ late' = FALSE
  /\ pc' = "stream"
  /\ UNCHANGED <<agentVars, instance, mNextSequence, handed>>

\* The agent answers with an error document: HandleHeader() calls exit().
StartExits ==
  /\ pc = "start" /\ ~Kept(mNextSequence)
  /\ pc' = "exited"
  /\ UNCHANGED <<agentVars, linkVars, blockVars, dogVars, instance,
                 mNextSequence, handed>>

\* Either request fails, or the answer has no position: it begins again a
\* second later.
RequestFails ==
  /\ pc \in {"current", "start"} /\ Fault
  /\ pc' = "current"
  /\ UNCHANGED <<agentInstance, agentNext, linkVars, blockVars, dogVars,
                 instance, mNextSequence, handed>>

\* curl_easy_perform() has returned: MTCStreamFree().
Free ==
  /\ link' = "none"
  /\ docs' = <<>> /\ received' = 0 /\ in_body' = FALSE /\ nul' = FALSE
  /\ stopped' = FALSE /\ late' = FALSE
  /\ pc' = "current"
  /\ UNCHANGED <<agentInstance, agentNext, served, instance, mNextSequence, handed>>

End == pc = "stream" /\ link = "closed" /\ Free /\ UNCHANGED faults

\* The link goes silent during one of MTCWebExecute()'s requests, which
\* nothing ends.
Hang ==
  /\ pc \in {"current", "asset"} /\ Fault
  /\ pc' = "hung"
  /\ UNCHANGED <<agentInstance, agentNext, linkVars, blockVars, dogVars,
                 instance, mNextSequence, handed>>

-----------------------------------------------------------------------------
(* HandleData(): it appends what arrived, then one step is one iteration   *)
(* of its loop.                                                            *)

\* Nothing that comes behind a NUL is ever looked at: the search for the
\* boundary ends there.
Receive ==
  /\ pc = "stream" /\ link \in {"up", "closed"} /\ ~stopped
  /\ \E n \in received + 1 .. Pieces * Len(docs) :
       /\ Coalescing \/ n <= Pieces
       /\ IF nul THEN docs' = <<>> /\ received' = 0
                 ELSE received' = n /\ UNCHANGED docs
  /\ late' = FALSE
  /\ pc' = "parse"
  /\ UNCHANGED <<agentVars, linkVars, in_body, nul, stopped, instance,
                 mNextSequence, handed>>

Found == in_body \/ (~nul /\ received >= Pieces - 1)

NeedData ==
  /\ pc = "parse" /\ ~(Found /\ received >= Pieces)
  /\ in_body' = Found
  /\ pc' = "stream"
  /\ UNCHANGED <<agentVars, linkVars, docs, received, nul, dogVars, instance,
                 mNextSequence, handed>>

\* Mutant: the position is taken to be the last one, not the next.
HandleXmlChunkPast(doc) ==
  /\ mNextSequence' = doc.next + 1
  /\ handed' = IF doc.first = doc.next THEN handed
               ELSE Append(handed, [doc |-> doc, known |-> instance])

\* The document's position is kept before anything is done about its changes.
HandleXmlChunk(doc) ==
  /\ mNextSequence' = doc.next
  /\ handed' = IF doc.first = doc.next THEN handed
               ELSE Append(handed, [doc |-> doc, known |-> instance])

Complete == pc = "parse" /\ Found /\ received >= Pieces

\* The XML is terminated by a NUL in place of the first byte behind it, and
\* what is behind it is moved to the front, NUL first.  The loop goes on with
\* more than 60 bytes; with less it finds nothing anyway.  If the document
\* names a changed asset, the handler has asked the agent for it before.
Consume ==
  /\ Complete
  /\ HandleXmlChunk(Head(docs))
  /\ docs' = Tail(docs) /\ received' = received - Pieces
  /\ in_body' = FALSE
  /\ nul' = (received > Pieces)
  /\ \/ pc' = IF nul' THEN "parse" ELSE "stream"
     \/ pc' = "asset" /\ Head(docs).first # Head(docs).next
  /\ UNCHANGED <<agentVars, linkVars, dogVars, instance>>

\* sendAssetToAgent(): the asset, or the failure to fetch it, changes nothing
\* here.
AssetDone ==
  /\ pc = "asset"
  /\ pc' = IF nul THEN "parse" ELSE "stream"
  /\ UNCHANGED <<agentVars, linkVars, blockVars, dogVars, instance,
                 mNextSequence, handed>>

\* A document without a header: the handler returns 0, and so HandleData(),
\* which makes curl end the stream.
Refuse == Complete /\ Fault /\ Free

-----------------------------------------------------------------------------
(* WatchDog(). *)

\* Twenty seconds pass in which nothing arrives.
Late ==
  /\ \/ pc = "stream" /\ link = "silent"
     \/ pc = "hung" /\ link # "none"
  /\ late' = TRUE
  /\ UNCHANGED <<agentVars, linkVars, blockVars, stopped, monitorVars>>

\* The same where nothing is lost: the agent sends no heartbeat, or the
\* handler takes long.
Slow ==
  /\ Fault
  /\ \/ pc = "stream" /\ link = "up" /\ received = Pieces * Len(docs)
     \/ pc \in {"parse", "asset"}
  /\ late' = TRUE
  /\ UNCHANGED <<agentInstance, agentNext, linkVars, blockVars, stopped, monitorVars>>

\* Mutant: the watchdog ends the stream, but leaves the socket open.
WatchDogWaits ==
  /\ late /\ ~stopped
  /\ stopped' = TRUE
  /\ UNCHANGED <<agentVars, linkVars, blockVars, late, monitorVars>>

WatchDog ==
  /\ late /\ ~stopped
  /\ link' = "closed" /\ stopped' = TRUE
  /\ UNCHANGED <<agentVars, served, blockVars, late, monitorVars>>

-----------------------------------------------------------------------------
Next ==
  \/ Record \/ Publish \/ Restart \/ Lose
  \/ Current \/ Start \/ StartExits \/ RequestFails \/ End \/ Hang
  \/ Receive \/ NeedData \/ Consume \/ AssetDone \/ Refuse
  \/ Late \/ Slow \/ WatchDog

Spec == Init /\ [][Next]_vars

\* The two threads and the clock run, the agent sends what is new, and a
\* request ends unless it hangs.
FairSpec ==
  /\ Spec
  /\ WF_vars(Current) /\ WF_vars(Start \/ StartExits) /\ WF_vars(End)
  /\ WF_vars(Receive) /\ WF_vars(NeedData \/ Consume) /\ WF_vars(AssetDone)
  /\ WF_vars(Late) /\ WF_vars(WatchDog)
  /\ WF_vars(Publish /\ served < agentNext)

-----------------------------------------------------------------------------
(* Properties. *)

Sequences == 1 .. MaxSequence + 1
Instances == 0 .. MaxFaults + 1
Documents == [instance : Instances, first : Sequences, next : Sequences]
Entries == [doc : Documents, known : Instances]

\* The monitor's, the parser's and the agent's variables keep their types;
\* the block holds no more than was sent.
TypeOK ==
  /\ faults \in 0 .. MaxFaults
  /\ agentInstance \in 1 .. faults + 1 /\ agentNext \in Sequences
  /\ link \in {"none", "up", "silent", "closed"} /\ served \in Sequences
  /\ docs \in Seq(Documents) /\ received \in 0 .. Pieces * Len(docs)
  /\ in_body \in BOOLEAN /\ nul \in BOOLEAN
  /\ stopped \in BOOLEAN /\ late \in BOOLEAN
  /\ pc \in {"current", "start", "stream", "parse", "asset", "hung", "exited"}
  /\ instance \in Instances /\ mNextSequence \in Sequences
  /\ handed \in Seq(Entries)

\* Nothing of an instance is handed over twice or out of order.
HandedOnce ==
  \A i, j \in 1 .. Len(handed) :
    i < j /\ handed[i].doc.instance = handed[j].doc.instance
      => handed[i].doc.next <= handed[j].doc.first

\* Nothing is left out between two documents of an instance, once the monitor
\* has asked that instance for its position.
NothingSkipped ==
  \A i \in 1 .. Len(handed) - 1 :
    LET a == handed[i]  b == handed[i + 1] IN
      a.known = b.known /\ a.doc.instance = a.known /\ b.doc.instance = b.known
        => a.doc.next = b.doc.first

\* Whatever links are lost, wherever they cut a document, and however often the
\* agent restarts, the stream is resumed exactly where the last document that
\* was handed over ended (balluff_adapter.cpp:206-213).
ResumesExactly == HandedOnce /\ NothingSkipped

Handed(n, s) ==
  \E i \in 1 .. Len(handed) :
    /\ handed[i].doc.instance = n
    /\ handed[i].doc.first <= s /\ s < handed[i].doc.next

\* What the agent records while the monitor follows it is handed over, after
\* any streams lost or gone silent, any failed requests and broken documents,
\* unless the agent restarts, or answers with an error, which ends the process,
\* or goes silent during a request other than the stream, which nothing ends
\* (stream.c:343-351).
ChangeReported ==
  \A n \in 1 .. MaxFaults + 1, s \in 1 .. MaxSequence :
    (agentInstance = n /\ instance = n /\ mNextSequence <= s /\ s < agentNext)
      ~> (Handed(n, s) \/ agentInstance # n \/ pc \in {"exited", "hung"})
=============================================================================
