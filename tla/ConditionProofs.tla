--------------------------- MODULE ConditionProofs ---------------------------
(***************************************************************************)
(* Proofs about Condition, for any codes and details and lists of any      *)
(* length: the list keeps the shape add() relies on, no alarm is stuck at  *)
(* the agent, a scan that has been sent leaves the agent with what the     *)
(* scan reported, and the item keeps the abstract promise of AlarmFeed.    *)
(*                                                                         *)
(* What a recursive function computes is proved by induction over a set of *)
(* numbers, which WFMin of WellFoundedInduction gives.                     *)
(***************************************************************************)
EXTENDS Condition, SequenceTheorems, WellFoundedInduction, TLAPS

Bad == {"WARNING", "FAULT"}

\* A placeholder says nothing but its level; an entry with a code is an
\* alarm, or it was turned NORMAL and waits to be dropped.
EntryOK(e) ==
  \/ /\ e.placeHolder
     /\ e.level \in {"NORMAL", "UNAVAILABLE"} /\ e.detail = NoDetail /\ e.code = NoCode
  \/ /\ ~e.placeHolder
     /\ e.code \in Codes
     /\ \/ e.level \in Bad /\ e.detail \in Details
        \/ e.level = "NORMAL" /\ e.detail = NoDetail /\ ~e.marked

\* add() drops a lone entry that is NORMAL: it may only be a placeholder, or
\* the agent would never be told.
GoodList(l) ==
  /\ l \in Seq(EntrySet) /\ l # <<>>
  /\ \A i \in DOMAIN l : EntryOK(l[i])
  /\ \A i, j \in DOMAIN l :
       i # j => l[i].code # l[j].code /\ ~l[i].placeHolder
  /\ Len(l) = 1 => l[1].placeHolder \/ l[1].level \in Bad

AlarmOf(e) == Alarm(e.level, e.detail, e.code)

\* What the list says of the device, and what its marked entries alone say.
AlarmsAt(l, S) == {AlarmOf(l[i]) : i \in {j \in S : l[j].level \in Bad}}
MarkedAt(l) == {i \in DOMAIN l : l[i].marked}

SaysAt(l, S) ==
  IF l[1].placeHolder THEN [avail |-> l[1].level = "NORMAL", alarms |-> {}]
                      ELSE [avail |-> TRUE, alarms |-> AlarmsAt(l, S)]
Says(l) == SaysAt(l, DOMAIN l)

\* An entry whose line was written is what the view shows.
InView(e, view) ==
  IF e.placeHolder THEN view = [avail |-> e.level = "NORMAL", alarms |-> {}]
  ELSE /\ view.avail
       /\ \A a \in view.alarms : a.code = e.code => a = AlarmOf(e)
       /\ e.level \in Bad <=> \E a \in view.alarms : a.code = e.code

\* The lines of the entries at S are all that the view lacks: the others are
\* in it, and whatever else it shows those lines replace.
Behind(l, S, view) ==
  /\ \A i \in DOMAIN l \ S : InView(l[i], view)
  /\ \A a \in view.alarms :
       \/ \E i \in DOMAIN l : l[i].code = a.code
       \/ l[1].placeHolder /\ 1 \in S

AllSaid(l) == ChangedAt(l) = {}

\* Where the flags of the item and the loop of the adapter stand.
FlagInv ==
  /\ phase \in {"idle", "init"} => ~mBegun
  /\ phase = "gather" /\ mBegun => ~mPrepared
  /\ phase = "prepared" /\ mBegun => mPrepared
  /\ phase \in {"gather", "prepared"} /\ ~mBegun => mChanged
  /\ phase = "prepared" /\ ~mChanged => AllSaid(list)
  /\ phase = "gather" /\ ~mBegun /\ ~cleared => ChangedAt(list) = DOMAIN list

\* What is marked is what the device has: always in a simple condition, at
\* the end of the sweep in any other.
MarkInv ==
  /\ mSimple => \A i \in DOMAIN list : Kept(list[i]) \/ list[i].level = "NORMAL"
  /\ phase = "prepared" /\ mBegun =>
       /\ KeptAt(list) # {}
       /\ \A i \in DOMAIN list : Kept(list[i]) \/ list[i].level = "NORMAL"

\* The list is the device, except while a sweep gathers: then its marked
\* entries are what was reported so far.
DeviceInv ==
  IF phase = "gather" /\ Sweeping
  THEN IF pending.touched
       THEN /\ MarkedAt(list) # {}
            /\ pending.view = SaysAt(list, MarkedAt(list))
            /\ list[1].placeHolder => cleared
       ELSE MarkedAt(list) = {} /\ device = Says(list) /\ pending.view = AllNormal
  ELSE device = Says(list)

\* The agent is what the list says, up to the lines that were not written.
AgentInv ==
  connected =>
    /\ phase = "init" => agent = Unknown
    /\ phase \in {"gather", "prepared"} => Behind(list, ChangedAt(list), agent)
    /\ phase \in {"idle", "sent"} => agent = Says(list) /\ AllSaid(list)
    /\ phase = "gather" /\ ~cleared /\ list[1].placeHolder => agent.alarms = {}

ConditionInv == TypeOK /\ GoodList(list) /\ FlagInv /\ MarkInv /\ DeviceInv /\ AgentInv

-----------------------------------------------------------------------------
(* Induction, and what the recursive functions of the model compute. *)

\* Induction over the natural numbers, for a set instead of a predicate.
LEMMA Induction ==
  ASSUME NEW T \in SUBSET Nat, 0 \in T, \A n \in T : n + 1 \in T
  PROVE  T = Nat
<1> DEFINE R == OpToRel(<, Nat)
<1> HIDE DEF R
<1>1. SUFFICES ASSUME T # Nat PROVE FALSE
  OBVIOUS
<1>2. PICK m \in Nat \ T : \A y \in Nat \ T : ~(<<y, m>> \in R)
  <2>1. IsWellFoundedOn(R, Nat)
    BY NatLessThanWellFounded DEF R
  <2>2. Nat \ T \subseteq Nat /\ Nat \ T # {}
    BY <1>1
  <2> QED BY <2>1, <2>2, WFMin
<1>3. m \in Nat /\ m # 0 /\ m \notin T
  BY <1>2
<1>4. m - 1 \in Nat /\ (m - 1) + 1 = m
  BY <1>3
<1>5. m - 1 \notin T
  BY <1>3, <1>4
<1>6. <<m - 1, m>> \in R
  <2>1. <<m - 1, m>> \in Nat \X Nat /\ m - 1 < m
    BY <1>3, <1>4
  <2> QED BY <2>1 DEF R, OpToRel
<1> QED BY <1>2, <1>4, <1>5, <1>6

\* A step function and a first value define a function on 0 .. n.
Iterates(f, x, g, n) == f[0] = x /\ \A i \in 1 .. n : f[i] = g[<<i, f[i - 1]>>]

LEMMA Recursion ==
  ASSUME NEW S, NEW x \in S, NEW g \in [Nat \X S -> S], NEW n \in Nat
  PROVE  \E f \in [0 .. n -> S] : Iterates(f, x, g, n)
<1> USE DEF Iterates
<1> DEFINE Defines(f, k) == Iterates(f, x, g, k)
           T == {k \in Nat : \E f \in [0 .. k -> S] : Defines(f, k)}
<1>1. 0 \in T
  <2>1. [i \in 0 .. 0 |-> x] \in [0 .. 0 -> S] /\ Defines([i \in 0 .. 0 |-> x], 0)
    OBVIOUS
  <2> QED BY <2>1
<1>2. ASSUME NEW k \in T PROVE k + 1 \in T
  <2>1. PICK f \in [0 .. k -> S] : Defines(f, k)
    BY <1>2
  <2> DEFINE e == [i \in 0 .. k + 1 |-> IF i = k + 1 THEN g[<<k + 1, f[k]>>] ELSE f[i]]
  <2>2. k \in Nat /\ f[k] \in S /\ g[<<k + 1, f[k]>>] \in S
    BY <2>1
  <2>3. e \in [0 .. k + 1 -> S]
    BY <2>1, <2>2
  <2>4. e[0] = x
    BY <2>1, <2>2
  <2>5. ASSUME NEW i \in 1 .. k + 1 PROVE e[i] = g[<<i, e[i - 1]>>]
    <3>1. CASE i = k + 1
      <4>1. e[k + 1] = g[<<k + 1, f[k]>>] /\ e[k] = f[k] /\ i - 1 = k
        BY <2>2, <3>1
      <4> HIDE DEF e
      <4> QED BY <3>1, <4>1
    <3>2. CASE i \in 1 .. k
      <4>1. e[i] = f[i] /\ e[i - 1] = f[i - 1]
        BY <2>2, <3>2
      <4> QED BY <2>1, <3>2, <4>1
    <3> QED BY <2>2, <3>1, <3>2
  <2> HIDE DEF e
  <2> QED BY <2>2, <2>3, <2>4, <2>5
<1>3. T = Nat
  <2> HIDE DEF T
  <2>1. T \in SUBSET Nat BY DEF T
  <2> QED BY <1>1, <1>2, <2>1, Induction
<1> QED BY <1>3

\* p has the entries of l at S, each once, in the places that h names.
TakenAt(p, l, S, h) ==
  /\ h \in [1 .. Len(p) -> S]
  /\ \A i \in 1 .. Len(p) : p[i] = l[h[i]]
  /\ \A i, j \in 1 .. Len(p) : h[i] = h[j] => i = j
  /\ \A k \in S : \E i \in 1 .. Len(p) : h[i] = k

\* Picked takes the entries at S: each once, and no other.
LEMMA PickedFrom ==
  ASSUME NEW E, NEW l \in Seq(E), NEW S \in SUBSET (1 .. Len(l))
  PROVE  Picked(l, S) \in Seq(E) /\ \E h : TakenAt(Picked(l, S), l, S, h)
<1> DEFINE N == Len(l)
           Step(i, p) == IF i \in S THEN Append(p, l[i]) ELSE p
           IsPicked(f) == f = [n \in 0 .. N |-> IF n = 0 THEN <<>> ELSE
                                IF n \in S THEN Append(f[n - 1], l[n]) ELSE f[n - 1]]
           f == CHOOSE f : IsPicked(f)
<1>1. N \in Nat /\ \A i \in 1 .. N : l[i] \in E
  OBVIOUS
<1>2. IsPicked(f)
  <2> DEFINE g == [u \in Nat \X Seq(E) |-> Step(u[1], u[2])]
  <2>1. \A i \in Nat, p \in Seq(E) : Step(i, p) \in Seq(E)
    BY <1>1
  <2>2. g \in [Nat \X Seq(E) -> Seq(E)]
    BY <2>1
  <2>3. \A i \in Nat, p \in Seq(E) : g[<<i, p>>] = Step(i, p)
    OBVIOUS
  <2> HIDE DEF g, N
  <2>4. PICK e \in [0 .. N -> Seq(E)] : Iterates(e, <<>>, g, N)
    <3>1. <<>> \in Seq(E) OBVIOUS
    <3>2. N \in Nat BY <1>1
    <3> QED BY <2>2, <3>1, <3>2, Recursion, Zenon
  <2>5. ASSUME NEW i \in 1 .. N PROVE e[i] = Step(i, e[i - 1])
    <3>1. i \in Nat /\ i - 1 \in 0 .. N
      BY <1>1
    <3>2. e[i - 1] \in Seq(E)
      BY <3>1
    <3> QED BY <2>3, <2>4, <3>1, <3>2 DEF Iterates
  <2>6. ASSUME NEW i \in 0 .. N
        PROVE  e[i] = IF i = 0 THEN <<>> ELSE
                        IF i \in S THEN Append(e[i - 1], l[i]) ELSE e[i - 1]
    <3>1. CASE i = 0 BY <2>4, <3>1 DEF Iterates
    <3>2. CASE i \in 1 .. N
      <4>1. i # 0
        BY <1>1, <3>2
      <4>2. e[i] = Step(i, e[i - 1])
        BY <2>5, <3>2
      <4> QED BY <4>1, <4>2
    <3> QED BY <1>1, <3>1, <3>2
  <2>7. IsPicked(e)
    BY <2>6
  <2> QED BY <2>7
<1>3. Picked(l, S) = f[N]
  BY DEF Picked
<1>4. f[0] = <<>> /\ \A n \in 1 .. N : f[n] = Step(n, f[n - 1])
  <2> HIDE DEF f, N
  <2>1. f[0] = <<>>
    BY <1>1, <1>2
  <2>2. ASSUME NEW n \in 1 .. N PROVE f[n] = Step(n, f[n - 1])
    <3>1. n \in 0 .. N /\ n # 0
      BY <1>1
    <3> QED BY <1>2, <3>1
  <2> QED BY <2>1, <2>2
<1> HIDE DEF f, IsPicked
<1> DEFINE Places(p, h, n) ==
             /\ h \in [1 .. Len(p) -> S \cap (1 .. n)]
             /\ \A i \in 1 .. Len(p) : p[i] = l[h[i]]
             /\ \A i, j \in 1 .. Len(p) : h[i] = h[j] => i = j
             /\ \A k \in S \cap (1 .. n) : \E i \in 1 .. Len(p) : h[i] = k
           Taken(p, n) == p \in Seq(E) /\ \E h : Places(p, h, n)
           T == {n \in Nat : n <= N => Taken(f[n], n)}
<1>5. 0 \in T
  <2>1. Places(<<>>, <<>>, 0)
    OBVIOUS
  <2>2. <<>> \in Seq(E)
    OBVIOUS
  <2> HIDE DEF Places
  <2> QED BY <1>4, <2>1, <2>2
<1>6. ASSUME NEW n \in T PROVE n + 1 \in T
  <2>1. n \in Nat /\ (n <= N => Taken(f[n], n))
    OBVIOUS
  <2> HIDE DEF N, Taken, T
  <2>2. SUFFICES ASSUME n + 1 <= N PROVE Taken(f[n + 1], n + 1)
    BY <2>1 DEF T
  <2> DEFINE p == f[n]
  <2>3. n + 1 \in 1 .. N /\ (n + 1) - 1 = n /\ Taken(p, n) /\ l[n + 1] \in E
    BY <1>1, <2>1, <2>2
  <2>4. f[n + 1] = Step(n + 1, p)
    BY <1>4, <2>3
  <2> HIDE DEF p, Places
  <2>5. PICK h : Places(p, h, n)
    BY <2>3 DEF Taken
  <2>6. p \in Seq(E) /\ Len(p) \in Nat
    BY <2>3 DEF Taken
  <2>7. CASE n + 1 \notin S
    <3>1. S \cap (1 .. n + 1) = S \cap (1 .. n)
      BY <2>1, <2>7
    <3>2. Places(p, h, n + 1)
      BY <2>5, <3>1 DEF Places
    <3>3. f[n + 1] = p
      BY <2>4, <2>7
    <3> QED BY <2>6, <3>2, <3>3 DEF Taken
  <2>8. CASE n + 1 \in S
    <3> DEFINE q == Append(p, l[n + 1])
               m == Len(p)
               c == [i \in 1 .. m + 1 |-> IF i = m + 1 THEN n + 1 ELSE h[i]]
    <3>1. /\ q \in Seq(E) /\ Len(q) = m + 1
          /\ \A i \in 1 .. m : q[i] = p[i]
          /\ q[m + 1] = l[n + 1]
      BY <2>3, <2>6
    <3>2. /\ h \in [1 .. m -> S \cap (1 .. n)]
          /\ \A i \in 1 .. m : p[i] = l[h[i]]
          /\ \A i, j \in 1 .. m : h[i] = h[j] => i = j
          /\ \A k \in S \cap (1 .. n) : \E i \in 1 .. m : h[i] = k
      BY <2>5 DEF Places
    <3> HIDE DEF q
    <3>3. m \in Nat
      BY <2>6
    <3> HIDE DEF m
    <3>4. \A i \in 1 .. m : h[i] \in S /\ h[i] \in 1 .. n /\ h[i] # n + 1
      BY <2>1, <3>2
    <3>5. c \in [1 .. m + 1 -> S \cap (1 .. n + 1)]
      BY <2>1, <2>8, <3>3, <3>4
    <3>6. /\ \A i \in 1 .. m : c[i] = h[i]
          /\ c[m + 1] = n + 1
      BY <3>3
    <3> HIDE DEF c
    <3>7. \A i \in 1 .. m + 1 : i = m + 1 \/ i \in 1 .. m
      BY <3>3
    <3>8. ASSUME NEW i \in 1 .. m + 1 PROVE q[i] = l[c[i]]
      BY <3>1, <3>2, <3>6, <3>7
    <3>9. ASSUME NEW i \in 1 .. m + 1, NEW j \in 1 .. m + 1, c[i] = c[j] PROVE i = j
      BY <3>2, <3>4, <3>6, <3>7, <3>9
    <3>10. ASSUME NEW k \in S \cap (1 .. n + 1) PROVE \E i \in 1 .. m + 1 : c[i] = k
      <4>1. CASE k = n + 1 BY <3>3, <3>6, <4>1
      <4>2. CASE k # n + 1
        <5>1. k \in S \cap (1 .. n)
          BY <2>1, <4>2
        <5>2. PICK i \in 1 .. m : h[i] = k
          BY <3>2, <5>1
        <5>3. i \in 1 .. m + 1
          BY <3>3
        <5> QED BY <3>6, <5>2, <5>3
      <4> QED BY <4>1, <4>2
    <3>11. Places(q, c, n + 1)
      BY <3>1, <3>5, <3>8, <3>9, <3>10 DEF Places
    <3>12. f[n + 1] = q
      BY <2>4, <2>8 DEF q
    <3> QED BY <3>1, <3>11, <3>12 DEF Taken
  <2> QED BY <2>7, <2>8
<1>7. T = Nat
  <2> HIDE DEF T
  <2>1. T \in SUBSET Nat BY DEF T
  <2> QED BY <1>5, <1>6, <2>1, Induction
<1>8. Taken(f[N], N)
  <2>1. \A n \in Nat : n <= N => Taken(f[n], n)
    BY <1>7
  <2> HIDE DEF Taken, N
  <2> QED BY <1>1, <2>1
<1>9. S \cap (1 .. N) = S
  OBVIOUS
<1>10. PICK h : Places(f[N], h, N)
  BY <1>8
<1>11. TakenAt(f[N], l, S, h)
  BY <1>9, <1>10 DEF TakenAt
<1> QED BY <1>3, <1>8, <1>11

-----------------------------------------------------------------------------
(* What an agent makes of the lines it gets. *)

\* The recursive function of ObserveAll is the only one of its kind.
LEMMA ObserveAllIs ==
  ASSUME NEW view, NEW lines, Len(lines) \in Nat, NEW w,
         w = [n \in 0 .. Len(lines) |->
                IF n = 0 THEN view ELSE Observe(w[n - 1], lines[n])]
  PROVE  ObserveAll(view, lines) = w[Len(lines)]
<1> DEFINE N == Len(lines)
           IsSeen(f) == f = [n \in 0 .. N |->
                               IF n = 0 THEN view ELSE Observe(f[n - 1], lines[n])]
           f == CHOOSE f : IsSeen(f)
           T == {n \in Nat : n <= N => f[n] = w[n]}
<1>1. IsSeen(w)
  OBVIOUS
<1>2. IsSeen(f)
  <2> HIDE DEF IsSeen
  <2> QED BY <1>1
<1>3. ObserveAll(view, lines) = f[N]
  BY DEF ObserveAll
<1> HIDE DEF f
<1>4. N \in Nat
  OBVIOUS
<1>5. 0 \in T
  <2>1. f[0] = view
    BY <1>2, <1>4
  <2>2. w[0] = view
    BY <1>1, <1>4
  <2> QED BY <2>1, <2>2
<1>6. ASSUME NEW n \in T PROVE n + 1 \in T
  <2> HIDE DEF N
  <2>1. SUFFICES ASSUME n + 1 <= N PROVE f[n + 1] = w[n + 1]
    OBVIOUS
  <2>2. n + 1 \in 0 .. N /\ n + 1 # 0 /\ (n + 1) - 1 = n /\ n <= N
    BY <1>4, <2>1
  <2>3. f[n + 1] = Observe(f[n], lines[n + 1])
    BY <1>2, <2>2
  <2>4. w[n + 1] = Observe(w[n], lines[n + 1])
    BY <1>1, <2>2
  <2> QED BY <2>2, <2>3, <2>4
<1>7. T = Nat
  <2> HIDE DEF T
  <2>1. T \in SUBSET Nat BY DEF T
  <2> QED BY <1>5, <1>6, <2>1, Induction
<1>8. f[N] = w[N]
  <2> HIDE DEF N
  <2>1. N \in T
    BY <1>4, <1>7
  <2>2. N <= N
    BY <1>4
  <2> HIDE DEF IsSeen
  <2> QED BY <2>1, <2>2
<1> QED BY <1>3, <1>8

\* Lines with codes that differ take the place of what was shown of those
\* codes, whatever their order.
ViewAfter(view, lines, n) ==
  [avail |-> view.avail \/ n > 0,
   alarms |-> {a \in view.alarms : \A i \in 1 .. n : lines[i].code # a.code}
                \cup {lines[i] : i \in {j \in 1 .. n : lines[j].level # "NORMAL"}}]

LEMMA ObserveCoded ==
  ASSUME NEW view \in View, NEW lines, Len(lines) \in Nat,
         \A i \in 1 .. Len(lines) : lines[i].code # NoCode,
         \A i, j \in 1 .. Len(lines) : lines[i].code = lines[j].code => i = j
  PROVE  ObserveAll(view, lines) = ViewAfter(view, lines, Len(lines))
<1> DEFINE N == Len(lines)
           w == [n \in 0 .. N |-> ViewAfter(view, lines, n)]
<1>1. N \in Nat
  OBVIOUS
<1> HIDE DEF N
<1>2. ViewAfter(view, lines, 0) = view
  <2>1. view = [avail |-> view.avail, alarms |-> view.alarms] /\ view.avail \in BOOLEAN
    BY DEF View
  <2>2. {j \in 1 .. 0 : lines[j].level # "NORMAL"} = {}
    OBVIOUS
  <2>3. {a \in view.alarms : \A i \in 1 .. 0 : lines[i].code # a.code} = view.alarms
    OBVIOUS
  <2>4. (view.avail \/ 0 > 0) = view.avail
    BY <2>1
  <2> QED BY <2>1, <2>2, <2>3, <2>4 DEF ViewAfter
<1>3. ASSUME NEW n \in 1 .. N
      PROVE  Observe(ViewAfter(view, lines, n - 1), lines[n]) = ViewAfter(view, lines, n)
  <2> DEFINE v == ViewAfter(view, lines, n - 1)
  <2>1. ~Unassociated(lines[n].level, lines[n].code)
    BY DEF Unassociated, N
  <2>2. n - 1 \in Nat /\ n \in Nat /\ n > 0 /\ \A i : i \in 1 .. n <=> i = n \/ i \in 1 .. n - 1
    BY <1>1
  <2>3. \A i \in 1 .. n - 1 : lines[i].code # lines[n].code
    <3>1. \A i \in 1 .. n - 1 : i \in 1 .. N /\ i # n
      BY <1>1
    <3> QED BY <3>1 DEF N
  <2>4. v.alarms = {a \in view.alarms : \A i \in 1 .. n - 1 : lines[i].code # a.code}
                     \cup {lines[i] : i \in {j \in 1 .. n - 1 : lines[j].level # "NORMAL"}}
    BY DEF ViewAfter
  <2> HIDE DEF v
  <2>5. {a \in v.alarms : a.code # lines[n].code}
          \cup (IF lines[n].level = "NORMAL" THEN {} ELSE {lines[n]})
        = {a \in view.alarms : \A i \in 1 .. n : lines[i].code # a.code}
            \cup {lines[i] : i \in {j \in 1 .. n : lines[j].level # "NORMAL"}}
    BY <2>2, <2>3, <2>4
  <2>6. (view.avail \/ n > 0) = TRUE
    BY <2>2
  <2> QED BY <2>1, <2>5, <2>6 DEF Observe, ViewAfter, v
<1>4. w = [n \in 0 .. N |-> IF n = 0 THEN view ELSE Observe(w[n - 1], lines[n])]
  <2> SUFFICES ASSUME NEW n \in 0 .. N
               PROVE  ViewAfter(view, lines, n)
                        = IF n = 0 THEN view ELSE Observe(w[n - 1], lines[n])
    OBVIOUS
  <2>1. CASE n = 0 BY <1>2, <2>1
  <2>2. CASE n \in 1 .. N
    <3>1. n # 0 /\ n - 1 \in 0 .. N
      BY <1>1, <2>2
    <3>2. w[n - 1] = ViewAfter(view, lines, n - 1)
      BY <3>1
    <3> HIDE DEF w
    <3> QED BY <1>3, <2>2, <3>1, <3>2
  <2> QED BY <1>1, <2>1, <2>2
<1>5. w[N] = ViewAfter(view, lines, N)
  BY <1>1
<1> HIDE DEF w
<1> QED BY <1>1, <1>4, <1>5, ObserveAllIs DEF N

-----------------------------------------------------------------------------
(* Lists and the lines that are written of them. *)

\* What GoodList says, as it is used.
LEMMA GoodFacts ==
  ASSUME NEW l, GoodList(l)
  PROVE  /\ Len(l) \in Nat /\ Len(l) > 0 /\ DOMAIN l = 1 .. Len(l) /\ 1 \in DOMAIN l
         /\ \A i \in DOMAIN l : l[i] \in EntrySet /\ EntryOK(l[i])
         /\ \A i, j \in DOMAIN l : l[i].code = l[j].code => i = j
         /\ l[1].placeHolder => DOMAIN l = {1} /\ Len(l) = 1
         /\ ~l[1].placeHolder => \A i \in DOMAIN l : ~l[i].placeHolder /\ l[i].code \in Codes
<1>1. /\ Len(l) \in Nat /\ Len(l) > 0 /\ DOMAIN l = 1 .. Len(l) /\ 1 \in DOMAIN l
      /\ \A i \in DOMAIN l : l[i] \in EntrySet
  <2>1. l \in Seq(EntrySet) /\ l # <<>>
    BY DEF GoodList
  <2>2. Len(l) \in Nat \ {0}
    BY <2>1, EmptySeq
  <2> QED BY <2>1, <2>2, LenProperties
<1>2. /\ \A i \in DOMAIN l : EntryOK(l[i])
      /\ \A i, j \in DOMAIN l : i # j => l[i].code # l[j].code /\ ~l[i].placeHolder
  BY DEF GoodList
<1>3. ASSUME l[1].placeHolder PROVE DOMAIN l = {1} /\ Len(l) = 1
  <2>1. \A i \in DOMAIN l : i = 1
    BY <1>1, <1>2, <1>3
  <2>2. DOMAIN l = {1}
    BY <1>1, <2>1
  <2>3. Len(l) \in DOMAIN l
    BY <1>1
  <2> QED BY <2>1, <2>2, <2>3
<1>4. ASSUME ~l[1].placeHolder, NEW i \in DOMAIN l PROVE ~l[i].placeHolder /\ l[i].code \in Codes
  <2>1. ~l[i].placeHolder
    BY <1>1, <1>2, <1>4
  <2> QED BY <1>2, <2>1 DEF EntryOK
<1> QED BY <1>1, <1>2, <1>3, <1>4

\* The lines are those of the entries at S, each once, in some order.
WritesAt(lines, l, S) ==
  /\ Len(lines) \in Nat
  /\ \E h \in [1 .. Len(lines) -> S] :
       /\ \A i \in 1 .. Len(lines) : lines[i] = AlarmOf(l[h[i]])
       /\ \A i, j \in 1 .. Len(lines) : h[i] = h[j] => i = j
       /\ \A k \in S : \E i \in 1 .. Len(lines) : h[i] = k

\* append() without begin() writes every entry.
LEMMA WritesEach ==
  ASSUME NEW l, GoodList(l)
  PROVE  WritesAt(LinesOf(l), l, DOMAIN l)
<1>1. Len(l) \in Nat /\ DOMAIN l = 1 .. Len(l)
  BY GoodFacts
<1>2. LinesOf(l) = [i \in 1 .. Len(l) |-> AlarmOf(l[i])]
  BY <1>1 DEF LinesOf, AlarmOf
<1>3. Len(LinesOf(l)) = Len(l)
  BY <1>1, <1>2
<1> DEFINE h == [i \in 1 .. Len(l) |-> i]
<1>4. /\ h \in [1 .. Len(l) -> DOMAIN l]
      /\ \A i \in 1 .. Len(l) : h[i] = i /\ LinesOf(l)[i] = AlarmOf(l[i])
  BY <1>1, <1>2
<1> HIDE DEF h
<1> QED BY <1>1, <1>3, <1>4 DEF WritesAt

\* append() after prepare() writes what it picks, from the last to the first.
LEMMA WritesPicked ==
  ASSUME NEW l, GoodList(l), NEW S \in SUBSET (DOMAIN l)
  PROVE  WritesAt(LinesOf(Reverse(Picked(l, S))), l, S)
<1> DEFINE p == Picked(l, S)
           r == Reverse(p)
           m == Len(p)
<1>1. l \in Seq(EntrySet) /\ DOMAIN l = 1 .. Len(l)
  BY GoodFacts DEF GoodList
<1>2. p \in Seq(EntrySet)
  BY <1>1, PickedFrom
<1>3. PICK h : TakenAt(p, l, S, h)
  BY <1>1, PickedFrom
<1>4. m \in Nat
  BY <1>2
<1> HIDE DEF p
<1>5. /\ h \in [1 .. m -> S]
      /\ \A i \in 1 .. m : p[i] = l[h[i]]
      /\ \A i, j \in 1 .. m : h[i] = h[j] => i = j
      /\ \A k \in S : \E i \in 1 .. m : h[i] = k
  BY <1>3 DEF TakenAt
<1>6. r = [i \in 1 .. m |-> p[(m - i) + 1]]
  BY DEF Reverse
<1> HIDE DEF r, m
<1>7. Len(r) = m /\ DOMAIN r = 1 .. m
  BY <1>4, <1>6
<1>8. LinesOf(r) = [i \in 1 .. m |-> AlarmOf(r[i])]
  BY <1>7 DEF LinesOf, AlarmOf
<1>9. Len(LinesOf(r)) = m
  BY <1>4, <1>8
<1> DEFINE c == [i \in 1 .. m |-> h[(m - i) + 1]]
<1>10. \A i \in 1 .. m : (m - i) + 1 \in 1 .. m /\ (m - ((m - i) + 1)) + 1 = i
  BY <1>4
<1>11. c \in [1 .. m -> S]
  BY <1>5, <1>10
<1>12. \A i \in 1 .. m : c[i] = h[(m - i) + 1]
  OBVIOUS
<1> HIDE DEF c
<1>13. ASSUME NEW i \in 1 .. m PROVE LinesOf(r)[i] = AlarmOf(l[c[i]])
  <2>1. LinesOf(r)[i] = AlarmOf(p[(m - i) + 1])
    BY <1>6, <1>8
  <2> QED BY <1>5, <1>10, <1>12, <2>1
<1>14. ASSUME NEW i \in 1 .. m, NEW j \in 1 .. m, c[i] = c[j] PROVE i = j
  <2>1. (m - i) + 1 = (m - j) + 1
    BY <1>5, <1>10, <1>12, <1>14
  <2> QED BY <1>4, <2>1
<1>15. ASSUME NEW k \in S PROVE \E i \in 1 .. m : c[i] = k
  <2>1. PICK i \in 1 .. m : h[i] = k
    BY <1>5
  <2> QED BY <1>10, <1>12, <2>1
<1> QED BY <1>4, <1>9, <1>11, <1>13, <1>14, <1>15 DEF WritesAt, r, p

\* Once the lines it lacks have been written, the agent shows the list.
LEMMA LinesBringUpToDate ==
  ASSUME NEW l, GoodList(l), NEW S \in SUBSET (DOMAIN l), NEW view \in View,
         Behind(l, S, view), NEW lines, WritesAt(lines, l, S)
  PROVE  ObserveAll(view, lines) = Says(l)
<1> DEFINE m == Len(lines)
<1>1. PICK h \in [1 .. m -> S] :
             /\ \A i \in 1 .. m : lines[i] = AlarmOf(l[h[i]])
             /\ \A i, j \in 1 .. m : h[i] = h[j] => i = j
             /\ \A k \in S : \E i \in 1 .. m : h[i] = k
  BY DEF WritesAt
<1>2. m \in Nat
  BY DEF WritesAt
<1> HIDE DEF m
<1>3. \A i \in 1 .. m : h[i] \in DOMAIN l
  BY <1>1
<1>4. CASE l[1].placeHolder
  <2>1. DOMAIN l = {1} /\ EntryOK(l[1]) /\ l[1].code = NoCode
    BY <1>4, GoodFacts DEF EntryOK
  <2>2. CASE S = {}
    <3>1. m = 0
      BY <1>1, <1>2, <2>2
    <3>2. ObserveAll(view, lines) = view
      <4> DEFINE w == [n \in 0 .. Len(lines) |-> view]
      <4>1. w = [n \in 0 .. Len(lines) |->
                   IF n = 0 THEN view ELSE Observe(w[n - 1], lines[n])]
        BY <3>1 DEF m
      <4>2. w[Len(lines)] = view
        BY <1>2 DEF m
      <4> HIDE DEF w
      <4> QED BY <1>2, <4>1, <4>2, ObserveAllIs DEF m
    <3> QED BY <1>4, <2>1, <2>2, <3>2 DEF Behind, InView, Says, SaysAt
  <2>3. CASE S = {1}
    <3>1. m = 1 /\ lines[1] = AlarmOf(l[1])
      <4>1. \A i, j \in 1 .. m : i = j
        BY <1>1, <2>3
      <4>2. PICK i \in 1 .. m : h[i] = 1
        BY <1>1, <2>3
      <4>3. m = 1
        BY <1>2, <4>1, <4>2
      <4>4. i = 1
        BY <4>2, <4>3
      <4> QED BY <1>1, <4>2, <4>3, <4>4
    <3>2. ObserveAll(view, lines) = Observe(view, lines[1])
      <4> DEFINE w == [n \in 0 .. Len(lines) |->
                         IF n = 0 THEN view ELSE Observe(view, lines[1])]
      <4>1. Len(lines) = 1
        BY <3>1 DEF m
      <4>2. w = [n \in 0 .. Len(lines) |->
                   IF n = 0 THEN view ELSE Observe(w[n - 1], lines[n])]
        BY <4>1
      <4>3. w[Len(lines)] = Observe(view, lines[1])
        BY <4>1
      <4>4. Len(lines) \in Nat
        BY <1>2 DEF m
      <4> HIDE DEF w
      <4>5. ObserveAll(view, lines) = w[Len(lines)]
        BY <4>2, <4>4, ObserveAllIs
      <4> QED BY <4>3, <4>5
    <3>3. l[1].level \in {"NORMAL", "UNAVAILABLE"}
      BY <1>4, <2>1 DEF EntryOK
    <3> QED BY <1>4, <2>1, <3>1, <3>2, <3>3
            DEF Observe, Unassociated, AlarmOf, Alarm, Says, SaysAt
  <2> QED BY <2>1, <2>2, <2>3
<1>5. CASE ~l[1].placeHolder
  <2>1. \A i \in DOMAIN l : l[i].code \in Codes /\ ~l[i].placeHolder /\ EntryOK(l[i])
    BY <1>5, GoodFacts
  <2>2. \A i \in DOMAIN l : l[i].level \in Bad \/ l[i].level = "NORMAL"
    BY <2>1 DEF EntryOK
  <2>3. ASSUME NEW i \in 1 .. m
        PROVE  lines[i].code = l[h[i]].code /\ lines[i].level = l[h[i]].level
    <3>1. lines[i] = AlarmOf(l[h[i]])
      BY <1>1
    <3> QED BY <3>1 DEF AlarmOf, Alarm
  <2>4. \A i \in 1 .. m : lines[i].code # NoCode
    BY <1>3, <2>1, <2>3, ConditionAssumption
  <2>5. ASSUME NEW i \in 1 .. m, NEW j \in 1 .. m, lines[i].code = lines[j].code PROVE i = j
    <3>1. h[i] = h[j]
      BY <1>3, <2>3, <2>5, GoodFacts
    <3> QED BY <1>1, <3>1
  <2>6. ObserveAll(view, lines) = ViewAfter(view, lines, m)
    BY <1>2, <2>4, <2>5, ObserveCoded DEF m
  <2>7. (view.avail \/ m > 0) = TRUE
    <3>1. CASE 1 \in S BY <1>1, <1>2, <3>1
    <3>2. CASE 1 \notin S
      <4>1. InView(l[1], view)
        BY <3>2, GoodFacts DEF Behind
      <4>2. view.avail = TRUE
        BY <1>5, <4>1 DEF InView, View
      <4> QED BY <4>2
    <3> QED BY <3>1, <3>2
  <2> DEFINE Old == {a \in view.alarms : \A i \in 1 .. m : lines[i].code # a.code}
             New == {lines[i] : i \in {j \in 1 .. m : lines[j].level # "NORMAL"}}
  <2>8. ASSUME NEW a \in Old PROVE a \in AlarmsAt(l, DOMAIN l)
    <3>1. PICK i \in DOMAIN l : l[i].code = a.code
      BY <1>5 DEF Behind
    <3>2. i \notin S
      BY <1>1, <2>3, <3>1
    <3>3. a = AlarmOf(l[i]) /\ l[i].level \in Bad
      BY <2>1, <3>1, <3>2 DEF Behind, InView
    <3> QED BY <3>3 DEF AlarmsAt
  <2>9. ASSUME NEW a \in New PROVE a \in AlarmsAt(l, DOMAIN l)
    <3>1. PICK i \in 1 .. m : a = lines[i] /\ lines[i].level # "NORMAL"
      OBVIOUS
    <3>2. l[h[i]].level \in Bad /\ a = AlarmOf(l[h[i]]) /\ h[i] \in DOMAIN l
      BY <1>1, <1>3, <2>2, <2>3, <3>1
    <3> QED BY <3>2 DEF AlarmsAt
  <2>10. ASSUME NEW a \in AlarmsAt(l, DOMAIN l) PROVE a \in Old \cup New
    <3>1. PICK k \in DOMAIN l : a = AlarmOf(l[k]) /\ l[k].level \in Bad
      BY DEF AlarmsAt
    <3>2. CASE k \in S
      <4>1. PICK i \in 1 .. m : h[i] = k
        BY <1>1, <3>2
      <4>2. a = lines[i] /\ lines[i].level # "NORMAL"
        BY <1>1, <2>3, <3>1, <4>1 DEF Bad
      <4> QED BY <4>2
    <3>3. CASE k \notin S
      <4>1. PICK b \in view.alarms : b.code = l[k].code /\ b = AlarmOf(l[k])
        BY <2>1, <3>1, <3>3 DEF Behind, InView
      <4>2. ASSUME NEW i \in 1 .. m PROVE lines[i].code # a.code
        <5>1. h[i] \in S /\ h[i] # k
          BY <1>1, <3>3
        <5>2. l[h[i]].code # l[k].code
          BY <1>3, <5>1, GoodFacts
        <5> QED BY <2>3, <3>1, <4>1, <5>2
      <4> QED BY <3>1, <4>1, <4>2
    <3> QED BY <3>2, <3>3
  <2>11. Old \cup New = AlarmsAt(l, DOMAIN l)
    BY <2>8, <2>9, <2>10
  <2>12. ViewAfter(view, lines, m) = [avail |-> TRUE, alarms |-> Old \cup New]
    BY <2>7 DEF ViewAfter
  <2> QED BY <1>5, <2>6, <2>11, <2>12 DEF Says, SaysAt
<1> QED BY <1>4, <1>5

-----------------------------------------------------------------------------
(* Sequences and views. *)

LEMMA IsSequence ==
  ASSUME NEW E, NEW n \in Nat, NEW f \in [1 .. n -> E]
  PROVE  f \in Seq(E) /\ Len(f) = n /\ DOMAIN f = 1 .. n
OBVIOUS

\* The converse of GoodFacts: what makes a list good.
LEMMA MakesGood ==
  ASSUME NEW n \in Nat \ {0}, NEW l \in [1 .. n -> EntrySet],
         \A i \in 1 .. n : EntryOK(l[i]),
         \A i, j \in 1 .. n : i # j => l[i].code # l[j].code /\ ~l[i].placeHolder,
         n = 1 => l[1].placeHolder \/ l[1].level \in Bad
  PROVE  GoodList(l)
<1>1. l \in Seq(EntrySet) /\ Len(l) = n /\ DOMAIN l = 1 .. n
  BY IsSequence
<1>2. l # <<>>
  BY <1>1
<1> QED BY <1>1, <1>2 DEF GoodList

\* Entries that change neither code nor kind leave the list good.
LEMMA StaysGood ==
  ASSUME NEW l, GoodList(l), NEW r \in [DOMAIN l -> EntrySet],
         \A i \in DOMAIN l : /\ EntryOK(r[i])
                             /\ r[i].code = l[i].code
                             /\ r[i].placeHolder = l[i].placeHolder,
         Len(l) = 1 => r[1].placeHolder \/ r[1].level \in Bad
  PROVE  GoodList(r) /\ DOMAIN r = DOMAIN l
<1>1. Len(l) \in Nat \ {0} /\ DOMAIN l = 1 .. Len(l)
  BY GoodFacts
<1>2. \A i, j \in DOMAIN l : i # j => l[i].code # l[j].code /\ ~l[i].placeHolder
  BY DEF GoodList
<1> DEFINE n == Len(l)
<1>3. n \in Nat \ {0} /\ DOMAIN l = 1 .. n
  BY <1>1
<1> HIDE DEF n
<1>4. r \in [1 .. n -> EntrySet] /\ \A i \in 1 .. n : EntryOK(r[i])
  BY <1>3
<1>5. \A i, j \in 1 .. n : i # j => r[i].code # r[j].code /\ ~r[i].placeHolder
  BY <1>2, <1>3
<1>6. n = 1 => r[1].placeHolder \/ r[1].level \in Bad
  BY DEF n
<1>7. GoodList(r)
  BY <1>3, <1>4, <1>5, <1>6, MakesGood
<1> QED BY <1>7

LEMMA SaysView ==
  ASSUME NEW l, GoodList(l), NEW S \in SUBSET (DOMAIN l)
  PROVE  SaysAt(l, S) \in View /\ Says(l) \in View
<1>1. ASSUME NEW U \in SUBSET (DOMAIN l) PROVE SaysAt(l, U) \in View
  <2>1. CASE l[1].placeHolder
    BY <2>1 DEF SaysAt, View
  <2>2. CASE ~l[1].placeHolder
    <3>1. ASSUME NEW i \in U, l[i].level \in Bad PROVE AlarmOf(l[i]) \in AlarmSet
      <4>1. EntryOK(l[i]) /\ ~l[i].placeHolder
        BY <2>2, GoodFacts
      <4>2. l[i].code \in Codes /\ l[i].detail \in Details
        BY <3>1, <4>1 DEF EntryOK, Bad
      <4> QED BY <3>1, <4>2 DEF AlarmOf, Alarm, AlarmSet, Bad
    <3>2. AlarmsAt(l, U) \in SUBSET AlarmSet
      BY <3>1 DEF AlarmsAt
    <3> QED BY <2>2, <3>2 DEF SaysAt, View
  <2> QED BY <2>1, <2>2
<1> QED BY <1>1 DEF Says

LEMMA ViewsAreViews ==
  /\ Unknown \in View /\ AllNormal \in View
  /\ \A view \in View, a \in AlarmSet : Observe(view, a) \in View
  /\ \A view \in View, level \in {"NORMAL", "UNAVAILABLE"} :
       Observe(view, Alarm(level, NoDetail, NoCode)) = [avail |-> level = "NORMAL", alarms |-> {}]
  /\ \A view \in View, level \in {"NORMAL", "UNAVAILABLE"} :
       Observe(view, Alarm(level, NoDetail, NoCode)) \in View
<1>1. Unknown \in View /\ AllNormal \in View
  BY DEF Unknown, AllNormal, View
<1>2. ASSUME NEW view \in View, NEW a \in AlarmSet PROVE Observe(view, a) \in View
  <2>1. view.alarms \in SUBSET AlarmSet
    BY DEF View
  <2>2. ~Unassociated(a.level, a.code) /\ a.level # "NORMAL"
    BY DEF AlarmSet, Unassociated
  <2>3. Observe(view, a) = [avail |-> TRUE, alarms |-> {x \in view.alarms : x.code # a.code} \cup {a}]
    BY <2>2 DEF Observe
  <2>4. {x \in view.alarms : x.code # a.code} \cup {a} \in SUBSET AlarmSet
    BY <2>1
  <2> QED BY <2>3, <2>4 DEF View
<1>3. ASSUME NEW view \in View, NEW level \in {"NORMAL", "UNAVAILABLE"}
      PROVE  Observe(view, Alarm(level, NoDetail, NoCode))
               = [avail |-> level = "NORMAL", alarms |-> {}]
  BY DEF Observe, Alarm, Unassociated
<1>4. ASSUME NEW view \in View, NEW level \in {"NORMAL", "UNAVAILABLE"}
      PROVE  Observe(view, Alarm(level, NoDetail, NoCode)) \in View
  <2>1. CASE level = "NORMAL"
    <3>1. Observe(view, Alarm(level, NoDetail, NoCode)) = AllNormal
      BY <1>3, <2>1 DEF AllNormal
    <3> QED BY <1>1, <3>1
  <2>2. CASE level = "UNAVAILABLE"
    <3>1. Observe(view, Alarm(level, NoDetail, NoCode)) = Unknown
      BY <1>3, <2>2 DEF Unknown
    <3> QED BY <1>1, <3>1
  <2> QED BY <2>1, <2>2
<1> QED BY <1>1, <1>2, <1>3, <1>4

\* Flags apart, equal entries say the same.
LEMMA SameSays ==
  ASSUME NEW l, NEW r, DOMAIN r = DOMAIN l, 1 \in DOMAIN l,
         \A i \in DOMAIN l : /\ r[i].level = l[i].level /\ r[i].detail = l[i].detail
                             /\ r[i].code = l[i].code /\ r[i].placeHolder = l[i].placeHolder
  PROVE  Says(r) = Says(l)
<1>1. \A i \in DOMAIN l : AlarmOf(r[i]) = AlarmOf(l[i])
  BY DEF AlarmOf, Alarm
<1>2. AlarmsAt(r, DOMAIN r) = AlarmsAt(l, DOMAIN l)
  BY <1>1 DEF AlarmsAt
<1> QED BY <1>2 DEF Says, SaysAt

\* What an agent lacks.
LEMMA BehindMore ==
  ASSUME NEW l, NEW S, NEW U \in SUBSET (DOMAIN l), S \subseteq U, NEW view,
         Behind(l, S, view)
  PROVE  Behind(l, U, view)
BY DEF Behind

LEMMA SaysBehind ==
  ASSUME NEW l, GoodList(l), NEW S
  PROVE  Behind(l, S, Says(l))
<1>1. CASE l[1].placeHolder
  <2>1. DOMAIN l = {1}
    BY <1>1, GoodFacts
  <2> QED BY <1>1, <2>1 DEF Behind, InView, Says, SaysAt
<1>2. CASE ~l[1].placeHolder
  <2>1. Says(l) = [avail |-> TRUE, alarms |-> AlarmsAt(l, DOMAIN l)]
    BY <1>2 DEF Says, SaysAt
  <2>2. ASSUME NEW a \in AlarmsAt(l, DOMAIN l)
        PROVE  \E i \in DOMAIN l : a = AlarmOf(l[i]) /\ l[i].level \in Bad /\ a.code = l[i].code
    <3>1. PICK i \in DOMAIN l : a = AlarmOf(l[i]) /\ l[i].level \in Bad
      BY DEF AlarmsAt
    <3> QED BY <3>1 DEF AlarmOf, Alarm
  <2>3. ASSUME NEW i \in DOMAIN l PROVE InView(l[i], Says(l))
    <3>1. ~l[i].placeHolder
      BY <1>2, GoodFacts
    <3>2. ASSUME NEW a \in AlarmsAt(l, DOMAIN l), a.code = l[i].code
          PROVE  a = AlarmOf(l[i]) /\ l[i].level \in Bad
      <4>1. PICK j \in DOMAIN l : a = AlarmOf(l[j]) /\ l[j].level \in Bad /\ a.code = l[j].code
        BY <2>2
      <4>2. i = j
        BY <3>2, <4>1, GoodFacts
      <4> QED BY <4>1, <4>2
    <3>3. ASSUME l[i].level \in Bad PROVE \E a \in AlarmsAt(l, DOMAIN l) : a.code = l[i].code
      <4>1. AlarmOf(l[i]) \in AlarmsAt(l, DOMAIN l)
        BY <3>3 DEF AlarmsAt
      <4> QED BY <4>1 DEF AlarmOf, Alarm
    <3> QED BY <2>1, <3>1, <3>2, <3>3 DEF InView
  <2>4. Says(l).alarms = AlarmsAt(l, DOMAIN l)
    BY <2>1
  <2>5. \A a \in Says(l).alarms : \E i \in DOMAIN l : l[i].code = a.code
    BY <2>2, <2>4
  <2> QED BY <2>3, <2>5 DEF Behind
<1> QED BY <1>1, <1>2

\* No line is missing: the agent shows the list.
LEMMA NothingMissing ==
  ASSUME NEW l, GoodList(l), NEW view \in View
  PROVE  /\ ObserveAll(view, <<>>) = view
         /\ Behind(l, {}, view) => view = Says(l)
<1>1. ObserveAll(view, <<>>) = view
  <2> DEFINE w == [n \in 0 .. Len(<<>>) |-> view]
  <2>1. w = [n \in 0 .. Len(<<>>) |-> IF n = 0 THEN view ELSE Observe(w[n - 1], <<>>[n])]
    OBVIOUS
  <2>2. w[Len(<<>>)] = view /\ Len(<<>>) \in Nat
    OBVIOUS
  <2> HIDE DEF w
  <2>3. ObserveAll(view, <<>>) = w[Len(<<>>)]
    BY <2>1, <2>2, ObserveAllIs
  <2> QED BY <2>2, <2>3
<1>2. ASSUME Behind(l, {}, view) PROVE view = Says(l)
  <2>1. WritesAt(<<>>, l, {})
    <3>1. <<>> \in [1 .. Len(<<>>) -> {}] /\ Len(<<>>) = 0
      OBVIOUS
    <3> QED BY <3>1 DEF WritesAt
  <2>2. ObserveAll(view, <<>>) = Says(l)
    BY <1>2, <2>1, LinesBringUpToDate
  <2> QED BY <1>1, <2>2
<1> QED BY <1>1, <1>2

-----------------------------------------------------------------------------
(* The operations on the list. *)

\* An entry for the lone NORMAL or UNAVAILABLE.
LEMMA Single ==
  ASSUME NEW e \in EntrySet, e.placeHolder, EntryOK(e)
  PROVE  /\ GoodList(<<e>>) /\ DOMAIN <<e>> = {1} /\ <<e>>[1] = e
         /\ \A S : SaysAt(<<e>>, S) = [avail |-> e.level = "NORMAL", alarms |-> {}]
         /\ Says(<<e>>) = [avail |-> e.level = "NORMAL", alarms |-> {}]
<1>1. <<e>> \in [1 .. 1 -> EntrySet] /\ <<e>>[1] = e /\ DOMAIN <<e>> = 1 .. 1
  OBVIOUS
<1>2. \A i \in 1 .. 1 : i = 1
  OBVIOUS
<1>3. GoodList(<<e>>)
  <2> DEFINE l == <<e>>
             n == 1
  <2>1. n \in Nat \ {0} /\ l \in [1 .. n -> EntrySet] /\ \A i \in 1 .. n : EntryOK(l[i])
    BY <1>1, <1>2
  <2>2. \A i, j \in 1 .. n : i # j => l[i].code # l[j].code /\ ~l[i].placeHolder
    BY <1>2
  <2>3. l[1].placeHolder
    OBVIOUS
  <2> HIDE DEF l, n
  <2>4. GoodList(l)
    BY <2>1, <2>2, <2>3, MakesGood
  <2> QED BY <2>4 DEF l
<1> QED BY <1>1, <1>2, <1>3 DEF SaysAt, Says

LEMMA NewPlaceHolder ==
  ASSUME NEW level \in {"NORMAL", "UNAVAILABLE"}
  PROVE  LET e == Entry(level, NoDetail, NoCode)
         IN  /\ e \in EntrySet /\ EntryOK(e)
             /\ e.placeHolder /\ e.changed /\ e.marked /\ e.level = level /\ e.code = NoCode
<1>1. Unassociated(level, NoCode) = TRUE
  BY DEF Unassociated
<1> QED BY <1>1 DEF Entry, EntrySet, EntryOK, Levels

\* Only the placeholder has no code.
LEMMA AlreadyInIs ==
  ASSUME NEW l, GoodList(l), NEW level \in {"NORMAL", "UNAVAILABLE"}, AlreadyIn(l, level)
  PROVE  l[1].placeHolder /\ l[1].level = level
<1>1. EntryOK(l[1])
  BY GoodFacts
<1> QED BY <1>1, ConditionAssumption DEF AlreadyIn, EntryOK

\* normal() and unavailable() leave a marked placeholder, and what they did
\* not have to write the agent shows already.
LEMMA ClearToIs ==
  ASSUME NEW l, GoodList(l), NEW level \in {"NORMAL", "UNAVAILABLE"}
  PROVE  LET r == ClearTo(l, level)
         IN  /\ GoodList(r)
             /\ DOMAIN r = {1} /\ r[1].placeHolder /\ r[1].marked
             /\ r[1].level = level /\ r[1].code = NoCode
             /\ \A S : SaysAt(r, S) = [avail |-> level = "NORMAL", alarms |-> {}]
             /\ Says(r) = [avail |-> level = "NORMAL", alarms |-> {}]
             /\ ~AlreadyIn(l, level) => r[1].changed
             /\ \A view : Behind(l, ChangedAt(l), view) => Behind(r, ChangedAt(r), view)
<1> DEFINE r == ClearTo(l, level)
<1>1. CASE AlreadyIn(l, level)
  <2> DEFINE e == [l[1] EXCEPT !.marked = TRUE]
  <2>1. l[1].placeHolder /\ l[1].level = level /\ l[1] \in EntrySet /\ EntryOK(l[1])
    BY <1>1, AlreadyInIs, GoodFacts
  <2>2. /\ e \in EntrySet /\ EntryOK(e) /\ e.placeHolder /\ e.marked
        /\ e.level = level /\ e.code = l[1].code /\ e.changed = l[1].changed
        /\ e.code = NoCode
    BY <2>1 DEF EntrySet, EntryOK
  <2>3. r = <<e>>
    BY <1>1 DEF ClearTo
  <2> HIDE DEF e, r
  <2>4. /\ GoodList(r) /\ DOMAIN r = {1} /\ r[1] = e
        /\ \A S : SaysAt(r, S) = [avail |-> level = "NORMAL", alarms |-> {}]
        /\ Says(r) = [avail |-> level = "NORMAL", alarms |-> {}]
    BY <2>2, <2>3, Single
  <2>5. DOMAIN l = {1} /\ 1 \in DOMAIN l
    BY <2>1, GoodFacts
  <2>6. ChangedAt(r) = ChangedAt(l)
    BY <2>2, <2>4, <2>5 DEF ChangedAt
  <2>7. ASSUME NEW view, Behind(l, ChangedAt(l), view) PROVE Behind(r, ChangedAt(r), view)
    BY <2>1, <2>2, <2>4, <2>5, <2>6, <2>7 DEF Behind, InView
  <2> QED BY <1>1, <2>2, <2>4, <2>7 DEF r
<1>2. CASE ~AlreadyIn(l, level)
  <2> DEFINE e == Entry(level, NoDetail, NoCode)
  <2>1. /\ e \in EntrySet /\ EntryOK(e)
        /\ e.placeHolder /\ e.changed /\ e.marked /\ e.level = level /\ e.code = NoCode
    BY NewPlaceHolder
  <2>2. r = <<e>>
    BY <1>2 DEF ClearTo
  <2> HIDE DEF e, r
  <2>3. /\ GoodList(r) /\ DOMAIN r = {1} /\ r[1] = e
        /\ \A S : SaysAt(r, S) = [avail |-> level = "NORMAL", alarms |-> {}]
        /\ Says(r) = [avail |-> level = "NORMAL", alarms |-> {}]
    BY <2>1, <2>2, Single
  <2>4. ChangedAt(r) = {1}
    BY <2>1, <2>3 DEF ChangedAt
  <2>5. \A view : Behind(r, ChangedAt(r), view)
    BY <2>1, <2>3, <2>4 DEF Behind
  <2> QED BY <2>1, <2>3, <2>5 DEF r
<1> QED BY <1>1, <1>2

\* begin() takes the marks away and nothing else.
LEMMA ClearMarksIs ==
  ASSUME NEW l, GoodList(l)
  PROVE  LET r == ClearMarks(l)
         IN  /\ GoodList(r) /\ DOMAIN r = DOMAIN l
             /\ Says(r) = Says(l)
             /\ ChangedAt(r) = ChangedAt(l)
             /\ MarkedAt(r) = {}
             /\ r[1].placeHolder = l[1].placeHolder
<1> DEFINE r == ClearMarks(l)
<1>1. r = [i \in DOMAIN l |-> [l[i] EXCEPT !.marked = FALSE]]
  BY DEF ClearMarks
<1>2. 1 \in DOMAIN l /\ \A i \in DOMAIN l : l[i] \in EntrySet /\ EntryOK(l[i])
  BY GoodFacts
<1> HIDE DEF r
<1>3. ASSUME NEW i \in DOMAIN l
      PROVE  /\ r[i] \in EntrySet /\ EntryOK(r[i])
             /\ r[i].level = l[i].level /\ r[i].detail = l[i].detail /\ r[i].code = l[i].code
             /\ r[i].placeHolder = l[i].placeHolder
             /\ r[i].changed = l[i].changed /\ ~r[i].marked
  <2>1. r[i] = [l[i] EXCEPT !.marked = FALSE] /\ l[i] \in EntrySet /\ EntryOK(l[i])
    BY <1>1, <1>2
  <2> QED BY <2>1 DEF EntrySet, EntryOK
<1>4. r \in [DOMAIN l -> EntrySet]
  <2>1. DOMAIN r = DOMAIN l /\ r = [i \in DOMAIN l |-> r[i]]
    BY <1>1
  <2> QED BY <1>3, <2>1
<1>5. Len(l) = 1 => r[1].placeHolder \/ r[1].level \in Bad
  BY <1>2, <1>3 DEF GoodList
<1>6. GoodList(r) /\ DOMAIN r = DOMAIN l
  BY <1>3, <1>4, <1>5, StaysGood
<1>7. Says(r) = Says(l)
  BY <1>2, <1>3, <1>6, SameSays
<1>8. ChangedAt(r) = ChangedAt(l) /\ MarkedAt(r) = {}
  BY <1>3, <1>6 DEF ChangedAt, MarkedAt
<1> QED BY <1>2, <1>3, <1>6, <1>7, <1>8 DEF r

\* append() resets mChanged of what it leaves behind.
LEMMA SaidIs ==
  ASSUME NEW l, GoodList(l)
  PROVE  LET r == Said(l)
         IN  /\ GoodList(r) /\ DOMAIN r = DOMAIN l
             /\ Says(r) = Says(l)
             /\ AllSaid(r)
             /\ \A i \in DOMAIN l : /\ Kept(r[i]) <=> Kept(l[i])
                                    /\ r[i].level = l[i].level
             /\ r[1].placeHolder = l[1].placeHolder
             /\ MarkedAt(r) = MarkedAt(l)
<1> DEFINE r == Said(l)
<1>1. r = [i \in DOMAIN l |-> [l[i] EXCEPT !.changed = FALSE]]
  BY DEF Said
<1>2. 1 \in DOMAIN l /\ \A i \in DOMAIN l : l[i] \in EntrySet /\ EntryOK(l[i])
  BY GoodFacts
<1> HIDE DEF r
<1>3. ASSUME NEW i \in DOMAIN l
      PROVE  /\ r[i] \in EntrySet /\ EntryOK(r[i])
             /\ r[i].level = l[i].level /\ r[i].detail = l[i].detail /\ r[i].code = l[i].code
             /\ r[i].placeHolder = l[i].placeHolder
             /\ r[i].marked = l[i].marked /\ ~r[i].changed
  <2>1. r[i] = [l[i] EXCEPT !.changed = FALSE] /\ l[i] \in EntrySet /\ EntryOK(l[i])
    BY <1>1, <1>2
  <2> QED BY <2>1 DEF EntrySet, EntryOK
<1>4. r \in [DOMAIN l -> EntrySet]
  <2>1. DOMAIN r = DOMAIN l /\ r = [i \in DOMAIN l |-> r[i]]
    BY <1>1
  <2> QED BY <1>3, <2>1
<1>5. Len(l) = 1 => r[1].placeHolder \/ r[1].level \in Bad
  BY <1>2, <1>3 DEF GoodList
<1>6. GoodList(r) /\ DOMAIN r = DOMAIN l
  BY <1>3, <1>4, <1>5, StaysGood
<1>7. Says(r) = Says(l)
  BY <1>2, <1>3, <1>6, SameSays
<1>8. AllSaid(r) /\ MarkedAt(r) = MarkedAt(l)
  BY <1>3, <1>6 DEF AllSaid, ChangedAt, MarkedAt
<1>9. \A i \in DOMAIN l : (Kept(r[i]) <=> Kept(l[i])) /\ r[i].level = l[i].level
  BY <1>3 DEF Kept
<1> QED BY <1>2, <1>3, <1>6, <1>7, <1>8, <1>9 DEF r

-----------------------------------------------------------------------------
(* add() and remove(). *)

\* indexOf(): the only entry with the code, 0 if there is none.
LEMMA PositionIs ==
  ASSUME NEW l, GoodList(l), NEW code
  PROVE  \/ PositionOf(l, code) = 0 /\ \A i \in DOMAIN l : l[i].code # code
         \/ PositionOf(l, code) \in DOMAIN l /\ l[PositionOf(l, code)].code = code
<1> DEFINE I == {i \in 1 .. Len(l) : l[i].code = code}
<1>1. PositionOf(l, code) = IF I # {} THEN Min(I) ELSE 0
  BY DEF PositionOf, SelectInSeq
<1>2. Len(l) \in Nat /\ DOMAIN l = 1 .. Len(l) /\ \A i, j \in DOMAIN l : l[i].code = l[j].code => i = j
  BY GoodFacts
<1>3. CASE I = {}
  BY <1>1, <1>2, <1>3
<1>4. CASE I # {}
  <2>1. PICK k \in DOMAIN l : l[k].code = code
    BY <1>2, <1>4
  <2>2. I = {k}
    BY <1>2, <2>1
  <2>3. k \in Int
    BY <1>2, <2>1
  <2>4. Min({k}) = k
    BY <2>3 DEF Min
  <2> QED BY <1>1, <2>1, <2>2, <2>4
<1> QED BY <1>3, <1>4

\* r is l with an alarm reported: at the place n, new or of the same code.
AddsAt(l, r, level, detail, code, n) ==
  /\ DOMAIN r = DOMAIN l \cup {n}
  /\ \A i \in DOMAIN l \ {n} : r[i] = l[i]
  /\ ~r[n].placeHolder /\ r[n].marked
  /\ r[n].level = level /\ r[n].detail = detail /\ r[n].code = code
  /\ \/ l[1].placeHolder /\ n = 1 /\ r[n].changed
     \/ ~l[1].placeHolder /\ n \notin DOMAIN l /\ r[n].changed
          /\ \A i \in DOMAIN l : l[i].code # code
     \/ /\ ~l[1].placeHolder /\ n \in DOMAIN l /\ l[n].code = code
        /\ ~r[n].changed => ~l[n].changed /\ l[n].level = level /\ l[n].detail = detail

LEMMA AddToIs ==
  ASSUME NEW l, GoodList(l),
         NEW level \in Bad, NEW detail \in Details, NEW code \in Codes
  PROVE  LET r == AddTo(l, level, detail, code)
         IN  /\ GoodList(r) /\ ~r[1].placeHolder
             /\ \E n : /\ AddsAt(l, r, level, detail, code, n)
                       /\ AddChanged(l, level, detail, code) = r[n].changed
<1> DEFINE r == AddTo(l, level, detail, code)
           new == Entry(level, detail, code)
<1>1. /\ new \in EntrySet /\ EntryOK(new)
      /\ ~new.placeHolder /\ new.marked /\ new.changed
      /\ new.level = level /\ new.detail = detail /\ new.code = code
  <2>1. Unassociated(level, code) = FALSE
    BY DEF Unassociated, Bad
  <2> QED BY <2>1 DEF Entry, EntrySet, EntryOK, Levels, Bad
<1>2. /\ Len(l) \in Nat \ {0} /\ DOMAIN l = 1 .. Len(l) /\ l \in Seq(EntrySet)
      /\ \A i \in DOMAIN l : l[i] \in EntrySet /\ EntryOK(l[i])
      /\ 1 \in DOMAIN l
  BY GoodFacts DEF GoodList
<1> HIDE DEF new
<1>3. CASE l[1].placeHolder
  <2>1. DOMAIN l = {1} /\ Len(l) = 1 /\ l[1].level \in {"NORMAL", "UNAVAILABLE"}
    BY <1>2, <1>3, GoodFacts DEF EntryOK
  <2>2. BaseOf(l) = <<>>
    BY <2>1 DEF BaseOf
  <2>3. PositionOf(<<>>, code) = 0
    BY DEF PositionOf, SelectInSeq
  <2>4. r = <<new>> /\ AddChanged(l, level, detail, code) = TRUE
    BY <2>2, <2>3 DEF AddTo, AddChanged, new
  <2> HIDE DEF r
  <2>5. r \in [1 .. 1 -> EntrySet] /\ r[1] = new /\ DOMAIN r = {1}
    BY <1>1, <2>4
  <2>6. GoodList(r)
    <3> DEFINE n == 1
    <3>1. n \in Nat \ {0} /\ r \in [1 .. n -> EntrySet] /\ \A i \in 1 .. n : EntryOK(r[i])
      BY <1>1, <2>5
    <3>2. \A i, j \in 1 .. n : i # j => r[i].code # r[j].code /\ ~r[i].placeHolder
      OBVIOUS
    <3>3. r[1].level \in Bad
      BY <1>1, <2>5
    <3> HIDE DEF n
    <3> QED BY <3>1, <3>2, <3>3, MakesGood
  <2>7. AddsAt(l, r, level, detail, code, 1)
    BY <1>1, <1>3, <2>1, <2>5 DEF AddsAt
  <2>8. AddChanged(l, level, detail, code) = r[1].changed
    <3>1. new.changed = TRUE
      BY DEF new, Entry
    <3> QED BY <2>4, <2>5, <3>1
  <2> QED BY <1>1, <2>5, <2>6, <2>7, <2>8 DEF r
<1>4. CASE ~l[1].placeHolder
  <2>1. \A i \in DOMAIN l : ~l[i].placeHolder /\ l[i].code \in Codes
    BY <1>4, GoodFacts
  <2>2. BaseOf(l) = l
    <3>1. Len(l) = 1 => l[1].level \in Bad
      BY <1>4 DEF GoodList
    <3> QED BY <3>1 DEF BaseOf, Bad
  <2> DEFINE k == PositionOf(l, code)
  <2>3. CASE k = 0 /\ \A i \in DOMAIN l : l[i].code # code
    <3> DEFINE n == Len(l) + 1
    <3>1. r = Append(l, new) /\ AddChanged(l, level, detail, code) = TRUE
      BY <2>2, <2>3 DEF AddTo, AddChanged, new
    <3> HIDE DEF r, k
    <3>2. /\ r \in [1 .. n -> EntrySet] /\ r[n] = new
          /\ \A i \in DOMAIN l : r[i] = l[i]
      <4>1. r \in Seq(EntrySet) /\ Len(r) = n
        BY <1>1, <1>2, <3>1, AppendProperties
      <4>2. r[n] = new /\ \A i \in DOMAIN l : r[i] = l[i]
        BY <1>1, <1>2, <3>1, AppendProperties
      <4> QED BY <4>1, <4>2
    <3>3. n \in Nat \ {0} /\ n # 1 /\ 1 .. n = DOMAIN l \cup {n} /\ n \notin DOMAIN l
      BY <1>2
    <3> HIDE DEF n
    <3>4. \A i \in 1 .. n : EntryOK(r[i]) /\ ~r[i].placeHolder
      BY <1>1, <1>2, <2>1, <3>2, <3>3
    <3>5. \A i, j \in 1 .. n : i # j => r[i].code # r[j].code
      <4>1. \A i, j \in DOMAIN l : i # j => l[i].code # l[j].code
        BY GoodFacts
      <4> QED BY <1>1, <2>3, <3>2, <3>3, <4>1
    <3>6. GoodList(r)
      BY <3>2, <3>3, <3>4, <3>5, MakesGood
    <3>7. AddsAt(l, r, level, detail, code, n)
      BY <1>1, <1>4, <2>3, <3>2, <3>3 DEF AddsAt
    <3>8. AddChanged(l, level, detail, code) = r[n].changed
      <4>1. new.changed = TRUE
        BY DEF new, Entry
      <4> QED BY <3>1, <3>2, <4>1
    <3>9. ~r[1].placeHolder
      BY <1>2, <3>3, <3>4
    <3> QED BY <3>6, <3>7, <3>8, <3>9 DEF r
  <2>4. CASE k \in DOMAIN l /\ l[k].code = code
    <3> DEFINE set == SetValue(l[k], level, detail, code)
               e == [set EXCEPT !.marked = TRUE]
    <3>1. k > 0
      BY <1>2, <2>4
    <3>2. r = [l EXCEPT ![k] = e] /\ AddChanged(l, level, detail, code) = set.changed
      <4>1. r = [l EXCEPT ![k] = e]
        BY <2>2, <3>1 DEF AddTo
      <4>2. AddChanged(l, level, detail, code) <=> set.changed
        BY <2>2, <3>1 DEF AddChanged
      <4>3. set.changed \in BOOLEAN /\ AddChanged(l, level, detail, code) \in BOOLEAN
        BY <2>2 DEF SetValue, AddChanged
      <4> QED BY <4>1, <4>2, <4>3
    <3>3. /\ e \in EntrySet /\ EntryOK(e)
          /\ ~e.placeHolder /\ e.marked
          /\ e.level = level /\ e.detail = detail /\ e.code = code
          /\ e.changed = set.changed
          /\ ~e.changed => ~l[k].changed /\ l[k].level = level /\ l[k].detail = detail
      <4>1. Unassociated(level, code) = FALSE
        BY DEF Unassociated, Bad
      <4>2. l[k] \in EntrySet /\ ~l[k].placeHolder
        BY <1>2, <2>1, <2>4
      <4> HIDE DEF k
      <4>3. set = [level |-> level, detail |-> detail, code |-> code,
                   changed |-> \/ l[k].changed
                               \/ <<l[k].level, l[k].detail, l[k].code>> # <<level, detail, code>>,
                   marked |-> l[k].marked, placeHolder |-> FALSE]
        BY <4>1, <4>2 DEF SetValue
      <4> HIDE DEF set
      <4>4. set \in EntrySet
        BY <4>2, <4>3 DEF EntrySet, Levels, Bad
      <4>5. e.changed = set.changed /\ e.placeHolder = FALSE /\ e.marked = TRUE
            /\ e.level = level /\ e.detail = detail /\ e.code = code
        BY <4>3, <4>4 DEF EntrySet
      <4>6. e \in EntrySet
        BY <4>4 DEF EntrySet
      <4>7. EntryOK(e)
        BY <4>5 DEF EntryOK
      <4>8. ~e.changed => ~l[k].changed /\ l[k].level = level /\ l[k].detail = detail
        BY <4>3, <4>5
      <4> QED BY <4>5, <4>6, <4>7, <4>8
    <3> HIDE DEF e, set, k, r
    <3>4. r \in [DOMAIN l -> EntrySet] /\ r[k] = e /\ \A i \in DOMAIN l \ {k} : r[i] = l[i]
      <4>1. l \in [DOMAIN l -> EntrySet]
        BY <1>2
      <4> QED BY <2>4, <3>2, <3>3, <4>1
    <3>5. \A i \in DOMAIN l : /\ EntryOK(r[i]) /\ r[i].code = l[i].code
                              /\ r[i].placeHolder = l[i].placeHolder
      <4>1. e.placeHolder = l[k].placeHolder
        <5>1. l[k] \in EntrySet /\ ~l[k].placeHolder
          BY <1>2, <2>1, <2>4
        <5> QED BY <3>3, <5>1 DEF EntrySet
      <4> QED BY <1>2, <2>4, <3>3, <3>4, <4>1
    <3>6. Len(l) = 1 => r[1].level \in Bad
      BY <1>2, <1>4, <3>3, <3>4 DEF GoodList
    <3>7. GoodList(r) /\ DOMAIN r = DOMAIN l
      BY <3>4, <3>5, <3>6, StaysGood
    <3>8. AddsAt(l, r, level, detail, code, k)
      BY <1>4, <2>4, <3>3, <3>4, <3>7 DEF AddsAt
    <3>9. AddChanged(l, level, detail, code) = r[k].changed /\ ~r[1].placeHolder
      BY <1>2, <2>1, <3>2, <3>3, <3>4, <3>5
    <3> QED BY <3>7, <3>8, <3>9 DEF r
  <2> QED BY <2>3, <2>4, PositionIs
<1> QED BY <1>3, <1>4

\* The list with the alarm says what an observer makes of the report.
LEMMA AddSays ==
  ASSUME NEW l, GoodList(l), NEW r,
         NEW level \in Bad, NEW detail, NEW code, NEW n,
         AddsAt(l, r, level, detail, code, n), ~r[1].placeHolder,
         NEW S \in SUBSET (DOMAIN l), NEW view, view.alarms = SaysAt(l, S).alarms
  PROVE  SaysAt(r, S \cup {n}) = Observe(view, Alarm(level, detail, code))
<1> DEFINE a == Alarm(level, detail, code)
<1>1. a.level = level /\ a.code = code /\ ~Unassociated(a.level, a.code) /\ a.level # "NORMAL"
  BY DEF Alarm, Unassociated, Bad
<1>2. a = AlarmOf(r[n]) /\ r[n].level \in Bad
  BY DEF AddsAt, AlarmOf
<1> HIDE DEF a
<1>3. Observe(view, a) = [avail |-> TRUE, alarms |-> {x \in view.alarms : x.code # code} \cup {a}]
  BY <1>1 DEF Observe
<1>4. SaysAt(r, S \cup {n}) = [avail |-> TRUE, alarms |-> AlarmsAt(r, S \cup {n})]
  BY DEF SaysAt
<1>5. CASE l[1].placeHolder
  <2>1. view.alarms = {}
    BY <1>5 DEF SaysAt
  <2>2. S \cup {n} = {n}
    BY <1>5, GoodFacts DEF AddsAt
  <2>3. AlarmsAt(r, {n}) = {a}
    BY <1>2 DEF AlarmsAt
  <2> QED BY <1>3, <1>4, <2>1, <2>2, <2>3 DEF a
<1>6. CASE ~l[1].placeHolder
  <2>1. view.alarms = AlarmsAt(l, S)
    BY <1>6 DEF SaysAt
  <2>2. \A i \in DOMAIN l \ {n} : r[i] = l[i] /\ l[i].code # code
    BY <1>6, GoodFacts DEF AddsAt
  <2>3. n \in S => l[n].code = code
    BY <1>6 DEF AddsAt
  <2>4. ASSUME NEW x \in AlarmsAt(r, S \cup {n})
        PROVE  x = a \/ (x \in AlarmsAt(l, S) /\ x.code # code)
    <3>1. PICK i \in S \cup {n} : x = AlarmOf(r[i]) /\ r[i].level \in Bad
      BY DEF AlarmsAt
    <3>2. CASE i = n BY <1>2, <3>1, <3>2
    <3>3. CASE i # n
      <4>1. i \in S /\ r[i] = l[i] /\ l[i].code # code
        BY <2>2, <3>1, <3>3
      <4>2. x \in AlarmsAt(l, S)
        BY <3>1, <4>1 DEF AlarmsAt
      <4>3. x.code = l[i].code
        BY <3>1, <4>1 DEF AlarmOf, Alarm
      <4> QED BY <4>1, <4>2, <4>3
    <3> QED BY <3>2, <3>3
  <2>5. a \in AlarmsAt(r, S \cup {n})
    BY <1>2 DEF AlarmsAt
  <2>6. ASSUME NEW x \in AlarmsAt(l, S), x.code # code PROVE x \in AlarmsAt(r, S \cup {n})
    <3>1. PICK i \in S : x = AlarmOf(l[i]) /\ l[i].level \in Bad
      BY DEF AlarmsAt
    <3>2. x.code = l[i].code
      BY <3>1 DEF AlarmOf, Alarm
    <3>3. i # n
      BY <2>3, <2>6, <3>2
    <3>4. r[i] = l[i]
      BY <2>2, <3>3
    <3> QED BY <3>1, <3>4 DEF AlarmsAt
  <2>7. AlarmsAt(r, S \cup {n}) = {x \in view.alarms : x.code # code} \cup {a}
    BY <2>1, <2>4, <2>5, <2>6
  <2> QED BY <1>3, <1>4, <2>7 DEF a
<1> QED BY <1>5, <1>6

\* Flags and the agent, when an alarm is added.
LEMMA AddKeeps ==
  ASSUME NEW l, GoodList(l), NEW r, NEW level, NEW detail, NEW code, NEW n,
         AddsAt(l, r, level, detail, code, n)
  PROVE  /\ MarkedAt(r) = MarkedAt(l) \cup {n}
         /\ ChangedAt(l) = DOMAIN l => ChangedAt(r) = DOMAIN r /\ r[n].changed
         /\ \A view : /\ Behind(l, ChangedAt(l), view)
                      /\ l[1].placeHolder => view.alarms = {}
                      => Behind(r, ChangedAt(r), view)
         /\ (\A i \in DOMAIN l : Kept(l[i]) \/ l[i].level = "NORMAL")
              => \A i \in DOMAIN r : Kept(r[i]) \/ r[i].level = "NORMAL"
<1>1. /\ DOMAIN r = DOMAIN l \cup {n}
      /\ \A i \in DOMAIN l \ {n} : r[i] = l[i]
      /\ ~r[n].placeHolder /\ r[n].marked
      /\ r[n].level = level /\ r[n].detail = detail /\ r[n].code = code
  BY DEF AddsAt
<1>2. MarkedAt(r) = MarkedAt(l) \cup {n}
  BY <1>1 DEF MarkedAt
<1>3. ASSUME ChangedAt(l) = DOMAIN l PROVE ChangedAt(r) = DOMAIN r /\ r[n].changed
  <2>1. \A i \in DOMAIN l : l[i].changed
    BY <1>3 DEF ChangedAt
  <2>2. r[n].changed
    BY <2>1 DEF AddsAt
  <2> QED BY <1>1, <2>1, <2>2 DEF ChangedAt
<1>4. ASSUME NEW view, Behind(l, ChangedAt(l), view), l[1].placeHolder => view.alarms = {}
      PROVE  Behind(r, ChangedAt(r), view)
  <2>1. ASSUME NEW i \in DOMAIN r \ ChangedAt(r) PROVE InView(r[i], view)
    <3>1. ~r[i].changed
      BY DEF ChangedAt
    <3>2. CASE i = n
      <4>1. /\ ~l[1].placeHolder /\ n \in DOMAIN l /\ l[n].code = code
            /\ ~l[n].changed /\ l[n].level = level /\ l[n].detail = detail
        BY <3>1, <3>2 DEF AddsAt
      <4>2. InView(l[n], view)
        BY <1>4, <4>1 DEF Behind, ChangedAt
      <4>3. ~l[n].placeHolder
        BY <4>1, GoodFacts
      <4>4. AlarmOf(r[n]) = AlarmOf(l[n])
        BY <1>1, <4>1 DEF AlarmOf
      <4> QED BY <1>1, <3>2, <4>1, <4>2, <4>3, <4>4 DEF InView
    <3>3. CASE i # n
      <4>1. i \in DOMAIN l /\ r[i] = l[i] /\ i \notin ChangedAt(l)
        BY <1>1, <3>1, <3>3 DEF ChangedAt
      <4> QED BY <1>4, <4>1 DEF Behind
    <3> QED BY <3>2, <3>3
  <2>2. ASSUME NEW a \in view.alarms PROVE \E i \in DOMAIN r : r[i].code = a.code
    <3>1. ~l[1].placeHolder
      BY <1>4
    <3>2. PICK i \in DOMAIN l : l[i].code = a.code
      BY <1>4, <3>1 DEF Behind
    <3>3. CASE i = n BY <1>1, <3>1, <3>2, <3>3 DEF AddsAt
    <3>4. CASE i # n BY <1>1, <3>2, <3>4
    <3> QED BY <3>3, <3>4
  <2> QED BY <2>1, <2>2 DEF Behind
<1>5. ASSUME \A i \in DOMAIN l : Kept(l[i]) \/ l[i].level = "NORMAL", NEW i \in DOMAIN r
      PROVE  Kept(r[i]) \/ r[i].level = "NORMAL"
  BY <1>1, <1>5 DEF Kept
<1> QED BY <1>2, <1>3, <1>4, <1>5

\* remove() turns the alarm NORMAL, or the list when it was the last one.
LEMMA RemoveFromIs ==
  ASSUME NEW l, GoodList(l), NEW code \in Codes, PositionOf(l, code) > 0
  PROVE  LET r == RemoveFrom(l, code)
         IN  /\ GoodList(r)
             /\ Says(r) = Observe(Says(l), Alarm("NORMAL", NoDetail, code))
             /\ \A view : Behind(l, ChangedAt(l), view) => Behind(r, ChangedAt(r), view)
             /\ (\A i \in DOMAIN l : Kept(l[i]) \/ l[i].level = "NORMAL")
                  => \A i \in DOMAIN r : Kept(r[i]) \/ r[i].level = "NORMAL"
<1> DEFINE r == RemoveFrom(l, code)
           k == PositionOf(l, code)
           a == Alarm("NORMAL", NoDetail, code)
<1>1. k \in DOMAIN l /\ l[k].code = code /\ k # 0
  BY PositionIs
<1>2. /\ Len(l) \in Nat \ {0} /\ DOMAIN l = 1 .. Len(l) /\ l \in Seq(EntrySet)
      /\ \A i \in DOMAIN l : l[i] \in EntrySet /\ EntryOK(l[i])
      /\ 1 \in DOMAIN l
      /\ \A i \in DOMAIN l : l[i].code = code => i = k
  BY <1>1, GoodFacts DEF GoodList
<1>3. ~l[1].placeHolder
  <2>1. ASSUME l[1].placeHolder PROVE FALSE
    <3>1. k = 1
      BY <1>1, <2>1, GoodFacts
    <3>2. l[1].code = NoCode
      BY <1>2, <2>1 DEF EntryOK
    <3> QED BY <1>1, <3>1, <3>2, ConditionAssumption
  <2> QED BY <2>1
<1>4. \A i \in DOMAIN l : ~l[i].placeHolder /\ l[i].code \in Codes
  BY <1>3, GoodFacts
<1>5. Observe(Says(l), a) = [avail |-> TRUE, alarms |-> {x \in AlarmsAt(l, DOMAIN l) : x.code # code}]
  <2>1. a.level = "NORMAL" /\ a.code = code /\ ~Unassociated(a.level, a.code)
    BY ConditionAssumption DEF Alarm, Unassociated
  <2>2. Says(l) = [avail |-> TRUE, alarms |-> AlarmsAt(l, DOMAIN l)]
    BY <1>3 DEF Says, SaysAt
  <2> HIDE DEF a
  <2> QED BY <2>1, <2>2 DEF Observe
<1> HIDE DEF a
<1>6. CASE Len(l) = 1
  <2>1. k = 1
    BY <1>1, <1>2, <1>6
  <2>2. r = ClearTo(l, "NORMAL")
    BY <1>1, <1>6, <2>1 DEF RemoveFrom
  <2>3. ~AlreadyIn(l, "NORMAL")
    BY <1>3, AlreadyInIs
  <2> HIDE DEF r, k
  <2>4. /\ GoodList(r) /\ DOMAIN r = {1} /\ r[1].placeHolder
        /\ Says(r) = [avail |-> TRUE, alarms |-> {}]
        /\ \A view : Behind(l, ChangedAt(l), view) => Behind(r, ChangedAt(r), view)
    BY <2>2, ClearToIs
  <2>5. {x \in AlarmsAt(l, DOMAIN l) : x.code # code} = {}
    <3>1. DOMAIN l = {1} /\ l[1].code = code
      BY <1>1, <1>2, <1>6, <2>1
    <3>2. \A x \in AlarmsAt(l, DOMAIN l) : x.code = code
      BY <3>1 DEF AlarmsAt, AlarmOf, Alarm
    <3> QED BY <3>2
  <2>6. \A i \in DOMAIN r : Kept(r[i])
    BY <2>4 DEF Kept
  <2> QED BY <1>5, <2>4, <2>5, <2>6 DEF r, a
<1>7. CASE Len(l) # 1
  <2> DEFINE set == SetValue(l[k], "NORMAL", NoDetail, code)
             e == [set EXCEPT !.marked = FALSE]
  <2>1. r = [l EXCEPT ![k] = e]
    BY <1>1, <1>7 DEF RemoveFrom
  <2> HIDE DEF k, r
  <2>2. /\ e \in EntrySet /\ EntryOK(e)
        /\ ~e.placeHolder /\ e.level = "NORMAL" /\ e.detail = NoDetail /\ e.code = code
        /\ ~e.changed => ~l[k].changed /\ l[k].level = "NORMAL" /\ l[k].detail = NoDetail
    <3>1. Unassociated("NORMAL", code) = FALSE
      BY ConditionAssumption DEF Unassociated
    <3>2. l[k] \in EntrySet /\ ~l[k].placeHolder
      BY <1>1, <1>2, <1>4
    <3>3. set = [level |-> "NORMAL", detail |-> NoDetail, code |-> code,
                 changed |-> \/ l[k].changed
                             \/ <<l[k].level, l[k].detail, l[k].code>> # <<"NORMAL", NoDetail, code>>,
                 marked |-> l[k].marked, placeHolder |-> FALSE]
      BY <3>1, <3>2 DEF SetValue
    <3> HIDE DEF set
    <3>4. set \in EntrySet
      BY <3>2, <3>3 DEF EntrySet, Levels
    <3>5. /\ e.changed = set.changed /\ e.placeHolder = FALSE /\ e.marked = FALSE
          /\ e.level = "NORMAL" /\ e.detail = NoDetail /\ e.code = code
      BY <3>3, <3>4 DEF EntrySet
    <3>6. e \in EntrySet
      BY <3>4 DEF EntrySet
    <3>7. EntryOK(e)
      BY <3>5 DEF EntryOK
    <3>8. ~e.changed => ~l[k].changed /\ l[k].level = "NORMAL" /\ l[k].detail = NoDetail
      BY <3>3, <3>5
    <3> QED BY <3>5, <3>6, <3>7, <3>8
  <2> HIDE DEF e, set
  <2>3. r \in [DOMAIN l -> EntrySet] /\ r[k] = e /\ \A i \in DOMAIN l \ {k} : r[i] = l[i]
    <3>1. l \in [DOMAIN l -> EntrySet]
      BY <1>2
    <3> QED BY <1>1, <2>1, <2>2, <3>1
  <2>4. \A i \in DOMAIN l : EntryOK(r[i]) /\ r[i].code = l[i].code /\ r[i].placeHolder = l[i].placeHolder
    <3>1. e.placeHolder = l[k].placeHolder
      <4>1. l[k] \in EntrySet /\ ~l[k].placeHolder
        BY <1>1, <1>2, <1>4
      <4> QED BY <2>2, <4>1 DEF EntrySet
    <3> QED BY <1>1, <1>2, <2>2, <2>3, <3>1
  <2>5. GoodList(r) /\ DOMAIN r = DOMAIN l
    BY <1>7, <2>3, <2>4, StaysGood
  <2>6. AlarmsAt(r, DOMAIN r) = {x \in AlarmsAt(l, DOMAIN l) : x.code # code}
    <3>1. r[k].level \notin Bad
      BY <2>2, <2>3 DEF Bad
    <3>2. ASSUME NEW x \in AlarmsAt(r, DOMAIN r) PROVE x \in AlarmsAt(l, DOMAIN l) /\ x.code # code
      <4>1. PICK i \in DOMAIN r : x = AlarmOf(r[i]) /\ r[i].level \in Bad
        BY DEF AlarmsAt
      <4>2. i \in DOMAIN l /\ i # k /\ r[i] = l[i] /\ l[i].code # code
        BY <1>2, <2>3, <2>5, <3>1, <4>1
      <4> QED BY <4>1, <4>2 DEF AlarmsAt, AlarmOf, Alarm
    <3>3. ASSUME NEW x \in AlarmsAt(l, DOMAIN l), x.code # code PROVE x \in AlarmsAt(r, DOMAIN r)
      <4>1. PICK i \in DOMAIN l : x = AlarmOf(l[i]) /\ l[i].level \in Bad
        BY DEF AlarmsAt
      <4>2. x.code = l[i].code
        BY <4>1 DEF AlarmOf, Alarm
      <4>3. i # k /\ r[i] = l[i]
        BY <1>1, <2>3, <3>3, <4>2
      <4> QED BY <2>5, <4>1, <4>3 DEF AlarmsAt
    <3> QED BY <3>2, <3>3
  <2>7. Says(r) = [avail |-> TRUE, alarms |-> AlarmsAt(r, DOMAIN r)]
    BY <1>2, <1>3, <2>4 DEF Says, SaysAt
  <2>8. ASSUME NEW view, Behind(l, ChangedAt(l), view) PROVE Behind(r, ChangedAt(r), view)
    <3>1. ASSUME NEW i \in DOMAIN r \ ChangedAt(r) PROVE InView(r[i], view)
      <4>1. ~r[i].changed /\ i \in DOMAIN l
        BY <2>5 DEF ChangedAt
      <4>2. CASE i = k
        <5>1. ~l[k].changed /\ l[k].level = "NORMAL" /\ l[k].detail = NoDetail
          BY <2>2, <2>3, <4>1, <4>2
        <5>2. InView(l[k], view)
          BY <1>1, <2>8, <5>1 DEF Behind, ChangedAt
        <5>3. AlarmOf(r[k]) = AlarmOf(l[k])
          BY <1>1, <2>2, <2>3, <5>1 DEF AlarmOf
        <5> QED BY <1>1, <1>4, <2>2, <2>3, <4>2, <5>1, <5>2, <5>3 DEF InView
      <4>3. CASE i # k
        <5>1. r[i] = l[i] /\ i \notin ChangedAt(l)
          BY <2>3, <4>1, <4>3 DEF ChangedAt
        <5> QED BY <2>8, <4>1, <5>1 DEF Behind
      <4> QED BY <4>2, <4>3
    <3>2. ASSUME NEW x \in view.alarms PROVE \E i \in DOMAIN r : r[i].code = x.code
      <4>1. PICK i \in DOMAIN l : l[i].code = x.code
        BY <1>3, <2>8 DEF Behind
      <4> QED BY <2>4, <2>5, <4>1
    <3> QED BY <3>1, <3>2 DEF Behind
  <2>9. ASSUME \A i \in DOMAIN l : Kept(l[i]) \/ l[i].level = "NORMAL", NEW i \in DOMAIN r
        PROVE  Kept(r[i]) \/ r[i].level = "NORMAL"
    BY <2>2, <2>3, <2>5, <2>9
  <2> QED BY <1>5, <2>5, <2>6, <2>7, <2>8, <2>9 DEF r, a
<1> QED BY <1>6, <1>7

-----------------------------------------------------------------------------
(* prepare() and append(). *)

\* prepare(): the entries left unmarked become NORMAL, or the list does when
\* no entry is marked.
LEMMA SweepIs ==
  ASSUME NEW l, GoodList(l)
  PROVE  LET r == Sweep(l)
         IN  /\ GoodList(r)
             /\ KeptAt(r) # {}
             /\ \A i \in DOMAIN r : Kept(r[i]) \/ r[i].level = "NORMAL"
             /\ KeptAt(l) = {} => Says(r) = AllNormal
             /\ KeptAt(l) # {} => Says(r) = SaysAt(l, MarkedAt(l))
             /\ \A view : Behind(l, ChangedAt(l), view) => Behind(r, ChangedAt(r), view)
<1> DEFINE r == Sweep(l)
<1>1. /\ \A i \in DOMAIN l : l[i] \in EntrySet /\ EntryOK(l[i])
      /\ 1 \in DOMAIN l /\ Len(l) \in Nat /\ DOMAIN l = 1 .. Len(l)
  BY GoodFacts
<1>2. CASE KeptAt(l) = {}
  <2> DEFINE e == Entry("NORMAL", NoDetail, NoCode)
  <2>1. ~Kept(l[1]) /\ ~l[1].placeHolder /\ ~\E i \in DOMAIN l : Kept(l[i])
    BY <1>1, <1>2 DEF KeptAt, Kept
  <2>2. ~AlreadyIn(l, "NORMAL")
    BY <2>1, AlreadyInIs
  <2>3. ClearTo(l, "NORMAL") = <<e>>
    BY <2>2 DEF ClearTo
  <2>4. e \in EntrySet /\ EntryOK(e) /\ e.placeHolder /\ e.changed /\ e.level = "NORMAL"
    BY NewPlaceHolder
  <2> HIDE DEF e
  <2>5. r = <<e>>
    BY <2>1, <2>3, <2>4 DEF Sweep, Kept
  <2> HIDE DEF r
  <2>6. /\ GoodList(r) /\ DOMAIN r = {1} /\ r[1] = e
        /\ Says(r) = [avail |-> e.level = "NORMAL", alarms |-> {}]
    BY <2>4, <2>5, Single
  <2>7. Says(r) = AllNormal
    BY <2>4, <2>6 DEF AllNormal
  <2>8. KeptAt(r) = {1} /\ ChangedAt(r) = {1} /\ \A i \in DOMAIN r : Kept(r[i])
    BY <2>4, <2>6 DEF KeptAt, ChangedAt, Kept
  <2>9. \A view : Behind(r, ChangedAt(r), view)
    BY <2>4, <2>6, <2>8 DEF Behind
  <2> QED BY <1>2, <2>6, <2>7, <2>8, <2>9 DEF r
<1>3. CASE KeptAt(l) # {}
  <2>1. r = [i \in DOMAIN l |->
               IF Kept(l[i]) THEN l[i] ELSE SetValue(l[i], "NORMAL", NoDetail, l[i].code)]
    <3>1. \E i \in DOMAIN l : Kept(l[i])
      BY <1>3 DEF KeptAt
    <3> QED BY <3>1 DEF Sweep
  <2> HIDE DEF r
  <2>2. ASSUME NEW i \in DOMAIN l, Kept(l[i]) PROVE r[i] = l[i]
    BY <2>1, <2>2
  <2>3. ASSUME NEW i \in DOMAIN l, ~Kept(l[i])
        PROVE  /\ r[i] \in EntrySet /\ EntryOK(r[i])
               /\ ~r[i].placeHolder /\ ~l[i].placeHolder
               /\ r[i].level = "NORMAL" /\ r[i].detail = NoDetail /\ r[i].code = l[i].code
               /\ ~r[i].changed => ~l[i].changed /\ l[i].level = "NORMAL" /\ l[i].detail = NoDetail
    <3>1. ~l[i].placeHolder /\ ~l[i].marked /\ l[i] \in EntrySet /\ l[i].code \in Codes
      BY <1>1, <2>3 DEF Kept, EntryOK
    <3>2. Unassociated("NORMAL", l[i].code) = FALSE
      BY <3>1, ConditionAssumption DEF Unassociated
    <3>3. r[i] = SetValue(l[i], "NORMAL", NoDetail, l[i].code)
      BY <2>1, <2>3
    <3>4. r[i] = [level |-> "NORMAL", detail |-> NoDetail, code |-> l[i].code,
                  changed |-> \/ l[i].changed
                              \/ <<l[i].level, l[i].detail, l[i].code>>
                                   # <<"NORMAL", NoDetail, l[i].code>>,
                  marked |-> FALSE, placeHolder |-> FALSE]
      <4>1. l[i].marked = FALSE /\ l[i].placeHolder = FALSE
        BY <3>1 DEF EntrySet
      <4> QED BY <3>2, <3>3, <4>1 DEF SetValue
    <3>5. r[i] \in EntrySet
      BY <3>1, <3>4 DEF EntrySet, Levels
    <3>6. EntryOK(r[i])
      BY <3>1, <3>4 DEF EntryOK
    <3>7. ~r[i].changed => ~l[i].changed /\ l[i].level = "NORMAL" /\ l[i].detail = NoDetail
      BY <3>4
    <3>8. ~r[i].placeHolder /\ r[i].level = "NORMAL" /\ r[i].detail = NoDetail /\ r[i].code = l[i].code
      BY <3>4
    <3> QED BY <3>1, <3>5, <3>6, <3>7, <3>8
  <2>4. ASSUME NEW i \in DOMAIN l
        PROVE  /\ r[i] \in EntrySet /\ EntryOK(r[i])
               /\ r[i].code = l[i].code /\ r[i].placeHolder = l[i].placeHolder
               /\ Kept(r[i]) \/ r[i].level = "NORMAL"
    <3>1. CASE Kept(l[i]) BY <1>1, <2>2, <3>1
    <3>2. CASE ~Kept(l[i])
      <4>1. l[i].placeHolder = FALSE /\ r[i].placeHolder = FALSE
        BY <1>1, <2>3, <3>2 DEF EntrySet
      <4> QED BY <2>3, <3>2, <4>1
    <3> QED BY <3>1, <3>2
  <2>5. DOMAIN r = DOMAIN l /\ r \in [DOMAIN l -> EntrySet]
    <3>1. DOMAIN r = DOMAIN l /\ r = [i \in DOMAIN l |-> r[i]]
      BY <2>1
    <3> QED BY <2>4, <3>1
  <2>6. PICK k \in DOMAIN l : Kept(l[k])
    BY <1>3 DEF KeptAt
  <2>7. Len(l) = 1 => r[1].placeHolder \/ r[1].level \in Bad
    <3>1. ASSUME Len(l) = 1 PROVE r[1] = l[1]
      BY <1>1, <2>2, <2>6, <3>1
    <3> QED BY <3>1 DEF GoodList
  <2>8. GoodList(r)
    BY <2>4, <2>5, <2>7, StaysGood
  <2>9. KeptAt(r) # {}
    BY <2>2, <2>5, <2>6 DEF KeptAt
  <2>10. Says(r) = SaysAt(l, MarkedAt(l))
    <3>1. CASE l[1].placeHolder
      <4>1. r[1] = l[1]
        BY <1>1, <2>2, <3>1 DEF Kept
      <4> QED BY <3>1, <4>1 DEF Says, SaysAt
    <3>2. CASE ~l[1].placeHolder
      <4>1. \A i \in DOMAIN l : ~l[i].placeHolder
        BY <3>2, GoodFacts
      <4>2. ~r[1].placeHolder
        BY <1>1, <2>4, <4>1
      <4>3. ASSUME NEW x \in AlarmsAt(r, DOMAIN r) PROVE x \in AlarmsAt(l, MarkedAt(l))
        <5>1. PICK i \in DOMAIN r : x = AlarmOf(r[i]) /\ r[i].level \in Bad
          BY DEF AlarmsAt
        <5>2. Kept(l[i])
          BY <2>3, <2>5, <5>1 DEF Bad
        <5>3. i \in MarkedAt(l) /\ r[i] = l[i]
          BY <2>2, <2>5, <4>1, <5>2 DEF MarkedAt, Kept
        <5> QED BY <5>1, <5>3 DEF AlarmsAt
      <4>4. ASSUME NEW x \in AlarmsAt(l, MarkedAt(l)) PROVE x \in AlarmsAt(r, DOMAIN r)
        <5>1. PICK i \in MarkedAt(l) : x = AlarmOf(l[i]) /\ l[i].level \in Bad
          BY DEF AlarmsAt
        <5>2. i \in DOMAIN r /\ r[i] = l[i]
          BY <2>2, <2>5 DEF MarkedAt, Kept
        <5> QED BY <5>1, <5>2 DEF AlarmsAt
      <4>5. AlarmsAt(r, DOMAIN r) = AlarmsAt(l, MarkedAt(l))
        BY <4>3, <4>4
      <4> QED BY <3>2, <4>2, <4>5 DEF Says, SaysAt
    <3> QED BY <3>1, <3>2
  <2>11. ASSUME NEW view, Behind(l, ChangedAt(l), view) PROVE Behind(r, ChangedAt(r), view)
    <3>1. ASSUME NEW i \in DOMAIN r \ ChangedAt(r) PROVE InView(r[i], view)
      <4>1. ~r[i].changed /\ i \in DOMAIN l
        BY <2>5 DEF ChangedAt
      <4>2. CASE Kept(l[i])
        <5>1. r[i] = l[i] /\ i \notin ChangedAt(l)
          BY <2>2, <4>1, <4>2 DEF ChangedAt
        <5> QED BY <2>11, <4>1, <5>1 DEF Behind
      <4>3. CASE ~Kept(l[i])
        <5>1. ~l[i].changed /\ l[i].level = "NORMAL" /\ l[i].detail = NoDetail
          BY <2>3, <4>1, <4>3
        <5>2. InView(l[i], view)
          BY <2>11, <4>1, <5>1 DEF Behind, ChangedAt
        <5>3. AlarmOf(r[i]) = AlarmOf(l[i])
          BY <2>3, <4>1, <4>3, <5>1 DEF AlarmOf
        <5>4. ~r[i].placeHolder /\ ~l[i].placeHolder /\ r[i].level = l[i].level /\ r[i].code = l[i].code
          BY <2>3, <4>1, <4>3, <5>1
        <5> QED BY <5>2, <5>3, <5>4 DEF InView
      <4> QED BY <4>2, <4>3
    <3>2. ASSUME NEW x \in view.alarms
          PROVE  \/ \E i \in DOMAIN r : r[i].code = x.code
                 \/ r[1].placeHolder /\ 1 \in ChangedAt(r)
      <4>1. CASE \E i \in DOMAIN l : l[i].code = x.code
        BY <2>4, <2>5, <4>1
      <4>2. CASE l[1].placeHolder /\ 1 \in ChangedAt(l)
        <5>1. r[1] = l[1]
          BY <1>1, <2>2, <4>2 DEF Kept
        <5> QED BY <1>1, <2>5, <4>2, <5>1 DEF ChangedAt
      <4> QED BY <2>11, <4>1, <4>2 DEF Behind
    <3> QED BY <3>1, <3>2 DEF Behind
  <2> QED BY <1>3, <2>4, <2>5, <2>8, <2>9, <2>10, <2>11 DEF r
<1> QED BY <1>2, <1>3

\* append() drops what was swept: only NORMAL entries, so the list says the
\* same, and it is still good.
LEMMA DroppedIs ==
  ASSUME NEW l, GoodList(l), KeptAt(l) # {},
         \A i \in DOMAIN l : Kept(l[i]) \/ l[i].level = "NORMAL"
  PROVE  LET r == Picked(l, KeptAt(l))
         IN  /\ GoodList(r)
             /\ Says(r) = Says(l)
             /\ \A i \in DOMAIN r : Kept(r[i])
<1> DEFINE S == KeptAt(l)
           r == Picked(l, S)
           m == Len(r)
<1>1. /\ \A i \in DOMAIN l : l[i] \in EntrySet /\ EntryOK(l[i])
      /\ 1 \in DOMAIN l /\ DOMAIN l = 1 .. Len(l) /\ l \in Seq(EntrySet)
  BY GoodFacts DEF GoodList
<1>2. S \in SUBSET (1 .. Len(l)) /\ S # {} /\ \A k \in S : k \in DOMAIN l /\ Kept(l[k])
  BY <1>1 DEF KeptAt
<1> HIDE DEF S
<1>3. r \in Seq(EntrySet) /\ \E h : TakenAt(r, l, S, h)
  BY <1>1, <1>2, PickedFrom
<1>4. m \in Nat /\ DOMAIN r = 1 .. m /\ r \in [1 .. m -> EntrySet]
  BY <1>3
<1> HIDE DEF r
<1>5. PICK h : TakenAt(r, l, S, h)
  BY <1>3
<1>6. /\ h \in [1 .. m -> S]
      /\ \A i \in 1 .. m : r[i] = l[h[i]]
      /\ \A i, j \in 1 .. m : h[i] = h[j] => i = j
      /\ \A k \in S : \E i \in 1 .. m : h[i] = k
  BY <1>5 DEF TakenAt
<1> HIDE DEF m
<1>7. \A i \in 1 .. m : h[i] \in S /\ h[i] \in DOMAIN l /\ Kept(l[h[i]])
  BY <1>2, <1>6
<1>8. \A i \in DOMAIN r : Kept(r[i])
  BY <1>4, <1>6, <1>7
<1>9. m \in Nat \ {0}
  <2>1. m # 0
    <3>1. PICK k \in S : TRUE
      BY <1>2
    <3>2. PICK i \in 1 .. m : h[i] = k
      BY <1>6, <3>1
    <3> QED BY <1>4, <3>2
  <2> QED BY <1>4, <2>1
<1>10. GoodList(r)
  <2>1. \A i \in 1 .. m : EntryOK(r[i])
    BY <1>1, <1>6, <1>7
  <2>2. ASSUME NEW i \in 1 .. m, NEW j \in 1 .. m, i # j
        PROVE  r[i].code # r[j].code /\ ~r[i].placeHolder
    <3>1. h[i] # h[j]
      BY <1>6, <2>2
    <3>2. l[h[i]].code # l[h[j]].code /\ ~l[h[i]].placeHolder
      BY <1>7, <3>1 DEF GoodList
    <3> QED BY <1>6, <3>2
  <2>3. r[1].placeHolder \/ r[1].level \in Bad
    <3>1. 1 \in 1 .. m
      BY <1>9
    <3>2. Kept(r[1]) /\ EntryOK(r[1])
      BY <1>4, <1>8, <2>1, <3>1
    <3> QED BY <3>2 DEF Kept, EntryOK
  <2> QED BY <1>4, <1>9, <2>1, <2>2, <2>3, MakesGood
<1>11. Says(r) = Says(l)
  <2>1. 1 \in 1 .. m
    BY <1>9
  <2>2. CASE l[1].placeHolder
    <3>1. h[1] = 1
      <4>1. DOMAIN l = {1}
        BY <2>2, GoodFacts
      <4> QED BY <1>7, <2>1, <4>1
    <3>2. r[1] = l[1]
      BY <1>6, <2>1, <3>1
    <3> QED BY <2>2, <3>2 DEF Says, SaysAt
  <2>3. CASE ~l[1].placeHolder
    <3>1. ~r[1].placeHolder
      <4>1. ~l[h[1]].placeHolder
        BY <1>7, <2>1, <2>3, GoodFacts
      <4> QED BY <1>6, <2>1, <4>1
    <3>2. ASSUME NEW x \in AlarmsAt(r, DOMAIN r) PROVE x \in AlarmsAt(l, DOMAIN l)
      <4>1. PICK i \in DOMAIN r : x = AlarmOf(r[i]) /\ r[i].level \in Bad
        BY DEF AlarmsAt
      <4>2. r[i] = l[h[i]] /\ h[i] \in DOMAIN l
        BY <1>4, <1>6, <1>7
      <4> QED BY <4>1, <4>2 DEF AlarmsAt
    <3>3. ASSUME NEW x \in AlarmsAt(l, DOMAIN l) PROVE x \in AlarmsAt(r, DOMAIN r)
      <4>1. PICK k \in DOMAIN l : x = AlarmOf(l[k]) /\ l[k].level \in Bad
        BY DEF AlarmsAt
      <4>2. k \in S
        BY <4>1 DEF S, KeptAt, Bad
      <4>3. PICK i \in 1 .. m : h[i] = k
        BY <1>6, <4>2
      <4>4. r[i] = l[k] /\ i \in DOMAIN r
        BY <1>4, <1>6, <4>3
      <4> QED BY <4>1, <4>4 DEF AlarmsAt
    <3>4. AlarmsAt(r, DOMAIN r) = AlarmsAt(l, DOMAIN l)
      BY <3>2, <3>3
    <3> QED BY <2>3, <3>1, <3>4 DEF Says, SaysAt
  <2> QED BY <2>2, <2>3
<1> QED BY <1>8, <1>10, <1>11 DEF r, S

\* append() in the states it is called in, when it writes at all.
LEMMA AppendListIs ==
  ASSUME NEW l, GoodList(l), NEW begun \in BOOLEAN, NEW prepared \in BOOLEAN,
         begun => prepared,
         begun => KeptAt(l) # {} /\ \A i \in DOMAIN l : Kept(l[i]) \/ l[i].level = "NORMAL"
  PROVE  LET r == AppendList(l, begun, prepared)
         IN  /\ GoodList(r) /\ AllSaid(r)
             /\ Says(r) = Says(l)
             /\ (\A i \in DOMAIN l : Kept(l[i]) \/ l[i].level = "NORMAL")
                  => \A i \in DOMAIN r : Kept(r[i]) \/ r[i].level = "NORMAL"
<1> DEFINE r == AppendList(l, begun, prepared)
<1>1. CASE ~begun
  <2>1. r = Said(l)
    BY <1>1 DEF AppendList
  <2> HIDE DEF r
  <2> QED BY <2>1, SaidIs DEF r
<1>2. CASE begun
  <2> DEFINE p == Picked(l, KeptAt(l))
  <2>1. r = Said(p)
    BY <1>2 DEF AppendList
  <2>2. GoodList(p) /\ Says(p) = Says(l) /\ \A i \in DOMAIN p : Kept(p[i])
    BY <1>2, DroppedIs
  <2> HIDE DEF r, p
  <2>3. /\ GoodList(r) /\ DOMAIN r = DOMAIN p /\ Says(r) = Says(p) /\ AllSaid(r)
        /\ \A i \in DOMAIN p : Kept(r[i]) <=> Kept(p[i])
    BY <2>1, <2>2, SaidIs
  <2> QED BY <2>2, <2>3 DEF r
<1> QED BY <1>1, <1>2

LEMMA AppendLinesIs ==
  ASSUME NEW l, GoodList(l), NEW begun \in BOOLEAN, NEW prepared \in BOOLEAN,
         begun => prepared,
         NEW view \in View, Behind(l, ChangedAt(l), view)
  PROVE  ObserveAll(view, AppendLines(l, begun, prepared)) = Says(l)
<1>1. ChangedAt(l) \in SUBSET (DOMAIN l)
  BY DEF ChangedAt
<1>2. CASE ~begun
  <2>1. AppendLines(l, begun, prepared) = LinesOf(l)
    BY <1>2 DEF AppendLines
  <2>2. WritesAt(LinesOf(l), l, DOMAIN l)
    BY WritesEach
  <2>3. Behind(l, DOMAIN l, view)
    BY <1>1, BehindMore
  <2> QED BY <2>1, <2>2, <2>3, LinesBringUpToDate
<1>3. CASE begun
  <2> DEFINE lines == LinesOf(Reverse(Picked(l, ChangedAt(l))))
  <2>1. AppendLines(l, begun, prepared) = lines
    BY <1>3 DEF AppendLines
  <2>2. WritesAt(lines, l, ChangedAt(l))
    BY <1>1, WritesPicked
  <2> HIDE DEF lines
  <2> QED BY <1>1, <2>1, <2>2, LinesBringUpToDate
<1> QED BY <1>2, <1>3

-----------------------------------------------------------------------------
(* The invariant, one action after the other. *)

LEMMA InitInv == Init => ConditionInv
<1> SUFFICES ASSUME Init PROVE ConditionInv
  OBVIOUS
<1> DEFINE e == Entry("UNAVAILABLE", NoDetail, NoCode)
<1>1. /\ e \in EntrySet /\ EntryOK(e)
      /\ e.placeHolder /\ e.changed /\ e.marked /\ e.level = "UNAVAILABLE" /\ e.code = NoCode
  BY NewPlaceHolder
<1>2. list = <<e>>
  BY DEF Init
<1> HIDE DEF e
<1>3. /\ GoodList(list) /\ DOMAIN list = {1} /\ list[1] = e
      /\ Says(list) = [avail |-> FALSE, alarms |-> {}]
  BY <1>1, <1>2, Single
<1>4. ChangedAt(list) = {1} /\ KeptAt(list) = {1}
  BY <1>1, <1>3 DEF ChangedAt, KeptAt, Kept
<1>5. TypeOK
  BY <1>3, ViewsAreViews DEF Init, TypeOK, GoodList
<1>6. FlagInv
  BY <1>3, <1>4 DEF Init, FlagInv
<1>7. MarkInv
  BY <1>3, <1>1 DEF Init, MarkInv, Kept
<1>8. device = Says(list) /\ ~mBegun
  BY <1>3 DEF Init, Unknown
<1>9. DeviceInv
  BY <1>8 DEF DeviceInv, Sweeping
<1>10. AgentInv
  <2>1. agent.alarms = {}
    BY DEF Init, Unknown
  <2>2. Behind(list, ChangedAt(list), agent)
    BY <1>3, <1>4, <2>1 DEF Behind
  <2> QED BY <2>1, <2>2 DEF Init, AgentInv
<1> QED BY <1>3, <1>5, <1>6, <1>7, <1>9, <1>10 DEF ConditionInv

LEMMA ConnectInv == ConditionInv /\ Connect => ConditionInv'
<1> SUFFICES ASSUME ConditionInv, Connect PROVE ConditionInv'
  OBVIOUS
<1> USE DEF ConditionInv, Connect
<1>1. TypeOK'
  BY ViewsAreViews DEF TypeOK
<1>2. GoodList(list)'
  BY DEF GoodList
<1>3. FlagInv'
  BY DEF FlagInv
<1>4. MarkInv'
  BY DEF MarkInv
<1>5. DeviceInv'
  BY DEF DeviceInv
<1>6. AgentInv'
  BY DEF AgentInv
<1> QED BY <1>1, <1>2, <1>3, <1>4, <1>5, <1>6

LEMMA DisconnectInv == ConditionInv /\ Disconnect => ConditionInv'
<1> SUFFICES ASSUME ConditionInv, Disconnect PROVE ConditionInv'
  OBVIOUS
<1> USE DEF ConditionInv, Disconnect
<1>1. TypeOK'
  BY DEF TypeOK
<1>2. GoodList(list)'
  BY DEF GoodList
<1>3. FlagInv' /\ MarkInv'
  BY DEF FlagInv, MarkInv, AllSaid, ChangedAt
<1>4. DeviceInv'
  BY DEF DeviceInv, Sweeping
<1>5. AgentInv'
  BY DEF AgentInv
<1> QED BY <1>1, <1>2, <1>3, <1>4, <1>5

LEMMA CleanupInv == ConditionInv /\ Cleanup => ConditionInv'
<1> SUFFICES ASSUME ConditionInv, Cleanup PROVE ConditionInv'
  OBVIOUS
<1> USE DEF ConditionInv, Cleanup
<1>1. TypeOK'
  BY DEF TypeOK
<1>2. GoodList(list)'
  BY DEF GoodList
<1>3. FlagInv' /\ MarkInv'
  BY DEF FlagInv, MarkInv
<1>4. DeviceInv'
  BY DEF DeviceInv
<1>5. AgentInv'
  BY DEF AgentInv
<1> QED BY <1>1, <1>2, <1>3, <1>4, <1>5

LEMMA BeginInv == ConditionInv /\ Begin => ConditionInv'
<1> SUFFICES ASSUME ConditionInv, Begin PROVE ConditionInv'
  OBVIOUS
<1> USE DEF ConditionInv, Begin
<1>1. agent = Says(list) /\ AllSaid(list) /\ device = Says(list)
  BY DEF AgentInv, DeviceInv
<1>2. /\ GoodList(list')
      /\ Says(list') = Says(list)
      /\ ChangedAt(list') = ChangedAt(list)
      /\ list'[1].placeHolder = list[1].placeHolder
      /\ ~mSimple => MarkedAt(list') = {}
  BY ClearMarksIs
<1>3. TypeOK'
  BY <1>2, ViewsAreViews DEF TypeOK, GoodList
<1>4. FlagInv'
  BY DEF FlagInv
<1>5. MarkInv'
  BY DEF MarkInv, TypeOK
<1>6. DeviceInv'
  BY <1>1, <1>2 DEF DeviceInv, Sweeping, TypeOK
<1>7. AgentInv'
  <2>1. Behind(list', ChangedAt(list'), agent)
    BY <1>1, <1>2, SaysBehind
  <2>2. list'[1].placeHolder => agent.alarms = {}
    BY <1>1, <1>2 DEF Says, SaysAt
  <2> QED BY <2>1, <2>2 DEF AgentInv
<1> QED BY <1>2, <1>3, <1>4, <1>5, <1>6, <1>7

LEMMA SendInitialInv == ConditionInv /\ SendInitial => ConditionInv'
<1> SUFFICES ASSUME ConditionInv, SendInitial PROVE ConditionInv'
  OBVIOUS
<1> USE DEF ConditionInv, SendInitial
<1>1. mBegun = FALSE /\ mPrepared \in BOOLEAN
  BY DEF FlagInv, TypeOK
<1>2. /\ GoodList(list') /\ AllSaid(list') /\ Says(list') = Says(list)
      /\ (\A i \in DOMAIN list : Kept(list[i]) \/ list[i].level = "NORMAL")
           => \A i \in DOMAIN list' : Kept(list'[i]) \/ list'[i].level = "NORMAL"
  BY <1>1, AppendListIs
<1>3. ASSUME connected PROVE agent' = Says(list)
  <2>1. agent = Unknown
    BY <1>3 DEF AgentInv
  <2>2. AppendLines(list, mBegun, mPrepared) = LinesOf(list)
    BY <1>1 DEF AppendLines
  <2>3. Behind(list, DOMAIN list, Unknown)
    BY DEF Behind, Unknown
  <2>4. WritesAt(LinesOf(list), list, DOMAIN list)
    BY WritesEach
  <2>5. ObserveAll(Unknown, LinesOf(list)) = Says(list)
    BY <2>3, <2>4, ViewsAreViews, LinesBringUpToDate
  <2> QED BY <1>3, <2>1, <2>2, <2>5
<1>4. TypeOK'
  <2>1. agent' \in View
    BY <1>3, SaysView DEF TypeOK
  <2> QED BY <1>2, <2>1 DEF TypeOK, GoodList
<1>5. FlagInv'
  BY <1>1 DEF FlagInv
<1>6. MarkInv'
  BY <1>2 DEF MarkInv
<1>7. DeviceInv'
  BY <1>2 DEF DeviceInv
<1>8. AgentInv'
  BY <1>2, <1>3 DEF AgentInv
<1> QED BY <1>2, <1>4, <1>5, <1>6, <1>7, <1>8

LEMMA RecordTyped ==
  ASSUME device \in View, pending \in [touched : BOOLEAN, view : View],
         NEW view \in View, Record(view)
  PROVE  device' \in View /\ pending' \in [touched : BOOLEAN, view : View]
<1>1. CASE Sweeping
  <2>1. pending' = [touched |-> TRUE, view |-> view] /\ device' = device
    BY <1>1 DEF Record
  <2> QED BY <2>1
<1>2. CASE ~Sweeping
  <2>1. device' = view /\ pending' = pending
    BY <1>2 DEF Record
  <2> QED BY <2>1
<1> QED BY <1>1, <1>2

LEMMA AddAlarmInv ==
  ASSUME NEW level \in ReportLevels, NEW detail \in Details, NEW code \in Codes
  PROVE  ConditionInv /\ AddAlarm(level, detail, code) => ConditionInv'
<1> SUFFICES ASSUME ConditionInv, AddAlarm(level, detail, code) PROVE ConditionInv'
  OBVIOUS
<1> USE DEF ConditionInv
<1> DEFINE a == Alarm(level, detail, code)
<1>1. level \in Bad /\ a \in AlarmSet
  BY ConditionAssumption DEF Bad, Alarm, AlarmSet
<1>2. /\ Gathering /\ ~cleared
      /\ list' = AddTo(list, level, detail, code)
      /\ mChanged' = AddChanged(list, level, detail, code)
      /\ Record(Observe(Told, a))
      /\ UNCHANGED <<mSimple, mBegun, mPrepared, phase, cleared, connected, agent>>
  BY DEF AddAlarm
<1> HIDE DEF a
<1>3. GoodList(list) /\ TypeOK
  OBVIOUS
<1>4. /\ GoodList(list') /\ ~list'[1].placeHolder
      /\ \E n : /\ AddsAt(list, list', level, detail, code, n)
                /\ AddChanged(list, level, detail, code) = list'[n].changed
  BY <1>1, <1>2, <1>3, AddToIs
<1>5. PICK n : AddsAt(list, list', level, detail, code, n) /\ mChanged' = list'[n].changed
  BY <1>2, <1>4
<1>6. /\ MarkedAt(list') = MarkedAt(list) \cup {n}
      /\ ChangedAt(list) = DOMAIN list => ChangedAt(list') = DOMAIN list' /\ mChanged'
      /\ \A view : /\ Behind(list, ChangedAt(list), view)
                   /\ list[1].placeHolder => view.alarms = {}
                   => Behind(list', ChangedAt(list'), view)
      /\ (\A i \in DOMAIN list : Kept(list[i]) \/ list[i].level = "NORMAL")
           => \A i \in DOMAIN list' : Kept(list'[i]) \/ list'[i].level = "NORMAL"
  BY <1>3, <1>5, AddKeeps
<1>7. DOMAIN list' = DOMAIN list \cup {n} /\ list'[n].changed \in BOOLEAN
  <2>1. DOMAIN list' = DOMAIN list \cup {n}
    BY <1>5 DEF AddsAt
  <2>2. list'[n] \in EntrySet
    BY <1>4, <2>1, GoodFacts
  <2> QED BY <2>1, <2>2 DEF EntrySet
<1>8. ASSUME NEW S \in SUBSET (DOMAIN list), NEW view, view.alarms = SaysAt(list, S).alarms
      PROVE  SaysAt(list', S \cup {n}) = Observe(view, a)
  BY <1>1, <1>3, <1>4, <1>5, <1>8, AddSays DEF a
<1>9. TypeOK'
  <2>1. Observe(Told, a) \in View
    BY <1>1, <1>3, ViewsAreViews DEF Told, TypeOK
  <2>2. device' \in View /\ pending' \in [touched : BOOLEAN, view : View]
    BY <1>2, <1>3, <2>1, RecordTyped DEF TypeOK
  <2> QED BY <1>2, <1>3, <1>4, <1>5, <1>7, <2>2 DEF TypeOK, GoodList
<1>10. FlagInv'
  <2>1. phase = "gather" /\ ~mBegun => ChangedAt(list) = DOMAIN list
    BY <1>2 DEF FlagInv
  <2> QED BY <1>2, <1>6, <2>1 DEF FlagInv, Gathering
<1>11. MarkInv'
  BY <1>2, <1>6 DEF MarkInv, Gathering
<1>12. DeviceInv'
  <2>1. CASE phase = "gather" /\ Sweeping
    <3>1. pending' = [touched |-> TRUE, view |-> Observe(pending.view, a)]
      BY <1>2, <2>1 DEF Record, Told
    <3>2. pending.view.alarms = SaysAt(list, MarkedAt(list)).alarms
      <4>1. CASE pending.touched
        BY <2>1, <4>1 DEF DeviceInv
      <4>2. CASE ~pending.touched
        <5>1. MarkedAt(list) = {} /\ pending.view = AllNormal
          BY <2>1, <4>2 DEF DeviceInv
        <5>2. AlarmsAt(list, {}) = {}
          BY DEF AlarmsAt
        <5> QED BY <5>1, <5>2 DEF AllNormal, SaysAt
      <4> QED BY <4>1, <4>2
    <3>3. MarkedAt(list) \in SUBSET (DOMAIN list)
      BY DEF MarkedAt
    <3>4. SaysAt(list', MarkedAt(list')) = Observe(pending.view, a)
      BY <1>6, <1>8, <3>2, <3>3
    <3>5. MarkedAt(list') # {}
      BY <1>6
    <3> QED BY <1>2, <1>4, <2>1, <3>1, <3>4, <3>5 DEF DeviceInv, Sweeping
  <2>2. CASE ~(phase = "gather" /\ Sweeping)
    <3>1. device = Says(list)
      BY <2>2 DEF DeviceInv
    <3>2. ~Sweeping
      BY <1>2, <2>2 DEF FlagInv, Gathering, Sweeping
    <3>3. device' = Observe(device, a)
      BY <1>2, <3>2 DEF Record, Told
    <3>4. Says(list') = Observe(device, a)
      BY <1>7, <1>8, <3>1 DEF Says
    <3> QED BY <1>2, <3>2, <3>3, <3>4 DEF DeviceInv, Sweeping
  <2> QED BY <2>1, <2>2
<1>13. AgentInv'
  BY <1>2, <1>4, <1>6 DEF AgentInv, Gathering
<1> QED BY <1>4, <1>9, <1>10, <1>11, <1>12, <1>13

LEMMA RemoveAlarmInv ==
  ASSUME NEW code \in Codes
  PROVE  ConditionInv /\ mSimple /\ RemoveAlarm(code) => ConditionInv'
<1> SUFFICES ASSUME ConditionInv, mSimple, RemoveAlarm(code) PROVE ConditionInv'
  OBVIOUS
<1> USE DEF ConditionInv
<1> DEFINE a == Alarm("NORMAL", NoDetail, code)
<1>1. /\ Gathering /\ PositionOf(list, code) > 0
      /\ list' = RemoveFrom(list, code)
      /\ mChanged' = TRUE /\ cleared' = TRUE
      /\ Record(Observe(Told, a))
      /\ UNCHANGED <<mSimple, mBegun, mPrepared, phase, connected, agent>>
  BY DEF RemoveAlarm
<1>2. ~Sweeping /\ ~Sweeping'
  BY <1>1 DEF Sweeping
<1>3. device = Says(list) /\ device' = Observe(device, a) /\ pending' = pending
  BY <1>1, <1>2 DEF DeviceInv, Record, Told
<1> HIDE DEF a
<1>4. /\ GoodList(list')
      /\ Says(list') = Observe(Says(list), a)
      /\ \A view : Behind(list, ChangedAt(list), view) => Behind(list', ChangedAt(list'), view)
      /\ (\A i \in DOMAIN list : Kept(list[i]) \/ list[i].level = "NORMAL")
           => \A i \in DOMAIN list' : Kept(list'[i]) \/ list'[i].level = "NORMAL"
  BY <1>1, RemoveFromIs DEF a
<1>5. device' = Says(list')
  BY <1>3, <1>4
<1>6. TypeOK'
  <2>1. device' \in View
    BY <1>4, <1>5, SaysView
  <2> QED BY <1>1, <1>3, <1>4, <2>1 DEF TypeOK, GoodList
<1>7. FlagInv'
  BY <1>1 DEF FlagInv, Gathering
<1>8. MarkInv'
  BY <1>1, <1>4 DEF MarkInv, Gathering
<1>9. DeviceInv'
  BY <1>2, <1>5 DEF DeviceInv
<1>10. AgentInv'
  BY <1>1, <1>4 DEF AgentInv, Gathering
<1> QED BY <1>4, <1>6, <1>7, <1>8, <1>9, <1>10

\* normal() or unavailable(): what it does to the list and the agent.
LEMMA ClearAllIs ==
  ASSUME ConditionInv, NEW level \in {"NORMAL", "UNAVAILABLE"}, ClearAll(level)
  PROVE  LET told == [avail |-> level = "NORMAL", alarms |-> {}]
         IN  /\ GoodList(list') /\ DOMAIN list' = {1}
             /\ list'[1].placeHolder /\ list'[1].marked
             /\ \A S : SaysAt(list', S) = told
             /\ Says(list') = told
             /\ Gathering /\ cleared' = TRUE
             /\ Record(told)
             /\ UNCHANGED <<mSimple, mBegun, mPrepared, phase, connected>>
             /\ mChanged' \in BOOLEAN
             /\ phase = "gather" /\ ~mBegun => mChanged'
             /\ phase = "init" => agent' = agent
             /\ phase = "gather" =>
                  /\ mBegun \/ ~connected => agent' = agent
                  /\ ~mBegun /\ connected => agent' = told
                  /\ connected => Behind(list', ChangedAt(list'), agent')
<1> USE DEF ConditionInv
<1> DEFINE told == [avail |-> level = "NORMAL", alarms |-> {}]
           l == ClearTo(list, level)
           chg == ~AlreadyIn(list, level) \/ mChanged
<1>1. /\ Gathering /\ mChanged' = chg /\ cleared' = TRUE
      /\ phase = "init" => list' = l /\ agent' = agent
      /\ phase # "init" => SendChangedData(l, chg)
      /\ Record(Observe(Told, Alarm(level, NoDetail, NoCode)))
      /\ UNCHANGED <<mSimple, mBegun, mPrepared, phase, connected>>
  BY DEF ClearAll
<1>2. Record(told)
  <2>1. Told \in View
    BY DEF Told, TypeOK
  <2>2. Observe(Told, Alarm(level, NoDetail, NoCode)) = told
    BY <2>1, ViewsAreViews
  <2> HIDE DEF told
  <2> QED BY <1>1, <2>2
<1>3. /\ GoodList(l)
      /\ DOMAIN l = {1} /\ l[1].placeHolder /\ l[1].marked
      /\ l[1].level = level /\ l[1].code = NoCode
      /\ \A S : SaysAt(l, S) = told
      /\ Says(l) = told
      /\ \A view : Behind(list, ChangedAt(list), view) => Behind(l, ChangedAt(l), view)
  BY ClearToIs
<1>4. mChanged \in BOOLEAN /\ mPrepared \in BOOLEAN /\ mBegun \in BOOLEAN /\ agent \in View
  BY DEF TypeOK
<1> HIDE DEF l, told
<1>5. chg \in BOOLEAN /\ (phase = "gather" /\ ~mBegun => chg)
  BY <1>4 DEF FlagInv, AlreadyIn
<1> HIDE DEF chg
<1>6. CASE phase = "init"
  BY <1>1, <1>2, <1>3, <1>5, <1>6 DEF told
<1>7. CASE phase = "gather" /\ mBegun
  <2>1. mPrepared = FALSE
    BY <1>4, <1>7 DEF FlagInv
  <2>2. AppendList(l, mBegun, mPrepared) = l /\ AppendLines(l, mBegun, mPrepared) = <<>>
    BY <1>7, <2>1 DEF AppendList, AppendLines
  <2>3. ObserveAll(agent, <<>>) = agent
    BY <1>3, <1>4, NothingMissing
  <2>4. list' = l /\ agent' = agent
    BY <1>1, <1>7, <2>2, <2>3 DEF SendChangedData
  <2>5. connected => Behind(l, ChangedAt(l), agent)
    BY <1>3, <1>7 DEF AgentInv
  <2> QED BY <1>1, <1>2, <1>3, <1>5, <1>7, <2>4, <2>5 DEF told
<1>8. CASE phase = "gather" /\ ~mBegun
  <2>1. mBegun = FALSE /\ chg = TRUE
    BY <1>4, <1>5, <1>8
  <2>2. list' = Said(l)
    BY <1>1, <1>8, <2>1 DEF SendChangedData, AppendList
  <2>3. /\ GoodList(list') /\ DOMAIN list' = DOMAIN l /\ Says(list') = Says(l)
        /\ AllSaid(list') /\ list'[1].placeHolder = l[1].placeHolder
        /\ MarkedAt(list') = MarkedAt(l)
        /\ list'[1].level = l[1].level
    BY <1>3, <2>2, SaidIs
  <2>4. list'[1].marked
    BY <1>3, <2>3 DEF MarkedAt
  <2>5. \A S : SaysAt(list', S) = told
    BY <1>3, <2>3 DEF SaysAt, told
  <2>6. ASSUME connected PROVE agent' = told
    <3>1. Behind(l, ChangedAt(l), agent)
      BY <1>3, <1>8, <2>6 DEF AgentInv
    <3>2. ObserveAll(agent, AppendLines(l, mBegun, mPrepared)) = Says(l)
      BY <1>3, <1>4, <2>1, <3>1, AppendLinesIs
    <3> QED BY <1>1, <1>3, <1>8, <2>1, <2>6, <3>2 DEF SendChangedData
  <2>7. ~connected => agent' = agent
    BY <1>1, <1>8 DEF SendChangedData
  <2>8. connected => Behind(list', ChangedAt(list'), agent')
    BY <1>3, <2>3, <2>6, SaysBehind
  <2> QED BY <1>1, <1>2, <1>3, <1>5, <1>8, <2>3, <2>4, <2>5, <2>6, <2>7, <2>8 DEF told
<1> QED BY <1>1, <1>4, <1>6, <1>7, <1>8 DEF Gathering

LEMMA ClearAllInv ==
  ASSUME NEW level \in {"NORMAL", "UNAVAILABLE"}
  PROVE  ConditionInv /\ ClearAll(level) => ConditionInv'
<1> SUFFICES ASSUME ConditionInv, ClearAll(level) PROVE ConditionInv'
  OBVIOUS
<1> USE DEF ConditionInv
<1> DEFINE told == [avail |-> level = "NORMAL", alarms |-> {}]
<1>1. /\ GoodList(list') /\ DOMAIN list' = {1}
      /\ list'[1].placeHolder /\ list'[1].marked
      /\ \A S : SaysAt(list', S) = told
      /\ Says(list') = told
      /\ Gathering /\ cleared' = TRUE
      /\ Record(told)
      /\ UNCHANGED <<mSimple, mBegun, mPrepared, phase, connected>>
      /\ mChanged' \in BOOLEAN
      /\ phase = "gather" /\ ~mBegun => mChanged'
      /\ phase = "init" => agent' = agent
      /\ phase = "gather" =>
           /\ mBegun \/ ~connected => agent' = agent
           /\ ~mBegun /\ connected => agent' = told
           /\ connected => Behind(list', ChangedAt(list'), agent')
  BY ClearAllIs
<1>2. told \in View
  BY <1>1, SaysView
<1> HIDE DEF told
<1>3. TypeOK'
  <2>1. agent' \in View
    BY <1>1, <1>2 DEF TypeOK, Gathering
  <2>2. device' \in View /\ pending' \in [touched : BOOLEAN, view : View]
    BY <1>1, <1>2, RecordTyped DEF TypeOK
  <2>3. list' \in Seq(EntrySet)
    BY <1>1 DEF GoodList
  <2> QED BY <1>1, <2>1, <2>2, <2>3 DEF TypeOK
<1>4. FlagInv'
  BY <1>1 DEF FlagInv, Gathering
<1>5. MarkInv'
  BY <1>1 DEF MarkInv, Gathering, Kept
<1>6. DeviceInv'
  <2>1. CASE Sweeping
    <3>1. pending' = [touched |-> TRUE, view |-> told] /\ phase = "gather"
      BY <1>1, <2>1 DEF Record, Gathering, FlagInv, Sweeping
    <3>2. MarkedAt(list') # {}
      BY <1>1 DEF MarkedAt
    <3> QED BY <1>1, <2>1, <3>1, <3>2 DEF DeviceInv, Sweeping
  <2>2. CASE ~Sweeping
    <3>1. device' = told
      BY <1>1, <2>2 DEF Record
    <3> QED BY <1>1, <2>2, <3>1 DEF DeviceInv, Sweeping
  <2> QED BY <2>1, <2>2
<1>7. AgentInv'
  BY <1>1 DEF AgentInv, Gathering
<1> QED BY <1>1, <1>3, <1>4, <1>5, <1>6, <1>7

\* A list whose unmarked entries are NORMAL says what its marked ones say.
LEMMA MarkedSays ==
  ASSUME NEW l, GoodList(l), \A i \in DOMAIN l : Kept(l[i]) \/ l[i].level = "NORMAL"
  PROVE  SaysAt(l, MarkedAt(l)) = Says(l)
<1>1. CASE l[1].placeHolder
  BY <1>1 DEF Says, SaysAt
<1>2. CASE ~l[1].placeHolder
  <2>1. \A i \in DOMAIN l : ~l[i].placeHolder
    BY <1>2, GoodFacts
  <2>2. \A i \in DOMAIN l : l[i].level \in Bad => i \in MarkedAt(l)
    BY <2>1 DEF Kept, MarkedAt, Bad
  <2>3. MarkedAt(l) \in SUBSET (DOMAIN l)
    BY DEF MarkedAt
  <2>4. AlarmsAt(l, MarkedAt(l)) = AlarmsAt(l, DOMAIN l)
    BY <2>2, <2>3 DEF AlarmsAt
  <2> QED BY <1>2, <2>4 DEF Says, SaysAt
<1> QED BY <1>1, <1>2

LEMMA PrepareInv == ConditionInv /\ Prepare => ConditionInv'
<1> SUFFICES ASSUME ConditionInv, Prepare PROVE ConditionInv'
  OBVIOUS
<1> USE DEF ConditionInv
<1>1. phase = "gather" /\ phase' = "prepared" /\ UNCHANGED <<mSimple, mBegun, cleared, pending, connected, agent>>
  BY DEF Prepare
<1>2. TypeOK /\ GoodList(list)
  OBVIOUS
<1>3. CASE mBegun
  <2>1. /\ list' = Sweep(list) /\ mPrepared' = TRUE
        /\ mChanged' = (mChanged \/ \E i \in DOMAIN list' : list'[i].changed)
        /\ device' = IF mSimple THEN device ELSE Swept
    BY <1>3 DEF Prepare
  <2>2. /\ GoodList(list')
        /\ KeptAt(list') # {}
        /\ \A i \in DOMAIN list' : Kept(list'[i]) \/ list'[i].level = "NORMAL"
        /\ KeptAt(list) = {} => Says(list') = AllNormal
        /\ KeptAt(list) # {} => Says(list') = SaysAt(list, MarkedAt(list))
        /\ \A view : Behind(list, ChangedAt(list), view) => Behind(list', ChangedAt(list'), view)
    BY <2>1, SweepIs
  <2>3. device' = Says(list')
    <3>1. CASE mSimple
      <4>1. device = Says(list) /\ device' = device
        BY <2>1, <3>1 DEF DeviceInv, Sweeping
      <4>2. \A i \in DOMAIN list : Kept(list[i]) \/ list[i].level = "NORMAL"
        BY <3>1 DEF MarkInv
      <4>3. SaysAt(list, MarkedAt(list)) = Says(list)
        BY <1>2, <4>2, MarkedSays
      <4>4. ASSUME KeptAt(list) = {} PROVE Says(list) = AllNormal
        <5>1. \A i \in DOMAIN list : list[i].level = "NORMAL" /\ ~list[i].placeHolder
          BY <4>2, <4>4 DEF KeptAt, Kept
        <5>2. AlarmsAt(list, DOMAIN list) = {}
          BY <5>1 DEF AlarmsAt, Bad
        <5> QED BY <5>1, <5>2, GoodFacts DEF Says, SaysAt, AllNormal
      <4> QED BY <2>2, <4>1, <4>3, <4>4
    <3>2. CASE ~mSimple
      <4>1. Sweeping /\ device' = Swept
        BY <1>3, <2>1, <3>2 DEF Sweeping
      <4>2. CASE pending.touched
        <5>1. MarkedAt(list) # {} /\ pending.view = SaysAt(list, MarkedAt(list))
          BY <1>1, <4>1, <4>2 DEF DeviceInv
        <5>2. KeptAt(list) # {}
          BY <5>1 DEF KeptAt, MarkedAt, Kept
        <5> QED BY <2>2, <4>1, <4>2, <5>1, <5>2 DEF Swept
      <4>3. CASE ~pending.touched
        <5>1. MarkedAt(list) = {} /\ device = Says(list)
          BY <1>1, <4>1, <4>3 DEF DeviceInv
        <5>2. CASE list[1].placeHolder
          <6>1. KeptAt(list) # {}
            BY <1>2, <5>2, GoodFacts DEF KeptAt, Kept
          <6>2. Says(list') = Says(list)
            BY <2>2, <5>2, <6>1 DEF Says, SaysAt
          <6>3. device = [avail |-> list[1].level = "NORMAL", alarms |-> {}]
            BY <5>1, <5>2 DEF Says, SaysAt
          <6>4. device.avail = (list[1].level = "NORMAL") /\ device.avail \in BOOLEAN
            BY <1>2, <6>3 DEF TypeOK, View
          <6>5. Swept = device
            BY <4>3, <6>3, <6>4 DEF Swept, AllNormal, Unknown
          <6> QED BY <4>1, <5>1, <6>2, <6>5
        <5>3. CASE ~list[1].placeHolder
          <6>1. \A i \in DOMAIN list : ~list[i].placeHolder
            BY <1>2, <5>3, GoodFacts
          <6>2. KeptAt(list) = {}
            BY <5>1, <6>1 DEF KeptAt, MarkedAt, Kept
          <6>3. device.avail = TRUE
            BY <5>1, <5>3 DEF Says, SaysAt
          <6> QED BY <2>2, <4>1, <4>3, <6>2, <6>3 DEF Swept
        <5> QED BY <5>2, <5>3
      <4> QED BY <4>2, <4>3
    <3> QED BY <3>1, <3>2
  <2>4. TypeOK'
    <3>1. device' \in View
      BY <2>2, <2>3, SaysView
    <3>2. mChanged' \in BOOLEAN
      BY <2>1, <1>2 DEF TypeOK
    <3>3. list' \in Seq(EntrySet)
      BY <2>2 DEF GoodList
    <3> QED BY <1>1, <1>2, <2>1, <3>1, <3>2, <3>3 DEF TypeOK
  <2>5. FlagInv'
    <3>1. ~mChanged' => AllSaid(list')
      BY <2>1 DEF AllSaid, ChangedAt
    <3> QED BY <1>1, <1>3, <2>1, <3>1 DEF FlagInv
  <2>6. MarkInv'
    BY <1>1, <2>2 DEF MarkInv
  <2>7. DeviceInv'
    BY <1>1, <2>3 DEF DeviceInv
  <2>8. AgentInv'
    BY <1>1, <2>2 DEF AgentInv
  <2> QED BY <2>2, <2>4, <2>5, <2>6, <2>7, <2>8
<1>4. CASE ~mBegun
  <2>1. UNCHANGED <<list, mPrepared, mChanged, device>>
    BY <1>4 DEF Prepare
  <2>2. TypeOK' /\ GoodList(list')
    BY <1>1, <1>2, <2>1 DEF TypeOK
  <2>3. FlagInv'
    BY <1>1, <1>4, <2>1 DEF FlagInv
  <2>4. MarkInv'
    BY <1>1, <1>4, <2>1 DEF MarkInv
  <2>5. DeviceInv'
    BY <1>1, <1>4, <2>1 DEF DeviceInv, Sweeping
  <2>6. AgentInv'
    BY <1>1, <2>1 DEF AgentInv
  <2> QED BY <2>2, <2>3, <2>4, <2>5, <2>6
<1> QED BY <1>3, <1>4

\* What sendChangedData() and sendInitialData() show the agent.
LEMMA SendIs ==
  ASSUME ConditionInv, Send
  PROVE  /\ GoodList(list') /\ AllSaid(list') /\ Says(list') = Says(list)
         /\ (\A i \in DOMAIN list : Kept(list[i]) \/ list[i].level = "NORMAL")
              => \A i \in DOMAIN list' : Kept(list'[i]) \/ list'[i].level = "NORMAL"
         /\ connected => agent' = Says(list)
         /\ ~connected => agent' = agent
<1> USE DEF ConditionInv
<1>1. phase = "prepared" /\ SendChangedData(list, mChanged)
  BY DEF Send
<1>2. mBegun \in BOOLEAN /\ mPrepared \in BOOLEAN /\ (mBegun => mPrepared)
      /\ mChanged \in BOOLEAN /\ agent \in View
  BY <1>1 DEF FlagInv, TypeOK
<1>3. connected => Behind(list, ChangedAt(list), agent)
  BY <1>1 DEF AgentInv
<1>4. CASE mChanged
  <2>1. mBegun => KeptAt(list) # {} /\ \A i \in DOMAIN list : Kept(list[i]) \/ list[i].level = "NORMAL"
    BY <1>1 DEF MarkInv
  <2>2. list' = AppendList(list, mBegun, mPrepared)
    BY <1>1, <1>4 DEF SendChangedData
  <2>3. /\ GoodList(list') /\ AllSaid(list') /\ Says(list') = Says(list)
        /\ (\A i \in DOMAIN list : Kept(list[i]) \/ list[i].level = "NORMAL")
              => \A i \in DOMAIN list' : Kept(list'[i]) \/ list'[i].level = "NORMAL"
    BY <1>2, <2>1, <2>2, AppendListIs
  <2>4. connected => ObserveAll(agent, AppendLines(list, mBegun, mPrepared)) = Says(list)
    BY <1>2, <1>3, AppendLinesIs
  <2> QED BY <1>1, <1>4, <2>3, <2>4 DEF SendChangedData
<1>5. CASE ~mChanged
  <2>1. list' = list /\ agent' = agent
    BY <1>1, <1>5 DEF SendChangedData
  <2>2. AllSaid(list)
    BY <1>1, <1>5 DEF FlagInv
  <2>3. connected => agent = Says(list)
    BY <1>2, <1>3, <2>2, NothingMissing DEF AllSaid
  <2> QED BY <2>1, <2>2, <2>3
<1> QED BY <1>4, <1>5

LEMMA SendInv == ConditionInv /\ Send => ConditionInv'
<1> SUFFICES ASSUME ConditionInv, Send PROVE ConditionInv'
  OBVIOUS
<1> USE DEF ConditionInv
<1>1. /\ phase = "prepared" /\ phase' = "sent"
      /\ UNCHANGED <<mSimple, mBegun, mPrepared, mChanged, cleared, device, pending, connected>>
  BY DEF Send
<1>2. /\ GoodList(list') /\ AllSaid(list') /\ Says(list') = Says(list)
      /\ (\A i \in DOMAIN list : Kept(list[i]) \/ list[i].level = "NORMAL")
              => \A i \in DOMAIN list' : Kept(list'[i]) \/ list'[i].level = "NORMAL"
      /\ connected => agent' = Says(list)
      /\ ~connected => agent' = agent
  BY SendIs
<1>3. TypeOK'
  <2>1. agent' \in View
    BY <1>2, SaysView DEF TypeOK
  <2> QED BY <1>1, <1>2, <2>1 DEF TypeOK, GoodList
<1>4. FlagInv'
  BY <1>1 DEF FlagInv
<1>5. MarkInv'
  BY <1>1, <1>2 DEF MarkInv
<1>6. DeviceInv'
  BY <1>1, <1>2 DEF DeviceInv
<1>7. AgentInv'
  BY <1>1, <1>2 DEF AgentInv
<1> QED BY <1>2, <1>3, <1>4, <1>5, <1>6, <1>7

LEMMA NextInv == ConditionInv /\ [Next]_vars => ConditionInv'
<1> SUFFICES ASSUME ConditionInv, [Next]_vars PROVE ConditionInv'
  OBVIOUS
<1>1. CASE UNCHANGED vars
  BY <1>1 DEF vars, ConditionInv, TypeOK, FlagInv, MarkInv, DeviceInv, AgentInv, Sweeping
<1>2. CASE Connect
  BY <1>2, ConnectInv
<1>3. CASE Disconnect
  BY <1>3, DisconnectInv
<1>4. CASE Report
  BY <1>4, AddAlarmInv, ClearAllInv, RemoveAlarmInv DEF Report
<1>5. CASE Loop
  BY <1>5, SendInitialInv, BeginInv, PrepareInv, SendInv, CleanupInv DEF Loop
<1> QED BY <1>1, <1>2, <1>3, <1>4, <1>5 DEF Next

-----------------------------------------------------------------------------
(* The theorems. *)

LEMMA Invariance == Spec => []ConditionInv
<1> QED BY InitInv, NextInv, PTL DEF Spec

\* The fields of the item and of its observer keep their types.
THEOREM ConditionTypes == Spec => []TypeOK
<1>1. ConditionInv => TypeOK
  BY DEF ConditionInv
<1> QED BY <1>1, Invariance, PTL

\* add()'s test "mActiveCount == 1" finds a lone NORMAL or UNAVAILABLE and
\* nothing else, however many alarms prepare() and append() came and took.
THEOREM ShapeKept == Spec => []ListShape
<1>1. ConditionInv => ListShape
  BY DEF ConditionInv, GoodList, ListShape
<1> QED BY <1>1, Invariance, PTL

\* Every alarm that the agent shows has an entry by which it can be cleared,
\* or the line that clears them all is still to be written.
THEOREM AlarmsClearable == Spec => []NoOrphanAlarm
<1>1. ConditionInv => NoOrphanAlarm
  <2> SUFFICES ASSUME ConditionInv, connected, NEW a \in agent.alarms
               PROVE  \/ \E i \in DOMAIN list : list[i].code = a.code
                      \/ Len(list) = 1 /\ list[1].placeHolder /\ list[1].changed
    BY DEF NoOrphanAlarm
  <2>1. Behind(list, ChangedAt(list), agent)
    <3>1. GoodList(list)
      BY DEF ConditionInv
    <3>2. CASE phase = "init"
      BY <3>2 DEF ConditionInv, AgentInv, Unknown
    <3>3. CASE phase \in {"gather", "prepared"}
      BY <3>3 DEF ConditionInv, AgentInv
    <3>4. CASE phase \in {"idle", "sent"}
      <4>1. agent = Says(list)
        BY <3>4 DEF ConditionInv, AgentInv
      <4> QED BY <3>1, <4>1, SaysBehind
    <3> QED BY <3>2, <3>3, <3>4 DEF ConditionInv, TypeOK
  <2>2. GoodList(list)
    BY DEF ConditionInv
  <2>3. list[1].placeHolder => Len(list) = 1
    BY <2>2, GoodFacts
  <2> QED BY <2>1, <2>3 DEF Behind, ChangedAt
<1> QED BY <1>1, Invariance, PTL

\* Mark and sweep works: when a scan has been sent, a connected agent shows
\* the alarms the scan reported and no other, across any number of scans,
\* reconnects and calls of normal(), unavailable() and remove().
THEOREM ScanReachesAgent == Spec => []AgentInStep
<1>1. ConditionInv => AgentInStep
  BY DEF ConditionInv, AgentInv, DeviceInv, AgentInStep
<1> QED BY <1>1, Invariance, PTL

\* Every step of the item is one the abstract promise allows: the agent
\* moves from one whole report to a later one, never to a mixture.
THEOREM ImplementsFeed == Spec => Feed!Init /\ [][Feed!Next]_(Feed!vars)
<1>1. Init => Feed!Init
  BY DEF Init, Feed!Init
<1>2. ASSUME ConditionInv, [Next]_vars PROVE [Feed!Next]_(Feed!vars)
  <2> USE DEF Feed!vars, Feed!Next
  <2>1. CASE UNCHANGED vars
    BY <2>1 DEF vars
  <2>2. CASE Connect
    BY <2>2 DEF Connect, Feed!Link
  <2>3. CASE Disconnect
    BY <2>3 DEF Disconnect, Feed!Unlink
  <2>4. ConditionInv'
    BY <1>2, NextInv
  <2>5. device' \in View
    BY <2>4 DEF ConditionInv, TypeOK
  <2>6. ASSUME NEW level \in ReportLevels, NEW detail \in Details, NEW code \in Codes,
               AddAlarm(level, detail, code)
        PROVE  Feed!Learn
    BY <2>5, <2>6 DEF AddAlarm, Feed!Learn
  <2>7. ASSUME NEW code \in Codes, RemoveAlarm(code) PROVE Feed!Learn
    BY <2>5, <2>7 DEF RemoveAlarm, Feed!Learn
  <2>8. ASSUME NEW level \in {"NORMAL", "UNAVAILABLE"}, ClearAll(level) PROVE Feed!Learn
    <3> DEFINE told == [avail |-> level = "NORMAL", alarms |-> {}]
    <3>1. /\ Gathering /\ Record(told) /\ UNCHANGED <<mSimple, mBegun, connected>>
          /\ phase = "init" => agent' = agent
          /\ phase = "gather" =>
               /\ mBegun \/ ~connected => agent' = agent
               /\ ~mBegun /\ connected => agent' = told
      BY <1>2, <2>8, ClearAllIs
    <3> HIDE DEF told
    <3>2. agent' = agent \/ (connected /\ ~mBegun /\ agent' = told)
      BY <3>1 DEF Gathering
    <3>3. ~mBegun => device' = told
      BY <3>1 DEF Record, Sweeping
    <3> QED BY <2>5, <3>1, <3>2, <3>3 DEF Feed!Learn
  <2>9. CASE Report
    BY <2>6, <2>7, <2>8, <2>9 DEF Report
  <2>10. CASE SendInitial
    <3>1. /\ connected => agent' = device
          /\ ~connected => agent' = agent
          /\ UNCHANGED <<device, connected>>
      <4>1. phase' = "idle" /\ UNCHANGED <<device, connected>> /\ (~connected => agent' = agent)
        BY <2>10 DEF SendInitial
      <4>2. connected => agent' = device'
        BY <2>4, <4>1 DEF ConditionInv, AgentInv, DeviceInv
      <4> QED BY <4>1, <4>2
    <3> QED BY <3>1 DEF Feed!Publish
  <2>11. CASE Send
    <3>1. /\ connected => agent' = device
          /\ ~connected => agent' = agent
          /\ UNCHANGED <<device, connected>>
      <4>1. phase' = "sent" /\ UNCHANGED <<device, connected>> /\ (~connected => agent' = agent)
        BY <1>2, <2>11, SendIs DEF Send
      <4>2. connected => agent' = device'
        BY <2>4, <4>1 DEF ConditionInv, AgentInv, DeviceInv
      <4> QED BY <4>1, <4>2
    <3> QED BY <3>1 DEF Feed!Publish
  <2>12. CASE Prepare
    BY <2>5, <2>12 DEF Prepare, Feed!Learn
  <2>13. CASE Begin \/ Cleanup
    BY <2>13 DEF Begin, Cleanup
  <2> QED BY <1>2, <2>1, <2>2, <2>3, <2>9, <2>10, <2>11, <2>12, <2>13 DEF Next, Loop
<1> QED BY <1>1, <1>2, Invariance, PTL DEF Spec
=============================================================================
