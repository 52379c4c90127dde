------------------------------ MODULE ForkProofs ------------------------------
(***************************************************************************)
(* The fork engine.  ForkEvents: HandedOnceInOrder, OnlyForgottenSkipped   *)
(* and ResetIsARestart for any number of kinds, events, engine instances   *)
(* and fetches and any log.  ForkQueue: QueueIsWindow and TakeStands for   *)
(* any rundown and depth and any number of attempts, retries, edits,       *)
(* takes and faults.                                                       *)
(***************************************************************************)
EXTENDS ForkEvents, ForkQueue, FiniteSetTheorems, SequenceTheorems, WellFoundedInduction, TLAPS

Live == {f \in fetches : f.pc # "emit"}
Emission == Event \cup {Nothing}
Cursor == [fork : BOOLEAN, inst : 0..MaxInst, last : 0..MaxSeq, announced : 0..MaxSeq,
           pending : SUBSET Event, fetching : BOOLEAN, rested : BOOLEAN,
           from : 0..MaxInst, base : 0..MaxSeq]
Fetch == [pc : {"asked", "answered", "emit"}, since : 0..MaxSeq, inst : 0..MaxInst,
          seq : 0..MaxSeq, events : SUBSET Event, out : Seq(Emission)]

EventsType ==
  /\ eng \in [inst : Instances, seq : 0..MaxSeq, newest : [Kinds -> 0..MaxSeq]]
  /\ net \in Seq([inst : Instances, seq : 0..MaxSeq, events : SUBSET Event]) /\ Len(net) <= 1
  /\ cursor \in Cursor
  /\ osc \in [pc : {"idle", "drain", "emit"}, out : Seq(Emission)]
  /\ fetches \subseteq Fetch
  /\ probe \in [inst : 0..MaxInst, seq : 0..MaxSeq]
  /\ handed \in Seq(Event)

\* An event that no later datagram will show.
Overwritten(s) == s \in 1..eng.seq /\ \A k \in Kinds : eng.newest[k] # s

\* A datagram is of the engine that runs, and shows what was not overwritten.
Datagram ==
  /\ \A k \in Kinds : eng.newest[k] <= eng.seq
  /\ net # <<>> =>
       /\ net[1].inst = eng.inst /\ net[1].seq <= eng.seq
       /\ net[1].events \subseteq Events(eng.inst, 1..net[1].seq)
       /\ \A s \in 1..net[1].seq : s \in Seqs(net[1].events) \/ Overwritten(s)

\* So what is pending is of that engine, and right after a datagram it is all
\* that the engine still shows of what it has announced.
Observed ==
  /\ cursor.announced <= eng.seq
  /\ Seqs(cursor.pending) \subseteq 1..cursor.announced
  /\ \A s \in 1..cursor.announced : s \in Seqs(cursor.pending) \/ Overwritten(s)
  /\ net # <<>> => /\ cursor.announced <= net[1].seq
                   /\ Seqs(net[1].events) \cap 1..cursor.announced \subseteq Seqs(cursor.pending)
Pending ==
  /\ cursor.pending \subseteq Events(eng.inst, 1..eng.seq)
  /\ net # <<>> => Seqs(cursor.pending) \subseteq 1..net[1].seq
  /\ osc.pc = "drain" => Observed

\* Once the cursor counts the events of the engine that runs it is never ahead
\* of what is still to come.
HandedHere == \E h \in Range(handed) : h.inst = eng.inst
Joined == cursor.from = eng.inst \/ Live # {} \/ HandedHere
Abreast ==
  /\ cursor.last <= eng.seq
  /\ net # <<>> => cursor.last <= net[1].seq
  /\ osc.pc = "drain" => cursor.last <= cursor.announced
KnowsEngine ==
  /\ cursor.from <= eng.inst /\ cursor.inst <= eng.inst
  /\ cursor.inst = eng.inst => cursor.from = eng.inst
  /\ Joined => Abreast

\* One fetch is out at a time. The event after the one it asks from is lost to
\* OSC, so the cursor waits for it, unless a probe moves it on.
Hole(s) ==
  /\ Overwritten(s) /\ s \notin Seqs(cursor.pending)
  /\ net # <<>> => s \notin Seqs(net[1].events)
Answer(f) ==
  /\ f.inst = eng.inst /\ f.since <= f.seq /\ f.seq <= eng.seq
  /\ f.events \subseteq Events(eng.inst, (f.since + 1)..f.seq)
  /\ \A s \in (f.since + 1)..f.seq : s < Oldest \/ [inst |-> eng.inst, seq |-> s] \in f.events
Fetching ==
  /\ \A f, g \in Live : f = g
  /\ \A f \in Live :
       /\ cursor.fetching /\ f.since <= cursor.last
       /\ cursor.inst # eng.inst => f.since = cursor.last /\ Hole(f.since + 1)
       /\ f.pc = "answered" => Answer(f)

\* A probe that is under way is not older than the cursor.
Probed ==
  probe # Nothing =>
    /\ probe.inst = eng.inst /\ probe.seq <= eng.seq
    /\ cursor.inst # eng.inst => /\ Joined => cursor.last <= probe.seq
                                 /\ osc.pc = "drain" => cursor.announced <= probe.seq

HandedBefore ==
  \A h \in Range(handed) : h.inst < eng.inst \/ (h.inst = eng.inst /\ h.seq <= cursor.last)

EventInv ==
  /\ EventsType /\ Datagram /\ Pending /\ KnowsEngine /\ Fetching /\ Probed
  /\ HandedBefore /\ HandedOnceInOrder /\ OnlyForgottenSkipped

-----------------------------------------------------------------------------
\* The maximum of some numbers up to n is one of them.
LEMMA MaxIsLast ==
  ASSUME NEW n \in Nat, NEW S \in SUBSET (0..n), S # {}
  PROVE  Max(S) \in S /\ \A y \in S : y <= Max(S)
<1> DEFINE T == {n - x : x \in S}
<1>1. T \subseteq Nat /\ T # {}
  <2>1. \A x \in S : n - x \in Nat
    OBVIOUS
  <2> QED
    BY <2>1
<1>2. PICK m \in T : \A y \in T : ~(<<y, m>> \in OpToRel(<, Nat))
  BY <1>1, NatLessThanWellFounded, WFMin
<1>3. PICK x \in S : m = n - x
  OBVIOUS
<1>4. ASSUME NEW y \in S PROVE x >= y
  <2>1. n - y \in T /\ n - y \in Nat /\ m \in Nat
    BY <1>1
  <2>2. ~(n - y < m)
    BY <1>2, <2>1 DEF OpToRel
  <2> QED
    BY <1>3, <2>2
<1>5. Max(S) \in S /\ \A y \in S : Max(S) >= y
  BY <1>4 DEF Max
<1> QED
  BY <1>5

\* InOrder lists the events of a set, each once, by their numbers.
LEMMA InOrderLists ==
  ASSUME NEW E \in SUBSET Event, IsFiniteSet(E), \A d, e \in E : d.seq = e.seq => d = e
  PROVE  /\ InOrder(E) \in Seq(E) /\ Len(InOrder(E)) = Cardinality(E)
         /\ \A e \in E : \E i \in 1..Len(InOrder(E)) : InOrder(E)[i] = e
         /\ \A i, j \in 1..Len(InOrder(E)) : i < j => InOrder(E)[i].seq < InOrder(E)[j].seq
<1> DEFINE n == Cardinality(E)
           upto(e) == {d \in E : d.seq <= e.seq}
           r == [e \in E |-> Rank(E, e)]
<1>1. n \in Nat
  BY FS_CardinalityType
<1>2. \A e \in E : e.seq \in Nat
  BY BoundAssumption DEF Event
<1>3. ASSUME NEW e \in E PROVE IsFiniteSet(upto(e)) /\ r[e] = Cardinality(upto(e)) /\ r[e] \in 1..n
  <2>1. IsFiniteSet(upto(e)) /\ Cardinality(upto(e)) <= n
    BY FS_Subset
  <2>2. Cardinality(upto(e)) \in Nat
    BY <2>1, FS_CardinalityType
  <2>3. e \in upto(e)
    BY <1>2
  <2>4. Cardinality(upto(e)) # 0
    BY <2>1, <2>3, FS_EmptySet
  <2> QED
    BY <1>1, <2>1, <2>2, <2>4 DEF Rank
<1>4. ASSUME NEW d \in E, NEW e \in E, d.seq < e.seq PROVE r[d] < r[e]
  <2>1. upto(d) \subseteq upto(e)
    BY <1>2, <1>4
  <2>2. e \in upto(e) /\ e \notin upto(d)
    BY <1>2, <1>4
  <2>3. IsFiniteSet(upto(e)) /\ Cardinality(upto(d)) <= Cardinality(upto(e))
        /\ Cardinality(upto(d)) # Cardinality(upto(e))
    BY <1>3, <2>1, <2>2, FS_Subset
  <2>4. /\ r[d] = Cardinality(upto(d)) /\ r[d] \in Nat
        /\ r[e] = Cardinality(upto(e)) /\ r[e] \in Nat
    <3>1. r[d] = Cardinality(upto(d)) /\ r[e] = Cardinality(upto(e))
      BY <1>3
    <3>2. r[d] \in 1..n /\ r[e] \in 1..n
      BY <1>3
    <3> HIDE DEF r, upto, n
    <3> QED
      BY <1>1, <3>1, <3>2
  <2> HIDE DEF r, upto
  <2> QED
    BY <2>3, <2>4
<1>a. r \in [E -> 1..n] /\ \A d, e \in E : d.seq < e.seq => r[d] < r[e]
  BY <1>3, <1>4
<1>b. \A e \in E : r[e] = Rank(E, e)
  OBVIOUS
<1> HIDE DEF r
<1>5. r \in Injection(E, 1..n)
  <2>1. r \in [E -> 1..n]
    BY <1>a
  <2>2. ASSUME NEW d \in E, NEW e \in E, r[d] = r[e] PROVE d = e
    <3>1. ~(d.seq < e.seq) /\ ~(e.seq < d.seq)
      BY <1>1, <1>a, <2>2
    <3> QED
      BY <1>2, <3>1
  <2> QED
    BY <2>1, <2>2 DEF Injection, IsInjective
<1>6. r \in Surjection(E, 1..n)
  BY <1>1, <1>5, FS_Injection, FS_Interval
<1>7. \A i \in 1..n : \E e \in E : r[e] = i
  BY <1>6 DEF Surjection
<1> DEFINE s == [i \in 1..n |-> CHOOSE e \in E : Rank(E, e) = i]
<1>8. ASSUME NEW i \in 1..n PROVE s[i] \in E /\ r[s[i]] = i
  <2>1. \E e \in E : Rank(E, e) = i
    BY <1>7, <1>b
  <2>2. Rank(E, s[i]) = i /\ s[i] \in E
    BY <2>1
  <2> QED
    BY <1>b, <2>2
<1> HIDE DEF s
<1>9. s \in Seq(E) /\ Len(s) = n
  BY <1>1, <1>8 DEF s
<1>10. \A e \in E : s[r[e]] = e
  <2> SUFFICES ASSUME NEW e \in E PROVE s[r[e]] = e
    OBVIOUS
  <2>1. r[e] \in 1..n
    BY <1>a
  <2>2. s[r[e]] \in E /\ r[s[r[e]]] = r[e]
    BY <1>8, <2>1
  <2> QED
    BY <1>5, <2>2 DEF Injection, IsInjective
<1>11. ASSUME NEW i \in 1..n, NEW j \in 1..n, i < j PROVE s[i].seq < s[j].seq
  <2>1. s[i] \in E /\ s[j] \in E /\ r[s[i]] < r[s[j]]
    BY <1>8, <1>11
  <2>2. ~(s[j].seq < s[i].seq)
    BY <1>1, <1>a, <2>1
  <2>3. s[i].seq # s[j].seq
    BY <1>1, <1>a, <2>1
  <2> QED
    BY <1>2, <2>1, <2>2, <2>3
<1>12. InOrder(E) = s
  BY DEF InOrder, s
<1> QED
  BY <1>a, <1>9, <1>10, <1>11, <1>12

\* What is handed out next goes to the end of the history.
LEMMA HandedGrows ==
  ASSUME NEW h \in Seq(Event), NEW E \in SUBSET Event, IsFiniteSet(E), NEW inst, NEW n \in Nat,
         inst \in Nat,
         \A i \in 1..(Len(h) - 1) : Precedes(h[i], h[i + 1]),
         \A x \in Range(h) : x.inst < inst \/ (x.inst = inst /\ x.seq <= n),
         \A e \in E : e.inst = inst /\ e.seq > n
  PROVE  LET g == h \o InOrder(E)
         IN  /\ g \in Seq(Event) /\ Range(g) = Range(h) \cup E
             /\ \A i \in 1..(Len(g) - 1) : Precedes(g[i], g[i + 1])
<1> DEFINE o == InOrder(E)
           g == h \o o
<1>1. \A e \in Event : e.inst \in Nat /\ e.seq \in Nat /\ e = [inst |-> e.inst, seq |-> e.seq]
  BY BoundAssumption DEF Event, Instances
<1>2. \A d, e \in E : d.seq = e.seq => d = e
  BY <1>1
<1>3. /\ o \in Seq(E) /\ \A e \in E : \E i \in 1..Len(o) : o[i] = e
      /\ \A i, j \in 1..Len(o) : i < j => o[i].seq < o[j].seq
  BY <1>2, InOrderLists
<1> HIDE DEF o
<1>4. /\ Len(h) \in Nat /\ Len(o) \in Nat /\ Len(g) = Len(h) + Len(o) /\ g \in Seq(Event)
      /\ \A i \in 1..Len(h) : g[i] = h[i] /\ h[i] \in Event
      /\ \A i \in 1..Len(o) : g[Len(h) + i] = o[i] /\ o[i] \in E
  BY <1>3, SMTT(60)
<1>5. Range(g) = Range(h) \cup E
  <2>1. DOMAIN g = 1..Len(g) /\ DOMAIN h = 1..Len(h)
    BY <1>4
  <2>2. ASSUME NEW i \in 1..Len(g) PROVE g[i] \in Range(h) \cup E
    <3>1. CASE i \in 1..Len(h)
      BY <1>4, <2>1, <3>1 DEF Range
    <3>2. CASE i - Len(h) \in 1..Len(o)
      <4>1. g[Len(h) + (i - Len(h))] = o[i - Len(h)] /\ Len(h) + (i - Len(h)) = i
        BY <1>4, <3>2
      <4> QED
        BY <1>4, <3>2, <4>1
    <3> QED
      BY <1>4, <3>1, <3>2
  <2>3. ASSUME NEW i \in 1..Len(h) PROVE h[i] \in Range(g)
    <3>1. i \in 1..Len(g) /\ g[i] = h[i]
      BY <1>4
    <3> QED
      BY <2>1, <3>1 DEF Range
  <2>4. ASSUME NEW e \in E PROVE e \in Range(g)
    <3>1. PICK i \in 1..Len(o) : o[i] = e
      BY <1>3
    <3>2. Len(h) + i \in 1..Len(g) /\ g[Len(h) + i] = e
      BY <1>4, <3>1
    <3> QED
      BY <2>1, <3>2 DEF Range
  <2> QED
    BY <2>1, <2>2, <2>3, <2>4 DEF Range
<1>6. ASSUME NEW i \in 1..(Len(g) - 1) PROVE Precedes(g[i], g[i + 1])
  <2>1. CASE i + 1 \in 1..Len(h)
    <3>1. i \in 1..(Len(h) - 1) /\ i \in 1..Len(h)
      BY <1>4, <2>1
    <3> QED
      BY <1>4, <2>1, <3>1
  <2>2. CASE i = Len(h)
    <3>1. /\ i \in 1..Len(h) /\ 1 \in 1..Len(o) /\ DOMAIN h = 1..Len(h)
          /\ g[i] = h[i] /\ g[i + 1] = o[1] /\ o[1] \in E
      BY <1>4, <2>2
    <3>2. h[i] \in Range(h) /\ h[i] \in Event /\ o[1] \in Event
      BY <1>4, <3>1 DEF Range
    <3>3. h[i].inst < inst \/ (h[i].inst = inst /\ h[i].seq <= n)
      BY <3>2
    <3>4. o[1].inst = inst /\ o[1].seq > n
      BY <3>1
    <3> QED
      BY <1>1, <3>1, <3>2, <3>3, <3>4, SMTT(60) DEF Precedes
  <2>3. CASE i - Len(h) \in 1..Len(o) /\ i + 1 - Len(h) \in 1..Len(o)
    <3> DEFINE j == i - Len(h)
    <3>1. j \in 1..Len(o) /\ j + 1 \in 1..Len(o) /\ j < j + 1 /\ Len(h) + j = i /\ Len(h) + (j + 1) = i + 1
      BY <1>4, <2>3
    <3>2. g[i] = o[j] /\ g[i + 1] = o[j + 1] /\ o[j] \in E /\ o[j + 1] \in E
      BY <1>4, <3>1
    <3>3. o[j].seq < o[j + 1].seq
      BY <1>3, <3>1
    <3>4. o[j].inst = inst /\ o[j + 1].inst = inst
      BY <3>2
    <3> QED
      BY <3>2, <3>3, <3>4 DEF Precedes
  <2> QED
    BY <1>4, <2>1, <2>2, <2>3
<1> QED
  BY <1>4, <1>5, <1>6 DEF o

\* Where the engine's constants live.
LEMMA EngineBounds ==
  /\ MaxSeq \in Nat /\ MaxInst \in Nat /\ LogSize \in Nat /\ LogSize > 0 /\ MaxInst > 0
  /\ \A e \in Event : e.inst \in Nat /\ e.inst > 0 /\ e.seq \in Nat /\ e.seq > 0 /\ e.seq <= MaxSeq
  /\ \A e \in Event : e = [inst |-> e.inst, seq |-> e.seq]
  /\ Nothing \notin Event
BY BoundAssumption DEF Event, Instances, Nothing

\* The members of Events(inst, S), and that there are finitely many.
LEMMA EventsAre ==
  ASSUME NEW inst, NEW S
  PROVE  \A e : e \in Events(inst, S) <=> \E s \in S : e = [inst |-> inst, seq |-> s]
BY DEF Events

\* There are finitely many events up to a number.
LEMMA EventsFinite ==
  ASSUME NEW inst, NEW n \in Nat, NEW E \in SUBSET Events(inst, 1..n)
  PROVE  IsFiniteSet(E)
<1> DEFINE f == [s \in 1..n |-> [inst |-> inst, seq |-> s]]
<1>1. IsFiniteSet(1..n)
  BY FS_Interval
<1>2. f \in Surjection(1..n, Events(inst, 1..n))
  BY DEF Events, Surjection
<1> HIDE DEF f
<1>3. IsFiniteSet(Events(inst, 1..n))
  BY <1>1, <1>2, FS_Surjection
<1> QED
  BY <1>3, FS_Subset

\* An engine event leaves what was overwritten overwritten and what was
\* forgotten forgotten.
LEMMA EngineGrows ==
  ASSUME EventsType, Datagram, EngineEvent
  PROVE  /\ eng'.inst = eng.inst /\ eng.seq \in Nat /\ eng'.seq = eng.seq + 1 /\ eng'.seq <= MaxSeq
         /\ \A s : Overwritten(s) => Overwritten(s)'
         /\ \A s \in Nat : s < Oldest => s < Oldest'
         /\ eng' \in [inst : Instances, seq : 0..MaxSeq, newest : [Kinds -> 0..MaxSeq]]
         /\ \A k \in Kinds : eng'.newest[k] <= eng'.seq
<1>1. PICK k \in Kinds : eng' = [eng EXCEPT !.seq = @ + 1, !.newest[k] = eng.seq + 1]
  BY DEF EngineEvent
<1>2. /\ eng.seq \in Nat /\ eng.seq + 1 \in 0..MaxSeq /\ eng.inst \in Instances
      /\ eng.newest \in [Kinds -> 0..MaxSeq]
      /\ \A j \in Kinds : eng.newest[j] <= eng.seq /\ eng.newest[j] \in Nat
  BY EngineBounds, SMTT(60) DEF EventsType, EngineEvent, Datagram
<1>3. eng'.inst = eng.inst /\ eng'.seq = eng.seq + 1 /\ eng'.newest = [eng.newest EXCEPT ![k] = eng.seq + 1]
      /\ eng' = [inst |-> eng'.inst, seq |-> eng'.seq, newest |-> eng'.newest]
  BY <1>1, <1>2 DEF EventsType
<1>4. \A j \in Kinds : eng'.newest[j] = IF j = k THEN eng.seq + 1 ELSE eng.newest[j]
  BY <1>2, <1>3
<1>5. ASSUME NEW s, Overwritten(s) PROVE Overwritten(s)'
  BY <1>2, <1>3, <1>4, <1>5 DEF Overwritten
<1>6. \A s \in Nat : s < Oldest => s < Oldest'
  BY <1>2, <1>3, EngineBounds DEF Oldest
<1>7. eng'.newest \in [Kinds -> 0..MaxSeq]
  BY <1>2, <1>3
<1>8. eng' \in [inst : Instances, seq : 0..MaxSeq, newest : [Kinds -> 0..MaxSeq]]
  BY <1>2, <1>3, <1>7
<1> QED
  BY <1>2, <1>3, <1>4, <1>5, <1>6, <1>8

\* What the listener hands out of the pending events, and where it stops.
LEMMA DrainFacts ==
  ASSUME EventsType, Pending, osc.pc = "drain"
  PROVE  LET last == IF WentBack(cursor) THEN 0 ELSE cursor.last
             D == Drainable(cursor)
             c == Drain(cursor)
         IN  /\ D \in SUBSET Event /\ IsFiniteSet(D)
             /\ \A e \in D : e.inst = eng.inst /\ e.seq > last /\ e.seq <= c.last
             /\ \A s \in (last + 1)..c.last : [inst |-> eng.inst, seq |-> s] \in D
             /\ c.last \in 0..MaxSeq /\ last <= c.last /\ last \in 0..MaxSeq
             /\ (c.last = last /\ D = {}) \/ c.last <= cursor.announced
             /\ c = [cursor EXCEPT !.last = c.last, !.pending = c.pending]
             /\ c.pending \subseteq cursor.pending
             /\ c.last + 1 \notin Seqs(cursor.pending)
             /\ Missing(c) => c.last < cursor.announced
             /\ last + 1 \notin Seqs(cursor.pending) => D = {}
<1> DEFINE last == IF WentBack(cursor) THEN 0 ELSE cursor.last
           D == Drainable(cursor)
           c == Drain(cursor)
           ann == cursor.announced
           P == cursor.pending
           inst == eng.inst
           K == {e \in After(P, c.last) : WentBack(cursor) => e.seq <= ann}
<1>1. /\ inst \in Nat /\ eng.seq \in 0..MaxSeq /\ last \in 0..MaxSeq /\ ann \in 0..MaxSeq /\ MaxSeq \in Nat
      /\ inst \in Instances
  BY EngineBounds, SMTT(60) DEF EventsType, Cursor, Instances
<1>2. \A e \in P : /\ e = [inst |-> inst, seq |-> e.seq] /\ e \in Event
                   /\ e.seq \in 1..ann
  <2>1. P \subseteq Events(inst, 1..eng.seq) /\ Seqs(P) \subseteq 1..ann /\ P \subseteq Event
    BY DEF Pending, Observed, EventsType, Cursor
  <2> QED
    BY <2>1, EventsAre DEF Seqs
<1>3. \A s : s \in Seqs(P) <=> [inst |-> inst, seq |-> s] \in P
  BY <1>2 DEF Seqs
<1>4. /\ \A e : e \in D <=> e \in P /\ e.seq > last /\ \A s \in (last + 1)..e.seq : s \in Seqs(P)
  <2>1. {e \in P : WentBack(cursor) => e.seq <= ann} = P
    BY <1>1, <1>2
  <2>2. D = {e \in After(P, last) : \A s \in (last + 1)..e.seq : s \in Seqs(P)}
    BY <2>1 DEF Drainable
  <2> QED
    BY <2>2 DEF After
<1>5. /\ c.last = Max(Seqs(D) \cup {last})
      /\ c = [cursor EXCEPT !.last = c.last, !.pending = c.pending]
      /\ c.pending = K
  BY DEF Drain, EventsType, Cursor
<1> HIDE DEF D
<1>6. Seqs(D) \cup {last} \in SUBSET (0..MaxSeq)
  BY <1>1, <1>2, <1>4, EngineBounds DEF Seqs
<1>7. c.last \in Seqs(D) \cup {last} /\ \A y \in Seqs(D) \cup {last} : y <= c.last
  <2> DEFINE S == Seqs(D) \cup {last}
  <2>1. S \in SUBSET (0..MaxSeq) /\ S # {} /\ c.last = Max(S)
    BY <1>5, <1>6
  <2> HIDE DEF S
  <2>2. Max(S) \in S /\ \A y \in S : y <= Max(S)
    BY <1>1, <2>1, MaxIsLast
  <2> QED
    BY <2>1, <2>2 DEF S
<1> HIDE DEF c, last
<1>8. c.last \in 0..MaxSeq /\ last <= c.last
  BY <1>6, <1>7
<1>9. \A e \in D : e.inst = inst /\ e.seq > last /\ e.seq <= c.last /\ e.seq \in 1..ann
  BY <1>2, <1>4, <1>7 DEF Seqs
<1>10. \A s \in (last + 1)..c.last : [inst |-> inst, seq |-> s] \in D
  <2> SUFFICES ASSUME NEW s \in (last + 1)..c.last PROVE [inst |-> inst, seq |-> s] \in D
    OBVIOUS
  <2>1. c.last # last /\ s \in Nat /\ s > last /\ s <= c.last
    BY <1>1, <1>8
  <2>2. PICK e \in D : e.seq = c.last
    BY <1>7, <2>1 DEF Seqs
  <2>3. s \in (last + 1)..e.seq /\ \A t \in (last + 1)..s : t \in (last + 1)..e.seq
    BY <1>1, <1>8, <2>1, <2>2
  <2>4. [inst |-> inst, seq |-> s] \in P /\ \A t \in (last + 1)..s : t \in Seqs(P)
    BY <1>3, <1>4, <2>2, <2>3
  <2> QED
    BY <1>4, <2>1, <2>4
<1>11. (c.last = last /\ D = {}) \/ c.last <= ann
  <2>1. CASE c.last \in Seqs(D)
    BY <1>1, <1>9, <2>1 DEF Seqs
  <2>2. CASE c.last = last
    BY <1>1, <1>8, <1>9, <2>2
  <2> QED
    BY <1>7, <2>1, <2>2
<1>12. c.pending \subseteq P /\ \A e \in c.pending : e.seq > c.last
  BY <1>5 DEF After
<1>13. c.last + 1 \notin Seqs(P)
  <2> SUFFICES ASSUME c.last + 1 \in Seqs(P) PROVE FALSE
    OBVIOUS
  <2> DEFINE e == [inst |-> inst, seq |-> c.last + 1]
  <2>1. e \in P /\ e.seq = c.last + 1
    BY <1>3
  <2>2. \A s \in (last + 1)..e.seq : s \in Seqs(P)
    <3> SUFFICES ASSUME NEW s \in (last + 1)..e.seq PROVE s \in Seqs(P)
      OBVIOUS
    <3>1. s \in (last + 1)..c.last \/ s = c.last + 1
      BY <1>1, <1>8, <2>1
    <3> QED
      BY <1>3, <1>4, <1>10, <3>1
  <2>3. e \in D
    BY <1>1, <1>4, <1>8, <2>1, <2>2
  <2> QED
    BY <1>8, <1>9, <2>1, <2>3
<1>14. ASSUME Missing(c) PROVE c.last < ann
  <2>1. c.announced = ann
    BY <1>5 DEF EventsType, Cursor
  <2>2. Seqs(c.pending) \cup {ann} \in SUBSET (0..MaxSeq)
    BY <1>1, <1>2, <1>12, EngineBounds DEF Seqs
  <2>3. Max(Seqs(c.pending) \cup {ann}) \in Seqs(c.pending) \cup {ann}
    BY <1>1, <2>2, MaxIsLast
  <2>4. \A y \in Seqs(c.pending) \cup {ann} : y \in 0..ann
    BY <1>1, <1>2, <1>12 DEF Seqs
  <2>5. Max(Seqs(c.pending) \cup {ann}) > c.last
    BY <1>14, <2>1 DEF Missing
  <2> QED
    BY <1>1, <1>8, <2>3, <2>4, <2>5
<1>15. last + 1 \notin Seqs(P) => D = {}
  <2> SUFFICES ASSUME last + 1 \notin Seqs(P), NEW e \in D PROVE FALSE
    OBVIOUS
  <2>1. last + 1 \in (last + 1)..e.seq
    BY <1>1, <1>9
  <2> QED
    BY <1>4, <2>1
<1>16. D \in SUBSET Event /\ IsFiniteSet(D)
  <2>1. \A e \in D : e \in Event /\ e \in Events(inst, 1..MaxSeq)
    <3> SUFFICES ASSUME NEW e \in D PROVE e \in Event /\ e \in Events(inst, 1..MaxSeq)
      OBVIOUS
    <3>1. e \in P
      BY <1>4
    <3>2. e \in Event /\ e = [inst |-> inst, seq |-> e.seq] /\ e.seq \in 1..MaxSeq
      BY <1>2, <3>1, EngineBounds
    <3> QED
      BY <3>2, EventsAre
  <2> QED
    BY <1>1, <2>1, EventsFinite
<1> QED
  BY <1>1, <1>5, <1>8, <1>9, <1>10, <1>11, <1>12, <1>13, <1>14, <1>15, <1>16 DEF c, last, D

\* A sequence of one element.
LEMMA OneElement ==
  ASSUME NEW S, NEW s \in Seq(S), s # <<>>, Len(s) <= 1
  PROVE  s[1] \in S /\ Head(s) = s[1] /\ s = <<s[1]>>
<1>1. Len(s) \in Nat \ {0}
  BY EmptySeq
<1>2. Len(s) = 1
  BY <1>1
<1> QED
  BY <1>2

\* What the type invariant says of the single datagram and of the numbers.
LEMMA TypeFacts ==
  ASSUME EventsType
  PROVE  /\ eng.inst \in Instances /\ eng.inst \in Nat /\ eng.seq \in 0..MaxSeq
         /\ \A k \in Kinds : eng.newest[k] \in 0..MaxSeq
         /\ cursor.inst \in Nat /\ cursor.from \in Nat
         /\ cursor.last \in 0..MaxSeq /\ cursor.base \in 0..MaxSeq /\ cursor.announced \in 0..MaxSeq
         /\ \A f \in fetches : f.since \in 0..MaxSeq /\ f.seq \in 0..MaxSeq
         /\ probe.seq \in 0..MaxSeq
         /\ \A h \in Range(handed) : h \in Event
         /\ net # <<>> => /\ net[1] \in [inst : Instances, seq : 0..MaxSeq, events : SUBSET Event]
                          /\ net[1].seq \in 0..MaxSeq /\ Head(net) = net[1] /\ net = <<net[1]>>
<1>1. net # <<>> => /\ net[1] \in [inst : Instances, seq : 0..MaxSeq, events : SUBSET Event]
                    /\ Head(net) = net[1] /\ net = <<net[1]>>
  <2> SUFFICES ASSUME net # <<>>
               PROVE  /\ net[1] \in [inst : Instances, seq : 0..MaxSeq, events : SUBSET Event]
                      /\ Head(net) = net[1] /\ net = <<net[1]>>
    OBVIOUS
  <2>1. net \in Seq([inst : Instances, seq : 0..MaxSeq, events : SUBSET Event]) /\ Len(net) <= 1
    BY DEF EventsType
  <2> QED
    BY <2>1, OneElement
<1>2. \A h \in Range(handed) : h \in Event
  BY DEF EventsType, Range
<1>3. \A f \in fetches : f.since \in 0..MaxSeq /\ f.seq \in 0..MaxSeq
  BY DEF EventsType, Fetch
<1> QED
  BY <1>1, <1>2, <1>3, SMTT(60) DEF EventsType, Cursor, Instances

\* One lemma per action: it keeps the invariant.
LEMMA EngineEventKeeps ==
  ASSUME EventInv, EngineEvent
  PROVE  EventInv'
<1>1. /\ UNCHANGED <<net, cursor, osc, fetches, probe, handed, shown>>
      /\ EventsType /\ Datagram /\ Pending /\ KnowsEngine /\ Fetching /\ Probed
      /\ HandedBefore /\ HandedOnceInOrder /\ OnlyForgottenSkipped
  BY DEF EventInv, EngineEvent
<1>2. /\ eng'.inst = eng.inst /\ eng.seq \in Nat /\ eng'.seq = eng.seq + 1 /\ eng'.seq <= MaxSeq
      /\ \A s : Overwritten(s) => Overwritten(s)'
      /\ \A s \in Nat : s < Oldest => s < Oldest'
      /\ eng' \in [inst : Instances, seq : 0..MaxSeq, newest : [Kinds -> 0..MaxSeq]]
      /\ \A k \in Kinds : eng'.newest[k] <= eng'.seq
  BY <1>1, EngineGrows
<1>3. /\ MaxSeq \in Nat /\ cursor.announced \in Nat /\ cursor.last \in Nat /\ cursor.base \in Nat
      /\ \A f \in fetches : f.since \in Nat /\ f.seq \in Nat
      /\ net # <<>> => net[1].seq \in Nat
  BY <1>1, EngineBounds, TypeFacts, SMTT(60)
<1>4. \A S, T : S \subseteq T => Events(eng.inst, S) \subseteq Events(eng.inst, T)
  BY DEF Events
<1>5. EventsType'
  BY <1>1, <1>2 DEF EventsType
<1>6. Datagram'
  BY <1>1, <1>2, <1>3 DEF Datagram
<1>7. Pending'
  <2>1. cursor.pending \subseteq Events(eng.inst, 1..(eng.seq + 1))
    BY <1>1, <1>2, <1>4 DEF Pending
  <2>2. osc.pc = "drain" => Observed'
    BY <1>1, <1>2, <1>3 DEF Pending, Observed
  <2> QED
    BY <1>1, <1>2, <2>1, <2>2 DEF Pending
<1>8. KnowsEngine'
  BY <1>1, <1>2, <1>3 DEF KnowsEngine, Joined, Abreast, HandedHere, Live
<1>9. Fetching'
  <2>1. \A s : Hole(s) => Hole(s)'
    BY <1>1, <1>2 DEF Hole
  <2>2. ASSUME NEW f \in Live, Answer(f) PROVE Answer(f)'
    BY <1>1, <1>2, <1>3, <2>2, SMTT(60) DEF Answer, Live
  <2> QED
    BY <1>1, <1>2, <2>1, <2>2 DEF Fetching, Live
<1>10. Probed'
  BY <1>1, <1>2, <1>3, SMTT(60) DEF Probed, Joined, HandedHere, Live, EventsType
<1>11. HandedBefore' /\ HandedOnceInOrder'
  BY <1>1, <1>2 DEF HandedBefore, HandedOnceInOrder
<1>12. OnlyForgottenSkipped'
  BY <1>1, <1>2, <1>3 DEF OnlyForgottenSkipped
<1> QED
  BY <1>5, <1>6, <1>7, <1>8, <1>9, <1>10, <1>11, <1>12 DEF EventInv

\* A datagram shows the newest event of each kind: what is not in it was overwritten.
LEMMA SendOscKeeps ==
  ASSUME EventInv, SendOsc
  PROVE  EventInv'
<1> DEFINE N == {eng.newest[k] : k \in Kinds} \ {0}
           d == [inst |-> eng.inst, seq |-> eng.seq, events |-> Events(eng.inst, N)]
<1>1. /\ UNCHANGED <<eng, cursor, osc, fetches, probe, handed, shown>>
      /\ net = <<>> /\ net' = <<d>>
      /\ EventsType /\ Datagram /\ Pending /\ KnowsEngine /\ Fetching /\ Probed
      /\ HandedBefore /\ HandedOnceInOrder /\ OnlyForgottenSkipped
  BY DEF EventInv, SendOsc
<1>2. /\ MaxSeq \in Nat /\ eng.inst \in Instances /\ eng.seq \in 0..MaxSeq
      /\ \A k \in Kinds : eng.newest[k] \in 0..MaxSeq /\ eng.newest[k] <= eng.seq
      /\ cursor.announced \in Nat /\ cursor.last \in Nat
  BY <1>1, EngineBounds DEF EventsType, Cursor, Datagram
<1>3. N \subseteq 1..eng.seq /\ \A s \in N : ~Overwritten(s)
  BY <1>2 DEF Overwritten
<1>4. \A s \in 1..eng.seq : s \in N \/ Overwritten(s)
  BY <1>2 DEF Overwritten
<1>5. /\ Events(eng.inst, N) \subseteq Event /\ Events(eng.inst, N) \subseteq Events(eng.inst, 1..eng.seq)
      /\ \A s : s \in Seqs(Events(eng.inst, N)) <=> s \in N
  <2>1. \A s \in N : [inst |-> eng.inst, seq |-> s] \in Event
    BY <1>2, <1>3 DEF Event
  <2> HIDE DEF N
  <2>2. \A s : s \in Seqs(Events(eng.inst, N)) <=> s \in N
    <3> SUFFICES ASSUME NEW s PROVE s \in Seqs(Events(eng.inst, N)) <=> s \in N
      OBVIOUS
    <3>1. ASSUME s \in N PROVE s \in Seqs(Events(eng.inst, N))
      <4> DEFINE e == [inst |-> eng.inst, seq |-> s]
      <4>1. e \in Events(eng.inst, N) /\ e.seq = s
        BY <3>1 DEF Events
      <4> QED
        BY <4>1 DEF Seqs
    <3>2. ASSUME s \in Seqs(Events(eng.inst, N)) PROVE s \in N
      BY <3>2 DEF Events, Seqs
    <3> QED
      BY <3>1, <3>2
  <2> QED
    BY <1>3, <2>1, <2>2 DEF Events
<1> HIDE DEF N
<1>6. net' # <<>> /\ net'[1] = d /\ Len(net') = 1
  BY <1>1
<1>7. d.inst = eng.inst /\ d.seq = eng.seq /\ d.events = Events(eng.inst, N)
  OBVIOUS
<1>8. \A s : Overwritten(s)' <=> Overwritten(s)
  BY <1>1 DEF Overwritten
<1>9. EventsType'
  <2>1. net' \in Seq([inst : Instances, seq : 0..MaxSeq, events : SUBSET Event])
    BY <1>1, <1>2, <1>5
  <2> QED
    BY <1>1, <1>6, <2>1 DEF EventsType
<1> HIDE DEF d
<1>10. Datagram'
  BY <1>1, <1>2, <1>4, <1>5, <1>6, <1>7, <1>8 DEF Datagram
<1>11. Pending'
  <2>1. Seqs(cursor.pending) \subseteq 1..eng.seq
    BY <1>1 DEF Pending, Events, Seqs
  <2>2. Observed => Observed'
    BY <1>1, <1>2, <1>3, <1>5, <1>6, <1>7, <1>8 DEF Observed
  <2> QED
    BY <1>1, <1>6, <1>7, <2>1, <2>2 DEF Pending
<1>12. KnowsEngine'
  <2>1. Joined' <=> Joined
    BY <1>1 DEF Joined, HandedHere, Live
  <2>2. Abreast => Abreast'
    BY <1>1, <1>6, <1>7 DEF Abreast
  <2> QED
    BY <1>1, <2>1, <2>2 DEF KnowsEngine
<1>13. Fetching'
  <2>1. \A s : Hole(s) => Hole(s)'
    BY <1>1, <1>3, <1>5, <1>6, <1>7, <1>8 DEF Hole
  <2>2. \A f : Answer(f)' <=> Answer(f)
    BY <1>1 DEF Answer, Oldest
  <2> QED
    BY <1>1, <2>1, <2>2 DEF Fetching, Live
<1>14. Probed' /\ HandedBefore' /\ HandedOnceInOrder' /\ OnlyForgottenSkipped'
  BY <1>1 DEF Probed, HandedBefore, HandedOnceInOrder, OnlyForgottenSkipped, Joined, HandedHere,
              Live, Oldest
<1> QED
  BY <1>9, <1>10, <1>11, <1>12, <1>13, <1>14 DEF EventInv

\* The new engine is unknown to the cursor, and nothing of the old one is under way.
LEMMA RestartKeeps ==
  ASSUME Windows = {}, EventInv, Restart
  PROVE  EventInv'
<1>1. /\ UNCHANGED <<net, cursor, osc, fetches, probe, handed, shown>>
      /\ net = <<>> /\ osc.pc = "idle" /\ probe = Nothing /\ cursor.pending = {} /\ fetches = {}
      /\ eng.inst < MaxInst
      /\ eng' = [inst |-> eng.inst + 1, seq |-> 0, newest |-> [k \in Kinds |-> 0]]
      /\ EventsType /\ Datagram /\ Pending /\ KnowsEngine /\ Fetching /\ Probed
      /\ HandedBefore /\ HandedOnceInOrder /\ OnlyForgottenSkipped
  BY DEF EventInv, Restart
<1>2. /\ MaxSeq \in Nat /\ MaxInst \in Nat /\ eng.inst \in 1..MaxInst
      /\ cursor.from \in Nat /\ cursor.inst \in Nat
      /\ \A h \in Range(handed) : h.inst \in Nat /\ h.inst <= eng.inst
  <2>1. eng.inst \in Nat /\ \A h \in Range(handed) : h.inst \in Nat
    BY <1>1, EngineBounds, TypeFacts
  <2>2. \A h \in Range(handed) : h.inst <= eng.inst
    BY <1>1, <2>1 DEF HandedBefore
  <2> QED
    BY <1>1, <2>1, <2>2, EngineBounds, TypeFacts DEF Instances
<1>3. /\ eng'.inst = eng.inst + 1 /\ eng'.seq = 0 /\ \A k \in Kinds : eng'.newest[k] = 0
      /\ eng'.newest = [k \in Kinds |-> 0]
  BY <1>1
<1>4. EventsType'
  <2>1. eng' \in [inst : Instances, seq : 0..MaxSeq, newest : [Kinds -> 0..MaxSeq]]
    BY <1>1, <1>2 DEF Instances
  <2> QED
    BY <1>1, <2>1 DEF EventsType
<1>5. Datagram' /\ Pending' /\ Probed' /\ HandedOnceInOrder'
  BY <1>1, <1>3 DEF Datagram, Pending, Probed, HandedOnceInOrder
<1>6. ~Joined' /\ Live' = {}
  BY <1>1, <1>2, <1>3 DEF Joined, HandedHere, Live, KnowsEngine
<1>7. KnowsEngine' /\ Fetching' /\ OnlyForgottenSkipped'
  BY <1>1, <1>2, <1>3, <1>6 DEF KnowsEngine, Fetching, OnlyForgottenSkipped
<1>8. HandedBefore'
  BY <1>1, <1>2, <1>3 DEF HandedBefore
<1> QED
  BY <1>4, <1>5, <1>6, <1>7, <1>8 DEF EventInv

\* Nothing older than an answer that is still to be used (NothingWaits).
LEMMA ReadOscKeeps ==
  ASSUME Windows = {}, EventInv, ReadOsc
  PROVE  EventInv'
<1> DEFINE d == net[1]
<1>1. /\ UNCHANGED <<eng, fetches, probe, handed, shown>>
      /\ osc.pc = "idle" /\ net # <<>> /\ net' = <<>>
      /\ EventsType /\ Datagram /\ Pending /\ KnowsEngine /\ Fetching /\ Probed
      /\ HandedBefore /\ HandedOnceInOrder /\ OnlyForgottenSkipped
  BY DEF EventInv, ReadOsc
<1>2. /\ d \in [inst : Instances, seq : 0..MaxSeq, events : SUBSET Event]
      /\ d.seq \in 0..MaxSeq /\ Head(net) = d
      /\ eng.seq \in 0..MaxSeq /\ MaxSeq \in Nat /\ cursor.last \in 0..MaxSeq
      /\ d.inst = eng.inst /\ d.seq <= eng.seq /\ d.events \subseteq Event
      /\ \A s \in 1..d.seq : s \in Seqs(d.events) \/ Overwritten(s)
      /\ d.events \subseteq Events(eng.inst, 1..d.seq)
  BY <1>1, TypeFacts, EngineBounds DEF Datagram
<1>3. probe # Nothing => d.seq <= probe.seq
  BY <1>1, <1>2 DEF ReadOsc, NothingWaits, Probed
<1>4. /\ osc' = [osc EXCEPT !.pc = IF cursor.fork THEN "drain" ELSE "idle"]
      /\ cursor' = IF cursor.fork THEN Observe(cursor, d) ELSE cursor
  BY <1>2 DEF ReadOsc
<1> DEFINE P == {e \in cursor.pending : e.seq \notin Seqs(d.events)} \cup d.events
<1>5. ASSUME cursor.fork
      PROVE  /\ cursor' = [cursor EXCEPT !.announced = d.seq, !.pending = P]
             /\ cursor'.announced = d.seq /\ cursor'.pending = P
      BY <1>1, <1>4, <1>5 DEF Observe, EventsType, Cursor
<1>6. /\ cursor'.inst = cursor.inst /\ cursor'.from = cursor.from /\ cursor'.last = cursor.last
      /\ cursor'.base = cursor.base /\ cursor'.fetching = cursor.fetching
      /\ osc'.pc = "drain" => cursor.fork
  BY <1>1, <1>4 DEF Observe, EventsType, Cursor
<1>7. /\ P \subseteq Event /\ P \subseteq Events(eng.inst, 1..eng.seq) /\ Seqs(P) \subseteq 1..d.seq
      /\ \A s : s \in Seqs(P) <=> s \in Seqs(cursor.pending) \/ s \in Seqs(d.events)
  <2>1. Events(eng.inst, 1..d.seq) \subseteq Events(eng.inst, 1..eng.seq)
    BY <1>2 DEF Events
  <2>2. Seqs(d.events) \subseteq 1..d.seq
    BY <1>2 DEF Events, Seqs
  <2>3. /\ cursor.pending \subseteq Event /\ cursor.pending \subseteq Events(eng.inst, 1..eng.seq)
        /\ Seqs(cursor.pending) \subseteq 1..d.seq
    BY <1>1 DEF Pending, EventsType, Cursor
  <2>4. \A s : s \in Seqs(P) <=> s \in Seqs(cursor.pending) \/ s \in Seqs(d.events)
    BY DEF Seqs
  <2> QED
    BY <1>2, <2>1, <2>2, <2>3, <2>4
<1> HIDE DEF P
<1>8. \A s : Overwritten(s)' <=> Overwritten(s)
  BY <1>1 DEF Overwritten
<1>9. EventsType'
  <2>1. cursor' \in Cursor
    <3>1. cursor \in Cursor
      BY <1>1 DEF EventsType
    <3>2. CASE cursor.fork
      BY <1>2, <1>5, <1>7, <3>1, <3>2 DEF Cursor
    <3>3. CASE ~cursor.fork
      BY <1>4, <3>1, <3>3
    <3> QED
      BY <3>2, <3>3
  <2>2. osc' \in [pc : {"idle", "drain", "emit"}, out : Seq(Emission)]
    BY <1>1, <1>4 DEF EventsType
  <2>3. net' \in Seq([inst : Instances, seq : 0..MaxSeq, events : SUBSET Event]) /\ Len(net') <= 1
    BY <1>1
  <2> QED
    BY <1>1, <2>1, <2>2, <2>3 DEF EventsType
<1>10. Datagram'
  BY <1>1 DEF Datagram
<1>11. Pending'
  <2>1. CASE cursor.fork
    <3>1. cursor'.pending = P /\ cursor'.announced = d.seq
      BY <1>5, <2>1
    <3>2. Observed'
      BY <1>1, <1>2, <1>7, <1>8, <3>1 DEF Observed
    <3> QED
      BY <1>1, <1>7, <3>1, <3>2 DEF Pending
  <2>2. CASE ~cursor.fork
    BY <1>1, <1>4, <2>2 DEF Pending, EventsType
  <2> QED
    BY <2>1, <2>2
<1>12. KnowsEngine'
  <2>1. Joined' <=> Joined
    BY <1>1, <1>6 DEF Joined, HandedHere, Live
  <2>2. Abreast => Abreast'
    BY <1>1, <1>5, <1>6 DEF Abreast
  <2> QED
    BY <1>1, <1>6, <2>1, <2>2 DEF KnowsEngine
<1>13. Fetching'
  <2>1. ASSUME NEW s, Hole(s) PROVE Hole(s)'
    <3>1. s \notin Seqs(cursor'.pending)
      BY <1>1, <1>4, <1>5, <1>7, <2>1 DEF Hole
    <3> QED
      BY <1>1, <1>8, <2>1, <3>1 DEF Hole
  <2>2. \A f : Answer(f)' <=> Answer(f)
    BY <1>1 DEF Answer, Oldest
  <2> QED
    BY <1>1, <1>6, <2>1, <2>2 DEF Fetching, Live
<1>14. Probed'
  <2>1. Joined' <=> Joined
    BY <1>1, <1>6 DEF Joined, HandedHere, Live
  <2>2. osc'.pc = "drain" => cursor'.announced = d.seq
    BY <1>5, <1>6
  <2> QED
    BY <1>1, <1>3, <1>6, <2>1, <2>2 DEF Probed
<1>15. HandedBefore' /\ HandedOnceInOrder' /\ OnlyForgottenSkipped'
  BY <1>1, <1>6 DEF HandedBefore, HandedOnceInOrder, OnlyForgottenSkipped, Oldest
<1> QED
  BY <1>9, <1>10, <1>11, <1>12, <1>13, <1>14, <1>15 DEF EventInv

\* The tail of a list to emit is a list to emit.
LEMMA EmissionTail ==
  ASSUME NEW s \in Seq(Emission), s # <<>>
  PROVE  Tail(s) \in Seq(Emission) /\ Range(Tail(s)) \subseteq Range(s)
<1>1. Len(s) \in Nat \ {0}
  BY EmptySeq
<1>2. /\ Tail(s) \in Seq(Emission) /\ Len(Tail(s)) = Len(s) - 1
      /\ \A i \in 1..(Len(s) - 1) : Tail(s)[i] = s[i + 1]
  BY <1>1
<1>3. DOMAIN s = 1..Len(s) /\ DOMAIN Tail(s) = 1..(Len(s) - 1)
  BY <1>2
<1>4. \A i \in 1..(Len(s) - 1) : i + 1 \in 1..Len(s)
  BY <1>1
<1> QED
  BY <1>2, <1>3, <1>4 DEF Range

\* Emitting moves nothing but the list.
LEMMA EmitOscKeeps ==
  ASSUME EventInv, EmitOsc
  PROVE  EventInv'
<1>1. /\ UNCHANGED <<eng, net, cursor, fetches, probe, handed>>
      /\ osc.pc = "emit"
      /\ EventsType /\ Datagram /\ Pending /\ KnowsEngine /\ Fetching /\ Probed
      /\ HandedBefore /\ HandedOnceInOrder /\ OnlyForgottenSkipped
  BY DEF EventInv, EmitOsc
<1>2. osc'.pc # "drain" /\ osc' \in [pc : {"idle", "drain", "emit"}, out : Seq(Emission)]
  <2>1. CASE osc.out = <<>>
    BY <1>1, <2>1 DEF EmitOsc, EventsType
  <2>2. CASE osc.out # <<>>
    <3>1. osc.out \in Seq(Emission) /\ osc' = [osc EXCEPT !.out = Tail(osc.out)]
      BY <1>1, <2>2 DEF EmitOsc, EventsType
    <3>2. Tail(osc.out) \in Seq(Emission)
      BY <2>2, <3>1, EmissionTail
    <3> QED
      BY <1>1, <3>1, <3>2 DEF EventsType
  <2> QED
    BY <2>1, <2>2
<1>3. EventsType'
  BY <1>1, <1>2 DEF EventsType
<1>4. Datagram' /\ Pending'
  BY <1>1, <1>2 DEF Datagram, Pending, Overwritten
<1>5. (Joined' <=> Joined) /\ (Abreast => Abreast')
  BY <1>1, <1>2 DEF Joined, HandedHere, Live, Abreast
<1>6. KnowsEngine' /\ Probed'
  BY <1>1, <1>2, <1>5 DEF KnowsEngine, Probed
<1>7. Fetching' /\ HandedBefore' /\ HandedOnceInOrder' /\ OnlyForgottenSkipped'
  BY <1>1 DEF Fetching, Live, Hole, Overwritten, Answer, Oldest, HandedBefore, HandedOnceInOrder,
              OnlyForgottenSkipped
<1> QED
  BY <1>3, <1>4, <1>6, <1>7 DEF EventInv

\* The gap timer only rests.
LEMMA GapIntervalPassesKeeps ==
  ASSUME EventInv, GapIntervalPasses
  PROVE  EventInv'
<1>1. /\ UNCHANGED <<eng, net, osc, fetches, probe, handed>>
      /\ cursor' = [cursor EXCEPT !.rested = TRUE]
      /\ EventsType /\ Datagram /\ Pending /\ KnowsEngine /\ Fetching /\ Probed
      /\ HandedBefore /\ HandedOnceInOrder /\ OnlyForgottenSkipped
  BY DEF EventInv, GapIntervalPasses
<1>2. /\ cursor' \in Cursor /\ cursor'.inst = cursor.inst /\ cursor'.from = cursor.from
      /\ cursor'.last = cursor.last /\ cursor'.base = cursor.base
      /\ cursor'.announced = cursor.announced /\ cursor'.pending = cursor.pending
      /\ cursor'.fetching = cursor.fetching
  BY <1>1 DEF EventsType, Cursor
<1>3. EventsType'
  BY <1>1, <1>2 DEF EventsType
<1>4. Datagram' /\ Pending'
  BY <1>1, <1>2 DEF Datagram, Pending, Overwritten, Observed
<1>5. (Joined' <=> Joined) /\ (Abreast => Abreast')
  BY <1>1, <1>2 DEF Joined, HandedHere, Live, Abreast
<1>6. KnowsEngine' /\ Probed'
  BY <1>1, <1>2, <1>5 DEF KnowsEngine, Probed
<1>7. Fetching' /\ HandedBefore' /\ HandedOnceInOrder' /\ OnlyForgottenSkipped'
  BY <1>1, <1>2 DEF Fetching, Live, Hole, Overwritten, Answer, Oldest, HandedBefore,
                    HandedOnceInOrder, OnlyForgottenSkipped
<1> QED
  BY <1>3, <1>4, <1>6, <1>7 DEF EventInv

\* A probe sees the engine at or after all the cursor has seen of it.
LEMMA ProbeKeeps ==
  ASSUME EventInv, Probe
  PROVE  EventInv'
<1>1. /\ UNCHANGED <<eng, net, cursor, osc, fetches, handed>>
      /\ probe' = [inst |-> eng.inst, seq |-> eng.seq]
      /\ EventsType /\ Datagram /\ Pending /\ KnowsEngine /\ Fetching /\ Probed
      /\ HandedBefore /\ HandedOnceInOrder /\ OnlyForgottenSkipped
  BY DEF EventInv, Probe
<1>2. eng.inst \in 0..MaxInst /\ eng.seq \in 0..MaxSeq
  BY <1>1, TypeFacts, EngineBounds DEF Instances
<1>3. EventsType'
  BY <1>1, <1>2 DEF EventsType
<1>4. Datagram' /\ Pending' /\ KnowsEngine'
  BY <1>1 DEF Datagram, Pending, Overwritten, Observed, KnowsEngine, Joined, HandedHere, Live, Abreast
<1>5. Probed'
  BY <1>1, <1>2 DEF Probed, KnowsEngine, Abreast, Pending, Observed, Joined, HandedHere, Live
<1>6. Fetching' /\ HandedBefore' /\ HandedOnceInOrder' /\ OnlyForgottenSkipped'
  BY <1>1 DEF Fetching, Live, Hole, Overwritten, Answer, Oldest, HandedBefore,
              HandedOnceInOrder, OnlyForgottenSkipped
<1> QED
  BY <1>3, <1>4, <1>5, <1>6 DEF EventInv

\* The answer of the engine holds all it remembers after the cursor's place.
LEMMA AnsweredKeeps ==
  ASSUME EventInv, NEW f \in fetches, Answered(f)
  PROVE  EventInv'
<1> DEFINE g == [f EXCEPT !.pc = "answered", !.inst = eng.inst, !.seq = eng.seq,
                          !.events = Events(eng.inst, Max({Oldest, f.since + 1})..eng.seq)]
<1>1. /\ UNCHANGED <<eng, net, cursor, osc, probe, handed>>
      /\ f.pc = "asked" /\ fetches' = (fetches \ {f}) \cup {g}
      /\ EventsType /\ Datagram /\ Pending /\ KnowsEngine /\ Fetching /\ Probed
      /\ HandedBefore /\ HandedOnceInOrder /\ OnlyForgottenSkipped
  BY DEF EventInv, Answered, Becomes
<1>2. /\ f \in Fetch /\ f.since \in 0..MaxSeq /\ eng.inst \in 0..MaxInst /\ eng.inst \in Instances
      /\ eng.seq \in 0..MaxSeq /\ cursor.last \in Nat /\ MaxSeq \in Nat /\ MaxInst \in Nat
      /\ Oldest \in 1..(MaxSeq + 1)
  <2>1. f \in Fetch
    BY <1>1 DEF EventsType
  <2>2. /\ f.since \in 0..MaxSeq /\ eng.inst \in Instances
        /\ eng.seq \in 0..MaxSeq /\ cursor.last \in Nat /\ MaxSeq \in Nat /\ MaxInst \in Nat
    BY <1>1, TypeFacts, EngineBounds
  <2>3. Oldest \in 1..(MaxSeq + 1)
    BY <2>2, EngineBounds DEF Oldest
  <2> QED
    BY <2>1, <2>2, <2>3 DEF Instances
<1> DEFINE m == Max({Oldest, f.since + 1})
<1>3. m \in {Oldest, f.since + 1} /\ m >= Oldest /\ m >= f.since + 1 /\ m \in Nat
  <2> DEFINE S == {Oldest, f.since + 1}
  <2>1. S \in SUBSET (0..(MaxSeq + 1)) /\ S # {} /\ MaxSeq + 1 \in Nat
    BY <1>2
  <2>2. Max(S) \in S /\ \A y \in S : y <= Max(S)
    BY <2>1, MaxIsLast
  <2>3. Max(S) \in Nat
    BY <1>2, <2>2
  <2> QED
    BY <2>2, <2>3
<1>4. /\ g.pc = "answered" /\ g.inst = eng.inst /\ g.seq = eng.seq /\ g.since = f.since
      /\ g.events = Events(eng.inst, m..eng.seq)
  BY <1>2 DEF Fetch
<1>5. f \in Live /\ Live' = {g} /\ Live = {f}
  <2>1. f \in Live
    BY <1>1 DEF Live
  <2>2. Live = {f}
    BY <1>1, <2>1 DEF Fetching
  <2> QED
    BY <1>1, <1>4, <2>1, <2>2 DEF Live
<1>6. Joined /\ cursor.last <= eng.seq
  BY <1>1, <1>5 DEF Joined, KnowsEngine, Abreast
<1>7. /\ cursor.fetching /\ f.since <= cursor.last
      /\ cursor.inst # eng.inst => f.since = cursor.last /\ Hole(f.since + 1)
  BY <1>1, <1>5 DEF Fetching
<1>8. /\ g.events \subseteq Events(eng.inst, (f.since + 1)..eng.seq) /\ g.events \subseteq Event
      /\ \A s \in (f.since + 1)..eng.seq : s < Oldest \/ [inst |-> eng.inst, seq |-> s] \in g.events
  <2> HIDE DEF m, g
  <2>1. m..eng.seq \subseteq (f.since + 1)..eng.seq /\ m..eng.seq \subseteq 1..MaxSeq
    BY <1>2, <1>3
  <2>2. \A s \in (f.since + 1)..eng.seq : s < Oldest \/ s \in m..eng.seq
    BY <1>2, <1>3
  <2>3. \A s \in m..eng.seq : [inst |-> eng.inst, seq |-> s] \in Event
    BY <1>2, <2>1 DEF Event
  <2> QED
    BY <1>4, <2>1, <2>2, <2>3 DEF Events
<1>9. g \in Fetch
  BY <1>2, <1>8 DEF Fetch
<1> HIDE DEF g, m
<1>10. EventsType'
  BY <1>1, <1>9 DEF EventsType
<1>11. Datagram' /\ Pending'
  BY <1>1 DEF Datagram, Pending, Overwritten, Observed
<1>12. Joined' /\ (Abreast' <=> Abreast)
  BY <1>1, <1>5 DEF Joined, Abreast
<1>13. KnowsEngine' /\ Probed'
  BY <1>1, <1>6, <1>12 DEF KnowsEngine, Probed
<1>14. Fetching'
  <2>1. ASSUME NEW x \in Live' PROVE Answer(x)'
    <3>1. /\ x.inst = eng.inst /\ x.seq = eng.seq /\ x.since = f.since /\ x.events = g.events
          /\ eng' = eng /\ Oldest' = Oldest
      BY <1>1, <1>4, <1>5 DEF Oldest
    <3>2. f.since <= eng.seq
      BY <1>2, <1>6, <1>7
    <3> QED
      BY <1>2, <1>8, <3>1, <3>2 DEF Answer
  <2>2. Hole(f.since + 1) => Hole(f.since + 1)'
    BY <1>1 DEF Hole, Overwritten
  <2>3. \A x \in Live' : x.since = f.since
    BY <1>4, <1>5
  <2>4. \A x, y \in Live' : x = y
    BY <1>5
  <2> QED
    BY <1>1, <1>7, <2>1, <2>2, <2>3, <2>4 DEF Fetching
<1>15. HandedBefore' /\ HandedOnceInOrder' /\ OnlyForgottenSkipped'
  BY <1>1 DEF HandedBefore, HandedOnceInOrder, OnlyForgottenSkipped, Oldest
<1> QED
  BY <1>10, <1>11, <1>13, <1>14, <1>15 DEF EventInv

\* A fetch that fails leaves no fetch out.
LEMMA FetchFailsKeeps ==
  ASSUME EventInv, NEW f \in fetches, FetchFails(f)
  PROVE  EventInv'
<1>1. /\ UNCHANGED <<eng, net, osc, probe, handed>>
      /\ f.pc = "asked" /\ fetches' = fetches \ {f}
      /\ cursor' = [cursor EXCEPT !.fetching = FALSE]
      /\ EventsType /\ Datagram /\ Pending /\ KnowsEngine /\ Fetching /\ Probed
      /\ HandedBefore /\ HandedOnceInOrder /\ OnlyForgottenSkipped
  BY DEF EventInv, FetchFails, Becomes
<1>2. /\ cursor' \in Cursor /\ cursor'.inst = cursor.inst /\ cursor'.from = cursor.from
      /\ cursor'.last = cursor.last /\ cursor'.base = cursor.base
      /\ cursor'.announced = cursor.announced /\ cursor'.pending = cursor.pending
  BY <1>1 DEF EventsType, Cursor
<1>3. Live' = {}
  BY <1>1 DEF Live, Fetching
<1>4. EventsType'
  BY <1>1, <1>2 DEF EventsType
<1>5. Datagram' /\ Pending'
  BY <1>1, <1>2 DEF Datagram, Pending, Overwritten, Observed
<1>6. (Joined' => Joined) /\ (Abreast' <=> Abreast)
  BY <1>1, <1>2, <1>3 DEF Joined, HandedHere, Abreast
<1>7. KnowsEngine' /\ Probed'
  BY <1>1, <1>2, <1>6 DEF KnowsEngine, Probed
<1>8. Fetching'
  BY <1>3 DEF Fetching
<1>9. HandedBefore' /\ HandedOnceInOrder' /\ OnlyForgottenSkipped'
  BY <1>1, <1>2 DEF HandedBefore, HandedOnceInOrder, OnlyForgottenSkipped, Oldest
<1> QED
  BY <1>4, <1>5, <1>7, <1>8, <1>9 DEF EventInv

\* Emitting what was fetched moves nothing but the list.
LEMMA EmitFetchedKeeps ==
  ASSUME EventInv, NEW f \in fetches, EmitFetched(f)
  PROVE  EventInv'
<1>1. /\ UNCHANGED <<eng, net, cursor, osc, probe, handed>>
      /\ f.pc = "emit" /\ f \in Fetch
      /\ EventsType /\ Datagram /\ Pending /\ KnowsEngine /\ Fetching /\ Probed
      /\ HandedBefore /\ HandedOnceInOrder /\ OnlyForgottenSkipped
  BY DEF EventInv, EmitFetched, EventsType
<1>2. fetches' \subseteq Fetch /\ Live' = Live
  <2>1. CASE f.out = <<>>
    <3>1. fetches' = fetches \ {f}
      BY <2>1 DEF EmitFetched, Becomes
    <3> QED
      BY <1>1, <3>1 DEF EventsType, Live
  <2>2. CASE f.out # <<>>
    <3> DEFINE g == [f EXCEPT !.out = Tail(f.out)]
    <3>1. fetches' = (fetches \ {f}) \cup {g}
      BY <2>2 DEF EmitFetched, Becomes
    <3>2. f.out \in Seq(Emission)
      BY <1>1 DEF Fetch
    <3>3. Tail(f.out) \in Seq(Emission)
      BY <2>2, <3>2, EmissionTail
    <3>4. g \in Fetch /\ g.pc = "emit"
      BY <1>1, <3>3 DEF Fetch
    <3> QED
      BY <1>1, <3>1, <3>4 DEF EventsType, Live
  <2> QED
    BY <2>1, <2>2
<1>3. EventsType'
  BY <1>1, <1>2 DEF EventsType
<1>4. Datagram' /\ Pending'
  BY <1>1 DEF Datagram, Pending, Overwritten, Observed
<1>5. (Joined' <=> Joined) /\ (Abreast' <=> Abreast)
  BY <1>1, <1>2 DEF Joined, HandedHere, Abreast
<1>6. KnowsEngine' /\ Probed'
  BY <1>1, <1>5 DEF KnowsEngine, Probed
<1>7. Fetching'
  BY <1>1, <1>2 DEF Fetching, Hole, Overwritten, Answer, Oldest
<1>8. HandedBefore' /\ HandedOnceInOrder' /\ OnlyForgottenSkipped'
  BY <1>1 DEF HandedBefore, HandedOnceInOrder, OnlyForgottenSkipped, Oldest
<1> QED
  BY <1>3, <1>4, <1>6, <1>7, <1>8 DEF EventInv

\* What the cursor is after a handshake.
LEMMA SetForkFacts ==
  ASSUME EventsType, probe.inst = eng.inst
  PROVE  LET c == SetFork(cursor, probe)
         IN  /\ c \in Cursor /\ c.inst = eng.inst /\ c.from = eng.inst /\ c.fetching = cursor.fetching
             /\ c.pending \subseteq cursor.pending
             /\ IF cursor.inst = eng.inst THEN c.last = cursor.last /\ c.base = cursor.base
                ELSE c.last = probe.seq /\ c.base = probe.seq
<1> DEFINE S == {cursor.announced, probe.seq}
           m == Max(S)
           c == SetFork(cursor, probe)
<1>1. /\ cursor.announced \in 0..MaxSeq /\ probe.seq \in 0..MaxSeq /\ MaxSeq \in Nat
      /\ eng.inst \in 0..MaxInst /\ cursor \in Cursor
  BY TypeFacts, EngineBounds DEF Instances, EventsType
<1>2. m \in 0..MaxSeq
  <2>1. S \in SUBSET (0..MaxSeq) /\ S # {}
    BY <1>1
  <2>2. Max(S) \in S
    BY <1>1, <2>1, MaxIsLast
  <2> QED
    BY <2>1, <2>2
<1> HIDE DEF m
<1>3. c = [cursor EXCEPT !.fork = TRUE, !.inst = eng.inst, !.from = eng.inst,
                         !.last = IF cursor.inst = eng.inst THEN cursor.last ELSE probe.seq,
                         !.base = IF cursor.inst = eng.inst THEN cursor.base ELSE probe.seq,
                         !.pending = IF cursor.inst = eng.inst THEN cursor.pending ELSE {},
                         !.announced = m]
  BY <1>1 DEF SetFork, m, Cursor
<1> QED
  BY <1>1, <1>2, <1>3, ZenonT(60) DEF Cursor

\* A cursor that learns of its engine by a handshake moves forwards or starts afresh.
LEMMA DetectKeeps ==
  ASSUME Windows = {}, EventInv, Detect
  PROVE  EventInv'
<1>1. /\ UNCHANGED <<eng, net, osc, fetches, handed>>
      /\ probe # Nothing /\ probe' = Nothing /\ cursor' = SetFork(cursor, probe)
      /\ EventsType /\ Datagram /\ Pending /\ KnowsEngine /\ Fetching /\ Probed
      /\ HandedBefore /\ HandedOnceInOrder /\ OnlyForgottenSkipped
  BY DEF EventInv, Detect
<1>2. /\ probe.inst = eng.inst /\ probe.seq <= eng.seq
      /\ eng.seq \in 0..MaxSeq /\ MaxSeq \in Nat /\ probe.seq \in 0..MaxSeq
      /\ cursor.last \in 0..MaxSeq
      /\ cursor.inst # eng.inst /\ Joined => cursor.last <= probe.seq
  BY <1>1, TypeFacts, EngineBounds DEF Probed
<1>3. /\ cursor' \in Cursor /\ cursor'.inst = eng.inst /\ cursor'.from = eng.inst
      /\ cursor'.fetching = cursor.fetching /\ cursor'.pending \subseteq cursor.pending
      /\ IF cursor.inst = eng.inst THEN cursor'.last = cursor.last /\ cursor'.base = cursor.base
         ELSE cursor'.last = probe.seq /\ cursor'.base = probe.seq
  BY <1>1, <1>2, SetForkFacts
<1>4. osc.pc # "drain" /\ (net # <<>> => net[1].seq >= probe.seq)
  <2>1. DOMAIN net = 1..Len(net) /\ (net # <<>> => 1 \in DOMAIN net /\ net[1].inst = eng.inst)
    BY <1>1, TypeFacts DEF EventsType, Datagram
  <2> QED
    BY <1>2, <2>1 DEF Detect, NothingOlder
<1>5. EventsType'
  <2>1. probe' \in [inst : 0..MaxInst, seq : 0..MaxSeq]
    BY <1>1, EngineBounds DEF Nothing
  <2> QED
    BY <1>1, <1>3, <2>1 DEF EventsType
<1>6. Datagram' /\ Probed'
  BY <1>1 DEF Datagram, Overwritten, Probed
<1>7. Pending'
  BY <1>1, <1>3, <1>4 DEF Pending, Seqs
<1>8. KnowsEngine'
  <2>1. Abreast'
    <3>1. CASE cursor.inst = eng.inst
      <4>1. Abreast
        BY <1>1, <3>1 DEF KnowsEngine, Joined
      <4> QED
        BY <1>1, <1>3, <1>4, <3>1, <4>1 DEF Abreast
    <3>2. CASE cursor.inst # eng.inst
      BY <1>1, <1>2, <1>3, <1>4, <3>2 DEF Abreast
    <3> QED
      BY <3>1, <3>2
  <2>2. eng.inst \in Nat
    BY <1>1, TypeFacts
  <2> QED
    BY <1>1, <1>3, <2>1, <2>2 DEF KnowsEngine
<1>9. Fetching'
  <2>1. \A f \in Live : f.since <= cursor'.last
    BY <1>1, <1>2, <1>3 DEF Fetching, Joined
  <2>2. \A f : Answer(f)' <=> Answer(f)
    BY <1>1 DEF Answer, Oldest
  <2> QED
    BY <1>1, <1>3, <2>1, <2>2 DEF Fetching, Live
<1>10. HandedBefore'
  <2> SUFFICES ASSUME NEW h \in Range(handed)
               PROVE  h.inst < eng.inst \/ (h.inst = eng.inst /\ h.seq <= cursor'.last)
    BY <1>1 DEF HandedBefore
  <2>1. h.inst < eng.inst \/ (h.inst = eng.inst /\ h.seq <= cursor.last)
    BY <1>1 DEF HandedBefore
  <2>2. h.seq \in Nat
    BY <1>1, TypeFacts, EngineBounds
  <2>3. CASE cursor.inst = eng.inst
    BY <1>3, <2>1, <2>3
  <2>4. CASE cursor.inst # eng.inst /\ h.inst = eng.inst
    <3>1. Joined
      BY <2>4 DEF Joined, HandedHere
    <3> QED
      BY <1>2, <1>3, <2>1, <2>2, <2>4, <3>1
  <2> QED
    BY <2>1, <2>3, <2>4
<1>11. HandedOnceInOrder'
  BY <1>1 DEF HandedOnceInOrder
<1>12. OnlyForgottenSkipped'
  <2>1. CASE cursor.inst = eng.inst
    BY <1>1, <1>3, <2>1 DEF OnlyForgottenSkipped, KnowsEngine, Oldest
  <2>2. CASE cursor.inst # eng.inst
    BY <1>1, <1>2, <1>3, <2>2 DEF OnlyForgottenSkipped
  <2> QED
    BY <2>1, <2>2
<1> QED
  BY <1>5, <1>6, <1>7, <1>8, <1>9, <1>10, <1>11, <1>12 DEF EventInv

\* What a list to emit is made of: an alarm and events.
LEMMA EmissionList ==
  ASSUME NEW o \in Seq(Event), NEW b \in BOOLEAN
  PROVE  Alarm(b) \o o \in Seq(Emission) /\ (Reset \in Range(Alarm(b) \o o) => b)
<1>1. CASE b
  <2>1. <<Reset>> \in Seq(Emission) /\ o \in Seq(Emission)
    BY DEF Emission, Reset
  <2>2. <<Reset>> \o o \in Seq(Emission)
    BY <2>1
  <2> QED
    BY <1>1, <2>2 DEF Alarm
<1>2. CASE ~b
  <2>1. <<>> \o o = o /\ o \in Seq(Emission)
    BY DEF Emission
  <2>2. Reset \notin Range(o)
    BY EngineBounds DEF Range, Reset
  <2> QED
    BY <1>2, <2>1, <2>2 DEF Alarm
<1> QED
  BY <1>1, <1>2

\* Draining goes up to the next hole, and asks only when that event is lost to OSC.
LEMMA DrainOscKeeps ==
  ASSUME EventInv, DrainOsc
  PROVE  EventInv'
<1> DEFINE last == IF WentBack(cursor) THEN 0 ELSE cursor.last
           D == Drainable(cursor)
           c == Drain(cursor)
           ask == Missing(c) /\ ~c.fetching /\ c.rested
           new == [pc |-> "asked", since |-> c.last, inst |-> 0, seq |-> 0, events |-> {}, out |-> <<>>]
<1>1. /\ UNCHANGED <<eng, net, probe>> /\ osc.pc = "drain"
      /\ cursor' = [c EXCEPT !.fetching = @ \/ ask, !.rested = @ /\ ~ask,
                             !.from = IF WentBack(cursor) THEN eng.inst ELSE @,
                             !.base = IF WentBack(cursor) THEN 0 ELSE @]
      /\ osc' = [pc |-> "emit", out |-> Alarm(WentBack(cursor)) \o InOrder(D)]
      /\ handed' = handed \o InOrder(D)
      /\ fetches' = IF ask THEN fetches \cup {new} ELSE fetches
  BY DEF DrainOsc
<1>2. /\ EventsType /\ Datagram /\ Pending /\ KnowsEngine /\ Fetching /\ Probed
      /\ HandedBefore /\ HandedOnceInOrder /\ OnlyForgottenSkipped /\ Observed
  BY <1>1 DEF EventInv, Pending
<1>3. /\ D \in SUBSET Event /\ IsFiniteSet(D)
      /\ \A e \in D : e.inst = eng.inst /\ e.seq > last /\ e.seq <= c.last
      /\ \A s \in (last + 1)..c.last : [inst |-> eng.inst, seq |-> s] \in D
      /\ c.last \in 0..MaxSeq /\ last <= c.last /\ last \in 0..MaxSeq
      /\ (c.last = last /\ D = {}) \/ c.last <= cursor.announced
      /\ c = [cursor EXCEPT !.last = c.last, !.pending = c.pending]
      /\ c.pending \subseteq cursor.pending
      /\ c.last + 1 \notin Seqs(cursor.pending)
      /\ Missing(c) => c.last < cursor.announced
      /\ last + 1 \notin Seqs(cursor.pending) => D = {}
  BY <1>1, <1>2, DrainFacts
<1>4. /\ MaxSeq \in Nat /\ cursor.last \in 0..MaxSeq /\ cursor.announced \in 0..MaxSeq
      /\ cursor.base \in 0..MaxSeq /\ cursor \in Cursor
      /\ eng.inst \in Nat /\ eng.inst \in 0..MaxInst /\ cursor.from \in Nat /\ eng.seq \in 0..MaxSeq
      /\ probe.seq \in 0..MaxSeq
      /\ \A h \in Range(handed) : h \in Event /\ h.inst \in Nat /\ h.seq \in Nat
  <2>1. /\ MaxSeq \in Nat /\ cursor.last \in 0..MaxSeq /\ cursor.announced \in 0..MaxSeq
        /\ cursor.base \in 0..MaxSeq /\ eng.inst \in Instances /\ cursor.from \in Nat /\ eng.seq \in 0..MaxSeq
        /\ eng.inst \in Nat /\ probe.seq \in 0..MaxSeq
    BY <1>2, TypeFacts, EngineBounds
  <2>2. \A h \in Range(handed) : h \in Event /\ h.inst \in Nat /\ h.seq \in Nat
    BY <1>2, TypeFacts, EngineBounds
  <2>3. cursor \in Cursor
    BY <1>2 DEF EventsType
  <2> QED
    BY <2>1, <2>2, <2>3 DEF Instances
<1>5. /\ c.inst = cursor.inst /\ c.from = cursor.from /\ c.base = cursor.base
      /\ c.fetching = cursor.fetching /\ c.rested = cursor.rested /\ c.announced = cursor.announced
      /\ c.pending \subseteq Event /\ c \in Cursor
  BY <1>3, <1>4 DEF Cursor
<1> HIDE DEF c, D
<1>6. ask \in BOOLEAN /\ (ask => ~cursor.fetching /\ c.last < cursor.announced)
  BY <1>3, <1>5 DEF Missing, Cursor
<1> DEFINE back == WentBack(cursor)
<1>7. back \in BOOLEAN /\ last = IF back THEN 0 ELSE cursor.last
  BY DEF WentBack
<1> HIDE DEF ask, last
<1>8. back => /\ ~Joined /\ cursor.from # eng.inst /\ cursor.inst # eng.inst /\ Live = {} /\ ~HandedHere
  <2>1. back => ~Abreast
    BY <1>1, <1>4, SMTT(60) DEF Abreast, WentBack
  <2> QED
    BY <1>2, <2>1 DEF KnowsEngine, Joined
<1>9. /\ cursor'.inst = cursor.inst /\ cursor'.last = c.last /\ cursor'.pending = c.pending
      /\ cursor'.announced = cursor.announced
      /\ cursor'.from = (IF back THEN eng.inst ELSE cursor.from)
      /\ cursor'.base = (IF back THEN 0 ELSE cursor.base)
      /\ cursor'.fetching = (cursor.fetching \/ ask)
      /\ cursor' \in Cursor
  <2> DEFINE fetching == cursor.fetching \/ ask
             rested == cursor.rested /\ ~ask
             from == IF back THEN eng.inst ELSE cursor.from
             base == IF back THEN 0 ELSE cursor.base
  <2>1. fetching \in BOOLEAN /\ rested \in BOOLEAN
    OBVIOUS
  <2>2. from \in 0..MaxInst /\ base \in 0..MaxSeq
    BY <1>4, <1>7 DEF Cursor
  <2>3. cursor' = [c EXCEPT !.fetching = fetching, !.rested = rested, !.from = from, !.base = base]
    BY <1>1, <1>5 DEF ask
  <2> HIDE DEF fetching, rested, from, base, back
  <2>4. /\ cursor'.inst = c.inst /\ cursor'.last = c.last /\ cursor'.pending = c.pending
        /\ cursor'.announced = c.announced /\ cursor'.from = from /\ cursor'.base = base
        /\ cursor'.fetching = fetching /\ cursor' \in Cursor
    BY <1>5, <2>1, <2>2, <2>3 DEF Cursor
  <2> QED
    BY <1>5, <2>4 DEF fetching, from, base
<1>10. InOrder(D) \in Seq(Event)
  <2>1. \A d, e \in D : d.seq = e.seq => d = e
    BY <1>3, EngineBounds
  <2> QED
    BY <1>3, <2>1, InOrderLists
<1> HIDE DEF back
<1>11. /\ handed' \in Seq(Event) /\ Range(handed') = Range(handed) \cup D
       /\ \A i \in 1..(Len(handed') - 1) : Precedes(handed'[i], handed'[i + 1])
  <2>1. handed \in Seq(Event) /\ \A i \in 1..(Len(handed) - 1) : Precedes(handed[i], handed[i + 1])
    BY <1>2 DEF EventsType, HandedOnceInOrder
  <2>2. \A x \in Range(handed) : x.inst < eng.inst \/ (x.inst = eng.inst /\ x.seq <= last)
    BY <1>2, <1>4, <1>7, <1>8 DEF HandedBefore, HandedHere
  <2>3. \A e \in D : e.inst = eng.inst /\ e.seq > last
    BY <1>3
  <2>4. last \in Nat
    BY <1>3
  <2> QED
    BY <1>1, <1>3, <1>4, <2>1, <2>2, <2>3, <2>4, HandedGrows
<1>12. \A s : Overwritten(s)' <=> Overwritten(s)
  BY <1>1 DEF Overwritten
<1>13. /\ new \in Fetch /\ new.pc = "asked" /\ new.since = c.last
  <2>1. <<>> \in Seq(Emission) /\ 0 \in 0..MaxSeq /\ 0 \in 0..MaxInst
    BY EngineBounds
  <2> QED
    BY <1>3, <2>1 DEF Fetch
<1>14. /\ ask => Live' = {new} /\ Live = {}
       /\ ~ask => Live' = Live /\ fetches' = fetches
  <2>1. ask => Live = {}
    BY <1>2, <1>6 DEF Fetching
  <2> QED
    BY <1>1, <1>13, <2>1 DEF Live
<1> HIDE DEF new
<1>15. EventsType'
  <2>1. osc' \in [pc : {"idle", "drain", "emit"}, out : Seq(Emission)]
    BY <1>1, <1>7, <1>10, EmissionList DEF back
  <2>2. fetches' \subseteq Fetch
    BY <1>1, <1>2, <1>13 DEF EventsType
  <2> QED
    BY <1>1, <1>2, <1>9, <1>11, <2>1, <2>2 DEF EventsType
<1>16. Datagram'
  BY <1>1, <1>2 DEF Datagram, Overwritten
<1>17. Pending'
  <2>1. osc'.pc # "drain"
    BY <1>1
  <2> QED
    BY <1>1, <1>2, <1>3, <1>9, <2>1 DEF Pending, Seqs
<1>18. c.last <= cursor.announced \/ (~ask /\ ~back /\ D = {} /\ c.last = cursor.last)
  <2>1. CASE c.last = last /\ D = {}
    <3>1. back => c.last <= cursor.announced
      BY <1>4, <1>7, <2>1
    <3>2. ask => c.last <= cursor.announced
      BY <1>3, <1>4, <1>6
    <3> QED
      BY <1>7, <2>1, <3>1, <3>2
  <2>2. CASE c.last <= cursor.announced
    BY <2>2
  <2> QED
    BY <1>3, <2>1, <2>2
<1>19. Joined' => c.last <= cursor.announced \/ (Joined /\ c.last = cursor.last)
  <2>1. ASSUME ~ask, ~back, D = {} PROVE Joined' => Joined
    BY <1>1, <1>9, <1>11, <1>14, <2>1 DEF Joined, HandedHere
  <2> QED
    BY <1>18, <2>1
<1>20. Joined' => c.last <= cursor.announced
  <2>1. Joined => cursor.last <= cursor.announced
    BY <1>1, <1>2 DEF KnowsEngine, Abreast
  <2> QED
    BY <1>3, <1>4, <1>19, <2>1
<1>21. KnowsEngine'
  <2>1. Joined' => Abreast'
    <3>1. c.last <= cursor.announced => c.last <= eng.seq /\ (net # <<>> => c.last <= net[1].seq)
      <4>1. net # <<>> => net[1].seq \in Nat /\ cursor.announced <= net[1].seq
        BY <1>2, <1>4, TypeFacts DEF Observed
      <4>2. cursor.announced <= eng.seq
        BY <1>2 DEF Observed
      <4> QED
        BY <1>3, <1>4, <4>1, <4>2, SMTT(60)
    <3> QED
      BY <1>1, <1>9, <1>20, <3>1 DEF Abreast
  <2>2. /\ cursor.from <= eng.inst /\ cursor.inst <= eng.inst
        /\ cursor.inst = eng.inst => cursor.from = eng.inst
    BY <1>2 DEF KnowsEngine
  <2> QED
    BY <1>1, <1>4, <1>9, <2>1, <2>2 DEF KnowsEngine
<1>22. Fetching'
  <2>1. CASE ask
    <3>1. PICK g : g = new
      OBVIOUS
    <3>2. PICK n : n = c.last
      OBVIOUS
    <3>3. n + 1 \in 1..cursor.announced
      BY <1>3, <1>4, <1>6, <2>1, <3>2
    <3>4. n + 1 \notin Seqs(cursor.pending) /\ n + 1 \notin Seqs(c.pending)
      BY <1>3, <3>2 DEF Seqs
    <3>5. Overwritten(n + 1) /\ (net # <<>> => n + 1 \notin Seqs(net[1].events))
      BY <1>2, <3>3, <3>4 DEF Observed
    <3>6. Hole(n + 1)'
      BY <1>1, <1>9, <1>12, <3>4, <3>5 DEF Hole
    <3>7. Live' = {g} /\ g.pc = "asked" /\ g.since = n /\ cursor'.last = n /\ cursor'.fetching
      BY <1>9, <1>13, <1>14, <2>1, <3>1, <3>2
    <3>8. n \in Nat
      BY <1>3, <3>2
    <3> QED
      BY <3>6, <3>7, <3>8 DEF Fetching
  <2>2. CASE ~ask
    <3>1. Live' = Live /\ (Live # {} => ~back)
      BY <1>8, <1>14, <2>2
    <3>2. \A s : Hole(s) => Hole(s)'
      BY <1>1, <1>3, <1>9, <1>12 DEF Hole, Seqs
    <3>3. \A f : Answer(f)' <=> Answer(f)
      BY <1>1 DEF Answer, Oldest
    <3>4. ASSUME NEW f \in Live
          PROVE  /\ cursor'.fetching /\ f.since <= cursor'.last
                 /\ cursor'.inst # eng'.inst => f.since = cursor'.last /\ Hole(f.since + 1)
                 /\ f.pc = "answered" => Answer(f)
      <4>1. /\ cursor.fetching /\ f.since <= cursor.last
            /\ cursor.inst # eng.inst => f.since = cursor.last /\ Hole(f.since + 1)
            /\ f.pc = "answered" => Answer(f)
        BY <1>2 DEF Fetching
      <4>2. last = cursor.last /\ f.since \in Nat /\ last <= c.last
        BY <1>2, <1>3, <1>7, <3>1, TypeFacts, SMTT(60) DEF Live
      <4>3. cursor.inst # eng.inst => c.last = cursor.last
        <5>1. ASSUME cursor.inst # eng.inst PROVE D = {}
          BY <1>3, <4>1, <4>2, <5>1 DEF Hole
        <5>2. ASSUME D = {} PROVE c.last = last
          <6>1. c.last \notin (last + 1)..c.last
            BY <1>3, <5>2
          <6> QED
            BY <1>3, <1>4, <6>1
        <5> QED
          BY <4>2, <5>1, <5>2
      <4>4. cursor'.fetching
        BY <1>9, <4>1
      <4>5. f.since <= c.last /\ cursor'.last = c.last /\ cursor'.inst = cursor.inst /\ eng' = eng
        BY <1>1, <1>3, <1>4, <1>9, <4>1, <4>2, SMTT(60)
      <4> QED
        BY <4>1, <4>3, <4>4, <4>5
    <3> QED
      BY <1>2, <3>1, <3>2, <3>3, <3>4 DEF Fetching
  <2> QED
    BY <1>6, <2>1, <2>2
<1>23. Probed'
  <2> SUFFICES ASSUME probe # Nothing
               PROVE  /\ probe.inst = eng.inst /\ probe.seq <= eng.seq
                      /\ cursor.inst # eng.inst /\ Joined' => c.last <= probe.seq
    BY <1>1, <1>9 DEF Probed
  <2>1. /\ probe.inst = eng.inst /\ probe.seq <= eng.seq
        /\ cursor.inst # eng.inst => cursor.announced <= probe.seq
    BY <1>1, <1>2 DEF Probed
  <2> QED
    BY <1>3, <1>4, <1>20, <2>1
<1>24. HandedBefore'
  <2>1. ASSUME NEW h \in Range(handed) PROVE h.inst < eng.inst \/ (h.inst = eng.inst /\ h.seq <= c.last)
    <3>1. h.inst < eng.inst \/ (h.inst = eng.inst /\ h.seq <= last)
      BY <1>2, <1>4, <1>7, <1>8 DEF HandedBefore, HandedHere
    <3> QED
      BY <1>3, <1>4, <3>1
  <2> QED
    BY <1>1, <1>3, <1>9, <1>11, <2>1 DEF HandedBefore
<1>25. HandedOnceInOrder'
  BY <1>11 DEF HandedOnceInOrder
<1>26. OnlyForgottenSkipped'
  <2> SUFFICES ASSUME cursor'.from = eng.inst, NEW s \in (cursor'.base + 1)..c.last
               PROVE  s < Oldest \/ [inst |-> eng.inst, seq |-> s] \in Range(handed')
    BY <1>1, <1>9 DEF OnlyForgottenSkipped, Oldest
  <2>1. CASE s \in (last + 1)..c.last
    BY <1>3, <1>11, <2>1
  <2>2. CASE ~back /\ s <= last
    <3>1. s \in (cursor.base + 1)..cursor.last /\ cursor.from = eng.inst
      BY <1>3, <1>4, <1>7, <1>9, <2>2
    <3> QED
      BY <1>2, <1>11, <3>1 DEF OnlyForgottenSkipped
  <2>3. CASE back
    BY <1>3, <1>7, <1>9, <2>1, <2>3
  <2> QED
    BY <1>3, <1>4, <1>7, <1>9, <2>1, <2>2, <2>3
<1> QED
  BY <1>15, <1>16, <1>17, <1>21, <1>22, <1>23, <1>24, <1>25, <1>26 DEF EventInv

\* What the cursor takes from an answer of the running engine.
LEMMA AppliedFacts ==
  ASSUME EventsType, NEW f \in fetches, f.since <= f.seq, f.inst = eng.inst,
         f.events \subseteq Events(eng.inst, (f.since + 1)..f.seq)
  PROVE  LET c == Applied(cursor, f)
             same == cursor.inst = eng.inst
         IN  /\ c \in Cursor /\ c.inst = eng.inst /\ c.from = eng.inst
             /\ c.pending \subseteq cursor.pending
             /\ c.last >= f.seq /\ (c.last = f.seq \/ (same /\ c.last = cursor.last))
             /\ same => c.last >= cursor.last /\ c.base = cursor.base
             /\ ~same => c.last = f.seq /\ c.base = f.since
<1> DEFINE base == IF cursor.inst # eng.inst THEN 0 ELSE cursor.last
           S == {base, f.seq} \cup Seqs(f.events)
           m == Max(S)
           c == Applied(cursor, f)
           since == IF cursor.inst # eng.inst THEN f.since ELSE cursor.base
<1>1. /\ f \in Fetch /\ cursor \in Cursor /\ MaxSeq \in Nat /\ eng.inst \in 0..MaxInst
      /\ f.seq \in 0..MaxSeq /\ f.since \in 0..MaxSeq /\ cursor.last \in 0..MaxSeq
      /\ cursor.base \in 0..MaxSeq
  BY TypeFacts, EngineBounds, SMTT(60) DEF Instances, EventsType
<1>2. base \in 0..MaxSeq /\ since \in 0..MaxSeq
  BY <1>1
<1>3. Seqs(f.events) \subseteq (f.since + 1)..f.seq
  BY DEF Events, Seqs
<1>4. S \in SUBSET (0..MaxSeq) /\ S # {} /\ f.seq \in S /\ base \in S
  BY <1>1, <1>2, <1>3
<1>5. m \in S /\ \A y \in S : y <= m
  <2> HIDE DEF S
  <2> QED
    BY <1>1, <1>4, MaxIsLast
<1>6. m \in 0..MaxSeq /\ m >= f.seq /\ m >= base /\ (m = base \/ m = f.seq)
  <2>1. m \in 0..MaxSeq /\ m >= f.seq /\ m >= base
    BY <1>1, <1>2, <1>4, <1>5
  <2>2. \A y \in S : y = base \/ y <= f.seq
    BY <1>1, <1>3
  <2> QED
    BY <1>1, <1>2, <1>5, <2>1, <2>2
<1>7. c = [cursor EXCEPT !.fetching = FALSE, !.inst = eng.inst, !.from = eng.inst,
                         !.base = since, !.last = m, !.pending = After(cursor.pending, m)]
  BY <1>1 DEF Applied, Cursor
<1> HIDE DEF m, since
<1>8. /\ c \in Cursor /\ c.inst = eng.inst /\ c.from = eng.inst /\ c.last = m /\ c.base = since
      /\ c.pending \subseteq cursor.pending
  BY <1>1, <1>2, <1>6, <1>7, ZenonT(60) DEF Cursor, After
<1> QED
  BY <1>1, <1>6, <1>8 DEF since

\* An answer fills the hole in front of the cursor and never moves it back.
LEMMA ApplyFetchedKeeps ==
  ASSUME Windows = {}, EventInv, NEW f \in fetches, ApplyFetched(f)
  PROVE  EventInv'
<1> DEFINE same == cursor.inst = eng.inst
           last == cursor.last
           D == IF cursor.inst # f.inst THEN f.events ELSE After(f.events, cursor.last)
           g == [f EXCEPT !.pc = "emit", !.events = {},
                          !.out = Alarm(cursor.inst # f.inst) \o InOrder(D)]
<1>1. /\ UNCHANGED <<eng, net, osc, probe>>
      /\ f.pc = "answered" /\ NothingOlder(f) /\ cursor' = Applied(cursor, f)
      /\ handed' = handed \o InOrder(D) /\ fetches' = (fetches \ {f}) \cup {g}
  BY DEF ApplyFetched, Becomes, Fresh
<1>2. /\ EventsType /\ Datagram /\ Pending /\ KnowsEngine /\ Fetching /\ Probed
      /\ HandedBefore /\ HandedOnceInOrder /\ OnlyForgottenSkipped
  BY DEF EventInv
<1>3. /\ MaxSeq \in Nat /\ last \in 0..MaxSeq /\ cursor.base \in 0..MaxSeq
      /\ eng.inst \in Nat /\ eng.inst \in 0..MaxInst /\ eng.inst \in Instances /\ eng.seq \in 0..MaxSeq
      /\ f \in Fetch /\ f.since \in 0..MaxSeq /\ f.seq \in 0..MaxSeq
  <2>1. f \in Fetch
    BY <1>2 DEF EventsType
  <2> QED
    BY <1>2, <2>1, TypeFacts, EngineBounds DEF Instances
<1>4. \A h \in Range(handed) : h \in Event /\ h.inst \in Nat /\ h.seq \in Nat
  BY <1>2, TypeFacts, EngineBounds
<1>5. Live = {f} /\ Live' = {} /\ Joined
  <2>1. f \in Live
    BY <1>1 DEF Live
  <2>2. Live = {f}
    BY <1>2, <2>1 DEF Fetching
  <2>3. g.pc = "emit"
    BY <1>3 DEF Fetch
  <2> QED
    BY <1>1, <2>2, <2>3 DEF Live, Joined
<1>6. /\ f.since <= last /\ Answer(f)
      /\ ~same => f.since = last
      /\ last <= eng.seq /\ (net # <<>> => last <= net[1].seq)
  BY <1>1, <1>2, <1>5 DEF Fetching, KnowsEngine, Abreast
<1>7. /\ f.inst = eng.inst /\ f.since <= f.seq /\ f.seq <= eng.seq
      /\ f.events \subseteq Events(eng.inst, (f.since + 1)..f.seq)
      /\ \A s \in (f.since + 1)..f.seq : s < Oldest \/ [inst |-> eng.inst, seq |-> s] \in f.events
  BY <1>6 DEF Answer
<1>8. osc.pc # "drain" /\ (net # <<>> => net[1].seq >= f.seq)
  <2>1. DOMAIN net = 1..Len(net) /\ (net # <<>> => 1 \in DOMAIN net /\ net[1].inst = eng.inst)
    BY <1>2, TypeFacts DEF EventsType, Datagram
  <2> QED
    BY <1>1, <1>7, <2>1 DEF NothingOlder
<1> DEFINE c == Applied(cursor, f)
<1>9. /\ c \in Cursor /\ c.inst = eng.inst /\ c.from = eng.inst
      /\ c.pending \subseteq cursor.pending
      /\ c.last >= f.seq /\ (c.last = f.seq \/ (same /\ c.last = cursor.last))
      /\ same => c.last >= cursor.last /\ c.base = cursor.base
      /\ ~same => c.last = f.seq /\ c.base = f.since
  BY <1>2, <1>7, AppliedFacts
<1>10. cursor' = c /\ c.last \in 0..MaxSeq /\ c.last >= last
  <2>1. cursor' = c /\ c.last \in 0..MaxSeq
    BY <1>1, <1>9 DEF Cursor
  <2> QED
    BY <1>3, <1>6, <1>7, <1>9, <2>1
<1> HIDE DEF c
<1>11. \A e : e \in D <=> e \in f.events /\ e.seq > last
  <2>1. \A e \in f.events : ~same => e.seq > last
    BY <1>3, <1>6, <1>7 DEF Events
  <2> QED
    BY <1>7, <2>1 DEF After
<1> HIDE DEF D
<1>12. \A e \in f.events : e \in Event /\ e.inst = eng.inst /\ e.seq \in 1..f.seq
  <2>1. f.events \subseteq Event
    BY <1>3 DEF Fetch
  <2>2. \A e \in f.events : e.inst = eng.inst /\ e.seq \in (f.since + 1)..f.seq
    BY <1>7 DEF Events
  <2> QED
    BY <1>3, <2>1, <2>2
<1>13. D \in SUBSET Event /\ IsFiniteSet(D)
  <2>1. D \subseteq Event
    BY <1>11, <1>12
  <2>2. D \subseteq Events(eng.inst, 1..f.seq)
    <3>1. \A e \in D : e \in f.events
      BY <1>11
    <3>2. f.events \subseteq Events(eng.inst, 1..f.seq)
      BY <1>3, <1>7 DEF Events
    <3> QED
      BY <3>1, <3>2
  <2>3. f.seq \in Nat
    BY <1>3
  <2> QED
    BY <2>1, <2>2, <2>3, EventsFinite
<1>14. InOrder(D) \in Seq(Event)
  <2>1. \A d, e \in D : d.seq = e.seq => d = e
    BY <1>11, <1>12, EngineBounds
  <2> QED
    BY <1>13, <2>1, InOrderLists
<1>15. /\ handed' \in Seq(Event) /\ Range(handed') = Range(handed) \cup D
       /\ \A i \in 1..(Len(handed') - 1) : Precedes(handed'[i], handed'[i + 1])
  <2>1. handed \in Seq(Event) /\ \A i \in 1..(Len(handed) - 1) : Precedes(handed[i], handed[i + 1])
    BY <1>2 DEF EventsType, HandedOnceInOrder
  <2>2. \A x \in Range(handed) : x.inst < eng.inst \/ (x.inst = eng.inst /\ x.seq <= last)
    BY <1>2 DEF HandedBefore
  <2>3. \A e \in D : e.inst = eng.inst /\ e.seq > last
    BY <1>11, <1>12
  <2>4. last \in Nat
    BY <1>3
  <2> QED
    BY <1>1, <1>3, <1>13, <2>1, <2>2, <2>3, <2>4, HandedGrows
<1>16. EventsType'
  <2>1. g \in Fetch
    <3>1. Alarm(cursor.inst # f.inst) \o InOrder(D) \in Seq(Emission)
      BY <1>14, EmissionList
    <3> QED
      BY <1>3, <3>1 DEF Fetch
  <2>2. fetches' \subseteq Fetch
    BY <1>1, <1>2, <2>1 DEF EventsType
  <2> QED
    BY <1>1, <1>2, <1>9, <1>10, <1>15, <2>2 DEF EventsType
<1>17. Datagram'
  BY <1>1, <1>2 DEF Datagram, Overwritten
<1>18. Pending'
  BY <1>1, <1>2, <1>8, <1>9, <1>10 DEF Pending, Seqs
<1>19. KnowsEngine' /\ Probed'
  <2>1. c.last <= eng.seq
    BY <1>3, <1>6, <1>7, <1>9
  <2>2. net # <<>> => c.last <= net[1].seq
    BY <1>6, <1>8, <1>9, <1>3, <1>2, TypeFacts
  <2>3. Abreast'
    BY <1>1, <1>8, <1>10, <2>1, <2>2 DEF Abreast
  <2> QED
    BY <1>1, <1>2, <1>3, <1>9, <1>10, <2>3 DEF KnowsEngine, Probed
<1>20. Fetching'
  BY <1>5 DEF Fetching
<1>21. HandedBefore'
  <2>1. ASSUME NEW h \in Range(handed) PROVE h.inst < eng.inst \/ (h.inst = eng.inst /\ h.seq <= c.last)
    BY <1>2, <1>3, <1>4, <1>10 DEF HandedBefore
  <2>2. ASSUME NEW e \in D PROVE e.inst = eng.inst /\ e.seq <= c.last
    BY <1>3, <1>9, <1>10, <1>11, <1>12
  <2> QED
    BY <1>1, <1>10, <1>15, <2>1, <2>2 DEF HandedBefore
<1>22. HandedOnceInOrder'
  BY <1>15 DEF HandedOnceInOrder
<1>23. OnlyForgottenSkipped'
  <2> SUFFICES ASSUME NEW s \in (c.base + 1)..c.last
               PROVE  s < Oldest \/ [inst |-> eng.inst, seq |-> s] \in Range(handed')
    BY <1>1, <1>9, <1>10 DEF OnlyForgottenSkipped, Oldest
  <2>1. c.base \in 0..MaxSeq /\ s \in Nat
    BY <1>9, <1>10 DEF Cursor
  <2>2. CASE s > last
    <3>1. s \in (f.since + 1)..f.seq
      BY <1>3, <1>6, <1>9, <1>10, <2>1, <2>2, SMTT(60)
    <3>2. ASSUME [inst |-> eng.inst, seq |-> s] \in f.events
          PROVE  [inst |-> eng.inst, seq |-> s] \in D
      BY <1>11, <2>2, <3>2
    <3> QED
      BY <1>7, <1>15, <3>1, <3>2
  <2>3. CASE s <= last
    <3>1. same
      BY <1>3, <1>6, <1>9, <2>1, <2>3
    <3>2. s \in (cursor.base + 1)..last /\ cursor.from = eng.inst
      BY <1>2, <1>3, <1>9, <2>1, <2>3, <3>1 DEF KnowsEngine
    <3> QED
      BY <1>2, <1>15, <3>2 DEF OnlyForgottenSkipped
  <2> QED
    BY <1>3, <2>1, <2>2, <2>3
<1> QED
  BY <1>16, <1>17, <1>18, <1>19, <1>20, <1>21, <1>22, <1>23 DEF EventInv

-----------------------------------------------------------------------------
\* Nothing is under way at first.
LEMMA EventInvStarts ==
  Init => EventInv
<1> SUFFICES ASSUME Init PROVE EventInv
  OBVIOUS
<1>1. /\ MaxSeq \in Nat /\ MaxInst \in Nat /\ MaxInst > 0 /\ 0 \in 0..MaxSeq /\ 0 \in 0..MaxInst
      /\ 1 \in Instances
  BY EngineBounds DEF Instances
<1>2. /\ eng.inst = 1 /\ eng.seq = 0 /\ \A k \in Kinds : eng.newest[k] = 0
      /\ net = <<>> /\ osc.pc = "idle" /\ fetches = {} /\ probe = Nothing /\ handed = <<>>
      /\ cursor.inst = 0 /\ cursor.from = 0 /\ cursor.last = 0 /\ cursor.base = 0 /\ cursor.pending = {}
  BY DEF Init
<1>3. EventsType
  <2>1. eng \in [inst : Instances, seq : 0..MaxSeq, newest : [Kinds -> 0..MaxSeq]]
    BY <1>1 DEF Init
  <2>2. cursor \in Cursor /\ osc \in [pc : {"idle", "drain", "emit"}, out : Seq(Emission)]
    BY <1>1 DEF Init, Cursor
  <2>3. probe \in [inst : 0..MaxInst, seq : 0..MaxSeq]
    BY <1>1, <1>2 DEF Nothing
  <2> QED
    BY <1>2, <2>1, <2>2, <2>3 DEF EventsType
<1>4. Range(handed) = {} /\ Live = {}
  BY <1>2 DEF Range, Live
<1>5. Datagram /\ Pending /\ Fetching /\ Probed /\ HandedBefore
  BY <1>1, <1>2, <1>4 DEF Datagram, Pending, Fetching, Probed, HandedBefore
<1>6. KnowsEngine /\ HandedOnceInOrder /\ OnlyForgottenSkipped
  BY <1>1, <1>2, <1>4 DEF KnowsEngine, Joined, HandedHere, HandedOnceInOrder, OnlyForgottenSkipped
<1> QED
  BY <1>3, <1>5, <1>6 DEF EventInv

\* A step of somebody else changes nothing.
LEMMA EventInvStutters ==
  ASSUME EventInv, UNCHANGED vars
  PROVE  EventInv'
<1>1. UNCHANGED <<eng, net, cursor, osc, fetches, probe, handed, shown>>
  BY DEF vars
<1>2. EventsType' /\ Datagram'
  BY <1>1 DEF EventInv, EventsType, Datagram, Overwritten
<1>3. Pending' /\ Fetching'
  BY <1>1 DEF EventInv, Pending, Observed, Fetching, Hole, Live, Answer, Oldest, Overwritten
<1>4. KnowsEngine' /\ Probed'
  <2>1. (Joined' <=> Joined) /\ (HandedHere' <=> HandedHere)
    BY <1>1, Zenon DEF Joined, HandedHere, Live
  <2>2. Abreast' <=> Abreast
    BY <1>1 DEF Abreast
  <2> QED
    BY <1>1, <2>1, <2>2 DEF EventInv, KnowsEngine, Probed
<1>5. HandedBefore' /\ HandedOnceInOrder' /\ OnlyForgottenSkipped'
  <2>1. HandedBefore'
    BY <1>1, Zenon DEF EventInv, HandedBefore
  <2>2. HandedOnceInOrder'
    BY <1>1, Zenon DEF EventInv, HandedOnceInOrder
  <2>3. OnlyForgottenSkipped'
    BY <1>1, Zenon DEF EventInv, OnlyForgottenSkipped, Oldest
  <2> QED
    BY <2>1, <2>2, <2>3
<1> QED
  BY <1>2, <1>3, <1>4, <1>5 DEF EventInv

\* The inductive invariant, action by action.
LEMMA EventInvHolds ==
  ASSUME Windows = {}
  PROVE  Spec => []EventInv
<1>1. ASSUME EventInv, [Next]_vars
      PROVE  EventInv'
  <2>1. CASE EngineEvent
    BY <1>1, <2>1, EngineEventKeeps
  <2>2. CASE SendOsc
    BY <1>1, <2>2, SendOscKeeps
  <2>3. CASE Restart
    BY <1>1, <2>3, RestartKeeps
  <2>4. CASE ReadOsc
    BY <1>1, <2>4, ReadOscKeeps
  <2>5. CASE DrainOsc
    BY <1>1, <2>5, DrainOscKeeps
  <2>6. CASE EmitOsc
    BY <1>1, <2>6, EmitOscKeeps
  <2>7. CASE GapIntervalPasses
    BY <1>1, <2>7, GapIntervalPassesKeeps
  <2>8. ASSUME NEW f \in fetches, Answered(f) \/ FetchFails(f) \/ ApplyFetched(f) \/ EmitFetched(f)
        PROVE  EventInv'
    BY <1>1, <2>8, AnsweredKeeps, FetchFailsKeeps, ApplyFetchedKeeps, EmitFetchedKeeps
  <2>9. CASE Probe
    BY <1>1, <2>9, ProbeKeeps
  <2>10. CASE Detect
    BY <1>1, <2>10, DetectKeeps
  <2>11. CASE UNCHANGED vars
    BY <1>1, <2>11, EventInvStutters
  <2> QED
    BY <1>1, <2>1, <2>2, <2>3, <2>4, <2>5, <2>6, <2>7, <2>8, <2>9, <2>10, <2>11 DEF Next
<1> QED
  BY <1>1, EventInvStarts, PTL DEF Spec

\* Every event reaches the frontend's side once and in the order of the engine,
\* however OSC, fetches, probes and restarts interleave (ForkOscState).
THEOREM EventsHandedOnceInOrder ==
  ASSUME Windows = {}
  PROVE  Spec => []HandedOnceInOrder
<1>1. EventInv => HandedOnceInOrder
  BY DEF EventInv
<1> QED
  BY <1>1, EventInvHolds, PTL

\* The cursor passes no event by that the engine could still have told
\* (apply_fetched, drain_locked).
THEOREM OnlyForgottenEventsSkipped ==
  ASSUME Windows = {}
  PROVE  Spec => []OnlyForgottenSkipped
<1>1. EventInv => OnlyForgottenSkipped
  BY DEF EventInv
<1> QED
  BY <1>1, EventInvHolds, PTL

\* The listener reports a reset only on the first news of a new engine
\* (after_osc_packet).
THEOREM ResetOnlyAtRestart ==
  ASSUME Windows = {}
  PROVE  Spec => ResetIsARestart
<1>1. ASSUME EventInv, [Next]_vars, Reset \in Range(osc'.out) \ Range(osc.out)
      PROVE  cursor.from < eng.inst
  <2>1. CASE DrainOsc
    <3> DEFINE o == InOrder(Drainable(cursor))
    <3>1. osc.pc = "drain" /\ osc'.out = Alarm(WentBack(cursor)) \o o
      BY <2>1 DEF DrainOsc
    <3>2. o \in Seq(Event)
      <4> DEFINE D == Drainable(cursor)
      <4>1. D \in SUBSET Event /\ IsFiniteSet(D) /\ \A e \in D : e.inst = eng.inst
        BY <1>1, <3>1, DrainFacts DEF EventInv
      <4>2. \A d, e \in D : d.seq = e.seq => d = e
        BY <4>1, EngineBounds
      <4> HIDE DEF D
      <4>3. InOrder(D) \in Seq(D)
        BY <4>1, <4>2, InOrderLists
      <4> QED
        BY <4>1, <4>3 DEF D
    <3>3. WentBack(cursor)
      BY <1>1, <3>1, <3>2, EmissionList DEF WentBack
    <3>4. ~Abreast
      BY <1>1, <3>1, <3>3, TypeFacts, EngineBounds DEF EventInv, Abreast, WentBack
    <3>5. cursor.from # eng.inst /\ cursor.from <= eng.inst
      BY <1>1, <3>4 DEF EventInv, KnowsEngine, Joined
    <3> QED
      BY <1>1, <3>5, TypeFacts DEF EventInv
  <2>2. CASE EmitOsc /\ osc.out # <<>>
    <3>1. osc.out \in Seq(Emission) /\ osc' = [osc EXCEPT !.out = Tail(osc.out)]
      BY <1>1, <2>2 DEF EmitOsc, EventInv, EventsType
    <3>2. osc'.out = Tail(osc.out)
      BY <1>1, <3>1 DEF EventInv, EventsType
    <3> QED
      BY <1>1, <2>2, <3>1, <3>2, EmissionTail
  <2>3. CASE osc'.out = osc.out
    BY <1>1, <2>3
  <2>4. ASSUME EmitOsc, osc.out = <<>> PROVE osc'.out = osc.out
    BY <1>1, <2>4 DEF EmitOsc, EventInv, EventsType
  <2>5. ASSUME ReadOsc PROVE osc'.out = osc.out
    BY <1>1, <2>5, SMTT(60) DEF ReadOsc, EventInv, EventsType
  <2>6. ASSUME ~DrainOsc, ~EmitOsc, ~ReadOsc PROVE osc'.out = osc.out
    BY <1>1, <2>6 DEF Next, vars, EngineEvent, SendOsc, Restart, GapIntervalPasses, Answered,
                      FetchFails, ApplyFetched, EmitFetched, Probe, Detect
  <2> QED
    BY <2>1, <2>2, <2>3, <2>4, <2>5, <2>6
<1>2. EventInv /\ [Next]_vars =>
        [(Reset \in Range(osc'.out) \ Range(osc.out)) => cursor.from < eng.inst]_vars
  BY <1>1
<1> QED
  BY <1>2, EventInvHolds, PTL DEF Spec, ResetIsARestart

-----------------------------------------------------------------------------
(* Tags, items and the parts of the state *)
AnyTag == [base : RowSet \cup {NoKey, Filler}, n : Nat]
AnyItem == [tag : AnyTag, ver : Nat, auto : BOOLEAN]
Report == [kind : {"onair", "ended"}, tag : AnyTag]
Wish == [base : RowSet, ver : Nat]

LayerType == layer \in [fg : AnyItem, ended : BOOLEAN, waiting : Seq(AnyItem), fill : BOOLEAN]
RowsType ==
  /\ rundown \in Seq(RowSet) /\ Range(rundown) = RowSet
  /\ row \in [RowSet -> [ver : Nat, status : {"ready", "blocked", "error"}]]
UiType ==
  ui \in [key : RowSet \cup {NoKey}, fg : AnyTag, waiting : Seq(AnyTag), pending : AnyTag,
          known : SUBSET [tag : AnyTag, ver : Nat], dirty : BOOLEAN]
SyncType ==
  /\ sync \in [pc : {"idle", "info", "clear", "queue", "end"}, onAir : AnyTag, token : Nat,
               desired : Seq(Wish), attempts : Nat, tags : Seq(AnyTag), at : Nat \ {0},
               blocked : RowSet \cup {NoKey}]
  /\ retry \in [count : Nat, armed : BOOLEAN]
TakeType ==
  /\ take \in [pc : {"none", "prepare", "loaded"}, row : RowSet \cup {NoKey}, token : Nat, tag : AnyTag]
  /\ token \in Nat /\ follow \in AnyTag /\ used \in [edits : Nat, takes : Nat, faults : Nat]
QueueType == LayerType /\ events \in Seq(Report) /\ RowsType /\ UiType /\ SyncType /\ TakeType

\* The take under way holds the token; the row of the key is on air; what the engine has
\* reported and the frontend not handled; a cut among it.
Taking == take.pc # "none" /\ take.token = token
Playing == ui.key # NoKey /\ ~Taking
ReportsOf(kind) == {events[i].tag : i \in {j \in DOMAIN events : events[j].kind = kind}}
Onairs == ReportsOf("onair")
Endings == ReportsOf("ended")
Cuts == Onairs \ {ui.pending}
Busy == sync.pc \in {"info", "clear", "queue"}
Finished == sync.pc = "queue" /\ sync.at > Len(sync.tags)
\* The tags of the items are the end of t, behind x.
EndOf(items, t) ==
  Len(items) <= Len(t) /\ \A i \in 1..Len(items) : items[i].tag = t[Len(t) - Len(items) + i]
EndBehind(x, items, t) == EndOf(items, t) /\ Len(items) < Len(t) /\ t[Len(t) - Len(items)] = x

\* At most an end and the item queued upon it are reported and not handled.
Reports ==
  /\ Len(events) <= 2
  /\ Len(events) = 2 => events[1].kind = "ended" /\ events[2].kind = "onair"
  /\ \A t \in Onairs : t.base # NoKey
  /\ \A t \in Endings : t.base \in RowSet
  /\ Endings # {} => follow = NoTag
  /\ follow = NoTag \/ follow.base \in RowSet
Tokens ==
  /\ sync.token <= token /\ take.token <= token
  /\ sync.pc # "idle" /\ sync.token = token => Playing
\* What waits is numbered, has names of its own and cuts by itself, but for a take's item.
Items ==
  /\ layer.fg = NoItem \/ layer.fg.tag.base # NoKey
  /\ \A i \in DOMAIN layer.waiting : layer.waiting[i].tag.base \in RowSet
  /\ layer.fg.tag.n <= 10 + token /\ \A i \in DOMAIN layer.waiting : layer.waiting[i].tag.n <= 10 + token
  /\ (\E i \in DOMAIN layer.waiting : ~layer.waiting[i].auto) => Taking /\ Len(layer.waiting) = 1
  /\ layer.ended => \A i \in DOMAIN layer.waiting : ~layer.waiting[i].auto
  /\ \A k \in ui.known : \A i \in DOMAIN layer.waiting :
       layer.waiting[i].auto /\ k.tag = layer.waiting[i].tag => k.ver = layer.waiting[i].ver
Distinct ==
  /\ \A i \in DOMAIN layer.waiting : layer.waiting[i].tag # layer.fg.tag
  /\ \A i, j \in DOMAIN layer.waiting : layer.waiting[i].tag = layer.waiting[j].tag => i = j
\* Nothing of the frontend's is on air: no sync of an earlier row can still have an effect.
Away ==
  ~Playing => /\ ui.waiting = <<>>
              /\ sync.pc # "clear" /\ ~Finished
              /\ ui.key = NoKey => layer.waiting = <<>>
\* A take under way.
TakeHolds ==
  Taking =>
    /\ take.row \in RowSet /\ ui.key = take.row
    /\ Tag(Filler, 1) \notin Onairs /\ \A t \in Onairs : t.base # Filler
    /\ follow.base # take.row /\ \A t \in Onairs \cup Endings : t.base # take.row
    /\ ui.fg # layer.fg.tag => layer.fg.tag.base # take.row
    /\ row[take.row].status # "ready" =>
         /\ take.pc = "prepare" /\ events = <<>> /\ follow = NoTag
         /\ layer.waiting = <<>> /\ layer.ended /\ layer.fg.tag = ui.fg
    /\ take.pc = "prepare" =>
         layer.fg.tag.n < 10 + token /\ \A i \in DOMAIN layer.waiting : layer.waiting[i].tag.n < 10 + token
    /\ take.pc = "loaded" =>
         /\ Len(layer.waiting) = 1 /\ layer.waiting[1].tag = take.tag /\ ~layer.waiting[1].auto
         /\ take.tag.base = take.row
\* The row of the key is on air: the frontend knows the item, or the report of the cut is on its way.
OnAirOrCut ==
  Playing =>
    /\ ui.fg.base = ui.key
    /\ Cuts = {} => layer.fg.tag = ui.fg /\ EndOf(layer.waiting, ui.waiting)
    /\ \A x \in Cuts :
         /\ layer.fg.tag = x /\ x.base # Filler /\ ~layer.ended /\ EndBehind(x, layer.waiting, ui.waiting)
         /\ ui.fg # x /\ \A i \in DOMAIN layer.waiting : layer.waiting[i].tag # ui.fg
         /\ x # follow /\ x \notin Endings
    /\ ui.pending # NoTag => ui.pending = ui.fg /\ Onairs = {ui.pending} /\ ~layer.ended
\* Its end is reported, once, and followed.
EndKnown ==
  Playing =>
    /\ layer.ended => follow \in {NoTag, ui.fg} /\ Endings \subseteq {ui.fg}
    /\ Cuts = {} => (layer.ended <=> ui.fg \in Endings \cup {follow})
\* The sync in flight.
Wanted ==
  sync.pc # "idle" =>
    /\ \A i, j \in DOMAIN sync.desired : sync.desired[i].base = sync.desired[j].base => i = j
    /\ \A i \in DOMAIN sync.desired : sync.desired[i].base # sync.onAir.base
Planned ==
  sync.pc \in {"clear", "queue"} =>
    /\ Len(sync.tags) = Len(sync.desired) /\ sync.at <= Len(sync.tags) + 1
    /\ \A i \in DOMAIN sync.tags : sync.tags[i].base = sync.desired[i].base /\ sync.tags[i].n <= 10 + token
Match(n) ==
  \A i \in 1..n : /\ layer.waiting[i].tag = sync.tags[i]
                  /\ layer.waiting[i].ver = sync.desired[i].ver /\ layer.waiting[i].auto
Unmoved == ~Stale /\ layer.fg.tag = sync.onAir
Steps ==
  /\ sync.pc = "info" /\ Unmoved => sync.attempts = 0
  /\ sync.pc = "clear" /\ Unmoved => Len(layer.waiting) > sync.at - 1 /\ Match(sync.at - 1)
  /\ sync.pc = "clear" /\ Stale =>
       layer.fg.tag # sync.onAir /\ \A i \in DOMAIN layer.waiting : layer.waiting[i].tag # sync.onAir
  /\ sync.pc = "queue" /\ Unmoved => Len(layer.waiting) = sync.at - 1 /\ Match(sync.at - 1)
  /\ Finished => IF Cuts = {} THEN EndOf(layer.waiting, sync.tags)
                 ELSE \A x \in Cuts : EndBehind(x, layer.waiting, sync.tags)
\* What it will leave is what is wanted, or it will be repeated.
Current ==
  Playing =>
    /\ sync.pc # "idle" /\ Stale => ui.dirty
    /\ Busy /\ ~Stale /\ ~ui.dirty /\ sync.blocked = NoKey => sync.desired = Desired /\ Blocker = NoKey
    /\ sync.pc = "end" /\ ~ui.dirty => Cuts # {}
    /\ sync.pc = "idle" /\ ~ui.dirty /\ Cuts = {} =>
         /\ Len(ui.waiting) = Len(layer.waiting)
         /\ retry.armed \/ (Wishes(layer.waiting) = Desired /\ Blocker = NoKey)
QueueInv ==
  /\ QueueType /\ Reports /\ Tokens /\ Items /\ Distinct /\ Away /\ TakeHolds
  /\ OnAirOrCut /\ EndKnown /\ Wanted /\ Planned /\ Steps /\ Current

-----------------------------------------------------------------------------
(* The operators *)

LEMMA Names == NoKey # Filler /\ NoKey \notin RowSet /\ Filler \notin RowSet
BY QueueAssumption DEF NoKey, Filler, RowSet

RankIn(f, e) == Cardinality({d \in DOMAIN f : f[d] <= f[e]})

\* Numbers give the members of a finite set their ranks: for each rank there is one.
LEMMA Ranking ==
  ASSUME NEW E, IsFiniteSet(E), NEW f \in [E -> Nat], \A d, e \in E : f[d] = f[e] => d = e,
         NEW i \in 1..Cardinality(E)
  PROVE  \E e \in E : RankIn(f, e) = i
<1> DEFINE n == Cardinality(E)
           upto(e) == {d \in E : f[d] <= f[e]}
           r == [e \in E |-> Cardinality(upto(e))]
<1>1. n \in Nat
  BY FS_CardinalityType
<1>2. ASSUME NEW e \in E PROVE IsFiniteSet(upto(e)) /\ r[e] = Cardinality(upto(e)) /\ r[e] \in 1..n
  <2>1. IsFiniteSet(upto(e)) /\ Cardinality(upto(e)) <= n
    BY FS_Subset
  <2>2. Cardinality(upto(e)) \in Nat
    BY <2>1, FS_CardinalityType
  <2>3. Cardinality(upto(e)) # 0
    <3>1. e \in upto(e)
      OBVIOUS
    <3> QED
      BY <2>1, <3>1, FS_EmptySet
  <2> QED
    BY <1>1, <2>1, <2>2, <2>3
<1>3. ASSUME NEW d \in E, NEW e \in E, f[d] < f[e] PROVE r[d] # r[e]
  <2>1. upto(d) \subseteq upto(e) /\ e \in upto(e) /\ e \notin upto(d)
    BY <1>3
  <2>2. Cardinality(upto(d)) # Cardinality(upto(e))
    BY <1>2, <2>1, FS_Subset
  <2> QED
    BY <2>2
<1>4. r \in [E -> 1..n]
  BY <1>2
<1> HIDE DEF r
<1>5. \A d, e \in E : r[d] = r[e] => d = e
  <2> SUFFICES ASSUME NEW d \in E, NEW e \in E, d # e PROVE r[d] # r[e]
    OBVIOUS
  <2>1. f[d] < f[e] \/ f[e] < f[d]
    OBVIOUS
  <2> QED
    BY <1>3, <2>1
<1>6. r \in Surjection(E, 1..n)
  <2>1. r \in Injection(E, 1..n)
    BY <1>4, <1>5 DEF Injection, IsInjective
  <2> QED
    BY <1>1, <2>1, FS_Injection, FS_Interval
<1>7. PICK e \in E : r[e] = i
  BY <1>6 DEF Surjection
<1>8. r[e] = RankIn(f, e)
  BY <1>2 DEF RankIn
<1> QED
  BY <1>7, <1>8

LEMMA PlaceIs ==
  ASSUME NEW x \in Range(rundown)
  PROVE  Place(x) \in DOMAIN rundown /\ rundown[Place(x)] = x
BY DEF Place, Range

LEMMA BehindIs ==
  ASSUME QueueType, NEW r
  PROVE  Behind(r) \in SUBSET (RowSet \ {r}) /\ IsFiniteSet(Behind(r))
<1>1. rundown \in Seq(RowSet) /\ Range(rundown) = RowSet
  BY DEF QueueType, LayerType, RowsType, UiType, SyncType, TakeType
<1>2. Behind(r) \subseteq RowSet
  BY <1>1 DEF Behind
<1>3. r \notin Behind(r)
  <2> SUFFICES ASSUME r \in Behind(r) PROVE FALSE
    OBVIOUS
  <2>1. r \in Range(rundown) /\ Place(r) > Place(r)
    BY DEF Behind
  <2>2. Place(r) \in Nat
    BY <1>1, <2>1, PlaceIs
  <2> QED
    BY <2>1, <2>2
<1>4. IsFiniteSet(RowSet)
  <2>1. Len(rundown) \in Nat /\ DOMAIN rundown = 1..Len(rundown)
    BY <1>1
  <2>2. rundown \in Surjection(1..Len(rundown), RowSet)
    BY <1>1, <2>1 DEF Range, Surjection
  <2>3. IsFiniteSet(1..Len(rundown))
    BY <2>1, FS_Interval
  <2> QED
    BY <2>2, <2>3, FS_Surjection
<1> QED
  BY <1>2, <1>3, <1>4, FS_Subset

\* The rows behind one, each once.
LEMMA NextRowsAre ==
  ASSUME QueueType, NEW r
  PROVE  /\ NextRows(r) \in Seq(Behind(r)) /\ Len(NextRows(r)) = Cardinality(Behind(r))
         /\ \A i, j \in DOMAIN NextRows(r) : NextRows(r)[i] = NextRows(r)[j] => i = j
         /\ Behind(r) # {} => NextRows(r) # <<>> /\ Head(NextRows(r)) \in Behind(r)
<1> DEFINE E == Behind(r)
           n == Cardinality(E)
           s == [i \in 1..n |-> CHOOSE x \in E : Cardinality({y \in E : Place(y) <= Place(x)}) = i]
           f == [x \in E |-> Place(x)]
<1>1. E \in SUBSET RowSet /\ IsFiniteSet(E) /\ n \in Nat
  BY BehindIs, FS_CardinalityType
<1>2. \A x \in E : x \in Range(rundown)
  BY DEF Behind
<1>3. \A x \in E : Place(x) \in Nat /\ rundown[Place(x)] = x
  <2>1. DOMAIN rundown \subseteq Nat
    BY SMTT(60) DEF QueueType, RowsType
  <2> QED
    BY <1>2, <2>1, PlaceIs
<1>4. f \in [E -> Nat] /\ \A d, e \in E : f[d] = f[e] => d = e
  BY <1>3
<1>0. \A x \in E : f[x] = Place(x)
  OBVIOUS
<1>6. NextRows(r) = s
  BY Zenon DEF NextRows
<1>k. n = Cardinality(E)
  OBVIOUS
<1> HIDE DEF f, E, n, s
<1>5. ASSUME NEW i \in 1..n
      PROVE  s[i] \in E /\ Cardinality({y \in E : Place(y) <= Place(s[i])}) = i
  <2>1. PICK e \in E : RankIn(f, e) = i
    BY <1>1, <1>4, <1>k, Ranking
  <2>2. {d \in DOMAIN f : f[d] <= f[e]} = {d \in E : Place(d) <= Place(e)}
    BY <1>0, <1>4
  <2>3. \E x \in E : Cardinality({y \in E : Place(y) <= Place(x)}) = i
    BY <2>1, <2>2 DEF RankIn
  <2>4. s[i] = CHOOSE x \in E : Cardinality({y \in E : Place(y) <= Place(x)}) = i
    BY DEF s
  <2> QED
    BY <2>3, <2>4, Zenon
<1>7. s \in Seq(E) /\ Len(s) = n /\ DOMAIN s = 1..n
  <2>1. s \in [1..n -> E]
    <3>1. DOMAIN s = 1..n /\ s = [i \in 1..n |-> s[i]]
      BY DEF s
    <3> QED
      BY <1>5, <3>1
  <2> QED
    BY <1>1, <2>1
<1>8. \A i, j \in 1..n : s[i] = s[j] => i = j
  BY <1>5
<1>9. E # {} => s # <<>> /\ Head(s) \in E
  <2>1. ASSUME E # {} PROVE n # 0
    BY <1>1, <1>k, <2>1, FS_EmptySet
  <2> QED
    BY <1>1, <1>7, <2>1
<1>10. /\ NextRows(r) \in Seq(E) /\ Len(NextRows(r)) = Cardinality(E)
       /\ \A i, j \in DOMAIN NextRows(r) : NextRows(r)[i] = NextRows(r)[j] => i = j
       /\ E # {} => NextRows(r) # <<>> /\ Head(NextRows(r)) \in E
  BY <1>6, <1>7, <1>8, <1>9, <1>k
<1> QED
  BY <1>10 DEF E

\* What is wanted behind the row of the key: other rows, each once.
LEMMA DesiredIs ==
  ASSUME QueueType
  PROVE  /\ Desired \in Seq(Wish)
         /\ \A i, j \in DOMAIN Desired : Desired[i].base = Desired[j].base => i = j
         /\ \A i \in DOMAIN Desired : Desired[i].base # ui.key
         /\ Blocker \in RowSet \cup {NoKey}
<1>1. /\ Candidates \in Seq(Behind(ui.key)) /\ Behind(ui.key) \in SUBSET (RowSet \ {ui.key})
      /\ \A i, j \in DOMAIN Candidates : Candidates[i] = Candidates[j] => i = j
  BY NextRowsAre, BehindIs DEF Candidates
<1> DEFINE blocked == {i \in DOMAIN Candidates : row[Candidates[i]].status = "blocked"}
           free == IF blocked = {} THEN Len(Candidates) ELSE (CHOOSE i \in blocked : \A j \in blocked : i <= j) - 1
           n == IF free < Depth THEN free ELSE Depth
<1>2. \E k \in Int : k <= Len(Candidates) /\ free = k
  <2>1. CASE blocked = {}
    BY <1>1, <2>1
  <2>2. CASE blocked # {}
    <3>1. blocked \subseteq Nat
      BY <1>1
    <3>2. \E i \in blocked : \A j \in blocked : i <= j
      <4>1. PICK m \in blocked : \A y \in blocked : ~(<<y, m>> \in OpToRel(<, Nat))
        BY <2>2, <3>1, NatLessThanWellFounded, WFMin
      <4>2. ASSUME NEW j \in blocked PROVE m <= j
        <5>1. ~(j < m)
          BY <3>1, <4>1 DEF OpToRel
        <5> QED
          BY <3>1, <5>1
      <4> QED
        BY <4>2
    <3> DEFINE first == CHOOSE i \in blocked : \A j \in blocked : i <= j
    <3>3. first \in blocked
      BY <3>2
    <3>4. free = first - 1
      BY <2>2
    <3>5. blocked \subseteq 1..Len(Candidates) /\ Len(Candidates) \in Nat
      BY <1>1
    <3> HIDE DEF first, blocked
    <3>6. free \in Int /\ free <= Len(Candidates)
      BY <3>3, <3>4, <3>5
    <3> QED
      BY <3>6
  <2> QED
    BY <2>1, <2>2
<1>4. Desired = [i \in 1..n |-> [base |-> Candidates[i], ver |-> row[Candidates[i]].ver]]
  BY DEF Desired
<1> HIDE DEF free
<1>3. n \in Int /\ n <= Len(Candidates) /\ \A i \in 1..n : i \in DOMAIN Candidates
  <2>1. PICK k \in Int : k <= Len(Candidates) /\ free = k
    BY <1>2
  <2>2. n \in Int /\ n <= k
    BY <2>1, QueueAssumption
  <2>3. Len(Candidates) \in Nat /\ DOMAIN Candidates = 1..Len(Candidates)
    BY <1>1
  <2> HIDE DEF n
  <2>4. n <= Len(Candidates)
    BY <2>1, <2>2, <2>3
  <2>5. \A i \in 1..n : i \in 1..Len(Candidates)
    BY <2>2, <2>3, <2>4
  <2> QED
    BY <2>2, <2>3, <2>4, <2>5
<1> HIDE DEF n
<1>5. ASSUME NEW i \in 1..n PROVE Candidates[i] \in RowSet \ {ui.key} /\ row[Candidates[i]].ver \in Nat
  <2>1. i \in DOMAIN Candidates
    BY <1>3
  <2>2. Candidates[i] \in Behind(ui.key)
    BY <1>1, <2>1
  <2>3. row \in [RowSet -> [ver : Nat, status : {"ready", "blocked", "error"}]]
    BY DEF QueueType, LayerType, RowsType, UiType, SyncType, TakeType
  <2> QED
    BY <1>1, <2>2, <2>3
<1>6. Desired \in Seq(Wish) /\ DOMAIN Desired = 1..n
  <2>1. \A i \in 1..n : Desired[i] \in Wish
    BY <1>4, <1>5 DEF Wish
  <2>2. \E k \in Nat : 1..n = 1..k
    <3>1. CASE n \in Nat
      BY <3>1
    <3>2. CASE n \notin Nat
      <4>1. 1..n = 1..0
        BY <1>3, <3>2
      <4> QED
        BY <4>1
    <3> QED
      BY <3>1, <3>2
  <2>3. PICK k \in Nat : 1..n = 1..k
    BY <2>2
  <2>4. Desired \in [1..k -> Wish]
    BY <1>4, <2>1, <2>3
  <2> QED
    BY <2>3, <2>4
<1>7. Blocker \in RowSet \cup {NoKey}
  <2>1. Len(Desired) \in Nat
    BY <1>6
  <2> QED
    BY <1>1, <2>1 DEF Blocker
<1> QED
  BY <1>1, <1>3, <1>4, <1>5, <1>6, <1>7

\* The window depends on the key, the order and the rows only.
LEMMA WindowKept ==
  ASSUME ui'.key = ui.key, rundown' = rundown, row' = row
  PROVE  Desired' = Desired /\ Blocker' = Blocker
<1>1. Candidates' = Candidates
  BY DEF Candidates, NextRows, Behind, Place
<1>2. Desired' = Desired
  BY <1>1 DEF Desired
<1> QED
  BY <1>1, <1>2 DEF Blocker

\* The reports of a kind, as events come and go.
LEMMA NoReports ==
  ASSUME events = <<>>
  PROVE  Onairs = {} /\ Endings = {}
BY DEF Onairs, Endings, ReportsOf

LEMMA Reported1 ==
  ASSUME QueueType, Reports, NEW t \in AnyTag, NEW kind \in {"onair", "ended"},
         events' = Append(events, [kind |-> kind, tag |-> t])
  PROVE  /\ Onairs' = Onairs \cup (IF kind = "onair" THEN {t} ELSE {})
         /\ Endings' = Endings \cup (IF kind = "ended" THEN {t} ELSE {})
         /\ events' \in Seq(Report) /\ Len(events') = Len(events) + 1
<1>1. events \in Seq(Report) /\ [kind |-> kind, tag |-> t] \in Report
  BY DEF QueueType, LayerType, RowsType, UiType, SyncType, TakeType, Report
<1>2. /\ events' \in Seq(Report) /\ Len(events') = Len(events) + 1 /\ Len(events) \in Nat
      /\ DOMAIN events' = 1..(Len(events) + 1) /\ DOMAIN events = 1..Len(events)
      /\ \A i \in DOMAIN events : events'[i] = events[i]
      /\ events'[Len(events) + 1] = [kind |-> kind, tag |-> t]
  BY <1>1
<1>3. ASSUME NEW k \in {"onair", "ended"}
      PROVE  ReportsOf(k)' = ReportsOf(k) \cup (IF kind = k THEN {t} ELSE {})
  <2>1. {j \in DOMAIN events' : events'[j].kind = k}
          = {j \in DOMAIN events : events[j].kind = k} \cup (IF kind = k THEN {Len(events) + 1} ELSE {})
    BY <1>2
  <2> QED
    BY <1>2, <2>1 DEF ReportsOf
<1> QED
  BY <1>2, <1>3 DEF Onairs, Endings

\* A report of an item on air is the last one.
LEMMA OnairHandled ==
  ASSUME QueueType, Reports, events # <<>>, Head(events).kind = "onair", events' = Tail(events)
  PROVE  /\ events' = <<>> /\ Onairs = {Head(events).tag} /\ Endings = {}
         /\ Onairs' = {} /\ Endings' = {}
<1>0. events \in Seq(Report)
  BY DEF QueueType, LayerType, RowsType, UiType, SyncType, TakeType
<1>1. /\ events \in Seq(Report) /\ Len(events) \in Nat /\ DOMAIN events = 1..Len(events)
      /\ Head(events) = events[1] /\ Len(events) # 0
  BY <1>0
<1>2. Len(events) = 1
  BY <1>1 DEF Reports
<1>3. events' = <<>>
  BY <1>1, <1>2
<1>4. ReportsOf("onair") = {Head(events).tag} /\ ReportsOf("ended") = {}
  BY <1>1, <1>2 DEF ReportsOf
<1>5. ReportsOf("onair")' = {} /\ ReportsOf("ended")' = {}
  BY <1>3 DEF ReportsOf
<1> QED
  BY <1>3, <1>4, <1>5 DEF Onairs, Endings

LEMMA EndedHandled ==
  ASSUME QueueType, Reports, events # <<>>, Head(events).kind = "ended", events' = Tail(events)
  PROVE  /\ Endings = {Head(events).tag} /\ Endings' = {} /\ Onairs' = Onairs
         /\ Len(events') \in {0, 1} /\ events' \in Seq(Report) /\ Head(events).tag \in AnyTag
<1>0. events \in Seq(Report) /\ Len(events) <= 2
  BY DEF QueueType, LayerType, RowsType, UiType, SyncType, TakeType, Reports
<1>1. /\ events \in Seq(Report) /\ Len(events) \in {1, 2} /\ DOMAIN events = 1..Len(events)
      /\ Head(events) = events[1] /\ events[1].tag \in AnyTag
  <2>1. Len(events) \in Nat /\ Len(events) # 0 /\ DOMAIN events = 1..Len(events) /\ Head(events) = events[1]
    BY <1>0
  <2>2. events[1] \in Report
    BY <1>0, <2>1
  <2> QED
    BY <1>0, <2>1, <2>2 DEF Report
<1>4. events' \in Seq(Report)
  BY <1>0
<1>2. CASE Len(events) = 1
  <2>1. events' = <<>>
    BY <1>1, <1>2
  <2>2. ReportsOf("onair") = {} /\ ReportsOf("ended") = {Head(events).tag}
    BY <1>1, <1>2 DEF ReportsOf
  <2>3. ReportsOf("onair")' = {} /\ ReportsOf("ended")' = {}
    BY <2>1 DEF ReportsOf
  <2>4. Len(events') = 0
    <3>1. Len(<<>>) = 0
      OBVIOUS
    <3> QED
      BY <2>1, <3>1
  <2> QED
    BY <1>1, <1>4, <2>2, <2>3, <2>4 DEF Onairs, Endings
<1>3. CASE Len(events) = 2
  <2>1. /\ events' \in Seq(Report) /\ Len(events') = 1 /\ DOMAIN events' = {1} /\ events'[1] = events[2]
        /\ events[2].kind = "onair"
    BY <1>1, <1>3, SMTT(60) DEF Reports
  <2>2. ReportsOf("onair") = {events[2].tag} /\ ReportsOf("ended") = {Head(events).tag}
    BY <1>1, <1>3, <2>1 DEF ReportsOf
  <2>3. ReportsOf("onair")' = {events[2].tag} /\ ReportsOf("ended")' = {}
    BY <2>1 DEF ReportsOf
  <2>4. Onairs' = Onairs /\ Endings' = {} /\ Endings = {Head(events).tag}
    BY <2>2, <2>3 DEF Onairs, Endings
  <2> QED
    BY <1>1, <2>1, <2>4
<1> QED
  BY <1>1, <1>2, <1>3

\* Nothing is reported when no report is of either kind.
LEMMA AllHandled ==
  ASSUME QueueType, Onairs = {}, Endings = {}
  PROVE  events = <<>>
<1>1. events \in Seq(Report)
  BY DEF QueueType, LayerType, RowsType, UiType, SyncType, TakeType
<1>2. ASSUME NEW i \in 1..Len(events) PROVE FALSE
  <2>0. events[i] \in Report /\ i \in DOMAIN events
    BY <1>1
  <2>1. events[i].kind \in {"onair", "ended"} /\ i \in DOMAIN events
    BY <2>0 DEF Report
  <2>2. events[i].tag \in Onairs \cup Endings
    BY <2>1 DEF Onairs, Endings, ReportsOf
  <2> QED
    BY <2>2
<1> QED
  BY <1>1, <1>2

(* The plan of a sync *)

\* What is read of the layer: its tags, and its parts' types.
LEMMA LayerIs ==
  ASSUME QueueType
  PROVE  /\ layer.fg \in AnyItem /\ layer.fg.tag \in AnyTag /\ layer.fg.tag.n \in Nat
         /\ layer.waiting \in Seq(AnyItem) /\ Len(layer.waiting) \in Nat
         /\ DOMAIN layer.waiting = 1..Len(layer.waiting)
         /\ \A i \in DOMAIN layer.waiting : /\ layer.waiting[i] \in AnyItem /\ layer.waiting[i].tag \in AnyTag
                                            /\ layer.waiting[i].tag.n \in Nat
<1>1. layer.fg \in AnyItem /\ layer.waiting \in Seq(AnyItem)
  BY DEF QueueType, LayerType, RowsType, UiType, SyncType, TakeType
<1>2. Len(layer.waiting) \in Nat /\ DOMAIN layer.waiting = 1..Len(layer.waiting)
  BY <1>1
<1>3. \A i \in DOMAIN layer.waiting : layer.waiting[i] \in AnyItem
  BY <1>1
<1> QED
  BY <1>1, <1>2, <1>3 DEF AnyItem, AnyTag

LEMMA LongestIs ==
  ASSUME NEW onAir, NEW want, Len(want) \in Nat, NEW waiting, Len(waiting) \in Nat, NEW known
  PROVE  Longest(onAir, want, waiting, known) \in 0..Len(want)
         /\ Keeps(onAir, want, waiting, known, Longest(onAir, want, waiting, known))
<1> DEFINE P(k) == /\ Keeps(onAir, want, waiting, known, k)
                   /\ \A l \in (k + 1)..Len(want) : ~Keeps(onAir, want, waiting, known, l)
           S == {k \in 0..Len(want) : Keeps(onAir, want, waiting, known, k)}
<1>1. 0 \in S
  BY DEF Keeps
<1>2. IsFiniteSet(S) /\ S \subseteq Int
  <2>1. IsFiniteSet(0..Len(want))
    BY FS_Interval
  <2> QED
    BY <2>1, FS_Subset
<1> DEFINE T == {Len(want) - k : k \in S}
<1>3. T \subseteq Nat /\ Len(want) \in T
  BY <1>1
<1>4. PICK m \in T : \A y \in T : ~(<<y, m>> \in OpToRel(<, Nat))
  BY <1>3, NatLessThanWellFounded, WFMin
<1> HIDE DEF T
<1>5. ASSUME NEW y \in T PROVE m <= y
  <2>1. y \in Nat /\ m \in Nat
    BY <1>3, <1>4
  <2>2. ~(<<y, m>> \in OpToRel(<, Nat))
    BY <1>4
  <2>3. ~(y < m)
    BY <2>1, <2>2 DEF OpToRel
  <2> QED
    BY <2>1, <2>3
<1>6. PICK k \in S : m = Len(want) - k
  BY <1>4 DEF T
<1>7. P(k)
  <2> SUFFICES ASSUME NEW l \in (k + 1)..Len(want), Keeps(onAir, want, waiting, known, l) PROVE FALSE
    BY <1>6
  <2>1. l \in S
    BY <1>6
  <2>2. m <= Len(want) - l
    BY <1>5, <2>1 DEF T
  <2> QED
    BY <1>6, <2>2
<1>8. \E i \in 0..Len(want) : P(i)
  BY <1>6, <1>7
<1>9. Longest(onAir, want, waiting, known) = CHOOSE i \in 0..Len(want) : P(i)
  BY DEF Longest
<1> HIDE DEF P
<1>10. Longest(onAir, want, waiting, known) \in 0..Len(want) /\ P(Longest(onAir, want, waiting, known))
  BY <1>8, <1>9, Zenon
<1> QED
  BY <1>10 DEF P

\* A row that has no tag yet gets its plain one.
LEMMA FreeTagIs ==
  ASSUME NEW r, NEW taken, IsFiniteSet(taken), \A t \in taken : t.base # r
  PROVE  FreeTag(r, taken) = Tag(r, 1)
<1>1. Cardinality(taken) \in Nat
  BY FS_CardinalityType
<1>2. ASSUME NEW m PROVE Tag(r, m) \notin taken
  BY DEF Tag
<1> DEFINE n == CHOOSE i \in 1..(Cardinality(taken) + 1) :
                  Tag(r, i) \notin taken /\ \A m \in 1..(i - 1) : Tag(r, m) \in taken
<1>3. n \in 1..(Cardinality(taken) + 1) /\ \A m \in 1..(n - 1) : Tag(r, m) \in taken
  <2>1. 1 \in 1..(Cardinality(taken) + 1) /\ Tag(r, 1) \notin taken /\ \A m \in 1..(1 - 1) : Tag(r, m) \in taken
    BY <1>1, <1>2
  <2> QED
    BY <2>1, Zenon
<1>4. FreeTag(r, taken) = Tag(r, n)
  BY DEF FreeTag
<1> HIDE DEF n
<1>5. n = 1
  BY <1>1, <1>2, <1>3
<1> QED
  BY <1>4, <1>5

LEMMA FirstFinite == ASSUME NEW k \in Nat PROVE IsFiniteSet(1..k)
<1>1. k \in Int /\ 1 \in Int
  OBVIOUS
<1> QED
  BY <1>1, FS_Interval

\* What is kept waits as it is wanted; the rest is named by its plain tags.
LEMMA PlanIs ==
  ASSUME NEW onAir \in AnyTag, NEW want \in Seq(Wish), NEW waiting \in Seq(AnyTag), NEW known,
         \A i, j \in DOMAIN want : want[i].base = want[j].base => i = j,
         \A i \in DOMAIN want : want[i].base # onAir.base,
         NEW plan, plan = Plan(onAir, want, waiting, known)
  PROVE  /\ plan.keep \in 0..Len(want) /\ plan.keep <= Len(waiting) /\ plan.clear = (Len(waiting) > plan.keep)
         /\ plan.tags \in Seq(AnyTag) /\ Len(plan.tags) = Len(want)
         /\ \A i \in 1..Len(want) : /\ plan.tags[i].base = want[i].base
                                    /\ i > plan.keep => plan.tags[i].n = 1
                                    /\ i <= plan.keep => /\ plan.tags[i] = waiting[i]
                                                         /\ [tag |-> waiting[i], ver |-> want[i].ver] \in known
<1> DEFINE keep == Longest(onAir, want, waiting, known)
           kept == SubSeq(waiting, 1, keep)
           taken == Range(kept) \cup {onAir}
           tags == [i \in DOMAIN want |-> IF i <= keep THEN waiting[i] ELSE FreeTag(want[i].base, taken)]
<1>1. Len(want) \in Nat /\ Len(waiting) \in Nat /\ DOMAIN want = 1..Len(want) /\ DOMAIN waiting = 1..Len(waiting)
  OBVIOUS
<1>2. keep \in 0..Len(want) /\ Keeps(onAir, want, waiting, known, keep)
  BY <1>1, LongestIs
<1>3. plan = [keep |-> keep, clear |-> Len(waiting) > keep, tags |-> tags]
  BY DEF Plan
<1> HIDE DEF keep
<1>4. /\ keep <= Len(waiting)
      /\ \A i \in 1..keep : waiting[i].base = want[i].base /\ [tag |-> waiting[i], ver |-> want[i].ver] \in known
  BY <1>2 DEF Keeps
<1>5. kept \in Seq(AnyTag) /\ Len(kept) = keep /\ \A i \in 1..keep : kept[i] = waiting[i]
  BY <1>1, <1>2, <1>4
<1>6. taken = {waiting[i] : i \in 1..keep} \cup {onAir}
  <2>1. DOMAIN kept = 1..keep
    BY <1>5
  <2> HIDE DEF kept
  <2> QED
    BY <1>5, <2>1 DEF Range
<1>7. IsFiniteSet(taken)
  <2>1. IsFiniteSet({waiting[i] : i \in 1..keep})
    <3>1. IsFiniteSet(1..keep)
      BY <1>1, <1>2, FirstFinite
    <3> DEFINE f == [i \in 1..keep |-> waiting[i]]
    <3>2. f \in Surjection(1..keep, {waiting[i] : i \in 1..keep})
      BY DEF Surjection
    <3> QED
      BY <3>1, <3>2, FS_Surjection
  <2> QED
    BY <1>6, <2>1, FS_AddElement
<1> HIDE DEF taken, kept
<1>8. ASSUME NEW i \in 1..Len(want), i > keep
      PROVE  FreeTag(want[i].base, taken) = Tag(want[i].base, 1)
  <2>1. ASSUME NEW t \in taken PROVE t.base # want[i].base
    <3>1. CASE t = onAir
      BY <1>1, <1>8, <3>1
    <3>2. ASSUME NEW j \in 1..keep, t = waiting[j] PROVE t.base # want[i].base
      <4>1. j \in DOMAIN want /\ i \in DOMAIN want /\ j # i
        BY <1>1, <1>2, <1>8
      <4>2. want[j].base # want[i].base
        BY <4>1
      <4> QED
        BY <1>4, <3>2, <4>2
    <3> QED
      BY <1>6, <3>1, <3>2
  <2> QED
    BY <1>7, <2>1, FreeTagIs
<1>9. \A i \in 1..Len(want) : want[i].base \in RowSet
  <2>1. \A i \in 1..Len(want) : want[i] \in Wish
    BY <1>1
  <2> QED
    BY <2>1 DEF Wish
<1>10. ASSUME NEW i \in 1..Len(want)
       PROVE  /\ tags[i] \in AnyTag /\ tags[i].base = want[i].base
              /\ i > keep => tags[i].n = 1
              /\ i <= keep => tags[i] = waiting[i] /\ [tag |-> waiting[i], ver |-> want[i].ver] \in known
  <2>1. tags[i] = IF i <= keep THEN waiting[i] ELSE FreeTag(want[i].base, taken)
    BY <1>1
  <2> HIDE DEF tags
  <2>2. CASE i <= keep
    <3>1. i \in 1..keep /\ i \in DOMAIN waiting
      BY <1>1, <1>2, <1>4, <2>2
    <3>2. waiting[i] \in AnyTag
      BY <3>1
    <3> QED
      BY <1>2, <1>4, <2>1, <2>2, <3>1, <3>2
  <2>3. CASE i > keep
    <3>1. tags[i] = Tag(want[i].base, 1)
      BY <1>2, <1>8, <2>1, <2>3
    <3>2. tags[i] = [base |-> want[i].base, n |-> 1]
      BY <3>1 DEF Tag
    <3> QED
      BY <1>2, <1>9, <2>3, <3>2 DEF AnyTag
  <2> QED
    BY <1>2, <2>2, <2>3
<1>11. tags \in Seq(AnyTag) /\ Len(tags) = Len(want)
  <2>1. DOMAIN tags = 1..Len(want)
    BY <1>1
  <2>2. tags \in [1..Len(want) -> AnyTag]
    BY <1>1, <1>10
  <2> QED
    BY <1>1, <2>2
<1> HIDE DEF tags
<1> QED
  BY <1>2, <1>3, <1>4, <1>10, <1>11

\* A row that turns ready changes nothing of a window that stops at no row.
LEMMA ArrivalKeeps ==
  ASSUME QueueType, Blocker = NoKey, NEW r \in RowSet, row[r].status = "blocked",
         row' = [row EXCEPT ![r].status = "ready"], ui'.key = ui.key, rundown' = rundown
  PROVE  Desired' = Desired /\ Blocker' = NoKey
<1>1. row \in [RowSet -> [ver : Nat, status : {"ready", "blocked", "error"}]] /\ Range(rundown) = RowSet
  BY DEF QueueType, LayerType, RowsType, UiType, SyncType, TakeType
<1>2. \A x \in RowSet : /\ row'[x].ver = row[x].ver
                        /\ row'[x].status = IF x = r THEN "ready" ELSE row[x].status
  BY <1>1
<1>3. Candidates' = Candidates
  <2>1. \A x \in Range(rundown) : row'[x].status # "error" <=> row[x].status # "error"
    BY <1>1, <1>2
  <2>2. Behind(ui.key)' = Behind(ui.key)
    BY <2>1 DEF Behind, Place
  <2> QED
    BY <2>2 DEF Candidates, NextRows, Place
<1>4. /\ Candidates \in Seq(RowSet) /\ Len(Candidates) \in Nat /\ DOMAIN Candidates = 1..Len(Candidates)
  <2>1. Candidates \in Seq(Behind(ui.key)) /\ Behind(ui.key) \in SUBSET RowSet
    BY NextRowsAre, BehindIs DEF Candidates
  <2> QED
    BY <2>1
<1>e. \A i \in DOMAIN Candidates : Candidates[i] \in RowSet
  BY <1>4
<1> DEFINE stop == {i \in DOMAIN Candidates : row[Candidates[i]].status = "blocked"}
           stops == {i \in DOMAIN Candidates : row'[Candidates[i]].status = "blocked"}
           least(S) == CHOOSE i \in S : \A j \in S : i <= j
           free == IF stop = {} THEN Len(Candidates) ELSE least(stop) - 1
           freed == IF stops = {} THEN Len(Candidates) ELSE least(stops) - 1
           n == IF free < Depth THEN free ELSE Depth
           m == IF freed < Depth THEN freed ELSE Depth
<1>5. Desired = [i \in 1..n |-> [base |-> Candidates[i], ver |-> row[Candidates[i]].ver]]
  BY DEF Desired
<1>6. Desired' = [i \in 1..m |-> [base |-> Candidates[i], ver |-> row'[Candidates[i]].ver]]
  BY <1>3 DEF Desired
<1>7. ASSUME NEW S \in SUBSET (1..Len(Candidates)), S # {}
      PROVE  least(S) \in S /\ \A j \in S : least(S) <= j
  <2>1. S \subseteq Nat
    BY <1>4
  <2>2. PICK y \in S : \A x \in S : ~(<<x, y>> \in OpToRel(<, Nat))
    BY <1>7, <2>1, NatLessThanWellFounded, WFMin
  <2>3. ASSUME NEW j \in S PROVE y <= j
    <3>1. ~(j < y)
      BY <2>1, <2>2 DEF OpToRel
    <3> QED
      BY <2>1, <3>1
  <2>4. \E i \in S : \A j \in S : i <= j
    BY <2>3
  <2> QED
    BY <2>4, Zenon
<1>8. stops \subseteq stop /\ stop \subseteq 1..Len(Candidates)
  BY <1>2, <1>4, <1>e
<1>d. Depth \in Nat \ {0}
  BY QueueAssumption
<1>9. free \in Nat /\ freed \in Nat /\ free <= freed /\ freed <= Len(Candidates)
  <2>1. stop # {} => least(stop) \in stop /\ \A j \in stop : least(stop) <= j
    BY <1>7, <1>8
  <2>2. stops # {} => least(stops) \in stops
    BY <1>7, <1>8
  <2>3. stop # {} => least(stop) \in 1..Len(Candidates)
    BY <1>8, <2>1
  <2>4. stops # {} => least(stops) \in 1..Len(Candidates) /\ stop # {} /\ least(stop) <= least(stops)
    BY <1>8, <2>1, <2>2, SMTT(60)
  <2> HIDE DEF least, stop, stops
  <2> QED
    BY <1>4, <2>3, <2>4
<1>11. Len(Desired) = n /\ n \in Nat
  <2>1. n \in Nat
    BY <1>9, <1>d
  <2> HIDE DEF n
  <2> QED
    BY <1>5, <2>1
<1>12. ~(n + 1 <= Depth /\ n + 1 <= Len(Candidates))
  <2> SUFFICES ASSUME n + 1 <= Depth /\ n + 1 <= Len(Candidates) PROVE FALSE
    OBVIOUS
  <2>1. Blocker = Candidates[n + 1]
    BY <1>11 DEF Blocker
  <2>2. n + 1 \in DOMAIN Candidates
    BY <1>4, <1>11, SMTT(60)
  <2> QED
    BY <1>e, <2>1, <2>2, Names
<1>13. m = n
  <2> HIDE DEF free, freed
  <2> QED
    BY <1>4, <1>9, <1>12, <1>d
<1>14. \A i \in 1..n : i \in DOMAIN Candidates
  <2>1. n <= Len(Candidates)
    <3> HIDE DEF free
    <3> QED
      BY <1>4, <1>9, <1>d
  <2> QED
    BY <1>4, <1>11, <2>1
<1> HIDE DEF n, m
<1>15. \A i \in 1..n : row'[Candidates[i]].ver = row[Candidates[i]].ver
  BY <1>2, <1>14, <1>e
<1>16. Desired' = Desired
  BY <1>5, <1>6, <1>13, <1>15
<1> QED
  BY <1>3, <1>11, <1>12, <1>16 DEF Blocker

\* A sequence that ends in some items ends in their rest behind the first.
LEMMA EndTail ==
  ASSUME NEW items, NEW rest, NEW t, Len(items) \in Nat \ {0}, Len(t) \in Nat, Len(rest) = Len(items) - 1,
         \A i \in 1..Len(rest) : rest[i] = items[i + 1], EndOf(items, t)
  PROVE  EndBehind(items[1].tag, rest, t)
<1> DEFINE l == Len(items)
           m == Len(t)
<1>1. Len(rest) = l - 1 /\ l <= m /\ l \in Nat \ {0} /\ m \in Nat /\ \A i \in 1..l : items[i].tag = t[m - l + i]
  BY DEF EndOf
<1>2. t[m - (l - 1)] = items[1].tag
  <2>1. m - l + 1 = m - (l - 1) /\ 1 \in 1..l
    BY <1>1
  <2> QED
    BY <1>1, <2>1
<1>3. ASSUME NEW i \in 1..(l - 1) PROVE rest[i].tag = t[m - (l - 1) + i]
  <2>1. m - l + (i + 1) = m - (l - 1) + i /\ i + 1 \in 1..l
    BY <1>1
  <2> QED
    BY <1>1, <2>1
<1>4. l - 1 <= m /\ l - 1 < m
  BY <1>1
<1> HIDE DEF l, m
<1>5. l = Len(items) /\ m = Len(t)
  BY DEF l, m
<1> QED
  BY <1>1, <1>2, <1>3, <1>4, <1>5 DEF EndOf, EndBehind

(* The engine's steps *)

LEMMA CutKeeps ==
  ASSUME Open = {}, QueueInv, Cut
  PROVE  QueueInv'
<1> DEFINE x == Head(layer.waiting).tag
<1>1. /\ events = <<>> /\ follow = NoTag /\ layer.waiting # <<>> /\ Head(layer.waiting).auto
      /\ take.row # x.base /\ ~TakeFails
      /\ layer' = OnLayer(Head(layer.waiting), Tail(layer.waiting))
      /\ events' = Append(events, [kind |-> "onair", tag |-> x])
      /\ UNCHANGED <<rundown, row, ui, token, sync, retry, take, follow, used>>
  BY DEF Cut, Outlasts
<1>t. QueueType /\ Reports
  BY DEF QueueInv
<1>2. /\ Head(layer.waiting) = layer.waiting[1] /\ 1 \in DOMAIN layer.waiting /\ Len(layer.waiting) >= 1
      /\ Tail(layer.waiting) \in Seq(AnyItem) /\ Len(Tail(layer.waiting)) = Len(layer.waiting) - 1
      /\ \A i \in 1..(Len(layer.waiting) - 1) : Tail(layer.waiting)[i] = layer.waiting[i + 1]
      /\ Len(layer.waiting) \in Nat
  BY <1>1, <1>t, LayerIs
<1>x. x = layer.waiting[1].tag
  BY <1>2
<1> HIDE DEF x
<1>3. x \in AnyTag /\ x.base \in RowSet /\ x.n <= 10 + token /\ x # NoTag /\ x.base # Filler
  <2>1. x.base \in RowSet /\ x.n <= 10 + token
    BY <1>2, <1>x DEF QueueInv, Items
  <2> QED
    BY <1>2, <1>x, <1>t, <2>1, LayerIs, Names DEF NoTag, Tag
<1>4. /\ layer'.fg = layer.waiting[1] /\ layer'.ended = FALSE /\ layer'.waiting = Tail(layer.waiting)
      /\ layer' \in [fg : AnyItem, ended : BOOLEAN, waiting : Seq(AnyItem), fill : BOOLEAN]
  <2>1. layer \in [fg : AnyItem, ended : BOOLEAN, waiting : Seq(AnyItem), fill : BOOLEAN]
    BY <1>t DEF QueueType, LayerType, RowsType, UiType, SyncType, TakeType
  <2>2. layer.waiting[1] \in AnyItem
    BY <1>2, <1>t, LayerIs
  <2> QED
    BY <1>1, <1>2, <2>1, <2>2 DEF OnLayer
<1>n. Onairs = {} /\ Endings = {}
  BY <1>1, NoReports
<1>5. Onairs' = {x} /\ Endings' = {} /\ events' \in Seq(Report) /\ Len(events') = 1
  <2>1. /\ Onairs' = Onairs \cup (IF "onair" = "onair" THEN {x} ELSE {})
        /\ Endings' = Endings \cup (IF "onair" = "ended" THEN {x} ELSE {})
        /\ events' \in Seq(Report) /\ Len(events') = Len(events) + 1
    BY <1>1, <1>3, <1>t, Reported1
  <2> QED
    BY <1>1, <1>n, <2>1
<1>6. QueueType'
  <2>1. rundown' = rundown /\ row' = row /\ ui' = ui /\ token' = token /\ sync' = sync /\ retry' = retry
        /\ take' = take /\ follow' = follow /\ used' = used
    BY <1>1
  <2>2. LayerType'
    BY <1>4 DEF LayerType
  <2>3. RowsType' /\ UiType'
    BY <1>t, <2>1 DEF QueueType, RowsType, UiType
  <2>4. SyncType' /\ TakeType'
    BY <1>t, <2>1 DEF QueueType, SyncType, TakeType
  <2> QED
    BY <1>5, <2>2, <2>3, <2>4 DEF QueueType
<1>7. Reports'
  <2>1. Len(events') <= 2 /\ Len(events') # 2 /\ follow' = NoTag
    BY <1>1, <1>5
  <2>2. \A t \in Onairs' : t.base # NoKey
    BY <1>3, <1>5, Names
  <2> QED
    BY <1>5, <2>1, <2>2 DEF Reports
<1>8. Taking' = Taking /\ Playing' = Playing /\ Finished' = Finished /\ Busy' = Busy /\ Stale' = Stale
  BY <1>1 DEF Taking, Playing, Finished, Busy, Stale
<1>9. Tokens'
  BY <1>1, <1>8 DEF QueueInv, Tokens
<1>w. DOMAIN layer'.waiting = 1..(Len(layer.waiting) - 1) /\ Len(layer'.waiting) = Len(layer.waiting) - 1
      /\ \A i \in DOMAIN layer'.waiting : /\ layer'.waiting[i] = layer.waiting[i + 1]
                                          /\ i + 1 \in DOMAIN layer.waiting /\ i + 1 # 1
  BY <1>2, <1>4
<1>v. /\ Len(layer.waiting) \in Nat \ {0} /\ Len(layer'.waiting) = Len(layer.waiting) - 1
      /\ \A i \in 1..Len(layer'.waiting) : layer'.waiting[i] = layer.waiting[i + 1]
  BY <1>2, <1>w, SMTT(60)
<1>a. \A i \in DOMAIN layer.waiting : layer.waiting[i].auto
  <2> SUFFICES ASSUME NEW i \in DOMAIN layer.waiting, ~layer.waiting[i].auto PROVE FALSE
    OBVIOUS
  <2>1. Len(layer.waiting) = 1
    BY DEF QueueInv, Items
  <2>2. i = 1
    BY <1>t, <2>1, LayerIs, SMTT(60)
  <2> QED
    BY <1>1, <1>2, <2>2
<1>10. Items'
  <2>1. /\ layer'.fg.tag.base # NoKey /\ layer'.fg.tag.n <= 10 + token /\ ~layer'.ended
    BY <1>3, <1>4, <1>x, Names
  <2>2. ASSUME NEW i \in DOMAIN layer'.waiting
        PROVE  /\ layer'.waiting[i].tag.base \in RowSet /\ layer'.waiting[i].tag.n <= 10 + token
               /\ layer'.waiting[i].auto
               /\ \A k \in ui.known : k.tag = layer'.waiting[i].tag => k.ver = layer'.waiting[i].ver
    BY <1>w, SMTT(60) DEF QueueInv, Items
  <2> QED
    BY <1>1, <2>1, <2>2 DEF Items
<1>11. Distinct'
  BY <1>2, <1>4, <1>w, SMTT(60) DEF QueueInv, Distinct
<1>12. Away'
  BY <1>1, <1>8, SMTT(60) DEF QueueInv, Away
<1>13. TakeHolds'
  BY <1>1, <1>2, <1>3, <1>x, <1>4, <1>5, <1>w, <1>8, Names, SMTT(60) DEF QueueInv, TakeHolds,
       Tag
<1>u. Playing => /\ Cuts = {} /\ layer.fg.tag = ui.fg /\ EndOf(layer.waiting, ui.waiting)
                 /\ ui.pending = NoTag /\ Cuts' = {x} /\ ui.fg # x
  <2> SUFFICES ASSUME Playing PROVE /\ Cuts = {} /\ layer.fg.tag = ui.fg /\ EndOf(layer.waiting, ui.waiting)
                 /\ ui.pending = NoTag /\ Cuts' = {x} /\ ui.fg # x
    OBVIOUS
  <2>1. Cuts = {}
    BY <1>n DEF Cuts
  <2>2. layer.fg.tag = ui.fg /\ EndOf(layer.waiting, ui.waiting) /\ ui.pending = NoTag
    BY <1>n, <2>1 DEF QueueInv, OnAirOrCut
  <2>3. Cuts' = {x}
    BY <1>1, <1>3, <1>5, <2>2 DEF Cuts
  <2> QED
    BY <1>2, <1>x, <2>1, <2>2, <2>3 DEF QueueInv, Distinct
<1>14. OnAirOrCut'
  <2> SUFFICES ASSUME Playing PROVE OnAirOrCut'
    BY <1>8 DEF OnAirOrCut
  <2>1. EndBehind(x, layer'.waiting, ui.waiting)
    <3>1. Len(ui.waiting) \in Nat
      BY <1>t DEF QueueType, LayerType, RowsType, UiType, SyncType, TakeType
    <3> QED
      BY <1>x, <1>u, <1>v, <3>1, EndTail
  <2>2. \A i \in DOMAIN layer'.waiting : layer'.waiting[i].tag # ui.fg
    BY <1>u, <1>w DEF QueueInv, Distinct
  <2> QED
    <3>1. ui.fg.base = ui.key /\ Cuts' = {x} /\ ui.pending = NoTag /\ ui.fg # x
      BY <1>u DEF QueueInv, OnAirOrCut
    <3>2. /\ layer'.fg.tag = x /\ x.base # Filler /\ ~layer'.ended
          /\ x # follow /\ x \notin Endings'
      BY <1>1, <1>x, <1>3, <1>4, <1>5
    <3> QED
      BY <1>1, <2>1, <2>2, <3>1, <3>2, ZenonT(60) DEF OnAirOrCut
<1>15. EndKnown'
  BY <1>4, <1>8, <1>u DEF EndKnown
<1>16. Wanted' /\ Planned'
  BY <1>1 DEF QueueInv, Wanted, Planned
<1>17. Steps'
  <2>1. ASSUME sync.pc # "idle", Unmoved' PROVE FALSE
    <3>1. ~Stale /\ x = sync.onAir
      BY <1>1, <1>x, <1>4, <1>8, <2>1 DEF Unmoved
    <3>2. Playing /\ sync.onAir = ui.fg
      BY <2>1, <3>1 DEF QueueInv, Tokens, Stale
    <3> QED
      BY <1>u, <3>1, <3>2
  <2>2. ASSUME sync.pc = "clear", Stale
        PROVE  layer'.fg.tag # sync.onAir /\ \A i \in DOMAIN layer'.waiting : layer'.waiting[i].tag # sync.onAir
    BY <1>2, <1>x, <1>4, <1>w, <2>2 DEF QueueInv, Steps
  <2>3. ASSUME Finished PROVE \A y \in Cuts' : EndBehind(y, layer'.waiting, sync.tags)
    <3>1. Playing
      BY <2>3 DEF QueueInv, Away
    <3>2. EndOf(layer.waiting, sync.tags)
      BY <1>u, <2>3, <3>1 DEF QueueInv, Steps
    <3>3. Len(sync.tags) \in Nat
      BY <1>t DEF QueueType, LayerType, RowsType, UiType, SyncType, TakeType
    <3> QED
      <4>1. EndBehind(x, layer'.waiting, sync.tags)
        BY <1>x, <1>v, <3>2, <3>3, EndTail
      <4> QED
        BY <1>u, <3>1, <4>1
  <2>4. Finished => Cuts' # {}
    BY <1>u DEF QueueInv, Away
  <2> QED
    BY <1>1, <1>8, <2>1, <2>2, <2>3, <2>4 DEF Steps
<1>18. Current'
  <2>1. Desired' = Desired /\ Blocker' = Blocker
    BY <1>1, WindowKept
  <2> QED
    BY <1>1, <1>8, <1>u, <2>1 DEF QueueInv, Current
<1> QED
  BY <1>6, <1>7, <1>9, <1>10, <1>11, <1>12, <1>13, <1>14, <1>15, <1>16, <1>17, <1>18 DEF QueueInv

LEMMA EndsKeeps ==
  ASSUME Open = {}, QueueInv, Ends
  PROVE  QueueInv'
<1>1. /\ events = <<>> /\ follow = NoTag /\ take.row # ui.fg.base
      /\ layer.fg # NoItem /\ ~layer.ended /\ layer.fg.tag.base # Filler
      /\ \A i \in DOMAIN layer.waiting : ~layer.waiting[i].auto
      /\ layer' = [layer EXCEPT !.ended = TRUE]
      /\ events' = Append(events, [kind |-> "ended", tag |-> layer.fg.tag])
      /\ UNCHANGED <<rundown, row, ui, token, sync, retry, take, follow, used>>
  BY DEF Ends, Outlasts, Retakes
<1>t. QueueType /\ Reports
  BY DEF QueueInv
<1>3. layer.fg.tag \in AnyTag /\ layer.fg.tag.base \in RowSet
  <2>1. layer.fg.tag \in AnyTag /\ layer.fg.tag.base # NoKey
    BY <1>1, <1>t, LayerIs DEF QueueInv, Items
  <2> QED
    BY <1>1, <2>1 DEF AnyTag
<1>4. layer'.fg = layer.fg /\ layer'.ended = TRUE /\ layer'.waiting = layer.waiting /\ LayerType'
  BY <1>1, <1>t DEF QueueType, LayerType
<1>n. Onairs = {} /\ Endings = {}
  BY <1>1, NoReports
<1>5. Onairs' = {} /\ Endings' = {layer.fg.tag} /\ events' \in Seq(Report) /\ Len(events') = 1
  <2>1. /\ Onairs' = Onairs \cup (IF "ended" = "onair" THEN {layer.fg.tag} ELSE {})
        /\ Endings' = Endings \cup (IF "ended" = "ended" THEN {layer.fg.tag} ELSE {})
        /\ events' \in Seq(Report) /\ Len(events') = Len(events) + 1
    BY <1>1, <1>3, <1>t, Reported1
  <2> QED
    BY <1>1, <1>n, <2>1
<1>k. rundown' = rundown /\ row' = row /\ ui' = ui /\ token' = token /\ sync' = sync /\ retry' = retry
      /\ take' = take /\ follow' = follow /\ used' = used
  BY <1>1
<1>6. QueueType'
  <2>3. RowsType' /\ UiType'
    BY <1>t, <1>k DEF QueueType, RowsType, UiType
  <2>4. SyncType' /\ TakeType'
    BY <1>t, <1>k DEF QueueType, SyncType, TakeType
  <2> QED
    BY <1>4, <1>5, <2>3, <2>4 DEF QueueType
<1>7. Reports'
  <2>1. Len(events') <= 2 /\ Len(events') # 2 /\ follow' = NoTag
    BY <1>1, <1>5
  <2> QED
    BY <1>3, <1>5, <2>1 DEF Reports
<1>8. /\ Taking' = Taking /\ Playing' = Playing /\ Finished' = Finished /\ Busy' = Busy /\ Stale' = Stale
      /\ Unmoved' = Unmoved /\ Cuts' = {} /\ Cuts = {}
  BY <1>k, <1>4, <1>5, <1>n DEF Taking, Playing, Finished, Busy, Stale, Unmoved, Cuts
<1>9. Tokens' /\ Away' /\ Wanted' /\ Planned' /\ Distinct'
  BY <1>4, <1>k, <1>8 DEF QueueInv, Tokens, Away, Wanted, Planned, Distinct
<1>10. Items'
  BY <1>1, <1>4, <1>k, <1>8 DEF QueueInv, Items
<1>13. TakeHolds'
  <2> SUFFICES ASSUME Taking PROVE TakeHolds'
    BY <1>8 DEF TakeHolds
  <2>1. layer.fg.tag.base # take.row
    BY <1>1 DEF QueueInv, TakeHolds
  <2>2. row[take.row].status = "ready"
    BY <1>1 DEF QueueInv, TakeHolds
  <2> QED
    BY <1>4, <1>5, <1>k, <2>1, <2>2 DEF QueueInv, TakeHolds
<1>14. OnAirOrCut'
  <2>1. Playing => ui.pending = NoTag
    BY <1>n DEF QueueInv, OnAirOrCut
  <2> QED
    BY <1>4, <1>k, <1>8, <2>1 DEF QueueInv, OnAirOrCut
<1>15. EndKnown'
  <2>1. Playing => layer.fg.tag = ui.fg
    BY <1>8 DEF QueueInv, OnAirOrCut
  <2> QED
    BY <1>1, <1>4, <1>5, <1>k, <1>8, <2>1 DEF EndKnown
<1>17. Steps'
  BY <1>4, <1>k, <1>8 DEF QueueInv, Steps, Match
<1>18. Current'
  <2>1. Desired' = Desired /\ Blocker' = Blocker
    BY <1>k, WindowKept
  <2> QED
    BY <1>4, <1>k, <1>8, <2>1 DEF QueueInv, Current
<1> QED
  BY <1>6, <1>7, <1>9, <1>10, <1>13, <1>14, <1>15, <1>17, <1>18 DEF QueueInv

\* The fallback starts only where nothing of the frontend's is on air.
LEMMA FillsKeeps ==
  ASSUME Open = {}, QueueInv, Fills
  PROVE  QueueInv'
<1> DEFINE x == Tag(Filler, 1)
<1>1. /\ layer.ended /\ events = <<>> /\ follow = NoTag /\ take.pc = "none"
      /\ layer' = [layer EXCEPT !.fg = Item(x, 0, FALSE), !.ended = FALSE]
      /\ events' = Append(events, [kind |-> "onair", tag |-> x])
      /\ UNCHANGED <<rundown, row, ui, token, sync, retry, take, follow, used>>
  BY DEF Fills
<1>k. rundown' = rundown /\ row' = row /\ ui' = ui /\ token' = token /\ sync' = sync /\ retry' = retry
      /\ take' = take /\ follow' = follow /\ used' = used
  BY <1>1
<1>t. QueueType /\ Reports
  BY DEF QueueInv
<1>n. Onairs = {} /\ Endings = {}
  BY <1>1, NoReports
<1>3. x \in AnyTag /\ x.base = Filler /\ x.n = 1 /\ x.base # NoKey /\ Item(x, 0, FALSE).tag = x
      /\ Item(x, 0, FALSE) \in AnyItem
  BY Names DEF Tag, Item, AnyTag, AnyItem
<1> HIDE DEF x
<1>4. layer'.fg.tag = x /\ ~layer'.ended /\ layer'.waiting = layer.waiting /\ LayerType'
  BY <1>1, <1>3, <1>t DEF QueueType, LayerType
<1>5. Onairs' = {x} /\ Endings' = {} /\ events' \in Seq(Report) /\ Len(events') = 1
  <2>1. /\ Onairs' = Onairs \cup (IF "onair" = "onair" THEN {x} ELSE {})
        /\ Endings' = Endings \cup (IF "onair" = "ended" THEN {x} ELSE {})
        /\ events' \in Seq(Report) /\ Len(events') = Len(events) + 1
    BY <1>1, <1>3, <1>t, Reported1
  <2> QED
    BY <1>1, <1>n, <2>1
<1>6. QueueType'
  <2>3. RowsType' /\ UiType'
    BY <1>t, <1>k DEF QueueType, RowsType, UiType
  <2>4. SyncType' /\ TakeType'
    BY <1>t, <1>k DEF QueueType, SyncType, TakeType
  <2> QED
    BY <1>4, <1>5, <2>3, <2>4 DEF QueueType
<1>7. Reports'
  <2>1. Len(events') <= 2 /\ Len(events') # 2 /\ follow' = NoTag
    BY <1>1, <1>5
  <2> QED
    BY <1>3, <1>5, <2>1 DEF Reports
<1>a. ~Taking /\ ~Playing /\ ui.key = NoKey
  <2>1. ~Taking
    BY <1>1 DEF Taking
  <2>2. ASSUME Playing PROVE FALSE
    <3>1. Cuts = {}
      BY <1>n DEF Cuts
    <3>2. ui.fg \in Endings \cup {follow}
      BY <1>1, <2>2, <3>1 DEF QueueInv, EndKnown
    <3>3. ui.fg = NoTag /\ ui.fg.base = ui.key /\ ui.key # NoKey
      BY <1>1, <1>n, <2>2, <3>2 DEF QueueInv, OnAirOrCut, Playing
    <3> QED
      BY <3>3 DEF NoTag, Tag
  <2> QED
    BY <2>1, <2>2 DEF Playing
<1>b. layer.waiting = <<>>
  BY <1>a DEF QueueInv, Away
<1>8. /\ ~Taking' /\ ~Playing' /\ Finished' = Finished /\ Busy' = Busy /\ Stale' = Stale
      /\ sync.pc # "clear" /\ ~Finished
  <2>1. sync.pc # "clear" /\ ~Finished
    BY <1>a DEF QueueInv, Away
  <2> QED
    BY <1>a, <1>k, <2>1 DEF Taking, Playing, Finished, Busy, Stale
<1>9. Tokens' /\ Away' /\ Wanted' /\ Planned'
  BY <1>4, <1>a, <1>k, <1>8 DEF QueueInv, Tokens, Away, Wanted, Planned
<1>10. Items' /\ Distinct'
  <2>1. token \in Nat
    BY <1>t DEF QueueType, TakeType
  <2>2. 1 <= 10 + token
    BY <2>1
  <2> QED
    BY <1>3, <1>4, <1>b, <1>k, <2>2 DEF QueueInv, Items, Distinct
<1>13. TakeHolds' /\ OnAirOrCut' /\ EndKnown' /\ Current'
  BY <1>8 DEF TakeHolds, OnAirOrCut, EndKnown, Current
<1>17. Steps'
  <2>1. ASSUME sync.pc # "idle" PROVE ~Unmoved'
    BY <1>8, <1>a, <2>1 DEF QueueInv, Tokens, Unmoved, Stale
  <2> QED
    BY <1>8, <1>k, <2>1 DEF Steps
<1> QED
  BY <1>6, <1>7, <1>9, <1>10, <1>13, <1>17 DEF QueueInv

(* The steps of a sync *)

LEMMA SyncBeginsKeeps ==
  ASSUME Open = {}, QueueInv, SyncBegins
  PROVE  QueueInv'
<1> DEFINE begun == [Idle EXCEPT !.pc = "info", !.onAir = ui.fg, !.token = token, !.desired = Desired,
                                 !.blocked = Blocker]
<1>1. /\ sync.pc = "idle" /\ ui.dirty /\ take.row # ui.fg.base
      /\ ui' = [ui EXCEPT !.dirty = FALSE] /\ sync' = IF CanSync THEN begun ELSE Idle
      /\ UNCHANGED <<layer, events, rundown, row, token, retry, take, follow, used>>
  BY DEF SyncBegins, Retakes
<1>k. layer' = layer /\ events' = events /\ rundown' = rundown /\ row' = row /\ token' = token /\ retry' = retry
      /\ take' = take /\ follow' = follow /\ used' = used
  BY <1>1
<1>t. QueueType /\ Reports
  BY DEF QueueInv
<1>u. /\ ui'.key = ui.key /\ ui'.fg = ui.fg /\ ui'.waiting = ui.waiting /\ ui'.pending = ui.pending
      /\ ui'.known = ui.known /\ ~ui'.dirty /\ UiType'
  BY <1>1, <1>t DEF QueueType, UiType
<1>n. NoTag \in AnyTag /\ Idle.pc = "idle" /\ Idle.tags = <<>> /\ Idle.at = 1
  BY DEF NoTag, Tag, AnyTag, Idle
<1>c. Idle \in [pc : {"idle", "info", "clear", "queue", "end"}, onAir : AnyTag, token : Nat,
               desired : Seq(Wish), attempts : Nat, tags : Seq(AnyTag), at : Nat \ {0},
               blocked : RowSet \cup {NoKey}]
  <2>1. <<>> \in Seq(AnyTag) /\ <<>> \in Seq(Wish)
    OBVIOUS
  <2> QED
    BY <1>n, <2>1 DEF Idle
<1>d. Idle.attempts = 0
  BY DEF Idle
<1>b. /\ begun.pc = "info" /\ begun.onAir = ui.fg /\ begun.token = token /\ begun.desired = Desired
      /\ begun.blocked = Blocker /\ begun.attempts = 0 /\ begun.tags = <<>> /\ begun.at = 1
  BY <1>c, <1>d, <1>n
<1>s. SyncType'
  <2>1. retry' \in [count : Nat, armed : BOOLEAN]
    BY <1>k, <1>t DEF QueueType, SyncType
  <2>2. CASE CanSync
    <3>1. ui.fg \in AnyTag /\ token \in Nat /\ Desired \in Seq(Wish) /\ Blocker \in RowSet \cup {NoKey}
      BY <1>t, DesiredIs DEF QueueType, UiType, TakeType
    <3>3. begun \in [pc : {"idle", "info", "clear", "queue", "end"}, onAir : AnyTag, token : Nat,
                     desired : Seq(Wish), attempts : Nat, tags : Seq(AnyTag), at : Nat \ {0},
                     blocked : RowSet \cup {NoKey}]
      BY <1>c, <3>1
    <3> QED
      BY <1>1, <2>1, <2>2, <3>3 DEF SyncType
  <2>3. CASE ~CanSync
    BY <1>1, <1>c, <2>1, <2>3 DEF SyncType
  <2> QED
    BY <2>2, <2>3
<1> HIDE DEF begun
<1>6. QueueType'
  <2>1. LayerType' /\ RowsType'
    BY <1>t, <1>k DEF QueueType, LayerType, RowsType
  <2>2. TakeType' /\ events' \in Seq(Report)
    BY <1>t, <1>k DEF QueueType, TakeType
  <2> QED
    BY <1>u, <1>s, <2>1, <2>2 DEF QueueType
<1>8. /\ Taking' = Taking /\ Playing' = Playing /\ Onairs' = Onairs /\ Endings' = Endings /\ Cuts' = Cuts
  BY <1>k, <1>u DEF Taking, Playing, Cuts, Onairs, Endings, ReportsOf
<1>9. sync'.pc # "clear" /\ sync'.pc # "queue" /\ sync'.pc # "end" /\ ~Finished' /\ (Busy' <=> CanSync)
      /\ (sync'.pc = "idle" <=> ~CanSync)
  <2>1. CanSync => sync'.pc = "info"
    BY <1>1, <1>b
  <2>2. ~CanSync => sync'.pc = "idle"
    BY <1>1, <1>n
  <2> QED
    BY <2>1, <2>2 DEF Finished, Busy
<1>p. CanSync => Playing
  <2> SUFFICES ASSUME CanSync, Taking PROVE FALSE
    BY DEF CanSync, Playing
  <2> QED
    BY <1>1 DEF CanSync, QueueInv, TakeHolds
<1>q. Playing => CanSync
  <2> SUFFICES ASSUME Playing PROVE CanSync
    OBVIOUS
  <2>1. ui.key # NoKey /\ ui.fg.base = ui.key
    BY DEF QueueInv, OnAirOrCut, Playing
  <2>2. ui.key \in Range(rundown)
    BY <1>t, <2>1, SMTT(60) DEF QueueType, UiType, RowsType
  <2> QED
    BY <2>1, <2>2 DEF CanSync
<1>10. Reports' /\ Items' /\ Distinct' /\ TakeHolds' /\ OnAirOrCut' /\ EndKnown'
  BY <1>k, <1>u, <1>8 DEF QueueInv, Reports, Items, Distinct, TakeHolds, OnAirOrCut, EndKnown
<1>11. Tokens'
  <2>1. sync'.token <= token
    <3>1. token \in Nat
      BY <1>t DEF QueueType, TakeType
    <3> QED
      BY <1>1, <1>b, <3>1 DEF Idle
  <2> QED
    BY <1>8, <1>9, <1>k, <1>p, <2>1 DEF QueueInv, Tokens
<1>12. Away'
  BY <1>8, <1>9, <1>k, <1>u DEF QueueInv, Away
<1>16. Wanted' /\ Planned'
  <2>1. ASSUME CanSync
        PROVE  /\ \A i, j \in DOMAIN Desired : Desired[i].base = Desired[j].base => i = j
               /\ \A i \in DOMAIN Desired : Desired[i].base # ui.fg.base
    BY <1>t, <2>1, DesiredIs DEF CanSync
  <2> QED
    BY <1>1, <1>9, <1>b, <2>1 DEF Wanted, Planned
<1>17. Steps'
  BY <1>1, <1>9, <1>b DEF Steps
<1>18. Current'
  <2>1. Desired' = Desired /\ Blocker' = Blocker
    BY <1>k, <1>u, WindowKept
  <2>2. CanSync => ~Stale'
    BY <1>1, <1>k, <1>u, <1>b DEF Stale
  <2>3. CanSync => sync'.desired = Desired /\ sync'.blocked = Blocker
    BY <1>1, <1>b
  <2> QED
    BY <1>8, <1>9, <1>q, <2>1, <2>2, <2>3 DEF Current
<1> QED
  BY <1>6, <1>10, <1>11, <1>12, <1>16, <1>17, <1>18 DEF QueueInv

LEMMA SyncReadsKeeps ==
  ASSUME Open = {}, QueueInv, SyncReads
  PROVE  QueueInv'
<1> DEFINE plan == Plan(sync.onAir, sync.desired, Tags(layer.waiting), ui.known)
           over == sync.attempts = MaxAttempts \/ Stale \/ layer.fg.tag # sync.onAir
           next == [sync EXCEPT !.pc = IF plan.clear THEN "clear" ELSE "queue", !.attempts = @ + 1,
                                !.tags = plan.tags, !.at = plan.keep + 1]
<1>1. /\ sync.pc = "info"
      /\ sync' = IF over THEN [sync EXCEPT !.pc = "end"] ELSE next
      /\ UNCHANGED <<layer, events, rundown, row, ui, token, retry, take, follow, used>>
  BY DEF SyncReads
<1>k. layer' = layer /\ events' = events /\ rundown' = rundown /\ row' = row /\ ui' = ui /\ token' = token
      /\ retry' = retry /\ take' = take /\ follow' = follow /\ used' = used
  BY <1>1
<1>t. QueueType /\ Reports
  BY DEF QueueInv
<1>y. /\ sync.onAir \in AnyTag /\ sync.desired \in Seq(Wish) /\ sync.attempts \in Nat /\ token \in Nat
      /\ sync \in [pc : {"idle", "info", "clear", "queue", "end"}, onAir : AnyTag, token : Nat,
                   desired : Seq(Wish), attempts : Nat, tags : Seq(AnyTag), at : Nat \ {0},
                   blocked : RowSet \cup {NoKey}]
  BY <1>t DEF QueueType, SyncType, TakeType
<1>w. /\ Tags(layer.waiting) \in Seq(AnyTag) /\ Len(Tags(layer.waiting)) = Len(layer.waiting)
      /\ \A i \in 1..Len(layer.waiting) : Tags(layer.waiting)[i] = layer.waiting[i].tag
  <2>1. Len(layer.waiting) \in Nat /\ DOMAIN layer.waiting = 1..Len(layer.waiting)
        /\ \A i \in DOMAIN layer.waiting : layer.waiting[i].tag \in AnyTag
    BY <1>t, LayerIs
  <2>2. Tags(layer.waiting) \in [1..Len(layer.waiting) -> AnyTag]
    BY <2>1 DEF Tags
  <2>3. \A i \in 1..Len(layer.waiting) : Tags(layer.waiting)[i] = layer.waiting[i].tag
    BY <2>1 DEF Tags
  <2> QED
    BY <2>1, <2>2, <2>3
<1>d. /\ \A i, j \in DOMAIN sync.desired : sync.desired[i].base = sync.desired[j].base => i = j
      /\ \A i \in DOMAIN sync.desired : sync.desired[i].base # sync.onAir.base
  BY <1>1 DEF QueueInv, Wanted
<1>p. /\ plan.keep \in 0..Len(sync.desired) /\ plan.keep <= Len(layer.waiting)
      /\ plan.clear = (Len(layer.waiting) > plan.keep)
      /\ plan.tags \in Seq(AnyTag) /\ Len(plan.tags) = Len(sync.desired)
      /\ \A i \in 1..Len(sync.desired) :
           /\ plan.tags[i].base = sync.desired[i].base
           /\ i > plan.keep => plan.tags[i].n = 1
           /\ i <= plan.keep => /\ plan.tags[i] = Tags(layer.waiting)[i]
                                /\ [tag |-> Tags(layer.waiting)[i], ver |-> sync.desired[i].ver] \in ui.known
  <2> DEFINE waits == Tags(layer.waiting)
  <2>1. plan = Plan(sync.onAir, sync.desired, waits, ui.known)
    OBVIOUS
  <2>2. waits \in Seq(AnyTag) /\ Len(waits) = Len(layer.waiting)
    BY <1>w
  <2> HIDE DEF plan, waits
  <2>3. /\ plan.keep \in 0..Len(sync.desired) /\ plan.keep <= Len(waits)
        /\ plan.clear = (Len(waits) > plan.keep)
        /\ plan.tags \in Seq(AnyTag) /\ Len(plan.tags) = Len(sync.desired)
        /\ \A i \in 1..Len(sync.desired) :
             /\ plan.tags[i].base = sync.desired[i].base
             /\ i > plan.keep => plan.tags[i].n = 1
             /\ i <= plan.keep => /\ plan.tags[i] = waits[i]
                                  /\ [tag |-> waits[i], ver |-> sync.desired[i].ver] \in ui.known
    BY <1>y, <1>d, <2>1, <2>2, PlanIs, SMTT(60)
  <2> QED
    BY <2>2, <2>3 DEF waits
<1> HIDE DEF plan
<1>o. sync'.onAir = sync.onAir /\ sync'.token = sync.token /\ sync'.desired = sync.desired
      /\ sync'.blocked = sync.blocked
  BY <1>1, <1>y
<1>e. over => sync'.pc = "end" /\ sync'.tags = sync.tags /\ sync'.at = sync.at /\ sync'.attempts = sync.attempts
  BY <1>1, <1>y
<1>f. ~over => /\ sync'.pc = (IF plan.clear THEN "clear" ELSE "queue") /\ sync'.tags = plan.tags
               /\ sync'.at = plan.keep + 1 /\ sync'.attempts = sync.attempts + 1
  BY <1>1, <1>y
<1>r. ~over => sync' = next
  BY <1>1
<1>q. over <=> sync.attempts = MaxAttempts \/ Stale \/ layer.fg.tag # sync.onAir
  OBVIOUS
<1> HIDE DEF over
<1>s. SyncType'
  <2>0. retry' \in [count : Nat, armed : BOOLEAN]
    BY <1>k, <1>t DEF QueueType, SyncType
  <2>1. CASE over
    BY <1>1, <1>y, <2>0, <2>1 DEF SyncType
  <2>2. CASE ~over
    <3>1. plan.keep + 1 \in Nat \ {0} /\ sync.attempts + 1 \in Nat
      BY <1>p, <1>y, SMTT(60)
    <3>2. sync' = next
      BY <1>r, <2>2
    <3> QED
      BY <1>p, <1>y, <2>0, <3>1, <3>2 DEF SyncType
  <2> QED
    BY <2>1, <2>2
<1>6. QueueType'
  <2>1. LayerType' /\ RowsType' /\ UiType'
    BY <1>t, <1>k DEF QueueType, LayerType, RowsType, UiType
  <2>2. TakeType' /\ events' \in Seq(Report)
    BY <1>t, <1>k DEF QueueType, TakeType
  <2> QED
    BY <1>s, <2>1, <2>2 DEF QueueType
<1>8. /\ Taking' = Taking /\ Playing' = Playing /\ Onairs' = Onairs /\ Endings' = Endings /\ Cuts' = Cuts
      /\ Stale' = Stale /\ Unmoved' = Unmoved
  BY <1>k, <1>o, SMTT(60) DEF Taking, Playing, Cuts, Onairs, Endings, ReportsOf, Stale,
       Unmoved
<1>10. Reports' /\ Items' /\ Distinct' /\ TakeHolds' /\ OnAirOrCut' /\ EndKnown'
  BY <1>k, <1>8 DEF QueueInv, Reports, Items, Distinct, TakeHolds, OnAirOrCut, EndKnown
<1>11. Tokens'
  BY <1>1, <1>8, <1>k, <1>o DEF QueueInv, Tokens
<1>16. Wanted'
  BY <1>d, <1>o DEF Wanted
<1>g. ~over => /\ ~Stale /\ Unmoved /\ Playing /\ Cuts = {} /\ sync.onAir = ui.fg
  <2> SUFFICES ASSUME ~over PROVE /\ ~Stale /\ Unmoved /\ Playing /\ Cuts = {} /\ sync.onAir = ui.fg
    OBVIOUS
  <2>1. ~Stale /\ Unmoved /\ sync.onAir = ui.fg /\ layer.fg.tag = ui.fg
    BY <1>q DEF Stale, Unmoved
  <2>2. Playing
    BY <1>1, <2>1 DEF QueueInv, Tokens, Stale
  <2> QED
    BY <2>1, <2>2 DEF QueueInv, OnAirOrCut
<1>12. Away'
  <2>1. over => sync'.pc # "clear" /\ ~Finished'
    BY <1>e DEF Finished
  <2> QED
    BY <1>8, <1>g, <1>k, <2>1 DEF QueueInv, Away
<1>13. Planned'
  <2> SUFFICES ASSUME ~over PROVE Planned'
    BY <1>e DEF Planned
  <2>1. DOMAIN plan.tags = 1..Len(sync.desired) /\ Len(sync.desired) \in Nat
    BY <1>p, <1>y
  <2>2. ASSUME NEW i \in 1..Len(sync.desired) PROVE plan.tags[i].n <= 10 + token
    <3>1. CASE i > plan.keep
      <4>1. plan.tags[i].n = 1
        BY <1>p, <3>1
      <4> QED
        BY <1>y, <4>1
    <3>2. CASE i <= plan.keep
      <4>1. i \in 1..Len(layer.waiting)
        BY <1>p, <1>t, <3>2, LayerIs
      <4>2. plan.tags[i] = layer.waiting[i].tag
        BY <1>p, <1>w, <3>2, <4>1
      <4>3. i \in DOMAIN layer.waiting
        BY <1>t, <4>1, LayerIs
      <4> QED
        BY <4>2, <4>3 DEF QueueInv, Items
    <3> QED
      BY <1>p, <3>1, <3>2
  <2>3. plan.keep + 1 <= Len(plan.tags) + 1
    BY <1>p, <2>1
  <2> QED
    BY <1>f, <1>k, <1>o, <1>p, <2>1, <2>2, <2>3 DEF Planned
<1>m. ~over => \A i \in 1..plan.keep : /\ layer'.waiting[i].tag = sync'.tags[i]
                                       /\ layer'.waiting[i].ver = sync'.desired[i].ver /\ layer'.waiting[i].auto
  <2> SUFFICES ASSUME ~over, NEW i \in 1..plan.keep
               PROVE  /\ layer.waiting[i].tag = plan.tags[i]
                      /\ layer.waiting[i].ver = sync.desired[i].ver /\ layer.waiting[i].auto
    <3>1. ~over => layer'.waiting = layer.waiting /\ sync'.tags = plan.tags /\ sync'.desired = sync.desired
      BY <1>f, <1>k, <1>o
    <3> QED
      BY <3>1
  <2>1. i \in 1..Len(layer.waiting) /\ i \in 1..Len(sync.desired) /\ i \in DOMAIN layer.waiting /\ i <= plan.keep
    <3>1. Len(layer.waiting) \in Nat /\ DOMAIN layer.waiting = 1..Len(layer.waiting) /\ Len(sync.desired) \in Nat
      BY <1>t, <1>y, LayerIs
    <3> QED
      BY <1>p, <3>1
  <2>2. layer.waiting[i].tag = plan.tags[i] /\ [tag |-> layer.waiting[i].tag, ver |-> sync.desired[i].ver] \in ui.known
    BY <1>p, <1>w, <2>1
  <2>3. layer.waiting[i].auto
    BY <1>g, <2>1 DEF QueueInv, Items, Playing
  <2>4. \A k \in ui.known : k.tag = layer.waiting[i].tag => k.ver = layer.waiting[i].ver
    BY <2>1, <2>3 DEF QueueInv, Items
  <2>5. layer.waiting[i].ver = sync.desired[i].ver
    BY <2>2, <2>4
  <2> QED
    BY <2>2, <2>3, <2>5
<1>17. Steps'
  <2>1. CASE over
    BY <1>e, <2>1 DEF Steps, Finished
  <2>2. CASE ~over
    <3>1. plan.keep + 1 - 1 = plan.keep
      BY <1>p
    <3>2. ASSUME sync'.pc = "clear" PROVE Len(layer.waiting) > plan.keep
      <4>1. plan.clear
        BY <1>f, <2>2, <3>2
      <4> QED
        BY <1>p, <4>1
    <3>3. ASSUME sync'.pc = "queue" PROVE Len(layer.waiting) = plan.keep
      <4>1. ~plan.clear
        BY <1>f, <2>2, <3>3
      <4>2. ~(Len(layer.waiting) > plan.keep)
        BY <1>p, <4>1
      <4>3. Len(layer.waiting) \in Nat /\ plan.keep \in Nat /\ plan.keep <= Len(layer.waiting)
        BY <1>p, <1>t, LayerIs
      <4> QED
        BY <4>2, <4>3
    <3>4. ASSUME Finished' PROVE EndOf(layer.waiting, plan.tags)
      <4>1. plan.keep + 1 > Len(plan.tags) /\ Len(layer.waiting) = plan.keep
        BY <1>f, <2>2, <3>3, <3>4 DEF Finished
      <4>2. Len(layer.waiting) = Len(plan.tags) /\ plan.keep = Len(plan.tags) /\ Len(plan.tags) \in Nat
        BY <1>p, <4>1
      <4>3. \A i \in 1..Len(layer.waiting) : Len(plan.tags) - Len(layer.waiting) + i = i
        BY <4>2
      <4>4. \A i \in 1..Len(layer.waiting) : layer.waiting[i].tag = plan.tags[i]
        <5> SUFFICES ASSUME NEW i \in 1..Len(layer.waiting) PROVE layer.waiting[i].tag = plan.tags[i]
          OBVIOUS
        <5>1. i \in 1..Len(sync.desired) /\ i <= plan.keep
          BY <1>p, <4>2
        <5> QED
          BY <1>p, <1>w, <5>1
      <4> QED
        BY <4>2, <4>3, <4>4 DEF EndOf
    <3>5. sync'.pc # "info" /\ sync'.at - 1 = plan.keep /\ sync'.tags = plan.tags
      <4>1. sync'.pc \in {"clear", "queue"}
        BY <1>f, <2>2
      <4>2. sync'.at = plan.keep + 1 /\ sync'.tags = plan.tags
        BY <1>f, <2>2
      <4>3. plan.keep \in Int
        BY <1>p
      <4>4. sync'.at - 1 = plan.keep
        BY <4>2, <4>3
      <4> QED
        BY <4>1, <4>2, <4>4
    <3>6. Match(sync.at - 1)'
      BY <1>m, <2>2, <3>5 DEF Match
    <3> QED
      BY <1>8, <1>g, <1>k, <2>2, <3>2, <3>3, <3>4, <3>5, <3>6 DEF Steps
  <2> QED
    BY <2>1, <2>2
<1>18. Current'
  <2>1. Desired' = Desired /\ Blocker' = Blocker
    BY <1>k, WindowKept
  <2>2. CASE over
    <3> SUFFICES ASSUME Playing, ~ui.dirty PROVE Cuts # {}
      BY <1>1, <1>8, <1>e, <1>k, <2>2 DEF QueueInv, Current, Busy
    <3>1. ~Stale
      BY <1>1 DEF QueueInv, Current
    <3>2. CASE layer.fg.tag # sync.onAir
      BY <3>1, <3>2 DEF QueueInv, OnAirOrCut, Stale
    <3>3. CASE layer.fg.tag = sync.onAir
      <4>1. sync.attempts = 0
        BY <1>1, <3>1, <3>3 DEF QueueInv, Steps, Unmoved
      <4> QED
        BY <1>q, <2>2, <3>1, <3>3, <4>1, QueueAssumption
    <3> QED
      BY <3>2, <3>3
  <2>3. CASE ~over
    BY <1>1, <1>8, <1>f, <1>g, <1>k, <1>o, <2>1, <2>3 DEF QueueInv, Current, Busy
  <2> QED
    BY <2>2, <2>3
<1> QED
  BY <1>6, <1>10, <1>11, <1>12, <1>13, <1>16, <1>17, <1>18 DEF QueueInv

LEMMA SyncClearsKeeps ==
  ASSUME Open = {}, QueueInv, SyncClears
  PROVE  QueueInv'
<1> DEFINE kept == SubSeq(sync.tags, 1, sync.at - 1)
           good == ClearCode(kept) = 202
           cut == IF kept = <<>> THEN 0 ELSE CHOOSE i \in DOMAIN layer.waiting : layer.waiting[i].tag = Last(kept)
           m == sync.at - 1
<1>1. /\ sync.pc = "clear"
      /\ IF good
         THEN /\ layer' = [layer EXCEPT !.waiting = SubSeq(@, 1, IF kept = <<>> THEN 0 ELSE
                           CHOOSE i \in DOMAIN @ : @[i].tag = Last(kept))]
              /\ ui' = [ui EXCEPT !.waiting = kept] /\ sync' = [sync EXCEPT !.pc = "queue"]
         ELSE sync' = [sync EXCEPT !.pc = "info"] /\ UNCHANGED <<layer, ui>>
      /\ UNCHANGED <<events, rundown, row, token, retry, take, follow, used>>
  BY DEF SyncClears
<1>k. events' = events /\ rundown' = rundown /\ row' = row /\ token' = token /\ retry' = retry
      /\ take' = take /\ follow' = follow /\ used' = used
  BY <1>1
<1>t. QueueType
  BY DEF QueueInv
<1>y. /\ sync.tags \in Seq(AnyTag) /\ sync.at \in Nat \ {0} /\ sync.desired \in Seq(Wish)
      /\ Len(sync.tags) \in Nat /\ Len(sync.tags) = Len(sync.desired) /\ sync.at <= Len(sync.tags) + 1
      /\ m \in Nat /\ m <= Len(sync.tags) /\ DOMAIN sync.tags = 1..Len(sync.tags)
  <2>1. sync.tags \in Seq(AnyTag) /\ sync.at \in Nat \ {0} /\ sync.desired \in Seq(Wish)
    BY <1>t DEF QueueType, SyncType
  <2>2. Len(sync.tags) \in Nat /\ DOMAIN sync.tags = 1..Len(sync.tags)
    BY <2>1
  <2>3. Len(sync.tags) = Len(sync.desired) /\ sync.at <= Len(sync.tags) + 1
    BY <1>1 DEF QueueInv, Planned
  <2> QED
    BY <2>1, <2>2, <2>3
<1>s. /\ sync'.onAir = sync.onAir /\ sync'.token = sync.token /\ sync'.desired = sync.desired
      /\ sync'.blocked = sync.blocked /\ sync'.tags = sync.tags /\ sync'.at = sync.at
      /\ sync'.attempts = sync.attempts
      /\ good => sync'.pc = "queue"
      /\ ~good => sync'.pc = "info"
      /\ SyncType'
  BY <1>1, <1>t, SMTT(60) DEF QueueType, SyncType
<1>p. Playing
  BY <1>1 DEF QueueInv, Away
<1>c. /\ kept \in Seq(AnyTag) /\ Len(kept) = m /\ \A i \in 1..m : kept[i] = sync.tags[i]
      /\ kept = <<>> <=> m = 0
      /\ m # 0 => Last(kept) = sync.tags[m]
  <2>1. kept \in Seq(AnyTag) /\ Len(kept) = m /\ \A i \in 1..m : kept[i] = sync.tags[i]
    BY <1>y
  <2> HIDE DEF kept, m
  <2>2. kept = <<>> <=> m = 0
    BY <2>1
  <2>3. m # 0 => m \in 1..m
    BY <1>y
  <2> QED
    BY <2>1, <2>2, <2>3 DEF Last
<1>f. good => layer.fg.tag = sync.onAir /\ ~Stale /\ Unmoved
  <2>1. good => layer.fg.tag = sync.onAir
    BY DEF ClearCode
  <2>2. good => ~Stale
    BY <1>1, <2>1 DEF QueueInv, Steps
  <2> QED
    BY <2>1, <2>2 DEF Unmoved
<1>m. Unmoved => Len(layer.waiting) > m /\ Match(m)
  BY <1>1 DEF QueueInv, Steps
<1>i. Unmoved /\ m # 0 => m \in DOMAIN layer.waiting /\ layer.waiting[m].tag = Last(kept)
  <2> SUFFICES ASSUME Unmoved, m # 0
               PROVE  m \in DOMAIN layer.waiting /\ layer.waiting[m].tag = Last(kept)
    OBVIOUS
  <2> HIDE DEF m, kept
  <2>1. m \in 1..m /\ m \in 1..Len(layer.waiting)
    BY <1>m, <1>t, <1>y, LayerIs
  <2>2. layer.waiting[m].tag = sync.tags[m]
    BY <1>m, <2>1 DEF Match
  <2> QED
    BY <1>c, <1>t, <2>1, <2>2, LayerIs
\* A clear that is refused was planned on another state of the engine.
<1>b. ~good => ~Unmoved
  <2> SUFFICES ASSUME ~good, Unmoved PROVE FALSE
    OBVIOUS
  <2>1. kept # <<>> /\ Last(kept) \notin Range(Tags(layer.waiting))
    BY DEF ClearCode, Unmoved
  <2>2. m \in DOMAIN layer.waiting /\ layer.waiting[m].tag = Last(kept)
    BY <1>c, <1>i, <2>1
  <2>3. Last(kept) = Tags(layer.waiting)[m] /\ m \in DOMAIN Tags(layer.waiting)
    BY <2>2 DEF Tags
  <2> QED
    BY <2>1, <2>3 DEF Range
<1>d. good => cut = m
  <2> SUFFICES ASSUME good, m # 0 PROVE cut = m
    BY <1>c
  <2>1. m \in DOMAIN layer.waiting /\ layer.waiting[m].tag = Last(kept) /\ kept # <<>>
    BY <1>c, <1>f, <1>i
  <2>2. \A i, j \in DOMAIN layer.waiting : layer.waiting[i].tag = layer.waiting[j].tag => i = j
    BY DEF QueueInv, Distinct
  <2>3. cut \in DOMAIN layer.waiting /\ layer.waiting[cut].tag = Last(kept)
    BY <2>1
  <2> QED
    BY <2>1, <2>2, <2>3
<1>g. good => /\ layer'.fg = layer.fg /\ layer'.ended = layer.ended /\ LayerType'
              /\ Len(layer'.waiting) = m /\ DOMAIN layer'.waiting = 1..m
              /\ \A i \in 1..m : i \in DOMAIN layer.waiting /\ layer'.waiting[i] = layer.waiting[i]
  <2> SUFFICES ASSUME good
               PROVE  /\ layer'.fg = layer.fg /\ layer'.ended = layer.ended /\ LayerType'
                      /\ Len(layer'.waiting) = m /\ DOMAIN layer'.waiting = 1..m
                      /\ \A i \in 1..m : i \in DOMAIN layer.waiting /\ layer'.waiting[i] = layer.waiting[i]
    OBVIOUS
  <2>1. layer' = [layer EXCEPT !.waiting = SubSeq(layer.waiting, 1, cut)]
    BY <1>1
  <2>2. layer' = [layer EXCEPT !.waiting = SubSeq(layer.waiting, 1, m)]
    BY <1>d, <2>1
  <2>3. layer.waiting \in Seq(AnyItem) /\ m < Len(layer.waiting) /\ Len(layer.waiting) \in Nat
        /\ DOMAIN layer.waiting = 1..Len(layer.waiting)
    BY <1>f, <1>m, <1>t, LayerIs
  <2> DEFINE w == SubSeq(layer.waiting, 1, m)
  <2> HIDE DEF m
  <2>4. w \in Seq(AnyItem) /\ Len(w) = m /\ DOMAIN w = 1..m /\ \A i \in 1..m : w[i] = layer.waiting[i]
    BY <1>y, <2>3
  <2>5. layer' = [layer EXCEPT !.waiting = w]
    BY <2>2
  <2> HIDE DEF w
  <2>6. layer'.fg = layer.fg /\ layer'.ended = layer.ended /\ LayerType' /\ layer'.waiting = w
    BY <1>t, <2>4, <2>5 DEF QueueType, LayerType
  <2> QED
    BY <1>y, <2>3, <2>4, <2>6
<1>u. /\ ui'.key = ui.key /\ ui'.fg = ui.fg /\ ui'.pending = ui.pending /\ ui'.known = ui.known
      /\ ui'.dirty = ui.dirty /\ UiType'
      /\ good => ui'.waiting = kept
      /\ ~good => ui'.waiting = ui.waiting
  <2> HIDE DEF kept
  <2> QED
    BY <1>1, <1>c, <1>t, SMTT(60) DEF QueueType, UiType
<1>h. ~good => layer' = layer
  BY <1>1
<1>6. QueueType'
  <2>1. LayerType' /\ RowsType'
    BY <1>t, <1>g, <1>h, <1>k DEF QueueType, LayerType, RowsType
  <2>2. TakeType' /\ events' \in Seq(Report)
    BY <1>t, <1>k DEF QueueType, TakeType
  <2> QED
    BY <1>s, <1>u, <2>1, <2>2 DEF QueueType
<1>8. /\ Taking' = Taking /\ Playing' = Playing /\ Onairs' = Onairs /\ Endings' = Endings /\ Cuts' = Cuts
      /\ Stale' = Stale /\ layer'.fg = layer.fg /\ layer'.ended = layer.ended /\ Unmoved' = Unmoved
      /\ ~Taking
  <2>1. layer'.fg = layer.fg /\ layer'.ended = layer.ended
    BY <1>g, <1>h
  <2> QED
    BY <1>k, <1>p, <1>s, <1>u, <2>1 DEF Taking, Playing, Cuts, Onairs, Endings, ReportsOf, Stale, Unmoved
<1> HIDE DEF good, kept, m, cut
<1>w. \A i \in DOMAIN layer'.waiting : i \in DOMAIN layer.waiting /\ layer'.waiting[i] = layer.waiting[i]
  BY <1>g, <1>h
<1>10. Reports' /\ Wanted' /\ Tokens'
  BY <1>1, <1>8, <1>k, <1>s DEF QueueInv, Reports, Wanted, Tokens
<1>11. Items' /\ Distinct'
  <2>1. \A i \in DOMAIN layer.waiting : layer.waiting[i].auto
    BY <1>8 DEF QueueInv, Items
  <2> QED
    BY <1>8, <1>k, <1>u, <1>w, <2>1 DEF QueueInv, Items, Distinct
<1>12. Away' /\ TakeHolds'
  BY <1>8, <1>p DEF Away, TakeHolds
<1>13. Planned'
  BY <1>1, <1>k, <1>s DEF QueueInv, Planned
<1>l. m = sync.at - 1
  BY DEF m
<1>e. good => Cuts = {} /\ \A i \in 1..m : layer'.waiting[i].tag = sync.tags[i]
  <2> SUFFICES ASSUME good PROVE Cuts = {} /\ \A i \in 1..m : layer'.waiting[i].tag = sync.tags[i]
    OBVIOUS
  <2>1. layer.fg.tag = ui.fg
    BY <1>f DEF Stale
  <2>2. Cuts = {}
    BY <1>p, <2>1 DEF QueueInv, OnAirOrCut
  <2> QED
    BY <1>f, <1>g, <1>m, <2>2 DEF Match
<1>14. OnAirOrCut'
  <2>1. CASE good
    <3>1. EndOf(layer'.waiting, ui'.waiting)
      <4>1. Len(layer'.waiting) = m /\ ui'.waiting = kept /\ Len(kept) = m /\ m \in Nat
        BY <1>c, <1>g, <1>u, <1>y, <2>1
      <4>2. ASSUME NEW i \in 1..m PROVE layer'.waiting[i].tag = kept[m - m + i]
        <5>1. m - m + i = i
          BY <4>1
        <5> QED
          BY <1>c, <1>e, <2>1, <5>1
      <4> QED
        BY <4>1, <4>2 DEF EndOf
    <3> QED
      BY <1>8, <1>e, <1>u, <2>1, <3>1 DEF QueueInv, OnAirOrCut
  <2>2. CASE ~good
    BY <1>8, <1>h, <1>k, <1>u, <2>2 DEF QueueInv, OnAirOrCut
  <2> QED
    BY <2>1, <2>2
<1>15. EndKnown'
  BY <1>8, <1>k, <1>u DEF QueueInv, EndKnown
<1>17. Steps'
  <2>1. CASE good
    <3>1. sync'.pc = "queue" /\ sync'.at - 1 = m /\ Len(layer'.waiting) = m
      BY <1>g, <1>l, <1>s, <2>1
    <3>2. Match(sync.at - 1)'
      BY <1>f, <1>g, <1>l, <1>m, <1>s, <2>1 DEF Match
    <3>3. Finished' => EndOf(layer'.waiting, sync.tags)
      <4> SUFFICES ASSUME Finished' PROVE EndOf(layer'.waiting, sync.tags)
        OBVIOUS
      <4>1. m = Len(sync.tags)
        BY <1>l, <1>s, <1>y DEF Finished
      <4>2. ASSUME NEW i \in 1..m PROVE layer'.waiting[i].tag = sync.tags[m - m + i]
        <5>1. m - m + i = i
          BY <1>y
        <5> QED
          BY <1>e, <2>1, <5>1
      <4> QED
        BY <1>y, <3>1, <4>1, <4>2 DEF EndOf
    <3> QED
      BY <1>8, <1>e, <1>s, <2>1, <3>1, <3>2, <3>3 DEF Steps
  <2>2. CASE ~good
    BY <1>8, <1>b, <1>s, <2>2 DEF Steps, Finished
  <2> QED
    BY <2>1, <2>2
<1>18. Current'
  <2>1. Desired' = Desired /\ Blocker' = Blocker
    BY <1>k, <1>u, WindowKept
  <2>2. Busy' /\ Busy /\ sync'.pc # "idle" /\ sync'.pc # "end"
    BY <1>1, <1>s DEF Busy
  <2> QED
    BY <1>1, <1>8, <1>s, <1>u, <2>1, <2>2 DEF QueueInv, Current
<1> QED
  BY <1>6, <1>10, <1>11, <1>12, <1>13, <1>14, <1>15, <1>17, <1>18 DEF QueueInv

LEMMA SyncQueuesKeeps ==
  ASSUME Open = {}, QueueInv, SyncQueues
  PROVE  QueueInv'
<1> DEFINE n == sync.at
           tag == sync.tags[n]
           want == sync.desired[n]
           item == Item(tag, want.ver, TRUE)
<1>1. /\ sync.pc = "queue" /\ n <= Len(sync.tags)
      /\ UNCHANGED <<rundown, row, token, retry, take, follow, used>>
      /\ \/ Stale /\ sync' = [sync EXCEPT !.pc = "end"] /\ UNCHANGED <<layer, events, ui>>
         \/ ~Stale /\ QueueCode = 409 /\ sync' = [sync EXCEPT !.pc = "info"] /\ UNCHANGED <<layer, events, ui>>
         \/ /\ ~Stale /\ QueueCode = 202 /\ layer' = Queued(item) /\ events' = Reported(item)
            /\ sync' = [sync EXCEPT !.at = @ + 1] /\ ui' = Handled(tag, want.ver)
  BY DEF SyncQueues
<1>k. rundown' = rundown /\ row' = row /\ token' = token /\ retry' = retry
      /\ take' = take /\ follow' = follow /\ used' = used
  BY <1>1
<1>t. QueueType /\ Reports
  BY DEF QueueInv
<1>s. /\ sync'.onAir = sync.onAir /\ sync'.token = sync.token /\ sync'.desired = sync.desired
      /\ sync'.blocked = sync.blocked /\ sync'.tags = sync.tags /\ sync'.attempts = sync.attempts
      /\ SyncType' /\ sync'.pc # "idle" /\ sync'.pc # "clear"
  <2>1. sync.at + 1 \in Nat \ {0}
    BY <1>t DEF QueueType, SyncType
  <2> QED
    <3>1. SyncType /\ sync.pc = "queue"
      BY <1>1, <1>t DEF QueueType
    <3>2. CASE sync' = [sync EXCEPT !.pc = "end"]
      BY <1>k, <3>1, <3>2 DEF SyncType
    <3>3. CASE sync' = [sync EXCEPT !.pc = "info"]
      BY <1>k, <3>1, <3>3 DEF SyncType
    <3>4. CASE sync' = [sync EXCEPT !.at = @ + 1]
      BY <1>k, <2>1, <3>1, <3>4 DEF SyncType
    <3> QED
      BY <1>1, <3>2, <3>3, <3>4
<1>o. RowsType' /\ TakeType'
  BY <1>t, <1>k DEF QueueType, RowsType, TakeType
<1>w. (Desired' = Desired /\ Blocker' = Blocker) \/ ui'.key # ui.key
  BY <1>k, WindowKept
<1>a. CASE UNCHANGED <<layer, events, ui>> /\ sync'.at = sync.at
           /\ \/ Stale /\ sync'.pc = "end"
              \/ ~Stale /\ layer.fg.tag # sync.onAir /\ sync'.pc = "info"
  <2>k. layer' = layer /\ events' = events /\ ui' = ui
    BY <1>a
  <2>6. QueueType'
    BY <1>t, <1>o, <1>s, <2>k DEF QueueType, LayerType, UiType
  <2>8. /\ Taking' = Taking /\ Playing' = Playing /\ Onairs' = Onairs /\ Endings' = Endings /\ Cuts' = Cuts
        /\ Stale' = Stale /\ Unmoved' = Unmoved
    BY <1>k, <1>s, <2>k DEF Taking, Playing, Cuts, Onairs, Endings, ReportsOf, Stale, Unmoved
  <2>9. sync'.pc \in {"end", "info"} /\ ~Finished' /\ (sync'.pc = "end" => Stale) /\ (sync'.pc = "info" => ~Unmoved)
    BY <1>a, SMTT(60) DEF Finished, Unmoved
  <2>10. Reports' /\ Items' /\ Distinct' /\ TakeHolds' /\ OnAirOrCut' /\ EndKnown'
    BY <1>k, <2>k, <2>8 DEF QueueInv, Reports, Items, Distinct, TakeHolds, OnAirOrCut, EndKnown
  <2>11. Tokens' /\ Wanted'
    BY <1>1, <1>k, <1>s, <2>8 DEF QueueInv, Tokens, Wanted
  <2>12. Away'
    BY <1>s, <2>8, <2>9, <2>k DEF QueueInv, Away
  <2>13. Planned' /\ Steps'
    BY <2>8, <2>9 DEF Planned, Steps
  <2>18. Current'
    <3>1. sync.pc = "queue" /\ sync.pc # "idle"
      BY <1>1
    <3> QED
      BY <1>w, <1>s, <2>8, <2>9, <2>k, <3>1 DEF QueueInv, Current, Busy
  <2> QED
    BY <2>6, <2>10, <2>11, <2>12, <2>13, <2>18 DEF QueueInv
<1>b. CASE /\ ~Stale /\ QueueCode = 202 /\ layer' = Queued(item) /\ events' = Reported(item)
           /\ sync' = [sync EXCEPT !.at = @ + 1] /\ ui' = Handled(tag, want.ver)
  <2>1. Unmoved /\ Playing /\ ~Taking /\ sync.onAir = ui.fg /\ layer.fg.tag = ui.fg /\ Cuts = {}
    <3>1. Unmoved /\ sync.onAir = ui.fg /\ layer.fg.tag = ui.fg
      BY <1>b DEF QueueCode, Unmoved, Stale
    <3>2. Playing
      BY <1>1, <1>b DEF QueueInv, Tokens, Stale
    <3> QED
      BY <3>1, <3>2 DEF QueueInv, OnAirOrCut, Playing
  <2>y. /\ n \in Nat \ {0} /\ n \in DOMAIN sync.tags /\ n \in DOMAIN sync.desired
        /\ Len(sync.tags) = Len(sync.desired) /\ Len(sync.tags) \in Nat
        /\ DOMAIN sync.tags = 1..Len(sync.tags)
        /\ tag \in AnyTag /\ want \in Wish /\ tag.base = want.base /\ tag.base \in RowSet /\ want.ver \in Nat
        /\ tag.n <= 10 + token
    <3>1. n \in Nat \ {0} /\ sync.tags \in Seq(AnyTag) /\ sync.desired \in Seq(Wish)
      BY <1>t DEF QueueType, SyncType
    <3>2. Len(sync.tags) = Len(sync.desired)
          /\ \A i \in DOMAIN sync.tags : sync.tags[i].base = sync.desired[i].base /\ sync.tags[i].n <= 10 + token
      BY <1>1 DEF QueueInv, Planned
    <3>3. n \in DOMAIN sync.tags /\ n \in DOMAIN sync.desired /\ DOMAIN sync.tags = 1..Len(sync.tags)
          /\ Len(sync.tags) \in Nat
      BY <1>1, <3>1, <3>2
    <3>4. tag \in AnyTag /\ want \in Wish
      BY <3>1, <3>3
    <3>5. want.base \in RowSet /\ want.ver \in Nat
      BY <3>4 DEF Wish
    <3> QED
      BY <3>1, <3>2, <3>3, <3>4, <3>5
  <2>z. /\ tag.base # sync.onAir.base
        /\ \A i \in DOMAIN sync.tags : sync.tags[i] = tag => i = n
    <3>1. /\ \A i, j \in DOMAIN sync.desired : sync.desired[i].base = sync.desired[j].base => i = j
          /\ \A i \in DOMAIN sync.desired : sync.desired[i].base # sync.onAir.base
      BY <1>1 DEF QueueInv, Wanted
    <3>2. \A i \in DOMAIN sync.tags : i \in DOMAIN sync.desired /\ sync.tags[i].base = sync.desired[i].base
      <4>1. DOMAIN sync.desired = 1..Len(sync.desired)
        BY <1>t DEF QueueType, SyncType
      <4> QED
        BY <1>1, <2>y, <4>1 DEF QueueInv, Planned
    <3> QED
      BY <2>y, <3>1, <3>2
  <2>m. /\ Len(layer.waiting) = n - 1 /\ DOMAIN layer.waiting = 1..(n - 1)
        /\ \A i \in 1..(n - 1) : layer.waiting[i].tag = sync.tags[i] /\ layer.waiting[i].ver = sync.desired[i].ver
                                 /\ layer.waiting[i].auto
    <3>1. Len(layer.waiting) = n - 1 /\ Match(n - 1)
      BY <1>1, <2>1 DEF QueueInv, Steps
    <3> QED
      BY <1>t, <3>1, LayerIs DEF Match
  <2>i. item \in AnyItem /\ item.tag = tag /\ item.ver = want.ver /\ item.auto = TRUE
    BY <2>y DEF Item, AnyItem
  <2>f. \A i \in DOMAIN layer.waiting : layer.waiting[i].tag # tag
    BY <2>m, <2>y, <2>z, SMTT(60)
  <2>g. tag # layer.fg.tag /\ tag # ui.fg
    BY <2>1, <2>z
  <2>p. layer.ended => layer.waiting = <<>>
    <3> SUFFICES ASSUME layer.ended, layer.waiting # <<>> PROVE FALSE
      OBVIOUS
    <3>1. 1 \in DOMAIN layer.waiting
      <4>1. layer.waiting \in Seq(AnyItem)
        BY <1>t, LayerIs
      <4> QED
        BY <4>1
    <3> QED
      BY <2>m, <3>1 DEF QueueInv, Items
  <2> HIDE DEF n, tag, want, item
  <2>s. sync'.at = n + 1 /\ sync'.pc = "queue"
    BY <1>1, <1>b, <1>t DEF n, QueueType, SyncType
  <2>u. /\ ui'.key = ui.key /\ ui'.fg = ui.fg /\ ui'.pending = ui.pending /\ ui'.dirty = ui.dirty
        /\ ui'.waiting = Append(ui.waiting, tag)
        /\ ui'.known = {k \in ui.known : k.tag # tag} \cup {[tag |-> tag, ver |-> want.ver]} /\ UiType'
    <3>1. ui' = [ui EXCEPT !.waiting = Append(ui.waiting, tag),
                           !.known = {k \in ui.known : k.tag # tag} \cup {[tag |-> tag, ver |-> want.ver]}]
      BY <1>b DEF Handled
    <3>2. ui.waiting \in Seq(AnyTag) /\ ui.known \in SUBSET [tag : AnyTag, ver : Nat]
      BY <1>t DEF QueueType, UiType
    <3>3. Append(ui.waiting, tag) \in Seq(AnyTag)
          /\ {k \in ui.known : k.tag # tag} \cup {[tag |-> tag, ver |-> want.ver]} \in SUBSET [tag : AnyTag, ver : Nat]
      BY <2>y, <3>2
    <3> QED
      BY <1>t, <3>1, <3>3 DEF QueueType, UiType
  <2>l. /\ Len(ui.waiting) \in Nat /\ Len(ui'.waiting) = Len(ui.waiting) + 1
        /\ ui'.waiting[Len(ui.waiting) + 1] = tag
        /\ \A i \in 1..Len(ui.waiting) : ui'.waiting[i] = ui.waiting[i]
    <3>1. ui.waiting \in Seq(AnyTag)
      BY <1>t DEF QueueType, UiType
    <3> QED
      BY <2>u, <3>1
  <2>8. /\ Taking' = Taking /\ Playing' = Playing /\ Stale' = Stale /\ Desired' = Desired /\ Blocker' = Blocker
    BY <1>k, <1>s, <1>w, <2>u DEF Taking, Playing, Stale
  <2>9. Tokens' /\ Wanted' /\ Away' /\ TakeHolds'
    BY <1>1, <1>k, <1>s, <2>1, <2>8 DEF QueueInv, Tokens, Wanted, Away, TakeHolds
  <2>10. Planned'
    <3>1. n + 1 <= Len(sync.tags) + 1
      BY <1>1, <2>y DEF n
    <3> QED
      BY <1>1, <1>k, <1>s, <2>s, <3>1 DEF QueueInv, Planned
  \* The layer has run dry: the item goes on air, as a cut.
  <2>d. CASE layer.ended
    <3>1. layer.waiting = <<>> /\ n = 1
      <4>1. n - 1 = 0
        BY <2>d, <2>m, <2>p
      <4> QED
        BY <2>d, <2>p, <2>y, <4>1
    <3>2. layer' = OnLayer(item, <<>>) /\ events' = Append(events, [kind |-> "onair", tag |-> tag])
      BY <1>b, <2>d, <2>i, <3>1 DEF Queued, Reported, item
    <3>3. layer'.fg = item /\ ~layer'.ended /\ layer'.waiting = <<>> /\ LayerType'
      <4>1. <<>> \in Seq(AnyItem)
        OBVIOUS
      <4> QED
        BY <1>t, <2>i, <3>2, <4>1 DEF OnLayer, QueueType, LayerType
    <3>4. ui.pending = NoTag /\ follow \in {NoTag, ui.fg} /\ Endings \subseteq {ui.fg}
      BY <2>1, <2>d DEF QueueInv, OnAirOrCut, EndKnown
    <3>5. Onairs = {}
      BY <2>1, <3>4, <1>t DEF Cuts, Reports, NoTag, Tag
    <3>6. /\ Onairs' = {tag} /\ Endings' = Endings /\ events' \in Seq(Report) /\ Len(events') = Len(events) + 1
      <4>1. /\ Onairs' = Onairs \cup (IF "onair" = "onair" THEN {tag} ELSE {})
            /\ Endings' = Endings \cup (IF "onair" = "ended" THEN {tag} ELSE {})
            /\ events' \in Seq(Report) /\ Len(events') = Len(events) + 1
        BY <1>t, <2>y, <3>2, Reported1
      <4> QED
        BY <3>5, <4>1
    <3>7. Cuts' = {tag}
      BY <2>u, <2>y, <3>4, <3>6, Names DEF Cuts, NoTag, Tag
    <3>e. events \in Seq(Report) /\ Len(events) \in Nat /\ Len(events) <= 2
      BY <1>t DEF QueueType, Reports
    <3>8. Len(events) \in {0, 1} /\ (Len(events) = 1 => events[1].kind = "ended")
      <4>1. ASSUME NEW i \in 1..Len(events) PROVE events[i].kind = "ended"
        <5>1. i \in DOMAIN events /\ events[i] \in Report
          BY <3>e
        <5>2. events[i].kind # "onair"
          BY <3>5, <5>1 DEF Onairs, ReportsOf
        <5> QED
          BY <5>1, <5>2 DEF Report
      <4>2. Len(events) # 2
        <5> SUFFICES ASSUME Len(events) = 2 PROVE FALSE
          OBVIOUS
        <5>1. events[2].kind = "onair"
          BY <1>t DEF Reports
        <5> QED
          BY <4>1, <5>1
      <4>3. Len(events) \in {0, 1}
        <5>1. \A l \in Nat : l <= 2 /\ l # 2 => l \in {0, 1}
          OBVIOUS
        <5> QED
          BY <3>e, <4>2, <5>1
      <4> QED
        BY <4>1, <4>3
    <3>9. Reports'
      <4>1. Len(events') <= 2 /\ (Len(events') = 2 => events'[1].kind = "ended" /\ events'[2].kind = "onair")
        <5>1. CASE Len(events) = 0
          BY <3>6, <5>1
        <5>2. CASE Len(events) = 1
          <6>1. events'[1] = events[1] /\ events'[2] = [kind |-> "onair", tag |-> tag] /\ Len(events') = 2
            <7>1. [kind |-> "onair", tag |-> tag] \in Report
              BY <2>y DEF Report
            <7>2. ASSUME NEW e \in Report, NEW s \in Seq(Report), Len(s) = 1
                  PROVE  Append(s, e)[1] = s[1] /\ Append(s, e)[2] = e /\ Len(Append(s, e)) = 2
              <8>1. /\ Len(Append(s, e)) = Len(s) + 1 /\ Append(s, e)[Len(s) + 1] = e
                    /\ \A i \in 1..Len(s) : Append(s, e)[i] = s[i]
                OBVIOUS
              <8>2. Len(s) + 1 = 2 /\ 1 \in 1..Len(s)
                BY <7>2
              <8> QED
                BY <8>1, <8>2
            <7> QED
              BY <3>2, <3>e, <5>2, <7>1, <7>2
          <6> QED
            BY <3>8, <5>2, <6>1
        <5> QED
          BY <3>8, <5>1, <5>2
      <4> QED
        BY <1>k, <1>t, <2>y, <3>6, <4>1, Names DEF Reports
    <3>10. Items' /\ Distinct'
      <4>1. DOMAIN layer'.waiting = {}
        BY <3>3
      <4> QED
        BY <1>k, <2>i, <2>y, <3>3, <4>1, Names DEF Items, Distinct
    <3>11. EndBehind(tag, layer'.waiting, ui'.waiting)
      <4>1. Len(layer'.waiting) = 0
        BY <3>3
      <4> QED
        BY <2>l, <4>1 DEF EndOf, EndBehind
    <3>12. OnAirOrCut'
      <4>1. DOMAIN layer'.waiting = {}
        BY <3>3
      <4>2. tag # follow /\ tag \notin Endings /\ tag.base # Filler /\ ui'.pending = NoTag
        BY <2>g, <2>u, <2>y, <3>4, Names DEF NoTag, Tag
      <4>3. ui.fg.base = ui.key
        BY <2>1 DEF QueueInv, OnAirOrCut
      <4> QED
        BY <1>k, <2>1, <2>8, <2>g, <2>i, <2>u, <3>3, <3>6, <3>7, <3>11, <4>1, <4>2, <4>3 DEF OnAirOrCut, NoTag
    <3>13. EndKnown'
      BY <3>3, <3>7 DEF EndKnown
    <3>14. Steps'
      <4>1. ~Unmoved'
        BY <1>s, <2>1, <2>g, <2>i, <3>3 DEF Unmoved
      <4>2. Finished' => EndBehind(tag, layer'.waiting, sync.tags)
        <5> SUFFICES ASSUME Finished' PROVE EndBehind(tag, layer'.waiting, sync.tags)
          OBVIOUS
        <5>1. Len(sync.tags) = 1
          <6>1. n + 1 > Len(sync.tags) /\ n <= Len(sync.tags)
            BY <1>1, <1>s, <2>s DEF Finished
          <6>2. \A l \in Nat : 1 + 1 > l /\ 1 <= l => l = 1
            OBVIOUS
          <6> QED
            BY <2>y, <3>1, <6>1, <6>2
        <5>2. Len(layer'.waiting) = 0 /\ sync.tags[1] = tag
          BY <3>1, <3>3 DEF tag
        <5> QED
          BY <5>1, <5>2 DEF EndOf, EndBehind
      <4> QED
        BY <1>s, <2>s, <3>7, <4>1, <4>2 DEF Steps
    <3>15. Current'
      BY <1>1, <1>s, <2>8, <2>s, <2>u DEF QueueInv, Current, Busy
    <3>16. QueueType'
      BY <1>o, <1>s, <2>u, <3>3, <3>6 DEF QueueType
    <3> QED
      BY <2>9, <2>10, <3>9, <3>10, <3>12, <3>13, <3>14, <3>15, <3>16 DEF QueueInv
  <2>e. CASE ~layer.ended
    <3>1. layer' = [layer EXCEPT !.waiting = Append(layer.waiting, item)] /\ events' = events
      BY <1>b, <2>e DEF Queued, Reported
    <3>2. layer'.fg = layer.fg /\ ~layer'.ended /\ layer'.waiting = Append(layer.waiting, item) /\ LayerType'
      <4>1. Append(layer.waiting, item) \in Seq(AnyItem)
        BY <1>t, <2>i, LayerIs
      <4> QED
        BY <1>t, <2>e, <3>1, <4>1 DEF QueueType, LayerType
    <3>3. /\ Len(layer'.waiting) = n /\ DOMAIN layer'.waiting = 1..n /\ layer'.waiting[n] = item
          /\ \A i \in 1..(n - 1) : layer'.waiting[i] = layer.waiting[i]
      <4>1. layer.waiting \in Seq(AnyItem)
        BY <1>t, LayerIs
      <4> QED
        BY <2>i, <2>m, <2>y, <3>2, <4>1
    <3>4. \A i \in 1..n : i = n \/ i \in 1..(n - 1)
      BY <2>y
    <3>5. /\ Onairs' = Onairs /\ Endings' = Endings /\ Cuts' = {} /\ Unmoved' = Unmoved
      BY <1>s, <2>1, <2>8, <2>u, <3>1, <3>2, ZenonT(60) DEF Cuts, Onairs, Endings, ReportsOf,
           Unmoved
    <3>6. Reports' /\ QueueType'
      BY <1>k, <1>o, <1>s, <1>t, <2>u, <3>1, <3>2, <3>5 DEF Reports, QueueType
    <3>7. Distinct'
      <4>1. \A i \in 1..(n - 1) : i \in DOMAIN layer.waiting
        BY <2>m
      <4> QED
        BY <2>f, <2>g, <2>i, <2>m, <3>2, <3>3, <3>4, SMTT(60) DEF QueueInv, Distinct
    <3>8. Items'
      <4>1. \A i \in 1..(n - 1) : i \in DOMAIN layer.waiting
        BY <2>m
      <4>2. ASSUME NEW i \in DOMAIN layer'.waiting
            PROVE  layer'.waiting[i].tag.base \in RowSet /\ layer'.waiting[i].tag.n <= 10 + token
                   /\ layer'.waiting[i].auto
        BY <2>i, <2>m, <2>y, <3>3, <3>4, <4>1 DEF QueueInv, Items
      <4>3. ASSUME NEW i \in DOMAIN layer'.waiting, NEW k \in ui'.known, k.tag = layer'.waiting[i].tag
            PROVE  k.ver = layer'.waiting[i].ver
        <5>1. CASE i = n
          BY <2>i, <2>u, <3>3, <4>3, <5>1
        <5>2. CASE i \in 1..(n - 1)
          <6>1. k.tag # tag /\ layer'.waiting[i] = layer.waiting[i] /\ layer.waiting[i].auto
            BY <2>f, <2>m, <3>3, <4>1, <4>3, <5>2
          <6>2. k \in ui.known
            BY <2>u, <6>1
          <6> QED
            BY <4>1, <4>3, <5>2, <6>1, <6>2 DEF QueueInv, Items
        <5> QED
          BY <3>3, <3>4, <5>1, <5>2
      <4> QED
        BY <1>k, <3>2, <4>2, <4>3 DEF QueueInv, Items
    <3>9. OnAirOrCut'
      <4>1. EndOf(layer.waiting, ui.waiting) /\ ui.fg.base = ui.key
            /\ (ui.pending # NoTag => ui.pending = ui.fg /\ Onairs = {ui.pending} /\ ~layer.ended)
        BY <2>1 DEF QueueInv, OnAirOrCut
      <4>2. EndOf(layer'.waiting, ui'.waiting)
        <5>1. n - 1 <= Len(ui.waiting) /\ \A i \in 1..(n - 1) : layer.waiting[i].tag = ui.waiting[Len(ui.waiting) - (n - 1) + i]
          BY <2>m, <4>1 DEF EndOf
        <5>2. ASSUME NEW i \in 1..n PROVE layer'.waiting[i].tag = ui'.waiting[Len(ui.waiting) + 1 - n + i]
          <6>1. CASE i = n
            <7>1. Len(ui.waiting) + 1 - n + i = Len(ui.waiting) + 1
              BY <2>l, <2>y, <6>1
            <7> QED
              BY <2>i, <2>l, <3>3, <6>1, <7>1
          <6>2. CASE i \in 1..(n - 1)
            <7>1. /\ Len(ui.waiting) + 1 - n + i = Len(ui.waiting) - (n - 1) + i
                  /\ Len(ui.waiting) - (n - 1) + i \in 1..Len(ui.waiting)
              BY <2>l, <2>y, <5>1, <6>2, SMTT(60)
            <7> QED
              BY <2>l, <3>3, <5>1, <6>2, <7>1, ZenonT(60)
          <6> QED
            BY <3>4, <6>1, <6>2
        <5>3. n <= Len(ui.waiting) + 1
          BY <2>l, <2>y, <5>1
        <5> QED
          BY <2>l, <3>3, <5>2, <5>3, SMTT(60) DEF EndOf
      <4> QED
        BY <2>1, <2>8, <2>e, <2>u, <3>2, <3>5, <4>1, <4>2 DEF OnAirOrCut
    <3>10. EndKnown'
      BY <1>k, <2>1, <2>8, <2>u, <2>e, <3>2, <3>5 DEF QueueInv, EndKnown
    <3>11. \A i \in 1..n : layer'.waiting[i].tag = sync.tags[i] /\ layer'.waiting[i].ver = sync.desired[i].ver
                           /\ layer'.waiting[i].auto
      BY <2>i, <2>m, <3>3, <3>4, ZenonT(60) DEF tag, want
    <3>12. Steps'
      <4>0. sync'.at - 1 = n
        BY <2>s, <2>y
      <4>1. Len(layer'.waiting) = sync'.at - 1
        BY <3>3, <4>0
      <4>2. Match(sync.at - 1)'
        BY <1>s, <3>11, <4>0 DEF Match
      <4>3. Finished' => EndOf(layer'.waiting, sync.tags)
        <5> SUFFICES ASSUME Finished' PROVE EndOf(layer'.waiting, sync.tags)
          OBVIOUS
        <5>1. n = Len(sync.tags)
          BY <1>1, <1>s, <2>s, <2>y DEF Finished, n
        <5>2. ASSUME NEW i \in 1..n PROVE layer'.waiting[i].tag = sync.tags[n - n + i]
          <6>1. n - n + i = i
            BY <2>y
          <6> QED
            BY <3>11, <6>1
        <5> QED
          BY <2>y, <3>3, <5>1, <5>2 DEF EndOf
      <4> QED
        BY <1>s, <2>s, <3>5, <4>1, <4>2, <4>3 DEF Steps
    <3>13. Current'
      BY <1>1, <1>s, <2>8, <2>s, <2>u DEF QueueInv, Current, Busy
    <3> QED
      BY <2>9, <2>10, <3>6, <3>7, <3>8, <3>9, <3>10, <3>12, <3>13 DEF QueueInv
  <2> QED
    BY <2>d, <2>e
<1>c. ~Stale /\ QueueCode = 409 => layer.fg.tag # sync.onAir
  BY DEF QueueCode
<1>e. sync' = [sync EXCEPT !.pc = "end"] => sync'.pc = "end" /\ sync'.at = sync.at
  BY <1>t DEF QueueType, SyncType
<1>f. sync' = [sync EXCEPT !.pc = "info"] => sync'.pc = "info" /\ sync'.at = sync.at
  BY <1>t DEF QueueType, SyncType
<1> QED
  BY <1>1, <1>a, <1>b, <1>c, <1>e, <1>f

LEMMA SyncRefusedKeeps ==
  ASSUME Open = {}, QueueInv, SyncRefused
  PROVE  QueueInv'
<1> DEFINE r == sync.desired[sync.at].base
<1>1. /\ sync.pc = "queue" /\ sync.at <= Len(sync.tags) /\ take.row # r
      /\ used' = [used EXCEPT !.faults = @ + 1]
      /\ row' = [row EXCEPT ![r].status = "error"]
      /\ sync' = [sync EXCEPT !.pc = "end"] /\ ui' = [ui EXCEPT !.dirty = TRUE]
      /\ UNCHANGED <<layer, events, rundown, token, retry, take, follow>>
  BY DEF SyncRefused
<1>k. layer' = layer /\ events' = events /\ rundown' = rundown /\ token' = token /\ retry' = retry
      /\ take' = take /\ follow' = follow
  BY <1>1
<1>t. QueueType
  BY DEF QueueInv
<1>r. r \in RowSet
  <2>1. Len(sync.tags) = Len(sync.desired)
    BY <1>1 DEF QueueInv, Planned
  <2>2. sync.at \in Nat \ {0} /\ sync.desired \in Seq(Wish)
    BY <1>t DEF QueueType, SyncType
  <2>3. sync.at \in DOMAIN sync.desired
    BY <1>1, <2>1, <2>2
  <2>4. sync.desired[sync.at] \in Wish
    BY <2>2, <2>3
  <2> QED
    BY <2>4 DEF Wish
<1> HIDE DEF r
<1>s. /\ sync'.pc = "end" /\ sync'.onAir = sync.onAir /\ sync'.token = sync.token
      /\ sync'.desired = sync.desired /\ sync'.blocked = sync.blocked /\ SyncType'
  BY <1>1, <1>k, <1>t DEF QueueType, SyncType
<1>u. /\ ui'.key = ui.key /\ ui'.fg = ui.fg /\ ui'.waiting = ui.waiting /\ ui'.pending = ui.pending
      /\ ui'.known = ui.known /\ ui'.dirty /\ UiType'
  BY <1>1, <1>t DEF QueueType, UiType
<1>w. RowsType' /\ \A x \in RowSet : x # r => row'[x] = row[x]
  BY <1>1, <1>k, <1>t DEF QueueType, RowsType
<1>6. QueueType'
  <2>1. LayerType' /\ events' \in Seq(Report)
    BY <1>t, <1>k DEF QueueType, LayerType
  <2>2. TakeType'
    BY <1>1, <1>t, SMTT(60) DEF QueueType, TakeType
  <2> QED
    BY <1>s, <1>u, <1>w, <2>1, <2>2 DEF QueueType
<1>8. /\ Taking' = Taking /\ Playing' = Playing /\ Onairs' = Onairs /\ Endings' = Endings /\ Cuts' = Cuts
  BY <1>k, <1>u DEF Taking, Playing, Cuts, Onairs, Endings, ReportsOf
<1>10. Reports' /\ Items' /\ Distinct' /\ OnAirOrCut' /\ EndKnown'
  BY <1>k, <1>u, <1>8 DEF QueueInv, Reports, Items, Distinct, OnAirOrCut, EndKnown
<1>11. TakeHolds'
  <2> SUFFICES ASSUME Taking PROVE TakeHolds'
    BY <1>8 DEF TakeHolds
  <2>1. row'[take.row] = row[take.row]
    BY <1>1, <1>w DEF QueueInv, TakeHolds
  <2> QED
    BY <1>k, <1>u, <1>8, <2>1 DEF QueueInv, TakeHolds
<1>12. Tokens' /\ Wanted' /\ Planned' /\ Steps'
  BY <1>1, <1>8, <1>k, <1>s DEF QueueInv, Tokens, Wanted, Planned, Steps, Finished
<1>13. Away' /\ Current'
  BY <1>8, <1>k, <1>s, <1>u DEF QueueInv, Away, Current, Finished, Busy
<1> QED
  BY <1>6, <1>10, <1>11, <1>12, <1>13 DEF QueueInv

LEMMA RowRetryKeeps ==
  ASSUME Open = {}, QueueInv, RowRetry
  PROVE  QueueInv'
<1>1. /\ retry' = [retry EXCEPT !.armed = FALSE] /\ ui' = [ui EXCEPT !.dirty = TRUE]
      /\ UNCHANGED <<layer, events, rundown, row, token, sync, take, follow, used>>
  BY DEF RowRetry
<1>k. layer' = layer /\ events' = events /\ rundown' = rundown /\ row' = row /\ token' = token
      /\ sync' = sync /\ take' = take /\ follow' = follow /\ used' = used
  BY <1>1
<1>t. QueueType
  BY DEF QueueInv
<1>u. /\ ui'.key = ui.key /\ ui'.fg = ui.fg /\ ui'.waiting = ui.waiting /\ ui'.pending = ui.pending
      /\ ui'.known = ui.known /\ ui'.dirty /\ UiType'
  BY <1>1, <1>t DEF QueueType, UiType
<1>6. QueueType'
  <2>1. LayerType' /\ RowsType' /\ events' \in Seq(Report)
    BY <1>t, <1>k DEF QueueType, LayerType, RowsType
  <2>2. TakeType' /\ SyncType'
    BY <1>1, <1>t DEF QueueType, TakeType, SyncType
  <2> QED
    BY <1>u, <2>1, <2>2 DEF QueueType
<1>8. /\ Taking' = Taking /\ Playing' = Playing /\ Onairs' = Onairs /\ Endings' = Endings /\ Cuts' = Cuts
      /\ Stale' = Stale /\ Unmoved' = Unmoved /\ Finished' = Finished /\ Busy' = Busy
  BY <1>k, <1>u DEF Taking, Playing, Cuts, Onairs, Endings, ReportsOf, Stale, Unmoved, Finished, Busy
<1>10. Reports' /\ Items' /\ Distinct' /\ TakeHolds' /\ OnAirOrCut' /\ EndKnown'
  BY <1>k, <1>u, <1>8 DEF QueueInv, Reports, Items, Distinct, TakeHolds, OnAirOrCut, EndKnown
<1>11. Tokens' /\ Wanted' /\ Planned' /\ Steps'
  BY <1>8, <1>k DEF QueueInv, Tokens, Wanted, Planned, Steps, Match
<1>12. Away'
  BY <1>8, <1>k, <1>u DEF QueueInv, Away
<1>13. Current'
  BY <1>8, <1>k, <1>u DEF QueueInv, Current
<1> QED
  BY <1>6, <1>10, <1>11, <1>12, <1>13 DEF QueueInv

LEMMA SyncEndsKeeps ==
  ASSUME Open = {}, QueueInv, SyncEnds
  PROVE  QueueInv'
<1> DEFINE done == IF sync.pc = "queue" THEN Pruned([ui EXCEPT !.waiting = sync.tags]) ELSE ui
           wait == sync.blocked # NoKey /\ ~Stale
           over == wait /\ retry.count = MaxRetries
<1>1. /\ sync.pc = "end" \/ Finished
      /\ sync' = Idle
      /\ row' = IF over THEN [row EXCEPT ![sync.blocked].status = "error"] ELSE row
      /\ ui' = IF over THEN [done EXCEPT !.dirty = TRUE] ELSE done
      /\ retry' = IF wait /\ ~over THEN [count |-> retry.count + 1, armed |-> TRUE]
                  ELSE IF over \/ sync.blocked = NoKey THEN [retry EXCEPT !.count = 0] ELSE retry
      /\ UNCHANGED <<layer, events, rundown, token, take, follow, used>>
  BY DEF SyncEnds, Finished
<1>k. layer' = layer /\ events' = events /\ rundown' = rundown /\ token' = token
      /\ take' = take /\ follow' = follow /\ used' = used
  BY <1>1
<1>t. QueueType
  BY DEF QueueInv
<1>y. sync.tags \in Seq(AnyTag) /\ Len(sync.tags) \in Nat /\ sync.blocked \in RowSet \cup {NoKey}
      /\ retry \in [count : Nat, armed : BOOLEAN] /\ sync.at \in Nat \ {0} /\ sync.desired \in Seq(Wish)
      /\ DOMAIN sync.tags = 1..Len(sync.tags) /\ DOMAIN sync.desired = 1..Len(sync.desired)
  <2>1. sync.tags \in Seq(AnyTag) /\ sync.blocked \in RowSet \cup {NoKey}
      /\ retry \in [count : Nat, armed : BOOLEAN] /\ sync.at \in Nat \ {0} /\ sync.desired \in Seq(Wish)
    BY <1>t DEF QueueType, SyncType
  <2> QED
    BY <2>1
<1>d. /\ done.key = ui.key /\ done.fg = ui.fg /\ done.pending = ui.pending /\ done.dirty = ui.dirty
      /\ done.known \subseteq ui.known
      /\ sync.pc = "queue" => done.waiting = sync.tags
      /\ sync.pc # "queue" => done.waiting = ui.waiting
      /\ done \in [key : RowSet \cup {NoKey}, fg : AnyTag, waiting : Seq(AnyTag), pending : AnyTag,
                   known : SUBSET [tag : AnyTag, ver : Nat], dirty : BOOLEAN]
  <2>1. CASE sync.pc = "queue"
    <3> DEFINE u == [ui EXCEPT !.waiting = sync.tags]
               live == Range(u.waiting) \cup {u.fg, u.pending}
               kept == {k \in u.known : k.tag \in live}
    <3>1. /\ u.key = ui.key /\ u.fg = ui.fg /\ u.pending = ui.pending /\ u.dirty = ui.dirty
          /\ u.known = ui.known /\ u.waiting = sync.tags
          /\ u \in [key : RowSet \cup {NoKey}, fg : AnyTag, waiting : Seq(AnyTag), pending : AnyTag,
                    known : SUBSET [tag : AnyTag, ver : Nat], dirty : BOOLEAN]
      BY <1>t, <1>y DEF QueueType, UiType
    <3>2. kept \subseteq ui.known
      BY <3>1
    <3>3. done = [u EXCEPT !.known = kept]
      BY <2>1 DEF Pruned
    <3> HIDE DEF kept, live, u, done
    <3>4. kept \in SUBSET [tag : AnyTag, ver : Nat]
      BY <1>t, <3>2 DEF QueueType, UiType
    <3> QED
      BY <2>1, <3>1, <3>2, <3>3, <3>4
  <2>2. CASE sync.pc # "queue"
    BY <1>t, <2>2 DEF QueueType, UiType
  <2> QED
    BY <2>1, <2>2
<1>e. over => sync.blocked \in RowSet /\ ~Stale
  BY <1>y
<1>n. /\ ~over => row' = row /\ ui' = done
      /\ over => row' = [row EXCEPT ![sync.blocked].status = "error"]
                 /\ ui' = [done EXCEPT !.dirty = TRUE]
  BY <1>1
<1>v. wait /\ ~over => retry'.armed
  BY <1>1
<1>q. sync.blocked # NoKey /\ ~Stale <=> wait
  OBVIOUS
<1>x. retry' \in [count : Nat, armed : BOOLEAN]
  <2> HIDE DEF wait, over
  <2> QED
    BY <1>1, <1>y
<1> HIDE DEF done, over, wait
<1>u. /\ ui'.key = ui.key /\ ui'.fg = ui.fg /\ ui'.pending = ui.pending
      /\ ui'.known \subseteq ui.known /\ ui'.waiting = done.waiting /\ UiType'
      /\ over => ui'.dirty
      /\ ~over => ui'.dirty = ui.dirty
  <2>1. CASE over
    BY <1>d, <1>n, <2>1 DEF UiType
  <2>2. CASE ~over
    BY <1>d, <1>n, <2>2 DEF UiType
  <2> QED
    BY <2>1, <2>2
<1>s. sync'.pc = "idle" /\ SyncType' /\ sync'.token = 0
  <2>1. <<>> \in Seq(AnyTag) /\ <<>> \in Seq(Wish) /\ NoTag \in AnyTag
    BY DEF NoTag, Tag, AnyTag
  <2>2. Idle \in [pc : {"idle", "info", "clear", "queue", "end"}, onAir : AnyTag, token : Nat,
                 desired : Seq(Wish), attempts : Nat, tags : Seq(AnyTag), at : Nat \ {0},
                 blocked : RowSet \cup {NoKey}]
    BY <2>1 DEF Idle
  <2>5. Idle.pc = "idle" /\ Idle.token = 0
    BY DEF Idle
  <2>3. sync' = Idle
    BY <1>1
  <2>4. SyncType'
    BY <1>x, <2>2, <2>3, Zenon DEF SyncType
  <2> QED
    BY <2>3, <2>4, <2>5
<1>w. RowsType' /\ (\A x \in RowSet : (over /\ x = sync.blocked) \/ row'[x] = row[x])
  <2>1. CASE over
    <3> DEFINE b == sync.blocked
    <3>1. b \in RowSet /\ row' = [row EXCEPT ![b].status = "error"] /\ RowsType
      BY <1>e, <1>n, <1>t, <2>1 DEF QueueType
    <3> HIDE DEF b
    <3>2. RowsType' /\ \A x \in RowSet : x # b => row'[x] = row[x]
      BY <1>k, <3>1 DEF RowsType
    <3> QED
      BY <2>1, <3>2 DEF b
  <2>2. CASE ~over
    BY <1>k, <1>n, <1>t, <2>2 DEF QueueType, RowsType
  <2> QED
    BY <2>1, <2>2
<1>6. QueueType'
  <2>1. LayerType' /\ events' \in Seq(Report) /\ TakeType'
    BY <1>t, <1>k DEF QueueType, LayerType, TakeType
  <2> QED
    BY <1>s, <1>u, <1>w, <2>1 DEF QueueType
<1>8. /\ Taking' = Taking /\ Playing' = Playing /\ Onairs' = Onairs /\ Endings' = Endings /\ Cuts' = Cuts
  BY <1>k, <1>u DEF Taking, Playing, Cuts, Onairs, Endings, ReportsOf
<1>p. (Finished => Playing) /\ (over => Playing)
  <2>1. ~Stale => Playing
    BY <1>1 DEF QueueInv, Tokens, Stale, Finished
  <2> QED
    BY <1>e, <2>1 DEF QueueInv, Away
<1>10. Reports' /\ Distinct' /\ EndKnown'
  BY <1>k, <1>u, <1>8 DEF QueueInv, Reports, Distinct, EndKnown
<1>11. Items'
  BY <1>k, <1>u, <1>8 DEF QueueInv, Items
<1>12. TakeHolds'
  <2> SUFFICES ASSUME Taking PROVE TakeHolds'
    BY <1>8 DEF TakeHolds
  <2>1. ~over /\ take.row \in RowSet
    BY <1>p DEF QueueInv, TakeHolds, Playing
  <2>2. row'[take.row] = row[take.row]
    BY <1>n, <2>1
  <2> QED
    BY <1>k, <1>u, <1>8, <2>2 DEF QueueInv, TakeHolds
<1>13. Tokens'
  <2>1. token \in Nat
    BY <1>t DEF QueueType, TakeType
  <2> QED
    BY <1>8, <1>k, <1>s, <2>1 DEF QueueInv, Tokens
<1>14. Wanted' /\ Planned' /\ Steps'
  BY <1>s DEF Wanted, Planned, Steps, Finished
<1>15. Away'
  <2>1. ~Playing => ui'.waiting = <<>>
    <3> SUFFICES ASSUME ~Playing PROVE ui'.waiting = <<>>
      OBVIOUS
    <3>1. sync.pc = "end"
      BY <1>1, <1>p
    <3> QED
      BY <1>d, <1>u, <3>1 DEF QueueInv, Away
  <2> QED
    BY <1>8, <1>k, <1>s, <1>u, <2>1 DEF QueueInv, Away, Finished
<1>16. OnAirOrCut'
  <2> SUFFICES ASSUME Playing PROVE OnAirOrCut'
    BY <1>8 DEF OnAirOrCut
  <2>1. CASE Finished
    <3>1. done.waiting = sync.tags
      BY <1>d, <2>1 DEF Finished
    <3>2. IF Cuts = {} THEN EndOf(layer.waiting, sync.tags)
          ELSE \A x \in Cuts : EndBehind(x, layer.waiting, sync.tags)
      BY <2>1 DEF QueueInv, Steps
    <3> QED
      BY <1>k, <1>u, <1>8, <3>1, <3>2 DEF QueueInv, OnAirOrCut
  <2>2. CASE sync.pc = "end"
    <3>1. ui'.waiting = ui.waiting
      BY <1>d, <1>u, <2>2
    <3> QED
      BY <1>k, <1>u, <1>8, <3>1 DEF QueueInv, OnAirOrCut
  <2> QED
    BY <1>1, <2>1, <2>2
<1>17. Current'
  <2> SUFFICES ASSUME Playing, ~ui'.dirty, Cuts = {}
               PROVE  /\ Len(ui'.waiting) = Len(layer.waiting)
                      /\ retry'.armed \/ (Wishes(layer.waiting) = Desired' /\ Blocker' = NoKey)
    BY <1>8, <1>k, <1>s DEF Current, Busy
  <2>1. ~over /\ ~ui.dirty
    BY <1>u
  <2>2. Finished
    BY <1>1, <2>1 DEF QueueInv, Current
  <2>3. sync.pc = "queue" /\ ~Stale /\ layer.fg.tag = ui.fg /\ Unmoved
    <3>1. sync.pc = "queue" /\ ~Stale /\ layer.fg.tag = ui.fg
      BY <2>1, <2>2 DEF QueueInv, Current, OnAirOrCut, Finished
    <3> QED
      BY <3>1 DEF Stale, Unmoved
  <2>4. Len(layer.waiting) = sync.at - 1 /\ Match(sync.at - 1)
    BY <2>3 DEF QueueInv, Steps
  <2>5. /\ Len(sync.tags) = Len(sync.desired) /\ sync.at <= Len(sync.tags) + 1
        /\ \A i \in DOMAIN sync.tags : sync.tags[i].base = sync.desired[i].base
    BY <2>3 DEF QueueInv, Planned
  <2>6. sync.at - 1 = Len(sync.tags)
    BY <1>y, <2>2, <2>5 DEF Finished
  <2>7. Len(ui'.waiting) = Len(layer.waiting)
    BY <1>d, <1>u, <2>3, <2>4, <2>6
  <2>8. CASE sync.blocked # NoKey
    BY <1>q, <1>v, <2>1, <2>3, <2>7, <2>8
  <2>9. CASE sync.blocked = NoKey
    <3>1. sync.desired = Desired /\ Blocker = NoKey
      BY <2>1, <2>3, <2>9 DEF QueueInv, Current, Busy
    <3>2. Desired' = Desired /\ Blocker' = Blocker
      BY <1>k, <1>n, <1>u, <2>1, WindowKept
    <3>3. Wishes(layer.waiting) = sync.desired
      <4>1. DOMAIN layer.waiting = 1..Len(sync.desired)
        BY <1>t, <2>4, <2>5, <2>6, LayerIs
      <4>2. ASSUME NEW i \in 1..Len(sync.desired)
            PROVE  [base |-> layer.waiting[i].tag.base, ver |-> layer.waiting[i].ver] = sync.desired[i]
        <5>1. layer.waiting[i].tag = sync.tags[i] /\ layer.waiting[i].ver = sync.desired[i].ver
              /\ sync.tags[i].base = sync.desired[i].base
          BY <1>y, <2>4, <2>5, <2>6 DEF Match
        <5>2. sync.desired[i] \in Wish
          BY <1>y
        <5> QED
          BY <5>1, <5>2 DEF Wish
      <4>3. Wishes(layer.waiting)
              = [i \in 1..Len(sync.desired) |-> [base |-> layer.waiting[i].tag.base, ver |-> layer.waiting[i].ver]]
        BY <4>1 DEF Wishes
      <4>4. sync.desired = [i \in 1..Len(sync.desired) |-> sync.desired[i]]
        BY <1>y
      <4> QED
        BY <4>2, <4>3, <4>4
    <3> QED
      BY <2>7, <3>1, <3>2, <3>3
  <2> QED
    BY <2>8, <2>9
<1> QED
  BY <1>6, <1>10, <1>11, <1>12, <1>13, <1>14, <1>15, <1>16, <1>17 DEF QueueInv

(* The reports handled *)

LEMMA OnAirKeeps ==
  ASSUME Open = {}, QueueInv, OnAir
  PROVE  QueueInv'
<1> DEFINE e == Head(events)
           x == e.tag
<1>1. /\ events # <<>> /\ Head(events).kind = "onair" /\ events' = Tail(events)
      /\ \/ x.base = Filler /\ OnFallback(e)
         \/ x.base # Filler /\ x = ui.pending /\ OnTake(e)
         \/ x.base # Filler /\ x # ui.pending /\ x \in Range(ui.waiting) /\ Natural(e)
         \/ x.base # Filler /\ x # ui.pending /\ x \notin Range(ui.waiting) /\ UNCHANGED <<ui, token>>
      /\ UNCHANGED <<layer, rundown, row, sync, retry, take, follow, used>>
  BY DEF OnAir
<1>k. layer' = layer /\ rundown' = rundown /\ row' = row /\ sync' = sync /\ retry' = retry
      /\ take' = take /\ follow' = follow /\ used' = used
  BY <1>1
<1>t. QueueType /\ Reports
  BY DEF QueueInv
<1>e. events' = <<>> /\ Onairs = {x} /\ Endings = {} /\ Onairs' = {} /\ Endings' = {} /\ Cuts' = {}
  <2>1. events' = <<>> /\ Onairs = {x} /\ Endings = {} /\ Onairs' = {} /\ Endings' = {}
    BY <1>1, <1>t, OnairHandled
  <2> QED
    BY <2>1 DEF Cuts
<1>x. x \in AnyTag /\ x.base # NoKey /\ x # NoTag
  <2>1. x.base # NoKey
    BY <1>e, <1>t DEF Reports
  <2>2. events \in Seq(Report)
    BY <1>t DEF QueueType
  <2>3. e \in Report
    BY <1>1, <2>2
  <2> QED
    BY <2>1, <2>3 DEF Report, NoTag, Tag
<1>y. token \in Nat /\ ui.waiting \in Seq(AnyTag) /\ Len(ui.waiting) \in Nat /\ DOMAIN ui.waiting = 1..Len(ui.waiting)
  <2>1. token \in Nat /\ ui.waiting \in Seq(AnyTag)
    BY <1>t DEF QueueType, UiType, TakeType
  <2> QED
    BY <2>1
<1>o. LayerType' /\ RowsType' /\ SyncType' /\ events' \in Seq(Report)
  BY <1>t, <1>k, <1>e DEF QueueType, LayerType, RowsType, SyncType
<1>r. Reports'
  <2>1. Len(events') <= 2 /\ Len(events') # 2
    BY <1>e
  <2> QED
    BY <1>e, <1>k, <1>t, <2>1 DEF Reports
<1>d. Distinct' /\ Wanted'
  BY <1>k DEF QueueInv, Distinct, Wanted
<1>p. Playing /\ x # ui.pending =>
        /\ Cuts = {x} /\ layer.fg.tag = x /\ x.base # Filler /\ ~layer.ended /\ ui.pending = NoTag
        /\ EndBehind(x, layer.waiting, ui.waiting) /\ ui.fg # x
        /\ (\A i \in DOMAIN layer.waiting : layer.waiting[i].tag # ui.fg) /\ x # follow
  <2> SUFFICES ASSUME Playing, x # ui.pending
               PROVE  /\ Cuts = {x} /\ layer.fg.tag = x /\ x.base # Filler /\ ~layer.ended /\ ui.pending = NoTag
                      /\ EndBehind(x, layer.waiting, ui.waiting) /\ ui.fg # x
                      /\ (\A i \in DOMAIN layer.waiting : layer.waiting[i].tag # ui.fg) /\ x # follow
    OBVIOUS
  <2>1. Cuts = {x}
    BY <1>e DEF Cuts
  <2>2. ui.pending = NoTag
    BY <1>e DEF QueueInv, OnAirOrCut
  <2> QED
    BY <2>1, <2>2 DEF QueueInv, OnAirOrCut
<1>q. Playing /\ x = ui.pending =>
        /\ Cuts = {} /\ ui.pending = ui.fg /\ ui.fg.base = ui.key /\ layer.fg.tag = ui.fg
        /\ EndOf(layer.waiting, ui.waiting)
  <2> SUFFICES ASSUME Playing, x = ui.pending
               PROVE  /\ Cuts = {} /\ ui.pending = ui.fg /\ ui.fg.base = ui.key /\ layer.fg.tag = ui.fg
                      /\ EndOf(layer.waiting, ui.waiting)
    OBVIOUS
  <2>1. Cuts = {}
    BY <1>e DEF Cuts
  <2> QED
    BY <1>x, <2>1 DEF QueueInv, OnAirOrCut
<1>h. Taking => x.base # Filler /\ x.base # take.row /\ ui.key = take.row
  BY <1>e DEF QueueInv, TakeHolds
<1>l. \A i \in DOMAIN layer.waiting : layer.waiting[i].auto \/ Taking
  BY DEF QueueInv, Items
<1> HIDE DEF e, x
\* A report that says nothing new to the frontend, or of what it does not hold on air.
<1>a. CASE /\ token' = token /\ ui'.key = ui.key /\ ui'.known = ui.known /\ ui'.dirty = ui.dirty /\ UiType'
           /\ ~Playing
           /\ ui'.fg = ui.fg \/ ~Taking
           /\ ui'.waiting = ui.waiting \/ ui'.waiting = <<>>
  <2>6. QueueType'
    BY <1>a, <1>k, <1>o, <1>t DEF QueueType, TakeType
  <2>8. Taking' = Taking /\ Playing' = Playing /\ Finished' = Finished
    BY <1>a, <1>k DEF Taking, Playing, Finished
  <2>9. Tokens' /\ Items' /\ Away' /\ Planned'
    BY <1>a, <1>k, <2>8 DEF QueueInv, Tokens, Items, Away, Planned
  <2>10. TakeHolds'
    BY <1>a, <1>e, <1>k, <1>x, <2>8 DEF QueueInv, TakeHolds
  <2>11. OnAirOrCut' /\ EndKnown' /\ Current'
    BY <1>a, <2>8 DEF OnAirOrCut, EndKnown, Current
  <2>12. Steps'
    <3>1. sync.pc # "clear" /\ ~Finished
      BY <1>a DEF QueueInv, Away
    <3>2. ASSUME sync.pc # "idle" PROVE ~Unmoved'
      BY <1>a, <1>k, <3>2 DEF QueueInv, Tokens, Unmoved, Stale
    <3> QED
      BY <1>k, <2>8, <3>1, <3>2 DEF Steps
  <2> QED
    BY <1>d, <1>r, <2>6, <2>9, <2>10, <2>11, <2>12 DEF QueueInv
<1>2. CASE x.base = Filler /\ OnFallback(e)
  <2>1. ~Taking
    BY <1>2, <1>h
  <2>2. ~Playing
    <3> SUFFICES ASSUME Playing PROVE FALSE
      OBVIOUS
    <3>1. ui.fg.base = Filler /\ ui.fg.base = ui.key
      BY <1>2, <1>p, <1>q
    <3>2. ui.key \in RowSet \cup {NoKey}
      BY <1>t DEF QueueType, UiType
    <3> QED
      BY <3>1, <3>2, Names
  <2>3. ui.key = NoKey
    BY <2>1, <2>2 DEF Playing
  <2>4. ui' = [ui EXCEPT !.fg = x, !.waiting = <<>>] /\ token' = token
    BY <1>2, <2>3 DEF OnFallback, x
  <2>5. /\ ui'.key = ui.key /\ ui'.known = ui.known /\ ui'.dirty = ui.dirty /\ UiType' /\ ui'.waiting = <<>>
    <3>1. <<>> \in Seq(AnyTag)
      OBVIOUS
    <3> QED
      BY <1>t, <1>x, <2>4, <3>1 DEF QueueType, UiType
  <2> QED
    BY <1>a, <2>1, <2>2, <2>4, <2>5
<1>3. CASE x.base # Filler /\ x # ui.pending /\ x \notin Range(ui.waiting) /\ UNCHANGED <<ui, token>>
  <2>1. ~Playing
    <3> SUFFICES ASSUME Playing PROVE FALSE
      OBVIOUS
    <3>1. EndBehind(x, layer.waiting, ui.waiting) /\ Len(layer.waiting) \in Nat
      BY <1>3, <1>p, <1>t, LayerIs
    <3>2. /\ Len(ui.waiting) - Len(layer.waiting) \in DOMAIN ui.waiting
          /\ ui.waiting[Len(ui.waiting) - Len(layer.waiting)] = x
      <4>1. \A c, m \in Nat : m < c => c - m \in 1..c
        OBVIOUS
      <4> QED
        BY <1>y, <3>1, <4>1 DEF EndBehind
    <3> QED
      BY <1>3, <3>2 DEF Range
  <2>2. UiType'
    BY <1>3, <1>t DEF QueueType, UiType
  <2> QED
    BY <1>3, <1>a, <2>1, <2>2
<1>4. CASE x.base # Filler /\ x = ui.pending /\ OnTake(e)
  <2>0. token' = token
    BY <1>4 DEF OnTake
  <2>a. CASE ui.key # x.base
    <3>1. ui' = [ui EXCEPT !.pending = NoTag]
      BY <1>4, <2>a DEF OnTake, x
    <3>2. /\ ui'.key = ui.key /\ ui'.known = ui.known /\ ui'.dirty = ui.dirty /\ UiType' /\ ui'.waiting = ui.waiting
          /\ ui'.fg = ui.fg
      <4>1. NoTag \in AnyTag
        BY DEF NoTag, Tag, AnyTag
      <4> QED
        BY <1>t, <3>1, <4>1 DEF QueueType, UiType
    <3>3. ~Playing
      BY <1>4, <1>q, <2>a
    <3> QED
      BY <1>a, <2>0, <3>2, <3>3
  <2>b. CASE ui.key = x.base
    <3> DEFINE u == [ui EXCEPT !.pending = NoTag, !.fg = x, !.dirty = TRUE]
               kept == {k \in u.known : k.tag \in Range(u.waiting) \cup {u.fg, u.pending}}
    <3>1. Playing /\ ~Taking
      BY <1>h, <1>x, <2>b DEF Playing
    <3>2. x = ui.fg /\ Cuts = {} /\ ui.fg.base = ui.key /\ layer.fg.tag = ui.fg /\ EndOf(layer.waiting, ui.waiting)
      BY <1>4, <1>q, <3>1
    <3>3. ui' = [u EXCEPT !.known = kept]
      BY <1>4, <2>b DEF OnTake, Pruned, x
    <3>4. /\ u.key = ui.key /\ u.fg = ui.fg /\ u.waiting = ui.waiting /\ u.known = ui.known /\ u.pending = NoTag
          /\ u.dirty = TRUE
          /\ u \in [key : RowSet \cup {NoKey}, fg : AnyTag, waiting : Seq(AnyTag), pending : AnyTag,
                    known : SUBSET [tag : AnyTag, ver : Nat], dirty : BOOLEAN]
      <4>1. NoTag \in AnyTag
        BY DEF NoTag, Tag, AnyTag
      <4> QED
        BY <1>t, <3>2, <4>1 DEF QueueType, UiType
    <3>5. kept \subseteq ui.known /\ kept \in SUBSET [tag : AnyTag, ver : Nat]
      BY <3>4
    <3> HIDE DEF u, kept
    <3>6. /\ ui'.key = ui.key /\ ui'.fg = ui.fg /\ ui'.waiting = ui.waiting /\ ui'.pending = NoTag /\ ui'.dirty
          /\ ui'.known \subseteq ui.known /\ UiType'
      BY <3>3, <3>4, <3>5 DEF UiType
    <3>7. QueueType'
      BY <1>k, <1>o, <1>t, <2>0, <3>6 DEF QueueType, TakeType
    <3>8. Taking' = Taking /\ Playing' = Playing /\ Finished' = Finished /\ Stale' = Stale /\ Unmoved' = Unmoved
      BY <1>k, <2>0, <3>6, SMTT(60) DEF Taking, Playing, Finished, Stale, Unmoved
    <3>9. Tokens' /\ Items' /\ Planned' /\ Steps'
      BY <1>e, <1>k, <2>0, <3>2, <3>6, <3>8 DEF QueueInv, Tokens, Items, Planned, Steps, Match
    <3>10. Away' /\ TakeHolds'
      BY <3>1, <3>8 DEF Away, TakeHolds
    <3>11. OnAirOrCut'
      BY <1>e, <1>k, <3>2, <3>6 DEF OnAirOrCut
    <3>12. EndKnown'
      BY <1>e, <1>k, <3>1, <3>2, <3>6 DEF QueueInv, EndKnown
    <3>13. Current'
      BY <3>6 DEF Current
    <3> QED
      BY <1>d, <1>r, <3>7, <3>9, <3>10, <3>11, <3>12, <3>13 DEF QueueInv
  <2> QED
    BY <2>a, <2>b
<1>5. CASE x.base # Filler /\ x # ui.pending /\ x \in Range(ui.waiting) /\ Natural(e)
  <2> DEFINE at == CHOOSE i \in DOMAIN ui.waiting : ui.waiting[i] = x
             rest == FromHereOn(ui.waiting, at + 1)
             u == [ui EXCEPT !.waiting = rest, !.fg = x, !.key = x.base, !.dirty = TRUE]
             kept == {k \in u.known : k.tag \in Range(u.waiting) \cup {u.fg, u.pending}}
             p == Len(ui.waiting) - Len(layer.waiting)
             l == Len(layer.waiting)
  <2>0. token' = token + 1 /\ ui' = [u EXCEPT !.known = kept]
    BY <1>5 DEF Natural, Pruned, x
  <2>1. Playing /\ ~Taking
    <3>1. ui.waiting # <<>>
      BY <1>5 DEF Range
    <3> QED
      BY <3>1 DEF QueueInv, Away, Playing
  <2>2. /\ Cuts = {x} /\ layer.fg.tag = x /\ ~layer.ended /\ ui.pending = NoTag
        /\ EndBehind(x, layer.waiting, ui.waiting) /\ ui.fg # x
        /\ (\A i \in DOMAIN layer.waiting : layer.waiting[i].tag # ui.fg) /\ x # follow
    BY <1>5, <1>p, <2>1
  <2>3. at \in DOMAIN ui.waiting /\ ui.waiting[at] = x
    <3>1. \E i \in DOMAIN ui.waiting : ui.waiting[i] = x
      BY <1>5 DEF Range
    <3> QED
      BY <3>1
  <2>4. l \in Nat /\ DOMAIN layer.waiting = 1..l
    BY <1>t, LayerIs
  <2> HIDE DEF at
  <2>5. /\ l < Len(ui.waiting) /\ ui.waiting[p] = x
        /\ \A i \in 1..l : layer.waiting[i].tag = ui.waiting[p + i]
    BY <2>2 DEF EndOf, EndBehind
  \* The item on air does not wait as well: nothing behind it is taken for it.
  <2>6. at <= p /\ at \in 1..Len(ui.waiting) /\ p \in 1..Len(ui.waiting)
    <3>1. at \in 1..Len(ui.waiting) /\ p \in 1..Len(ui.waiting)
      <4>1. \A c, m \in Nat : m < c => c - m \in 1..c
        OBVIOUS
      <4> QED
        BY <1>y, <2>3, <2>4, <2>5, <4>1
    <3>2. ASSUME at > p PROVE FALSE
      <4>1. at - p \in 1..l /\ p + (at - p) = at
        <5>1. \A c, m \in Nat : \A a \in 1..c : a > c - m => a - (c - m) \in 1..m /\ (c - m) + (a - (c - m)) = a
          OBVIOUS
        <5> QED
          BY <1>y, <2>4, <3>1, <3>2, <5>1
      <4>2. layer.waiting[at - p].tag = x
        BY <2>3, <2>5, <4>1
      <4> QED
        BY <2>2, <2>4, <4>1, <4>2 DEF QueueInv, Distinct
    <3>3. \A a, b \in Int : ~(a > b) => a <= b
      OBVIOUS
    <3>4. at \in Int /\ p \in Int
      BY <3>1
    <3> HIDE DEF p
    <3> QED
      BY <3>1, <3>2, <3>3, <3>4
  <2>7. /\ rest \in Seq(AnyTag) /\ Len(rest) = Len(ui.waiting) - at
        /\ \A i \in 1..(Len(ui.waiting) - at) : rest[i] = ui.waiting[at + i]
    <3>1. at \in Nat /\ at <= Len(ui.waiting)
      BY <1>y, <2>6
    <3> QED
      BY <1>y, <3>1 DEF FromHereOn
  <2>8. EndOf(layer.waiting, rest)
    <3>0. \A c, m \in Nat : \A a \in 1..c : a <= c - m =>
            /\ m <= c - a
            /\ \A i \in 1..m : (c - a) - m + i \in 1..(c - a) /\ a + ((c - a) - m + i) = (c - m) + i
      OBVIOUS
    <3>3. /\ l <= Len(ui.waiting) - at
          /\ \A i \in 1..l : /\ (Len(ui.waiting) - at) - l + i \in 1..(Len(ui.waiting) - at)
                            /\ at + ((Len(ui.waiting) - at) - l + i) = p + i
      BY <1>y, <2>4, <2>6, <3>0
    <3>1. l <= Len(rest)
      BY <2>7, <3>3
    <3>2. ASSUME NEW i \in 1..l PROVE layer.waiting[i].tag = rest[Len(rest) - l + i]
      <4>1. Len(rest) - l + i \in 1..(Len(ui.waiting) - at) /\ at + (Len(rest) - l + i) = p + i
        BY <2>7, <3>3
      <4> QED
        BY <2>5, <2>7, <4>1
    <3> QED
      BY <3>1, <3>2 DEF EndOf
  <2>9. x.base \in RowSet
    BY <1>5, <1>x DEF AnyTag
  <2> HIDE DEF rest
  <2>10. /\ u.key = x.base /\ u.fg = x /\ u.waiting = rest /\ u.known = ui.known /\ u.pending = NoTag
         /\ u.dirty = TRUE
         /\ u \in [key : RowSet \cup {NoKey}, fg : AnyTag, waiting : Seq(AnyTag), pending : AnyTag,
                   known : SUBSET [tag : AnyTag, ver : Nat], dirty : BOOLEAN]
    BY <1>t, <1>x, <2>2, <2>7, <2>9 DEF QueueType, UiType
  <2>11. kept \subseteq ui.known /\ kept \in SUBSET [tag : AnyTag, ver : Nat]
    BY <2>10
  <2> HIDE DEF u, kept
  <2>12. /\ ui'.key = x.base /\ ui'.fg = x /\ ui'.waiting = rest /\ ui'.pending = NoTag /\ ui'.dirty
         /\ ui'.known \subseteq ui.known /\ UiType'
    BY <2>0, <2>10, <2>11 DEF UiType
  <2>13. QueueType'
    BY <1>k, <1>o, <1>t, <1>y, <2>0, <2>12 DEF QueueType, TakeType
  <2>14. take.token <= token /\ sync.token <= token /\ take.token \in Nat /\ sync.token \in Nat
    BY <1>t DEF QueueInv, Tokens, QueueType, SyncType, TakeType
  <2>15. ~Taking' /\ Playing' /\ Stale' /\ Finished' = Finished /\ ~Unmoved'
    <3>1. take.token # token + 1 /\ sync.token # token + 1
      BY <1>y, <2>14
    <3> QED
      BY <1>k, <1>x, <2>0, <2>12, <3>1 DEF Taking, Playing, Stale, Finished, Unmoved
  <2>16. Tokens'
    <3>1. take.token <= token + 1 /\ sync.token <= token + 1
      BY <1>y, <2>14
    <3> QED
      BY <1>k, <2>0, <2>15, <3>1 DEF Tokens
  <2>17. Items' /\ Planned'
    <3>1. \A n \in Nat : n <= 10 + token => n <= 10 + (token + 1)
      BY <1>y
    <3>2. \A i \in DOMAIN layer.waiting : layer.waiting[i].tag.n \in Nat
      BY <1>t, LayerIs
    <3>3. layer.fg.tag.n \in Nat
      BY <1>t, LayerIs
    <3>4. \A i \in DOMAIN sync.tags : sync.tags[i].n \in Nat
      <4>1. sync.tags \in Seq(AnyTag)
        BY <1>t DEF QueueType, SyncType
      <4>2. \A i \in DOMAIN sync.tags : sync.tags[i] \in AnyTag
        BY <4>1
      <4> QED
        BY <4>2 DEF AnyTag
    <3>5. Items'
      BY <1>k, <1>l, <2>0, <2>1, <2>12, <3>1, <3>2, <3>3 DEF QueueInv, Items
    <3>6. Planned'
      BY <1>k, <2>0, <3>1, <3>4 DEF QueueInv, Planned
    <3> QED
      BY <3>5, <3>6
  <2>18. Away' /\ TakeHolds'
    BY <2>15 DEF Away, TakeHolds
  <2>19. OnAirOrCut'
    BY <1>e, <1>k, <2>2, <2>8, <2>12 DEF OnAirOrCut
  <2>20. EndKnown'
    BY <1>e, <1>k, <2>2, <2>12 DEF EndKnown
  <2>21. Steps'
    <3>1. ASSUME sync.pc = "clear"
          PROVE  layer.fg.tag # sync.onAir /\ \A i \in DOMAIN layer.waiting : layer.waiting[i].tag # sync.onAir
      <4>1. CASE Stale
        BY <3>1, <4>1 DEF QueueInv, Steps
      <4>2. CASE ~Stale
        BY <2>2, <4>2 DEF Stale
      <4> QED
        BY <4>1, <4>2
    <3>2. Finished => EndOf(layer.waiting, sync.tags)
      BY <2>2 DEF QueueInv, Steps, EndBehind
    <3> QED
      BY <1>e, <1>k, <2>15, <3>1, <3>2 DEF Steps
  <2>22. Current'
    BY <2>12 DEF Current
  <2> QED
    BY <1>d, <1>r, <2>13, <2>16, <2>17, <2>18, <2>19, <2>20, <2>21, <2>22 DEF QueueInv
<1> QED
  BY <1>1, <1>2, <1>3, <1>4, <1>5 DEF e, x

LEMMA EndedKeeps ==
  ASSUME Open = {}, QueueInv, Ended
  PROVE  QueueInv'
<1> DEFINE x == Head(events).tag
<1>1. /\ events # <<>> /\ Head(events).kind = "ended" /\ events' = Tail(events)
      /\ follow' = IF x = ui.fg THEN ui.fg ELSE follow
      /\ UNCHANGED <<layer, rundown, row, ui, token, sync, retry, take, used>>
  BY DEF Ended
<1>k. layer' = layer /\ rundown' = rundown /\ row' = row /\ ui' = ui /\ token' = token /\ sync' = sync
      /\ retry' = retry /\ take' = take /\ used' = used
  BY <1>1
<1>t. QueueType /\ Reports
  BY DEF QueueInv
<1>e. /\ Endings = {x} /\ Endings' = {} /\ Onairs' = Onairs /\ Len(events') \in {0, 1}
      /\ events' \in Seq(Report) /\ x \in AnyTag
  BY <1>1, <1>t, EndedHandled
<1> HIDE DEF x
<1>f. follow = NoTag /\ x.base \in RowSet /\ x # NoTag
  <2>1. follow = NoTag /\ x.base \in RowSet
    BY <1>e, <1>t DEF Reports
  <2> QED
    BY <2>1, Names DEF NoTag, Tag
<1>g. follow' = (IF x = ui.fg THEN x ELSE NoTag) /\ follow' \in AnyTag
  BY <1>1, <1>e, <1>f, <1>t DEF QueueType, TakeType
<1>6. QueueType'
  <2>1. LayerType' /\ RowsType' /\ UiType' /\ SyncType'
    BY <1>t, <1>k, SMTT(60) DEF QueueType, LayerType, RowsType, UiType, SyncType
  <2>2. TakeType'
    BY <1>t, <1>k, <1>g DEF QueueType, TakeType
  <2> QED
    BY <1>e, <2>1, <2>2 DEF QueueType
<1>7. Reports'
  <2>1. Len(events') <= 2 /\ Len(events') # 2
    <3>1. \A l \in {0, 1} : l <= 2 /\ l # 2
      OBVIOUS
    <3> QED
      BY <1>e, <3>1
  <2>2. follow' = NoTag \/ follow'.base \in RowSet
    BY <1>f, <1>g
  <2> QED
    BY <1>e, <1>t, <2>1, <2>2 DEF Reports
<1>8. /\ Taking' = Taking /\ Playing' = Playing /\ Cuts' = Cuts /\ Stale' = Stale /\ Unmoved' = Unmoved
      /\ Finished' = Finished /\ Busy' = Busy /\ Desired' = Desired /\ Blocker' = Blocker
  BY <1>k, <1>e, WindowKept DEF Taking, Playing, Cuts, Stale, Unmoved, Finished, Busy
<1>9. Tokens' /\ Items' /\ Distinct' /\ Away' /\ Wanted' /\ Planned'
  BY <1>k, <1>8 DEF QueueInv, Tokens, Items, Distinct, Away, Wanted, Planned
<1>10. Steps' /\ Current'
  BY <1>k, <1>8 DEF QueueInv, Steps, Match, Current
<1>11. TakeHolds'
  <2> SUFFICES ASSUME Taking PROVE TakeHolds'
    BY <1>8 DEF TakeHolds
  <2>1. follow'.base # take.row
    <3>1. x.base # take.row /\ take.row \in RowSet
      BY <1>e DEF QueueInv, TakeHolds
    <3> QED
      BY <1>g, <3>1, Names DEF NoTag, Tag
  <2>2. row[take.row].status = "ready"
    BY <1>1 DEF QueueInv, TakeHolds
  <2> QED
    BY <1>e, <1>k, <1>8, <2>1, <2>2 DEF QueueInv, TakeHolds
<1>12. OnAirOrCut'
  <2> SUFFICES ASSUME Playing PROVE OnAirOrCut'
    BY <1>8 DEF OnAirOrCut
  <2>1. \A y \in Cuts : y # follow' /\ y \notin Endings'
    <3>1. \A y \in Cuts : y # x /\ y # follow
      BY <1>e DEF QueueInv, OnAirOrCut
    <3> QED
      BY <1>e, <1>f, <1>g, <3>1
  <2> QED
    BY <1>e, <1>k, <1>8, <2>1 DEF QueueInv, OnAirOrCut
<1>13. EndKnown'
  <2> SUFFICES ASSUME Playing PROVE EndKnown'
    BY <1>8 DEF EndKnown
  <2>1. ui.fg # NoTag
    BY DEF QueueInv, OnAirOrCut, Playing, NoTag, Tag
  <2> QED
    BY <1>e, <1>f, <1>g, <1>k, <1>8, <2>1 DEF QueueInv, EndKnown
<1> QED
  BY <1>6, <1>7, <1>9, <1>10, <1>11, <1>12, <1>13 DEF QueueInv

\* From an item that has ended with nothing behind it, the next row is taken, or all is released.
LEMMA NextTakenKeeps ==
  ASSUME QueueInv, NextTaken, token' = token + 1, follow' = NoTag, events = <<>>,
         ui.key \in RowSet, ui.waiting = <<>>,
         layer.waiting = <<>>, layer.ended, layer.fg.tag = ui.fg, sync.pc # "clear", ~Finished,
         RowsType', SyncType', layer' = layer, events' = events, sync' = sync, used' = used
  PROVE  QueueInv'
<1>t. QueueType /\ Reports
  BY DEF QueueInv
<1>y. /\ token \in Nat /\ sync.token \in Nat /\ sync.token <= token /\ layer.fg.tag.n \in Nat
      /\ layer.fg.tag.n <= 10 + token
  <2>1. token \in Nat /\ sync.token \in Nat /\ sync.token <= token
    BY <1>t DEF QueueInv, Tokens, QueueType, SyncType, TakeType
  <2>2. layer.fg.tag.n \in Nat /\ layer.fg.tag.n <= 10 + token
    BY <1>t, LayerIs DEF QueueInv, Items
  <2> QED
    BY <2>1, <2>2
<1>z. sync.token < token + 1 /\ layer.fg.tag.n < 10 + (token + 1) /\ layer.fg.tag.n <= 10 + (token + 1)
  BY <1>y
<1>e. Onairs' = {} /\ Endings' = {}
  <2>1. Onairs = {} /\ Endings = {}
    BY NoReports
  <2>2. Onairs' = Onairs /\ Endings' = Endings
    BY DEF Onairs, Endings, ReportsOf
  <2> QED
    BY <2>1, <2>2
<1>n. NoTake \in [pc : {"none", "prepare", "loaded"}, row : RowSet \cup {NoKey}, token : Nat, tag : AnyTag]
      /\ NoTag \in AnyTag /\ NoTag.base = NoKey
  BY DEF NoTake, NoTag, Tag, AnyTag
<1>m. NoTake.pc = "none" /\ NoTake.token = 0
  BY DEF NoTake
\* What the two outcomes have in common.
<1>a. ASSUME UiType', ui'.waiting = <<>>, TakeType', take'.token <= token + 1, ~Playing', TakeHolds'
      PROVE  QueueInv'
  <2>1. QueueType'
    <3>1. LayerType' /\ events' \in Seq(Report)
      BY <1>t DEF QueueType, LayerType
    <3> QED
      BY <1>a, <3>1 DEF QueueType
  <2>2. Reports'
    <3>1. Len(events') <= 2 /\ Len(events') # 2
      <4>1. Len(events') = 0
        OBVIOUS
      <4> QED
        BY <4>1
    <3> QED
      BY <1>e, <3>1 DEF Reports
  <2>3. Tokens'
    <3>1. sync.token <= token + 1 /\ sync.token # token + 1
      BY <1>y
    <3> QED
      BY <1>a, <3>1 DEF Tokens
  <2>4. Items' /\ Distinct'
    <3>1. DOMAIN layer.waiting = {}
      OBVIOUS
    <3> QED
      BY <1>z, <3>1 DEF QueueInv, Items, Distinct
  <2>5. Away'
    BY <1>a DEF Away, Finished
  <2>6. Wanted'
    BY DEF QueueInv, Wanted
  <2>7. Planned'
    <3>1. sync.tags \in Seq(AnyTag)
      BY <1>t DEF QueueType, SyncType
    <3>2. \A i \in DOMAIN sync.tags : sync.tags[i].n \in Nat
      <4>1. \A i \in DOMAIN sync.tags : sync.tags[i] \in AnyTag
        BY <3>1
      <4> QED
        BY <4>1 DEF AnyTag
    <3>3. \A n \in Nat : n <= 10 + token => n <= 10 + (token + 1)
      BY <1>y
    <3> QED
      BY <3>2, <3>3 DEF QueueInv, Planned
  <2>8. Steps'
    <3>1. Stale' /\ ~Unmoved'
      <4>1. sync.token # token + 1
        BY <1>y
      <4> QED
        BY <4>1 DEF Stale, Unmoved
    <3> QED
      BY <3>1 DEF Steps, Finished
  <2>9. OnAirOrCut' /\ EndKnown' /\ Current'
    BY <1>a DEF OnAirOrCut, EndKnown, Current
  <2> QED
    BY <1>a, <2>1, <2>2, <2>3, <2>4, <2>5, <2>6, <2>7, <2>8, <2>9 DEF QueueInv
<1>o. take.token \in Nat /\ used \in [edits : Nat, takes : Nat, faults : Nat]
  BY <1>t DEF QueueType, TakeType
<1>1. CASE IsLast(ui.key)
  <2>1. take' = NoTake /\ ui' = Released(NoTag)
    BY <1>1 DEF NextTaken
  <2>2. ui'.key = NoKey /\ ui'.waiting = <<>> /\ UiType'
    <3>1. <<>> \in Seq(AnyTag)
      OBVIOUS
    <3>2. ui.dirty \in BOOLEAN
      BY <1>t DEF QueueType, UiType
    <3>3. ui' \in [key : RowSet \cup {NoKey}, fg : AnyTag, waiting : Seq(AnyTag), pending : AnyTag,
                   known : SUBSET [tag : AnyTag, ver : Nat], dirty : BOOLEAN]
      BY <1>n, <2>1, <3>1, <3>2 DEF Released
    <3>4. ui'.key = NoKey /\ ui'.waiting = <<>>
      BY <2>1 DEF Released
    <3> QED
      BY <3>3, <3>4 DEF UiType
  <2>3. TakeType' /\ take'.token <= token + 1
    BY <1>n, <1>m, <1>o, <1>y, <2>1 DEF TakeType
  <2>4. ~Playing' /\ TakeHolds'
    BY <1>m, <2>1, <2>2 DEF Playing, Taking, TakeHolds
  <2> QED
    BY <1>a, <2>2, <2>3, <2>4
<1>2. CASE ~IsLast(ui.key)
  <2> DEFINE r == Head(NextRows(ui.key))
  <2>1. /\ take' = [NoTake EXCEPT !.pc = "prepare", !.row = r, !.token = token']
        /\ ui' = [ui EXCEPT !.key = r]
    BY <1>2 DEF NextTaken
  <2>2. r \in RowSet
    <3>1. Behind(ui.key) # {}
      BY <1>2 DEF IsLast
    <3> QED
      BY <1>t, <3>1, NextRowsAre, BehindIs
  <2> HIDE DEF r
  <2>3. /\ take'.pc = "prepare" /\ take'.row = r /\ take'.token = token + 1
        /\ take' \in [pc : {"none", "prepare", "loaded"}, row : RowSet \cup {NoKey}, token : Nat, tag : AnyTag]
    <3>1. take' = [pc |-> "prepare", row |-> r, token |-> token', tag |-> NoTag]
      BY <2>1 DEF NoTake
    <3>2. token' = token + 1 /\ token + 1 \in Nat
      BY <1>y
    <3> QED
      BY <1>n, <2>2, <3>1, <3>2
  <2>4. ui'.key = r /\ ui'.fg = ui.fg /\ ui'.waiting = <<>> /\ UiType'
    BY <1>t, <2>1, <2>2 DEF QueueType, UiType
  <2>5. TakeType' /\ take'.token <= token + 1
    BY <1>n, <1>o, <1>y, <2>3 DEF TakeType
  <2>6. Taking' /\ ~Playing'
    BY <2>3 DEF Playing, Taking
  <2>7. TakeHolds'
    <3>1. DOMAIN layer.waiting = {}
      OBVIOUS
    <3> QED
      BY <1>e, <1>n, <1>z, <2>2, <2>3, <2>4, <3>1, Names DEF TakeHolds
  <2> QED
    BY <1>a, <2>4, <2>5, <2>6, <2>7
<1> QED
  BY <1>1, <1>2

LEMMA FollowKeeps ==
  ASSUME Open = {}, QueueInv, Follow
  PROVE  QueueInv'
<1> DEFINE gone == follow # ui.fg \/ follow.base # ui.key \/ ui.waiting # <<>>
<1>1. /\ sync.pc = "idle" /\ ~ui.dirty /\ follow # NoTag /\ follow' = NoTag
      /\ IF gone THEN UNCHANGED <<ui, token, take>> ELSE token' = token + 1 /\ NextTaken
      /\ UNCHANGED <<layer, events, rundown, row, sync, retry, used>>
  BY DEF Follow, Following
<1>t. QueueType /\ Reports
  BY DEF QueueInv
<1>e. Endings = {} /\ follow.base \in RowSet
  BY <1>1, <1>t DEF Reports
<1>k. layer' = layer /\ events' = events /\ rundown' = rundown /\ row' = row /\ sync' = sync /\ retry' = retry
      /\ used' = used /\ RowsType' /\ SyncType'
  BY <1>1, <1>t DEF QueueType, RowsType, SyncType
<1>p. Playing => ui.fg # NoTag /\ ui.fg.base = ui.key
  BY DEF QueueInv, OnAirOrCut, Playing, NoTag, Tag
<1>2. CASE gone
  <2>k. ui' = ui /\ token' = token /\ take' = take
    BY <1>1, <1>2
  <2>6. QueueType'
    <3>1. NoTag \in AnyTag
      BY DEF NoTag, Tag, AnyTag
    <3> QED
      BY <1>1, <1>k, <1>t, <2>k, <3>1 DEF QueueType, LayerType, UiType, TakeType
  <2>8. /\ Taking' = Taking /\ Playing' = Playing /\ Onairs' = Onairs /\ Endings' = {} /\ Cuts' = Cuts
        /\ Stale' = Stale /\ Unmoved' = Unmoved /\ Finished' = Finished /\ Busy' = Busy
        /\ Desired' = Desired /\ Blocker' = Blocker
    BY <1>e, <1>k, <2>k, WindowKept
       DEF Taking, Playing, Cuts, Onairs, Endings, ReportsOf, Stale, Unmoved, Finished, Busy
  <2>7. Reports' /\ Tokens' /\ Items' /\ Distinct' /\ Away' /\ Wanted' /\ Planned'
    BY <1>1, <1>e, <1>k, <2>k, <2>8 DEF QueueInv, Reports, Tokens, Items, Distinct, Away, Wanted, Planned
  <2>9. Steps' /\ Current'
    BY <1>k, <2>k, <2>8 DEF QueueInv, Steps, Match, Current
  <2>10. TakeHolds'
    BY <1>1, <1>e, <1>k, <2>k, <2>8, Names DEF QueueInv, TakeHolds, NoTag, Tag
  <2>11. OnAirOrCut'
    <3>1. Playing => \A x \in Cuts : x # NoTag
      BY <1>t DEF Cuts, Reports, NoTag, Tag
    <3> QED
      BY <1>1, <1>e, <1>k, <2>k, <2>8, <3>1 DEF QueueInv, OnAirOrCut
  \* Something waits behind the item the report names: that item has not ended for good.
  <2>12. Playing => ~layer.ended
    <3> SUFFICES ASSUME Playing, layer.ended PROVE FALSE
      OBVIOUS
    <3>1. Cuts = {}
      BY DEF QueueInv, OnAirOrCut
    <3>2. follow = ui.fg
      BY <1>1 DEF QueueInv, EndKnown
    <3>3. ui.waiting # <<>>
      BY <1>2, <1>p, <3>2
    <3>4. Len(ui.waiting) = Len(layer.waiting)
      BY <1>1, <3>1 DEF QueueInv, Current
    <3>5. layer.waiting # <<>>
      <4>1. ui.waiting \in Seq(AnyTag)
        BY <1>t DEF QueueType, UiType
      <4>2. Len(ui.waiting) # 0
        BY <3>3, <4>1
      <4> QED
        BY <3>4, <4>2
    <3>6. 1 \in DOMAIN layer.waiting
      <4>1. layer.waiting \in Seq(AnyItem)
        BY <1>t, LayerIs
      <4> QED
        BY <3>5, <4>1
    <3> QED
      BY <3>6 DEF QueueInv, Items, Playing
  <2>13. EndKnown'
    BY <1>1, <1>k, <1>p, <2>k, <2>8, <2>12 DEF EndKnown
  <2> QED
    BY <2>6, <2>7, <2>9, <2>10, <2>11, <2>13 DEF QueueInv
<1>3. CASE ~gone
  <2>1. token' = token + 1 /\ NextTaken /\ follow = ui.fg /\ follow.base = ui.key /\ ui.waiting = <<>>
    BY <1>1, <1>3
  <2>2. Playing
    <3>1. ~Taking
      BY <2>1 DEF QueueInv, TakeHolds
    <3>2. ui.key # NoKey
      BY <1>e, <2>1, Names
    <3> QED
      BY <3>1, <3>2 DEF Playing
  <2>0. Len(ui.waiting) = 0
    BY <2>1
  <2>3. Cuts = {} /\ layer.fg.tag = ui.fg /\ EndOf(layer.waiting, ui.waiting)
    <3>1. ASSUME NEW x \in Cuts PROVE FALSE
      <4>1. EndBehind(x, layer.waiting, ui.waiting) /\ Len(layer.waiting) \in Nat
        BY <1>t, <2>2, LayerIs DEF QueueInv, OnAirOrCut
      <4> QED
        BY <2>0, <4>1 DEF EndBehind
    <3>2. Cuts = {}
      BY <3>1
    <3> QED
      BY <2>2, <3>2 DEF QueueInv, OnAirOrCut
  <2>4. layer.waiting = <<>>
    <3>1. Len(layer.waiting) = 0
      BY <1>t, <2>0, <2>3, LayerIs DEF EndOf
    <3>2. layer.waiting \in Seq(AnyItem)
      BY <1>t, LayerIs
    <3> QED
      BY <3>1, <3>2
  <2>5. layer.ended
    BY <2>1, <2>2, <2>3 DEF QueueInv, EndKnown
  <2>6. ui.pending = NoTag
    BY <2>2, <2>5 DEF QueueInv, OnAirOrCut
  <2>7. events = <<>>
    <3>1. Onairs = {}
      BY <1>t, <2>3, <2>6 DEF Cuts, Reports, NoTag, Tag
    <3> QED
      BY <1>e, <1>t, <3>1, AllHandled
  <2>8. ~Finished /\ sync.pc # "clear"
    BY <1>1 DEF Finished
  <2>9. ui.key \in RowSet
    BY <1>e, <2>1
  <2> QED
    BY <1>1, <1>k, <2>1, <2>3, <2>4, <2>5, <2>7, <2>8, <2>9, NextTakenKeeps
<1> QED
  BY <1>2, <1>3

\* What an edit of the rundown leaves alone.
LEMMA EditKeeps ==
  ASSUME QueueInv, RowsType', ui'.dirty \in BOOLEAN, ui' = [ui EXCEPT !.dirty = ui'.dirty],
         used' \in [edits : Nat, takes : Nat, faults : Nat], Current',
         \A x \in RowSet : row[x].status = "ready" => row'[x].status = "ready",
         layer' = layer, events' = events, token' = token, sync' = sync, retry' = retry,
         take' = take, follow' = follow
  PROVE  QueueInv'
<1>t. QueueType
  BY DEF QueueInv
<1>u. /\ ui'.key = ui.key /\ ui'.fg = ui.fg /\ ui'.waiting = ui.waiting /\ ui'.pending = ui.pending
      /\ ui'.known = ui.known /\ UiType'
  BY <1>t DEF QueueType, UiType
<1>1. QueueType'
  BY <1>t, <1>u DEF QueueType, LayerType, SyncType, TakeType
<1>2. /\ Taking' = Taking /\ Playing' = Playing /\ Onairs' = Onairs /\ Endings' = Endings /\ Cuts' = Cuts
      /\ Stale' = Stale /\ Unmoved' = Unmoved /\ Finished' = Finished
  BY <1>u DEF Taking, Playing, Cuts, Onairs, Endings, ReportsOf, Stale, Unmoved, Finished
<1>3. Reports' /\ Tokens' /\ Items' /\ Distinct' /\ Away' /\ Wanted' /\ Planned'
  BY <1>u, <1>2 DEF QueueInv, Reports, Tokens, Items, Distinct, Away, Wanted, Planned
<1>4. Steps'
  BY <1>2 DEF QueueInv, Steps, Match
<1>5. OnAirOrCut' /\ EndKnown'
  BY <1>u, <1>2 DEF QueueInv, OnAirOrCut, EndKnown
<1>6. TakeHolds'
  BY <1>u, <1>2 DEF QueueInv, TakeHolds
<1> QED
  BY <1>1, <1>3, <1>4, <1>5, <1>6 DEF QueueInv

\* An edit asks for a sync.
LEMMA EditIs ==
  ASSUME QueueInv, Edit, sync' = sync
  PROVE  /\ ui'.dirty = TRUE /\ ui' = [ui EXCEPT !.dirty = ui'.dirty]
         /\ used' \in [edits : Nat, takes : Nat, faults : Nat] /\ Current'
<1>t. ui \in [key : RowSet \cup {NoKey}, fg : AnyTag, waiting : Seq(AnyTag), pending : AnyTag,
              known : SUBSET [tag : AnyTag, ver : Nat], dirty : BOOLEAN]
      /\ used \in [edits : Nat, takes : Nat, faults : Nat]
  BY DEF QueueInv, QueueType, UiType, TakeType
<1>1. ui'.dirty = TRUE /\ ui' = [ui EXCEPT !.dirty = ui'.dirty]
  BY <1>t DEF Edit
<1>2. used' \in [edits : Nat, takes : Nat, faults : Nat]
  BY <1>t DEF Edit
<1> QED
  BY <1>1, <1>2 DEF Current

LEMMA MovedKeeps ==
  ASSUME QueueInv, Moved
  PROVE  QueueInv'
<1>1. PICK i \in 1..(Len(rundown) - 1) :
        /\ Edit /\ rundown' = [rundown EXCEPT ![i] = rundown[i + 1], ![i + 1] = rundown[i]]
        /\ UNCHANGED <<layer, events, row, token, sync, retry, take, follow>>
  BY DEF Moved
<1>t. /\ rundown \in Seq(RowSet) /\ Range(rundown) = RowSet
      /\ row \in [RowSet -> [ver : Nat, status : {"ready", "blocked", "error"}]]
  BY DEF QueueInv, QueueType, RowsType
<1>2. RowsType'
  <2> DEFINE n == Len(rundown)
  <2>1. n \in Nat /\ i \in 1..n /\ i + 1 \in 1..n /\ DOMAIN rundown = 1..n /\ i # i + 1
    BY <1>1, <1>t
  <2>2. \A j \in 1..n : rundown[j] \in RowSet
    BY <1>t
  <2>3. rundown' \in Seq(RowSet) /\ DOMAIN rundown' = 1..n
    BY <1>1, <1>t, <2>1
  <2>4. \A j \in 1..n : rundown'[j] = IF j = i THEN rundown[i + 1] ELSE IF j = i + 1 THEN rundown[i] ELSE rundown[j]
    BY <1>1, <2>1
  <2> HIDE DEF n
  <2>5. Range(rundown') = Range(rundown)
    <3>1. ASSUME NEW j \in 1..n PROVE rundown'[j] \in Range(rundown)
      BY <2>1, <2>4 DEF Range
    <3>2. ASSUME NEW j \in 1..n PROVE rundown[j] \in Range(rundown')
      <4>1. CASE j = i
        <5>1. rundown'[i + 1] = rundown[i]
          BY <2>1, <2>4
        <5> QED
          BY <2>1, <2>3, <4>1, <5>1 DEF Range
      <4>2. CASE j = i + 1
        <5>1. rundown'[i] = rundown[i + 1]
          BY <2>1, <2>4
        <5> QED
          BY <2>1, <2>3, <4>2, <5>1 DEF Range
      <4>3. CASE j # i /\ j # i + 1
        <5>1. rundown'[j] = rundown[j]
          BY <2>4, <4>3
        <5> QED
          BY <2>3, <5>1 DEF Range
      <4> QED
        BY <4>1, <4>2, <4>3
    <3> QED
      BY <2>1, <2>3, <3>1, <3>2 DEF Range
  <2>6. Range(rundown)' = RowSet
    BY <1>t, <2>5 DEF Range
  <2> QED
    BY <1>1, <1>t, <2>3, <2>6 DEF RowsType
<1> QED
  BY <1>1, <1>2, EditIs, EditKeeps

LEMMA TrimmedKeeps ==
  ASSUME QueueInv, Trimmed
  PROVE  QueueInv'
<1>1. PICK r \in RowSet :
        /\ Edit /\ row' = [row EXCEPT ![r].ver = @ + 1]
        /\ UNCHANGED <<layer, events, rundown, token, sync, retry, take, follow>>
  BY DEF Trimmed
<1>t. /\ rundown \in Seq(RowSet) /\ Range(rundown) = RowSet
      /\ row \in [RowSet -> [ver : Nat, status : {"ready", "blocked", "error"}]]
  BY DEF QueueInv, QueueType, RowsType
<1>2. /\ row' \in [RowSet -> [ver : Nat, status : {"ready", "blocked", "error"}]]
      /\ \A x \in RowSet : row'[x].status = row[x].status
  <2>0. row[r] \in [ver : Nat, status : {"ready", "blocked", "error"}] /\ DOMAIN row = RowSet
    BY <1>t
  <2>1. row[r].ver + 1 \in Nat /\ row'[r] = [row[r] EXCEPT !.ver = row[r].ver + 1]
    <3>1. row[r].ver \in Nat
      BY <2>0
    <3>2. row'[r] = [row[r] EXCEPT !.ver = row[r].ver + 1]
      BY <1>1, <2>0
    <3> QED
      BY <3>1, <3>2
  <2>2. row'[r] \in [ver : Nat, status : {"ready", "blocked", "error"}] /\ row'[r].status = row[r].status
    BY <2>0, <2>1
  <2>3. row' = [row EXCEPT ![r] = row'[r]]
    BY <1>1, <1>t
  <2> QED
    BY <1>t, <2>2, <2>3
<1>3. RowsType'
  BY <1>1, <1>t, <1>2 DEF RowsType, Range
<1> QED
  BY <1>1, <1>2, <1>3, EditIs, EditKeeps

LEMMA ArrivesKeeps ==
  ASSUME QueueInv, Arrives
  PROVE  QueueInv'
<1>1. PICK r \in RowSet :
        /\ row[r].status = "blocked" /\ row' = [row EXCEPT ![r].status = "ready"]
        /\ UNCHANGED <<layer, events, rundown, ui, token, sync, retry, take, follow, used>>
  BY DEF Arrives
<1>t. QueueType
  BY DEF QueueInv
<1>r. /\ rundown \in Seq(RowSet) /\ Range(rundown) = RowSet
      /\ row \in [RowSet -> [ver : Nat, status : {"ready", "blocked", "error"}]]
  BY <1>t DEF QueueType, RowsType
<1>2. /\ row' \in [RowSet -> [ver : Nat, status : {"ready", "blocked", "error"}]]
      /\ \A x \in RowSet : row[x].status = "ready" => row'[x].status = "ready"
  BY <1>1, <1>r
<1>3. RowsType'
  BY <1>1, <1>r, <1>2 DEF RowsType, Range
<1>4. ui'.dirty \in BOOLEAN /\ ui' = [ui EXCEPT !.dirty = ui'.dirty]
      /\ used' \in [edits : Nat, takes : Nat, faults : Nat]
  BY <1>1, <1>t DEF QueueType, UiType, TakeType
<1>5. Blocker = NoKey => Desired' = Desired /\ Blocker' = NoKey
  BY <1>1, <1>t, ArrivalKeeps
<1>6. /\ Playing' = Playing /\ Stale' = Stale /\ Busy' = Busy /\ Cuts' = Cuts
  BY <1>1 DEF Taking, Playing, Cuts, Onairs, ReportsOf, Stale, Busy
<1>7. Current'
  BY <1>1, <1>5, <1>6 DEF QueueInv, Current
<1> QED
  BY <1>1, <1>2, <1>3, <1>4, <1>7, EditKeeps

LEMMA TakeDroppedKeeps ==
  ASSUME QueueInv, TakeDropped
  PROVE  QueueInv'
<1>1. /\ take.token # token /\ take' = NoTake
      /\ UNCHANGED <<layer, events, rundown, row, ui, token, sync, retry, follow, used>>
  BY DEF TakeDropped
<1>t. QueueType
  BY DEF QueueInv
<1>2. QueueType' /\ NoTake.token <= token
  <2>1. token \in Nat
    BY <1>t DEF QueueType, TakeType
  <2>2. NoTake \in [pc : {"none", "prepare", "loaded"}, row : RowSet \cup {NoKey}, token : Nat, tag : AnyTag]
    BY DEF NoTake, NoTag, Tag, AnyTag
  <2>3. NoTake.token = 0
    BY DEF NoTake
  <2>4. TakeType'
    BY <1>1, <1>t, <2>2 DEF QueueType, TakeType
  <2>5. QueueType'
    <3>1. layer' = layer /\ events' = events /\ rundown' = rundown /\ row' = row /\ ui' = ui
          /\ sync' = sync /\ retry' = retry
      BY <1>1
    <3>2. LayerType' /\ UiType' /\ SyncType'
      BY <1>t, <3>1 DEF QueueType, LayerType, UiType, SyncType
    <3>3. RowsType'
      BY <1>t, <3>1 DEF QueueType, RowsType, Range
    <3> QED
      BY <1>t, <2>4, <3>1, <3>2, <3>3 DEF QueueType
  <2> QED
    BY <2>1, <2>3, <2>5
<1>3. ~Taking /\ ~Taking'
  BY <1>1 DEF Taking, NoTake
<1>4. /\ Playing' = Playing /\ Onairs' = Onairs /\ Endings' = Endings /\ Cuts' = Cuts
      /\ Stale' = Stale /\ Unmoved' = Unmoved /\ Finished' = Finished /\ Busy' = Busy
      /\ Desired' = Desired /\ Blocker' = Blocker
  BY <1>1, <1>3, WindowKept, SMTT(60) DEF Playing, Cuts, Onairs, Endings, ReportsOf, Stale,
       Unmoved, Finished, Busy
<1>5. Reports' /\ Items' /\ Distinct' /\ Away' /\ Wanted' /\ Planned' /\ TakeHolds'
  BY <1>1, <1>3, <1>4 DEF QueueInv, Reports, Items, Distinct, Away, Wanted, Planned, TakeHolds
<1>6. Tokens'
  BY <1>1, <1>2, <1>4 DEF QueueInv, Tokens
<1>7. Steps' /\ Current'
  BY <1>1, <1>4 DEF QueueInv, Steps, Match, Current
<1>8. OnAirOrCut' /\ EndKnown'
  BY <1>1, <1>4 DEF QueueInv, OnAirOrCut, EndKnown
<1> QED
  BY <1>2, <1>5, <1>6, <1>7, <1>8 DEF QueueInv

\* A take that finds its row not ready takes the next one.
LEMMA TakeRefusedKeeps ==
  ASSUME QueueInv, TakeRefused
  PROVE  QueueInv'
<1>1. /\ Taking /\ row[take.row].status # "ready" /\ token' = token + 1 /\ NextTaken
      /\ row' = [row EXCEPT ![take.row].status = "error"]
      /\ UNCHANGED <<layer, events, rundown, sync, retry, follow, used>>
  BY DEF TakeRefused, Taking
<1>t. QueueType
  BY DEF QueueInv
<1>2. /\ ui.key \in RowSet /\ ui.key = take.row /\ events = <<>> /\ follow = NoTag
      /\ layer.waiting = <<>> /\ layer.ended /\ layer.fg.tag = ui.fg
  BY <1>1 DEF QueueInv, TakeHolds
<1>3. ui.waiting = <<>> /\ sync.pc # "clear" /\ ~Finished
  BY <1>1 DEF QueueInv, Away, Playing
<1>4. RowsType'
  <2>1. /\ rundown \in Seq(RowSet) /\ Range(rundown) = RowSet
        /\ row \in [RowSet -> [ver : Nat, status : {"ready", "blocked", "error"}]]
    BY <1>t DEF QueueType, RowsType
  <2>2. row' \in [RowSet -> [ver : Nat, status : {"ready", "blocked", "error"}]]
    BY <1>1, <1>2, <2>1
  <2> QED
    BY <1>1, <2>1, <2>2 DEF RowsType, Range
<1>5. SyncType'
  BY <1>1, <1>t DEF QueueType, SyncType
<1> QED
  BY <1>1, <1>2, <1>3, <1>4, <1>5, NextTakenKeeps

\* A new token makes the sync in flight stale and leaves what waits numbered below it.
LEMMA TokenGrows ==
  ASSUME QueueInv, token' = token + 1, sync' = sync
  PROVE  /\ token \in Nat /\ token' \in Nat /\ sync.token <= token' /\ sync.token # token' /\ Planned'
         /\ layer.fg.tag.n < 10 + token' /\ layer.fg.tag.n <= 10 + token'
         /\ \A i \in DOMAIN layer.waiting : layer.waiting[i].tag.n < 10 + token' /\ layer.waiting[i].tag.n <= 10 + token'
<1>t. QueueType
  BY DEF QueueInv
<1>1. token \in Nat /\ sync.token \in Nat /\ sync.token <= token
  BY <1>t DEF QueueInv, Tokens, QueueType, SyncType, TakeType
<1>2. \A n \in Nat : n <= 10 + token => n < 10 + (token + 1) /\ n <= 10 + (token + 1)
  BY <1>1
<1>3. /\ layer.fg.tag.n \in Nat /\ layer.fg.tag.n <= 10 + token
      /\ \A i \in DOMAIN layer.waiting : layer.waiting[i].tag.n \in Nat /\ layer.waiting[i].tag.n <= 10 + token
  BY <1>t, LayerIs DEF QueueInv, Items
<1>4. Planned'
  <2>1. \A i \in DOMAIN sync.tags : sync.tags[i].n \in Nat
    <3>1. \A i \in DOMAIN sync.tags : sync.tags[i] \in AnyTag
      BY <1>t DEF QueueType, SyncType
    <3> QED
      BY <3>1 DEF AnyTag
  <2> QED
    BY <1>2, <2>1 DEF QueueInv, Planned
<1>5. token + 1 \in Nat /\ sync.token <= token + 1 /\ sync.token # token + 1
  BY <1>1
<1> QED
  BY <1>1, <1>2, <1>3, <1>4, <1>5

LEMMA TakeBeginsKeeps ==
  ASSUME Open = {}, QueueInv, NEW r \in RowSet, TakeBegins(r)
  PROVE  QueueInv'
<1>1. /\ row[r].status = "ready" /\ ~Recut(r) /\ ~Again(r) /\ Fenced /\ token' = token + 1
      /\ used' = [used EXCEPT !.takes = @ + 1]
      /\ take' = [NoTake EXCEPT !.pc = "prepare", !.row = r, !.token = token']
      /\ ui' = [ui EXCEPT !.key = r, !.waiting = <<>>] /\ retry' = [retry EXCEPT !.armed = FALSE]
      /\ UNCHANGED <<layer, events, rundown, row, sync, follow>>
  BY DEF TakeBegins
<1>k. /\ layer' = layer /\ events' = events /\ rundown' = rundown /\ row' = row /\ sync' = sync
      /\ follow' = follow
  BY <1>1
<1>t. QueueType /\ Reports
  BY DEF QueueInv
<1>y. /\ token \in Nat /\ token' \in Nat /\ sync.token <= token' /\ sync.token # token' /\ Planned'
      /\ layer.fg.tag.n < 10 + token' /\ layer.fg.tag.n <= 10 + token'
      /\ \A i \in DOMAIN layer.waiting : layer.waiting[i].tag.n < 10 + token' /\ layer.waiting[i].tag.n <= 10 + token'
  BY <1>1, TokenGrows
<1>u. ui'.key = r /\ ui'.fg = ui.fg /\ ui'.waiting = <<>> /\ ui'.known = ui.known /\ UiType'
  <2>1. <<>> \in Seq(AnyTag)
    OBVIOUS
  <2> QED
    BY <1>1, <1>t, <2>1 DEF QueueType, UiType
<1>v. /\ take'.pc = "prepare" /\ take'.row = r /\ take'.token = token' /\ TakeType'
  <2>1. take' = [pc |-> "prepare", row |-> r, token |-> token', tag |-> NoTag]
    BY <1>1 DEF NoTake
  <2>2. NoTag \in AnyTag
    BY DEF NoTag, Tag, AnyTag
  <2>3. used' \in [edits : Nat, takes : Nat, faults : Nat] /\ follow' \in AnyTag
    BY <1>1, <1>t, SMTT(60) DEF QueueType, TakeType
  <2> QED
    BY <1>y, <2>1, <2>2, <2>3 DEF TakeType
<1>2. QueueType'
  <2>1. SyncType'
    BY <1>1, <1>t DEF QueueType, SyncType
  <2>2. LayerType' /\ RowsType'
    BY <1>t, <1>k DEF QueueType, LayerType, RowsType, Range
  <2> QED
    BY <1>t, <1>k, <1>u, <1>v, <2>1, <2>2 DEF QueueType
<1>3. Taking' /\ ~Playing' /\ Stale' /\ ~Unmoved' /\ Onairs' = Onairs /\ Endings' = Endings
  BY <1>k, <1>v, <1>y DEF Taking, Playing, Stale, Unmoved, Onairs, Endings, ReportsOf
<1>4. sync.pc # "clear" /\ ~Finished /\ ~Finished'
  BY <1>1 DEF Fenced, Finished
<1>r. \A t \in Onairs \cup Endings : t.base # Filler /\ t.base # r
  <2>1. \A i \in DOMAIN events : events[i].tag.base # Filler /\ events[i].tag.base # r
    BY <1>1 DEF Fenced, Again
  <2> QED
    BY <2>1 DEF Onairs, Endings, ReportsOf
<1>5. Reports'
  BY <1>t, <1>k, <1>3 DEF Reports
<1>6. Tokens' /\ Wanted' /\ Distinct'
  <2>1. take'.token <= token'
    BY <1>v, <1>y
  <2> QED
    BY <1>k, <1>y, <2>1 DEF QueueInv, Tokens, Wanted, Distinct
<1>7. Items'
  BY <1>k, <1>u, <1>y, <1>3 DEF QueueInv, Items
<1>8. Away'
  BY <1>k, <1>u, <1>4, Names DEF Away
<1>9. TakeHolds'
  <2>1. /\ take'.row \in RowSet /\ ui'.key = take'.row /\ row'[take'.row].status = "ready"
        /\ take'.pc = "prepare"
    BY <1>1, <1>k, <1>u, <1>v
  <2>2. Tag(Filler, 1) \notin Onairs' /\ \A t \in Onairs' : t.base # Filler
    BY <1>r, <1>3 DEF Tag
  <2>3. follow'.base # r /\ \A t \in Onairs' \cup Endings' : t.base # r
    BY <1>1, <1>k, <1>r, <1>3 DEF Again
  <2>4. ui'.fg # layer'.fg.tag => layer'.fg.tag.base # r
    BY <1>1, <1>k, <1>u DEF Recut
  <2> QED
    BY <1>k, <1>v, <1>y, <2>1, <2>2, <2>3, <2>4 DEF TakeHolds
<1>10. Steps' /\ OnAirOrCut' /\ EndKnown' /\ Current'
  BY <1>k, <1>3, <1>4 DEF Steps, OnAirOrCut, EndKnown, Current
<1> QED
  BY <1>y, <1>2, <1>5, <1>6, <1>7, <1>8, <1>9, <1>10 DEF QueueInv

LEMMA TakeLoadsKeeps ==
  ASSUME QueueInv, TakeLoads
  PROVE  QueueInv'
<1> DEFINE item == Item(TakeTag, row[take.row].ver, FALSE)
<1>1. /\ take.pc = "prepare" /\ take.token = token /\ row[take.row].status = "ready"
      /\ take' = [take EXCEPT !.pc = "loaded", !.tag = TakeTag]
      /\ layer' = [layer EXCEPT !.waiting = <<item>>]
      /\ ui' = [ui EXCEPT !.waiting = <<>>] /\ retry' = [retry EXCEPT !.armed = FALSE]
      /\ UNCHANGED <<events, rundown, row, token, sync, follow, used>>
  BY DEF TakeLoads
<1>k. /\ events' = events /\ rundown' = rundown /\ row' = row /\ token' = token /\ sync' = sync
      /\ follow' = follow /\ used' = used
  BY <1>1
<1>t. QueueType /\ Reports
  BY DEF QueueInv
<1>3. Taking /\ ~Playing /\ Taking' /\ ~Playing'
  BY <1>1, <1>t DEF Taking, Playing, QueueType, TakeType
<1>h. /\ take.row \in RowSet /\ ui.key = take.row
      /\ Tag(Filler, 1) \notin Onairs /\ \A t \in Onairs : t.base # Filler
      /\ follow.base # take.row /\ \A t \in Onairs \cup Endings : t.base # take.row
      /\ ui.fg # layer.fg.tag => layer.fg.tag.base # take.row
      /\ layer.fg.tag.n < 10 + token
  BY <1>1, <1>3 DEF QueueInv, TakeHolds
<1>y. token \in Nat /\ 10 + token \in Nat /\ 1 <= 10 + token
  <2>1. token \in Nat
    BY <1>t DEF QueueType, TakeType
  <2> QED
    BY <2>1
<1>i. TakeTag.base = take.row /\ TakeTag \in AnyTag /\ TakeTag.n <= 10 + token
  <2>1. TakeTag = [base |-> take.row, n |-> IF ui.fg.base = take.row THEN 10 + token ELSE 1]
    BY DEF TakeTag, Tag
  <2> QED
    BY <1>h, <1>y, <2>1 DEF AnyTag
<1>d. TakeTag # layer.fg.tag
  <2>1. CASE ui.fg.base = take.row
    <3>1. TakeTag.n = 10 + token
      BY <2>1 DEF TakeTag, Tag
    <3>2. layer.fg.tag.n \in Nat
      BY <1>t, LayerIs
    <3>3. \A n \in Nat : n < 10 + token => n # 10 + token
      BY <1>y
    <3> QED
      BY <1>h, <3>1, <3>2, <3>3
  <2>2. CASE ui.fg.base # take.row
    <3>1. layer.fg.tag.base # take.row
      BY <1>h, <2>2
    <3> QED
      BY <1>i, <3>1
  <2> QED
    BY <2>1, <2>2
<1>j. item \in AnyItem /\ item.tag = TakeTag /\ item.auto = FALSE
  <2>1. row[take.row].ver \in Nat
    <3>1. row[take.row] \in [ver : Nat, status : {"ready", "blocked", "error"}]
      BY <1>h, <1>t DEF QueueType, RowsType
    <3> QED
      BY <3>1
  <2>2. item = [tag |-> TakeTag, ver |-> row[take.row].ver, auto |-> FALSE]
    BY DEF Item
  <2> HIDE DEF item
  <2> QED
    BY <1>i, <2>1, <2>2 DEF AnyItem
<1> HIDE DEF item
<1>l. /\ layer'.fg = layer.fg /\ layer'.ended = layer.ended /\ layer'.waiting = <<item>> /\ LayerType'
      /\ Len(layer'.waiting) = 1 /\ DOMAIN layer'.waiting = {1} /\ layer'.waiting[1] = item
  <2>1. layer \in [fg : AnyItem, ended : BOOLEAN, waiting : Seq(AnyItem), fill : BOOLEAN]
    BY <1>t DEF QueueType, LayerType
  <2>2. <<item>> \in Seq(AnyItem) /\ Len(<<item>>) = 1 /\ DOMAIN <<item>> = {1} /\ <<item>>[1] = item
    BY <1>j
  <2>3. layer'.fg = layer.fg /\ layer'.ended = layer.ended /\ layer'.waiting = <<item>>
    BY <1>1, <2>1
  <2>4. LayerType'
    BY <1>1, <2>1, <2>2 DEF LayerType
  <2> QED
    BY <2>2, <2>3, <2>4
<1>u. ui'.key = ui.key /\ ui'.fg = ui.fg /\ ui'.waiting = <<>> /\ ui'.known = ui.known /\ UiType'
  <2>1. <<>> \in Seq(AnyTag)
    OBVIOUS
  <2> QED
    BY <1>1, <1>t, <2>1 DEF QueueType, UiType
<1>v. take'.pc = "loaded" /\ take'.row = take.row /\ take'.token = take.token /\ take'.tag = TakeTag /\ TakeType'
  BY <1>1, <1>k, <1>i, <1>t DEF QueueType, TakeType
<1>2. QueueType'
  <2>1. SyncType'
    BY <1>1, <1>t DEF QueueType, SyncType
  <2>2. RowsType'
    BY <1>t, <1>k DEF QueueType, RowsType, Range
  <2> QED
    BY <1>t, <1>k, <1>l, <1>u, <1>v, <2>1, <2>2 DEF QueueType
<1>4. sync.pc # "clear" /\ ~Finished /\ ~Finished'
  <2>1. sync.pc # "clear" /\ ~Finished
    BY <1>3 DEF QueueInv, Away
  <2> QED
    BY <1>k, <2>1 DEF Finished
<1>s. sync.pc # "idle" => sync.token # token
  BY <1>3 DEF QueueInv, Tokens
<1>e. Onairs' = Onairs /\ Endings' = Endings
  BY <1>k DEF Onairs, Endings, ReportsOf
<1>5. Reports' /\ Wanted' /\ Planned'
  BY <1>k, <1>e DEF QueueInv, Reports, Wanted, Planned
<1>6. Tokens'
  BY <1>k, <1>s, <1>v DEF QueueInv, Tokens
<1>7. Items' /\ Distinct'
  <2>1. layer.fg = NoItem \/ layer.fg.tag.base # NoKey
    BY DEF QueueInv, Items
  <2>2. layer.fg.tag.n <= 10 + token
    BY DEF QueueInv, Items
  <2> QED
    BY <1>k, <1>i, <1>d, <1>j, <1>l, <1>h, <1>3, <2>1, <2>2 DEF Items, Distinct
<1>8. Away'
  BY <1>k, <1>h, <1>u, <1>4, Names DEF Away
<1>9. TakeHolds'
  <2>1. row'[take'.row].status = "ready"
    BY <1>1, <1>k, <1>v
  <2> QED
    BY <1>h, <1>k, <1>i, <1>j, <1>l, <1>u, <1>v, <1>e, <2>1 DEF TakeHolds
<1>10. Steps' /\ OnAirOrCut' /\ EndKnown' /\ Current'
  <2>1. sync'.pc # "idle" => ~Unmoved'
    BY <1>k, <1>s DEF Unmoved, Stale
  <2>2. Steps'
    BY <1>k, <1>4, <2>1 DEF Steps
  <2> QED
    BY <1>3, <2>2 DEF OnAirOrCut, EndKnown, Current
<1> QED
  BY <1>2, <1>5, <1>6, <1>7, <1>8, <1>9, <1>10 DEF QueueInv

LEMMA TakePlaysKeeps ==
  ASSUME Open = {}, QueueInv, TakePlays
  PROVE  QueueInv'
<1> DEFINE item == Head(layer.waiting)
<1>1. /\ take.pc = "loaded" /\ take.token = token /\ take' = NoTake /\ events = <<>>
      /\ layer' = OnLayer(item, Tail(layer.waiting))
      /\ events' = Append(events, [kind |-> "onair", tag |-> item.tag])
      /\ ui' = [ui EXCEPT !.pending = take.tag, !.fg = take.tag, !.dirty = TRUE,
                          !.known = @ \cup {[tag |-> take.tag, ver |-> item.ver]}]
      /\ UNCHANGED <<rundown, row, token, sync, retry, follow, used>>
  BY DEF TakePlays
<1>k. /\ rundown' = rundown /\ row' = row /\ token' = token /\ sync' = sync /\ retry' = retry
      /\ follow' = follow /\ used' = used
  BY <1>1
<1>t. QueueType /\ Reports
  BY DEF QueueInv
<1>3. Taking /\ ~Playing /\ ~Taking'
  BY <1>1 DEF Taking, Playing, NoTake
<1>h. /\ take.row \in RowSet /\ ui.key = take.row /\ follow.base # take.row /\ take.tag.base = take.row
      /\ Len(layer.waiting) = 1 /\ layer.waiting[1].tag = take.tag
  BY <1>1, <1>3 DEF QueueInv, TakeHolds
<1>i. /\ item \in AnyItem /\ item.tag = take.tag /\ Tail(layer.waiting) = <<>> /\ take.tag \in AnyTag
      /\ take.tag.n <= 10 + token /\ item.ver \in Nat
  <2>1. layer.waiting \in Seq(AnyItem) /\ 1 \in DOMAIN layer.waiting /\ item = layer.waiting[1]
    BY <1>h, <1>t, LayerIs
  <2>2. item \in AnyItem
    BY <2>1
  <2>3. Tail(layer.waiting) = <<>>
    <3>1. Tail(layer.waiting) \in Seq(AnyItem) /\ Len(Tail(layer.waiting)) = 0
      BY <1>h, <2>1
    <3>2. \A s \in Seq(AnyItem) : Len(s) = 0 => s = <<>>
      OBVIOUS
    <3> QED
      BY <3>1, <3>2
  <2>4. layer.waiting[1].tag.n <= 10 + token
    BY <2>1 DEF QueueInv, Items
  <2> HIDE DEF item
  <2>5. take.tag \in AnyTag /\ item.ver \in Nat
    BY <1>h, <2>1, <2>2 DEF AnyItem
  <2> QED
    BY <1>h, <2>1, <2>2, <2>3, <2>4, <2>5
<1> HIDE DEF item
<1>l. layer'.fg = item /\ layer'.ended = FALSE /\ layer'.waiting = <<>> /\ LayerType'
  <2>1. layer \in [fg : AnyItem, ended : BOOLEAN, waiting : Seq(AnyItem), fill : BOOLEAN]
    BY <1>t DEF QueueType, LayerType
  <2>2. <<>> \in Seq(AnyItem)
    OBVIOUS
  <2> QED
    BY <1>1, <1>i, <2>1, <2>2 DEF OnLayer, LayerType
<1>u. /\ ui'.key = ui.key /\ ui'.fg = take.tag /\ ui'.waiting = <<>> /\ ui'.pending = take.tag /\ ui'.dirty = TRUE
      /\ UiType'
  <2>1. ui.waiting = <<>>
    BY <1>3 DEF QueueInv, Away
  <2>2. ui \in [key : RowSet \cup {NoKey}, fg : AnyTag, waiting : Seq(AnyTag), pending : AnyTag,
                known : SUBSET [tag : AnyTag, ver : Nat], dirty : BOOLEAN]
    BY <1>t DEF QueueType, UiType
  <2>3. [tag |-> take.tag, ver |-> item.ver] \in [tag : AnyTag, ver : Nat]
    BY <1>i
  <2> QED
    BY <1>1, <1>i, <2>1, <2>2, <2>3 DEF UiType
<1>v. NoTake.token = 0 /\ TakeType'
  <2>1. NoTake \in [pc : {"none", "prepare", "loaded"}, row : RowSet \cup {NoKey}, token : Nat, tag : AnyTag]
    BY DEF NoTake, NoTag, Tag, AnyTag
  <2>2. NoTake.token = 0
    BY DEF NoTake
  <2> QED
    BY <1>1, <1>k, <1>t, <2>1, <2>2 DEF QueueType, TakeType
<1>e. /\ Onairs' = {take.tag} /\ Endings' = {} /\ events' \in Seq(Report) /\ Len(events') = 1
  <2>1. Onairs = {} /\ Endings = {} /\ Len(events) = 0
    <3>1. Len(<<>>) = 0
      OBVIOUS
    <3> QED
      BY <1>1, <3>1, NoReports
  <2>2. events' = Append(events, [kind |-> "onair", tag |-> take.tag])
    BY <1>1, <1>i
  <2>3. /\ Onairs' = Onairs \cup {take.tag} /\ Endings' = Endings
        /\ events' \in Seq(Report) /\ Len(events') = Len(events) + 1
    BY <1>i, <1>t, <2>2, Reported1
  <2>4. 0 + 1 = 1
    OBVIOUS
  <2> QED
    BY <2>1, <2>3, <2>4
<1>2. QueueType'
  <2>1. SyncType' /\ RowsType'
    BY <1>t, <1>k, SMTT(60) DEF QueueType, SyncType, RowsType, Range
  <2> QED
    BY <1>l, <1>u, <1>v, <1>e, <2>1 DEF QueueType
<1>4. /\ Playing' /\ Cuts' = {} /\ ~Finished' /\ sync.pc # "clear"
      /\ sync.pc # "idle" => Stale' /\ ~Unmoved'
  <2>1. sync.pc # "clear" /\ ~Finished
    BY <1>3 DEF QueueInv, Away
  <2>2. sync.pc # "idle" => sync.token # token
    BY <1>3 DEF QueueInv, Tokens
  <2> QED
    BY <1>3, <1>h, <1>k, <1>u, <1>e, <2>1, <2>2, Names DEF Playing, Cuts, Finished, Stale, Unmoved
<1>5. Reports'
  <2>1. take.tag.base # NoKey
    BY <1>h, Names
  <2>2. 1 <= 2 /\ 1 # 2
    OBVIOUS
  <2> QED
    BY <1>e, <1>k, <1>t, <2>1, <2>2 DEF Reports
<1>6. Tokens' /\ Wanted' /\ Planned'
  <2>1. token \in Nat /\ NoTake.token <= token
    BY <1>t, <1>v DEF QueueType, TakeType
  <2>2. take' = NoTake
    BY <1>1
  <2>3. Tokens'
    BY <1>k, <1>4, <2>1, <2>2 DEF QueueInv, Tokens
  <2> QED
    BY <1>k, <2>3 DEF QueueInv, Wanted, Planned
<1>7. Items' /\ Distinct' /\ Away' /\ TakeHolds'
  <2>1. DOMAIN layer'.waiting = {}
    BY <1>l
  <2>2. take.tag.base # NoKey
    BY <1>h, Names
  <2>3. layer'.fg.tag = take.tag /\ layer'.fg.tag.n <= 10 + token'
    BY <1>i, <1>k, <1>l
  <2>4. Items'
    BY <1>l, <2>1, <2>2, <2>3 DEF Items
  <2>5. Distinct'
    BY <2>1 DEF Distinct
  <2> QED
    BY <1>3, <1>4, <2>4, <2>5 DEF Away, TakeHolds
<1>8. OnAirOrCut'
  <2>1. EndOf(layer'.waiting, ui'.waiting)
    <3>1. Len(<<>>) <= Len(<<>>) /\ 1..Len(<<>>) = {}
      OBVIOUS
    <3> QED
      BY <1>l, <1>u, <3>1 DEF EndOf
  <2>2. EndOf(layer.waiting, ui.waiting)'
    BY <2>1 DEF EndOf
  <2>3. layer'.fg.tag = ui'.fg /\ ui'.fg.base = ui'.key /\ ui'.pending = ui'.fg /\ Onairs' = {ui'.pending}
        /\ ~layer'.ended
    BY <1>e, <1>h, <1>i, <1>l, <1>u
  <2>4. Cuts' = {}
    BY <1>4
  <2> QED
    BY <2>2, <2>3, <2>4 DEF OnAirOrCut
<1>9. EndKnown'
  <2>1. take.tag # follow
    BY <1>h
  <2>2. ~layer'.ended /\ ui'.fg # follow' /\ Endings' = {} /\ Cuts' = {}
    BY <1>e, <1>k, <1>l, <1>u, <1>4, <2>1
  <2> QED
    BY <2>2 DEF EndKnown
<1>10. Steps' /\ Current'
  BY <1>k, <1>u, <1>4 DEF Steps, Current
<1> QED
  BY <1>2, <1>5, <1>6, <1>7, <1>8, <1>9, <1>10 DEF QueueInv

LEMMA StopKeeps ==
  ASSUME Open = {}, QueueInv, Stop
  PROVE  QueueInv'
<1>1. /\ Fenced /\ used' = [used EXCEPT !.takes = @ + 1] /\ token' = token + 1 /\ ui' = Released(NoTag)
      /\ retry' = [count |-> 0, armed |-> FALSE] /\ layer' = OnLayer(NoItem, <<>>)
      /\ UNCHANGED <<events, rundown, row, sync, take, follow>>
  BY DEF Stop
<1>k. /\ events' = events /\ rundown' = rundown /\ row' = row /\ sync' = sync /\ take' = take
      /\ follow' = follow
  BY <1>1
<1>t. QueueType /\ Reports
  BY DEF QueueInv
<1>y. /\ token \in Nat /\ token' \in Nat /\ sync.token <= token' /\ sync.token # token' /\ Planned'
      /\ take.token <= token' /\ take.token # token'
  <2>1. /\ token \in Nat /\ token' \in Nat /\ sync.token <= token' /\ sync.token # token' /\ Planned'
    BY <1>1, TokenGrows
  <2>2. take.token \in Nat /\ take.token <= token
    BY <1>t DEF QueueInv, Tokens, QueueType, TakeType
  <2>3. take.token <= token + 1 /\ take.token # token + 1
    BY <2>1, <2>2
  <2> QED
    BY <1>1, <2>1, <2>3
<1>n. NoTag \in AnyTag /\ NoTag.n = 1 /\ NoItem \in AnyItem /\ NoItem.tag = NoTag
  <2>1. NoTag \in AnyTag /\ NoTag.n = 1
    BY DEF NoTag, Tag, AnyTag
  <2> QED
    BY <2>1 DEF NoItem, Item, AnyItem
<1>u. ui'.key = NoKey /\ ui'.waiting = <<>> /\ ui'.known = {} /\ UiType'
  <2>1. <<>> \in Seq(AnyTag)
    OBVIOUS
  <2>2. ui.dirty \in BOOLEAN
    BY <1>t DEF QueueType, UiType
  <2>3. ui' = [key |-> NoKey, fg |-> NoTag, waiting |-> <<>>, pending |-> NoTag, known |-> {}, dirty |-> ui.dirty]
    BY <1>1 DEF Released
  <2> QED
    BY <1>n, <2>1, <2>2, <2>3 DEF UiType
<1>l. layer'.fg = NoItem /\ layer'.ended = FALSE /\ layer'.waiting = <<>> /\ LayerType'
  <2>1. layer \in [fg : AnyItem, ended : BOOLEAN, waiting : Seq(AnyItem), fill : BOOLEAN]
    BY <1>t DEF QueueType, LayerType
  <2>2. <<>> \in Seq(AnyItem)
    OBVIOUS
  <2> QED
    BY <1>1, <1>n, <2>1, <2>2 DEF OnLayer, LayerType
<1>2. QueueType'
  <2>1. SyncType'
    BY <1>1, <1>t DEF QueueType, SyncType
  <2>2. RowsType'
    BY <1>t, <1>k DEF QueueType, RowsType, Range
  <2>3. used' \in [edits : Nat, takes : Nat, faults : Nat]
    BY <1>1, <1>t, SMTT(60) DEF QueueType, TakeType
  <2>4. TakeType'
    BY <1>t, <1>k, <1>y, <2>3 DEF QueueType, TakeType
  <2> QED
    BY <1>t, <1>k, <1>l, <1>u, <2>1, <2>2, <2>4 DEF QueueType
<1>3. ~Taking' /\ ~Playing' /\ Stale' /\ ~Unmoved' /\ Onairs' = Onairs /\ Endings' = Endings
  BY <1>k, <1>u, <1>y DEF Taking, Playing, Stale, Unmoved, Onairs, Endings, ReportsOf
<1>4. sync.pc # "clear" /\ ~Finished /\ ~Finished'
  BY <1>1 DEF Fenced, Finished
<1>5. Reports' /\ Wanted'
  BY <1>k, <1>3 DEF QueueInv, Reports, Wanted
<1>6. Tokens'
  BY <1>k, <1>y DEF Tokens
<1>7. Items' /\ Distinct' /\ Away' /\ TakeHolds'
  <2>1. DOMAIN layer'.waiting = {}
    BY <1>l
  <2>2. 1 <= 10 + token'
    <3>1. \A n \in Nat : 1 <= 10 + n
      OBVIOUS
    <3> QED
      BY <1>y, <3>1
  <2>3. layer'.fg.tag.n <= 10 + token'
    BY <1>n, <1>l, <2>2
  <2>4. Items'
    BY <1>l, <2>1, <2>3 DEF Items
  <2>5. Distinct'
    BY <2>1 DEF Distinct
  <2>6. Away'
    BY <1>k, <1>l, <1>u, <1>4 DEF Away
  <2> QED
    BY <1>3, <2>4, <2>5, <2>6 DEF TakeHolds
<1>8. Steps' /\ OnAirOrCut' /\ EndKnown' /\ Current'
  BY <1>k, <1>3, <1>4 DEF Steps, OnAirOrCut, EndKnown, Current
<1> QED
  BY <1>y, <1>2, <1>5, <1>6, <1>7, <1>8 DEF QueueInv

LEMMA QueueInvStarts ==
  ASSUME QueueInit
  PROVE  QueueInv
<1>1. /\ layer \in [fg : {NoItem}, ended : {FALSE}, waiting : {<<>>}, fill : BOOLEAN]
      /\ events = <<>> /\ rundown = Rows
      /\ row = [r \in RowSet |-> [ver |-> 0, status |-> IF r \in Unready THEN "blocked" ELSE "ready"]]
      /\ ui = [key |-> NoKey, fg |-> NoTag, waiting |-> <<>>, pending |-> NoTag, known |-> {}, dirty |-> FALSE]
      /\ token = 0 /\ sync = Idle /\ retry = [count |-> 0, armed |-> FALSE]
      /\ take = NoTake /\ follow = NoTag /\ used = [edits |-> 0, takes |-> 0, faults |-> 0]
  BY DEF QueueInit
<1>n. NoTag \in AnyTag /\ NoTag.n = 1 /\ NoItem \in AnyItem /\ NoItem.tag = NoTag
  <2>1. NoTag \in AnyTag /\ NoTag.n = 1
    BY DEF NoTag, Tag, AnyTag
  <2> QED
    BY <2>1 DEF NoItem, Item, AnyItem
<1>2. layer.fg = NoItem /\ layer.ended = FALSE /\ layer.waiting = <<>> /\ DOMAIN layer.waiting = {} /\ LayerType
  <2>1. <<>> \in Seq(AnyItem)
    OBVIOUS
  <2>2. layer.fg = NoItem /\ layer.ended = FALSE /\ layer.waiting = <<>> /\ LayerType
    BY <1>1, <1>n, <2>1 DEF LayerType
  <2> QED
    BY <2>2
<1>3. events \in Seq(Report) /\ Len(events) = 0
  BY <1>1
<1>4. RowsType
  BY <1>1, QueueAssumption DEF RowsType, RowSet
<1>5. UiType
  <2>1. <<>> \in Seq(AnyTag)
    OBVIOUS
  <2> QED
    BY <1>1, <1>n, <2>1 DEF UiType
<1>6. SyncType /\ sync.pc = "idle" /\ sync.token = 0
  <2>1. <<>> \in Seq(AnyTag) /\ <<>> \in Seq(Wish)
    OBVIOUS
  <2> QED
    BY <1>1, <1>n, <2>1 DEF SyncType, Idle
<1>7. TakeType /\ take.pc = "none" /\ take.token = 0
  BY <1>1, <1>n DEF TakeType, NoTake
<1>8. Onairs = {} /\ Endings = {} /\ ~Taking /\ ~Playing /\ ~Finished
  BY <1>1, <1>6, <1>7, NoReports DEF Taking, Playing, Finished
<1>9. QueueType
  BY <1>2, <1>3, <1>4, <1>5, <1>6, <1>7 DEF QueueType
<1>10. Reports
  BY <1>1, <1>3, <1>8 DEF Reports
<1>11. Tokens
  BY <1>1, <1>6, <1>7 DEF Tokens
<1>12. Items /\ Distinct
  <2>1. layer.fg.tag.n <= 10 + token
    BY <1>1, <1>2, <1>n
  <2> QED
    BY <1>1, <1>2, <2>1 DEF Items, Distinct
<1>13. Away /\ TakeHolds /\ OnAirOrCut /\ EndKnown /\ Current
  BY <1>1, <1>2, <1>6, <1>8 DEF Away, TakeHolds, OnAirOrCut, EndKnown, Current
<1>14. Wanted /\ Planned /\ Steps
  BY <1>6, <1>8 DEF Wanted, Planned, Steps
<1> QED
  BY <1>9, <1>10, <1>11, <1>12, <1>13, <1>14 DEF QueueInv

LEMMA NothingKeeps ==
  ASSUME QueueInv, UNCHANGED queueVars
  PROVE  QueueInv'
<1>1. /\ layer' = layer /\ events' = events /\ rundown' = rundown /\ row' = row /\ ui' = ui /\ token' = token
      /\ sync' = sync /\ retry' = retry /\ take' = take /\ follow' = follow /\ used' = used
  BY DEF queueVars
<1>t. QueueType
  BY DEF QueueInv
<1>2. RowsType' /\ ui'.dirty \in BOOLEAN /\ ui' = [ui EXCEPT !.dirty = ui'.dirty]
      /\ used' \in [edits : Nat, takes : Nat, faults : Nat]
  BY <1>1, <1>t, SMTT(60) DEF QueueType, RowsType, UiType, TakeType
<1>3. Playing' = Playing /\ Stale' = Stale /\ Busy' = Busy /\ Cuts' = Cuts /\ Desired' = Desired /\ Blocker' = Blocker
  BY <1>1, WindowKept DEF Taking, Playing, Stale, Busy, Cuts, Onairs, ReportsOf
<1>4. Current'
  BY <1>1, <1>3 DEF QueueInv, Current
<1> QED
  BY <1>1, <1>2, <1>4, EditKeeps

\* What waits is what is wanted, the engine and PlayOut agree, and one end is followed once:
\* the inductive invariant of the queue.
THEOREM QueueInvHolds ==
  ASSUME Open = {}
  PROVE  QueueSpec => []QueueInv
<1>1. QueueInv /\ [QueueNext]_queueVars => QueueInv'
  <2> SUFFICES ASSUME QueueInv, [QueueNext]_queueVars PROVE QueueInv'
    OBVIOUS
  <2>1. CASE Engine
    BY <2>1, CutKeeps, EndsKeeps, FillsKeeps DEF Engine
  <2>2. CASE Work
    BY <2>2, SyncBeginsKeeps, SyncReadsKeeps, SyncClearsKeeps, SyncQueuesKeeps, SyncEndsKeeps, RowRetryKeeps,
       OnAirKeeps, EndedKeeps, FollowKeeps, TakeLoadsKeeps, TakePlaysKeeps, TakeRefusedKeeps, TakeDroppedKeeps
       DEF Work
  <2>3. CASE SyncRefused \/ Stop
    BY <2>3, SyncRefusedKeeps, StopKeeps
  <2>4. CASE \E r \in RowSet : TakeBegins(r)
    BY <2>4, TakeBeginsKeeps
  <2>5. CASE Moved \/ Trimmed \/ Arrives
    BY <2>5, MovedKeeps, TrimmedKeeps, ArrivesKeeps
  <2>6. CASE UNCHANGED queueVars
    BY <2>6, NothingKeeps
  <2> QED
    BY <2>1, <2>2, <2>3, <2>4, <2>5, <2>6 DEF QueueNext
<1> QED
  BY <1>1, QueueInvStarts, PTL DEF QueueSpec

\* Once everything is handled, PlayOut and the engine name the same item as on air and the next
\* rows wait behind it with their present trims, no two under one tag (runForkSync, onForkOnAir).
THEOREM QueueIsTheWindow ==
  ASSUME Open = {}
  PROVE  QueueSpec => []QueueIsWindow
<1>1. QueueInv => QueueIsWindow
  <2> SUFFICES ASSUME QueueInv PROVE QueueIsWindow
    OBVIOUS
  <2>1. ASSUME Quiet, ui.key # NoKey
        PROVE  Playing /\ Cuts = {} /\ sync.pc = "idle" /\ ~ui.dirty
    <3>1. Onairs = {}
      BY <2>1, NoReports DEF Quiet
    <3> QED
      BY <2>1, <3>1 DEF Quiet, Playing, Taking, Cuts, NoTake
  <2>2. OnAirKnown
    BY <2>1 DEF OnAirKnown, QueueInv, OnAirOrCut
  <2>3. WindowWaits
    BY <2>1 DEF WindowWaits, CanSync, QueueInv, Current
  <2>4. TagsUnique
    <3> DEFINE w == layer.waiting
               s == <<layer.fg.tag>> \o Tags(w)
    <3>1. w \in Seq(AnyItem) /\ Len(w) \in Nat /\ DOMAIN w = 1..Len(w) /\ layer.fg.tag \in AnyTag
      BY LayerIs DEF QueueInv
    <3>2. /\ Tags(w) \in Seq(AnyTag) /\ Len(Tags(w)) = Len(w)
          /\ \A i \in 1..Len(w) : Tags(w)[i] = w[i].tag
      <4>1. Tags(w) = [i \in 1..Len(w) |-> w[i].tag]
        BY <3>1 DEF Tags
      <4>2. \A i \in 1..Len(w) : w[i].tag \in AnyTag
        BY LayerIs, <3>1 DEF QueueInv
      <4> HIDE DEF w
      <4> QED
        BY <3>1, <4>1, <4>2
    <3>3. /\ DOMAIN s = 1..(Len(w) + 1) /\ s[1] = layer.fg.tag
          /\ \A i \in 2..(Len(w) + 1) : s[i] = w[i - 1].tag /\ i - 1 \in DOMAIN w
      <4> HIDE DEF w
      <4>1. <<layer.fg.tag>> \in Seq(AnyTag) /\ Len(<<layer.fg.tag>>) = 1
        BY <3>1
      <4>2. \A i \in 2..(Len(w) + 1) : i - 1 \in 1..Len(w)
        BY <3>1
      <4> QED
        BY <3>1, <3>2, <4>1, <4>2
    <3>4. /\ \A i \in DOMAIN w : w[i].tag # layer.fg.tag
          /\ \A i, j \in DOMAIN w : w[i].tag = w[j].tag => i = j
      BY DEF QueueInv, Distinct
    <3> HIDE DEF w, s
    <3>5. ASSUME NEW i \in DOMAIN s, NEW j \in DOMAIN s, s[i] = s[j] PROVE i = j
      <4>1. i \in 1..(Len(w) + 1) /\ j \in 1..(Len(w) + 1)
        BY <3>3
      <4>2. CASE i = 1 \/ j = 1
        BY <3>1, <3>3, <3>4, <3>5, <4>1, <4>2
      <4>3. CASE i # 1 /\ j # 1
        <5>1. i \in 2..(Len(w) + 1) /\ j \in 2..(Len(w) + 1)
          BY <3>1, <4>1, <4>3
        <5>2. i - 1 = j - 1
          BY <3>3, <3>4, <3>5, <5>1
        <5> QED
          BY <5>1, <5>2
      <4> QED
        BY <4>2, <4>3
    <3>6. IsInjective(s)
      BY <3>5 DEF IsInjective
    <3> QED
      BY <3>6 DEF TagsUnique, s, w
  <2> QED
    BY <2>2, <2>3, <2>4 DEF QueueIsWindow
<1> QED
  BY <1>1, QueueInvHolds, PTL

\* No cut of the engine takes the channel from a take under way (onForkOnAir, forkTake).
THEOREM TakeKeepsTheChannel ==
  ASSUME Open = {}
  PROVE  QueueSpec => TakeStands
<1>1. ASSUME QueueInv, QueueNext, ui'.key # ui.key, take.pc # "none", take.token = token
      PROVE  used' # used \/ row[take.row].status # "ready"
  <2>t. /\ ui \in [key : RowSet \cup {NoKey}, fg : AnyTag, waiting : Seq(AnyTag), pending : AnyTag,
                   known : SUBSET [tag : AnyTag, ver : Nat], dirty : BOOLEAN]
        /\ used \in [edits : Nat, takes : Nat, faults : Nat] /\ QueueType /\ Reports
    BY <1>1 DEF QueueInv, QueueType, UiType, TakeType
  <2>0. Taking /\ ~Playing /\ ui.waiting = <<>> /\ ui.key = take.row
    BY <1>1 DEF Taking, Playing, QueueInv, Away, TakeHolds
  <2>1. ~Engine /\ ~Arrives
    BY <1>1, SMTT(60) DEF Engine, Cut, Ends, Fills, Arrives
  <2>2. ~SyncBegins /\ ~SyncReads /\ ~SyncClears /\ ~SyncRefused /\ ~RowRetry
    BY <1>1, <2>t DEF SyncBegins, SyncReads, SyncClears, SyncRefused, RowRetry
  <2>3. ~SyncQueues
    <3>1. \A tag, version : Handled(tag, version).key = ui.key
      BY <2>t DEF Handled
    <3>2. SyncQueues => \/ ui' = ui
                        \/ ui' = Handled(sync.tags[sync.at], sync.desired[sync.at].ver)
      BY Zenon DEF SyncQueues
    <3> QED
      BY <1>1, <3>1, <3>2, Zenon
  <2>4. ~SyncEnds
    BY <1>1, <2>t DEF SyncEnds, Pruned
  <2>5. ~OnAir
    <3> SUFFICES ASSUME OnAir PROVE FALSE
      OBVIOUS
    <3> DEFINE e == Head(events)
    <3>1. events # <<>> /\ e.kind = "onair" /\ events' = Tail(events)
      BY DEF OnAir
    <3>2. e.tag.base # Filler
      <4>1. Onairs = {e.tag}
        BY <2>t, <3>1, OnairHandled
      <4> QED
        BY <1>1, <2>0, <4>1 DEF QueueInv, TakeHolds
    <3>3. e.tag \notin Range(ui.waiting)
      BY <2>0 DEF Range
    <3>4. OnTake(e) \/ UNCHANGED <<ui, token>>
      BY <3>2, <3>3 DEF OnAir
    <3> HIDE DEF e
    <3> QED
      BY <1>1, <2>t, <3>4 DEF OnTake, Pruned
  <2>6. ~Ended /\ ~TakeDropped
    BY <1>1 DEF Ended, TakeDropped
  <2>7. ~Follow
    BY <1>1, <2>0 DEF Follow, Following, QueueInv, TakeHolds
  <2>8. ~TakeLoads /\ ~TakePlays
    BY <1>1, <2>t DEF TakeLoads, TakePlays
  <2>9. ~Moved /\ ~Trimmed
    BY <1>1, <2>t DEF Moved, Trimmed, Edit
  <2>10. (\E r \in RowSet : TakeBegins(r)) \/ Stop => used' # used
    <3>1. used.takes + 1 # used.takes
      BY <2>t
    <3>2. used' = [used EXCEPT !.takes = @ + 1] => used'.takes = used.takes + 1
      BY <2>t
    <3> QED
      BY <3>1, <3>2 DEF TakeBegins, Stop
  <2>11. TakeRefused => row[take.row].status # "ready"
    BY DEF TakeRefused
  <2> QED
    BY <1>1, <2>1, <2>2, <2>3, <2>4, <2>5, <2>6, <2>7, <2>8, <2>9, <2>10, <2>11 DEF QueueNext, Work
<1>2. QueueInv /\ [QueueNext]_queueVars =>
        [ui'.key # ui.key /\ take.pc # "none" /\ take.token = token =>
           used' # used \/ row[take.row].status # "ready"]_queueVars
  BY <1>1
<1> QED
  BY <1>2, QueueInvHolds, PTL DEF QueueSpec, TakeStands
=============================================================================
