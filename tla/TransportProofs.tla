--------------------------- MODULE TransportProofs ---------------------------
(***************************************************************************)
(* Proofs about the transport: the operator's last request stands, the     *)
(* engine holds every row the service believes armed, the frontend, Rust   *)
(* and the engine agree on the clip on air, its successor is what is       *)
(* loaded behind it, and no LOADBG comes early, however the calls in       *)
(* flight, the events and the cuts of the engine interleave.               *)
(*                                                                         *)
(* The argument is one of tokens.  The effect of every step is first put   *)
(* in terms of the few fields that matter: a superseded call vanishes      *)
(* without a trace, and a live one has one of the effects below.  The      *)
(* invariants RequestInv, ArmedInv, ChannelInv and Framed are then carried *)
(* over effects, not over code.                                            *)
(***************************************************************************)
EXTENDS Transport, WellFoundedInduction, TLAPS

JsNames ==
  {"token", "key", "proven", "playing", "advancing", "armed", "epoch", "loading", "dedup", "guard",
   "queue", "flagged", "skips", "coordGen", "onAir"}
CallNames ==
  {"pc", "kind", "row", "next", "behind", "idx", "token", "gen", "epoch", "attempt", "advance",
   "manual", "proof", "fg"}

\* What module state j holds, as far as the argument goes.
Is(j, token, key, guard, queue, coordGen, epoch, armed) ==
  /\ DOMAIN j = JsNames
  /\ j.token = token /\ j.key = key /\ j.guard = guard /\ j.queue = queue
  /\ j.coordGen = coordGen /\ j.epoch = epoch /\ j.armed = armed
Agree(j, k) == Is(k, j.token, j.key, j.guard, j.queue, j.coordGen, j.epoch, j.armed)
JsShape(j) ==
  /\ DOMAIN j = JsNames
  /\ j.token \in Nat /\ j.coordGen \in Nat /\ j.epoch \in Nat
  /\ j.key \in Rows \cup {NoRow} /\ j.guard \subseteq Rows /\ j.armed \subseteq Rows
  /\ j.queue \in Seq(Rows) /\ IsInjective(j.queue)

-----------------------------------------------------------------------------
\* What the synchronous functions leave.
LEMMA Claims ==
  ASSUME NEW j, DOMAIN j = JsNames, NEW r
  PROVE  Is(Claim(j, r), j.token, r, j.guard, j.queue, j.coordGen, j.epoch, j.armed)
BY DEF Is, Claim, JsNames

\* stop() takes a new token, and leaves nothing claimed, armed or guarded.
LEMMA Stops ==
  ASSUME NEW j, DOMAIN j = JsNames
  PROVE  Is(StopNow(j), j.token + 1, NoRow, {}, j.queue, j.coordGen + 1, j.epoch + 1, {})
<1> DEFINE k == InvalidatePreloads(j)
           l == [k EXCEPT !.token = @ + 1, !.guard = {}, !.coordGen = @ + 1, !.onAir = NoRow,
                          !.playing = FALSE]
<1>1. Is(k, j.token, j.key, j.guard, j.queue, j.coordGen, j.epoch + 1, {})
  BY DEF Is, InvalidatePreloads, JsNames
<1>2. StopNow(j) = Claim(l, NoRow)
  BY DEF StopNow
<1> HIDE DEF k
<1>3. Is(l, k.token + 1, k.key, {}, k.queue, k.coordGen + 1, k.epoch, k.armed)
  BY <1>1 DEF Is, JsNames
<1> HIDE DEF l
<1>4. Is(Claim(l, NoRow), l.token, NoRow, l.guard, l.queue, l.coordGen, l.epoch, l.armed)
  BY <1>3, Claims DEF Is
<1> QED
  BY <1>1, <1>2, <1>3, <1>4 DEF Is

\* A call that returns gives back the advance flag and nothing else.
LEMMA Returns ==
  ASSUME NEW j, DOMAIN j = JsNames, NEW a
  PROVE  Agree(j, Returned(j, a))
BY DEF Agree, Is, Returned, JsNames

\* A call that goes on, or ends.
LEMMA GoesOn ==
  ASSUME NEW a, NEW j, DOMAIN j = JsNames, NEW b, Goes(a, j, b)
  PROVE  Agree(j, js') /\ acts' = (acts \ {a}) \cup ({b} \ {NoAct})
<1>1. js' = Returned(j, a) \/ js' = j
  BY DEF Goes
<1>2. Agree(j, j)
  BY DEF Agree, Is
<1> QED
  BY <1>1, <1>2, Returns DEF Goes

-----------------------------------------------------------------------------
(* Rows and their places *)

\* The index playItemAt starts from: a set of numbers has a least one.
LEMMA Smallest ==
  ASSUME NEW S \in SUBSET Nat, S # {}
  PROVE  Min(S) \in S /\ \A y \in S : Min(S) <= y
<1>1. PICK x \in S : \A y \in S : ~(<<y, x>> \in OpToRel(<, Nat))
  BY NatLessThanWellFounded, WFMin
<1>2. ASSUME NEW y \in S PROVE x <= y
  <2>1. x \in Nat /\ y \in Nat
    OBVIOUS
  <2>2. ~(y < x)
    BY <1>1, <2>1 DEF OpToRel
  <2> QED
    BY <2>1, <2>2
<1> QED
  BY <1>2 DEF Min

\* The call of playItemAt: on a row of the rundown from index i on.
ItemCall(j, k, manual, advance) ==
  [NoAct EXCEPT !.pc = "resolve", !.kind = "item", !.row = j.queue[k], !.idx = k,
                !.token = j.token, !.manual = manual, !.advance = advance]
\* playItemAt stops the channel, or claims a row of the rundown: the one asked for unless it is flagged.
LEMMA PlaysItem ==
  ASSUME NEW j, JsShape(j), NEW i \in Nat, NEW manual, NEW advance
  PROVE  LET R == PlayItemAt(j, i, manual, advance) IN
         \/ R = Stopping(j, advance) /\ (i \in DOMAIN j.queue => j.queue[i] \in j.flagged)
         \/ \E k \in DOMAIN j.queue :
              /\ R = Result(Claim(j, j.queue[k]), ItemCall(j, k, manual, advance))
              /\ i \in DOMAIN j.queue /\ j.queue[i] \notin j.flagged => k = i
<1> DEFINE playable == {k \in DOMAIN j.queue : k >= i /\ j.queue[k] \notin j.flagged}
           k == Min(playable)
<1>1. playable \in SUBSET Nat
  <2>1. DOMAIN j.queue = 1..Len(j.queue)
    BY DEF JsShape
  <2> QED
    BY <2>1
<1>2. CASE playable = {}
  <2>1. i \in DOMAIN j.queue => j.queue[i] \in j.flagged
    <3>1. i >= i
      OBVIOUS
    <3> QED
      BY <1>2, <3>1
  <2>2. PlayItemAt(j, i, manual, advance) = Stopping(j, advance)
    BY <1>2 DEF PlayItemAt
  <2> QED
    BY <2>1, <2>2
<1>3. CASE playable # {}
  <2>1. k \in playable /\ \A y \in playable : k <= y
    BY <1>1, <1>3, Smallest
  <2>2. i \in DOMAIN j.queue /\ j.queue[i] \notin j.flagged => k = i
    <3> SUFFICES ASSUME i \in DOMAIN j.queue, j.queue[i] \notin j.flagged PROVE k = i
      OBVIOUS
    <3>1. k <= i /\ k >= i /\ k \in Nat
      BY <1>1, <2>1
    <3> HIDE DEF k
    <3> QED
      BY <3>1
  <2>3. PlayItemAt(j, i, manual, advance) = Result(Claim(j, j.queue[k]), ItemCall(j, k, manual, advance))
    BY <1>3 DEF PlayItemAt, ItemCall
  <2> HIDE DEF k
  <2> QED
    BY <2>1, <2>2, <2>3
<1> QED
  BY <1>2, <1>3

\* The call that loads the next row.
LoadCall(j, a, r) ==
  [NoAct EXCEPT !.pc = "loadbg", !.kind = "preload", !.row = r, !.token = a.token,
                !.epoch = j.epoch, !.advance = a.advance]
\* A preload is started for the row it was asked for, under its caller's token, or not at all.
LEMMA Preloads ==
  ASSUME NEW j, DOMAIN j = JsNames, NEW a, NEW r
  PROVE  LET R == Preload(j, a, r) IN
         /\ Agree(j, R.js)
         /\ R.act = NoAct \/ (r # NoRow /\ R.act = LoadCall(j, a, r))
<1>1. Agree(j, j) /\ Agree(j, [j EXCEPT !.loading = [row |-> r, epoch |-> j.epoch]])
  BY DEF Agree, Is, JsNames
<1> QED
  BY <1>1 DEF Preload, Result, LoadCall

-----------------------------------------------------------------------------
\* The place of a row in the rundown.
LEMMA Places ==
  ASSUME NEW q, q \in Seq(Rows), IsInjective(q)
  PROVE  /\ \A r : Contains(q, r) => IndexIn(q, r) \in DOMAIN q /\ q[IndexIn(q, r)] = r
         /\ \A k \in DOMAIN q : Contains(q, q[k]) /\ IndexIn(q, q[k]) = k /\ q[k] \in Rows
         /\ \A r : Successor(q, r) \in Rows \cup {NoRow}
         /\ \A r : Successor(q, r) # NoRow =>
              Contains(q, r) /\ Successor(q, r) = q[IndexIn(q, r) + 1] /\ IndexIn(q, r) + 1 \in DOMAIN q
<1>1. ASSUME NEW r, Contains(q, r) PROVE IndexIn(q, r) \in DOMAIN q /\ q[IndexIn(q, r)] = r
  BY <1>1 DEF Contains, IndexIn
<1>2. ASSUME NEW k \in DOMAIN q PROVE Contains(q, q[k]) /\ IndexIn(q, q[k]) = k /\ q[k] \in Rows
  <2>1. Contains(q, q[k]) /\ q[k] \in Rows
    BY DEF Contains
  <2> QED
    BY <1>1, <2>1 DEF IsInjective
<1>3. ASSUME NEW r PROVE Successor(q, r) \in Rows \cup {NoRow}
  BY DEF Successor, RowAt
<1>4. ASSUME NEW r, Successor(q, r) # NoRow
      PROVE  Contains(q, r) /\ Successor(q, r) = q[IndexIn(q, r) + 1] /\ IndexIn(q, r) + 1 \in DOMAIN q
  BY <1>4 DEF Successor, RowAt
<1> QED
  BY <1>1, <1>2, <1>3, <1>4

-----------------------------------------------------------------------------
(* The advance of the rundown *)

Call(a, pc, kind, row, idx, token) ==
  /\ DOMAIN a = CallNames
  /\ a.pc = pc /\ a.kind = kind /\ a.row = row /\ a.idx = idx /\ a.token = token

\* The rundown is advanced: the service stops, plays a row by command, waits to skip the
\* row it had armed, or follows the engine to it.
Halted(j, k, b) ==
  /\ Is(k, j.token + 2, NoRow, {}, j.queue, j.coordGen + 1, j.epoch + 1, {})
  /\ Call(b, "clear", "stop", NoRow, 0, j.token + 2)
PlaysBy(j, k, b, n) ==
  /\ Is(k, j.token + 1, j.queue[n], j.guard \ {j.key}, j.queue, j.coordGen, j.epoch, j.armed)
  /\ Call(b, "resolve", "item", j.queue[n], n, j.token + 1)
Armed(j) == Successor(j.queue, j.key) \in j.armed
Took(j, k) ==
  Is(k, j.token + 1, j.key, j.guard \ {j.key}, j.queue, j.coordGen, j.epoch,
     j.armed \ {Successor(j.queue, j.key)})
Advanced(j, k, b, natural) ==
  \/ Halted(j, k, b)
  \/ ~(natural /\ Armed(j)) /\ \E n \in DOMAIN j.queue : PlaysBy(j, k, b, n)
  \/ natural /\ Armed(j) /\ Took(j, k) /\ Call(b, "skip", "skip", NoRow, 0, j.token + 1)
  \/ /\ natural /\ Armed(j) /\ Took(j, k) /\ Successor(j.queue, j.key) # NoRow
     /\ Call(b, "resolve", "natural", Successor(j.queue, j.key), IndexIn(j.queue, j.key) + 1, j.token + 1)

\* The two parts of a result.
LEMMA Results == \A j, b : Result(j, b).js = j /\ Result(j, b).act = b
BY DEF Result

\* advanceToNext does one of these, or nothing.
LEMMA Advances ==
  ASSUME NEW j, JsShape(j), NEW natural \in BOOLEAN
  PROVE  LET R == AdvanceToNext(j, natural) IN
         \/ R.js = j /\ R.act = NoAct
         \/ Advanced(j, R.js, R.act, natural)
<1> DEFINE R == AdvanceToNext(j, natural)
           b == [j EXCEPT !.advancing = TRUE, !.guard = @ \ {j.key}, !.token = @ + 1]
           next == Successor(j.queue, j.key)
           i == IndexIn(j.queue, j.key) + 1
           taken == [b EXCEPT !.armed = @ \ {next}]
<1>1. Is(b, j.token + 1, j.key, j.guard \ {j.key}, j.queue, j.coordGen, j.epoch, j.armed)
  BY DEF JsShape, Is, JsNames
<1>2. JsShape(b) /\ DOMAIN b = JsNames
  BY <1>1 DEF JsShape, Is
<1>3. \/ j.advancing /\ R = Result(j, NoAct)
      \/ R = Stopping(b, TRUE)
      \/ next # NoRow /\ ~(natural /\ next \in j.armed) /\ R = PlayItemAt(b, i, FALSE, TRUE)
      \/ natural /\ next \in j.armed /\ R = Result([taken EXCEPT !.advancing = FALSE], Skip([token |-> b.token]))
      \/ /\ next # NoRow /\ natural /\ next \in j.armed
         /\ R = Result(taken, [NoAct EXCEPT !.pc = "resolve", !.kind = "natural", !.row = next, !.idx = i,
                                            !.token = b.token, !.advance = TRUE])
  BY Zenon DEF AdvanceToNext
<1> SUFFICES (R.js = j /\ R.act = NoAct) \/ Advanced(j, R.js, R.act, natural)
  OBVIOUS
<1> HIDE DEF b, R, i
<1>a. b.token = j.token + 1 /\ b.queue = j.queue
  BY <1>1 DEF Is
<1>4. CASE j.advancing /\ R = Result(j, NoAct)
  BY <1>4, Results
<1>5. ASSUME R = Stopping(b, TRUE)
      PROVE  Halted(j, R.js, R.act)
  <2>1. Is(StopNow(b), b.token + 1, NoRow, {}, b.queue, b.coordGen + 1, b.epoch + 1, {})
    BY <1>2, Stops
  <2>2. /\ R.js = StopNow(b)
        /\ R.act = [NoAct EXCEPT !.pc = "clear", !.kind = "stop", !.token = b.token + 1, !.advance = TRUE]
    BY <1>5, Results, Zenon DEF Stopping
  <2>3. b.token + 1 = j.token + 2
    BY <1>1 DEF Is, JsShape
  <2>4. Call(R.act, "clear", "stop", NoRow, 0, b.token + 1)
    BY <2>2 DEF Call, NoAct, CallNames
  <2> QED
    BY <1>1, <2>1, <2>2, <2>3, <2>4 DEF Is, Halted
<1>6. CASE R = Stopping(b, TRUE)
  BY <1>5, <1>6, Zenon DEF Advanced
<1>7. CASE next # NoRow /\ ~(natural /\ next \in j.armed) /\ R = PlayItemAt(b, i, FALSE, TRUE)
  <2>1. i \in Nat
    BY <1>7, Places DEF JsShape, i
  <2>a. \A m, v :
          \/ PlayItemAt(b, i, m, v) = Stopping(b, v)
          \/ \E k \in DOMAIN b.queue : PlayItemAt(b, i, m, v) = Result(Claim(b, b.queue[k]), ItemCall(b, k, m, v))
    BY <1>2, <2>1, PlaysItem
  <2>2. \/ R = Stopping(b, TRUE)
        \/ \E k \in DOMAIN b.queue : R = Result(Claim(b, b.queue[k]), ItemCall(b, k, FALSE, TRUE))
    BY <1>7, <2>a, Zenon
  <2>3. ASSUME NEW k \in DOMAIN b.queue, R = Result(Claim(b, b.queue[k]), ItemCall(b, k, FALSE, TRUE))
        PROVE  Advanced(j, R.js, R.act, natural)
    <3>1. R.js = Claim(b, b.queue[k]) /\ R.act = ItemCall(b, k, FALSE, TRUE)
      BY <2>3, Results
    <3>2. Call(R.act, "resolve", "item", b.queue[k], k, b.token)
      BY <3>1 DEF Call, ItemCall, NoAct, CallNames
    <3>3. Is(R.js, b.token, b.queue[k], b.guard, b.queue, b.coordGen, b.epoch, b.armed)
      BY <1>2, <3>1, Claims
    <3>4. PlaysBy(j, R.js, R.act, k)
      BY <1>1, <3>2, <3>3 DEF Is, PlaysBy
    <3> QED
      BY <1>7, <1>a, <3>4 DEF Advanced, Armed
  <2> QED
    BY <1>6, <2>2, <2>3, Zenon
<1>8. Took(j, taken)
  BY <1>1 DEF Is, JsNames, Took
<1> HIDE DEF taken
<1>9. CASE natural /\ next \in j.armed /\ R = Result([taken EXCEPT !.advancing = FALSE], Skip([token |-> b.token]))
  <2>1. R.js = [taken EXCEPT !.advancing = FALSE] /\ R.act = Skip([token |-> b.token])
    BY <1>9, Results
  <2>2. Call(R.act, "skip", "skip", NoRow, 0, b.token)
    BY <2>1 DEF Call, Skip, NoAct, CallNames
  <2>3. Took(j, R.js)
    BY <1>8, <2>1 DEF Is, JsNames, Took
  <2> QED
    BY <1>a, <1>9, <2>2, <2>3, Zenon DEF Advanced, Armed
<1>10. CASE /\ next # NoRow /\ natural /\ next \in j.armed
            /\ R = Result(taken, [NoAct EXCEPT !.pc = "resolve", !.kind = "natural", !.row = next, !.idx = i,
                                               !.token = b.token, !.advance = TRUE])
  <2>1. /\ R.js = taken
        /\ R.act = [NoAct EXCEPT !.pc = "resolve", !.kind = "natural", !.row = next, !.idx = i,
                                 !.token = b.token, !.advance = TRUE]
    BY <1>10, Results, Zenon
  <2>2. Call(R.act, "resolve", "natural", next, i, b.token)
    BY <2>1 DEF Call, NoAct, CallNames
  <2> QED
    BY <1>a, <1>8, <1>10, <2>1, <2>2, Zenon DEF Advanced, Armed, i
<1> QED
  BY <1>3, <1>4, <1>6, <1>7, <1>9, <1>10

\* advanceNext does so only for the row claimed as current.
LEMMA AdvancesNaturally ==
  ASSUME NEW j, JsShape(j), NEW source
  PROVE  LET R == AdvanceNatural(j, source) IN
         \/ Agree(j, R.js) /\ R.act = NoAct
         \/ source = j.key /\ Advanced(j, R.js, R.act, TRUE)
<1> DEFINE k == [j EXCEPT !.dedup = source]
           R == AdvanceNatural(j, source)
<1>1. Agree(j, k) /\ Agree(j, j)
  BY DEF Agree, Is, JsShape, JsNames
<1>2. (R.js = j /\ R.act = NoAct) \/ (source = j.key /\ R = AdvanceToNext(k, TRUE))
  BY DEF AdvanceNatural, Result
<1> SUFFICES (Agree(j, R.js) /\ R.act = NoAct) \/ (source = j.key /\ Advanced(j, R.js, R.act, TRUE))
  OBVIOUS
<1> HIDE DEF k, R
<1>3. JsShape(k)
  BY <1>1 DEF JsShape, Agree, Is
<1>4. CASE source = j.key /\ R = AdvanceToNext(k, TRUE)
  <2>1. (R.js = k /\ R.act = NoAct) \/ Advanced(k, R.js, R.act, TRUE)
    BY <1>3, <1>4, Advances
  <2>2. /\ k.token = j.token /\ k.key = j.key /\ k.guard = j.guard /\ k.queue = j.queue
        /\ k.coordGen = j.coordGen /\ k.epoch = j.epoch /\ k.armed = j.armed
    BY <1>1 DEF Agree, Is
  <2>3. Advanced(k, R.js, R.act, TRUE) => Advanced(j, R.js, R.act, TRUE)
    <3>1. Halted(k, R.js, R.act) = Halted(j, R.js, R.act) /\ Took(k, R.js) = Took(j, R.js) /\ Armed(k) = Armed(j)
      BY <2>2 DEF Halted, Took, Armed
    <3>2. \A n : PlaysBy(k, R.js, R.act, n) = PlaysBy(j, R.js, R.act, n)
      BY <2>2 DEF PlaysBy
    <3> QED
      BY <2>2, <3>1, <3>2 DEF Advanced
  <2> QED
    BY <1>1, <1>4, <2>1, <2>3
<1> QED
  BY <1>1, <1>2, <1>4

-----------------------------------------------------------------------------
(* Calls, registrations and events *)

\* Where a call of each kind stands.
Dispatching == {"resolve", "prepare", "registered"}
Stands(kind, pc) ==
  \/ kind = "take" /\ pc \in {"prepare", "registered", "played", "await"}
  \/ kind = "item" /\ pc \in {"resolve", "prepare", "registered", "played", "await"}
  \/ kind = "natural" /\ pc \in {"resolve", "prepare", "registered", "await"}
  \/ kind = "preload" /\ pc \in {"gate", "loadbg", "loaded"}
  \/ kind = "skip" /\ pc = "skip"
  \/ kind = "stop" /\ pc \in {"clear", "release"}
CallShape(a, token, coordGen) ==
  /\ DOMAIN a = CallNames /\ Stands(a.kind, a.pc)
  /\ a.token \in Nat /\ a.token <= token /\ a.idx \in Nat
  /\ a.kind \in {"take", "item", "natural", "preload"} => a.row \in Rows
  /\ a.kind = "take" /\ a.token = token => a.gen = coordGen
RustNames == {"row", "gen", "next", "confirmed", "position", "fired", "observed"}
Notice == [kind : {"position", "foreground", "advance"}, row : Rows, gen : Nat]
Pending == {events[i] : i \in DOMAIN events}

\* Calls, the registration and events are those of the present token or an earlier one.
Shapes ==
  /\ JsShape(js)
  /\ \A a \in acts : CallShape(a, js.token, js.coordGen)
  /\ DOMAIN rust = RustNames /\ rust.row \in Rows \cup {NoRow}
  /\ rust.gen \in Nat /\ rust.gen <= js.token
  /\ DOMAIN eng = {"fg", "phase", "bg"}
  /\ events \in Seq(Notice) /\ \A e \in Pending : e.gen <= js.token

Live(a) == a.token = js.token

-----------------------------------------------------------------------------
\* An event is emitted behind the others.
LEMMA Emitting ==
  ASSUME events \in Seq(Notice), NEW e \in Notice, Emit(<<e>>)
  PROVE  events' \in Seq(Notice) /\ Pending' = Pending \cup {e}
<1>1. events' = events \o <<e>>
  BY DEF Emit
<1>2. /\ events' \in Seq(Notice)
      /\ DOMAIN events' = 1..(Len(events) + 1) /\ DOMAIN events = 1..Len(events) /\ Len(events) \in Nat
      /\ \A i \in DOMAIN events : events'[i] = events[i]
      /\ events'[Len(events) + 1] = e
  BY <1>1
<1>3. DOMAIN events' = DOMAIN events \cup {Len(events) + 1}
  BY <1>2
<1> QED
  BY <1>2, <1>3, SMTT(60) DEF Pending

\* No event is emitted.
LEMMA EmittingNothing ==
  ASSUME events \in Seq(Notice), Emit(<<>>)
  PROVE  events' = events
BY DEF Emit

\* An event is delivered.
LEMMA Delivering ==
  ASSUME events \in Seq(Notice), events # <<>>, events' = Tail(events)
  PROVE  events' \in Seq(Notice) /\ Head(events) \in Notice /\ Head(events) \in Pending /\ Pending' \subseteq Pending
<1>1. /\ Len(events) \in Nat /\ Len(events) # 0 /\ DOMAIN events = 1..Len(events)
      /\ events' \in Seq(Notice) /\ DOMAIN events' = 1..(Len(events) - 1)
      /\ \A i \in DOMAIN events' : events'[i] = events[i + 1]
      /\ Head(events) = events[1]
  OBVIOUS
<1>2. 1 \in DOMAIN events /\ \A i \in DOMAIN events' : i + 1 \in DOMAIN events
  BY <1>1
<1> QED
  BY <1>1, <1>2 DEF Pending

\* A call that goes on as another, and a call that ends.
LEMMA Moving ==
  ASSUME NEW a, NEW j, DOMAIN j = JsNames, NEW b, Goes(a, j, b), b.pc # "done"
  PROVE  Agree(j, js') /\ acts' = (acts \ {a}) \cup {b}
<1>1. b # NoAct
  BY DEF NoAct
<1> QED
  BY <1>1, GoesOn

\* A call that ends.
LEMMA Leaving ==
  ASSUME NEW a, NEW j, DOMAIN j = JsNames, Goes(a, j, NoAct)
  PROVE  Agree(j, js') /\ acts' = acts \ {a}
BY GoesOn

\* A call is superseded exactly when it has not the present token.
LEMMA LiveIs ==
  ASSUME Shapes, NEW a \in acts
  PROVE  Superseded(a) <=> ~Live(a)
BY DEF Shapes, CallShape, Superseded, Live

\* A superseded call only goes away.
Vanishes(a) ==
  /\ acts' = acts \ {a} /\ Agree(js, js')
  /\ rust' \in {rust, Cleared} /\ UNCHANGED <<events, eng, asked>>
\* Every step of a superseded call is its last one.
LEMMA Spent ==
  ASSUME Shapes, NEW a \in acts, ~Live(a), a.kind \notin {"stop", "skip"}, "skipping" \notin Windows,
         \/ ResolveItem(a) \/ Dispatch(a) \/ SendPlay(a) \/ Played(a) \/ Retries(a) \/ Fails(a)
         \/ SkipTimer(a)
         \/ ArmNext(a)
         \/ ClaimNext(a) \/ RegisterNext(a) \/ NaturalFails(a) \/ NextRegistered(a)
         \/ ArmAfterNatural(a)
         \/ GatePreload(a) \/ SendLoadbg(a) \/ Loaded(a)
         \/ StopClear(a) \/ StopRelease(a)
  PROVE  Vanishes(a)
<1>1. Superseded(a) /\ a.token # js.token /\ DOMAIN js = JsNames /\ CallShape(a, js.token, js.coordGen)
  BY LiveIs DEF Live, Shapes, JsShape
<1>2. ASSUME Ends(a) PROVE acts' = acts \ {a} /\ Agree(js, js')
  BY <1>1, <1>2, Leaving DEF Ends
<1>3. ASSUME Goes(a, LoadDone(a), NoAct) PROVE acts' = acts \ {a} /\ Agree(js, js')
  <2>1. Agree(js, LoadDone(a))
    BY <1>1 DEF Agree, Is, LoadDone, JsNames
  <2>2. Agree(LoadDone(a), js') /\ acts' = acts \ {a}
    BY <1>3, <2>1, Leaving DEF Agree, Is
  <2> QED
    BY <2>1, <2>2 DEF Agree, Is
<1>4. ~Refused(a)
  BY <1>1 DEF Refused
<1>5. StalePreload(a)
  BY <1>1 DEF StalePreload
<1>6. a.pc \notin {"clear", "release", "skip"}
  BY <1>1 DEF CallShape, Stands
<1>7. CASE ResolveItem(a) \/ Played(a) \/ ArmNext(a) \/ ClaimNext(a) \/ NextRegistered(a) \/ ArmAfterNatural(a)
  BY <1>1, <1>2, <1>7 DEF ResolveItem, Played, ArmNext, ClaimNext, NextRegistered, ArmAfterNatural, Vanishes
<1>8. CASE Dispatch(a) \/ RegisterNext(a) \/ SendPlay(a) \/ GatePreload(a)
  BY <1>1, <1>2, <1>5, <1>8 DEF Dispatch, RegisterNext, SendPlay, GatePreload, Vanishes
<1>9. CASE SendLoadbg(a)
  BY <1>3, <1>5, <1>9 DEF SendLoadbg, Vanishes
<1>10. CASE Loaded(a)
  <2> DEFINE j == [LoadDone(a) EXCEPT !.armed = IF StalePreload(a) THEN @ ELSE @ \cup {a.row}]
  <2>1. Agree(js, LoadDone(a))
    BY <1>1 DEF Agree, Is, LoadDone, JsNames
  <2> DEFINE k == LoadDone(a)
  <2>a. j = [k EXCEPT !.armed = @]
    BY <1>5
  <2>2. Agree(js, j)
    <3> HIDE DEF j, k
    <3>1. Agree(js, k)
      BY <2>1 DEF k
    <3> QED
      BY <2>a, <3>1 DEF Agree, Is, JsNames
  <2>b. Goes(a, j, NoAct)
    BY <1>10 DEF Loaded
  <2> HIDE DEF j, k
  <2>3. Agree(j, js') /\ acts' = acts \ {a}
    BY <2>2, <2>b, Leaving, SMTT(60) DEF Agree, Is
  <2> QED
    BY <1>10, <2>2, <2>3 DEF Agree, Is, Loaded, Vanishes
<1>11. ~(Retries(a) \/ Fails(a) \/ NaturalFails(a))
  BY <1>1, <1>4 DEF Retries, Fails, NaturalFails
<1>12. ~(SkipTimer(a) \/ StopClear(a) \/ StopRelease(a))
  BY <1>6 DEF SkipTimer, StopClear, StopRelease
<1> QED
  BY <1>7, <1>8, <1>9, <1>10, <1>11, <1>12

-----------------------------------------------------------------------------
(* What a call in flight does in one step *)

Same(a, b) ==
  /\ DOMAIN b = CallNames
  /\ b.kind = a.kind /\ b.row = a.row /\ b.idx = a.idx /\ b.token = a.token
  /\ b.gen = a.gen /\ b.epoch = a.epoch /\ b.manual = a.manual
Turns(a, b) == acts' = (acts \ {a}) \cup {b}
MovesTo(a, pc) == \E b : Same(a, b) /\ b.pc = pc /\ Turns(a, b)

\* What a call that is not superseded does in one step.
Quits(a) ==
  /\ acts' = acts \ {a} /\ Agree(js, js') /\ UNCHANGED <<rust, events, eng>>
  /\ \/ (a.kind = "preload" \/ a.pc = "await") /\ asked' = asked
     \/ a.kind \in {"take", "item"} /\ asked' = IF a.row = asked THEN Over ELSE asked
Resolves(a) ==
  /\ a.kind = "item" /\ a.pc = "resolve" /\ MovesTo(a, "prepare")
  /\ Is(js', js.token, js.key, {}, js.queue, js.coordGen, js.epoch, js.armed)
  /\ UNCHANGED <<rust, events, eng, asked>>
Registers(a) ==
  /\ a.kind \in {"take", "item", "natural"} /\ a.pc = "prepare" /\ MovesTo(a, "registered")
  /\ Agree(js, js')
  /\ DOMAIN rust' = RustNames /\ rust'.row = a.row /\ rust'.gen = a.token
  /\ Emit(<<>>) \/ Emit(<<[kind |-> "foreground", row |-> a.row, gen |-> a.token]>>)
  /\ UNCHANGED <<eng, asked>>
Sends(a) ==
  /\ a.kind \in {"take", "item"} /\ a.pc = "registered" /\ MovesTo(a, "played")
  /\ Agree(js, js') /\ PLAY(a.row)
  /\ UNCHANGED <<rust, events, asked>>
Guards(a) ==
  /\ (a.kind \in {"take", "item"} /\ a.pc = "played") \/ (a.kind = "natural" /\ a.pc = "registered")
  /\ MovesTo(a, "await")
  /\ Is(js', js.token, js.key, js.guard \cup {a.row}, js.queue, js.coordGen, js.epoch, js.armed)
  /\ UNCHANGED <<rust, events, eng, asked>>
TriesAgain(a) ==
  /\ a.kind = "item" /\ a.pc \in {"prepare", "registered"} /\ MovesTo(a, "prepare")
  /\ Agree(js, js')
  /\ UNCHANGED <<rust, events, eng, asked>>
Pauses(a) ==
  /\ \/ a.kind = "item" /\ a.pc \in {"prepare", "registered"} /\ a.manual # TRUE
     \/ a.kind = "natural" /\ a.pc \in {"resolve", "prepare"}
  /\ \E b : Call(b, "skip", "skip", NoRow, 0, a.token) /\ Turns(a, b)
  /\ Agree(js, js')
  /\ UNCHANGED <<rust, events, eng>> /\ asked' \in {asked, Over}
Skips(a) ==
  /\ a.kind = "skip"
  /\ \/ acts' = acts \ {a} /\ Agree(js, js')
     \/ \E b : Turns(a, b) /\ Advanced(js, js', b, FALSE)
  /\ UNCHANGED <<rust, events, eng, asked>>
LoadsNext(a) ==
  /\ (a.kind \in {"take", "item", "natural"} /\ a.pc = "await") \/ (a.kind = "preload" /\ a.pc = "gate")
  /\ \E b : /\ Call(b, "loadbg", "preload", b.row, 0, a.token) /\ Turns(a, b)
            /\ b.row = (IF a.kind = "preload" THEN a.row ELSE RowAt(js.queue, a.idx + 1)) /\ b.row # NoRow
  /\ Agree(js, js')
  /\ UNCHANGED <<rust, events, eng, asked>>
Follows(a) ==
  /\ a.kind = "natural" /\ a.pc = "resolve" /\ MovesTo(a, "prepare")
  /\ Is(js', js.token, a.row, {}, js.queue, js.coordGen, js.epoch, js.armed)
  /\ UNCHANGED <<rust, events, eng, asked>>
Loads(a) ==
  /\ a.kind = "preload" /\ a.pc = "loadbg" /\ MovesTo(a, "loaded")
  /\ Agree(js, js') /\ LOADBG_AUTO(a.row)
  /\ UNCHANGED <<rust, events, asked>>
Arms(a) ==
  /\ a.kind = "preload" /\ a.pc = "loaded" /\ a.epoch = js.epoch
  /\ acts' = acts \ {a}
  /\ Is(js', js.token, js.key, js.guard, js.queue, js.coordGen, js.epoch, js.armed \cup {a.row})
  /\ UNCHANGED <<rust, events, eng, asked>>
Clears(a) ==
  /\ a.kind = "stop" /\ a.pc = "clear" /\ MovesTo(a, "release")
  /\ Agree(js, js') /\ CLEAR
  /\ UNCHANGED <<rust, events, asked>>
Releases(a) ==
  /\ a.kind = "stop" /\ a.pc = "release" /\ acts' = acts \ {a}
  /\ Agree(js, js') /\ rust' = Cleared
  /\ UNCHANGED <<events, eng, asked>>

-----------------------------------------------------------------------------
\* A call goes on as itself.
LEMMA MovesOn ==
  ASSUME NEW a, DOMAIN a = CallNames, NEW j, DOMAIN j = JsNames, NEW pc, NEW b,
         Same(a, b), b.pc = pc, pc # "done", Goes(a, j, b)
  PROVE  Agree(j, js') /\ MovesTo(a, pc)
<1>1. Agree(j, js') /\ acts' = (acts \ {a}) \cup {b}
  BY Moving
<1> QED
  BY <1>1 DEF MovesTo, Turns

\* A call goes on with its pc alone changed.
LEMMA GoesTo ==
  ASSUME NEW a, DOMAIN a = CallNames, NEW j, DOMAIN j = JsNames, NEW pc, pc # "done",
         Goes(a, j, [a EXCEPT !.pc = pc])
  PROVE  Agree(j, js') /\ MovesTo(a, pc)
<1>1. Same(a, [a EXCEPT !.pc = pc]) /\ [a EXCEPT !.pc = pc].pc = pc
  BY DEF Same, CallNames
<1> HIDE DEF CallNames
<1> QED
  BY <1>1, MovesOn

\* The effects of the steps of playItemAt.
LEMMA LiveResolve == ASSUME Shapes, NEW a \in acts, Live(a), ResolveItem(a) PROVE Resolves(a)
<1> DEFINE j == [js EXCEPT !.guard = {}]
           b == [a EXCEPT !.pc = "prepare", !.next = RowAt(js.queue, a.idx + 1)]
<1>1. ~Superseded(a) /\ DOMAIN js = JsNames /\ DOMAIN a = CallNames
  BY LiveIs DEF Shapes, JsShape, CallShape
<1>2. Goes(a, j, b)
  BY <1>1 DEF ResolveItem
<1>3. Is(j, js.token, js.key, {}, js.queue, js.coordGen, js.epoch, js.armed)
  BY <1>1 DEF Is, JsNames
<1>4. Same(a, b) /\ b.pc = "prepare"
  BY <1>1 DEF Same, CallNames
<1> HIDE DEF j, b
<1>5. Agree(j, js') /\ MovesTo(a, "prepare")
  BY <1>1, <1>2, <1>3, <1>4, MovesOn DEF Is
<1> QED
  BY <1>3, <1>5 DEF Resolves, ResolveItem, Agree, Is

\* The registration of a row, by command or behind the engine's own cut.
LEMMA LiveDispatch ==
  ASSUME Shapes, NEW a \in acts, Live(a), Dispatch(a) \/ RegisterNext(a)
  PROVE  Registers(a)
<1>1. ~Superseded(a) /\ DOMAIN js = JsNames /\ DOMAIN a = CallNames
  BY LiveIs DEF Shapes, JsShape, CallShape
<1>2. /\ Register(a.row, a.token, a.next) /\ Goes(a, js, [a EXCEPT !.pc = "registered"])
      /\ a.pc = "prepare" /\ a.kind \in {"take", "item", "natural"} /\ UNCHANGED <<eng, asked>>
  BY <1>1 DEF Dispatch, RegisterNext
<1>3. Agree(js, js') /\ MovesTo(a, "registered")
  BY <1>1, <1>2, GoesTo
<1>4. /\ DOMAIN rust' = RustNames /\ rust'.row = a.row /\ rust'.gen = a.token
      /\ Emit(<<>>) \/ Emit(<<[kind |-> "foreground", row |-> a.row, gen |-> a.token]>>)
  BY <1>2 DEF Register, RustNames
<1> QED
  BY <1>2, <1>3, <1>4 DEF Registers

\* PLAY is sent.
LEMMA LiveSend ==
  ASSUME Shapes, NEW a \in acts, Live(a), SendPlay(a)
  PROVE  Sends(a)
<1>1. ~Superseded(a) /\ DOMAIN js = JsNames /\ DOMAIN a = CallNames
  BY LiveIs DEF Shapes, JsShape, CallShape
<1>2. Agree(js, js') /\ MovesTo(a, "played")
  BY <1>1, GoesTo DEF SendPlay
<1> QED
  BY <1>1, <1>2 DEF Sends, SendPlay

\* The end guard is set on the new row.
LEMMA LiveGuard ==
  ASSUME Shapes, NEW a \in acts, Live(a), Played(a) \/ NextRegistered(a)
  PROVE  Guards(a)
<1>1. ~Superseded(a) /\ DOMAIN js = JsNames /\ DOMAIN a = CallNames /\ Stands(a.kind, a.pc)
  BY LiveIs DEF Shapes, JsShape, CallShape
<1>2. PICK j : /\ Is(j, js.token, js.key, js.guard \cup {a.row}, js.queue, js.coordGen, js.epoch, js.armed)
               /\ Goes(a, j, [a EXCEPT !.pc = "await"])
  <2>1. CASE Played(a)
    <3> DEFINE j == [js EXCEPT !.playing = TRUE, !.guard = @ \cup {a.row},
                             !.skips = IF a.kind = "item" THEN 0 ELSE @,
                             !.onAir = IF a.kind = "take" THEN a.row ELSE @]
    <3>1. Is(j, js.token, js.key, js.guard \cup {a.row}, js.queue, js.coordGen, js.epoch, js.armed)
      BY <1>1 DEF Is, JsNames
    <3>2. Goes(a, j, [a EXCEPT !.pc = "await"])
      BY <1>1, <2>1 DEF Played
    <3> HIDE DEF j
    <3> QED
      BY <3>1, <3>2
  <2>2. CASE NextRegistered(a)
    <3> DEFINE j == [js EXCEPT !.guard = @ \cup {a.row}]
    <3>1. Is(j, js.token, js.key, js.guard \cup {a.row}, js.queue, js.coordGen, js.epoch, js.armed)
      BY <1>1 DEF Is, JsNames
    <3>2. Goes(a, j, [a EXCEPT !.pc = "await"])
      BY <1>1, <2>2 DEF NextRegistered
    <3> HIDE DEF j
    <3> QED
      BY <3>1, <3>2
  <2> QED
    BY <2>1, <2>2
<1>3. Agree(j, js') /\ MovesTo(a, "await")
  BY <1>1, <1>2, GoesTo DEF Is
<1>4. Is(js', js.token, js.key, js.guard \cup {a.row}, js.queue, js.coordGen, js.epoch, js.armed)
  BY <1>2, <1>3 DEF Agree, Is
<1>5. (a.kind \in {"take", "item"} /\ a.pc = "played") \/ (a.kind = "natural" /\ a.pc = "registered")
  BY <1>1 DEF Played, NextRegistered, Stands
<1> QED
  BY <1>3, <1>4, <1>5 DEF Guards, Played, NextRegistered

\* A failed dispatch starts over.
LEMMA LiveRetry ==
  ASSUME Shapes, NEW a \in acts, Live(a), Retries(a)
  PROVE  TriesAgain(a)
<1> DEFINE b == [a EXCEPT !.pc = "prepare", !.attempt = @ + 1]
<1>1. DOMAIN js = JsNames /\ DOMAIN a = CallNames
  BY DEF Shapes, JsShape, CallShape
<1>2. Same(a, b) /\ b.pc = "prepare"
  BY <1>1 DEF Same, CallNames
<1>3. Goes(a, js, b)
  BY DEF Retries
<1> HIDE DEF b
<1>4. Agree(js, js') /\ MovesTo(a, "prepare")
  BY <1>1, <1>2, <1>3, MovesOn
<1> QED
  BY <1>4 DEF TriesAgain, Retries, Refused

\* Agreement is transitive.
LEMMA AgreeTrans ==
  /\ \A j, k, l : Agree(j, k) /\ Agree(k, l) => Agree(j, l)
  /\ \A j : DOMAIN j = JsNames => Agree(j, j)
  /\ \A j, k : Agree(j, k) => DOMAIN k = JsNames
BY DEF Agree, Is

\* The timer that skips a row keeps the token of the call it skips for.
LEMMA SkipCall ==
  ASSUME NEW a PROVE Call(Skip(a), "skip", "skip", NoRow, 0, a.token)
BY DEF Call, Skip, NoAct, CallNames

\* A call that leaves the fields of the argument alone and waits to skip its row, or ends.
LEMMA ToSkip ==
  ASSUME NEW a, NEW j, Agree(js, j), Goes(a, j, Skip(a))
  PROVE  Agree(js, js') /\ \E b : Call(b, "skip", "skip", NoRow, 0, a.token) /\ Turns(a, b)
<1>1. Call(Skip(a), "skip", "skip", NoRow, 0, a.token) /\ DOMAIN j = JsNames
  BY SkipCall, AgreeTrans
<1>2. Agree(j, js') /\ Turns(a, Skip(a))
  BY <1>1, Moving DEF Call, Turns
<1> QED
  BY <1>1, <1>2, AgreeTrans
\* A call that leaves the fields of the argument alone and ends.
LEMMA ToEnd ==
  ASSUME NEW a, NEW j, Agree(js, j), Goes(a, j, NoAct)
  PROVE  Agree(js, js') /\ acts' = acts \ {a}
<1>1. Agree(j, js') /\ acts' = acts \ {a}
  BY Leaving, AgreeTrans
<1> QED
  BY <1>1, AgreeTrans

\* A dispatch that gives up ends, or waits to skip its row.
LEMMA LiveFail ==
  ASSUME Shapes, NEW a \in acts, Live(a), Fails(a)
  PROVE  Quits(a) \/ Pauses(a)
<1>1. ~Superseded(a) /\ DOMAIN js = JsNames /\ DOMAIN a = CallNames
  BY LiveIs DEF Shapes, JsShape, CallShape
<1>2. PICK flagged \in BOOLEAN :
       LET j == [js EXCEPT !.flagged = IF flagged THEN @ \cup {a.row} ELSE @]
           skips == j.skips + 1
       IN  IF a.kind = "take" \/ a.manual THEN Goes(a, j, NoAct)
           ELSE IF skips >= MAX_CONSECUTIVE_SKIPS THEN Goes(a, [j EXCEPT !.skips = skips], NoAct)
           ELSE Goes(a, Returned([j EXCEPT !.skips = skips], a), Skip(a))
  BY Zenon DEF Fails
<1> DEFINE j == [js EXCEPT !.flagged = IF flagged THEN @ \cup {a.row} ELSE @]
           k == [j EXCEPT !.skips = j.skips + 1]
<1>3. Agree(js, j)
  BY <1>1 DEF Agree, Is, JsNames
<1>4. \/ Goes(a, j, NoAct) \/ Goes(a, k, NoAct)
      \/ a.kind # "take" /\ ~a.manual /\ Goes(a, Returned(k, a), Skip(a))
  BY <1>2, Zenon
<1>5. /\ a.kind \in {"take", "item"} /\ a.pc \in {"prepare", "registered"}
      /\ asked' = (IF a.row = asked THEN Over ELSE asked) /\ UNCHANGED <<rust, events, eng>>
  BY <1>1 DEF Fails, Refused, Given_up
<1> HIDE DEF j
<1>6. Agree(j, k)
  BY <1>3 DEF Agree, Is, JsNames
<1> HIDE DEF k
<1>7. Agree(js, k) /\ DOMAIN k = JsNames
  BY <1>3, <1>6, AgreeTrans
<1>8. Agree(js, Returned(k, a))
  BY <1>7, Returns, AgreeTrans
<1>9. CASE Goes(a, j, NoAct) \/ Goes(a, k, NoAct)
  <2>1. Agree(js, js') /\ acts' = acts \ {a}
    BY <1>3, <1>7, <1>9, ToEnd
  <2> QED
    BY <1>5, <2>1 DEF Quits
<1>10. CASE a.kind # "take" /\ ~a.manual /\ Goes(a, Returned(k, a), Skip(a))
  <2>1. Agree(js, js') /\ \E b : Call(b, "skip", "skip", NoRow, 0, a.token) /\ Turns(a, b)
    BY <1>8, <1>10, ToSkip
  <2>2. a.manual # TRUE
    BY <1>10, Zenon
  <2>3. a.kind = "item" /\ asked' \in {asked, Over}
    BY <1>5, <1>10
  <2> QED
    BY <1>5, <2>1, <2>2, <2>3 DEF Pauses
<1> QED
  BY <1>4, <1>9, <1>10

\* A natural advance whose row cannot be resolved waits to skip it.
LEMMA LiveNaturalFail ==
  ASSUME Shapes, NEW a \in acts, Live(a), NaturalFails(a)
  PROVE  Pauses(a)
<1> DEFINE j == [js EXCEPT !.flagged = @ \cup {a.row}]
<1>1. DOMAIN js = JsNames
  BY DEF Shapes, JsShape
<1>2. Agree(js, j)
  BY <1>1 DEF Agree, Is, JsNames
<1>3. Goes(a, Returned(j, a), Skip(a))
  BY DEF NaturalFails
<1> HIDE DEF j
<1>4. Agree(js, Returned(j, a))
  BY <1>2, Returns, AgreeTrans
<1>5. Agree(js, js') /\ \E b : Call(b, "skip", "skip", NoRow, 0, a.token) /\ Turns(a, b)
  BY <1>3, <1>4, ToSkip
<1> QED
  BY <1>5 DEF Pauses, NaturalFails

\* The skip timer advances the rundown.
LEMMA LiveSkip ==
  ASSUME Shapes, NEW a \in acts, SkipTimer(a)
  PROVE  Skips(a)
<1>1. a.kind = "skip"
  BY DEF Shapes, CallShape, Stands, SkipTimer
<1>2. JsShape(js) /\ Agree(js, js)
  BY AgreeTrans DEF Shapes, JsShape
<1> DEFINE R == AdvanceToNext(js, FALSE)
<1>3. (R.js = js /\ R.act = NoAct) \/ Advanced(js, R.js, R.act, FALSE)
  <2>1. \A natural \in BOOLEAN :
          \/ AdvanceToNext(js, natural).js = js /\ AdvanceToNext(js, natural).act = NoAct
          \/ Advanced(js, AdvanceToNext(js, natural).js, AdvanceToNext(js, natural).act, natural)
    BY <1>2, Advances
  <2> QED
    BY <2>1, Zenon
<1>4. Goes(a, R.js, R.act) /\ UNCHANGED <<rust, events, eng, asked>>
  BY DEF SkipTimer
<1> HIDE DEF R
<1>5. CASE R.js = js /\ R.act = NoAct
  <2>1. Agree(js, js') /\ acts' = acts \ {a}
    BY <1>2, <1>4, <1>5, ToEnd
  <2> QED
    BY <1>1, <1>4, <2>1 DEF Skips
<1>6. CASE Advanced(js, R.js, R.act, FALSE)
  <2>1. R.act.pc # "done"
    BY <1>6 DEF Advanced, Halted, PlaysBy, Call
  <2>2. R.act # NoAct
    BY <2>1 DEF NoAct
  <2>3. js' = R.js /\ Turns(a, R.act)
    BY <1>4, <2>1, <2>2 DEF Goes, Turns
  <2>4. Advanced(js, js', R.act, FALSE)
    BY <1>6, <2>3
  <2> QED
    BY <1>1, <1>4, <2>3, <2>4, Zenon DEF Skips
<1> QED
  BY <1>3, <1>5, <1>6

\* A preload is started behind a clip on air, or the call ends.
LEMMA LivePreload ==
  ASSUME Shapes, NEW a \in acts, Live(a), ArmNext(a) \/ ArmAfterNatural(a) \/ GatePreload(a)
  PROVE  Quits(a) \/ LoadsNext(a)
<1>1. DOMAIN js = JsNames /\ Stands(a.kind, a.pc) /\ Agree(js, js)
  BY AgreeTrans DEF Shapes, JsShape, CallShape
<1>2. UNCHANGED <<rust, events, eng, asked>>
  BY DEF ArmNext, ArmAfterNatural, GatePreload
<1>3. (a.kind \in {"take", "item", "natural"} /\ a.pc = "await") \/ (a.kind = "preload" /\ a.pc = "gate")
  BY <1>1 DEF ArmNext, ArmAfterNatural, GatePreload, Stands
<1> DEFINE r == IF a.kind = "preload" THEN a.row ELSE RowAt(js.queue, a.idx + 1)
           R == Preload(js, a, r)
<1>4. Ends(a) \/ Goes(a, R.js, R.act)
  BY <1>3 DEF ArmNext, ArmAfterNatural, GatePreload
<1>5. Agree(js, R.js) /\ (R.act = NoAct \/ (r # NoRow /\ R.act = LoadCall(js, a, r)))
  BY <1>1, Preloads
<1> HIDE DEF R, r
<1>6. CASE Ends(a) \/ (Goes(a, R.js, R.act) /\ R.act = NoAct)
  <2>1. Agree(js, js') /\ acts' = acts \ {a}
    BY <1>1, <1>5, <1>6, ToEnd DEF Ends
  <2> QED
    BY <1>2, <1>3, <2>1 DEF Quits
<1>7. CASE Goes(a, R.js, R.act) /\ r # NoRow /\ R.act = LoadCall(js, a, r)
  <2>1. Call(R.act, "loadbg", "preload", r, 0, a.token)
    BY <1>7 DEF Call, LoadCall, NoAct, CallNames
  <2>2. R.act.pc # "done" /\ R.act.row = r /\ DOMAIN R.js = JsNames
    BY <1>5, <2>1, AgreeTrans DEF Call
  <2>3. Agree(R.js, js') /\ Turns(a, R.act)
    BY <1>7, <2>2, Moving DEF Turns
  <2>4. Agree(js, js')
    BY <1>5, <2>3, AgreeTrans
  <2> QED
    BY <1>2, <1>3, <1>7, <2>1, <2>2, <2>3, <2>4 DEF LoadsNext, r
<1> QED
  BY <1>4, <1>5, <1>6, <1>7

\* The natural advance claims its row.
LEMMA LiveClaim ==
  ASSUME Shapes, NEW a \in acts, Live(a), ClaimNext(a)
  PROVE  Follows(a)
<1> DEFINE k == Claim(js, a.row)
           j == [k EXCEPT !.guard = {}]
           b == [a EXCEPT !.pc = "prepare", !.next = RowAt(js.queue, a.idx + 1)]
<1>1. ~Superseded(a) /\ DOMAIN js = JsNames /\ DOMAIN a = CallNames
  BY LiveIs DEF Shapes, JsShape, CallShape
<1>2. Goes(a, j, b)
  BY <1>1 DEF ClaimNext
<1>3. Is(k, js.token, a.row, js.guard, js.queue, js.coordGen, js.epoch, js.armed)
  BY <1>1, Claims
<1>4. Same(a, b) /\ b.pc = "prepare"
  BY <1>1 DEF Same, CallNames
<1> HIDE DEF k, b
<1>5. Is(j, js.token, a.row, {}, js.queue, js.coordGen, js.epoch, js.armed)
  BY <1>3 DEF Is, JsNames
<1> HIDE DEF j
<1>6. Agree(j, js') /\ MovesTo(a, "prepare")
  BY <1>1, <1>2, <1>4, <1>5, MovesOn DEF Is
<1>7. Is(js', js.token, a.row, {}, js.queue, js.coordGen, js.epoch, js.armed)
  BY <1>5, <1>6 DEF Agree, Is
<1> QED
  BY <1>6, <1>7 DEF Follows, ClaimNext

\* LOADBG is sent.
LEMMA LiveLoad ==
  ASSUME Shapes, NEW a \in acts, Live(a), SendLoadbg(a)
  PROVE  Quits(a) \/ Loads(a)
<1>1. DOMAIN js = JsNames /\ DOMAIN a = CallNames /\ Stands(a.kind, a.pc) /\ a.pc = "loadbg"
  BY DEF Shapes, JsShape, CallShape, SendLoadbg
<1>2. Agree(js, LoadDone(a))
  BY <1>1 DEF Agree, Is, LoadDone, JsNames
<1>3. a.kind = "preload"
  BY <1>1 DEF Stands
<1>4. CASE Goes(a, LoadDone(a), NoAct) /\ UNCHANGED eng
  <2>1. Agree(js, js') /\ acts' = acts \ {a}
    BY <1>2, <1>4, ToEnd
  <2> QED
    BY <1>3, <1>4, <2>1 DEF Quits, SendLoadbg
<1>5. CASE LOADBG_AUTO(a.row) /\ Goes(a, js, [a EXCEPT !.pc = "loaded"])
  <2>1. Agree(js, js') /\ MovesTo(a, "loaded")
    BY <1>1, <1>5, GoesTo
  <2> QED
    BY <1>1, <1>3, <1>5, <2>1 DEF Loads, SendLoadbg
<1> QED
  BY <1>4, <1>5 DEF SendLoadbg

\* LOADBG is acknowledged: the row is armed unless the preload is stale.
LEMMA LiveLoaded ==
  ASSUME Shapes, NEW a \in acts, Live(a), Loaded(a)
  PROVE  Quits(a) \/ Arms(a)
<1> DEFINE k == LoadDone(a)
           j == [k EXCEPT !.armed = IF StalePreload(a) THEN @ ELSE @ \cup {a.row}]
<1>1. DOMAIN js = JsNames /\ DOMAIN a = CallNames /\ Stands(a.kind, a.pc) /\ a.pc = "loaded"
  BY DEF Shapes, JsShape, CallShape, Loaded
<1>2. Agree(js, k)
  BY <1>1 DEF Agree, Is, LoadDone, JsNames
<1>3. Goes(a, j, NoAct) /\ UNCHANGED <<rust, events, eng, asked>>
  BY DEF Loaded
<1>4. a.kind = "preload"
  BY <1>1 DEF Stands
<1> HIDE DEF k
<1>5. CASE StalePreload(a)
  <2>1. j = [k EXCEPT !.armed = @]
    BY <1>5
  <2> HIDE DEF j
  <2>2. Agree(js, j)
    BY <1>2, <2>1 DEF Agree, Is, JsNames
  <2>3. Agree(js, js') /\ acts' = acts \ {a}
    BY <1>3, <2>2, ToEnd
  <2> QED
    BY <1>3, <1>4, <2>3 DEF Quits
<1>6. CASE ~StalePreload(a)
  <2>1. j = [k EXCEPT !.armed = @ \cup {a.row}]
    BY <1>6
  <2> HIDE DEF j
  <2>2. Is(j, js.token, js.key, js.guard, js.queue, js.coordGen, js.epoch, js.armed \cup {a.row})
    BY <1>2, <2>1 DEF Agree, Is, JsNames
  <2>3. Agree(j, js') /\ acts' = acts \ {a}
    BY <1>3, <2>2, Leaving DEF Is
  <2>4. Is(js', js.token, js.key, js.guard, js.queue, js.coordGen, js.epoch, js.armed \cup {a.row})
    BY <2>2, <2>3 DEF Agree, Is
  <2> QED
    BY <1>1, <1>3, <1>4, <1>6, <2>3, <2>4 DEF Arms, StalePreload
<1> QED
  BY <1>5, <1>6

\* The two steps of a stop.
LEMMA LiveStop ==
  ASSUME Shapes, NEW a \in acts
  PROVE  (StopClear(a) => Clears(a)) /\ (StopRelease(a) => Releases(a))
<1>1. DOMAIN js = JsNames /\ DOMAIN a = CallNames /\ Stands(a.kind, a.pc) /\ Agree(js, js)
  BY AgreeTrans DEF Shapes, JsShape, CallShape
<1>2. ASSUME StopClear(a) PROVE Clears(a)
  <2>1. Agree(js, js') /\ MovesTo(a, "release")
    BY <1>1, <1>2, GoesTo DEF StopClear
  <2> QED
    BY <1>1, <1>2, <2>1 DEF Clears, StopClear, Stands
<1>3. ASSUME StopRelease(a) PROVE Releases(a)
  <2>1. Agree(js, js') /\ acts' = acts \ {a}
    BY <1>1, <1>3, ToEnd DEF StopRelease, Ends
  <2> QED
    BY <1>1, <1>3, <2>1 DEF Releases, StopRelease, Stands
<1> QED
  BY <1>2, <1>3

-----------------------------------------------------------------------------
(* The shapes are kept *)

Effect(a) ==
  \/ Quits(a) \/ Resolves(a) \/ Registers(a) \/ Sends(a) \/ Guards(a) \/ TriesAgain(a) \/ Pauses(a)
  \/ Skips(a) \/ LoadsNext(a) \/ Follows(a) \/ Loads(a) \/ Arms(a) \/ Clears(a) \/ Releases(a)

\* A step of a call in flight: a superseded call vanishes, any other has its effect.
LEMMA Acting ==
  ASSUME Shapes, Activation, "skipping" \notin Windows
  PROVE  \E a \in acts : \/ Vanishes(a) /\ ~Live(a) /\ a.kind \notin {"stop", "skip"}
                         \/ Effect(a) /\ (Live(a) \/ a.kind \in {"stop", "skip"})
<1>1. PICK a \in acts :
        \/ ResolveItem(a) \/ Dispatch(a) \/ SendPlay(a) \/ Played(a) \/ Retries(a) \/ Fails(a)
        \/ SkipTimer(a)
        \/ ArmNext(a)
        \/ ClaimNext(a) \/ RegisterNext(a) \/ NaturalFails(a) \/ NextRegistered(a)
        \/ ArmAfterNatural(a)
        \/ GatePreload(a) \/ SendLoadbg(a) \/ Loaded(a)
        \/ StopClear(a) \/ StopRelease(a)
  BY Zenon DEF Activation
<1>2. CASE ~Live(a) /\ a.kind \notin {"stop", "skip"}
  BY <1>1, <1>2, Spent
<1>3. CASE SkipTimer(a) \/ StopClear(a) \/ StopRelease(a)
  <2>1. Skips(a) \/ Clears(a) \/ Releases(a)
    BY <1>3, LiveSkip, LiveStop
  <2>2. a.kind \in {"stop", "skip"}
    BY <2>1 DEF Skips, Clears, Releases
  <2> QED
    BY <2>1, <2>2 DEF Effect
<1>4. CASE Live(a) /\ ~(SkipTimer(a) \/ StopClear(a) \/ StopRelease(a))
  <2>1. CASE ResolveItem(a) \/ Dispatch(a) \/ RegisterNext(a) \/ SendPlay(a)
    <3>1. Resolves(a) \/ Registers(a) \/ Sends(a)
      BY <1>4, <2>1, LiveResolve, LiveDispatch, LiveSend
    <3> QED
      BY <1>4, <3>1 DEF Effect
  <2>2. CASE Played(a) \/ NextRegistered(a) \/ Retries(a)
    <3>1. Guards(a) \/ TriesAgain(a)
      BY <1>4, <2>2, LiveGuard, LiveRetry
    <3> QED
      BY <1>4, <3>1 DEF Effect
  <2>3. CASE Fails(a) \/ NaturalFails(a) \/ ClaimNext(a)
    <3>1. Quits(a) \/ Pauses(a) \/ Follows(a)
      BY <1>4, <2>3, LiveFail, LiveNaturalFail, LiveClaim
    <3> QED
      BY <1>4, <3>1 DEF Effect
  <2>4. CASE ArmNext(a) \/ ArmAfterNatural(a) \/ GatePreload(a) \/ SendLoadbg(a) \/ Loaded(a)
    <3>1. Quits(a) \/ LoadsNext(a) \/ Loads(a) \/ Arms(a)
      BY <1>4, <2>4, LivePreload, LiveLoad, LiveLoaded
    <3> QED
      BY <1>4, <3>1 DEF Effect
  <2> QED
    BY <1>1, <1>4, <2>1, <2>2, <2>3, <2>4
<1>5. a.kind \in {"stop", "skip"} => SkipTimer(a) \/ StopClear(a) \/ StopRelease(a)
  <2> SUFFICES ASSUME a.kind \in {"stop", "skip"} PROVE SkipTimer(a) \/ StopClear(a) \/ StopRelease(a)
    OBVIOUS
  <2>1. a.pc \in {"clear", "release", "skip"}
    BY SMTT(60) DEF Shapes, CallShape, Stands
  <2>2. ~(ResolveItem(a) \/ Dispatch(a) \/ SendPlay(a) \/ Played(a) \/ Retries(a) \/ Fails(a))
    BY <2>1 DEF ResolveItem, Dispatch, SendPlay, Played, Retries, Fails, Refused
  <2>3. ~(ArmNext(a) \/ ClaimNext(a) \/ RegisterNext(a) \/ NaturalFails(a) \/ NextRegistered(a))
    BY <2>1 DEF ArmNext, ClaimNext, RegisterNext, NaturalFails, NextRegistered
  <2>4. ~(ArmAfterNatural(a) \/ GatePreload(a) \/ SendLoadbg(a) \/ Loaded(a))
    BY <2>1 DEF ArmAfterNatural, GatePreload, SendLoadbg, Loaded
  <2> QED
    BY <1>1, <2>2, <2>3, <2>4
<1> QED
  BY <1>2, <1>3, <1>4, <1>5

-----------------------------------------------------------------------------
\* Calls, events and registrations only age.
LEMMA ShapesKept ==
  ASSUME Shapes, JsShape(js'),
         js'.token > js.token \/ (js'.token = js.token /\ js'.coordGen = js.coordGen),
         \A b \in acts' : b \in acts \/ CallShape(b, js'.token, js'.coordGen),
         DOMAIN rust' = RustNames, rust'.row \in Rows \cup {NoRow}, rust'.gen \in Nat, rust'.gen <= js.token,
         DOMAIN eng' = {"fg", "phase", "bg"},
         events' \in Seq(Notice), \A e \in Pending' : e \in Pending \/ e.gen <= js.token
  PROVE  Shapes'
<1>1. /\ js.token \in Nat /\ js'.token \in Nat /\ js.token <= js'.token
      /\ js'.token = js.token => js'.coordGen = js.coordGen
  BY DEF Shapes, JsShape
<1>2. ASSUME NEW b \in acts' PROVE CallShape(b, js'.token, js'.coordGen)
  <2>1. CASE b \in acts
    <3>1. CallShape(b, js.token, js.coordGen)
      BY <2>1 DEF Shapes
    <3>2. b.token <= js'.token /\ (b.token = js'.token => b.token = js.token /\ js'.token = js.token)
      BY <1>1, <3>1 DEF CallShape
    <3> QED
      BY <1>1, <3>1, <3>2 DEF CallShape
  <2> QED
    BY <2>1
<1>3. rust'.gen <= js'.token
  BY <1>1
<1>4. ASSUME NEW e \in Pending' PROVE e.gen <= js'.token
  <2>1. e \in Notice
    BY DEF Pending
  <2>2. e.gen \in Nat /\ e.gen <= js.token
    BY <2>1 DEF Shapes, Notice
  <2> QED
    BY <1>1, <2>2
<1> QED
  BY <1>2, <1>3, <1>4 DEF Shapes

\* A call that goes on keeps its shape.
LEMMA MovesShape ==
  ASSUME NEW a, NEW pc, NEW token, NEW coordGen, CallShape(a, token, coordGen), MovesTo(a, pc),
         Stands(a.kind, pc)
  PROVE  \A b \in acts' : b \in acts \/ CallShape(b, token, coordGen)
<1>1. PICK b : Same(a, b) /\ b.pc = pc /\ Turns(a, b)
  BY DEF MovesTo
<1>2. CallShape(b, token, coordGen)
  BY <1>1 DEF Same, CallShape, Stands
<1> QED
  BY <1>1, <1>2 DEF Turns

\* The same with the module state left alone, as far as the argument goes.
LEMMA ShapesOfCalls ==
  ASSUME Shapes, JsShape(js'), js'.token = js.token, js'.coordGen = js.coordGen,
         \A b \in acts' : b \in acts \/ CallShape(b, js.token, js.coordGen),
         DOMAIN rust' = RustNames, rust'.row \in Rows \cup {NoRow}, rust'.gen \in Nat, rust'.gen <= js.token,
         DOMAIN eng' = {"fg", "phase", "bg"},
         events' \in Seq(Notice), \A e \in Pending' : e \in Pending \/ e.gen <= js.token
  PROVE  Shapes'
<1>1. \A b \in acts' : b \in acts \/ CallShape(b, js'.token, js'.coordGen)
  OBVIOUS
<1> QED
  BY <1>1, ShapesKept

\* Shapes of module states that agree.
LEMMA AgreeShape ==
  ASSUME NEW j, NEW k, JsShape(j), Agree(j, k)
  PROVE  JsShape(k) /\ k.token = j.token /\ k.coordGen = j.coordGen
BY DEF JsShape, Agree, Is

\* An advance leaves a well-formed state with a newer token.
LEMMA AdvancedShape ==
  ASSUME NEW j, NEW k, NEW b, NEW natural, JsShape(j), Advanced(j, k, b, natural)
  PROVE  JsShape(k) /\ k.token > j.token /\ CallShape(b, k.token, k.coordGen)
<1>1. CASE Halted(j, k, b)
  BY <1>1, SMTT(60) DEF Halted, JsShape, Is, Call, CallShape, Stands
<1>2. ASSUME NEW n \in DOMAIN j.queue, PlaysBy(j, k, b, n)
      PROVE  JsShape(k) /\ k.token > j.token /\ CallShape(b, k.token, k.coordGen)
  <2>1. j.queue[n] \in Rows /\ n \in Nat
    BY DEF JsShape
  <2>2. JsShape(k) /\ k.token = j.token + 1
    BY <1>2, <2>1 DEF PlaysBy, JsShape, Is
  <2> QED
    BY <1>2, <2>1, <2>2, SMTT(60) DEF PlaysBy, Call, CallShape, Stands, JsShape
<1>3. ASSUME Took(j, k) PROVE JsShape(k) /\ k.token = j.token + 1
  BY <1>3 DEF Took, JsShape, Is
<1>4. CASE Took(j, k) /\ Call(b, "skip", "skip", NoRow, 0, j.token + 1)
  BY <1>3, <1>4 DEF Call, CallShape, Stands, JsShape
<1>5. CASE /\ Took(j, k) /\ Successor(j.queue, j.key) # NoRow
           /\ Call(b, "resolve", "natural", Successor(j.queue, j.key), IndexIn(j.queue, j.key) + 1, j.token + 1)
  <2>1. Successor(j.queue, j.key) \in Rows /\ IndexIn(j.queue, j.key) + 1 \in Nat
    BY <1>5, Places DEF JsShape
  <2>2. JsShape(k) /\ k.token = j.token + 1 /\ j.token \in Nat
    BY <1>3, <1>5 DEF JsShape
  <2> QED
    BY <1>5, <2>1, <2>2, SMTT(60) DEF Call, CallShape, Stands, JsShape
<1> QED
  BY <1>1, <1>2, <1>4, <1>5, Zenon DEF Advanced

\* The effects keep every shape.
LEMMA EffectShapes == ASSUME Shapes, NEW a \in acts, Effect(a) PROVE Shapes'
<1>1. /\ JsShape(js) /\ CallShape(a, js.token, js.coordGen) /\ DOMAIN a = CallNames
      /\ DOMAIN rust = RustNames /\ rust.row \in Rows \cup {NoRow}
      /\ rust.gen \in Nat /\ rust.gen <= js.token
      /\ DOMAIN eng = {"fg", "phase", "bg"}
      /\ events \in Seq(Notice) /\ \A e \in Pending : e.gen <= js.token
  BY DEF Shapes, CallShape
<1>2. UNCHANGED events => events' \in Seq(Notice) /\ Pending' = Pending
  BY <1>1 DEF Pending
<1>3. UNCHANGED rust => DOMAIN rust' = RustNames /\ rust'.row \in Rows \cup {NoRow} /\ rust'.gen \in Nat /\ rust'.gen <= js.token
  BY <1>1
<1>4. UNCHANGED eng => DOMAIN eng' = {"fg", "phase", "bg"}
  BY <1>1
<1>5. Agree(js, js') => JsShape(js') /\ js'.token = js.token /\ js'.coordGen = js.coordGen
  BY <1>1, AgreeShape
<1>6. a.kind \in {"take", "item", "natural", "preload"} => a.row \in Rows
  BY <1>1 DEF CallShape
<1>7. CASE Quits(a) \/ Arms(a)
  <2>1. acts' \subseteq acts /\ UNCHANGED <<rust, events, eng>>
    BY <1>7 DEF Quits, Arms
  <2>2. JsShape(js') /\ js'.token = js.token /\ js'.coordGen = js.coordGen
    BY <1>1, <1>5, <1>6, <1>7 DEF Quits, Arms, Is, JsShape
  <2> QED
    BY <1>2, <1>3, <1>4, <2>1, <2>2, ShapesOfCalls
<1>8. CASE Resolves(a) \/ Guards(a) \/ Follows(a)
  <2>1. JsShape(js') /\ js'.token = js.token /\ js'.coordGen = js.coordGen
    BY <1>1, <1>6, <1>8 DEF Resolves, Guards, Follows, Is, JsShape
  <2>2. \A b \in acts' : b \in acts \/ CallShape(b, js.token, js.coordGen)
    BY <1>1, <1>8, MovesShape DEF Resolves, Guards, Follows, Stands
  <2> QED
    BY <1>2, <1>3, <1>4, <1>8, <2>1, <2>2, ShapesOfCalls DEF Resolves, Guards, Follows
<1>9. CASE Registers(a)
  <2>1. \A b \in acts' : b \in acts \/ CallShape(b, js.token, js.coordGen)
    BY <1>1, <1>9, MovesShape DEF Registers, Stands
  <2>2. a.token \in Nat /\ a.token <= js.token /\ a.row \in Rows
    BY <1>1, <1>6, <1>9 DEF CallShape, Registers
  <2> DEFINE e == [kind |-> "foreground", row |-> a.row, gen |-> a.token]
  <2>3. e \in Notice /\ e.gen = a.token
    BY <2>2 DEF Notice
  <2>4. Emit(<<>>) \/ Emit(<<e>>)
    BY <1>9 DEF Registers
  <2> HIDE DEF e
  <2>5. events' \in Seq(Notice) /\ \A f \in Pending' : f \in Pending \/ f.gen <= js.token
    <3>1. CASE Emit(<<>>)
      BY <1>1, <1>2, <3>1, EmittingNothing
    <3>2. CASE Emit(<<e>>)
      BY <1>1, <2>2, <2>3, <3>2, Emitting
    <3> QED
      BY <2>4, <3>1, <3>2
  <2> QED
    BY <1>4, <1>5, <1>9, <2>1, <2>2, <2>5, ShapesOfCalls DEF Registers
<1>10. CASE Sends(a) \/ TriesAgain(a) \/ Loads(a) \/ Clears(a)
  <2>1. \A b \in acts' : b \in acts \/ CallShape(b, js.token, js.coordGen)
    BY <1>1, <1>10, MovesShape DEF Sends, TriesAgain, Loads, Clears, Stands
  <2>2. DOMAIN eng' = {"fg", "phase", "bg"}
    BY <1>1, <1>10 DEF Sends, TriesAgain, Loads, Clears, PLAY, LOADBG_AUTO, CLEAR
  <2> QED
    BY <1>2, <1>3, <1>5, <1>10, <2>1, <2>2, ShapesOfCalls DEF Sends, TriesAgain, Loads, Clears
<1>11. CASE Pauses(a) \/ LoadsNext(a)
  <2>1. PICK b : Turns(a, b) /\ \/ Call(b, "skip", "skip", NoRow, 0, a.token)
                                \/ Call(b, "loadbg", "preload", b.row, 0, a.token) /\ b.row \in Rows
    <3>1. CASE Pauses(a)
      BY <3>1 DEF Pauses
    <3>2. CASE LoadsNext(a)
      <4>1. PICK b : /\ Call(b, "loadbg", "preload", b.row, 0, a.token) /\ Turns(a, b)
                     /\ b.row = (IF a.kind = "preload" THEN a.row ELSE RowAt(js.queue, a.idx + 1)) /\ b.row # NoRow
        BY <3>2 DEF LoadsNext
      <4>2. RowAt(js.queue, a.idx + 1) \in Rows \cup {NoRow}
        BY <1>1 DEF RowAt, JsShape
      <4> QED
        BY <1>6, <4>1, <4>2
    <3> QED
      BY <1>11, <3>1, <3>2
  <2>2. CallShape(b, js.token, js.coordGen)
    BY <1>1, <2>1 DEF Call, CallShape, Stands
  <2>3. \A c \in acts' : c \in acts \/ CallShape(c, js.token, js.coordGen)
    BY <2>1, <2>2 DEF Turns
  <2> QED
    BY <1>2, <1>3, <1>4, <1>5, <1>11, <2>3, ShapesOfCalls DEF Pauses, LoadsNext
<1>12. CASE Skips(a)
  <2>1. UNCHANGED <<rust, events, eng>>
    BY <1>12 DEF Skips
  <2>2. CASE acts' = acts \ {a} /\ Agree(js, js')
    BY <1>2, <1>3, <1>4, <1>5, <2>1, <2>2, ShapesOfCalls
  <2>3. ASSUME NEW b, Turns(a, b), Advanced(js, js', b, FALSE) PROVE Shapes'
    <3>1. JsShape(js') /\ js'.token > js.token /\ CallShape(b, js'.token, js'.coordGen)
      <4>1. \E natural : Advanced(js, js', b, natural)
        BY <2>3, Zenon
      <4> QED
        BY <1>1, <4>1, AdvancedShape
    <3>2. \A c \in acts' : c \in acts \/ CallShape(c, js'.token, js'.coordGen)
      BY <2>3, <3>1 DEF Turns
    <3> QED
      BY <1>2, <1>3, <1>4, <2>1, <3>1, <3>2, ShapesKept
  <2> QED
    BY <1>12, <2>2, <2>3, Zenon DEF Skips
<1>13. CASE Releases(a)
  <2>1. DOMAIN rust' = RustNames /\ rust'.row \in Rows \cup {NoRow} /\ rust'.gen \in Nat /\ rust'.gen <= js.token
    BY <1>1, <1>13 DEF Releases, Cleared, RustNames, JsShape
  <2> QED
    BY <1>2, <1>4, <1>5, <1>13, <2>1, ShapesOfCalls DEF Releases
<1> QED
  BY <1>7, <1>8, <1>9, <1>10, <1>11, <1>12, <1>13 DEF Effect

\* So does a call that vanishes.
LEMMA VanishShapes == ASSUME Shapes, NEW a \in acts, Vanishes(a) PROVE Shapes'
<1>1. JsShape(js') /\ js'.token = js.token /\ js'.coordGen = js.coordGen
  BY AgreeShape DEF Shapes, Vanishes
<1>2. DOMAIN rust' = RustNames /\ rust'.row \in Rows \cup {NoRow} /\ rust'.gen \in Nat /\ rust'.gen <= js.token
  BY DEF Shapes, Vanishes, Cleared, RustNames, JsShape
<1>3. events' \in Seq(Notice) /\ Pending' = Pending /\ DOMAIN eng' = {"fg", "phase", "bg"}
  BY DEF Vanishes, Shapes, Pending
<1>4. acts' \subseteq acts
  BY DEF Vanishes
<1> QED
  BY <1>1, <1>2, <1>3, <1>4, ShapesOfCalls

-----------------------------------------------------------------------------
(* What the operator's commands, the events, the end guard and Rust do *)

Joins(b) == acts' = acts \cup {b}

\* The operator asks for row r: its call is the only one of the new token.
Requests(r) ==
  /\ \E b : /\ Joins(b) /\ DOMAIN b = CallNames
            /\ b.row = r /\ b.idx = IndexIn(js.queue, r) /\ b.token = js.token + 1
            /\ \/ b.kind = "take" /\ b.pc = "prepare" /\ b.gen = js'.coordGen
               \/ b.kind = "item" /\ b.pc = "resolve" /\ b.manual = TRUE
  /\ Contains(js.queue, r)
  /\ Is(js', js.token + 1, r, {}, js.queue, js'.coordGen, js.epoch + 1, {}) /\ js'.coordGen \in Nat
  /\ asked' = r /\ UNCHANGED <<rust, events, eng>>
Halts ==
  /\ \E b : Joins(b) /\ Call(b, "clear", "stop", NoRow, 0, js.token + 1)
  /\ Is(js', js.token + 1, NoRow, {}, js.queue, js.coordGen + 1, js.epoch + 1, {})
  /\ asked' = NoRow /\ UNCHANGED <<rust, events, eng>>
\* The rundown becomes q.
Edited(q) ==
  /\ \/ acts' = acts /\ Agree(js, js')
     \/ acts' = acts /\ Is(js', js.token, js.key, js.guard, q, js.coordGen, js.epoch + 1, {})
     \/ /\ acts' = acts /\ Successor(q, js.key) \in js.armed
        /\ Is(js', js.token, js.key, js.guard, q, js.coordGen, js.epoch, js.armed)
     \/ /\ \E b : Joins(b) /\ Call(b, "gate", "preload", Successor(q, js.key), 0, js.token)
        /\ Successor(q, js.key) # NoRow
        /\ Is(js', js.token, js.key, js.guard, q, js.coordGen, js.epoch + 1, {})
  /\ UNCHANGED <<rust, events, eng, asked>>

\* What a take does.
LEMMA TakeIs == ASSUME Shapes, NEW r \in Rows, Take(r) PROVE Requests(r)
<1> DEFINE k == InvalidatePreloads(js)
           l == Claim(k, r)
           j == [l EXCEPT !.token = @ + 1, !.coordGen = @ + 1, !.guard = {}, !.dedup = NoRow]
           b == [NoAct EXCEPT !.pc = "prepare", !.kind = "take", !.row = r, !.idx = IndexIn(j.queue, r),
                             !.next = Successor(j.queue, r), !.token = j.token, !.gen = j.coordGen]
<1>1. JsShape(js) /\ DOMAIN js = JsNames
  BY DEF Shapes, JsShape
<1>2. /\ js' = j /\ Joins(b) /\ Contains(js.queue, r)
      /\ asked' = r /\ UNCHANGED <<rust, events, eng>>
  BY DEF Take, Commanded, Joins
<1>3. Is(k, js.token, js.key, js.guard, js.queue, js.coordGen, js.epoch + 1, {})
  BY <1>1 DEF Is, InvalidatePreloads, JsNames
<1> HIDE DEF k
<1>4. Is(l, js.token, r, js.guard, js.queue, js.coordGen, js.epoch + 1, {})
  BY <1>3, Claims DEF Is
<1> HIDE DEF l
<1>5. Is(j, js.token + 1, r, {}, js.queue, js.coordGen + 1, js.epoch + 1, {})
  BY <1>4 DEF Is, JsNames
<1> HIDE DEF j
<1>6. /\ DOMAIN b = CallNames /\ b.row = r /\ b.idx = IndexIn(j.queue, r) /\ b.token = j.token
      /\ b.kind = "take" /\ b.pc = "prepare" /\ b.gen = j.coordGen
  BY DEF NoAct, CallNames
<1> HIDE DEF b
<1>7. /\ b.idx = IndexIn(js.queue, r) /\ b.token = js.token + 1 /\ b.gen = js'.coordGen
      /\ Is(js', js.token + 1, r, {}, js.queue, js'.coordGen, js.epoch + 1, {}) /\ js'.coordGen \in Nat
  BY <1>1, <1>2, <1>5, <1>6 DEF Is, JsShape
<1> QED
  BY <1>2, <1>6, <1>7 DEF Requests

\* What a play does.
LEMMA PlayIs == ASSUME Shapes, NEW r \in Rows, Play(r) PROVE Requests(r)
<1> DEFINE k == InvalidatePreloads(js)
           l == Claim(k, r)
           j == [l EXCEPT !.token = @ + 1, !.guard = {}, !.dedup = NoRow]
           i == IndexIn(j.queue, r)
           R == PlayItemAt(j, i, TRUE, FALSE)
<1>1. JsShape(js) /\ DOMAIN js = JsNames
  BY DEF Shapes, JsShape
<1>2. /\ js' = R.js /\ Joins(R.act) /\ Contains(js.queue, r) /\ r \notin js.flagged
      /\ asked' = r /\ UNCHANGED <<rust, events, eng>>
  BY Zenon DEF Play, Commanded, Joins
<1>3. Is(k, js.token, js.key, js.guard, js.queue, js.coordGen, js.epoch + 1, {}) /\ k.flagged = js.flagged
  BY <1>1 DEF Is, InvalidatePreloads, JsNames
<1> HIDE DEF k
<1>4. Is(l, js.token, r, js.guard, js.queue, js.coordGen, js.epoch + 1, {}) /\ l.flagged = js.flagged
  BY <1>3 DEF Is, Claim, JsNames
<1> HIDE DEF l
<1>5. Is(j, js.token + 1, r, {}, js.queue, js.coordGen, js.epoch + 1, {}) /\ j.flagged = js.flagged
  BY <1>4 DEF Is, JsNames
<1> HIDE DEF j
<1>6. JsShape(j)
  BY <1>1, <1>5 DEF Is, JsShape
<1>7. /\ i \in DOMAIN j.queue /\ j.queue[i] = r /\ i \in Nat /\ i = IndexIn(js.queue, r)
      /\ j.queue[i] \notin j.flagged
  <2>1. Contains(j.queue, r) /\ j.queue = js.queue /\ j.flagged = js.flagged
    BY <1>2, <1>5 DEF Is
  <2>2. i \in DOMAIN j.queue /\ j.queue[i] = r
    BY <1>6, <2>1, Places DEF JsShape
  <2>3. i \in Nat
    BY <1>6, <2>2 DEF JsShape
  <2> QED
    BY <1>2, <2>1, <2>2, <2>3
<1> HIDE DEF i
<1>8. R = Result(Claim(j, j.queue[i]), ItemCall(j, i, TRUE, FALSE))
  <2>1. \A m, v : \E n \in DOMAIN j.queue :
          /\ PlayItemAt(j, i, m, v) = Result(Claim(j, j.queue[n]), ItemCall(j, n, m, v))
          /\ i \in DOMAIN j.queue /\ j.queue[i] \notin j.flagged => n = i
    BY <1>6, <1>7, PlaysItem
  <2>2. \A m, v : PlayItemAt(j, i, m, v) = Result(Claim(j, j.queue[i]), ItemCall(j, i, m, v))
    BY <1>7, <2>1
  <2> QED
    BY <2>2, Zenon
<1> HIDE DEF R
<1>9. R.js = Claim(j, r) /\ R.act = ItemCall(j, i, TRUE, FALSE)
  BY <1>7, <1>8, Results
<1>10. Is(R.js, js.token + 1, r, {}, js.queue, js.coordGen, js.epoch + 1, {})
  BY <1>5, <1>9, Claims DEF Is
<1>11. /\ DOMAIN R.act = CallNames /\ R.act.row = j.queue[i] /\ R.act.idx = i /\ R.act.token = j.token
       /\ R.act.kind = "item" /\ R.act.pc = "resolve"
  BY <1>9 DEF ItemCall, NoAct, CallNames
<1>12. R.act.manual = TRUE
  <2>1. \A m, v : ItemCall(j, i, m, v).manual = m
    BY DEF ItemCall, NoAct
  <2> QED
    BY <1>9, <2>1, Zenon
<1>13. /\ R.act.row = r /\ R.act.idx = IndexIn(js.queue, r) /\ R.act.token = js.token + 1
       /\ Is(js', js.token + 1, r, {}, js.queue, js'.coordGen, js.epoch + 1, {}) /\ js'.coordGen \in Nat
  BY <1>1, <1>2, <1>5, <1>7, <1>10, <1>11 DEF Is, JsShape
<1> QED
  BY <1>2, <1>11, <1>12, <1>13 DEF Requests

\* What a stop does.
LEMMA StopIs == ASSUME Shapes, Stop PROVE Halts
<1>1. JsShape(js) /\ DOMAIN js = JsNames
  BY DEF Shapes, JsShape
<1>2. /\ js' = Stopping(js, FALSE).js /\ Joins(Stopping(js, FALSE).act)
      /\ asked' = NoRow /\ UNCHANGED <<rust, events, eng>>
  BY Zenon DEF Stop, Commanded, Joins
<1>3. \A v : Stopping(js, v).js = StopNow(js) /\ Call(Stopping(js, v).act, "clear", "stop", NoRow, 0, js.token + 1)
  <2> TAKE v
  <2>1. /\ Stopping(js, v).js = StopNow(js)
        /\ Stopping(js, v).act = [NoAct EXCEPT !.pc = "clear", !.kind = "stop", !.token = js.token + 1, !.advance = v]
    BY Results DEF Stopping
  <2> QED
    BY <2>1 DEF Call, NoAct, CallNames
<1>4. js' = StopNow(js) /\ \E b : Joins(b) /\ Call(b, "clear", "stop", NoRow, 0, js.token + 1)
  BY <1>2, <1>3, Zenon
<1> QED
  BY <1>1, <1>2, <1>4, Stops DEF Halts

\* What an edit does.
LEMMA EditIs == ASSUME Shapes, NEW q \in Edits, Edit(q) PROVE Edited(q)
<1> DEFINE n == Successor(q, js.key)
           m == [js EXCEPT !.queue = q]
           j == InvalidatePreloads(m)
           R == RefreshQueue(q)
           b == [NoAct EXCEPT !.pc = "gate", !.kind = "preload", !.row = n, !.behind = j.key,
                          !.token = j.token, !.epoch = j.epoch]
<1>1. DOMAIN js = JsNames /\ Agree(js, js)
  BY AgreeTrans DEF Shapes, JsShape
<1>2. js' = R.js /\ acts' = acts \cup ({R.act} \ {NoAct}) /\ UNCHANGED <<rust, events, eng, asked>>
  BY Zenon DEF Edit
<1>3. \/ R = Result(j, NoAct) \/ R = Result(js, NoAct)
      \/ n \in js.armed /\ R = Result(m, NoAct)
      \/ n # NoRow /\ R = Rearm(j, n)
  BY Zenon DEF RefreshQueue
<1> HIDE DEF R
<1>4. Is(m, js.token, js.key, js.guard, q, js.coordGen, js.epoch, js.armed)
  BY <1>1 DEF Is, JsNames
<1> HIDE DEF m
<1>5. Is(j, js.token, js.key, js.guard, q, js.coordGen, js.epoch + 1, {})
  BY <1>4 DEF Is, InvalidatePreloads, JsNames
<1> HIDE DEF j
<1>6. CASE R = Result(j, NoAct)
  <2>1. js' = j /\ acts' = acts
    BY <1>2, <1>6, Results
  <2> QED
    BY <1>2, <1>5, <2>1 DEF Edited
<1>7. CASE R = Result(js, NoAct)
  <2>1. js' = js /\ acts' = acts
    BY <1>2, <1>7, Results
  <2> QED
    BY <1>1, <1>2, <2>1 DEF Edited
<1>8. CASE n \in js.armed /\ R = Result(m, NoAct)
  <2>1. js' = m /\ acts' = acts
    BY <1>2, <1>8, Results
  <2> QED
    BY <1>2, <1>4, <1>8, <2>1 DEF Edited
<1>9. CASE n # NoRow /\ R = Rearm(j, n)
  <2>1. R = Result(j, b)
    BY <1>9 DEF Rearm
  <2>2. Call(b, "gate", "preload", n, 0, j.token)
    BY DEF Call, NoAct, CallNames
  <2>3. b # NoAct
    BY <2>2, ZenonT(60) DEF Call, NoAct
  <2> HIDE DEF b
  <2>4. js' = j /\ Joins(b)
    BY <1>2, <2>1, <2>3, Results DEF Joins
  <2>5. Call(b, "gate", "preload", n, 0, js.token)
    BY <1>5, <2>2 DEF Is
  <2> QED
    BY <1>2, <1>5, <1>9, <2>4, <2>5 DEF Edited
<1> QED
  BY <1>3, <1>6, <1>7, <1>8, <1>9

-----------------------------------------------------------------------------
\* Waiters are told: every call goes on as itself.
Marked ==
  \E f : /\ DOMAIN f = acts /\ acts' = {f[a] : a \in acts}
         /\ \A a \in acts : Same(a, f[a]) /\ f[a].pc = a.pc
\* The rundown is advanced at the end of the row claimed as current.
Advancing(guard) ==
  \E k, b : /\ Advanced(js, k, b, TRUE) /\ Joins(b)
            /\ Is(js', k.token, k.key, k.guard \ guard, k.queue, k.coordGen, k.epoch, k.armed)

\* A delivered event tells a waiter, or advances the rundown when it is of the current row and token.
LEMMA DeliverIs ==
  ASSUME Shapes, Deliver
  PROVE  /\ events' \in Seq(Notice) /\ Pending' \subseteq Pending /\ UNCHANGED <<rust, eng, asked>>
         /\ \/ Agree(js, js') /\ (Marked \/ acts' = acts)
            \/ /\ \E e \in Pending : e.kind = "advance" /\ e.row = js.key /\ e.gen = js.token
               /\ Advancing({})
<1> DEFINE e == Head(events)
<1>1. events' \in Seq(Notice) /\ e \in Notice /\ e \in Pending /\ Pending' \subseteq Pending
  BY Delivering DEF Deliver, Shapes
<1>2. JsShape(js) /\ DOMAIN js = JsNames /\ Agree(js, js) /\ \A a \in acts : DOMAIN a = CallNames
  BY AgreeTrans DEF Shapes, JsShape, CallShape
<1>3. UNCHANGED <<rust, eng, asked>>
  BY DEF Deliver
<1>4. e.kind \in {"position", "foreground", "advance"}
  BY <1>1 DEF Notice
<1>5. CASE e.kind = "position"
  <2>1. /\ js' = [js EXCEPT !.proven = e.row]
        /\ acts' = {IF Waits(a, e.row) THEN [a EXCEPT !.proof = TRUE] ELSE a : a \in acts}
    BY <1>5, Zenon DEF Deliver
  <2> DEFINE f == [a \in acts |-> IF Waits(a, e.row) THEN [a EXCEPT !.proof = TRUE] ELSE a]
  <2>2. acts' = {f[a] : a \in acts}
    BY <2>1
  <2>3. ASSUME NEW a \in acts PROVE Same(a, f[a]) /\ f[a].pc = a.pc
    <3>1. Same(a, a)
      BY <1>2 DEF Same
    <3>2. \A v : Same(a, [a EXCEPT !.proof = v]) /\ [a EXCEPT !.proof = v].pc = a.pc
      BY <1>2 DEF Same, CallNames
    <3>3. f[a] = a \/ f[a] = [a EXCEPT !.proof = TRUE]
      OBVIOUS
    <3> HIDE DEF f
    <3> QED
      BY <3>1, <3>2, <3>3, Zenon
  <2>4. DOMAIN f = acts
    OBVIOUS
  <2> HIDE DEF f
  <2>5. Marked
    BY <2>2, <2>3, <2>4 DEF Marked
  <2>6. Agree(js, js')
    BY <1>2, <2>1 DEF Agree, Is, JsNames
  <2> QED
    BY <1>1, <1>3, <2>5, <2>6
<1>6. CASE e.kind = "foreground"
  <2>1. /\ js' = js
        /\ acts' = {IF Waits(a, e.row) /\ a.kind = "natural"
                    THEN [a EXCEPT !.fg = TRUE] ELSE a : a \in acts}
    <3>1. e.kind # "position"
      BY <1>6
    <3> QED
      BY <1>6, <3>1, Zenon DEF Deliver
  <2> DEFINE f == [a \in acts |-> IF Waits(a, e.row) /\ a.kind = "natural" THEN [a EXCEPT !.fg = TRUE] ELSE a]
  <2>2. acts' = {f[a] : a \in acts}
    BY <2>1
  <2>3. ASSUME NEW a \in acts PROVE Same(a, f[a]) /\ f[a].pc = a.pc
    <3>1. Same(a, a)
      BY <1>2 DEF Same
    <3>2. \A v : Same(a, [a EXCEPT !.fg = v]) /\ [a EXCEPT !.fg = v].pc = a.pc
      BY <1>2 DEF Same, CallNames
    <3>3. f[a] = a \/ f[a] = [a EXCEPT !.fg = TRUE]
      OBVIOUS
    <3> HIDE DEF f
    <3> QED
      BY <3>1, <3>2, <3>3, Zenon
  <2>4. DOMAIN f = acts
    OBVIOUS
  <2> HIDE DEF f
  <2>5. Marked
    BY <2>2, <2>3, <2>4 DEF Marked
  <2> QED
    BY <1>1, <1>2, <1>3, <2>1, <2>5
<1>7. CASE e.kind = "advance"
  <2>1. Start(IF e.gen = js.token THEN AdvanceNatural(js, e.row) ELSE Result(js, NoAct))
    <3>1. e.kind # "position" /\ e.kind # "foreground"
      BY <1>7
    <3> QED
      BY <1>7, <3>1, Zenon DEF Deliver
  <2>2. CASE e.gen = js.token
    <3> DEFINE R == AdvanceNatural(js, e.row)
    <3>1. js' = R.js /\ acts' = acts \cup ({R.act} \ {NoAct})
      BY <2>1, <2>2 DEF Start
    <3>2. (Agree(js, R.js) /\ R.act = NoAct) \/ (e.row = js.key /\ Advanced(js, R.js, R.act, TRUE))
      <4>1. \A s : \/ Agree(js, AdvanceNatural(js, s).js) /\ AdvanceNatural(js, s).act = NoAct
                   \/ s = js.key /\ Advanced(js, AdvanceNatural(js, s).js, AdvanceNatural(js, s).act, TRUE)
        BY <1>2, AdvancesNaturally, Zenon
      <4> QED
        BY <4>1, Zenon
    <3> HIDE DEF R
    <3>3. CASE Agree(js, R.js) /\ R.act = NoAct
      BY <1>1, <1>3, <3>1, <3>3
    <3>4. CASE e.row = js.key /\ Advanced(js, R.js, R.act, TRUE)
      <4>1. R.act # NoAct
        BY <3>4 DEF Advanced, Halted, PlaysBy, Call, NoAct
      <4>2. Joins(R.act)
        BY <3>1, <4>1 DEF Joins
      <4>3. DOMAIN R.js = JsNames
        <5>1. \E natural : Advanced(js, R.js, R.act, natural)
          BY <3>4, Zenon
        <5> QED
          BY <1>2, <5>1, AdvancedShape DEF JsShape
      <4>4. Is(js', R.js.token, R.js.key, R.js.guard \ {}, R.js.queue, R.js.coordGen, R.js.epoch, R.js.armed)
        BY <3>1, <4>3 DEF Is
      <4>5. Advancing({})
        BY <3>4, <4>2, <4>4, Zenon DEF Advancing
      <4> QED
        BY <1>1, <1>3, <1>7, <2>2, <3>4, <4>5
    <3> QED
      BY <3>2, <3>3, <3>4
  <2>3. CASE e.gen # js.token
    <3>1. js' = js /\ acts' = acts
      BY <2>1, <2>3, Results DEF Start
    <3> QED
      BY <1>1, <1>2, <1>3, <3>1
  <2> QED
    BY <2>2, <2>3
<1> QED
  BY <1>4, <1>5, <1>6, <1>7

\* The end guard advances the rundown for the row claimed as current, or falls silent.
LEMMA EndGuardIs ==
  ASSUME Shapes, EndGuard
  PROVE  /\ UNCHANGED <<rust, events, eng, asked>> /\ rust.row \in js.guard /\ eng.phase = "ended"
         /\ \/ /\ acts' = acts
               /\ Is(js', js.token, js.key, js.guard \ {rust.row}, js.queue, js.coordGen, js.epoch, js.armed)
            \/ rust.row = js.key /\ Advancing({rust.row})
<1> DEFINE R == AdvanceNatural(js, rust.row)
           k == R.js
           j == [k EXCEPT !.guard = @ \ {rust.row}]
<1>1. JsShape(js) /\ DOMAIN js = JsNames
  BY DEF Shapes, JsShape
<1>2. /\ UNCHANGED <<rust, events, eng, asked>> /\ rust.row \in js.guard /\ eng.phase = "ended"
      /\ Start(Result(j, R.act))
  BY DEF EndGuard
<1>3. js' = j /\ acts' = acts \cup ({R.act} \ {NoAct})
  BY <1>2, Results DEF Start
<1>4. (Agree(js, k) /\ R.act = NoAct) \/ (rust.row = js.key /\ Advanced(js, k, R.act, TRUE))
  <2>1. \A s : \/ Agree(js, AdvanceNatural(js, s).js) /\ AdvanceNatural(js, s).act = NoAct
               \/ s = js.key /\ Advanced(js, AdvanceNatural(js, s).js, AdvanceNatural(js, s).act, TRUE)
    BY <1>1, AdvancesNaturally, Zenon
  <2> QED
    BY <2>1, Zenon
<1> HIDE DEF R, k
<1>5. DOMAIN k = JsNames => Is(j, k.token, k.key, k.guard \ {rust.row}, k.queue, k.coordGen, k.epoch, k.armed)
  BY DEF Is, JsNames
<1> HIDE DEF j
<1>6. CASE Agree(js, k) /\ R.act = NoAct
  BY <1>2, <1>3, <1>5, <1>6 DEF Agree, Is
<1>7. CASE rust.row = js.key /\ Advanced(js, k, R.act, TRUE)
  <2>1. R.act # NoAct
    BY <1>7 DEF Advanced, Halted, PlaysBy, Call, NoAct
  <2>2. DOMAIN k = JsNames
    <3>1. \E natural : Advanced(js, k, R.act, natural)
      BY <1>7, Zenon
    <3> QED
      BY <1>1, <3>1, AdvancedShape DEF JsShape
  <2>3. Joins(R.act)
    BY <1>3, <2>1 DEF Joins
  <2>4. Is(js', k.token, k.key, k.guard \ {rust.row}, k.queue, k.coordGen, k.epoch, k.armed)
    BY <1>3, <1>5, <2>2
  <2>5. Advancing({rust.row})
    BY <1>7, <2>3, <2>4, Zenon DEF Advancing
  <2> QED
    BY <1>2, <1>7, <2>5
<1> QED
  BY <1>4, <1>6, <1>7

\* Rust tells of what it sees: of the registered row, under its token, and of its end
\* only while its gate is open and another clip, or its end, is on air.
Told ==
  /\ UNCHANGED <<js, acts, eng, asked>>
  /\ DOMAIN rust' = RustNames /\ rust'.row = rust.row /\ rust'.gen = rust.gen
  /\ rust.row # NoRow
  /\ \E e : /\ e \in [kind : {"position", "foreground", "advance"}, row : {rust.row}, gen : {rust.gen}]
            /\ Emit(<<e>>)
            /\ e.kind = "advance" =>
                 ~GateShut /\ (eng.fg # rust.row \/ eng.phase \in {"ending", "ended"})
\* The steps of the Rust playback state tell something of the registered row.
LEMMA RustIs == ASSUME Shapes, Rust PROVE Told
<1>1. DOMAIN rust = RustNames
  BY DEF Shapes
<1>2. UNCHANGED <<js, acts, eng, asked>> /\ rust.row # NoRow
  BY DEF Rust, RustSeesPath, RustSeesPosition, RustSeesEnd, PathNews, PositionNews, EndNews
<1>3. DOMAIN rust' = RustNames /\ rust'.row = rust.row /\ rust'.gen = rust.gen
  <2>1. CASE RustSeesPath
    BY <1>1, <2>1 DEF RustSeesPath, RustNames
  <2>2. CASE RustSeesPosition
    BY <1>1, <2>2 DEF RustSeesPosition, RustNames
  <2>3. CASE RustSeesEnd
    BY <1>1, <2>3 DEF RustSeesEnd, RustNames
  <2> QED
    BY <2>1, <2>2, <2>3 DEF Rust
<1>4. PICK kind \in {"position", "foreground", "advance"} :
        /\ Tells(kind)
        /\ kind = "advance" => ~GateShut /\ (eng.fg # rust.row \/ eng.phase \in {"ending", "ended"})
  <2>1. CASE RustSeesPath
    <3>1. CASE SwitchSeen
      BY <2>1, <3>1 DEF RustSeesPath, SwitchSeen
    <3>2. CASE ~SwitchSeen
      BY <2>1, <3>2 DEF RustSeesPath
    <3> QED
      BY <3>1, <3>2
  <2>2. CASE RustSeesPosition
    BY <2>2 DEF RustSeesPosition
  <2>3. CASE RustSeesEnd
    BY <2>3 DEF RustSeesEnd, EndNews
  <2> QED
    BY <2>1, <2>2, <2>3 DEF Rust
<1> DEFINE e == [kind |-> kind, row |-> rust.row, gen |-> rust.gen]
<1>5. /\ e \in [kind : {"position", "foreground", "advance"}, row : {rust.row}, gen : {rust.gen}]
      /\ Emit(<<e>>) /\ e.kind = kind
  BY <1>4 DEF Tells
<1> HIDE DEF e
<1> QED
  BY <1>2, <1>3, <1>4, <1>5 DEF Told

-----------------------------------------------------------------------------
(* The shapes are inductive *)

\* The shapes hold at the start.
LEMMA InitShapes == Init => Shapes
<1> SUFFICES ASSUME Init PROVE Shapes
  OBVIOUS
<1>1. Rundown \in Seq(Rows) /\ IsInjective(Rundown)
  BY RowAssumption
<1>2. JsShape(js) /\ js.token = 0
  BY <1>1 DEF Init, JsShape, JsNames
<1>3. /\ DOMAIN rust = RustNames /\ rust.row = NoRow /\ rust.gen = 0
      /\ DOMAIN eng = {"fg", "phase", "bg"} /\ acts = {}
  BY DEF Init, RustNames
<1>4. events = <<>> /\ events \in Seq(Notice) /\ Pending = {}
  BY DEF Init, Pending
<1> QED
  BY <1>2, <1>3, <1>4 DEF Shapes

\* What a step that leaves Rust, its events and the engine alone needs to show.
LEMMA ShapesOfJoin ==
  ASSUME Shapes, UNCHANGED <<rust, events, eng>>, JsShape(js'),
         js'.token > js.token \/ (js'.token = js.token /\ js'.coordGen = js.coordGen),
         \A b \in acts' : b \in acts \/ CallShape(b, js'.token, js'.coordGen)
  PROVE  Shapes'
<1>1. /\ DOMAIN rust' = RustNames /\ rust'.row \in Rows \cup {NoRow} /\ rust'.gen \in Nat /\ rust'.gen <= js.token
      /\ DOMAIN eng' = {"fg", "phase", "bg"} /\ events' \in Seq(Notice) /\ Pending' = Pending
  BY DEF Shapes, Pending
<1> QED
  BY <1>1, ShapesKept

\* The operator keeps the shapes.
LEMMA OperatorShapes == ASSUME Shapes, Operator PROVE Shapes'
<1>1. JsShape(js)
  BY DEF Shapes
<1>2. ASSUME NEW r \in Rows, Requests(r) PROVE Shapes'
  <2>1. PICK b : /\ Joins(b) /\ DOMAIN b = CallNames
                 /\ b.row = r /\ b.idx = IndexIn(js.queue, r) /\ b.token = js.token + 1
                 /\ \/ b.kind = "take" /\ b.pc = "prepare" /\ b.gen = js'.coordGen
                    \/ b.kind = "item" /\ b.pc = "resolve" /\ b.manual = TRUE
    BY <1>2 DEF Requests
  <2>2. b.idx \in Nat
    BY <1>1, <1>2, <2>1, Places DEF Requests, JsShape
  <2>3. JsShape(js') /\ js'.token = js.token + 1
    BY <1>1, <1>2 DEF Requests, Is, JsShape
  <2>4. js'.token \in Nat /\ js'.token > js.token
    BY <1>1, <2>3 DEF JsShape
  <2>5. CallShape(b, js'.token, js'.coordGen)
    BY <2>1, <2>2, <2>3, <2>4 DEF CallShape, Stands
  <2>6. \A c \in acts' : c \in acts \/ CallShape(c, js'.token, js'.coordGen)
    BY <2>1, <2>5 DEF Joins
  <2> QED
    BY <1>2, <2>3, <2>4, <2>6, ShapesOfJoin DEF Requests
<1>3. ASSUME Halts PROVE Shapes'
  <2>1. PICK b : Joins(b) /\ Call(b, "clear", "stop", NoRow, 0, js.token + 1)
    BY <1>3 DEF Halts
  <2>2. JsShape(js') /\ js'.token = js.token + 1
    BY <1>1, <1>3, SMTT(60) DEF Halts, Is, JsShape
  <2>3. js'.token \in Nat /\ js'.token > js.token
    BY <1>1, <2>2 DEF JsShape
  <2>4. CallShape(b, js'.token, js'.coordGen)
    BY <2>1, <2>2, <2>3 DEF CallShape, Stands, Call
  <2>5. \A c \in acts' : c \in acts \/ CallShape(c, js'.token, js'.coordGen)
    BY <2>1, <2>4 DEF Joins
  <2> QED
    BY <1>3, <2>2, <2>3, <2>5, ShapesOfJoin DEF Halts
<1>4. ASSUME NEW q \in Edits, Edited(q) PROVE Shapes'
  <2>1. q \in Seq(Rows) /\ IsInjective(q)
    BY RowAssumption
  <2>2. JsShape(js') /\ js'.token = js.token /\ js'.coordGen = js.coordGen
    <3>1. Agree(js, js') => JsShape(js') /\ js'.token = js.token /\ js'.coordGen = js.coordGen
      BY <1>1, AgreeShape
    <3>2. ASSUME Is(js', js.token, js.key, js.guard, q, js.coordGen, js.epoch + 1, {})
                 \/ Is(js', js.token, js.key, js.guard, q, js.coordGen, js.epoch, js.armed)
          PROVE  JsShape(js') /\ js'.token = js.token /\ js'.coordGen = js.coordGen
      BY <1>1, <2>1, <3>2 DEF Is, JsShape
    <3> QED
      BY <1>4, <3>1, <3>2 DEF Edited
  <2>3. \A c \in acts' : c \in acts \/ CallShape(c, js'.token, js'.coordGen)
    <3>1. CASE acts' = acts
      BY <3>1
    <3>2. ASSUME NEW b, Joins(b), Call(b, "gate", "preload", Successor(q, js.key), 0, js.token),
                 Successor(q, js.key) # NoRow
          PROVE  \A c \in acts' : c \in acts \/ CallShape(c, js'.token, js'.coordGen)
      <4>1. Successor(q, js.key) \in Rows
        BY <2>1, <3>2, Places
      <4>2. CallShape(b, js'.token, js'.coordGen)
        BY <1>1, <2>2, <3>2, <4>1 DEF Call, CallShape, Stands, JsShape
      <4> QED
        BY <3>2, <4>2 DEF Joins
    <3> QED
      BY <1>4, <3>1, <3>2 DEF Edited
  <2> QED
    BY <1>4, <2>2, <2>3, ShapesOfJoin DEF Edited
<1>5. \A r \in Rows : Take(r) \/ Play(r) => Requests(r)
  BY TakeIs, PlayIs
<1>6. Stop => Halts
  BY StopIs
<1>7. \A q \in Edits : Edit(q) => Edited(q)
  BY EditIs
<1> QED
  BY <1>2, <1>3, <1>4, <1>5, <1>6, <1>7, Zenon DEF Operator

\* An advance at the end of a clip keeps the shape of the module state.
LEMMA AdvancingShape ==
  ASSUME Shapes, NEW G, Advancing(G)
  PROVE  /\ JsShape(js') /\ js'.token > js.token
         /\ \A c \in acts' : c \in acts \/ CallShape(c, js'.token, js'.coordGen)
<1>1. PICK k, b : /\ Advanced(js, k, b, TRUE) /\ Joins(b)
                  /\ Is(js', k.token, k.key, k.guard \ G, k.queue, k.coordGen, k.epoch, k.armed)
  BY Zenon DEF Advancing
<1>2. JsShape(k) /\ k.token > js.token /\ CallShape(b, k.token, k.coordGen)
  <2>1. \E natural : Advanced(js, k, b, natural)
    BY <1>1, Zenon
  <2> QED
    BY <2>1, AdvancedShape DEF Shapes
<1>3. JsShape(js') /\ js'.token = k.token /\ js'.coordGen = k.coordGen
  BY <1>1, <1>2 DEF Is, JsShape
<1> QED
  BY <1>1, <1>2, <1>3 DEF Joins

\* A delivery keeps the shapes.
LEMMA DeliverShapes == ASSUME Shapes, Deliver PROVE Shapes'
<1>1. /\ DOMAIN rust' = RustNames /\ rust'.row \in Rows \cup {NoRow} /\ rust'.gen \in Nat /\ rust'.gen <= js.token
      /\ DOMAIN eng' = {"fg", "phase", "bg"} /\ events' \in Seq(Notice) /\ Pending' \subseteq Pending
  BY DeliverIs DEF Shapes
<1>2. Agree(js, js') => JsShape(js') /\ js'.token = js.token /\ js'.coordGen = js.coordGen
  BY AgreeShape DEF Shapes
<1>3. CASE Agree(js, js') /\ Marked
  <2>1. PICK f : /\ DOMAIN f = acts /\ acts' = {f[a] : a \in acts}
                 /\ \A a \in acts : Same(a, f[a]) /\ f[a].pc = a.pc
    BY <1>3 DEF Marked
  <2>2. ASSUME NEW a \in acts PROVE CallShape(f[a], js.token, js.coordGen)
    <3>1. CallShape(a, js.token, js.coordGen) /\ Same(a, f[a]) /\ f[a].pc = a.pc
      BY <2>1 DEF Shapes
    <3> QED
      BY <3>1 DEF CallShape, Same
  <2>3. \A c \in acts' : CallShape(c, js'.token, js'.coordGen)
    BY <1>2, <1>3, <2>1, <2>2
  <2> QED
    BY <1>1, <1>2, <1>3, <2>3, ShapesKept
<1>4. CASE Agree(js, js') /\ acts' = acts
  BY <1>1, <1>2, <1>4, ShapesKept
<1>5. CASE Advancing({})
  <2>1. /\ JsShape(js') /\ js'.token > js.token
        /\ \A c \in acts' : c \in acts \/ CallShape(c, js'.token, js'.coordGen)
    BY <1>5, AdvancingShape
  <2> QED
    BY <1>1, <2>1, ShapesKept
<1> QED
  BY <1>3, <1>4, <1>5, DeliverIs

\* The end guard keeps the shapes.
LEMMA EndGuardShapes == ASSUME Shapes, EndGuard PROVE Shapes'
<1>1. UNCHANGED <<rust, events, eng>>
  BY EndGuardIs
<1>2. CASE /\ acts' = acts
           /\ Is(js', js.token, js.key, js.guard \ {rust.row}, js.queue, js.coordGen, js.epoch, js.armed)
  <2>1. JsShape(js') /\ js'.token = js.token /\ js'.coordGen = js.coordGen
    BY <1>2 DEF Shapes, JsShape, Is
  <2> QED
    BY <1>1, <1>2, <2>1, ShapesOfJoin
<1>3. CASE Advancing({rust.row})
  <2>1. /\ JsShape(js') /\ js'.token > js.token
        /\ \A c \in acts' : c \in acts \/ CallShape(c, js'.token, js'.coordGen)
    BY <1>3, AdvancingShape
  <2> QED
    BY <1>1, <2>1, ShapesOfJoin
<1> QED
  BY <1>2, <1>3, EndGuardIs

\* Rust keeps the shapes.
LEMMA RustShapes == ASSUME Shapes, Told PROVE Shapes'
<1>1. PICK e : /\ e \in [kind : {"position", "foreground", "advance"}, row : {rust.row}, gen : {rust.gen}]
               /\ Emit(<<e>>)
  BY DEF Told
<1>2. e \in Notice /\ e.gen = rust.gen
  BY <1>1 DEF Told, Notice, Shapes
<1>3. events' \in Seq(Notice) /\ Pending' = Pending \cup {e}
  BY <1>1, <1>2, Emitting DEF Shapes
<1>4. \A f \in Pending' : f \in Pending \/ f.gen <= js.token
  BY <1>2, <1>3 DEF Shapes
<1> QED
  BY <1>3, <1>4, ShapesKept DEF Told, Shapes

\* The engine and the dedup window keep the shapes.
LEMMA OtherShapes ==
  ASSUME Shapes, DedupWindowEnds \/ Engine \/ Idle \/ UNCHANGED vars
  PROVE  Shapes'
<1>1. acts' = acts /\ UNCHANGED <<rust, events>>
  BY DEF DedupWindowEnds, Engine, FirstFrame, NearEnd, ClipEnds, Idle, vars
<1>2. DOMAIN eng' = {"fg", "phase", "bg"}
  BY DEF DedupWindowEnds, Engine, FirstFrame, NearEnd, ClipEnds, Idle, vars, Shapes
<1>3. Agree(js, js')
  BY DEF DedupWindowEnds, Engine, FirstFrame, NearEnd, ClipEnds, Idle, vars, Agree, Is, Shapes, JsShape, JsNames
<1>4. JsShape(js') /\ js'.token = js.token /\ js'.coordGen = js.coordGen
  BY <1>3, AgreeShape DEF Shapes
<1>5. Pending' = Pending
  BY <1>1 DEF Pending
<1> QED
  BY <1>1, <1>2, <1>4, <1>5, ShapesKept DEF Shapes

\* Every step keeps the shapes.
LEMMA NextShapes == ASSUME Shapes, "skipping" \notin Windows, [Next]_vars PROVE Shapes'
<1>1. ASSUME Activation PROVE Shapes'
  BY <1>1, Acting, EffectShapes, VanishShapes
<1> QED
  BY <1>1, OperatorShapes, DeliverShapes, EndGuardShapes, RustIs, RustShapes, OtherShapes DEF Next

-----------------------------------------------------------------------------
(* The last request stands *)

Plays(a) == a.kind \in {"take", "item"}
Announced(r) == \E e \in Pending : e.kind = "advance" /\ e.row = r /\ e.gen = js.token

\* A stop was asked for last: of the calls that may act on the channel only the stop is left.
Stopped ==
  /\ js.key = NoRow
  /\ \A a \in acts : a.kind # "skip" /\ (Live(a) => a.kind = "stop")
  /\ (\E a \in acts : a.pc = "clear") \/ eng = [fg |-> NoRow, phase |-> "empty", bg |-> NoRow]

\* Row r was asked for last: its call is on its way, behind a gate that keeps the end
\* of an earlier airing from being told under its name, or the row is on air.
OnItsWay(r) ==
  /\ \E a \in acts : Live(a) /\ Plays(a) /\ a.pc \in Dispatching
  /\ js.guard = {}
  /\ rust.row = r /\ rust.gen = js.token => \A a \in acts : Live(a) /\ Plays(a) => a.pc # "resolve"
IsOnAir(r) ==
  /\ \A a \in acts : Live(a) /\ Plays(a) => a.pc \notin Dispatching
  /\ eng.fg = r /\ eng.phase \in {"loading", "playing"}
OnlyCall(r) ==
  /\ js.key = r
  /\ \A a \in acts : a.kind \notin {"skip", "stop"}
  /\ \A a \in acts : Live(a) =>
       a.kind = "preload" \/ (Plays(a) /\ a.row = r /\ (a.kind = "item" => a.manual = TRUE))
  /\ \A a, b \in acts : Live(a) /\ Live(b) /\ Plays(a) /\ Plays(b) => a = b
Requested(r) == OnlyCall(r) /\ ~Announced(r) /\ (OnItsWay(r) \/ IsOnAir(r))

RequestInv ==
  /\ Shapes /\ asked \in Rows \cup {NoRow, Over}
  /\ asked = NoRow => Stopped
  /\ \A r \in Rows : asked = r => Requested(r)

-----------------------------------------------------------------------------
\* The call goes on as itself; it goes; it becomes a preload.
LEMMA OnlyMoves ==
  ASSUME NEW r, OnlyCall(r), NEW a \in acts, Live(a), NEW pc, MovesTo(a, pc),
         js'.token = js.token, js'.key = js.key
  PROVE  /\ OnlyCall(r)'
         /\ Plays(a) => /\ \A c \in acts' : Live(c)' /\ Plays(c) => c.pc = pc
                        /\ \E c \in acts' : Live(c)' /\ Plays(c) /\ c.pc = pc
         /\ ~Plays(a) => /\ \A c \in acts' : Live(c)' /\ Plays(c) => c \in acts /\ Live(c)
                         /\ \A c \in acts : Live(c) /\ Plays(c) => c \in acts' /\ Live(c)'
<1>1. PICK b : Same(a, b) /\ b.pc = pc /\ Turns(a, b)
  BY DEF MovesTo
<1>2. \A c \in acts' : c = b \/ (c \in acts /\ c # a)
  BY <1>1 DEF Turns
<1>3. b \in acts' /\ \A c \in acts : c = a \/ c \in acts'
  BY <1>1 DEF Turns
<1>4. Live(b)' /\ (Plays(b) <=> Plays(a))
  BY <1>1 DEF Live, Same, Plays
<1>5. \A c : Live(c)' <=> Live(c)
  BY DEF Live
<1>6. OnlyCall(r)'
  <2>1. \A c \in acts' : c.kind \notin {"skip", "stop"}
    BY <1>1, <1>2 DEF OnlyCall, Same
  <2>2. ASSUME NEW c \in acts', Live(c)'
        PROVE  c.kind = "preload" \/ (Plays(c) /\ c.row = r /\ (c.kind = "item" => c.manual = TRUE))
    <3>1. CASE c \in acts
      BY <1>5, <2>2, <3>1 DEF OnlyCall
    <3>2. CASE c = b
      BY <1>1, <3>2 DEF OnlyCall, Same, Plays
    <3> QED
      BY <1>2, <3>1, <3>2
  <2>3. \A c, d \in acts' : Live(c)' /\ Live(d)' /\ Plays(c) /\ Plays(d) => c = d
    BY <1>2, <1>4, <1>5 DEF OnlyCall
  <2> QED
    BY <2>1, <2>2, <2>3 DEF OnlyCall, Plays
<1> QED
  BY <1>1, <1>2, <1>3, <1>4, <1>5, <1>6 DEF OnlyCall

\* The calls left are old ones or preloads.
LEMMA OnlyFewer ==
  ASSUME NEW r, OnlyCall(r), js'.token = js.token, js'.key = js.key,
         \A c \in acts' : c \in acts \/ (c.kind = "preload" /\ c.token = js.token)
  PROVE  OnlyCall(r)'
<1>1. \A c : Live(c)' <=> Live(c)
  BY DEF Live
<1>2. \A c \in acts' : c \in acts \/ (c.kind = "preload" /\ ~Plays(c))
  BY DEF Plays
<1> QED
  BY <1>1, <1>2 DEF OnlyCall, Plays

\* Whether a row is on its way or on air is for its own call to tell.
LEMMA SamePlace ==
  ASSUME NEW r, OnItsWay(r) \/ IsOnAir(r), js'.token = js.token,
         \A c \in acts' : Live(c) /\ Plays(c) => c \in acts,
         \A c \in acts : Live(c) /\ Plays(c) => c \in acts' \/ c.pc \notin Dispatching,
         OnItsWay(r) => js'.guard = {} /\ (rust'.row = r /\ rust'.gen = js.token => rust.row = r /\ rust.gen = js.token),
         IsOnAir(r) => eng'.fg = eng.fg /\ eng'.phase \in {"loading", "playing"}
  PROVE  OnItsWay(r)' \/ IsOnAir(r)'
<1>1. \A c : Live(c)' <=> Live(c)
  BY DEF Live
<1>2. CASE OnItsWay(r)
  <2>1. OnItsWay(r)'
    BY <1>1, <1>2 DEF OnItsWay, Plays
  <2> QED
    BY <2>1
<1>3. CASE IsOnAir(r)
  <2>1. IsOnAir(r)'
    BY <1>1, <1>3 DEF IsOnAir, Plays
  <2> QED
    BY <2>1
<1> QED
  BY <1>2, <1>3

\* The calls in flight carry out the request, or give it up.
LEMMA RequestedEffect ==
  ASSUME Shapes, NEW r \in Rows, asked = r, Requested(r), NEW a \in acts, Live(a), Effect(a)
  PROVE  asked' = Over \/ (asked' = r /\ Requested(r)')
<1>1. OnlyCall(r) /\ ~Announced(r) /\ (OnItsWay(r) \/ IsOnAir(r))
  BY DEF Requested
<1>2. /\ a.kind \in {"take", "item", "preload"} /\ Stands(a.kind, a.pc)
      /\ Plays(a) => a.row = r /\ (a.kind = "item" => a.manual = TRUE)
      /\ Plays(a) /\ a.pc \in Dispatching => OnItsWay(r)
      /\ Plays(a) /\ a.pc \notin Dispatching => IsOnAir(r)
  BY <1>1 DEF Shapes, CallShape, OnlyCall, Plays, OnItsWay, IsOnAir
<1>3. ~(Pauses(a) \/ Skips(a) \/ Follows(a) \/ Clears(a) \/ Releases(a))
  BY <1>2 DEF Pauses, Skips, Follows, Clears, Releases, Plays
<1>4. \A c : js'.token = js.token => (Live(c)' <=> Live(c))
  BY DEF Live
<1>5. UNCHANGED events /\ js'.token = js.token => ~Announced(r)'
  BY <1>1 DEF Announced, Pending
<1>6. CASE Quits(a) \/ Arms(a)
  <2>1. /\ acts' = acts \ {a} /\ js'.token = js.token /\ js'.key = js.key /\ js'.guard = js.guard
        /\ UNCHANGED <<rust, events, eng>>
    BY <1>6 DEF Quits, Arms, Agree, Is
  <2>2. asked' = Over \/ (asked' = r /\ (~Plays(a) \/ a.pc \notin Dispatching))
    BY <1>2, <1>6 DEF Quits, Arms, Plays, Dispatching
  <2>3. OnlyCall(r)'
    BY <1>1, <2>1, OnlyFewer
  <2>4. ASSUME ~Plays(a) \/ a.pc \notin Dispatching PROVE OnItsWay(r)' \/ IsOnAir(r)'
    <3>1. /\ OnItsWay(r) => js'.guard = {}
          /\ IsOnAir(r) => eng'.fg = eng.fg /\ eng'.phase \in {"loading", "playing"}
      BY <2>1 DEF OnItsWay, IsOnAir
    <3> QED
      BY <1>1, <2>1, <2>4, <3>1, SamePlace
  <2> QED
    BY <1>5, <2>1, <2>2, <2>3, <2>4 DEF Requested
<1>7. CASE Resolves(a) \/ TriesAgain(a)
  <2>1. /\ Plays(a) /\ a.pc \in Dispatching /\ MovesTo(a, "prepare") /\ asked' = asked
        /\ js'.token = js.token /\ js'.key = js.key /\ js'.guard \subseteq js.guard
        /\ UNCHANGED <<rust, events, eng>>
    BY <1>7 DEF Resolves, TriesAgain, Agree, Is, Plays, Dispatching
  <2>2. /\ OnlyCall(r)'
        /\ \A c \in acts' : Live(c)' /\ Plays(c) => c.pc = "prepare"
        /\ \E c \in acts' : Live(c)' /\ Plays(c) /\ c.pc = "prepare"
    BY <1>1, <2>1, OnlyMoves
  <2>3. OnItsWay(r)'
    BY <1>2, <2>1, <2>2 DEF OnItsWay, Dispatching, Plays
  <2> QED
    BY <1>5, <2>1, <2>2, <2>3 DEF Requested
<1>8. CASE Registers(a)
  <2>1. /\ Plays(a) /\ a.pc \in Dispatching /\ MovesTo(a, "registered") /\ asked' = asked
        /\ js'.token = js.token /\ js'.key = js.key /\ js'.guard = js.guard
        /\ UNCHANGED eng
    BY <1>2, <1>8 DEF Registers, Agree, Is, Plays, Dispatching
  <2>2. /\ OnlyCall(r)'
        /\ \A c \in acts' : Live(c)' /\ Plays(c) => c.pc = "registered"
        /\ \E c \in acts' : Live(c)' /\ Plays(c) /\ c.pc = "registered"
    BY <1>1, <2>1, OnlyMoves
  <2>3. OnItsWay(r)'
    BY <1>2, <2>1, <2>2 DEF OnItsWay, Dispatching, Plays
  <2> DEFINE e == [kind |-> "foreground", row |-> a.row, gen |-> a.token]
  <2>4. e \in Notice /\ e.kind = "foreground" /\ events \in Seq(Notice)
    BY <2>1 DEF Shapes, CallShape, Notice, Plays
  <2>5. Emit(<<>>) \/ Emit(<<e>>)
    BY <1>8 DEF Registers
  <2> HIDE DEF e
  <2>6. ~Announced(r)'
    <3>1. CASE Emit(<<>>)
      BY <1>5, <2>1, <2>4, <3>1, EmittingNothing
    <3>2. CASE Emit(<<e>>)
      <4>1. Pending' = Pending \cup {e}
        BY <2>4, <3>2, Emitting
      <4> QED
        BY <1>1, <2>1, <2>4, <4>1 DEF Announced
    <3> QED
      BY <2>5, <3>1, <3>2
  <2> QED
    BY <2>1, <2>2, <2>3, <2>6 DEF Requested
<1>9. CASE Sends(a) \/ Guards(a)
  <2>1. /\ Plays(a) /\ UNCHANGED <<rust, events>> /\ asked' = asked
        /\ js'.token = js.token /\ js'.key = js.key
        /\ MovesTo(a, "played") \/ MovesTo(a, "await")
    BY <1>2, <1>9 DEF Sends, Guards, Agree, Is, Plays
  <2>2. OnlyCall(r)' /\ \A c \in acts' : Live(c)' /\ Plays(c) => c.pc \in {"played", "await"}
    BY <1>1, <2>1, OnlyMoves
  <2>3. eng'.fg = r /\ eng'.phase \in {"loading", "playing"}
    <3>1. CASE Sends(a)
      BY <1>2, <2>1, <3>1 DEF Sends, PLAY
    <3>2. CASE Guards(a)
      BY <1>2, <2>1, <3>2 DEF Guards, IsOnAir, Plays, Dispatching
    <3> QED
      BY <1>9, <3>1, <3>2
  <2>4. IsOnAir(r)'
    BY <2>2, <2>3 DEF IsOnAir, Dispatching, Plays
  <2> QED
    BY <1>5, <2>1, <2>2, <2>4 DEF Requested
<1>10. CASE LoadsNext(a)
  <2>1. PICK b : Call(b, "loadbg", "preload", b.row, 0, a.token) /\ Turns(a, b)
    BY <1>10 DEF LoadsNext
  <2>2. /\ js'.token = js.token /\ js'.key = js.key /\ js'.guard = js.guard
        /\ UNCHANGED <<rust, events, eng, asked>>
        /\ ~Plays(a) \/ a.pc \notin Dispatching
    BY <1>2, <1>10 DEF LoadsNext, Agree, Is, Plays, Dispatching
  <2>3. \A c \in acts' : c \in acts \/ (c.kind = "preload" /\ c.token = js.token)
    BY <2>1 DEF Turns, Call, Live
  <2>4. OnlyCall(r)'
    BY <1>1, <2>2, <2>3, OnlyFewer
  <2>5. OnItsWay(r)' \/ IsOnAir(r)'
    <3>1. /\ OnItsWay(r) => js'.guard = {}
          /\ IsOnAir(r) => eng'.fg = eng.fg /\ eng'.phase \in {"loading", "playing"}
      BY <2>2 DEF OnItsWay, IsOnAir
    <3>2. /\ \A c \in acts' : Live(c) /\ Plays(c) => c \in acts
          /\ \A c \in acts : Live(c) /\ Plays(c) => c \in acts' \/ c.pc \notin Dispatching
      BY <2>1, <2>2, <2>3 DEF Turns, Plays
    <3> QED
      BY <1>1, <2>2, <3>1, <3>2, SamePlace
  <2> QED
    BY <1>5, <2>2, <2>4, <2>5 DEF Requested
<1>11. CASE Loads(a)
  <2>1. /\ ~Plays(a) /\ MovesTo(a, "loaded") /\ asked' = asked
        /\ js'.token = js.token /\ js'.key = js.key /\ js'.guard = js.guard
        /\ UNCHANGED <<rust, events>> /\ eng' = [eng EXCEPT !.bg = a.row]
    BY <1>11 DEF Loads, Agree, Is, Plays, LOADBG_AUTO
  <2>2. /\ OnlyCall(r)'
        /\ \A c \in acts' : Live(c)' /\ Plays(c) => c \in acts /\ Live(c)
        /\ \A c \in acts : Live(c) /\ Plays(c) => c \in acts' /\ Live(c)'
    BY <1>1, <2>1, OnlyMoves
  <2>3. eng'.fg = eng.fg /\ eng'.phase = eng.phase
    BY <2>1 DEF Shapes
  <2>4. /\ OnItsWay(r) => js'.guard = {}
        /\ IsOnAir(r) => eng'.fg = eng.fg /\ eng'.phase \in {"loading", "playing"}
    BY <2>1, <2>3 DEF OnItsWay, IsOnAir
  <2>5. OnItsWay(r)' \/ IsOnAir(r)'
    BY <1>1, <1>4, <2>1, <2>2, <2>4, SamePlace
  <2> QED
    BY <1>5, <2>1, <2>2, <2>5 DEF Requested
<1> QED
  BY <1>3, <1>6, <1>7, <1>8, <1>9, <1>10, <1>11 DEF Effect

\* What waits to be delivered is well formed.
LEMMA Notices == ASSUME Shapes PROVE \A e \in Pending : e \in Notice /\ e.row \in Rows /\ e.gen \in Nat
<1>1. \A e \in Pending : e \in Notice
  BY DEF Shapes, Pending
<1> QED
  BY <1>1 DEF Notice

\* After a stop only the stop itself acts.
LEMMA StoppedEffect ==
  ASSUME Shapes, Stopped, NEW a \in acts, Effect(a), Live(a) \/ a.kind \in {"stop", "skip"}
  PROVE  asked' = asked /\ Stopped'
<1>1. a.kind = "stop" /\ CallShape(a, js.token, js.coordGen)
  BY DEF Stopped, Shapes
<1>2. Clears(a) \/ Releases(a)
  BY <1>1 DEF Effect, Quits, Resolves, Registers, Sends, Guards, TriesAgain, Pauses, Skips, LoadsNext,
              Follows, Loads, Arms, CallShape, Stands
<1>3. js'.token = js.token /\ js'.key = js.key /\ asked' = asked
  BY <1>2 DEF Clears, Releases, Agree, Is
<1>4. \A c : Live(c)' <=> Live(c)
  BY <1>3 DEF Live
<1>5. \A c \in acts' : c.kind # "skip" /\ (Live(c)' => c.kind = "stop")
  <2>1. \A c \in acts' : c \in acts \/ c.kind = "stop"
    BY <1>1, <1>2 DEF Clears, Releases, MovesTo, Same, Turns
  <2> QED
    BY <1>4, <2>1 DEF Stopped
<1>6. (\E c \in acts' : c.pc = "clear") \/ eng' = [fg |-> NoRow, phase |-> "empty", bg |-> NoRow]
  <2>1. CASE Clears(a)
    BY <2>1 DEF Clears, CLEAR
  <2>2. CASE Releases(a)
    <3>1. a.pc # "clear" /\ acts' = acts \ {a} /\ eng' = eng
      BY <2>2 DEF Releases
    <3> QED
      BY <3>1 DEF Stopped
  <2> QED
    BY <1>2, <2>1, <2>2
<1> QED
  BY <1>3, <1>5, <1>6 DEF Stopped

\* A superseded call, or one that only learns something, does no harm.
LEMMA StoppedFewer ==
  ASSUME Stopped, js'.token = js.token, js'.key = js.key, acts' \subseteq acts, eng' = eng,
         \A a \in acts : a.pc = "clear" => a \in acts'
  PROVE  Stopped'
<1>1. \A c : Live(c)' <=> Live(c)
  BY DEF Live
<1> QED
  BY <1>1 DEF Stopped
\* A step that takes nothing from a request leaves it standing.
LEMMA RequestedFewer ==
  ASSUME NEW r, Requested(r), js'.token = js.token, js'.key = js.key, js'.guard \subseteq js.guard,
         acts' \subseteq acts, \A a \in acts : Live(a) /\ Plays(a) => a \in acts',
         rust'.row = r /\ rust'.gen = js.token => rust.row = r /\ rust.gen = js.token,
         \A e \in Pending' : e \in Pending \/ ~(e.kind = "advance" /\ e.row = r /\ e.gen = js.token),
         IsOnAir(r) => eng'.fg = eng.fg /\ eng'.phase \in {"loading", "playing"}
  PROVE  Requested(r)'
<1>1. OnlyCall(r)'
  BY OnlyFewer DEF Requested
<1>2. ~Announced(r)'
  BY DEF Announced, Requested
<1>3. OnItsWay(r) => js'.guard = {}
  BY DEF OnItsWay
<1>4. OnItsWay(r)' \/ IsOnAir(r)'
  BY <1>3, SamePlace DEF Requested
<1> QED
  BY <1>1, <1>2, <1>4 DEF Requested

\* A superseded call takes nothing from a request.
LEMMA VanishRequest ==
  ASSUME Shapes, NEW a \in acts, Vanishes(a), ~Live(a), a.kind \notin {"stop", "skip"}
  PROVE  /\ asked' = asked /\ (Stopped => Stopped') /\ \A r \in Rows : Requested(r) => Requested(r)'
<1>1. /\ js'.token = js.token /\ js'.key = js.key /\ js'.guard = js.guard /\ acts' = acts \ {a}
      /\ UNCHANGED <<events, eng, asked>> /\ rust' \in {rust, Cleared}
  BY DEF Vanishes, Agree, Is
<1>2. a.pc # "clear"
  BY DEF Shapes, CallShape, Stands
<1>3. Stopped => Stopped'
  BY <1>1, <1>2, StoppedFewer
<1>4. Pending' = Pending
  BY <1>1 DEF Pending
<1>5. ASSUME NEW r \in Rows, Requested(r) PROVE Requested(r)'
  <2>1. rust'.row = r /\ rust'.gen = js.token => rust.row = r /\ rust.gen = js.token
    BY <1>1, RowAssumption DEF Cleared
  <2>2. IsOnAir(r) => eng'.fg = eng.fg /\ eng'.phase \in {"loading", "playing"}
    BY <1>1 DEF IsOnAir
  <2> QED
    BY <1>1, <1>4, <1>5, <2>1, <2>2, RequestedFewer
<1> QED
  BY <1>1, <1>3, <1>5

-----------------------------------------------------------------------------
\* The row asked for is on its way: every other call is superseded.
LEMMA TakeRequest ==
  ASSUME Shapes, NEW r \in Rows, Requests(r), \A a \in acts : a.kind \notin {"skip", "stop"}
  PROVE  asked' = r /\ Requested(r)'
<1>1. PICK b : /\ Joins(b) /\ DOMAIN b = CallNames
               /\ b.row = r /\ b.token = js.token + 1
               /\ \/ b.kind = "take" /\ b.pc = "prepare" /\ b.gen = js'.coordGen
                  \/ b.kind = "item" /\ b.pc = "resolve" /\ b.manual = TRUE
  BY DEF Requests
<1>2. /\ js'.token = js.token + 1 /\ js'.key = r /\ js'.guard = {} /\ asked' = r
      /\ UNCHANGED <<rust, events, eng>> /\ js.token \in Nat
  BY DEF Requests, Is, Shapes, JsShape
<1>3. \A a \in acts : ~Live(a)'
  <2>1. \A a \in acts : a.token \in Nat /\ a.token <= js.token
    BY DEF Shapes, CallShape
  <2> QED
    BY <1>2, <2>1 DEF Live
<1>4. Live(b)' /\ Plays(b) /\ b.pc \in Dispatching /\ b \in acts' /\ \A c \in acts' : c = b \/ c \in acts
  BY <1>1, <1>2 DEF Live, Plays, Dispatching, Joins
<1>5. OnlyCall(r)'
  BY <1>1, <1>2, <1>3, <1>4 DEF OnlyCall, Plays
<1>6. Pending' = Pending /\ \A e \in Pending : e.gen # js'.token
  <2>1. \A e \in Pending : e.gen \in Nat /\ e.gen <= js.token
    BY Notices DEF Shapes
  <2>2. Pending' = Pending
    BY <1>2 DEF Pending
  <2> QED
    BY <1>2, <2>1, <2>2
<1>7. ~Announced(r)'
  BY <1>6 DEF Announced
<1>8. rust'.gen # js'.token
  BY <1>2 DEF Shapes
<1>9. OnItsWay(r)'
  BY <1>2, <1>4, <1>8 DEF OnItsWay, Plays
<1> QED
  BY <1>2, <1>5, <1>7, <1>9 DEF Requested

\* After a stop every other call is superseded.
LEMMA StopRequest ==
  ASSUME Shapes, Halts, \A a \in acts : a.kind \notin {"skip", "stop"}
  PROVE  asked' = NoRow /\ Stopped'
<1>1. PICK b : Joins(b) /\ Call(b, "clear", "stop", NoRow, 0, js.token + 1)
  BY DEF Halts
<1>2. js'.token = js.token + 1 /\ js'.key = NoRow /\ asked' = NoRow /\ js.token \in Nat
  BY DEF Halts, Is, Shapes, JsShape
<1>3. \A a \in acts : ~Live(a)'
  <2>1. \A a \in acts : a.token \in Nat /\ a.token <= js.token
    BY DEF Shapes, CallShape
  <2> QED
    BY <1>2, <2>1 DEF Live
<1>4. b.kind = "stop" /\ b.pc = "clear" /\ b \in acts' /\ \A c \in acts' : c = b \/ c \in acts
  BY <1>1 DEF Call, Joins
<1> QED
  BY <1>2, <1>3, <1>4 DEF Stopped

\* An edit does not touch the request.
LEMMA EditRequest ==
  ASSUME Shapes, NEW q \in Edits, Edited(q)
  PROVE  asked' = asked /\ (Stopped => Stopped') /\ \A r \in Rows : Requested(r) => Requested(r)'
<1>1. /\ js'.token = js.token /\ js'.key = js.key /\ js'.guard = js.guard
      /\ UNCHANGED <<rust, events, eng, asked>>
  BY DEF Edited, Agree, Is
<1>2. Pending' = Pending
  BY <1>1 DEF Pending
<1>3. /\ \A c \in acts' : c \in acts \/ (c.kind = "preload" /\ c.token = js.token)
      /\ acts \subseteq acts'
  BY DEF Edited, Joins, Call
<1>4. ASSUME Stopped PROVE Stopped'
  <2>1. Successor(q, NoRow) = NoRow
    <3>1. q \in Seq(Rows) /\ NoRow \notin Rows /\ IsInjective(q)
      BY RowAssumption
    <3> QED
      BY <3>1, Places
  <2>2. js.key = NoRow
    BY <1>4 DEF Stopped
  <2>3. NoRow \notin js.armed
    BY RowAssumption DEF Shapes, JsShape
  <2>4. acts' = acts
    BY <2>1, <2>2, <2>3 DEF Edited
  <2> QED
    BY <1>1, <1>4, <2>4, StoppedFewer
<1>5. ASSUME NEW r \in Rows, Requested(r) PROVE Requested(r)'
  <2>1. OnlyCall(r)'
    BY <1>1, <1>3, <1>5, OnlyFewer DEF Requested
  <2>2. ~Announced(r)'
    BY <1>1, <1>2, <1>5 DEF Announced, Requested
  <2>3. OnItsWay(r)' \/ IsOnAir(r)'
    <3>1. /\ OnItsWay(r) => js'.guard = {}
          /\ IsOnAir(r) => eng'.fg = eng.fg /\ eng'.phase \in {"loading", "playing"}
      BY <1>1 DEF OnItsWay, IsOnAir
    <3>2. \A c \in acts' : Live(c) /\ Plays(c) => c \in acts
      BY <1>3 DEF Plays
    <3> QED
      BY <1>1, <1>3, <1>5, <3>1, <3>2, SamePlace DEF Requested
  <2> QED
    BY <2>1, <2>2, <2>3 DEF Requested
<1> QED
  BY <1>1, <1>4, <1>5

-----------------------------------------------------------------------------
\* A waiter that is told does not touch it either.
LEMMA MarkedRequest ==
  ASSUME Shapes, Agree(js, js'), Marked, UNCHANGED <<rust, eng>>, Pending' \subseteq Pending
  PROVE  (Stopped => Stopped') /\ \A r \in Rows : Requested(r) => Requested(r)'
<1>1. PICK f : /\ DOMAIN f = acts /\ acts' = {f[a] : a \in acts}
               /\ \A a \in acts : Same(a, f[a]) /\ f[a].pc = a.pc
  BY DEF Marked
<1>2. js'.token = js.token /\ js'.key = js.key /\ js'.guard = js.guard
  BY DEF Agree, Is
<1>3. \A a \in acts : f[a] \in acts' /\ f[a].pc = a.pc /\ f[a].kind = a.kind /\ f[a].row = a.row
                      /\ f[a].manual = a.manual /\ (Live(f[a])' <=> Live(a)) /\ (Plays(f[a]) <=> Plays(a))
  BY <1>1, <1>2 DEF Same, Live, Plays
<1>4. \A c \in acts' : \E a \in acts : c = f[a]
  BY <1>1
<1>5. Stopped => Stopped'
  BY <1>2, <1>3, <1>4 DEF Stopped
<1>6. ASSUME NEW r \in Rows, Requested(r) PROVE Requested(r)'
  <2>1. OnlyCall(r)'
    <3>1. OnlyCall(r)
      BY <1>6 DEF Requested
    <3>2. \A c, d \in acts' : Live(c)' /\ Live(d)' /\ Plays(c) /\ Plays(d) => c = d
      BY <1>3, <1>4, <3>1 DEF OnlyCall
    <3>3. \A c \in acts' : c.kind \notin {"skip", "stop"}
      BY <1>3, <1>4, <3>1 DEF OnlyCall
    <3>4. \A c \in acts' : Live(c)' =>
            c.kind = "preload" \/ (Plays(c) /\ c.row = r /\ (c.kind = "item" => c.manual = TRUE))
      BY <1>3, <1>4, <3>1 DEF OnlyCall
    <3> QED
      BY <1>2, <3>1, <3>2, <3>3, <3>4 DEF OnlyCall, Plays
  <2>2. ~Announced(r)'
    BY <1>2, <1>6 DEF Announced, Requested
  <2>3. CASE OnItsWay(r)
    <3>1. OnItsWay(r)'
      BY <1>2, <1>3, <1>4, <2>3 DEF OnItsWay, Plays
    <3> QED
      BY <2>1, <2>2, <3>1 DEF Requested
  <2>4. CASE IsOnAir(r)
    <3>1. IsOnAir(r)'
      BY <1>2, <1>3, <1>4, <2>4 DEF IsOnAir, Plays
    <3> QED
      BY <2>1, <2>2, <3>1 DEF Requested
  <2> QED
    BY <1>6, <2>3, <2>4 DEF Requested
<1> QED
  BY <1>5, <1>6

\* No delivered event advances the rundown past a request that has not had its run.
LEMMA DeliverRequest ==
  ASSUME Shapes, Deliver
  PROVE  asked' = asked /\ (Stopped => Stopped') /\ \A r \in Rows : Requested(r) => Requested(r)'
<1>1. events' \in Seq(Notice) /\ Pending' \subseteq Pending /\ UNCHANGED <<rust, eng, asked>>
  BY DeliverIs
<1>2. CASE Agree(js, js') /\ Marked
  BY <1>1, <1>2, MarkedRequest
<1>3. CASE Agree(js, js') /\ acts' = acts
  <2>1. js'.token = js.token /\ js'.key = js.key /\ js'.guard = js.guard
    BY <1>3 DEF Agree, Is
  <2>2. Stopped => Stopped'
    BY <1>1, <1>3, <2>1, StoppedFewer
  <2>3. ASSUME NEW r \in Rows, Requested(r) PROVE Requested(r)'
    BY <1>1, <1>3, <2>1, <2>3, RequestedFewer DEF IsOnAir
  <2> QED
    BY <1>1, <2>2, <2>3
<1>4. CASE \E e \in Pending : e.kind = "advance" /\ e.row = js.key /\ e.gen = js.token
  <2>1. PICK e \in Pending : e.kind = "advance" /\ e.row = js.key /\ e.gen = js.token
    BY <1>4
  <2>2. e.row \in Rows
    BY Notices
  <2>3. ~Stopped
    BY <2>1, <2>2, RowAssumption DEF Stopped
  <2>4. \A r \in Rows : ~Requested(r)
    BY <2>1 DEF Requested, OnlyCall, Announced
  <2> QED
    BY <1>1, <2>3, <2>4
<1> QED
  BY <1>2, <1>3, <1>4, DeliverIs

\* Nor does the end guard.
LEMMA EndGuardRequest ==
  ASSUME Shapes, EndGuard
  PROVE  asked' = asked /\ (Stopped => Stopped') /\ \A r \in Rows : Requested(r) => Requested(r)'
<1>1. UNCHANGED <<rust, events, eng, asked>> /\ rust.row \in js.guard /\ eng.phase = "ended"
  BY EndGuardIs
<1>2. \A r \in Rows : ~Requested(r)
  BY <1>1 DEF Requested, OnItsWay, IsOnAir
<1>3. ASSUME Stopped PROVE Stopped'
  <2>1. rust.row # js.key
    BY <1>1, <1>3, RowAssumption DEF Stopped, Shapes, JsShape
  <2>2. acts' = acts /\ js'.token = js.token /\ js'.key = js.key
    BY <2>1, EndGuardIs DEF Is
  <2> QED
    BY <1>1, <1>3, <2>2, StoppedFewer
<1> QED
  BY <1>1, <1>2, <1>3

\* Rust tells of no end of the requested row before it has had its run.
LEMMA RustRequest ==
  ASSUME Shapes, Told
  PROVE  asked' = asked /\ (Stopped => Stopped') /\ \A r \in Rows : Requested(r) => Requested(r)'
<1>1. PICK e : /\ e \in [kind : {"position", "foreground", "advance"}, row : {rust.row}, gen : {rust.gen}]
               /\ Emit(<<e>>)
               /\ e.kind = "advance" =>
                    ~GateShut /\ (eng.fg # rust.row \/ eng.phase \in {"ending", "ended"})
  BY DEF Told
<1>2. UNCHANGED <<js, acts, eng, asked>> /\ rust'.row = rust.row /\ rust'.gen = rust.gen
  BY DEF Told
<1>3. e \in Notice /\ e.row = rust.row /\ e.gen = rust.gen
  BY <1>1 DEF Told, Notice, Shapes
<1>4. Pending' = Pending \cup {e}
  BY <1>1, <1>3, Emitting DEF Shapes
<1>5. Stopped => Stopped'
  BY <1>2, StoppedFewer
<1>6. ASSUME NEW r \in Rows, Requested(r) PROVE Requested(r)'
  <2>1. ASSUME e.kind = "advance", rust.row = r, rust.gen = js.token PROVE FALSE
    <3>1. ~GateShut /\ (eng.fg # r \/ eng.phase \in {"ending", "ended"})
      BY <1>1, <2>1
    <3>2. CASE OnItsWay(r)
      <4>1. PICK a \in acts : Live(a) /\ Plays(a) /\ a.pc \in Dispatching
        BY <3>2 DEF OnItsWay
      <4>2. a.pc \in {"prepare", "registered"} /\ a.token = rust.gen /\ a.kind \in {"take", "item"}
        BY <2>1, <3>2, <4>1 DEF OnItsWay, Live, Plays, Dispatching
      <4> QED
        BY <3>1, <4>2 DEF GateShut
    <3>3. CASE IsOnAir(r)
      BY <3>1, <3>3 DEF IsOnAir
    <3> QED
      BY <1>6, <3>2, <3>3 DEF Requested
  <2>2. \A f \in Pending' : f \in Pending \/ ~(f.kind = "advance" /\ f.row = r /\ f.gen = js.token)
    BY <1>3, <1>4, <2>1
  <2> QED
    BY <1>2, <1>6, <2>2, RequestedFewer DEF IsOnAir
<1> QED
  BY <1>2, <1>5, <1>6

\* The engine plays the requested row to its end.
LEMMA OtherRequest ==
  ASSUME Shapes, DedupWindowEnds \/ Engine \/ Idle \/ UNCHANGED vars, asked \in Rows \cup {NoRow, Over}
  PROVE  /\ asked' \in {asked, Over} /\ (Stopped => Stopped')
         /\ \A r \in Rows : asked' = r /\ Requested(r) => Requested(r)'
<1>1. acts' = acts /\ UNCHANGED <<rust, events>>
  BY DEF DedupWindowEnds, Engine, FirstFrame, NearEnd, ClipEnds, Idle, vars
<1>2. js'.token = js.token /\ js'.key = js.key /\ js'.guard = js.guard
  BY DEF DedupWindowEnds, Engine, FirstFrame, NearEnd, ClipEnds, Idle, vars, Shapes, JsShape, JsNames
<1>3. asked' \in {asked, Over}
  BY DEF DedupWindowEnds, Engine, FirstFrame, NearEnd, ClipEnds, Idle, vars
<1>4. Pending' = Pending
  BY <1>1 DEF Pending
<1>5. ASSUME Stopped PROVE Stopped'
  <2>1. \A c : Live(c)' <=> Live(c)
    BY <1>2 DEF Live
  <2>2. eng' = eng \/ eng.phase # "empty"
    BY DEF DedupWindowEnds, Engine, FirstFrame, NearEnd, ClipEnds, Idle, vars
  <2> QED
    BY <1>1, <1>2, <1>5, <2>1, <2>2 DEF Stopped
<1>6. ASSUME NEW r \in Rows, asked' = r, Requested(r) PROVE Requested(r)'
  <2>1. asked = r
    BY <1>3, <1>6, RowAssumption
  <2>2. IsOnAir(r) => eng'.fg = eng.fg /\ eng'.phase \in {"loading", "playing"}
    <3> SUFFICES ASSUME IsOnAir(r) PROVE eng'.fg = eng.fg /\ eng'.phase \in {"loading", "playing"}
      OBVIOUS
    <3>1. ~NearEnd
      BY <1>6, <2>1, RowAssumption DEF NearEnd, IsOnAir
    <3>2. ~ClipEnds
      BY DEF ClipEnds, IsOnAir
    <3>3. FirstFrame \/ eng' = eng
      BY <3>1, <3>2 DEF DedupWindowEnds, Engine, Idle, vars
    <3> QED
      BY <3>3 DEF FirstFrame, IsOnAir, Shapes
  <2> QED
    BY <1>1, <1>2, <1>4, <1>6, <2>2, RequestedFewer
<1> QED
  BY <1>3, <1>5, <1>6

-----------------------------------------------------------------------------
\* Every step keeps the request standing.
LEMMA NextRequest ==
  ASSUME RequestInv, "stopping" \notin Windows, "skipping" \notin Windows, [Next]_vars
  PROVE  RequestInv'
<1>1. Shapes /\ asked \in Rows \cup {NoRow, Over} /\ (asked = NoRow => Stopped)
      /\ \A r \in Rows : asked = r => Requested(r)
  BY DEF RequestInv
<1>2. Shapes'
  BY <1>1, NextShapes
<1>3. ASSUME asked' \in {asked, Over}, asked' = NoRow /\ Stopped => Stopped',
             \A r \in Rows : asked' = r /\ Requested(r) => Requested(r)'
      PROVE  RequestInv'
  BY <1>1, <1>2, <1>3, RowAssumption DEF RequestInv
<1>4. CASE Operator
  <2>1. CASE \E r \in Rows : Take(r) \/ Play(r)
    <3>1. PICK r \in Rows : Take(r) \/ Play(r)
      BY <2>1, SMTT(60)
    <3>2. Requests(r) /\ \A a \in acts : a.kind \notin {"skip", "stop"}
      BY <1>1, <3>1, TakeIs, PlayIs DEF Take, Play, Allowed
    <3>3. asked' = r /\ Requested(r)'
      BY <1>1, <3>2, TakeRequest
    <3> QED
      BY <1>2, <3>3, RowAssumption DEF RequestInv
  <2>2. CASE Stop
    <3>1. Halts /\ \A a \in acts : a.kind \notin {"skip", "stop"}
      BY <1>1, <2>2, StopIs DEF Stop, Allowed
    <3>2. asked' = NoRow /\ Stopped'
      BY <1>1, <3>1, StopRequest
    <3> QED
      BY <1>2, <3>2, RowAssumption DEF RequestInv
  <2>3. CASE \E q \in Edits : Edit(q)
    BY <1>1, <1>3, <2>3, EditIs, EditRequest
  <2> QED
    BY <1>4, <2>1, <2>2, <2>3 DEF Operator
<1>5. CASE Activation
  <2>1. PICK a \in acts : \/ Vanishes(a) /\ ~Live(a) /\ a.kind \notin {"stop", "skip"}
                          \/ Effect(a) /\ (Live(a) \/ a.kind \in {"stop", "skip"})
    BY <1>1, <1>5, Acting
  <2>2. CASE Vanishes(a) /\ ~Live(a) /\ a.kind \notin {"stop", "skip"}
    BY <1>1, <1>3, <2>2, VanishRequest
  <2>3. CASE Effect(a) /\ (Live(a) \/ a.kind \in {"stop", "skip"})
    <3>1. CASE asked = NoRow
      <4>1. asked' = NoRow /\ Stopped'
        BY <1>1, <2>3, <3>1, StoppedEffect
      <4> QED
        BY <1>2, <4>1, RowAssumption DEF RequestInv
    <3>2. CASE asked \in Rows
      <4>1. Requested(asked) /\ Live(a)
        BY <1>1, <2>3, <3>2 DEF Requested, OnlyCall
      <4>2. asked' = Over \/ (asked' = asked /\ \A r \in Rows : asked = r => Requested(r)')
        BY <1>1, <2>3, <3>2, <4>1, RequestedEffect
      <4> QED
        BY <1>2, <3>2, <4>2, RowAssumption DEF RequestInv
    <3>3. CASE asked = Over
      <4>1. asked' = asked \/ asked' = Over
        BY <2>3 DEF Effect, Quits, Resolves, Registers, Sends, Guards, TriesAgain, Pauses, Skips, LoadsNext,
                    Follows, Loads, Arms, Clears, Releases
      <4> QED
        BY <1>2, <3>3, <4>1, RowAssumption DEF RequestInv
    <3> QED
      BY <1>1, <3>1, <3>2, <3>3
  <2> QED
    BY <2>1, <2>2, <2>3
<1>6. CASE Deliver
  BY <1>1, <1>3, <1>6, DeliverRequest
<1>7. CASE EndGuard
  BY <1>1, <1>3, <1>7, EndGuardRequest
<1>8. CASE Rust
  BY <1>1, <1>3, <1>8, RustIs, RustRequest
<1>9. CASE DedupWindowEnds \/ Engine \/ Idle \/ UNCHANGED vars
  BY <1>1, <1>3, <1>9, OtherRequest
<1> QED
  BY <1>4, <1>5, <1>6, <1>7, <1>8, <1>9 DEF Next

\* Whoever acts last wins, as long as the operator waits for a stop to clear the layer and
\* for a row that fails to be skipped: the row asked for last is on its way or on air
\* until it has had its run, and after a stop nobody puts a row on air.
THEOREM LastRequestWins ==
  ASSUME "stopping" \notin Windows, "skipping" \notin Windows
  PROVE  Spec => []LastRequestStands
<1>1. Init => RequestInv
  <2> SUFFICES ASSUME Init PROVE RequestInv
    OBVIOUS
  <2>1. asked = Over
    BY DEF Init
  <2> QED
    BY <2>1, InitShapes, RowAssumption DEF RequestInv
<1>2. RequestInv /\ [Next]_vars => RequestInv'
  BY NextRequest
<1>3. RequestInv => LastRequestStands
  <2> SUFFICES ASSUME RequestInv, acts = {}, asked # Over PROVE eng.fg = asked
    BY DEF LastRequestStands, Settled
  <2>1. CASE asked = NoRow
    BY <2>1 DEF RequestInv, Stopped
  <2>2. CASE asked \in Rows
    BY <2>2 DEF RequestInv, Requested, OnItsWay, IsOnAir
  <2> QED
    BY <2>1, <2>2 DEF RequestInv
<1> QED
  BY <1>1, <1>2, <1>3, PTL DEF Spec

-----------------------------------------------------------------------------
(* The armed rows are the engine's *)

\* While a call dispatches its row, or a failed row waits to be skipped, nothing is about
\* to advance the rundown.
Quiet ==
  /\ js.key \notin js.guard
  /\ \A e \in Pending : ~(e.kind = "advance" /\ e.gen = js.token)
  /\ rust.gen = js.token =>
       \A a \in acts : Live(a) => a.kind = "skip" \/ (Plays(a) /\ a.pc \in {"prepare", "registered"})
Trying(a) ==
  \/ a.kind = "skip"
  \/ Plays(a) /\ a.pc \in Dispatching
  \/ a.kind = "natural" /\ a.pc \in {"resolve", "prepare"}

\* The engine holds the row behind the clip on air, or has just cut to it.
Held(r) == eng.bg = r \/ (eng.fg = r /\ eng.bg = NoRow)

\* What a call knows of the rundown.
AtItsPlace(a) ==
  /\ Plays(a) \/ (a.kind = "natural" /\ a.pc # "resolve") =>
       a.row = js.key /\ Contains(js.queue, js.key) /\ a.idx = IndexIn(js.queue, js.key)
  /\ a.kind = "natural" /\ a.pc = "resolve" =>
       /\ Contains(js.queue, js.key) /\ a.idx = IndexIn(js.queue, js.key) + 1
       /\ a.row = RowAt(js.queue, a.idx) /\ a.row # NoRow
  /\ a.kind = "preload" => a.row = Successor(js.queue, js.key)
  /\ a.kind = "preload" /\ a.pc = "loaded" /\ a.epoch = js.epoch => Held(a.row)

\* One call at most is not superseded, and while it lives no row is believed armed.
ArmedInv ==
  /\ Shapes
  /\ \A a, b \in acts : Live(a) /\ Live(b) => a = b
  /\ \A a \in acts : a.kind \in {"stop", "skip"} => Live(a)
  /\ \A a \in acts : Live(a) => js.armed = {} /\ AtItsPlace(a)
  /\ (\E a \in acts : a.kind = "stop") => js.key = NoRow
  /\ (\E a \in acts : Live(a) /\ Trying(a)) => Quiet
  /\ js.guard \subseteq {js.key}
  /\ \A r \in js.armed : r # NoRow /\ r = Successor(js.queue, js.key) /\ Held(r)

-----------------------------------------------------------------------------
\* A call that no longer matters.
Spare(c) == ~Live(c) /\ c.kind \notin {"stop", "skip"}
\* A step that leaves call b as the only one not superseded.
LEMMA OneLeft ==
  ASSUME Shapes', NEW b, \A c \in acts' : c = b \/ Spare(c)',
         js'.armed = {}, Live(b)', AtItsPlace(b)', b.kind = "stop" => js'.key = NoRow,
         Trying(b) => Quiet', js'.guard \subseteq {js'.key}
  PROVE  ArmedInv'
<1>1. \A c \in acts' : Live(c)' => c = b
  BY DEF Spare
<1>2. \A c \in acts' : c.kind \in {"stop", "skip"} => c = b
  BY DEF Spare
<1>3. (\E c \in acts' : Live(c)' /\ Trying(c)') => Quiet'
  <2>1. \A c : Trying(c)' <=> Trying(c)
    BY DEF Trying, Plays
  <2> QED
    BY <1>1, <2>1
<1> QED
  BY <1>1, <1>2, <1>3 DEF ArmedInv
\* A step that leaves none.
LEMMA NoneLeft ==
  ASSUME Shapes', \A c \in acts' : Spare(c)', js'.guard \subseteq {js'.key},
         \A r \in js'.armed : r # NoRow /\ r = Successor(js'.queue, js'.key) /\ Held(r)'
  PROVE  ArmedInv'
BY DEF ArmedInv, Spare

\* Beside a live call nobody is live, and nobody is a stop or a skip.
LEMMA OthersSpare ==
  ASSUME ArmedInv, NEW a \in acts, Live(a), js'.token = js.token
  PROVE  \A c \in acts : c = a \/ Spare(c)'
BY DEF ArmedInv, Spare, Live

\* The only live call goes on as itself.
LEMMA MovesAlone ==
  ASSUME ArmedInv, Shapes', NEW a \in acts, Live(a), NEW pc, MovesTo(a, pc), js'.token = js.token,
         js'.armed = js.armed, js'.guard \subseteq {js'.key}, a.kind = "stop" => js'.key = NoRow,
         \A b : Same(a, b) /\ b.pc = pc => AtItsPlace(b)',
         \A b : Same(a, b) /\ b.pc = pc /\ Trying(b) /\ (\A c \in acts' : c = b \/ Spare(c)') => Quiet'
  PROVE  ArmedInv'
<1>1. PICK b : Same(a, b) /\ b.pc = pc /\ Turns(a, b)
  BY DEF MovesTo
<1>2. \A c \in acts' : c = b \/ Spare(c)'
  <2>1. \A c \in acts : c = a \/ Spare(c)'
    BY OthersSpare
  <2> QED
    BY <1>1, <2>1 DEF Turns
<1>3. js'.armed = {} /\ Live(b)' /\ b.kind = a.kind
  BY <1>1 DEF ArmedInv, Live, Same
<1> QED
  BY <1>1, <1>2, <1>3, OneLeft

\* The only live call goes on as another one.
LEMMA TurnsAlone ==
  ASSUME ArmedInv, Shapes', NEW a \in acts, Live(a), NEW b, Turns(a, b), b.token = a.token,
         Agree(js, js'), b.kind # "stop", AtItsPlace(b)',
         Trying(b) /\ (\A c \in acts' : c = b \/ Spare(c)') => Quiet'
  PROVE  ArmedInv'
<1>1. /\ js'.token = js.token /\ js'.key = js.key /\ js'.guard = js.guard /\ js'.armed = js.armed
  BY DEF Agree, Is
<1>2. \A c \in acts' : c = b \/ Spare(c)'
  <2>1. \A c \in acts : c = a \/ Spare(c)'
    BY <1>1, OthersSpare
  <2> QED
    BY <2>1 DEF Turns
<1>3. js'.armed = {} /\ Live(b)' /\ js'.guard \subseteq {js'.key}
  BY <1>1 DEF ArmedInv, Live
<1> QED
  BY <1>2, <1>3, OneLeft

\* The rundown is advanced: everything that was in flight is superseded.
LEMMA AdvanceArmed ==
  ASSUME ArmedInv, Shapes', NEW k, NEW b, NEW natural, NEW G, Advanced(js, k, b, natural),
         Is(js', k.token, k.key, k.guard \ G, k.queue, k.coordGen, k.epoch, k.armed),
         \A c \in acts' : c = b \/ (c \in acts /\ c.kind \notin {"stop", "skip"}),
         UNCHANGED rust, Pending' \subseteq Pending, natural \/ js.armed = {}
  PROVE  ArmedInv'
<1>1. Shapes /\ JsShape(js) /\ js.token \in Nat
  BY DEF ArmedInv, Shapes, JsShape
<1>2. JsShape(k) /\ k.token > js.token /\ k.token \in Nat
  BY <1>1, AdvancedShape DEF JsShape
<1>3. js'.token = k.token /\ js'.key = k.key /\ js'.queue = k.queue /\ js'.armed = k.armed /\ js'.guard = k.guard \ G
  BY DEF Is
<1>4. \A c \in acts : ~Live(c)'
  <2>1. \A c \in acts : c.token \in Nat /\ c.token <= js.token
    BY <1>1 DEF Shapes, CallShape
  <2> QED
    BY <1>1, <1>2, <1>3, <2>1 DEF Live
<1>5. \A c \in acts' : c = b \/ Spare(c)'
  BY <1>4 DEF Spare
<1>6. k.guard = {}
  BY DEF Advanced, Halted, PlaysBy, Took, Is, ArmedInv
<1>7. k.armed = {}
  <2>1. \A r \in js.armed : r = Successor(js.queue, js.key)
    BY DEF ArmedInv
  <2> QED
    BY <2>1 DEF Advanced, Halted, PlaysBy, Took, Is, Armed
<1>8. Quiet'
  <2>1. js'.key \notin js'.guard
    BY <1>3, <1>6
  <2>2. \A e \in Pending' : e.gen # js'.token
    <3>1. \A e \in Pending : e.gen \in Nat /\ e.gen <= js.token
      BY <1>1, Notices DEF Shapes
    <3> QED
      BY <1>1, <1>2, <1>3, <3>1
  <2>3. rust'.gen # js'.token
    BY <1>1, <1>2, <1>3 DEF Shapes
  <2> QED
    BY <2>1, <2>2, <2>3 DEF Quiet
<1>9. Live(b)' /\ AtItsPlace(b)' /\ (b.kind = "stop" => js'.key = NoRow)
  <2>1. /\ \A n \in DOMAIN js.queue : /\ Contains(js.queue, js.queue[n]) /\ IndexIn(js.queue, js.queue[n]) = n
        /\ Successor(js.queue, js.key) # NoRow =>
             /\ Contains(js.queue, js.key) /\ Successor(js.queue, js.key) = js.queue[IndexIn(js.queue, js.key) + 1]
             /\ IndexIn(js.queue, js.key) + 1 \in DOMAIN js.queue
    BY <1>1, Places DEF JsShape
  <2>2. CASE Halted(js, k, b)
    BY <1>3, <2>2 DEF Halted, Is, Call, Live, AtItsPlace, Plays
  <2>3. ASSUME NEW n \in DOMAIN js.queue, PlaysBy(js, k, b, n)
        PROVE  Live(b)' /\ AtItsPlace(b)' /\ (b.kind = "stop" => js'.key = NoRow)
    BY <1>3, <2>1, <2>3 DEF PlaysBy, Is, Call, Live, AtItsPlace, Plays
  <2>4. CASE Took(js, k) /\ Call(b, "skip", "skip", NoRow, 0, js.token + 1)
    BY <1>3, <2>4 DEF Took, Is, Call, Live, AtItsPlace, Plays
  <2>5. CASE /\ Took(js, k) /\ Successor(js.queue, js.key) # NoRow
             /\ Call(b, "resolve", "natural", Successor(js.queue, js.key), IndexIn(js.queue, js.key) + 1, js.token + 1)
    BY <1>3, <2>1, <2>5 DEF Took, Is, Call, Live, AtItsPlace, Plays, RowAt
  <2> QED
    BY <2>2, <2>3, <2>4, <2>5, Zenon DEF Advanced
<1> QED
  BY <1>3, <1>5, <1>6, <1>7, <1>8, <1>9, OneLeft

-----------------------------------------------------------------------------
\* The effects of the only live call keep the engine and the armed rows in step.
LEMMA ArmedEffect ==
  ASSUME ArmedInv, Shapes', NEW a \in acts, Live(a), Effect(a)
  PROVE  ArmedInv'
<1>1. /\ Shapes /\ JsShape(js) /\ CallShape(a, js.token, js.coordGen) /\ Stands(a.kind, a.pc)
      /\ js.armed = {} /\ AtItsPlace(a) /\ js.guard \subseteq {js.key} /\ (Trying(a) => Quiet)
      /\ a.kind = "stop" => js.key = NoRow
  BY DEF ArmedInv, Shapes, CallShape
<1>2. UNCHANGED events => Pending' = Pending
  BY DEF Pending
<1>3. Agree(js, js') => /\ js'.token = js.token /\ js'.key = js.key /\ js'.guard = js.guard
                        /\ js'.armed = js.armed /\ js'.queue = js.queue /\ js'.epoch = js.epoch
  BY DEF Agree, Is
<1>4. ASSUME NEW b, \A c \in acts' : c = b \/ Spare(c)', js'.key \notin js'.guard, js'.token = js.token,
             \A e \in Pending' : ~(e.kind = "advance" /\ e.gen = js.token),
             rust'.gen = js.token => b.kind = "skip" \/ (Plays(b) /\ b.pc \in {"prepare", "registered"})
      PROVE  Quiet'
  BY <1>4 DEF Quiet, Spare, Plays
<1>5. Quiet => /\ js.key \notin js.guard /\ \A e \in Pending : ~(e.kind = "advance" /\ e.gen = js.token)
               /\ rust.gen = js.token => a.kind = "skip" \/ (Plays(a) /\ a.pc \in {"prepare", "registered"})
  BY DEF Quiet
<1>6. CASE Quits(a) \/ Releases(a)
  <2>1. Agree(js, js') /\ acts' = acts \ {a}
    BY <1>6 DEF Quits, Releases
  <2>2. \A c \in acts' : Spare(c)'
    BY <1>3, <2>1, OthersSpare
  <2> QED
    BY <1>1, <1>3, <2>1, <2>2, NoneLeft
<1>7. CASE Arms(a)
  <2>1. /\ acts' = acts \ {a} /\ js'.token = js.token /\ js'.key = js.key /\ js'.guard = js.guard
        /\ js'.queue = js.queue /\ js'.armed = {a.row} /\ eng' = eng
    BY <1>1, <1>7 DEF Arms, Is
  <2>2. \A c \in acts' : Spare(c)'
    BY <2>1, OthersSpare
  <2>3. a.row # NoRow /\ a.row = Successor(js.queue, js.key) /\ Held(a.row)
    BY <1>1, <1>7, RowAssumption DEF Arms, AtItsPlace, CallShape
  <2>4. Held(a.row)'
    BY <2>1, <2>3 DEF Held
  <2> QED
    BY <1>1, <2>1, <2>2, <2>3, <2>4, NoneLeft
<1>8. CASE Resolves(a) \/ TriesAgain(a)
  <2>1. /\ a.kind = "item" /\ a.pc \in Dispatching /\ MovesTo(a, "prepare")
        /\ js'.token = js.token /\ js'.key = js.key /\ js'.guard \subseteq js.guard
        /\ js'.armed = js.armed /\ js'.queue = js.queue /\ UNCHANGED <<rust, events, eng>>
    BY <1>3, <1>8 DEF Resolves, TriesAgain, Dispatching, Is
  <2>2. ASSUME NEW b, Same(a, b), b.pc = "prepare" PROVE AtItsPlace(b)'
    BY <1>1, <2>1, <2>2 DEF Same, AtItsPlace, Plays
  <2>3. ASSUME NEW b, Same(a, b), b.pc = "prepare", \A c \in acts' : c = b \/ Spare(c)' PROVE Quiet'
    <3>1. Quiet
      BY <1>1, <2>1 DEF Trying, Plays
    <3>2. Plays(b)
      BY <2>1, <2>3 DEF Same, Plays
    <3> QED
      BY <1>2, <1>4, <1>5, <2>1, <2>3, <3>1, <3>2
  <2> QED
    BY <1>1, <2>1, <2>2, <2>3, MovesAlone
<1>9. CASE Registers(a)
  <2>1. /\ a.kind \in {"take", "item", "natural"} /\ a.pc = "prepare" /\ MovesTo(a, "registered")
        /\ js'.token = js.token /\ js'.key = js.key /\ js'.guard = js.guard
        /\ js'.armed = js.armed /\ js'.queue = js.queue /\ eng' = eng
    BY <1>3, <1>9 DEF Registers
  <2>2. ASSUME NEW b, Same(a, b), b.pc = "registered" PROVE AtItsPlace(b)'
    BY <1>1, <2>1, <2>2 DEF Same, AtItsPlace, Plays
  <2>3. \A e \in Pending' : e \in Pending \/ e.kind # "advance"
    <3> DEFINE n == [kind |-> "foreground", row |-> a.row, gen |-> a.token]
    <3>1. n \in Notice /\ n.kind = "foreground" /\ events \in Seq(Notice)
      BY <1>1, <2>1 DEF Shapes, CallShape, Notice
    <3>2. Emit(<<>>) \/ Emit(<<n>>)
      BY <1>9 DEF Registers
    <3> HIDE DEF n
    <3>3. CASE Emit(<<>>)
      BY <1>2, <3>1, <3>3, EmittingNothing
    <3>4. CASE Emit(<<n>>)
      BY <3>1, <3>4, Emitting
    <3> QED
      BY <3>2, <3>3, <3>4
  <2>4. ASSUME NEW b, Same(a, b), b.pc = "registered", Trying(b), \A c \in acts' : c = b \/ Spare(c)' PROVE Quiet'
    <3>1. Plays(b) /\ Plays(a)
      BY <2>1, <2>4 DEF Same, Plays, Trying
    <3>2. Quiet
      BY <1>1, <2>1, <3>1 DEF Trying, Dispatching
    <3> QED
      BY <1>4, <1>5, <2>1, <2>3, <2>4, <3>1, <3>2
  <2> QED
    BY <1>1, <2>1, <2>2, <2>4, MovesAlone
<1>10. CASE Sends(a)
  <2>1. /\ Plays(a) /\ MovesTo(a, "played") /\ Agree(js, js')
    BY <1>10 DEF Sends, Plays
  <2>2. ASSUME NEW b, Same(a, b), b.pc = "played" PROVE AtItsPlace(b)' /\ ~Trying(b)
    BY <1>1, <1>3, <2>1, <2>2 DEF Same, AtItsPlace, Plays, Trying, Dispatching
  <2> QED
    BY <1>1, <1>3, <2>1, <2>2, MovesAlone DEF Plays
<1>11. CASE Guards(a)
  <2>1. /\ Plays(a) \/ (a.kind = "natural" /\ a.pc # "resolve")
        /\ MovesTo(a, "await") /\ js'.token = js.token /\ js'.key = js.key /\ js'.guard = js.guard \cup {a.row}
        /\ js'.armed = js.armed /\ js'.queue = js.queue
    BY <1>11 DEF Guards, Plays, Is
  <2>2. a.row = js.key
    BY <1>1, <2>1 DEF AtItsPlace
  <2>3. ASSUME NEW b, Same(a, b), b.pc = "await" PROVE AtItsPlace(b)' /\ ~Trying(b)
    BY <1>1, <2>1, <2>3 DEF Same, AtItsPlace, Plays, Trying, Dispatching
  <2> QED
    BY <1>1, <2>1, <2>2, <2>3, MovesAlone DEF Plays
<1>12. CASE Pauses(a)
  <2>1. PICK b : Call(b, "skip", "skip", NoRow, 0, a.token) /\ Turns(a, b)
    BY <1>12 DEF Pauses
  <2>2. Agree(js, js') /\ UNCHANGED <<rust, events, eng>> /\ Quiet
    BY <1>1, <1>12 DEF Pauses, Trying, Plays, Dispatching
  <2>3. b.kind = "skip" /\ b.token = a.token /\ AtItsPlace(b)'
    BY <2>1 DEF Call, AtItsPlace, Plays
  <2>4. (\A c \in acts' : c = b \/ Spare(c)') => Quiet'
    BY <1>2, <1>3, <1>4, <1>5, <2>2, <2>3
  <2> QED
    BY <2>1, <2>2, <2>3, <2>4, TurnsAlone
<1>13. CASE Skips(a)
  <2>1. UNCHANGED <<rust, events, eng>>
    BY <1>13 DEF Skips
  <2>2. CASE acts' = acts \ {a} /\ Agree(js, js')
    <3>1. \A c \in acts' : Spare(c)'
      BY <1>3, <2>2, OthersSpare
    <3> QED
      BY <1>1, <1>3, <2>2, <3>1, NoneLeft
  <2>3. ASSUME NEW b, Turns(a, b), Advanced(js, js', b, FALSE) PROVE ArmedInv'
    <3>1. PICK natural : Advanced(js, js', b, natural)
      BY <2>3, Zenon
    <3>2. JsShape(js')
      BY <1>1, <3>1, AdvancedShape
    <3>3. Is(js', js'.token, js'.key, js'.guard \ {}, js'.queue, js'.coordGen, js'.epoch, js'.armed)
      BY <3>2 DEF Is, JsShape
    <3>4. \A c \in acts' : c = b \/ (c \in acts /\ c.kind \notin {"stop", "skip"})
      BY <2>3 DEF Turns, ArmedInv
    <3> QED
      BY <1>1, <1>2, <2>1, <3>1, <3>3, <3>4, AdvanceArmed
  <2> QED
    BY <1>13, <2>2, <2>3, Zenon DEF Skips
<1>14. CASE LoadsNext(a)
  <2>1. PICK b : /\ Call(b, "loadbg", "preload", b.row, 0, a.token) /\ Turns(a, b)
                 /\ b.row = (IF a.kind = "preload" THEN a.row ELSE RowAt(js.queue, a.idx + 1)) /\ b.row # NoRow
    BY <1>14 DEF LoadsNext
  <2>2. Agree(js, js')
    BY <1>14 DEF LoadsNext
  <2>3. b.row = Successor(js.queue, js.key)
    <3>1. CASE a.kind = "preload"
      BY <1>1, <2>1, <3>1 DEF AtItsPlace
    <3>2. CASE a.kind # "preload"
      <4>1. Plays(a) \/ (a.kind = "natural" /\ a.pc # "resolve")
        BY <1>14, <3>2 DEF LoadsNext, Plays
      <4>2. Contains(js.queue, js.key) /\ a.idx = IndexIn(js.queue, js.key)
        BY <1>1, <4>1 DEF AtItsPlace
      <4> QED
        BY <2>1, <3>2, <4>2 DEF Successor
    <3> QED
      BY <3>1, <3>2
  <2>4. b.kind = "preload" /\ b.token = a.token /\ AtItsPlace(b)' /\ ~Trying(b)
    BY <1>3, <2>1, <2>2, <2>3 DEF Call, AtItsPlace, Plays, Trying
  <2> QED
    BY <2>1, <2>2, <2>4, TurnsAlone
<1>15. CASE Follows(a)
  <2>1. /\ a.kind = "natural" /\ a.pc = "resolve" /\ MovesTo(a, "prepare")
        /\ js'.token = js.token /\ js'.key = a.row /\ js'.guard = {}
        /\ js'.armed = js.armed /\ js'.queue = js.queue /\ UNCHANGED <<rust, events, eng>>
    BY <1>15 DEF Follows, Is
  <2>2. Contains(js.queue, a.row) /\ a.idx = IndexIn(js.queue, a.row)
    <3>1. a.row = RowAt(js.queue, a.idx) /\ a.row # NoRow
      BY <1>1, <2>1 DEF AtItsPlace
    <3>2. a.idx \in DOMAIN js.queue /\ a.row = js.queue[a.idx]
      BY <3>1 DEF RowAt
    <3> QED
      BY <1>1, <3>2, Places DEF JsShape
  <2>3. ASSUME NEW b, Same(a, b), b.pc = "prepare" PROVE AtItsPlace(b)'
    BY <2>1, <2>2, <2>3 DEF Same, AtItsPlace, Plays
  <2>4. ASSUME NEW b, \A c \in acts' : c = b \/ Spare(c)' PROVE Quiet'
    <3>1. Quiet
      BY <1>1, <2>1 DEF Trying
    <3>2. rust.gen # js.token
      BY <1>5, <2>1, <3>1 DEF Plays
    <3> QED
      BY <1>2, <1>4, <1>5, <2>1, <2>4, <3>1, <3>2
  <2> QED
    BY <2>1, <2>3, <2>4, MovesAlone
<1>16. CASE Loads(a)
  <2>1. /\ a.kind = "preload" /\ MovesTo(a, "loaded") /\ Agree(js, js') /\ eng'.bg = a.row
    BY <1>1, <1>16 DEF Loads, LOADBG_AUTO, Shapes
  <2>2. ASSUME NEW b, Same(a, b), b.pc = "loaded" PROVE AtItsPlace(b)' /\ ~Trying(b)
    BY <1>1, <1>3, <2>1, <2>2 DEF Same, AtItsPlace, Plays, Trying, Held
  <2> QED
    BY <1>1, <1>3, <2>1, <2>2, MovesAlone
<1>17. CASE Clears(a)
  <2>1. a.kind = "stop" /\ MovesTo(a, "release") /\ Agree(js, js')
    BY <1>17 DEF Clears
  <2>2. ASSUME NEW b, Same(a, b), b.pc = "release" PROVE AtItsPlace(b)' /\ ~Trying(b)
    BY <2>1, <2>2 DEF Same, AtItsPlace, Plays, Trying
  <2> QED
    BY <1>1, <1>3, <2>1, <2>2, MovesAlone
<1> QED
  BY <1>6, <1>7, <1>8, <1>9, <1>10, <1>11, <1>12, <1>13, <1>14, <1>15, <1>16, <1>17 DEF Effect

\* A request of the operator supersedes every call in flight.
LEMMA RequestArmed ==
  ASSUME ArmedInv, Shapes', \A a \in acts : a.kind \notin {"stop", "skip"}, NEW b, Joins(b),
         js'.token = js.token + 1, b.token = js'.token, js'.armed = {}, js'.guard = {},
         UNCHANGED <<rust, events, eng>>, AtItsPlace(b)', b.kind = "stop" => js'.key = NoRow
  PROVE  ArmedInv'
<1>1. Shapes /\ js.token \in Nat /\ Pending' = Pending
  BY DEF ArmedInv, Shapes, JsShape, Pending
<1>2. \A c \in acts' : c = b \/ Spare(c)'
  <2>1. \A c \in acts : c.token \in Nat /\ c.token <= js.token
    BY <1>1 DEF Shapes, CallShape
  <2> QED
    BY <1>1, <2>1 DEF Joins, Spare, Live
<1>3. Quiet'
  <2>1. \A e \in Pending : e.gen \in Nat /\ e.gen <= js.token
    BY <1>1, Notices DEF Shapes
  <2>2. rust.gen # js'.token
    BY <1>1 DEF Shapes
  <2> QED
    BY <1>1, <2>1, <2>2 DEF Quiet
<1> QED
  BY <1>2, <1>3, OneLeft DEF Live

\* The rundown is edited while no call is in flight.
LEMMA EditArmed ==
  ASSUME ArmedInv, Shapes', acts = {}, NEW q \in Edits, Edited(q)
  PROVE  ArmedInv'
<1>1. Shapes /\ js.guard \subseteq {js.key} /\ UNCHANGED <<rust, events, eng>>
      /\ \A r \in js.armed : r # NoRow /\ r = Successor(js.queue, js.key) /\ Held(r)
  BY DEF ArmedInv, Edited
<1>2. \A r : Held(r) => Held(r)'
  BY <1>1 DEF Held
<1>3. CASE acts' = acts /\ Agree(js, js')
  BY <1>1, <1>2, <1>3, NoneLeft DEF Agree, Is
<1>4. CASE acts' = acts /\ Is(js', js.token, js.key, js.guard, q, js.coordGen, js.epoch + 1, {})
  BY <1>1, <1>4, NoneLeft DEF Is
<1>5. CASE /\ acts' = acts /\ Successor(q, js.key) \in js.armed
           /\ Is(js', js.token, js.key, js.guard, q, js.coordGen, js.epoch, js.armed)
  BY <1>1, <1>2, <1>5, NoneLeft DEF Is
<1>6. ASSUME NEW b, Joins(b), Call(b, "gate", "preload", Successor(q, js.key), 0, js.token),
             Is(js', js.token, js.key, js.guard, q, js.coordGen, js.epoch + 1, {})
      PROVE  ArmedInv'
  <2>1. js'.token = js.token /\ js'.key = js.key /\ js'.guard = js.guard /\ js'.armed = {} /\ js'.queue = q
    BY <1>6 DEF Is
  <2>2. b.kind = "preload" /\ Live(b)' /\ AtItsPlace(b)' /\ ~Trying(b)
    BY <1>6, <2>1 DEF Call, Live, AtItsPlace, Plays, Trying
  <2>3. \A c \in acts' : c = b
    BY <1>6 DEF Joins
  <2> QED
    BY <1>1, <2>1, <2>2, <2>3, OneLeft
<1> QED
  BY <1>3, <1>4, <1>5, <1>6 DEF Edited

-----------------------------------------------------------------------------
\* Calls stay where they are, or go, and nothing new is about to advance the rundown.
LEMMA RestsArmed ==
  ASSUME ArmedInv, Shapes', NEW f, \A c \in acts' : \E a \in acts : c = f[a],
         \A a \in acts : Same(a, f[a]) /\ f[a].pc = a.pc,
         js'.token = js.token, js'.key = js.key, js'.queue = js.queue, js'.epoch = js.epoch,
         js'.armed = js.armed, js'.guard \subseteq js.guard, rust'.gen = js.token => rust.gen = js.token,
         (\E a \in acts : Live(a) /\ Trying(a)) /\ Quiet =>
           \A e \in Pending' : ~(e.kind = "advance" /\ e.gen = js.token),
         \A r : r # NoRow /\ Held(r) => Held(r)'
  PROVE  ArmedInv'
<1>1. \A a \in acts : /\ f[a].pc = a.pc /\ f[a].kind = a.kind /\ f[a].row = a.row /\ f[a].idx = a.idx
                      /\ f[a].epoch = a.epoch /\ f[a].token = a.token
                      /\ (Live(f[a])' <=> Live(a)) /\ (Plays(f[a]) <=> Plays(a)) /\ (Trying(f[a]) <=> Trying(a))
  BY DEF Same, Live, Plays, Trying
<1>2. \A c, d \in acts' : Live(c)' /\ Live(d)' => c = d
  BY <1>1 DEF ArmedInv
<1>3. \A c \in acts' : c.kind \in {"stop", "skip"} => Live(c)'
  BY <1>1 DEF ArmedInv
<1>4. ASSUME NEW c \in acts', Live(c)' PROVE js'.armed = {} /\ AtItsPlace(c)'
  <2>1. PICK a \in acts : c = f[a]
    OBVIOUS
  <2>2. Live(a) /\ js.armed = {} /\ AtItsPlace(a)
    BY <1>1, <1>4, <2>1 DEF ArmedInv
  <2>3. a.kind = "preload" => a.row # NoRow
    BY RowAssumption DEF ArmedInv, Shapes, CallShape
  <2>4. /\ Plays(c) \/ (c.kind = "natural" /\ c.pc # "resolve") =>
             c.row = js'.key /\ Contains(js'.queue, js'.key) /\ c.idx = IndexIn(js'.queue, js'.key)
        /\ c.kind = "natural" /\ c.pc = "resolve" =>
             /\ Contains(js'.queue, js'.key) /\ c.idx = IndexIn(js'.queue, js'.key) + 1
             /\ c.row = RowAt(js'.queue, c.idx) /\ c.row # NoRow
    BY <1>1, <2>1, <2>2 DEF AtItsPlace
  <2>5. /\ c.kind = "preload" => c.row = Successor(js'.queue, js'.key)
        /\ c.kind = "preload" /\ c.pc = "loaded" /\ c.epoch = js'.epoch => Held(c.row)'
    BY <1>1, <2>1, <2>2, <2>3 DEF AtItsPlace
  <2> QED
    BY <2>2, <2>4, <2>5 DEF AtItsPlace, Plays
<1>5. (\E c \in acts' : c.kind = "stop") => js'.key = NoRow
  BY <1>1 DEF ArmedInv
<1>6. ASSUME NEW c \in acts', Live(c)', Trying(c) PROVE Quiet'
  <2>1. (\E a \in acts : Live(a) /\ Trying(a)) /\ Quiet
    BY <1>1, <1>6 DEF ArmedInv
  <2>2. js'.key \notin js'.guard /\ \A e \in Pending' : ~(e.kind = "advance" /\ e.gen = js'.token)
    BY <2>1 DEF Quiet
  <2>3. rust'.gen = js'.token =>
          \A d \in acts' : Live(d)' => d.kind = "skip" \/ (Plays(d) /\ d.pc \in {"prepare", "registered"})
    BY <1>1, <2>1 DEF Quiet
  <2> QED
    BY <2>2, <2>3 DEF Quiet, Plays
<1>7. (\E c \in acts' : Live(c)' /\ Trying(c)') => Quiet'
  <2>1. \A c : Trying(c)' <=> Trying(c)
    BY DEF Trying, Plays
  <2> QED
    BY <1>6, <2>1
<1>8. js'.guard \subseteq {js'.key} /\ \A r \in js'.armed : r # NoRow /\ r = Successor(js'.queue, js'.key) /\ Held(r)'
  BY DEF ArmedInv
<1> QED
  BY <1>2, <1>3, <1>4, <1>5, <1>7, <1>8 DEF ArmedInv

\* Calls stay as they are or go.
LEMMA StaysArmed ==
  ASSUME ArmedInv, Shapes', acts' \subseteq acts,
         js'.token = js.token, js'.key = js.key, js'.queue = js.queue, js'.epoch = js.epoch,
         js'.armed = js.armed, js'.guard \subseteq js.guard, rust'.gen = js.token => rust.gen = js.token,
         (\E a \in acts : Live(a) /\ Trying(a)) /\ Quiet =>
           \A e \in Pending' : ~(e.kind = "advance" /\ e.gen = js.token),
         \A r : r # NoRow /\ Held(r) => Held(r)'
  PROVE  ArmedInv'
<1> DEFINE f == [a \in acts |-> a]
<1>1. \A a \in acts : f[a] = a
  OBVIOUS
<1>2. \A c \in acts' : \E a \in acts : c = f[a]
  BY <1>1
<1>3. \A a \in acts : Same(a, f[a]) /\ f[a].pc = a.pc
  <2>1. \A a \in acts : DOMAIN a = CallNames
    BY DEF ArmedInv, Shapes, CallShape
  <2> QED
    BY <1>1, <2>1 DEF Same
<1> HIDE DEF f
<1> QED
  BY <1>2, <1>3, RestsArmed

\* A superseded call goes.
LEMMA VanishArmed ==
  ASSUME ArmedInv, Shapes', NEW a \in acts, Vanishes(a), ~Live(a)
  PROVE  ArmedInv'
<1>1. /\ js'.token = js.token /\ js'.key = js.key /\ js'.guard = js.guard /\ js'.queue = js.queue
      /\ js'.epoch = js.epoch /\ js'.armed = js.armed /\ acts' \subseteq acts
      /\ UNCHANGED <<events, eng>> /\ rust' \in {rust, Cleared}
  BY DEF Vanishes, Agree, Is
<1>2. Pending' = Pending
  BY <1>1 DEF Pending
<1>3. rust'.gen = js.token => rust.gen = js.token
  <2>1. js.token # 0
    BY DEF ArmedInv, Shapes, JsShape, CallShape, Live
  <2> QED
    BY <1>1, <2>1 DEF Cleared
<1>4. \A r : r # NoRow /\ Held(r) => Held(r)'
  BY <1>1 DEF Held
<1>5. Quiet => \A e \in Pending' : ~(e.kind = "advance" /\ e.gen = js.token)
  BY <1>2 DEF Quiet
<1> QED
  BY <1>1, <1>3, <1>4, <1>5, StaysArmed

-----------------------------------------------------------------------------
\* An advance at the end of a clip finds no call that still tries to play a row.
LEMMA AdvancingArmed ==
  ASSUME ArmedInv, Shapes', NEW G, Advancing(G), UNCHANGED rust, Pending' \subseteq Pending, ~Quiet,
         js.key # NoRow
  PROVE  ArmedInv'
<1>1. PICK k, b : /\ Advanced(js, k, b, TRUE) /\ Joins(b)
                  /\ Is(js', k.token, k.key, k.guard \ G, k.queue, k.coordGen, k.epoch, k.armed)
  BY Zenon DEF Advancing
<1>2. \A c \in acts : c.kind \notin {"stop", "skip"}
  BY DEF ArmedInv, Trying
<1>3. \A c \in acts' : c = b \/ (c \in acts /\ c.kind \notin {"stop", "skip"})
  BY <1>1, <1>2 DEF Joins
<1>4. PICK natural : Advanced(js, k, b, natural) /\ natural
  BY <1>1, Zenon
<1> QED
  BY <1>1, <1>3, <1>4, AdvanceArmed

\* An event is delivered: an advance in it means that nobody tries to play a row.
LEMMA DeliverArmed ==
  ASSUME ArmedInv, Shapes', Deliver
  PROVE  ArmedInv'
<1>1. Shapes /\ Pending' \subseteq Pending /\ UNCHANGED <<rust, eng>>
  BY DeliverIs DEF ArmedInv
<1>2. Agree(js, js') => /\ js'.token = js.token /\ js'.key = js.key /\ js'.guard = js.guard
                        /\ js'.armed = js.armed /\ js'.queue = js.queue /\ js'.epoch = js.epoch
  BY DEF Agree, Is
<1>3. \A r : r # NoRow /\ Held(r) => Held(r)'
  BY <1>1 DEF Held
<1>4. Quiet => \A e \in Pending' : ~(e.kind = "advance" /\ e.gen = js.token)
  BY <1>1 DEF Quiet
<1>5. CASE Agree(js, js') /\ Marked
  <2>1. PICK f : /\ DOMAIN f = acts /\ acts' = {f[a] : a \in acts}
                 /\ \A a \in acts : Same(a, f[a]) /\ f[a].pc = a.pc
    BY <1>5 DEF Marked
  <2>2. \A c \in acts' : \E a \in acts : c = f[a]
    BY <2>1
  <2> QED
    BY <1>1, <1>2, <1>3, <1>4, <1>5, <2>1, <2>2, RestsArmed
<1>6. CASE Agree(js, js') /\ acts' = acts
  BY <1>1, <1>2, <1>3, <1>4, <1>6, StaysArmed
<1>7. CASE /\ \E e \in Pending : e.kind = "advance" /\ e.row = js.key /\ e.gen = js.token
           /\ Advancing({})
  <2>1. ~Quiet
    BY <1>7 DEF Quiet
  <2>2. js.key # NoRow
    BY <1>1, <1>7, Notices, RowAssumption
  <2> QED
    BY <1>1, <1>7, <2>1, <2>2, AdvancingArmed
<1> QED
  BY <1>1, <1>5, <1>6, <1>7, DeliverIs

\* The end guard speaks only for a row that is on air.
LEMMA EndGuardArmed ==
  ASSUME ArmedInv, Shapes', EndGuard
  PROVE  ArmedInv'
<1>1. Shapes /\ UNCHANGED <<rust, events, eng>> /\ rust.row \in js.guard
  BY EndGuardIs DEF ArmedInv
<1>2. Pending' = Pending
  BY <1>1 DEF Pending
<1>3. CASE /\ acts' = acts
           /\ Is(js', js.token, js.key, js.guard \ {rust.row}, js.queue, js.coordGen, js.epoch, js.armed)
  <2>1. /\ js'.token = js.token /\ js'.key = js.key /\ js'.guard \subseteq js.guard /\ js'.queue = js.queue
        /\ js'.epoch = js.epoch /\ js'.armed = js.armed
    BY <1>3 DEF Is
  <2>2. \A r : r # NoRow /\ Held(r) => Held(r)'
    BY <1>1 DEF Held
  <2>3. Quiet => \A e \in Pending' : ~(e.kind = "advance" /\ e.gen = js.token)
    BY <1>2 DEF Quiet
  <2> QED
    BY <1>1, <1>3, <2>1, <2>2, <2>3, StaysArmed
<1>4. CASE rust.row = js.key /\ Advancing({rust.row})
  <2>1. ~Quiet
    BY <1>1, <1>4 DEF Quiet
  <2>2. js.key # NoRow
    BY <1>1, <1>4, RowAssumption DEF Shapes, JsShape
  <2> QED
    BY <1>1, <1>2, <1>4, <2>1, <2>2, AdvancingArmed
<1> QED
  BY <1>3, <1>4, EndGuardIs DEF ArmedInv

\* Rust tells of no end of a row that is being dispatched: its gate is shut.
LEMMA RustArmed ==
  ASSUME ArmedInv, Shapes', Told
  PROVE  ArmedInv'
<1>1. Shapes /\ UNCHANGED <<js, acts, eng>> /\ rust'.gen = rust.gen
  BY DEF Told, ArmedInv
<1>2. PICK e : /\ e \in [kind : {"position", "foreground", "advance"}, row : {rust.row}, gen : {rust.gen}]
               /\ Emit(<<e>>)
               /\ e.kind = "advance" => ~GateShut
  BY DEF Told
<1>3. e \in Notice /\ e.gen = rust.gen
  BY <1>1, <1>2 DEF Told, Notice, Shapes
<1>4. Pending' = Pending \cup {e}
  BY <1>1, <1>2, <1>3, Emitting DEF Shapes
<1>5. ASSUME NEW a \in acts, Live(a), Quiet, e.kind = "advance", e.gen = js.token PROVE FALSE
  <2>1. a.kind = "skip" \/ (Plays(a) /\ a.pc \in {"prepare", "registered"})
    BY <1>3, <1>5 DEF Quiet
  <2>2. GateShut
    BY <1>3, <1>5, <2>1 DEF GateShut, Live, Plays
  <2> QED
    BY <1>2, <1>5, <2>2
<1>6. (\E a \in acts : Live(a) /\ Trying(a)) /\ Quiet =>
        \A f \in Pending' : ~(f.kind = "advance" /\ f.gen = js.token)
  BY <1>4, <1>5 DEF Quiet
<1>7. \A r : r # NoRow /\ Held(r) => Held(r)'
  BY <1>1 DEF Held
<1> QED
  BY <1>1, <1>6, <1>7, StaysArmed

\* The engine cuts to the row it holds, and nothing else takes that row from it.
LEMMA OtherArmed ==
  ASSUME ArmedInv, Shapes', DedupWindowEnds \/ Engine \/ Idle \/ UNCHANGED vars
  PROVE  ArmedInv'
<1>1. acts' = acts /\ UNCHANGED <<rust, events>>
  BY DEF DedupWindowEnds, Engine, FirstFrame, NearEnd, ClipEnds, Idle, vars
<1>2. DOMAIN js = JsNames /\ DOMAIN eng = {"fg", "phase", "bg"}
  BY DEF ArmedInv, Shapes, JsShape
<1>3. /\ js'.token = js.token /\ js'.key = js.key /\ js'.guard = js.guard /\ js'.queue = js.queue
      /\ js'.epoch = js.epoch /\ js'.armed = js.armed
  BY <1>2 DEF DedupWindowEnds, Engine, FirstFrame, NearEnd, ClipEnds, Idle, vars, JsNames
<1>4. Quiet => \A e \in Pending' : ~(e.kind = "advance" /\ e.gen = js.token)
  BY <1>1 DEF Quiet, Pending
<1>5. ASSUME NEW r, r # NoRow, Held(r) PROVE Held(r)'
  <2>1. CASE ClipEnds
    BY <1>2, <1>5, <2>1 DEF ClipEnds, Held
  <2>2. CASE ~ClipEnds
    <3>1. eng'.fg = eng.fg /\ eng'.bg = eng.bg
      BY <1>2, <2>2 DEF DedupWindowEnds, Engine, FirstFrame, NearEnd, Idle, vars
    <3> QED
      BY <1>5, <3>1 DEF Held
  <2> QED
    BY <2>1, <2>2
<1> QED
  BY <1>1, <1>3, <1>4, <1>5, StaysArmed

-----------------------------------------------------------------------------
\* Every step keeps the engine and the armed rows in step.
LEMMA NextArmed ==
  ASSUME ArmedInv, "stopping" \notin Windows, "skipping" \notin Windows, "busy" \notin Windows, [Next]_vars
  PROVE  ArmedInv'
<1>1. Shapes /\ Shapes'
  BY NextShapes DEF ArmedInv
<1>2. CASE Operator
  <2>1. ASSUME NEW r \in Rows, Take(r) \/ Play(r) PROVE ArmedInv'
    <3>1. Requests(r) /\ \A a \in acts : a.kind \notin {"skip", "stop"}
      BY <1>1, <2>1, TakeIs, PlayIs DEF Take, Play, Allowed
    <3>2. PICK b : /\ Joins(b)
                   /\ b.row = r /\ b.idx = IndexIn(js.queue, r) /\ b.token = js.token + 1 /\ Plays(b)
      BY <3>1 DEF Requests, Plays
    <3>3. /\ js'.token = js.token + 1 /\ js'.key = r /\ js'.guard = {} /\ js'.queue = js.queue /\ js'.armed = {}
          /\ Contains(js.queue, r) /\ UNCHANGED <<rust, events, eng>>
      BY <3>1 DEF Requests, Is
    <3>4. AtItsPlace(b)' /\ b.kind # "stop"
      BY <3>2, <3>3 DEF AtItsPlace, Plays
    <3> QED
      BY <1>1, <3>1, <3>2, <3>3, <3>4, RequestArmed, SMTT(60)
  <2>2. CASE Stop
    <3>1. Halts /\ \A a \in acts : a.kind \notin {"skip", "stop"}
      BY <1>1, <2>2, StopIs DEF Stop, Allowed
    <3>2. PICK b : Joins(b) /\ Call(b, "clear", "stop", NoRow, 0, js.token + 1)
      BY <3>1 DEF Halts
    <3>3. /\ js'.token = js.token + 1 /\ js'.key = NoRow /\ js'.guard = {} /\ js'.armed = {}
          /\ UNCHANGED <<rust, events, eng>>
      BY <3>1 DEF Halts, Is
    <3>4. AtItsPlace(b)' /\ b.token = js'.token
      BY <3>2, <3>3 DEF AtItsPlace, Plays, Call
    <3> QED
      BY <1>1, <3>1, <3>2, <3>3, <3>4, RequestArmed
  <2>3. ASSUME NEW q \in Edits, Edit(q) PROVE ArmedInv'
    <3>1. Edited(q) /\ acts = {}
      BY <1>1, <2>3, EditIs DEF Edit, Allowed
    <3> QED
      BY <1>1, <3>1, EditArmed
  <2> QED
    BY <1>2, <2>1, <2>2, <2>3, Zenon DEF Operator
<1>3. CASE Activation
  <2>1. PICK a \in acts : \/ Vanishes(a) /\ ~Live(a) /\ a.kind \notin {"stop", "skip"}
                          \/ Effect(a) /\ (Live(a) \/ a.kind \in {"stop", "skip"})
    BY <1>1, <1>3, Acting
  <2>2. a.kind \in {"stop", "skip"} => Live(a)
    BY DEF ArmedInv
  <2> QED
    BY <1>1, <2>1, <2>2, VanishArmed, ArmedEffect
<1>4. CASE Deliver
  BY <1>1, <1>4, DeliverArmed
<1>5. CASE EndGuard
  BY <1>1, <1>5, EndGuardArmed
<1>6. CASE Rust
  BY <1>1, <1>6, RustIs, RustArmed
<1>7. CASE DedupWindowEnds \/ Engine \/ Idle \/ UNCHANGED vars
  BY <1>1, <1>7, OtherArmed
<1> QED
  BY <1>2, <1>3, <1>4, <1>5, <1>6, <1>7 DEF Next

\* At the start nothing is in flight and nothing is armed.
LEMMA InitArmed == Init => ArmedInv
<1> SUFFICES ASSUME Init PROVE ArmedInv
  OBVIOUS
<1>1. Shapes /\ acts = {} /\ js.guard = {} /\ js.armed = {}
  BY InitShapes DEF Init
<1> QED
  BY <1>1 DEF ArmedInv

\* The engine holds what the service believes armed, and the natural advance that sends no
\* PLAY for it is safe, whatever else is in flight: as long as the operator waits for a stop
\* to clear the layer and for a row that fails to be skipped, and edits the rundown while no
\* call is in flight.
THEOREM ArmedRowsAreLoaded ==
  ASSUME "stopping" \notin Windows, "skipping" \notin Windows, "busy" \notin Windows
  PROVE  Spec => []ArmedIsLoaded
<1>1. Init => ArmedInv
  BY InitArmed
<1>2. ArmedInv /\ [Next]_vars => ArmedInv'
  BY NextArmed
<1>3. ArmedInv => ArmedIsLoaded
  BY DEF ArmedInv, Held, ArmedIsLoaded
<1> QED
  BY <1>1, <1>2, <1>3, PTL DEF Spec

-----------------------------------------------------------------------------
(* The frontend, Rust and the engine on the clip on air *)

\* Nothing fails; the operator waits for a stop to clear the layer and edits the rundown
\* while no call is in flight; no answer comes late and no advance is slower than its clip.
\* The rundown either stands, or no clip ends beside a call in flight or unseen by Rust,
\* none is recorded as longer than its file, and no edit makes a row with a background the last one.
Orderly ==
  /\ Failing = {}
  /\ "stopping" \notin Windows /\ "skipping" \notin Windows /\ "busy" \notin Windows
  /\ "late" \notin Windows /\ "long" \notin Windows /\ "last" \notin Windows
  /\ Edits = {} \/ ("crossing" \notin Windows /\ "unseen" \notin Windows /\ Overlong = {})

\* The clip claimed as current is on air; the engine has cut from it to its successor and
\* the advance is on its way; the engine has not cut yet to a row that is already claimed.
Rolling == eng.phase \in {"loading", "playing"}
Ending == eng.phase \in {"ending", "ended"}
On == eng.fg = js.key /\ eng.bg # js.key
Passed ==
  /\ eng.fg # js.key /\ eng.fg # NoRow /\ eng.fg = Successor(js.queue, js.key)
  /\ eng.bg = NoRow /\ Rolling
Awaited(r) == eng.fg # r /\ eng.bg = r /\ Ending
\* A row that the service follows the engine to.
Coming(r) == (eng.fg = r /\ eng.bg = NoRow /\ Rolling) \/ Awaited(r)
Ended == Passed \/ (On /\ Ending)
\* A row is claimed as current and no call has yet to put it on air.
Aired == js.key # NoRow /\ \A a \in acts : Live(a) => ~Trying(a)
\* No proof that row r is on air waits to be delivered.
Fresh(r) == \A e \in Pending : e.kind \in {"position", "foreground"} => e.row # r

\* No row is refused, and one call at most holds the advance flag.
Unfailing == js.flagged = {} /\ \A a \in acts : a.kind # "skip"
OneAdvance ==
  /\ \A a \in acts : a.advance => js.advancing
  /\ \A a, b \in acts : a.advance /\ b.advance => a = b
  /\ \A a \in acts : a.kind = "natural" => a.advance
EngineShape ==
  /\ eng.fg \in Rows \cup {NoRow} /\ eng.bg \in Rows \cup {NoRow}
  /\ eng.phase \in {"empty", "loading", "playing", "ending", "ended"}
  /\ eng.fg = NoRow <=> eng.phase = "empty"
  /\ rust.confirmed \in BOOLEAN
\* Nothing is claimed: a stop is about to clear the layer, or has cleared it.
Vacant == js.key = NoRow => (\E a \in acts : a.pc = "clear") \/ (eng.fg = NoRow /\ eng.bg = NoRow)
\* No superseded dispatch is left that could release the registration of the present one.
NoneLate ==
  rust.gen = js.token \/ (\E a \in acts : Live(a) /\ a.kind = "natural") =>
     \A b \in acts : Plays(b) /\ b.pc = "registered" => Live(b)

-----------------------------------------------------------------------------
(* A row is on air: what Rust and the engine hold of it *)

Linked == rust.row = js.key /\ rust.gen = js.token
Placed == On \/ Passed \/ Awaited(js.key)
\* Nothing but the successor is left behind the clip, unless a preload is about to replace it.
Backed ==
  On /\ (\A a \in acts : Live(a) => a.pc \notin {"gate", "loadbg"}) =>
    eng.bg \in {NoRow, Successor(js.queue, js.key)}
\* Rust has told of the end, exactly when the advance waits to be delivered.
Signalled ==
  /\ rust.fired => Ended /\ \E e \in Pending : e.kind = "advance" /\ e.row = js.key /\ e.gen = js.token
  /\ \A e \in Pending : e.kind = "advance" /\ e.gen = js.token => rust.fired
\* At the end of the clip nothing stands in the way of its advance.
Closing == Ended => rust.confirmed /\ ~js.advancing /\ \A e \in Pending : e.row = js.key
\* The cut has been told, or will be seen.
Seen ==
  /\ Passed => rust.fired \/ eng.fg = rust.next
  /\ rust.observed = NoRow \/ (Passed /\ rust.observed = eng.fg)
  /\ Edits = {} /\ ~rust.fired => rust.next = Successor(js.queue, js.key)
Waiting == Awaited(js.key) => ~rust.confirmed /\ Fresh(js.key)
AirInv ==
  Aired => /\ Linked /\ Placed /\ Backed /\ Signalled /\ Closing /\ Seen /\ Waiting
           /\ js.dedup # js.key

-----------------------------------------------------------------------------
(* What the live call finds *)

Dispatched(a) == Plays(a) /\ a.pc = "registered" =>
  /\ Linked /\ ~rust.fired /\ rust.observed = NoRow
  /\ Edits = {} => rust.next = Successor(js.queue, js.key)
Planned(a) == a.kind # "preload" /\ a.pc = "prepare" => a.next = Successor(js.queue, js.key)
Sent(a) == Plays(a) /\ a.pc \in {"played", "await"} => On /\ eng.bg = NoRow
Taking(a) == a.kind = "natural" /\ a.pc \in {"resolve", "prepare"} =>
  /\ Coming(a.row) /\ rust.row \notin {NoRow, a.row}
  /\ rust.observed = a.row => eng.fg = a.row
  /\ Awaited(a.row) => Fresh(a.row) /\ ~a.proof /\ ~a.fg
  /\ js.dedup # a.row
Taken(a) == a.kind = "natural" /\ a.pc \in {"registered", "await"} =>
  /\ Coming(a.row)
  /\ Awaited(a.row) => ~a.proof /\ ~a.fg
Loading(a) ==
  /\ a.kind = "preload" => a.epoch = js.epoch
  /\ a.pc = "gate" => /\ Edits # {} /\ a.behind = js.key /\ js.loading.epoch < js.epoch
                      /\ On /\ Rolling
  /\ a.pc = "loadbg" => On /\ (eng.bg = NoRow \/ (Edits # {} /\ Rolling))
  /\ a.pc = "loaded" => (On /\ eng.bg = a.row) \/ (Passed /\ eng.fg = a.row)
CallInv(a) ==
  /\ Dispatched(a) /\ Planned(a) /\ Sent(a) /\ Taking(a) /\ Taken(a) /\ Loading(a)
  /\ Plays(a) => js.dedup # js.key
Calls == \A a \in acts : Live(a) => CallInv(a)

\* Where the rundown is edited no clip ends beside a call, and the service knows that it plays.
Editable ==
  /\ js.loading.epoch \in Nat /\ js.loading.epoch <= js.epoch
  /\ Edits # {} =>
     /\ Aired /\ Ended => \A a \in acts : ~Live(a)
     /\ Aired /\ (\A a \in acts : Live(a) => a.pc # "played") => js.playing
     /\ \A a \in acts : Live(a) /\ a.kind = "natural" => js.playing
\* Once Rust has seen a position of the registered clip the first-frame proof is that of
\* the clip, or will be.
ProofComes ==
  \E i \in 0..Len(events) :
     /\ IF i = 0 THEN js.proven = js.key ELSE events[i].kind = "position" /\ events[i].row = js.key
     /\ \A k \in i + 1..Len(events) : events[k].kind = "position" => events[k].row = js.key
Proved == rust.gen = js.token /\ rust.row = js.key /\ rust.position => ProofComes

ChannelInv ==
  /\ Unfailing /\ OneAdvance /\ EngineShape /\ Vacant /\ NoneLate
  /\ AirInv /\ Calls /\ Editable /\ Proved

-----------------------------------------------------------------------------
(* What the steps of a call do to the clip on air *)

\* What module state k keeps of j beside the fields of Is and the advance flag.
Keeps(j, k) ==
  /\ k.proven = j.proven /\ k.playing = j.playing /\ k.dedup = j.dedup /\ k.flagged = j.flagged
  /\ k.loading \in {j.loading, NotLoading}
\* Call b is call a at another await.
Onward(a, b, pc, next) ==
  /\ DOMAIN b = CallNames
  /\ b.kind = a.kind /\ b.row = a.row /\ b.behind = a.behind /\ b.idx = a.idx /\ b.token = a.token
  /\ b.gen = a.gen /\ b.epoch = a.epoch /\ b.attempt = a.attempt /\ b.advance = a.advance
  /\ b.manual = a.manual /\ b.proof = a.proof /\ b.fg = a.fg
  /\ b.pc = pc /\ b.next = next
\* A call that goes on keeps all but where it stands.
LEMMA Changes ==
  ASSUME NEW a, DOMAIN a = CallNames, NEW pc, NEW next
  PROVE  /\ Onward(a, [a EXCEPT !.pc = pc], pc, a.next)
         /\ Onward(a, [a EXCEPT !.pc = pc, !.next = next], pc, next)
BY DEF Onward, CallNames

\* A call that goes on, and one that ends.
LEMMA GoesAs ==
  ASSUME NEW a, NEW j, NEW b, Goes(a, j, b), b.pc # "done"
  PROVE  js' = j /\ Turns(a, b)
<1>1. NoAct.pc = "done"
  BY DEF NoAct
<1> QED
  BY <1>1 DEF Goes, Turns
\* A call that returns leaves the others.
LEMMA GoesAway ==
  ASSUME NEW a, NEW j, Goes(a, j, NoAct)
  PROVE  js' = Returned(j, a) /\ acts' = acts \ {a}
<1>1. NoAct.pc = "done"
  BY DEF NoAct
<1> QED
  BY <1>1 DEF Goes
\* It gives back the advance flag and nothing else.
LEMMA ReturnedIs ==
  ASSUME NEW j, DOMAIN j = JsNames, NEW a
  PROVE  /\ Agree(j, Returned(j, a)) /\ Keeps(j, Returned(j, a))
         /\ Returned(j, a).advancing <=> j.advancing /\ ~a.advance
BY DEF Agree, Is, Keeps, Returned, JsNames

\* A call that is not superseded, step by step.
LEMMA ResolveStep ==
  ASSUME Shapes, NEW a \in acts, Live(a), ResolveItem(a)
  PROVE  /\ a.kind = "item" /\ a.pc = "resolve" /\ UNCHANGED <<rust, events, eng, aired>>
         /\ \E b : Turns(a, b) /\ Onward(a, b, "prepare", RowAt(js.queue, a.idx + 1))
         /\ Is(js', js.token, js.key, {}, js.queue, js.coordGen, js.epoch, js.armed)
         /\ Keeps(js, js') /\ js'.advancing = js.advancing
<1> DEFINE b == [a EXCEPT !.pc = "prepare", !.next = RowAt(js.queue, a.idx + 1)]
           k == [js EXCEPT !.guard = {}]
<1>1. DOMAIN a = CallNames /\ DOMAIN js = JsNames /\ ~Superseded(a)
  BY LiveIs DEF Shapes, CallShape, JsShape
<1>2. Goes(a, k, b) /\ a.kind = "item" /\ a.pc = "resolve" /\ UNCHANGED <<rust, events, eng, aired>>
  BY <1>1 DEF ResolveItem
<1>3. Onward(a, b, "prepare", RowAt(js.queue, a.idx + 1))
  BY <1>1, Changes
<1>4. Is(k, js.token, js.key, {}, js.queue, js.coordGen, js.epoch, js.armed) /\ Keeps(js, k) /\ k.advancing = js.advancing
  BY <1>1 DEF Is, Keeps, JsNames
<1> HIDE DEF b, k
<1>5. b.pc # "done"
  BY <1>3 DEF Onward
<1>6. js' = k /\ Turns(a, b)
  BY <1>2, <1>5, GoesAs
<1> QED
  BY <1>2, <1>3, <1>4, <1>6

\* The registration is sent, for PLAY or behind the engine's own cut.
LEMMA RegisterStep ==
  ASSUME Shapes, NEW a \in acts, Live(a), Dispatch(a) \/ RegisterNext(a)
  PROVE  /\ a.kind \in {"take", "item", "natural"} /\ a.pc = "prepare" /\ UNCHANGED <<eng, aired>>
         /\ \E b : Turns(a, b) /\ Onward(a, b, "registered", a.next)
         /\ js' = js /\ Register(a.row, a.token, a.next)
         /\ a.kind # "natural" => "late" \in Windows \/ \A c \in acts : ~(c.pc = "registered" /\ Superseded(c))
<1> DEFINE b == [a EXCEPT !.pc = "registered"]
<1>1. DOMAIN a = CallNames /\ DOMAIN js = JsNames /\ ~Superseded(a)
  BY LiveIs DEF Shapes, CallShape, JsShape
<1>2. /\ Goes(a, js, b) /\ a.pc = "prepare" /\ a.kind \in {"take", "item", "natural"} /\ UNCHANGED <<eng, aired>>
      /\ Register(a.row, a.token, a.next)
      /\ a.kind # "natural" => "late" \in Windows \/ \A c \in acts : ~(c.pc = "registered" /\ Superseded(c))
  BY <1>1 DEF Dispatch, RegisterNext
<1>3. Onward(a, b, "registered", a.next)
  BY <1>1, Changes
<1> HIDE DEF b
<1>5. b.pc # "done"
  BY <1>3 DEF Onward
<1>6. js' = js /\ Turns(a, b)
  BY <1>2, <1>5, GoesAs
<1> QED
  BY <1>2, <1>3, <1>6

\* PLAY is sent.
LEMMA SendStep ==
  ASSUME Shapes, NEW a \in acts, Live(a), SendPlay(a)
  PROVE  /\ Plays(a) /\ a.pc = "registered" /\ UNCHANGED <<rust, events, aired>>
         /\ \E b : Turns(a, b) /\ Onward(a, b, "played", a.next)
         /\ js' = js /\ PLAY(a.row)
<1> DEFINE b == [a EXCEPT !.pc = "played"]
<1>1. DOMAIN a = CallNames /\ DOMAIN js = JsNames /\ ~Superseded(a)
  BY LiveIs DEF Shapes, CallShape, JsShape
<1>2. Goes(a, js, b) /\ Plays(a) /\ a.pc = "registered" /\ UNCHANGED <<rust, events, aired>> /\ PLAY(a.row)
  BY <1>1 DEF SendPlay, Plays
<1>3. Onward(a, b, "played", a.next)
  BY <1>1, Changes
<1> HIDE DEF b
<1>5. b.pc # "done"
  BY <1>3 DEF Onward
<1>6. js' = js /\ Turns(a, b)
  BY <1>2, <1>5, GoesAs
<1> QED
  BY <1>2, <1>3, <1>6

\* PLAY is acknowledged: the service knows that it plays.
LEMMA PlayedStep ==
  ASSUME Shapes, NEW a \in acts, Live(a), Played(a)
  PROVE  /\ a.pc = "played" /\ UNCHANGED <<rust, events, eng, aired>>
         /\ \E b : Turns(a, b) /\ Onward(a, b, "await", a.next)
         /\ Is(js', js.token, js.key, js.guard \cup {a.row}, js.queue, js.coordGen, js.epoch, js.armed)
         /\ js'.advancing = js.advancing /\ js'.playing = TRUE
         /\ js'.proven = js.proven /\ js'.dedup = js.dedup /\ js'.flagged = js.flagged /\ js'.loading = js.loading
<1> DEFINE b == [a EXCEPT !.pc = "await"]
           k == [js EXCEPT !.playing = TRUE, !.guard = @ \cup {a.row},
                             !.skips = IF a.kind = "item" THEN 0 ELSE @,
                             !.onAir = IF a.kind = "take" THEN a.row ELSE @]
<1>1. DOMAIN a = CallNames /\ DOMAIN js = JsNames /\ ~Superseded(a)
  BY LiveIs DEF Shapes, CallShape, JsShape
<1>2. Goes(a, k, b) /\ a.pc = "played" /\ UNCHANGED <<rust, events, eng, aired>>
  BY <1>1 DEF Played
<1>3. Onward(a, b, "await", a.next)
  BY <1>1, Changes
<1>4. /\ Is(k, js.token, js.key, js.guard \cup {a.row}, js.queue, js.coordGen, js.epoch, js.armed)
      /\ k.advancing = js.advancing /\ k.playing = TRUE
      /\ k.proven = js.proven /\ k.dedup = js.dedup /\ k.flagged = js.flagged /\ k.loading = js.loading
  BY <1>1 DEF Is, JsNames
<1> HIDE DEF b, k
<1>5. b.pc # "done"
  BY <1>3 DEF Onward
<1>6. js' = k /\ Turns(a, b)
  BY <1>2, <1>5, GoesAs
<1> QED
  BY <1>2, <1>3, <1>4, <1>6

\* The registration behind the engine's own cut is acknowledged.
LEMMA NextRegisteredStep ==
  ASSUME Shapes, NEW a \in acts, Live(a), NextRegistered(a)
  PROVE  /\ a.kind = "natural" /\ a.pc = "registered" /\ UNCHANGED <<rust, events, eng, aired>>
         /\ \E b : Turns(a, b) /\ Onward(a, b, "await", a.next)
         /\ Is(js', js.token, js.key, js.guard \cup {a.row}, js.queue, js.coordGen, js.epoch, js.armed)
         /\ Keeps(js, js') /\ js'.advancing = js.advancing
<1> DEFINE b == [a EXCEPT !.pc = "await"]
           k == [js EXCEPT !.guard = @ \cup {a.row}]
<1>1. DOMAIN a = CallNames /\ DOMAIN js = JsNames /\ ~Superseded(a)
  BY LiveIs DEF Shapes, CallShape, JsShape
<1>2. Goes(a, k, b) /\ a.kind = "natural" /\ a.pc = "registered" /\ UNCHANGED <<rust, events, eng, aired>>
  BY <1>1 DEF NextRegistered
<1>3. Onward(a, b, "await", a.next)
  BY <1>1, Changes
<1>4. /\ Is(k, js.token, js.key, js.guard \cup {a.row}, js.queue, js.coordGen, js.epoch, js.armed)
      /\ Keeps(js, k) /\ k.advancing = js.advancing
  BY <1>1 DEF Is, Keeps, JsNames
<1> HIDE DEF b, k
<1>5. b.pc # "done"
  BY <1>3 DEF Onward
<1>6. js' = k /\ Turns(a, b)
  BY <1>2, <1>5, GoesAs
<1> QED
  BY <1>2, <1>3, <1>4, <1>6

\* The natural advance claims its row.
LEMMA ClaimStep ==
  ASSUME Shapes, NEW a \in acts, Live(a), ClaimNext(a)
  PROVE  /\ a.kind = "natural" /\ a.pc = "resolve" /\ UNCHANGED <<rust, events, eng, aired>>
         /\ \E b : Turns(a, b) /\ Onward(a, b, "prepare", RowAt(js.queue, a.idx + 1))
         /\ Is(js', js.token, a.row, {}, js.queue, js.coordGen, js.epoch, js.armed)
         /\ js'.advancing = js.advancing /\ js'.proven = NoRow
         /\ js'.playing = js.playing /\ js'.dedup = js.dedup /\ js'.flagged = js.flagged /\ js'.loading = js.loading
<1> DEFINE b == [a EXCEPT !.pc = "prepare", !.next = RowAt(js.queue, a.idx + 1)]
           k == [Claim(js, a.row) EXCEPT !.guard = {}]
<1>1. DOMAIN a = CallNames /\ DOMAIN js = JsNames /\ ~Superseded(a)
  BY LiveIs DEF Shapes, CallShape, JsShape
<1>2. Goes(a, k, b) /\ a.kind = "natural" /\ a.pc = "resolve" /\ UNCHANGED <<rust, events, eng, aired>>
  BY <1>1 DEF ClaimNext
<1>3. Onward(a, b, "prepare", RowAt(js.queue, a.idx + 1))
  BY <1>1, Changes
<1>4. /\ Is(k, js.token, a.row, {}, js.queue, js.coordGen, js.epoch, js.armed)
      /\ k.advancing = js.advancing /\ k.proven = NoRow
      /\ k.playing = js.playing /\ k.dedup = js.dedup /\ k.flagged = js.flagged /\ k.loading = js.loading
  BY <1>1 DEF Is, Claim, JsNames
<1> HIDE DEF b, k
<1>5. b.pc # "done"
  BY <1>3 DEF Onward
<1>6. js' = k /\ Turns(a, b)
  BY <1>2, <1>5, GoesAs
<1> QED
  BY <1>2, <1>3, <1>4, <1>6

\* A call that ends, and one that starts to load row r.
Leaves(a) ==
  /\ acts' = acts \ {a} /\ Agree(js, js') /\ Keeps(js, js')
  /\ js'.advancing <=> js.advancing /\ ~a.advance
StartsLoading(a, r) ==
  /\ \E b : /\ Turns(a, b) /\ Call(b, "loadbg", "preload", r, 0, a.token)
            /\ b.epoch = js.epoch /\ b.advance = a.advance /\ b.proof = FALSE /\ b.fg = FALSE
  /\ r # NoRow
  /\ Agree(js, js') /\ js'.advancing = js.advancing
  /\ js'.proven = js.proven /\ js'.playing = js.playing /\ js'.dedup = js.dedup /\ js'.flagged = js.flagged
  /\ js'.loading = [row |-> r, epoch |-> js.epoch]
Idles(r) ==
  r = NoRow \/ r \in js.flagged \/ r \in js.armed \/ js.loading = [row |-> r, epoch |-> js.epoch]

\* When a call that ends leaves the rest of the module state alone.
LEMMA LeavesIf ==
  ASSUME NEW a, NEW j, DOMAIN js = JsNames, Agree(js, j), Keeps(js, j), j.advancing = js.advancing, Goes(a, j, NoAct)
  PROVE  Leaves(a)
<1>1. DOMAIN j = JsNames
  BY DEF Agree, Is
<1>2. js' = Returned(j, a) /\ acts' = acts \ {a}
  BY GoesAway
<1>3. Agree(j, js') /\ Keeps(j, js') /\ (js'.advancing <=> j.advancing /\ ~a.advance)
  BY <1>1, <1>2, ReturnedIs
<1> QED
  BY <1>2, <1>3 DEF Leaves, Agree, Is, Keeps

\* A preload is started, unless there is nothing to load.
LEMMA PreloadStep ==
  ASSUME DOMAIN js = JsNames, NEW a, NEW r, Goes(a, Preload(js, a, r).js, Preload(js, a, r).act)
  PROVE  (Idles(r) /\ Leaves(a)) \/ (~Idles(r) /\ StartsLoading(a, r))
<1> DEFINE k == [js EXCEPT !.loading = [row |-> r, epoch |-> js.epoch]]
           b == LoadCall(js, a, r)
<1>1. CASE Idles(r)
  <2>1. Preload(js, a, r) = Result(js, NoAct)
    BY <1>1 DEF Preload, Idles
  <2>2. Goes(a, js, NoAct)
    BY <2>1, Results
  <2>3. Agree(js, js) /\ Keeps(js, js)
    BY DEF Agree, Is, Keeps
  <2> QED
    BY <1>1, <2>2, <2>3, LeavesIf
<1>2. CASE ~Idles(r)
  <2>1. Preload(js, a, r) = Result(k, b)
    BY <1>2 DEF Preload, Idles, LoadCall
  <2>2. Goes(a, k, b)
    BY <2>1, Results
  <2>3. /\ Call(b, "loadbg", "preload", r, 0, a.token)
        /\ b.epoch = js.epoch /\ b.advance = a.advance /\ b.proof = FALSE /\ b.fg = FALSE
    BY DEF LoadCall, NoAct, Call, CallNames
  <2>4. /\ Agree(js, k) /\ k.advancing = js.advancing
        /\ k.proven = js.proven /\ k.playing = js.playing /\ k.dedup = js.dedup /\ k.flagged = js.flagged
        /\ k.loading = [row |-> r, epoch |-> js.epoch]
    BY DEF Agree, Is, JsNames
  <2> HIDE DEF b, k
  <2>5. b.pc # "done"
    BY <2>3 DEF Call
  <2>6. js' = k /\ Turns(a, b)
    BY <2>2, <2>5, GoesAs
  <2>7. r # NoRow
    BY <1>2 DEF Idles
  <2> QED
    BY <1>2, <2>3, <2>4, <2>6, <2>7 DEF StartsLoading
<1> QED
  BY <1>1, <1>2

\* A call ends without more.
LEMMA LeavesAtOnce == ASSUME DOMAIN js = JsNames, NEW a, Ends(a) PROVE Leaves(a)
<1>1. Agree(js, js) /\ Keeps(js, js)
  BY DEF Agree, Is, Keeps
<1> QED
  BY <1>1, LeavesIf DEF Ends

\* A clip on air loads what comes next, on the proof that its first frame was seen.
LEMMA ArmStep ==
  ASSUME Shapes, NEW a \in acts, Live(a), ArmNext(a) \/ ArmAfterNatural(a)
  PROVE  /\ a.pc = "await" /\ a.kind \in {"take", "item", "natural"} /\ UNCHANGED <<rust, events, eng, aired>>
         /\ \/ Leaves(a)
            \/ /\ StartsLoading(a, RowAt(js.queue, a.idx + 1))
               /\ a.kind = "natural" => SafeToArm(a)
               /\ a.kind # "natural" => (IF a.kind = "take" THEN js.proven = a.row ELSE a.proof) \/ TimedOut(a)
<1>1. DOMAIN js = JsNames /\ ~Superseded(a)
  BY LiveIs DEF Shapes, JsShape
<1> DEFINE r == RowAt(js.queue, a.idx + 1)
<1>2. /\ a.pc = "await" /\ a.kind \in {"take", "item", "natural"} /\ UNCHANGED <<rust, events, eng, aired>>
      /\ \/ Ends(a)
         \/ /\ Goes(a, Preload(js, a, r).js, Preload(js, a, r).act)
            /\ a.kind = "natural" => SafeToArm(a)
            /\ a.kind # "natural" => (IF a.kind = "take" THEN js.proven = a.row ELSE a.proof) \/ TimedOut(a)
  BY <1>1 DEF ArmNext, ArmAfterNatural
<1> HIDE DEF r
<1>3. Ends(a) => Leaves(a)
  BY <1>1, LeavesAtOnce
<1>4. Goes(a, Preload(js, a, r).js, Preload(js, a, r).act) => Leaves(a) \/ StartsLoading(a, r)
  BY <1>1, PreloadStep
<1> QED
  BY <1>2, <1>3, <1>4 DEF r

\* A gated preload starts to load, or is withheld.
LEMMA GateStep ==
  ASSUME Shapes, NEW a \in acts, Live(a), GatePreload(a)
  PROVE  /\ a.pc = "gate" /\ UNCHANGED <<rust, events, eng, aired>>
         /\ \/ /\ a.epoch # js.epoch \/ js.key # a.behind \/ (js.proven # a.behind /\ NoProofComes) \/ Idles(a.row)
               /\ Leaves(a)
            \/ js.proven = js.key /\ StartsLoading(a, a.row)
<1>1. DOMAIN js = JsNames /\ a.token = js.token
  BY DEF Shapes, JsShape, Live
<1> DEFINE r == a.row
<1>2. /\ a.pc = "gate" /\ UNCHANGED <<rust, events, eng, aired>>
      /\ \/ /\ a.epoch # js.epoch \/ js.key # a.behind \/ (js.proven # a.behind /\ NoProofComes)
            /\ Ends(a)
         \/ js.proven = js.key /\ Goes(a, Preload(js, a, r).js, Preload(js, a, r).act)
  BY <1>1 DEF GatePreload, StalePreload
<1> HIDE DEF r
<1>3. Ends(a) => Leaves(a)
  BY <1>1, LeavesAtOnce
<1>4. Goes(a, Preload(js, a, r).js, Preload(js, a, r).act) => (Idles(r) /\ Leaves(a)) \/ StartsLoading(a, r)
  BY <1>1, PreloadStep
<1> QED
  BY <1>2, <1>3, <1>4 DEF r

\* LOADBG is sent, unless the preload is stale.
LEMMA LoadStep ==
  ASSUME Shapes, NEW a \in acts, Live(a), SendLoadbg(a), Failing = {}
  PROVE  /\ a.pc = "loadbg" /\ UNCHANGED <<rust, events, aired>>
         /\ \/ a.epoch # js.epoch /\ Leaves(a) /\ eng' = eng
            \/ /\ \E b : Turns(a, b) /\ Onward(a, b, "loaded", a.next)
               /\ js' = js /\ LOADBG_AUTO(a.row)
<1> DEFINE b == [a EXCEPT !.pc = "loaded"]
<1>1. DOMAIN a = CallNames /\ DOMAIN js = JsNames /\ a.token = js.token
  BY DEF Shapes, CallShape, JsShape, Live
<1>2. /\ a.pc = "loadbg" /\ UNCHANGED <<rust, events, aired>>
      /\ \/ a.epoch # js.epoch /\ Goes(a, LoadDone(a), NoAct) /\ eng' = eng
         \/ Goes(a, js, b) /\ LOADBG_AUTO(a.row)
  BY <1>1 DEF SendLoadbg, StalePreload
<1>3. Agree(js, LoadDone(a)) /\ Keeps(js, LoadDone(a)) /\ LoadDone(a).advancing = js.advancing
  BY <1>1 DEF LoadDone, Agree, Is, Keeps, JsNames
<1>4. Onward(a, b, "loaded", a.next)
  BY <1>1, Changes
<1> HIDE DEF b
<1>5. b.pc # "done"
  BY <1>4 DEF Onward
<1>6. Goes(a, js, b) => js' = js /\ Turns(a, b)
  BY <1>5, GoesAs
<1>7. Goes(a, LoadDone(a), NoAct) => Leaves(a)
  BY <1>1, <1>3, LeavesIf
<1> QED
  BY <1>2, <1>4, <1>6, <1>7

\* LOADBG is acknowledged.
LEMMA LoadedStep ==
  ASSUME Shapes, NEW a \in acts, Live(a), Loaded(a)
  PROVE  /\ a.pc = "loaded" /\ UNCHANGED <<rust, events, eng, aired>>
         /\ acts' = acts \ {a} /\ Keeps(js, js')
         /\ Is(js', js.token, js.key, js.guard, js.queue, js.coordGen, js.epoch, js'.armed)
         /\ js'.advancing <=> js.advancing /\ ~a.advance
<1> DEFINE k == [LoadDone(a) EXCEPT !.armed = IF StalePreload(a) THEN @ ELSE @ \cup {a.row}]
<1>1. DOMAIN js = JsNames
  BY DEF Shapes, JsShape
<1>2. a.pc = "loaded" /\ UNCHANGED <<rust, events, eng, aired>> /\ Goes(a, k, NoAct)
  BY DEF Loaded
<1>3. /\ Is(k, js.token, js.key, js.guard, js.queue, js.coordGen, js.epoch, k.armed) /\ Keeps(js, k)
      /\ k.advancing = js.advancing
  BY <1>1 DEF LoadDone, Is, Keeps, JsNames
<1> HIDE DEF k
<1>4. DOMAIN k = JsNames
  BY <1>3 DEF Is
<1>5. js' = Returned(k, a) /\ acts' = acts \ {a}
  BY <1>2, GoesAway
<1>6. Agree(k, js') /\ Keeps(k, js') /\ (js'.advancing <=> k.advancing /\ ~a.advance)
  BY <1>4, <1>5, ReturnedIs
<1> QED
  BY <1>2, <1>3, <1>5, <1>6 DEF Agree, Is, Keeps

\* A stop clears the layer.
LEMMA ClearStep ==
  ASSUME Shapes, NEW a \in acts, StopClear(a)
  PROVE  /\ a.pc = "clear" /\ UNCHANGED <<rust, events, aired>>
         /\ \E b : Turns(a, b) /\ Onward(a, b, "release", a.next)
         /\ js' = js /\ CLEAR
<1> DEFINE b == [a EXCEPT !.pc = "release"]
<1>1. DOMAIN a = CallNames
  BY DEF Shapes, CallShape
<1>2. a.pc = "clear" /\ UNCHANGED <<rust, events, aired>> /\ Goes(a, js, b) /\ CLEAR
  BY DEF StopClear
<1>3. Onward(a, b, "release", a.next)
  BY <1>1, Changes
<1> HIDE DEF b
<1>4. b.pc # "done"
  BY <1>3 DEF Onward
<1> QED
  BY <1>2, <1>3, <1>4, GoesAs

\* A stop releases the registration.
LEMMA ReleaseStep ==
  ASSUME Shapes, NEW a \in acts, StopRelease(a)
  PROVE  a.pc = "release" /\ Leaves(a) /\ rust' = Cleared /\ UNCHANGED <<events, eng, aired>>
<1>1. DOMAIN js = JsNames
  BY DEF Shapes, JsShape
<1> QED
  BY <1>1, LeavesAtOnce DEF StopRelease

\* A superseded call leaves, and takes nothing with it but the registration of a late dispatch.
LEMMA FadeStep ==
  ASSUME Shapes, NEW a \in acts, ~Live(a), a.kind \notin {"stop", "skip"}, Failing = {},
         \/ ResolveItem(a) \/ Dispatch(a) \/ SendPlay(a) \/ Played(a) \/ Retries(a) \/ Fails(a)
         \/ SkipTimer(a)
         \/ ArmNext(a)
         \/ ClaimNext(a) \/ RegisterNext(a) \/ NaturalFails(a) \/ NextRegistered(a)
         \/ ArmAfterNatural(a)
         \/ GatePreload(a) \/ SendLoadbg(a) \/ Loaded(a)
         \/ StopClear(a) \/ StopRelease(a)
  PROVE  /\ Leaves(a) /\ UNCHANGED <<events, eng, aired>>
         /\ rust' = rust \/ (rust' = Cleared /\ Plays(a) /\ a.pc = "registered")
<1>1. DOMAIN js = JsNames /\ Superseded(a) /\ StalePreload(a)
  BY LiveIs DEF Shapes, JsShape, StalePreload, Live
<1>2. CallShape(a, js.token, js.coordGen)
  BY DEF Shapes
<1>3. ASSUME a.kind \notin {"stop", "skip"} PROVE a.pc \notin {"clear", "release", "skip"}
  BY <1>2, <1>3 DEF CallShape, Stands
<1>4. ~Refused(a) /\ ~NaturalFails(a)
  BY DEF Refused, NaturalFails
<1>5. CASE Ends(a) /\ UNCHANGED <<rust, events, eng, aired>>
  BY <1>1, <1>5, LeavesAtOnce
<1>6. CASE ResolveItem(a) \/ Dispatch(a) \/ Played(a) \/ ClaimNext(a) \/ RegisterNext(a) \/ NextRegistered(a)
  <2>1. Ends(a) /\ UNCHANGED <<rust, events, eng, aired>>
    BY <1>1, <1>6 DEF ResolveItem, Dispatch, Played, ClaimNext, RegisterNext, NextRegistered
  <2> QED
    BY <1>5, <2>1
<1>7. CASE SendPlay(a)
  <2>1. /\ Ends(a) /\ UNCHANGED <<events, eng, aired>> /\ Plays(a) /\ a.pc = "registered"
        /\ rust' \in {rust, Cleared}
    BY <1>1, <1>7 DEF SendPlay, Plays
  <2> QED
    BY <1>1, <2>1, LeavesAtOnce
<1>8. CASE ArmNext(a) \/ ArmAfterNatural(a) \/ GatePreload(a)
  <2>1. Ends(a) /\ UNCHANGED <<rust, events, eng, aired>>
    BY <1>1, <1>8 DEF ArmNext, ArmAfterNatural, GatePreload
  <2> QED
    BY <1>5, <2>1
<1>9. ASSUME NEW k, k = LoadDone(a), Goes(a, k, NoAct) PROVE Leaves(a)
  <2>1. Agree(js, k) /\ Keeps(js, k) /\ k.advancing = js.advancing
    BY <1>1, <1>9 DEF LoadDone, Agree, Is, Keeps, JsNames
  <2> QED
    BY <1>1, <1>9, <2>1, LeavesIf
<1>10. CASE SendLoadbg(a)
  <2>1. Goes(a, LoadDone(a), NoAct) /\ UNCHANGED <<rust, events, eng, aired>>
    BY <1>1, <1>10 DEF SendLoadbg
  <2> QED
    BY <1>9, <2>1
<1>11. CASE Loaded(a)
  <2> DEFINE k == [LoadDone(a) EXCEPT !.armed = @]
  <2>1. Goes(a, k, NoAct) /\ UNCHANGED <<rust, events, eng, aired>>
    BY <1>1, <1>11 DEF Loaded
  <2>2. Agree(js, k) /\ Keeps(js, k) /\ k.advancing = js.advancing
    BY <1>1 DEF LoadDone, Agree, Is, Keeps, JsNames
  <2> HIDE DEF k
  <2>3. Leaves(a)
    BY <1>1, <2>1, <2>2, LeavesIf, SMTT(60)
  <2> QED
    BY <2>1, <2>3
<1>12. ~Retries(a) /\ ~Fails(a) /\ ~SkipTimer(a) /\ ~StopClear(a) /\ ~StopRelease(a)
  BY <1>3, <1>4 DEF Retries, Fails, SkipTimer, StopClear, StopRelease
<1> QED
  BY <1>4, <1>6, <1>7, <1>8, <1>10, <1>11, <1>12

-----------------------------------------------------------------------------
(* The synchronous starts, as far as the rest of the module state goes *)

\* A fresh call.
Plain(b) ==
  /\ DOMAIN b = CallNames /\ b.proof = FALSE /\ b.fg = FALSE

\* take and play supersede whatever was in flight.
Asks(r) ==
  /\ \E b : /\ Joins(b) /\ Plain(b) /\ Plays(b) /\ b.advance = FALSE
            /\ b.row = r /\ b.token = js.token + 1
            /\ \/ b.kind = "take" /\ b.pc = "prepare" /\ b.next = Successor(js.queue, r)
               \/ b.kind = "item" /\ b.pc = "resolve"
  /\ js'.dedup = NoRow /\ js'.flagged = js.flagged /\ js'.playing = js.playing /\ js'.proven = NoRow
  /\ js'.loading = js.loading /\ js'.advancing = js.advancing
  /\ UNCHANGED aired
\* A take does.
LEMMA TakeAsks == ASSUME Shapes, NEW r \in Rows, Take(r) PROVE Asks(r)
<1> DEFINE k == [Claim(InvalidatePreloads(js), r) EXCEPT
                   !.token = @ + 1, !.coordGen = @ + 1, !.guard = {}, !.dedup = NoRow]
           b == [NoAct EXCEPT !.pc = "prepare", !.kind = "take", !.row = r, !.idx = IndexIn(k.queue, r),
                              !.next = Successor(k.queue, r), !.token = k.token, !.gen = k.coordGen]
<1>1. DOMAIN js = JsNames
  BY DEF Shapes, JsShape
<1>2. js' = k /\ Joins(b) /\ UNCHANGED aired
  BY DEF Take, Commanded, Joins
<1>3. /\ k.token = js.token + 1 /\ k.queue = js.queue /\ k.dedup = NoRow /\ k.flagged = js.flagged
      /\ k.playing = js.playing /\ k.proven = NoRow /\ k.loading = js.loading /\ k.advancing = js.advancing
  BY <1>1 DEF Claim, InvalidatePreloads, JsNames
<1> HIDE DEF k
<1>4. /\ Plain(b) /\ Plays(b) /\ b.advance = FALSE /\ b.row = r /\ b.token = js.token + 1
      /\ b.kind = "take" /\ b.pc = "prepare" /\ b.next = Successor(js.queue, r)
  BY <1>3 DEF NoAct, Plain, Plays, CallNames
<1> QED
  BY <1>2, <1>3, <1>4 DEF Asks
\* A play does.
LEMMA PlayAsks == ASSUME Shapes, NEW r \in Rows, Play(r) PROVE Asks(r)
<1> DEFINE k == [Claim(InvalidatePreloads(js), r) EXCEPT !.token = @ + 1, !.guard = {}, !.dedup = NoRow]
           i == IndexIn(k.queue, r)
           R == PlayItemAt(k, i, TRUE, FALSE)
<1>1. DOMAIN js = JsNames /\ JsShape(js)
  BY DEF Shapes, JsShape
<1>2. js' = R.js /\ Joins(R.act) /\ UNCHANGED aired /\ Contains(js.queue, r) /\ r \notin js.flagged
  BY DEF Play, Commanded, Joins
<1>3. /\ k.token = js.token + 1 /\ k.queue = js.queue /\ k.dedup = NoRow /\ k.flagged = js.flagged
      /\ k.playing = js.playing /\ k.proven = NoRow /\ k.loading = js.loading /\ k.advancing = js.advancing
  BY <1>1 DEF Claim, InvalidatePreloads, JsNames
<1>4. JsShape(k)
  BY <1>1 DEF Claim, InvalidatePreloads, JsNames, JsShape
<1> HIDE DEF k
<1>5. i \in DOMAIN k.queue /\ k.queue[i] = r /\ i \in Nat
  BY <1>1, <1>2, <1>3, Places DEF JsShape
<1> HIDE DEF i
<1>6. \A m, v : \/ PlayItemAt(k, i, m, v) = Stopping(k, v) /\ k.queue[i] \in k.flagged
                \/ PlayItemAt(k, i, m, v) = Result(Claim(k, k.queue[i]), ItemCall(k, i, m, v))
  <2> TAKE m, v
  <2>1. \/ PlayItemAt(k, i, m, v) = Stopping(k, v) /\ k.queue[i] \in k.flagged
        \/ \E n \in DOMAIN k.queue :
             /\ PlayItemAt(k, i, m, v) = Result(Claim(k, k.queue[n]), ItemCall(k, n, m, v))
             /\ k.queue[i] \notin k.flagged => n = i
    BY <1>4, <1>5, PlaysItem
  <2> QED
    BY <1>2, <1>3, <1>5, <2>1
<1>7. R = Result(Claim(k, r), ItemCall(k, i, TRUE, FALSE))
  <2>1. k.queue[i] \notin k.flagged
    BY <1>2, <1>3, <1>5
  <2>2. PlayItemAt(k, i, TRUE, FALSE) = Result(Claim(k, k.queue[i]), ItemCall(k, i, TRUE, FALSE))
    BY <1>6, <2>1, Zenon
  <2> QED
    BY <1>5, <2>2
<1>8. R.js = Claim(k, r) /\ R.act = ItemCall(k, i, TRUE, FALSE)
  BY <1>7, Results
<1> HIDE DEF R
<1>9. LET b == R.act IN
      /\ Plain(b) /\ Plays(b) /\ b.advance = FALSE /\ b.row = r /\ b.token = js.token + 1
      /\ b.kind = "item" /\ b.pc = "resolve"
  BY <1>3, <1>5, <1>8 DEF ItemCall, NoAct, Plain, Plays, CallNames
<1>10. /\ R.js.dedup = NoRow /\ R.js.flagged = js.flagged
       /\ R.js.playing = js.playing /\ R.js.proven = NoRow /\ R.js.loading = js.loading /\ R.js.advancing = js.advancing
  BY <1>3, <1>4, <1>8 DEF Claim, JsShape, JsNames
<1> QED
  BY <1>2, <1>9, <1>10 DEF Asks

\* A stop.
Halting ==
  /\ \E b : /\ Joins(b) /\ Plain(b) /\ b.kind = "stop" /\ b.pc = "clear" /\ b.advance = FALSE
  /\ js'.dedup = js.dedup /\ js'.flagged = js.flagged /\ js'.playing = FALSE /\ js'.proven = NoRow
  /\ js'.loading = js.loading /\ js'.advancing = js.advancing
  /\ UNCHANGED aired
\* stop() leaves no claim and no proof of one.
LEMMA StopNowIs ==
  ASSUME NEW j, DOMAIN j = JsNames
  PROVE  LET k == StopNow(j) IN
         /\ k.dedup = j.dedup /\ k.flagged = j.flagged /\ k.playing = FALSE /\ k.proven = NoRow
         /\ k.loading = j.loading /\ k.advancing = j.advancing
BY DEF StopNow, Claim, InvalidatePreloads, JsNames
\* What a stop does.
LEMMA StopHalts == ASSUME Shapes, Stop PROVE Halting
<1> DEFINE b == [NoAct EXCEPT !.pc = "clear", !.kind = "stop", !.token = js.token + 1, !.advance = FALSE]
<1>1. DOMAIN js = JsNames
  BY DEF Shapes, JsShape
<1>a. \A v : Stopping(js, v) = Result(StopNow(js), [NoAct EXCEPT !.pc = "clear", !.kind = "stop", !.token = js.token + 1, !.advance = v])
  BY DEF Stopping
<1>b. Stopping(js, FALSE) = Result(StopNow(js), b)
  BY <1>a, Zenon
<1>2. js' = StopNow(js) /\ Joins(b) /\ UNCHANGED aired
  BY <1>b, Results DEF Stop, Commanded, Joins
<1>3. Plain(b) /\ b.kind = "stop" /\ b.pc = "clear" /\ b.advance = FALSE
  BY DEF NoAct, Plain, CallNames
<1> QED
  BY <1>1, <1>2, <1>3, StopNowIs DEF Halting

-----------------------------------------------------------------------------
(* The advance at the end of a clip *)

\* The rundown moves on from j to k, with the call b of the new token.
MovesOnTo(j, k, b) ==
  /\ Plain(b) /\ b.advance = TRUE /\ b.token = k.token /\ k.token > j.token
  /\ k.advancing = TRUE /\ k.dedup = j.key /\ k.flagged = j.flagged /\ k.loading = j.loading
  /\ k.queue = j.queue /\ k.proven \in {j.proven, NoRow}
  /\ \/ k.key = NoRow /\ b.kind = "stop" /\ b.pc = "clear" /\ k.epoch = j.epoch + 1
     \/ /\ k.key = Successor(j.queue, j.key) /\ k.key # NoRow /\ k.epoch = j.epoch /\ k.playing = j.playing
        /\ b.kind = "item" /\ b.pc = "resolve"
     \/ /\ k.key = j.key /\ k.epoch = j.epoch /\ k.playing = j.playing
        /\ b.kind = "natural" /\ b.pc = "resolve"
        /\ b.row = Successor(j.queue, j.key) /\ b.row # NoRow /\ b.row \in j.armed
\* The rundown does move on from a row without failures.
LEMMA AdvanceStep ==
  ASSUME NEW j, JsShape(j), ~j.advancing, j.flagged = {}, j.key # j.dedup
  PROVE  MovesOnTo(j, AdvanceNatural(j, j.key).js, AdvanceNatural(j, j.key).act)
<1> DEFINE R == AdvanceNatural(j, j.key)
           c == [j EXCEPT !.dedup = j.key]
           b == [c EXCEPT !.advancing = TRUE, !.guard = @ \ {c.key}, !.token = @ + 1]
           next == Successor(j.queue, j.key)
           i == IndexIn(j.queue, j.key) + 1
           taken == [b EXCEPT !.armed = @ \ {next}]
<1>0. DOMAIN j = JsNames /\ j.token \in Nat
  BY DEF JsShape
<1>1. /\ DOMAIN c = JsNames /\ c.key = j.key /\ c.queue = j.queue /\ c.armed = j.armed /\ c.flagged = {}
      /\ ~c.advancing
  BY <1>0 DEF JsNames
<1>2. /\ DOMAIN b = JsNames /\ b.key = j.key /\ b.queue = j.queue /\ b.armed = j.armed /\ b.flagged = {}
      /\ b.advancing = TRUE /\ b.token = j.token + 1 /\ b.dedup = j.key /\ b.loading = j.loading
      /\ b.epoch = j.epoch /\ b.playing = j.playing /\ b.coordGen = j.coordGen /\ b.guard \subseteq Rows
      /\ b.proven = j.proven
  BY <1>0 DEF JsNames, JsShape
<1>3. JsShape(b)
  BY <1>2 DEF JsShape
<1>a. /\ R = AdvanceToNext(c, TRUE)
      /\ \/ R = Stopping(b, TRUE)
         \/ next # NoRow /\ R = PlayItemAt(b, i, FALSE, TRUE)
         \/ next \in c.flagged
         \/ /\ next # NoRow /\ next \in j.armed
            /\ R = Result(taken, [NoAct EXCEPT !.pc = "resolve", !.kind = "natural", !.row = next, !.idx = i,
                                               !.token = b.token, !.advance = TRUE])
  <2>1. R = AdvanceToNext(c, TRUE)
    BY DEF AdvanceNatural
  <2>2. c.queue = j.queue /\ c.key = j.key /\ c.armed = j.armed /\ ~c.advancing
    BY <1>1
  <2> HIDE DEF R, c
  <2> QED
    BY <2>1, <2>2, Zenon DEF AdvanceToNext
<1> HIDE DEF R, b, c, i
<1>4. \A v : LET S == Stopping(b, v) IN
        /\ S.js = StopNow(b)
        /\ S.act = [NoAct EXCEPT !.pc = "clear", !.kind = "stop", !.token = b.token + 1, !.advance = v]
  BY Results DEF Stopping
<1>5. ASSUME R = Stopping(b, TRUE) PROVE MovesOnTo(j, R.js, R.act)
  <2>1. /\ R.js = StopNow(b)
        /\ R.act = [NoAct EXCEPT !.pc = "clear", !.kind = "stop", !.token = b.token + 1, !.advance = TRUE]
    BY <1>4, <1>5, Zenon
  <2>2. Is(StopNow(b), b.token + 1, NoRow, {}, b.queue, b.coordGen + 1, b.epoch + 1, {})
    BY <1>2, Stops
  <2>3. /\ R.js.dedup = b.dedup /\ R.js.flagged = b.flagged /\ R.js.loading = b.loading /\ R.js.advancing = b.advancing
        /\ R.js.proven = NoRow
    <3>1. DOMAIN b = JsNames
      BY <1>2
    <3>2. LET k == StopNow(b) IN
          /\ k.dedup = b.dedup /\ k.flagged = b.flagged /\ k.loading = b.loading /\ k.advancing = b.advancing
          /\ k.proven = NoRow
      BY <3>1, StopNowIs
    <3> QED
      BY <2>1, <3>2
  <2>4. /\ Plain(R.act) /\ R.act.advance = TRUE /\ R.act.token = b.token + 1 /\ R.act.kind = "stop" /\ R.act.pc = "clear"
    BY <2>1 DEF Plain, NoAct, CallNames
  <2>5. b.token + 1 > j.token
    BY <1>0, <1>2
  <2> QED
    BY <1>2, <2>1, <2>2, <2>3, <2>4, <2>5 DEF MovesOnTo, Is
<1>6. ASSUME next # NoRow, R = PlayItemAt(b, i, FALSE, TRUE) PROVE MovesOnTo(j, R.js, R.act)
  <2>1. i \in DOMAIN b.queue /\ b.queue[i] = next /\ i \in Nat
    BY <1>2, <1>6, Places DEF JsShape, i
  <2>2. \A m, v : PlayItemAt(b, i, m, v) = Result(Claim(b, next), ItemCall(b, i, m, v))
    <3> TAKE m, v
    <3>1. \/ b.queue[i] \in b.flagged
          \/ \E n \in DOMAIN b.queue :
               /\ PlayItemAt(b, i, m, v) = Result(Claim(b, b.queue[n]), ItemCall(b, n, m, v))
               /\ b.queue[i] \notin b.flagged => n = i
      BY <1>3, <2>1, PlaysItem
    <3> QED
      BY <1>2, <2>1, <3>1
  <2>3. R = Result(Claim(b, next), ItemCall(b, i, FALSE, TRUE))
    BY <1>6, <2>2, Zenon
  <2>4. R.js = Claim(b, next) /\ R.act = ItemCall(b, i, FALSE, TRUE)
    BY <2>3, Results
  <2>5. /\ R.js.token = b.token /\ R.js.key = next /\ R.js.queue = b.queue /\ R.js.epoch = b.epoch
        /\ R.js.dedup = b.dedup /\ R.js.flagged = b.flagged /\ R.js.loading = b.loading /\ R.js.advancing = b.advancing
        /\ R.js.playing = b.playing /\ R.js.proven = NoRow
    BY <1>2, <2>4 DEF Claim, JsNames
  <2>6. /\ Plain(R.act) /\ R.act.advance = TRUE /\ R.act.token = b.token /\ R.act.kind = "item" /\ R.act.pc = "resolve"
    BY <2>4 DEF ItemCall, Plain, NoAct, CallNames
  <2>7. b.token > j.token
    BY <1>0, <1>2, SMTT(60)
  <2> QED
    BY <1>2, <1>6, <2>5, <2>6, <2>7 DEF MovesOnTo
<1>7. ASSUME next # NoRow, next \in j.armed,
             R = Result(taken, [NoAct EXCEPT !.pc = "resolve", !.kind = "natural", !.row = next, !.idx = i,
                                             !.token = b.token, !.advance = TRUE])
      PROVE  MovesOnTo(j, R.js, R.act)
  <2>1. /\ R.js = taken
        /\ R.act = [NoAct EXCEPT !.pc = "resolve", !.kind = "natural", !.row = next, !.idx = i,
                                 !.token = b.token, !.advance = TRUE]
    <3>1. \A r : Result(taken, r).js = taken /\ Result(taken, r).act = r
      BY Results
    <3> QED
      BY <1>7, <3>1, Zenon
  <2>2. /\ taken.token = b.token /\ taken.key = b.key /\ taken.queue = b.queue /\ taken.epoch = b.epoch
        /\ taken.dedup = b.dedup /\ taken.flagged = b.flagged /\ taken.loading = b.loading /\ taken.advancing = b.advancing
        /\ taken.playing = b.playing /\ taken.proven = b.proven
    BY <1>2 DEF JsNames
  <2>3. /\ Plain(R.act) /\ R.act.advance = TRUE /\ R.act.token = b.token /\ R.act.kind = "natural"
        /\ R.act.pc = "resolve" /\ R.act.row = next
    BY <2>1 DEF Plain, NoAct, CallNames
  <2>4. b.token > j.token
    BY <1>0, <1>2
  <2>5. R.js = taken
    BY <2>1
  <2> HIDE DEF taken
  <2> QED
    BY <1>2, <1>7, <2>2, <2>3, <2>4, <2>5 DEF MovesOnTo
<1> QED
  BY <1>a, <1>1, <1>5, <1>6, <1>7 DEF R

\* Call b is call a, which may have been told of its row.
Alike(a, b) ==
  /\ DOMAIN b = CallNames
  /\ b.pc = a.pc /\ b.kind = a.kind /\ b.row = a.row /\ b.next = a.next /\ b.behind = a.behind
  /\ b.idx = a.idx /\ b.token = a.token /\ b.gen = a.gen /\ b.epoch = a.epoch /\ b.attempt = a.attempt
  /\ b.advance = a.advance /\ b.manual = a.manual
Informed(e) ==
  \E f : /\ acts' = {f[a] : a \in acts}
         /\ \A a \in acts :
              /\ Alike(a, f[a])
              /\ f[a].proof => a.proof \/ (e.kind = "position" /\ a.row = e.row)
              /\ f[a].fg => a.fg \/ (e.kind = "foreground" /\ a.row = e.row)
Continues == \E b : MovesOnTo(js, js', b) /\ Joins(b)

\* A call that is started joins the others.
LEMMA Starts ==
  ASSUME NEW j, NEW b, b.pc # "done", Start(Result(j, b))
  PROVE  js' = j /\ Joins(b)
<1>1. NoAct.pc = "done"
  BY DEF NoAct
<1> QED
  BY <1>1, Results DEF Start, Joins
\* An advance that is started for the row claimed moves the rundown on.
LEMMA StartsContinuing ==
  ASSUME Shapes, js.flagged = {}, ~js.advancing, js.key # js.dedup, Start(AdvanceNatural(js, js.key))
  PROVE  Continues
<1> DEFINE R == AdvanceNatural(js, js.key)
<1>1. MovesOnTo(js, R.js, R.act)
  BY AdvanceStep DEF Shapes
<1>2. js' = R.js /\ acts' = acts \cup ({R.act} \ {NoAct})
  BY DEF Start
<1> HIDE DEF R
<1>3. R.act.pc # "done" /\ NoAct.pc = "done"
  BY <1>1 DEF MovesOnTo, NoAct
<1>4. Joins(R.act)
  BY <1>2, <1>3 DEF Joins
<1> QED
  BY <1>1, <1>2, <1>4 DEF Continues

\* An event is delivered.
LEMMA DeliverStep ==
  ASSUME Shapes, js.flagged = {}, Deliver
  PROVE  LET e == Head(events) IN
         /\ events # <<>> /\ events' = Tail(events) /\ UNCHANGED <<rust, eng, aired>>
         /\ \/ /\ e.kind = "position" /\ Informed(e) /\ js'.proven = e.row /\ Agree(js, js')
               /\ js'.playing = js.playing /\ js'.dedup = js.dedup /\ js'.flagged = js.flagged
               /\ js'.loading = js.loading /\ js'.advancing = js.advancing
            \/ e.kind = "foreground" /\ Informed(e) /\ js' = js
            \/ /\ e.kind = "advance" /\ js' = js /\ acts' = acts
               /\ e.gen # js.token \/ e.row # js.key \/ e.row = js.dedup
            \/ /\ e.kind = "advance" /\ e.gen = js.token /\ e.row = js.key /\ e.row # js.dedup
               /\ js.advancing \/ Continues
<1> DEFINE e == Head(events)
<1>1. events # <<>> /\ events' = Tail(events) /\ UNCHANGED <<rust, eng, aired>> /\ e \in Notice /\ DOMAIN js = JsNames
      /\ \A a \in acts : DOMAIN a = CallNames
  BY Delivering DEF Deliver, Shapes, JsShape, CallShape
<1>2. \/ /\ e.kind = "position" /\ js' = [js EXCEPT !.proven = e.row]
         /\ acts' = {IF Waits(a, e.row) THEN [a EXCEPT !.proof = TRUE] ELSE a : a \in acts}
      \/ /\ e.kind = "foreground" /\ js' = js
         /\ acts' = {IF Waits(a, e.row) /\ a.kind = "natural" THEN [a EXCEPT !.fg = TRUE] ELSE a : a \in acts}
      \/ /\ e.kind = "advance"
         /\ Start(IF e.gen = js.token THEN AdvanceNatural(js, e.row) ELSE Result(js, NoAct))
  BY <1>1 DEF Deliver, Notice
<1> HIDE DEF e
<1>3. CASE /\ e.kind = "position" /\ js' = [js EXCEPT !.proven = e.row]
           /\ acts' = {IF Waits(a, e.row) THEN [a EXCEPT !.proof = TRUE] ELSE a : a \in acts}
  <2> DEFINE f == [a \in acts |-> IF Waits(a, e.row) THEN [a EXCEPT !.proof = TRUE] ELSE a]
  <2>1. acts' = {f[a] : a \in acts}
    BY <1>3
  <2>2. ASSUME NEW a \in acts
        PROVE  /\ Alike(a, f[a])
               /\ f[a].proof => a.proof \/ (e.kind = "position" /\ a.row = e.row)
               /\ f[a].fg => a.fg \/ (e.kind = "foreground" /\ a.row = e.row)
    <3>1. (f[a] = [a EXCEPT !.proof = TRUE] /\ a.row = e.row) \/ f[a] = a
      BY DEF Waits
    <3> QED
      BY <1>1, <1>3, <3>1 DEF Alike, CallNames
  <2>3. Informed(e)
    BY <2>1, <2>2 DEF Informed
  <2>4. /\ js'.proven = e.row /\ Agree(js, js')
        /\ js'.playing = js.playing /\ js'.dedup = js.dedup /\ js'.flagged = js.flagged
        /\ js'.loading = js.loading /\ js'.advancing = js.advancing
    BY <1>1, <1>3 DEF Agree, Is, JsNames
  <2> QED
    BY <1>1, <1>3, <2>3, <2>4 DEF e
<1>4. CASE /\ e.kind = "foreground" /\ js' = js
           /\ acts' = {IF Waits(a, e.row) /\ a.kind = "natural" THEN [a EXCEPT !.fg = TRUE] ELSE a : a \in acts}
  <2> DEFINE f == [a \in acts |-> IF Waits(a, e.row) /\ a.kind = "natural" THEN [a EXCEPT !.fg = TRUE] ELSE a]
  <2>1. acts' = {f[a] : a \in acts}
    BY <1>4
  <2>2. ASSUME NEW a \in acts
        PROVE  /\ Alike(a, f[a])
               /\ f[a].proof => a.proof \/ (e.kind = "position" /\ a.row = e.row)
               /\ f[a].fg => a.fg \/ (e.kind = "foreground" /\ a.row = e.row)
    <3>1. (f[a] = [a EXCEPT !.fg = TRUE] /\ a.row = e.row) \/ f[a] = a
      BY DEF Waits
    <3> QED
      BY <1>1, <1>4, <3>1 DEF Alike, CallNames
  <2>3. Informed(e)
    BY <2>1, <2>2 DEF Informed
  <2> QED
    BY <1>1, <1>4, <2>3 DEF e
<1>5. CASE /\ e.kind = "advance"
           /\ Start(IF e.gen = js.token THEN AdvanceNatural(js, e.row) ELSE Result(js, NoAct))
  <2>1. CASE e.gen # js.token \/ e.row # js.key \/ e.row = js.dedup
    <3>1. Start(Result(js, NoAct))
      BY <1>5, <2>1 DEF AdvanceNatural
    <3>2. js' = js /\ acts' = acts
      BY <3>1, Results DEF Start
    <3> QED
      BY <1>1, <1>5, <2>1, <3>2 DEF e
  <2>2. CASE e.gen = js.token /\ e.row = js.key /\ e.row # js.dedup
    <3>1. Start(AdvanceNatural(js, js.key))
      BY <1>5, <2>2
    <3>2. js.advancing \/ Continues
      BY <2>2, <3>1, StartsContinuing
    <3> QED
      BY <1>1, <1>5, <2>2, <3>2 DEF e
  <2> QED
    BY <2>1, <2>2
<1> QED
  BY <1>2, <1>3, <1>4, <1>5

\* The end guard.
LEMMA EndGuardStep ==
  ASSUME Shapes, js.flagged = {}, EndGuard
  PROVE  /\ UNCHANGED <<rust, events, eng, aired>>
         /\ rust.row \in js.guard /\ rust.confirmed /\ eng.phase = "ended" /\ eng.bg = NoRow
         /\ js.dedup # rust.row
         /\ \/ rust.row # js.key
            \/ rust.row = js.key /\ (js.advancing \/ Continues)
<1>1. /\ UNCHANGED <<rust, events, eng, aired>>
      /\ rust.row \in js.guard /\ rust.confirmed /\ eng.phase = "ended" /\ eng.bg = NoRow
      /\ js.dedup # rust.row /\ DOMAIN js = JsNames
  BY DEF EndGuard, Shapes, JsShape
<1>2. CASE rust.row = js.key /\ ~js.advancing
  <2> DEFINE R == AdvanceNatural(js, js.key)
             k == [R.js EXCEPT !.guard = @ \ {rust.row}]
  <2>1. Start(Result(k, R.act))
    BY <1>2 DEF EndGuard
  <2>2. MovesOnTo(js, R.js, R.act)
    BY <1>1, <1>2, AdvanceStep DEF Shapes
  <2>a. R = AdvanceToNext([js EXCEPT !.dedup = js.key], TRUE)
    BY <1>1, <1>2 DEF AdvanceNatural
  <2>3. DOMAIN R.js = JsNames
    <3>1. JsShape(js)
      BY DEF Shapes
    <3>2. (Agree(js, R.js) /\ R.act = NoAct) \/ Advanced(js, R.js, R.act, TRUE)
      BY <3>1, AdvancesNaturally
    <3> HIDE DEF R
    <3> QED
      BY <3>2 DEF Agree, Is, Advanced, Halted, PlaysBy, Took
  <2> HIDE DEF R
  <2>4. MovesOnTo(js, k, R.act)
    <3>1. /\ k.token = R.js.token /\ k.key = R.js.key /\ k.queue = R.js.queue /\ k.epoch = R.js.epoch
          /\ k.advancing = R.js.advancing /\ k.dedup = R.js.dedup /\ k.flagged = R.js.flagged
          /\ k.loading = R.js.loading /\ k.playing = R.js.playing /\ k.proven = R.js.proven
      BY <2>3 DEF JsNames
    <3> HIDE DEF k
    <3> QED
      BY <2>2, <3>1 DEF MovesOnTo
  <2> HIDE DEF k
  <2>5. R.act.pc # "done"
    BY <2>4 DEF MovesOnTo
  <2>6. js' = k /\ Joins(R.act)
    BY <2>1, <2>5, Starts
  <2> QED
    BY <1>1, <1>2, <2>4, <2>6 DEF Continues
<1> QED
  BY <1>1, <1>2

\* The rundown is edited while no call is in flight.
Same5(j, k) ==
  /\ k.proven = j.proven /\ k.playing = j.playing /\ k.dedup = j.dedup /\ k.flagged = j.flagged
  /\ k.loading = j.loading /\ k.advancing = j.advancing
\* What an edit leaves: all as it was, no preload, the successor that is already armed, or a gated preload.
LEMMA EditStep ==
  ASSUME Shapes, js.flagged = {}, NEW q \in Edits, Edit(q), "busy" \notin Windows, "last" \notin Windows
  PROVE  /\ acts = {} /\ UNCHANGED <<rust, events, eng, aired>>
         /\ "crossing" \notin Windows /\ js.playing => eng.fg = js.key /\ Rolling
         /\ eng.bg = NoRow \/ Successor(q, js.key) # NoRow
         /\ Same5(js, js')
         /\ \/ acts' = {} /\ Agree(js, js')
            \/ /\ acts' = {} /\ Is(js', js.token, js.key, js.guard, q, js.coordGen, js.epoch + 1, {})
               /\ ~js.playing \/ js.key = NoRow \/ Successor(q, js.key) = NoRow
            \/ /\ acts' = {} /\ Is(js', js.token, js.key, js.guard, q, js.coordGen, js.epoch, js.armed)
               /\ Successor(q, js.key) \in js.armed
            \/ /\ Is(js', js.token, js.key, js.guard, q, js.coordGen, js.epoch + 1, {})
               /\ Successor(q, js.key) # NoRow
               /\ \E b : /\ acts' = {b} /\ Plain(b) /\ Call(b, "gate", "preload", Successor(q, js.key), 0, js.token)
                         /\ b.behind = js.key /\ b.epoch = js.epoch + 1 /\ b.advance = FALSE
<1> DEFINE next == Successor(q, js.key)
           l == [js EXCEPT !.queue = q]
           k == InvalidatePreloads(l)
           b == [NoAct EXCEPT !.pc = "gate", !.kind = "preload", !.row = next, !.behind = k.key,
                              !.token = k.token, !.epoch = k.epoch]
           R == RefreshQueue(q)
<1>1. /\ acts = {} /\ UNCHANGED <<rust, events, eng, aired>>
      /\ "crossing" \notin Windows /\ js.playing => eng.fg = js.key /\ Rolling
      /\ eng.bg = NoRow \/ Successor(q, js.key) # NoRow
      /\ js' = R.js /\ acts' = {R.act} \ {NoAct} /\ DOMAIN js = JsNames
  BY DEF Edit, Allowed, Rolling, Shapes, JsShape
<1>2. /\ DOMAIN k = JsNames /\ Is(k, js.token, js.key, js.guard, q, js.coordGen, js.epoch + 1, {}) /\ Same5(js, k)
  BY <1>1 DEF InvalidatePreloads, Is, Same5, JsNames
<1>3. Is(l, js.token, js.key, js.guard, q, js.coordGen, js.epoch, js.armed) /\ Same5(js, l)
  BY <1>1 DEF Is, Same5, JsNames
<1>4. Is(js, js.token, js.key, js.guard, js.queue, js.coordGen, js.epoch, js.armed) /\ Same5(js, js)
  BY <1>1 DEF Is, Same5
<1>5. \/ R = Result(js, NoAct)
      \/ R = Result(k, NoAct) /\ (~js.playing \/ js.key = NoRow \/ next = NoRow)
      \/ R = Result(l, NoAct) /\ next \in js.armed
      \/ R = Result(k, b) /\ next # NoRow
  BY DEF RefreshQueue, Rearm
<1>6. /\ Plain(b) /\ Call(b, "gate", "preload", next, 0, js.token)
      /\ b.behind = js.key /\ b.epoch = js.epoch + 1 /\ b.advance = FALSE
  BY <1>2 DEF Is, Plain, Call, NoAct, CallNames
<1>7. NoAct.pc = "done"
  BY DEF NoAct
<1> HIDE DEF next, l, k, b, R
<1>8. CASE R = Result(js, NoAct)
  <2>1. js' = js /\ acts' = {}
    BY <1>1, <1>8, Results
  <2> QED
    BY <1>1, <1>4, <2>1 DEF Agree
<1>9. CASE R = Result(k, NoAct) /\ (~js.playing \/ js.key = NoRow \/ next = NoRow)
  <2>1. js' = k /\ acts' = {}
    BY <1>1, <1>9, Results
  <2> QED
    BY <1>1, <1>2, <1>9, <2>1 DEF next
<1>10. CASE R = Result(l, NoAct) /\ next \in js.armed
  <2>1. js' = l /\ acts' = {}
    BY <1>1, <1>10, Results
  <2> QED
    BY <1>1, <1>3, <1>10, <2>1 DEF next
<1>11. CASE R = Result(k, b) /\ next # NoRow
  <2>1. b # NoAct
    BY <1>6, <1>7 DEF Call
  <2>2. js' = k /\ acts' = {b}
    BY <1>1, <1>11, <2>1, Results
  <2> QED
    BY <1>1, <1>2, <1>6, <1>11, <2>2 DEF next
<1> QED
  BY <1>5, <1>8, <1>9, <1>10, <1>11

-----------------------------------------------------------------------------
(* What follows, and what stands *)

\* The same clip is claimed of the same rundown.
SameClaim ==
  /\ js'.token = js.token /\ js'.key = js.key /\ js'.queue = js.queue /\ js'.epoch = js.epoch
  /\ js'.flagged = js.flagged
\* Call a is followed by the calls of B, one at most.
Follow(a, B) ==
  /\ acts' = (acts \ {a}) \cup B /\ \A b, c \in B : b = c
  /\ \A b \in B : /\ Live(b) /\ b.kind # "skip" /\ b.advance = a.advance
                  /\ b.kind = "natural" => a.kind = "natural"
  /\ js'.advancing <=> js.advancing /\ (B = {} => ~a.advance)

\* No call of a refused row follows.
LEMMA FollowUnfailing ==
  ASSUME Unfailing, js'.flagged = js.flagged, NEW a \in acts, NEW B, Follow(a, B)
  PROVE  Unfailing'
BY DEF Unfailing, Follow
\* The advance flag passes on.
LEMMA FollowAdvance ==
  ASSUME OneAdvance, NEW a \in acts, NEW B, Follow(a, B)
  PROVE  OneAdvance'
<1>1. \A c \in acts' : c \in acts \/ (c \in B /\ c.advance = a.advance /\ (c.kind = "natural" => a.kind = "natural"))
  BY DEF Follow
<1>2. ASSUME NEW c \in acts', c.advance PROVE js'.advancing
  BY <1>2 DEF OneAdvance, Follow
<1>3. ASSUME NEW c \in acts', NEW d \in acts', c.advance, d.advance PROVE c = d
  BY <1>3 DEF OneAdvance, Follow
<1>4. \A c \in acts' : c.kind = "natural" => c.advance
  BY <1>1 DEF OneAdvance
<1> QED
  BY <1>2, <1>3, <1>4 DEF OneAdvance
\* No late answer is left over.
LEMMA FollowLate ==
  ASSUME NoneLate, js'.token = js.token, NEW a \in acts, Live(a), NEW B, Follow(a, B), rust'.gen = rust.gen
  PROVE  NoneLate'
<1> SUFFICES ASSUME rust'.gen = js'.token \/ (\E c \in acts' : Live(c)' /\ c.kind = "natural"),
                    NEW b \in acts', Plays(b), b.pc = "registered"
             PROVE  Live(b)'
  BY DEF NoneLate, Plays
<1>1. rust.gen = js.token \/ (\E c \in acts : Live(c) /\ c.kind = "natural")
  BY DEF Follow, Live
<1>2. b \in acts \/ Live(b)
  BY DEF Follow
<1> QED
  BY <1>1, <1>2 DEF NoneLate, Live
\* The calls that follow are the only live ones.
LEMMA FollowCalls ==
  ASSUME ArmedInv, js'.token = js.token, NEW a \in acts, Live(a), NEW B, Follow(a, B), \A b \in B : CallInv(b)'
  PROVE  Calls' /\ \A c \in acts' : Live(c)' => c \in B
<1>1. \A c \in acts : c = a \/ Spare(c)'
  BY OthersSpare
<1>2. \A c \in acts' : Live(c)' => c \in B
  BY <1>1 DEF Follow, Spare
<1> QED
  BY <1>2 DEF Calls

\* What is known of the row on air stands.
LEMMA AirKept ==
  ASSUME AirInv, SameClaim, js'.dedup \in {js.dedup, NoRow}, js'.advancing => js.advancing,
         UNCHANGED <<rust, eng>>, Pending' \subseteq Pending,
         Aired => \A e \in Pending : e.kind = "advance" /\ e.row = js.key /\ e.gen = js.token => e \in Pending',
         Aired' => Aired,
         Aired /\ On /\ (\A c \in acts' : Live(c)' => c.pc \notin {"gate", "loadbg"}) =>
           \/ \A c \in acts : Live(c) => c.pc \notin {"gate", "loadbg"}
           \/ eng.bg \in {NoRow, Successor(js.queue, js.key)}
  PROVE  AirInv'
<1> SUFFICES ASSUME Aired'
             PROVE  /\ Linked' /\ Placed' /\ Backed' /\ Signalled' /\ Closing' /\ Seen' /\ Waiting'
                    /\ js'.dedup # js'.key
  BY DEF AirInv
<1>1. Aired /\ js'.key = js.key /\ js'.token = js.token /\ js'.queue = js.queue /\ js.key # NoRow
  BY DEF SameClaim, Aired
<1>2. /\ Linked /\ Placed /\ Backed /\ Signalled /\ Closing /\ Seen /\ Waiting /\ js.dedup # js.key
  BY <1>1 DEF AirInv
<1>3. /\ On' <=> On
      /\ Passed' <=> Passed
      /\ Awaited(js.key)' <=> Awaited(js.key)
      /\ Ended' <=> Ended
  BY <1>1 DEF On, Passed, Awaited, Ended, Rolling, Ending
<1>4. Linked' /\ Placed' /\ Seen' /\ js'.dedup # js'.key
  BY <1>1, <1>2, <1>3 DEF Linked, Placed, Seen
<1>5. Backed'
  BY <1>1, <1>2, <1>3 DEF Backed
<1>6. Signalled'
  BY <1>1, <1>2, <1>3 DEF Signalled
<1>7. Closing' /\ Waiting'
  BY <1>1, <1>2, <1>3 DEF Closing, Waiting, Fresh
<1> QED
  BY <1>4, <1>5, <1>6, <1>7

\* The first-frame proof stands.
LEMMA ProofKept ==
  ASSUME Proved, js'.token = js.token, js'.key = js.key, js'.proven = js.proven, UNCHANGED <<rust, events>>
  PROVE  Proved'
BY DEF Proved, ProofComes

\* A step of the live call that neither Rust nor the engine sees.
LEMMA CallFrame ==
  ASSUME ArmedInv, ArmedInv', ChannelInv, SameClaim, NEW a \in acts, Live(a), NEW B, Follow(a, B),
         a.kind # "stop", \A b \in B : CallInv(b)',
         js'.proven = js.proven, js'.dedup = js.dedup, UNCHANGED <<rust, events, eng>>,
         js'.loading.epoch \in {0, js.loading.epoch, js.epoch},
         js.playing => js'.playing, a.pc = "played" => js'.playing, \A b \in B : b.pc # "played",
         Trying(a) => \E b \in B : Trying(b),
         a.pc \in {"gate", "loadbg"} =>
           \/ \E b \in B : b.pc \in {"gate", "loadbg"}
           \/ eng.bg \in {NoRow, Successor(js.queue, js.key)}
  PROVE  ChannelInv'
<1>1. Unfailing /\ OneAdvance /\ EngineShape /\ Vacant /\ NoneLate /\ AirInv /\ Calls /\ Editable /\ Proved
  BY DEF ChannelInv
<1>2. js'.token = js.token /\ js'.key = js.key /\ js'.epoch = js.epoch /\ js'.queue = js.queue
  BY DEF SameClaim
<1>3. \A b \in B : b \in acts' /\ Live(b)'
  BY <1>2 DEF Follow, Live
<1>4. Calls' /\ \A c \in acts' : Live(c)' => c \in B
  BY FollowCalls DEF ArmedInv, SameClaim
<1>5. Aired' => Aired
  <2>1. SUFFICES ASSUME Aired', NEW c \in acts, Live(c) PROVE ~Trying(c)
    BY <1>2 DEF Aired
  <2>2. c = a
    BY <2>1 DEF ArmedInv
  <2>3. \A b \in B : ~Trying(b)
    <3>1. \A b : Trying(b)' <=> Trying(b)
      BY DEF Trying, Plays
    <3> QED
      BY <1>3, <2>1, <3>1 DEF Aired
  <2> QED
    BY <2>2, <2>3
<1>6. AirInv'
  <2>1. Aired /\ On /\ (\A c \in acts' : Live(c)' => c.pc \notin {"gate", "loadbg"}) =>
           \/ \A c \in acts : Live(c) => c.pc \notin {"gate", "loadbg"}
           \/ eng.bg \in {NoRow, Successor(js.queue, js.key)}
    BY <1>3 DEF ArmedInv
  <2>2. Pending' = Pending
    BY DEF Pending
  <2>3. js'.advancing => js.advancing
    BY DEF Follow
  <2> QED
    BY <1>1, <1>5, <2>1, <2>2, <2>3, AirKept
<1>7. Unfailing' /\ OneAdvance' /\ NoneLate'
  BY <1>1, FollowUnfailing, FollowAdvance, FollowLate DEF SameClaim
<1>8. EngineShape'
  BY <1>1 DEF EngineShape
<1>9. Vacant'
  <2>1. a.pc # "clear"
    BY DEF ArmedInv, Shapes, CallShape, Stands
  <2> QED
    BY <1>1, <1>2, <2>1 DEF Vacant, Follow
<1>10. Proved'
  BY <1>1, <1>2, ProofKept
<1>11. Editable'
  <2>1. js'.loading.epoch \in Nat /\ js'.loading.epoch <= js'.epoch
    BY <1>1, <1>2 DEF Editable, ArmedInv, Shapes, JsShape
  <2> SUFFICES ASSUME Edits # {}
               PROVE  /\ Aired' /\ Ended' => \A c \in acts' : ~Live(c)'
                      /\ Aired' /\ (\A c \in acts' : Live(c)' => c.pc # "played") => js'.playing
                      /\ \A c \in acts' : Live(c)' /\ c.kind = "natural" => js'.playing
    BY <2>1 DEF Editable
  <2>2. Ended' <=> Ended
    BY <1>2 DEF Ended, On, Passed, Rolling, Ending
  <2>3. ~(Aired /\ Ended)
    BY <1>1 DEF Editable
  <2>4. Aired => js'.playing
    <3>1. CASE a.pc = "played"
      BY <3>1
    <3>2. CASE a.pc # "played"
      BY <1>1, <3>2 DEF Editable, ArmedInv
    <3> QED
      BY <3>1, <3>2
  <2>5. a.kind = "natural" => js'.playing
    BY <1>1 DEF Editable
  <2>6. ASSUME NEW c \in acts', Live(c)', c.kind = "natural" PROVE js'.playing
    BY <1>4, <2>5, <2>6 DEF Follow
  <2> QED
    BY <1>5, <2>2, <2>3, <2>4, <2>6
<1> QED
  BY <1>4, <1>6, <1>7, <1>8, <1>9, <1>10, <1>11 DEF ChannelInv

-----------------------------------------------------------------------------
(* The calls of a clip on air *)

\* The row a call would load next is the successor of the row claimed.
LEMMA SuccessorAt ==
  ASSUME ArmedInv, NEW a \in acts, Live(a), Plays(a) \/ (a.kind = "natural" /\ a.pc # "resolve")
  PROVE  a.row = js.key /\ js.key # NoRow /\ RowAt(js.queue, a.idx + 1) = Successor(js.queue, js.key)
<1>1. a.row = js.key /\ Contains(js.queue, js.key) /\ a.idx = IndexIn(js.queue, js.key)
  BY DEF ArmedInv, AtItsPlace
<1>2. a.row # NoRow
  BY RowAssumption DEF ArmedInv, Shapes, CallShape, Plays
<1> QED
  BY <1>1, <1>2 DEF Successor
\* A live preload is of the successor of the row claimed.
LEMMA PreloadOfNext ==
  ASSUME ArmedInv, NEW a \in acts, Live(a), a.kind = "preload"
  PROVE  a.row = Successor(js.queue, js.key) /\ a.row \in Rows /\ a.row # NoRow /\ js.key \in Rows /\ js.key # NoRow
         /\ js.key # a.row
<1>1. a.row = Successor(js.queue, js.key) /\ a.row \in Rows /\ a.row # NoRow
  BY RowAssumption DEF ArmedInv, AtItsPlace, Shapes, CallShape
<1> DEFINE q == js.queue
           i == IndexIn(q, js.key)
<1>2. q \in Seq(Rows) /\ IsInjective(q)
  BY DEF ArmedInv, Shapes, JsShape
<1>3. i \in DOMAIN q /\ q[i] = js.key /\ i + 1 \in DOMAIN q /\ q[i + 1] = a.row
  BY <1>1, <1>2, Places
<1>4. js.key \in Rows
  BY <1>2, <1>3
<1>5. q[i] # q[i + 1]
  <2>1. i \in Nat /\ i # i + 1
    BY <1>2, <1>3
  <2> QED
    BY <1>2, <1>3, <2>1 DEF IsInjective
<1> QED
  BY <1>1, <1>3, <1>4, <1>5, RowAssumption

\* The fields of a claim stand when those of Is do.
LEMMA SameByIs ==
  ASSUME NEW guard, NEW armed, Is(js', js.token, js.key, guard, js.queue, js.coordGen, js.epoch, armed),
         js'.flagged = js.flagged
  PROVE  SameClaim
BY DEF Is, SameClaim
\* No preload is recorded ahead of its epoch.
LEMMA LoadingEpoch ==
  ASSUME js'.loading \in {js.loading, NotLoading} PROVE js'.loading.epoch \in {0, js.loading.epoch, js.epoch}
BY DEF NotLoading

\* playItemAt has the duration of its row.
LEMMA ResolveChannel ==
  ASSUME ArmedInv, ArmedInv', ChannelInv, NEW a \in acts, Live(a), ResolveItem(a)
  PROVE  ChannelInv'
<1>1. /\ a.kind = "item" /\ a.pc = "resolve" /\ UNCHANGED <<rust, events, eng, aired>>
      /\ \E b : Turns(a, b) /\ Onward(a, b, "prepare", RowAt(js.queue, a.idx + 1))
      /\ Is(js', js.token, js.key, {}, js.queue, js.coordGen, js.epoch, js.armed)
      /\ Keeps(js, js') /\ js'.advancing = js.advancing
  BY ResolveStep DEF ArmedInv
<1>2. PICK b : Turns(a, b) /\ Onward(a, b, "prepare", RowAt(js.queue, a.idx + 1))
  BY <1>1
<1>3. SameClaim /\ js'.loading.epoch \in {0, js.loading.epoch, js.epoch}
      /\ js'.proven = js.proven /\ js'.dedup = js.dedup /\ js'.playing = js.playing
  BY <1>1, SameByIs, LoadingEpoch DEF Keeps
<1>4. Follow(a, {b})
  BY <1>1, <1>2 DEF Follow, Turns, Onward, Live
<1>5. CallInv(b)'
  <2>1. CallInv(a)
    BY DEF ChannelInv, Calls
  <2>2. b.kind = "item" /\ b.pc = "prepare" /\ b.next = Successor(js'.queue, js'.key)
    BY <1>1, <1>2, <1>3, SuccessorAt DEF Onward, SameClaim, Plays
  <2>3. js'.dedup # js'.key
    BY <1>1, <1>3, <2>1 DEF CallInv, Plays, SameClaim
  <2>4. Dispatched(b)' /\ Planned(b)' /\ Sent(b)' /\ Loading(b)'
    BY <2>2 DEF Dispatched, Planned, Sent, Loading
  <2>5. Taking(b)' /\ Taken(b)'
    BY <2>2 DEF Taking, Taken
  <2> QED
    BY <2>3, <2>4, <2>5 DEF CallInv
<1>6. Trying(b)
  BY <1>1, <1>2 DEF Trying, Onward, Plays, Dispatching
<1> QED
  BY <1>1, <1>2, <1>3, <1>4, <1>5, <1>6, CallFrame DEF Onward

\* The row sent is known to be on air.
LEMMA PlayedChannel ==
  ASSUME ArmedInv, ArmedInv', ChannelInv, NEW a \in acts, Live(a), Played(a)
  PROVE  ChannelInv'
<1>1. /\ a.pc = "played" /\ UNCHANGED <<rust, events, eng, aired>>
      /\ \E b : Turns(a, b) /\ Onward(a, b, "await", a.next)
      /\ Is(js', js.token, js.key, js.guard \cup {a.row}, js.queue, js.coordGen, js.epoch, js.armed)
      /\ js'.advancing = js.advancing /\ js'.playing = TRUE
      /\ js'.proven = js.proven /\ js'.dedup = js.dedup /\ js'.flagged = js.flagged /\ js'.loading = js.loading
  BY PlayedStep DEF ArmedInv
<1>2. PICK b : Turns(a, b) /\ Onward(a, b, "await", a.next)
  BY <1>1
<1>3. SameClaim /\ js'.loading.epoch \in {0, js.loading.epoch, js.epoch} /\ Plays(a)
  <2>1. Plays(a)
    BY <1>1 DEF ArmedInv, Shapes, CallShape, Stands, Plays
  <2> QED
    BY <1>1, <2>1, SameByIs, LoadingEpoch
<1>4. Follow(a, {b})
  BY <1>1, <1>2, <1>3 DEF Follow, Turns, Onward, Live, Plays
<1>5. CallInv(b)'
  <2>1. CallInv(a)
    BY DEF ChannelInv, Calls
  <2>2. Plays(b) /\ b.pc = "await"
    BY <1>2, <1>3 DEF Onward, Plays
  <2>3. js'.dedup # js'.key
    BY <1>1, <1>3, <2>1 DEF CallInv, SameClaim
  <2>4. (On /\ eng.bg = NoRow)'
    BY <1>1, <1>3, <2>1 DEF CallInv, Sent, On, SameClaim
  <2>5. Dispatched(b)' /\ Planned(b)' /\ Sent(b)' /\ Loading(b)'
    BY <2>2, <2>4 DEF Dispatched, Planned, Sent, Loading, Plays
  <2>6. Taking(b)' /\ Taken(b)'
    BY <2>2 DEF Taking, Taken, Plays
  <2> QED
    BY <2>3, <2>5, <2>6 DEF CallInv
<1>6. ~Trying(a)
  BY <1>1, <1>3 DEF Trying, Plays, Dispatching
<1> QED
  BY <1>1, <1>2, <1>3, <1>4, <1>5, <1>6, CallFrame DEF Onward, Plays

\* The row the engine cut to is registered.
LEMMA NextRegisteredChannel ==
  ASSUME ArmedInv, ArmedInv', ChannelInv, NEW a \in acts, Live(a), NextRegistered(a)
  PROVE  ChannelInv'
<1>1. /\ a.kind = "natural" /\ a.pc = "registered" /\ UNCHANGED <<rust, events, eng, aired>>
      /\ \E b : Turns(a, b) /\ Onward(a, b, "await", a.next)
      /\ Is(js', js.token, js.key, js.guard \cup {a.row}, js.queue, js.coordGen, js.epoch, js.armed)
      /\ Keeps(js, js') /\ js'.advancing = js.advancing
  BY NextRegisteredStep DEF ArmedInv
<1>2. PICK b : Turns(a, b) /\ Onward(a, b, "await", a.next)
  BY <1>1
<1>3. SameClaim /\ js'.loading.epoch \in {0, js.loading.epoch, js.epoch}
      /\ js'.proven = js.proven /\ js'.dedup = js.dedup /\ js'.playing = js.playing
  BY <1>1, SameByIs, LoadingEpoch DEF Keeps
<1>4. Follow(a, {b})
  BY <1>1, <1>2 DEF Follow, Turns, Onward, Live
<1>5. CallInv(b)'
  <2>1. Taken(a)
    BY DEF ChannelInv, Calls, CallInv
  <2>2. b.kind = "natural" /\ b.pc = "await" /\ b.row = a.row /\ b.proof = a.proof /\ b.fg = a.fg
    BY <1>1, <1>2 DEF Onward
  <2>3. Taken(b)'
    BY <1>1, <2>1, <2>2 DEF Taken, Coming, Awaited, Rolling, Ending
  <2>4. Dispatched(b)' /\ Planned(b)' /\ Sent(b)' /\ Loading(b)' /\ Taking(b)' /\ ~Plays(b)
    BY <2>2 DEF Dispatched, Planned, Sent, Loading, Plays, Taking
  <2> QED
    BY <2>3, <2>4 DEF CallInv, Plays
<1>6. ~Trying(a)
  BY <1>1 DEF Trying, Plays
<1> QED
  BY <1>1, <1>2, <1>3, <1>4, <1>5, <1>6, CallFrame DEF Onward

\* No call follows one that leaves.
LEMMA LeavesFollow ==
  ASSUME NEW a \in acts, Leaves(a)
  PROVE  /\ Follow(a, {}) /\ SameClaim /\ js'.loading.epoch \in {0, js.loading.epoch, js.epoch}
         /\ js'.proven = js.proven /\ js'.dedup = js.dedup /\ js'.playing = js.playing
<1>1. /\ acts' = acts \ {a} /\ Agree(js, js') /\ Keeps(js, js')
      /\ js'.advancing <=> js.advancing /\ ~a.advance
  BY DEF Leaves
<1>2. Follow(a, {})
  BY <1>1 DEF Follow
<1>3. SameClaim /\ js'.loading.epoch \in {0, js.loading.epoch, js.epoch}
  BY <1>1, LoadingEpoch, SameByIs DEF Agree, Keeps
<1> QED
  BY <1>1, <1>2, <1>3 DEF Keeps

\* A preload follows the call of a clip that is on air.
LEMMA StartsLoadingChannel ==
  ASSUME ArmedInv, ArmedInv', ChannelInv, NEW a \in acts, Live(a), StartsLoading(a, Successor(js.queue, js.key)),
         ~Trying(a), a.kind # "stop", a.pc # "played", On, eng.bg = NoRow \/ (Edits # {} /\ Rolling), UNCHANGED <<rust, events, eng>>
  PROVE  ChannelInv'
<1> DEFINE r == Successor(js.queue, js.key)
<1>1. PICK b : /\ Turns(a, b) /\ Call(b, "loadbg", "preload", r, 0, a.token)
               /\ b.epoch = js.epoch /\ b.advance = a.advance /\ b.proof = FALSE /\ b.fg = FALSE
  BY DEF StartsLoading
<1>2. /\ Agree(js, js') /\ js'.advancing = js.advancing
      /\ js'.proven = js.proven /\ js'.playing = js.playing /\ js'.dedup = js.dedup /\ js'.flagged = js.flagged
      /\ js'.loading.epoch = js.epoch
  BY DEF StartsLoading
<1>3. SameClaim
  BY <1>2, SameByIs DEF Agree
<1>4. Follow(a, {b})
  BY <1>1, <1>2 DEF Follow, Turns, Call, Live
<1>5. CallInv(b)'
  <2>1. b.kind = "preload" /\ b.pc = "loadbg" /\ b.epoch = js'.epoch
    BY <1>1, <1>3 DEF Call, SameClaim
  <2>2. (On /\ (eng.bg = NoRow \/ (Edits # {} /\ Rolling)))'
    BY <1>3 DEF On, Rolling, SameClaim
  <2>3. Loading(b)'
    BY <2>1, <2>2 DEF Loading
  <2>4. Dispatched(b)' /\ Planned(b)' /\ Sent(b)' /\ Taking(b)' /\ Taken(b)' /\ ~Plays(b)
    BY <2>1 DEF Dispatched, Planned, Sent, Taking, Taken, Plays
  <2> QED
    BY <2>3, <2>4 DEF CallInv, Plays
<1>6. b.pc = "loadbg"
  BY <1>1 DEF Call
<1> QED
  BY <1>1, <1>2, <1>3, <1>4, <1>5, <1>6, CallFrame

\* Behind a clip on air its successor is loaded, or nothing.
LEMMA ArmChannel ==
  ASSUME ArmedInv, ArmedInv', ChannelInv, NEW a \in acts, Live(a), ArmNext(a) \/ ArmAfterNatural(a)
  PROVE  ChannelInv'
<1>1. /\ a.pc = "await" /\ a.kind \in {"take", "item", "natural"} /\ UNCHANGED <<rust, events, eng, aired>>
      /\ \/ Leaves(a)
         \/ /\ StartsLoading(a, RowAt(js.queue, a.idx + 1))
            /\ a.kind = "natural" => SafeToArm(a)
  BY ArmStep DEF ArmedInv
<1>2. ~Trying(a)
  BY <1>1 DEF Trying, Plays, Dispatching
<1>3. CASE Leaves(a)
  BY <1>1, <1>2, <1>3, LeavesFollow, CallFrame
<1>4. CASE StartsLoading(a, RowAt(js.queue, a.idx + 1)) /\ (a.kind = "natural" => SafeToArm(a))
  <2>1. a.row = js.key /\ js.key # NoRow /\ RowAt(js.queue, a.idx + 1) = Successor(js.queue, js.key)
    BY <1>1, SuccessorAt DEF Plays
  <2>2. On /\ eng.bg = NoRow
    <3>1. Sent(a) /\ Taken(a)
      BY DEF ChannelInv, Calls, CallInv
    <3>2. CASE Plays(a)
      BY <1>1, <3>1, <3>2 DEF Sent
    <3>3. CASE a.kind = "natural"
      <4>1. a.proof \/ a.fg
        BY <1>4, <3>3 DEF SafeToArm
      <4>2. eng.fg = a.row /\ eng.bg = NoRow
        BY <1>1, <3>1, <3>3, <4>1 DEF Taken, Coming
      <4> QED
        BY <2>1, <4>2 DEF On
    <3> QED
      BY <1>1, <3>2, <3>3 DEF Plays
  <2> QED
    BY <1>1, <1>2, <1>4, <2>1, <2>2, StartsLoadingChannel
<1> QED
  BY <1>1, <1>3, <1>4

\* Behind an edit it is loaded once the clip on air has proved its first frame.
LEMMA GateChannel ==
  ASSUME ArmedInv, ArmedInv', ChannelInv, NEW a \in acts, Live(a), GatePreload(a)
  PROVE  ChannelInv'
<1>1. /\ a.pc = "gate" /\ UNCHANGED <<rust, events, eng, aired>>
      /\ \/ /\ a.epoch # js.epoch \/ js.key # a.behind \/ (js.proven # a.behind /\ NoProofComes) \/ Idles(a.row)
            /\ Leaves(a)
         \/ js.proven = js.key /\ StartsLoading(a, a.row)
  BY GateStep DEF ArmedInv
<1>2. a.kind = "preload"
  BY <1>1 DEF ArmedInv, Shapes, CallShape, Stands
<1>3. /\ a.row = Successor(js.queue, js.key) /\ a.row \in Rows /\ a.row # NoRow
      /\ js.key \in Rows /\ js.key # NoRow
  BY <1>2, PreloadOfNext
<1>4. ~Trying(a)
  BY <1>1, <1>2 DEF Trying, Plays
<1>5. a.epoch = js.epoch /\ Edits # {} /\ a.behind = js.key /\ js.loading.epoch < js.epoch /\ On /\ Rolling
  BY <1>1, <1>2 DEF ChannelInv, Calls, CallInv, Loading
<1>6. ~Idles(a.row)
  <2>1. js.flagged = {} /\ js.armed = {}
    BY DEF ChannelInv, Unfailing, ArmedInv
  <2>2. js.loading # [row |-> a.row, epoch |-> js.epoch]
    <3>1. js.loading.epoch \in Nat /\ js.epoch \in Nat
      BY DEF ChannelInv, Editable, ArmedInv, Shapes, JsShape
    <3> QED
      BY <1>5, <3>1
  <2> QED
    BY <1>3, <2>1, <2>2 DEF Idles
<1>7. ~(js.proven # js.key /\ NoProofComes)
  <2> SUFFICES ASSUME js.proven # js.key, NoProofComes PROVE FALSE
    OBVIOUS
  <2>1. Aired
    BY <1>3, <1>4 DEF Aired, ArmedInv
  <2>2. rust.row = js.key /\ rust.gen = js.token
    BY <2>1 DEF ChannelInv, AirInv, Linked
  <2>3. eng.fg = rust.row /\ rust.row # NoRow
    BY <1>3, <1>5, <2>2 DEF On
  <2>4. rust.confirmed
    BY <2>3 DEF NoProofComes, PathNews, ConfirmedByPath
  <2>5. rust.position
    BY <2>3, <2>4 DEF NoProofComes, PositionNews
  <2>6. ProofComes
    BY <2>2, <2>5 DEF ChannelInv, Proved
  <2> QED
    <3>1. \A i \in DOMAIN events : events[i].kind # "position"
      BY DEF NoProofComes
    <3>2. DOMAIN events = 1..Len(events)
      BY DEF ArmedInv, Shapes
    <3>3. PICK i \in 0..Len(events) :
            IF i = 0 THEN js.proven = js.key ELSE events[i].kind = "position" /\ events[i].row = js.key
      BY <2>6 DEF ProofComes
    <3> QED
      BY <3>1, <3>2, <3>3
<1>8. StartsLoading(a, a.row)
  BY <1>1, <1>5, <1>6, <1>7
<1> QED
  BY <1>1, <1>2, <1>3, <1>4, <1>5, <1>8, StartsLoadingChannel

\* The row loaded is armed.
LEMMA LoadedChannel ==
  ASSUME ArmedInv, ArmedInv', ChannelInv, NEW a \in acts, Live(a), Loaded(a)
  PROVE  ChannelInv'
<1>1. /\ a.pc = "loaded" /\ UNCHANGED <<rust, events, eng, aired>>
      /\ acts' = acts \ {a} /\ Keeps(js, js')
      /\ Is(js', js.token, js.key, js.guard, js.queue, js.coordGen, js.epoch, js'.armed)
      /\ js'.advancing <=> js.advancing /\ ~a.advance
  BY LoadedStep DEF ArmedInv
<1>2. SameClaim /\ js'.loading.epoch \in {0, js.loading.epoch, js.epoch}
      /\ js'.proven = js.proven /\ js'.dedup = js.dedup /\ js'.playing = js.playing
  BY <1>1, SameByIs, LoadingEpoch DEF Keeps
<1>3. Follow(a, {})
  BY <1>1 DEF Follow
<1>4. a.kind = "preload"
  BY <1>1 DEF ArmedInv, Shapes, CallShape, Stands
<1>5. ~Trying(a)
  BY <1>1, <1>4 DEF Trying, Plays
<1> QED
  BY <1>1, <1>2, <1>3, <1>4, <1>5, CallFrame

\* The engine has the successor behind the clip on air.
LEMMA LoadChannel ==
  ASSUME ArmedInv, ArmedInv', ChannelInv, NEW a \in acts, Live(a), SendLoadbg(a), Failing = {}
  PROVE  ChannelInv'
<1>1. /\ a.pc = "loadbg" /\ UNCHANGED <<rust, events, aired>>
      /\ \/ a.epoch # js.epoch /\ Leaves(a) /\ eng' = eng
         \/ /\ \E b : Turns(a, b) /\ Onward(a, b, "loaded", a.next)
            /\ js' = js /\ LOADBG_AUTO(a.row)
  BY LoadStep DEF ArmedInv
<1>2. a.kind = "preload"
  BY <1>1 DEF ArmedInv, Shapes, CallShape, Stands
<1>3. a.epoch = js.epoch /\ On
  BY <1>1, <1>2 DEF ChannelInv, Calls, CallInv, Loading
<1>4. PICK b : Turns(a, b) /\ Onward(a, b, "loaded", a.next)
  BY <1>1, <1>3
<1>5. js' = js /\ eng' = [eng EXCEPT !.bg = a.row] /\ UNCHANGED <<rust, events>>
  BY <1>1, <1>3 DEF LOADBG_AUTO
<1>6. /\ a.row = Successor(js.queue, js.key) /\ a.row \in Rows /\ a.row # NoRow
      /\ js.key \in Rows /\ js.key # NoRow /\ js.key # a.row
  BY <1>2, PreloadOfNext
<1>7. eng'.fg = eng.fg /\ eng'.phase = eng.phase /\ eng'.bg = a.row
  BY <1>5 DEF ArmedInv, Shapes
<1>8. Unfailing /\ OneAdvance /\ EngineShape /\ Vacant /\ NoneLate /\ AirInv /\ Calls /\ Editable /\ Proved
  BY DEF ChannelInv
<1>9. SameClaim /\ Follow(a, {b})
  BY <1>2, <1>4, <1>5 DEF SameClaim, Follow, Turns, Onward, Live
<1>10. On' /\ ~Passed' /\ ~Passed /\ (Ended' <=> Ended) /\ ~Awaited(js.key)'
  BY <1>3, <1>5, <1>6, <1>7 DEF On, Passed, Ended, Ending, Awaited
<1>11. Unfailing' /\ OneAdvance' /\ NoneLate'
  BY <1>5, <1>8, <1>9, FollowUnfailing, FollowAdvance, FollowLate DEF SameClaim
<1>12. EngineShape' /\ Vacant'
  BY <1>5, <1>6, <1>7, <1>8 DEF EngineShape, Vacant
<1>13. CallInv(b)'
  <2>1. b.kind = "preload" /\ b.pc = "loaded" /\ b.row = a.row /\ b.epoch = js'.epoch
    BY <1>2, <1>3, <1>4, <1>5 DEF Onward
  <2>2. Loading(b)'
    BY <1>7, <1>10, <2>1 DEF Loading
  <2>3. Dispatched(b)' /\ Planned(b)' /\ Sent(b)' /\ Taking(b)' /\ Taken(b)' /\ ~Plays(b)
    BY <2>1 DEF Dispatched, Planned, Sent, Taking, Taken, Plays
  <2> QED
    BY <2>2, <2>3 DEF CallInv, Plays
<1>14. Calls' /\ \A c \in acts' : Live(c)' => c \in {b}
  BY <1>9, <1>13, FollowCalls DEF SameClaim
<1>15. Aired /\ \A c \in acts : Live(c) => c.pc = "loadbg"
  BY <1>1, <1>2, <1>6 DEF Aired, ArmedInv, Trying, Plays
<1>16. AirInv'
  <2>1. /\ Linked /\ Placed /\ Backed /\ Signalled /\ Closing /\ Seen /\ Waiting /\ js.dedup # js.key
    BY <1>8, <1>15 DEF AirInv
  <2>2. Pending' = Pending
    BY <1>5 DEF Pending
  <2>3. Linked' /\ Placed' /\ Backed' /\ js'.dedup # js'.key
    BY <1>5, <1>6, <1>7, <1>10, <2>1 DEF Linked, Placed, Backed
  <2>4. Signalled' /\ Closing' /\ Seen' /\ Waiting'
    BY <1>5, <1>10, <2>1, <2>2 DEF Signalled, Closing, Seen, Waiting
  <2> QED
    BY <2>3, <2>4 DEF AirInv
<1>17. Editable'
  <2>1. js'.loading.epoch \in Nat /\ js'.loading.epoch <= js'.epoch
    BY <1>5, <1>8 DEF Editable
  <2>2. ~("natural" = a.kind) /\ ~("natural" = b.kind)
    BY <1>2, <1>4 DEF Onward
  <2>3. Edits # {} => ~Ended /\ js.playing
    BY <1>1, <1>8, <1>15 DEF Editable
  <2> QED
    BY <1>5, <1>10, <1>14, <2>1, <2>2, <2>3 DEF Editable
<1>18. Proved'
  BY <1>5, <1>8, ProofKept
<1> QED
  BY <1>11, <1>12, <1>14, <1>16, <1>17, <1>18 DEF ChannelInv

\* The layer is empty.
LEMMA ClearChannel ==
  ASSUME ArmedInv, ArmedInv', ChannelInv, NEW a \in acts, Live(a), StopClear(a)
  PROVE  ChannelInv'
<1>1. /\ a.pc = "clear" /\ UNCHANGED <<rust, events, aired>>
      /\ \E b : Turns(a, b) /\ Onward(a, b, "release", a.next)
      /\ js' = js /\ CLEAR
  BY ClearStep DEF ArmedInv
<1>2. PICK b : Turns(a, b) /\ Onward(a, b, "release", a.next)
  BY <1>1
<1>3. a.kind = "stop" /\ js.key = NoRow
  BY <1>1 DEF ArmedInv, Shapes, CallShape, Stands
<1>4. Unfailing /\ OneAdvance /\ EngineShape /\ Vacant /\ NoneLate /\ AirInv /\ Calls /\ Editable /\ Proved
  BY DEF ChannelInv
<1>5. SameClaim /\ Follow(a, {b})
  BY <1>1, <1>2, <1>3 DEF SameClaim, Follow, Turns, Onward, Live
<1>6. Unfailing' /\ OneAdvance' /\ NoneLate'
  BY <1>1, <1>4, <1>5, FollowUnfailing, FollowAdvance, FollowLate DEF SameClaim
<1>7. EngineShape' /\ Vacant'
  BY <1>1, <1>4 DEF EngineShape, Vacant, CLEAR
<1>8. CallInv(b)'
  BY <1>2, <1>3 DEF CallInv, Onward, Dispatched, Planned, Sent, Taking, Taken, Plays, Loading
<1>9. Calls' /\ \A c \in acts' : Live(c)' => c \in {b}
  BY <1>5, <1>8, FollowCalls DEF SameClaim
<1>10. ~Aired' /\ AirInv'
  BY <1>1, <1>3 DEF Aired, AirInv
<1>11. Editable'
  <2>1. b.kind # "natural"
    BY <1>2, <1>3 DEF Onward
  <2> QED
    BY <1>1, <1>4, <1>9, <1>10, <2>1 DEF Editable
<1>12. Proved'
  BY <1>1, <1>4, ProofKept
<1> QED
  BY <1>6, <1>7, <1>9, <1>10, <1>11, <1>12 DEF ChannelInv

\* Every superseded call is of an earlier token.
LEMMA FirstToken ==
  ASSUME ArmedInv, js.token = 0 PROVE \A b \in acts : Live(b)
BY DEF ArmedInv, Shapes, CallShape, Live
\* Nothing is registered any more.
LEMMA ReleaseChannel ==
  ASSUME ArmedInv, ArmedInv', ChannelInv, NEW a \in acts, Live(a), StopRelease(a)
  PROVE  ChannelInv'
<1>1. a.pc = "release" /\ Leaves(a) /\ rust' = Cleared /\ UNCHANGED <<events, eng, aired>>
  BY ReleaseStep DEF ArmedInv
<1>2. a.kind = "stop" /\ js.key = NoRow
  BY <1>1 DEF ArmedInv, Shapes, CallShape, Stands
<1>3. Unfailing /\ OneAdvance /\ EngineShape /\ Vacant /\ NoneLate /\ AirInv /\ Calls /\ Editable /\ Proved
  BY DEF ChannelInv
<1>4. /\ Follow(a, {}) /\ SameClaim /\ js'.loading.epoch \in {0, js.loading.epoch, js.epoch}
  BY <1>1, LeavesFollow
<1>5. Unfailing' /\ OneAdvance'
  BY <1>3, <1>4, FollowUnfailing, FollowAdvance DEF SameClaim
<1>6. Calls' /\ \A c \in acts' : ~Live(c)'
  BY <1>4, FollowCalls DEF SameClaim
<1>7. NoneLate'
  <2>1. rust'.gen = js'.token => \A b \in acts' : Live(b)'
    BY <1>1, FirstToken DEF ArmedInv, Shapes, CallShape, Live, Cleared
  <2> QED
    BY <1>6, <2>1 DEF NoneLate
<1>8. EngineShape' /\ Vacant'
  <2>1. \A c \in acts : c.pc = "clear" => c.kind = "stop"
    BY DEF ArmedInv, Shapes, CallShape, Stands
  <2>2. \A c \in acts : c.pc # "clear"
    BY <1>1, <1>2, <2>1 DEF ArmedInv
  <2> QED
    BY <1>1, <1>2, <1>3, <2>2 DEF EngineShape, Vacant, Cleared
<1>9. ~Aired' /\ AirInv'
  BY <1>2, <1>4 DEF Aired, AirInv, SameClaim
<1>10. Editable'
  <2>1. js'.loading.epoch \in Nat /\ js'.loading.epoch <= js'.epoch
    BY <1>3, <1>4, SMTT(60) DEF Editable, ArmedInv, Shapes, JsShape, SameClaim
  <2> QED
    BY <1>6, <1>9, <2>1 DEF Editable
<1>11. Proved'
  BY <1>1 DEF Proved, Cleared
<1> QED
  BY <1>5, <1>6, <1>7, <1>8, <1>9, <1>10, <1>11 DEF ChannelInv

-----------------------------------------------------------------------------
(* Superseded calls *)

\* What a live call finds stands.
LEMMA CallKept ==
  ASSUME ArmedInv, ArmedInv', Editable, SameClaim, NEW a, CallInv(a), js'.dedup \in {js.dedup, NoRow}, js.key # NoRow,
         Plays(a) \/ a.kind = "natural" => a.row # NoRow,
         UNCHANGED eng, Pending' \subseteq Pending, js'.loading.epoch \in {0, js.loading.epoch},
         (Plays(a) /\ a.pc = "registered") \/ (a.kind = "natural" /\ a.pc \in {"resolve", "prepare"}) => rust' = rust
  PROVE  CallInv(a)'
<1>1. /\ js'.token = js.token /\ js'.key = js.key /\ js'.queue = js.queue /\ js'.epoch = js.epoch
  BY DEF SameClaim
<1>2. /\ On' <=> On
      /\ Passed' <=> Passed
      /\ Rolling' <=> Rolling
      /\ Coming(a.row)' <=> Coming(a.row)
      /\ Awaited(a.row)' <=> Awaited(a.row)
      /\ Fresh(a.row) => Fresh(a.row)'
  BY <1>1 DEF On, Passed, Rolling, Coming, Awaited, Ending, Fresh
<1>3. Dispatched(a) /\ Planned(a) /\ Sent(a) /\ Taking(a) /\ Taken(a) /\ Loading(a) /\ (Plays(a) => js.dedup # js.key)
  BY DEF CallInv
<1>4. Dispatched(a)' /\ Planned(a)' /\ Sent(a)'
  BY <1>1, <1>2, <1>3 DEF Dispatched, Planned, Sent, Linked, Plays
<1>5. Taking(a)' /\ Taken(a)'
  BY <1>1, <1>2, <1>3 DEF Taking, Taken
<1>6. Loading(a)'
  <2>1. a.pc = "gate" => js'.loading.epoch < js'.epoch
    BY <1>1, <1>3 DEF Loading, Editable, ArmedInv, Shapes, JsShape
  <2> QED
    BY <1>1, <1>2, <1>3, <2>1 DEF Loading
<1>7. Plays(a)' => js'.dedup # js'.key
  BY <1>1, <1>3 DEF Plays
<1> QED
  BY <1>4, <1>5, <1>6, <1>7 DEF CallInv
\* What a call holds is a row, and the claim stands while it lives.
LEMMA CallRows ==
  ASSUME ArmedInv, NEW a \in acts
  PROVE  /\ Plays(a) \/ a.kind = "natural" => a.row # NoRow
         /\ Live(a) /\ a.kind \notin {"stop", "skip"} => js.key # NoRow
<1>1. Plays(a) \/ a.kind = "natural" => a.row # NoRow /\ a.row \in Rows
  BY RowAssumption DEF ArmedInv, Shapes, CallShape, Plays
<1>2. ASSUME Live(a), a.kind = "natural", a.pc = "resolve" PROVE js.key # NoRow
  <2>1. Contains(js.queue, js.key) /\ js.queue \in Seq(Rows)
    BY <1>2 DEF ArmedInv, AtItsPlace, Shapes, JsShape
  <2> QED
    BY <2>1, RowAssumption DEF Contains
<1>3. ASSUME Live(a), a.kind \notin {"stop", "skip"} PROVE js.key # NoRow
  <2>1. a.kind \in {"take", "item", "natural", "preload"}
    BY <1>3 DEF ArmedInv, Shapes, CallShape, Stands
  <2> QED
    BY <1>1, <1>2, <1>3, <2>1, SuccessorAt, PreloadOfNext DEF Plays
<1> QED
  BY <1>1, <1>3

\* A superseded call leaves; if it releases a registration, it is not the present one.
LEMMA FadeChannel ==
  ASSUME ArmedInv, ArmedInv', ChannelInv, NEW a \in acts, ~Live(a), a.kind \notin {"stop", "skip"}, Leaves(a),
         UNCHANGED <<events, eng, aired>>,
         rust' = rust \/ (rust' = Cleared /\ Plays(a) /\ a.pc = "registered")
  PROVE  ChannelInv'
<1>3. Unfailing /\ OneAdvance /\ EngineShape /\ Vacant /\ NoneLate /\ AirInv /\ Calls /\ Editable /\ Proved
  BY DEF ChannelInv
<1>4. /\ Follow(a, {}) /\ SameClaim /\ js'.loading.epoch \in {0, js.loading.epoch}
      /\ js'.proven = js.proven /\ js'.dedup = js.dedup /\ js'.playing = js.playing
  BY LeavesFollow DEF Leaves, Keeps, NotLoading
<1>1. /\ js'.token = js.token /\ js'.key = js.key /\ js'.queue = js.queue /\ js'.epoch = js.epoch
  BY <1>4 DEF SameClaim
<1>2. acts' = acts \ {a} /\ \A c \in acts : (Live(c)' <=> Live(c)) /\ (Live(c) => c \in acts')
  BY <1>1 DEF Leaves, Live
<1>5. Unfailing' /\ OneAdvance'
  BY <1>3, <1>4, FollowUnfailing, FollowAdvance DEF SameClaim
<1>6. rust' # rust => rust.gen # js.token /\ \A c \in acts : Live(c) => c.kind # "natural"
  BY <1>3 DEF NoneLate
<1>7. Pending' = Pending
  BY DEF Pending
<1>8. Calls'
  <2> SUFFICES ASSUME NEW c \in acts, Live(c) PROVE CallInv(c)'
    BY <1>2 DEF Calls
  <2>1. CallInv(c)
    BY <1>3 DEF Calls
  <2>2. CASE c.kind \in {"stop", "skip"}
    BY <2>2 DEF CallInv, Dispatched, Planned, Sent, Taking, Taken, Loading, Plays, ArmedInv, Shapes, CallShape, Stands
  <2>3. CASE c.kind \notin {"stop", "skip"}
    <3>1. (Plays(c) /\ c.pc = "registered") \/ (c.kind = "natural" /\ c.pc \in {"resolve", "prepare"}) => rust' = rust
      BY <1>6, <2>1 DEF CallInv, Dispatched, Linked
    <3> QED
      BY <1>3, <1>4, <1>7, <2>1, <2>3, <3>1, CallRows, CallKept
  <2> QED
    BY <2>2, <2>3
<1>9. NoneLate'
  <2> SUFFICES ASSUME rust'.gen = js'.token \/ (\E c \in acts' : Live(c)' /\ c.kind = "natural"),
                      NEW b \in acts', Plays(b), b.pc = "registered"
               PROVE  Live(b)'
    BY DEF NoneLate, Plays
  <2>1. CASE rust' = rust
    BY <1>1, <1>2, <1>3, <2>1 DEF NoneLate
  <2>2. CASE rust' # rust
    <3>1. rust'.gen = 0
      BY <2>2 DEF Cleared
    <3>2. js.token = 0
      BY <1>1, <1>2, <1>6, <2>2, <3>1
    <3> QED
      BY <1>2, <3>2, FirstToken
  <2> QED
    BY <2>1, <2>2
<1>10. EngineShape' /\ Vacant'
  <2>1. EngineShape'
    <3>1. Cleared.confirmed = TRUE
      BY DEF Cleared
    <3>2. rust'.confirmed \in BOOLEAN
      BY <1>3, <3>1 DEF EngineShape
    <3> QED
      BY <1>3, <3>2 DEF EngineShape
  <2>2. a.pc # "clear"
    BY DEF ArmedInv, Shapes, CallShape, Stands
  <2> QED
    BY <1>1, <1>2, <1>3, <2>1, <2>2 DEF Vacant
<1>11. Aired' <=> Aired
  <2>1. \A c : Trying(c)' <=> Trying(c)
    BY DEF Trying, Plays
  <2> QED
    BY <1>1, <1>2, <2>1 DEF Aired
<1>12. AirInv'
  <2>1. CASE rust' = rust
    <3>1. (\A c \in acts' : Live(c)' => c.pc \notin {"gate", "loadbg"}) => \A c \in acts : Live(c) => c.pc \notin {"gate", "loadbg"}
      BY <1>2
    <3>2. js'.advancing => js.advancing
      BY DEF Leaves
    <3> QED
      BY <1>3, <1>4, <1>7, <1>11, <2>1, <3>1, <3>2, AirKept
  <2>2. CASE rust' # rust
    BY <1>3, <1>6, <1>11, <2>2 DEF AirInv, Linked
  <2> QED
    BY <2>1, <2>2
<1>13. Editable'
  <2>1. js'.loading.epoch \in Nat /\ js'.loading.epoch <= js'.epoch
    BY <1>1, <1>3, <1>4 DEF Editable, ArmedInv, Shapes, JsShape
  <2>2. Ended' <=> Ended
    BY <1>1 DEF Ended, On, Passed, Rolling, Ending
  <2> QED
    BY <1>2, <1>3, <1>4, <1>11, <2>1, <2>2, SMTT(60) DEF Editable
<1>14. Proved'
  <2>1. CASE rust' = rust
    BY <1>1, <1>3, <1>4, <2>1, ProofKept
  <2>2. CASE rust' # rust
    BY <2>2 DEF Proved, Cleared
  <2> QED
    BY <2>1, <2>2
<1> QED
  BY <1>5, <1>8, <1>9, <1>10, <1>12, <1>13, <1>14 DEF ChannelInv

-----------------------------------------------------------------------------
(* Registration, PLAY and claim *)

\* A row is registered for PLAY.
LEMMA DispatchChannel ==
  ASSUME ArmedInv, ArmedInv', ChannelInv, NEW a \in acts, Live(a), Plays(a), Dispatch(a) \/ RegisterNext(a),
         "late" \notin Windows
  PROVE  ChannelInv'
<1>1. /\ a.pc = "prepare" /\ UNCHANGED <<eng, aired>>
      /\ \E b : Turns(a, b) /\ Onward(a, b, "registered", a.next)
      /\ js' = js /\ Register(a.row, a.token, a.next)
      /\ \A c \in acts : ~(c.pc = "registered" /\ Superseded(c))
  BY RegisterStep DEF ArmedInv, Plays
<1>2. PICK b : Turns(a, b) /\ Onward(a, b, "registered", a.next)
  BY <1>1
<1>3. /\ rust'.row = a.row /\ rust'.gen = a.token /\ rust'.next = a.next /\ rust'.position = FALSE
      /\ rust'.fired = FALSE /\ rust'.observed = NoRow /\ rust'.confirmed \in BOOLEAN
  BY <1>1 DEF Register
<1>4. Unfailing /\ OneAdvance /\ EngineShape /\ Vacant /\ NoneLate /\ AirInv /\ Calls /\ Editable /\ Proved
  BY DEF ChannelInv
<1>5. Follow(a, {b}) /\ b.kind = a.kind /\ b.pc = "registered" /\ Plays(b) /\ b.row = a.row /\ b.token = a.token
  BY <1>1, <1>2 DEF Follow, Turns, Onward, Live, Plays
<1>6. Unfailing' /\ OneAdvance'
  BY <1>1, <1>4, <1>5, FollowUnfailing, FollowAdvance
<1>7. a.row = js.key /\ js.key # NoRow
  BY SuccessorAt
<1>8. EngineShape' /\ Vacant'
  BY <1>1, <1>3, <1>4, <1>7 DEF EngineShape, Vacant
<1>9. CallInv(b)'
  <2>1. CallInv(a)
    BY <1>4 DEF Calls
  <2>2. a.next = Successor(js.queue, js.key) /\ js.dedup # js.key
    BY <1>1, <2>1 DEF CallInv, Planned, Plays
  <2>3. Dispatched(b)'
    BY <1>1, <1>3, <1>7, <2>2 DEF Dispatched, Linked, Live
  <2>4. Planned(b)' /\ Sent(b)' /\ Taking(b)' /\ Taken(b)' /\ Loading(b)'
    BY <1>5 DEF Planned, Sent, Taking, Taken, Loading, Plays
  <2> QED
    BY <1>1, <2>2, <2>3, <2>4 DEF CallInv
<1>10. Calls' /\ \A c \in acts' : Live(c)' => c \in {b}
  BY <1>1, <1>5, <1>9, FollowCalls
<1>11. ~Aired' /\ AirInv'
  <2>1. b \in acts' /\ Live(b)' /\ Trying(b)'
    BY <1>1, <1>5 DEF Follow, Live, Trying, Plays, Dispatching
  <2> QED
    BY <2>1 DEF Aired, AirInv
<1>12. NoneLate'
  <2>1. \A c \in acts : c.pc = "registered" => Live(c)
    BY <1>1, LiveIs DEF ArmedInv
  <2> QED
    BY <1>1, <1>5, <2>1 DEF NoneLate, Follow, Live
<1>13. Editable'
  BY <1>1, <1>4, <1>5, <1>10, <1>11 DEF Editable, Plays
<1>14. Proved'
  BY <1>3 DEF Proved
<1> QED
  BY <1>6, <1>8, <1>10, <1>11, <1>12, <1>13, <1>14 DEF ChannelInv

\* The row the engine cuts to is registered.
LEMMA RegisterNextChannel ==
  ASSUME ArmedInv, ArmedInv', ChannelInv, NEW a \in acts, Live(a), a.kind = "natural", Dispatch(a) \/ RegisterNext(a)
  PROVE  ChannelInv'
<1>1. /\ a.pc = "prepare" /\ UNCHANGED <<eng, aired>>
      /\ \E b : Turns(a, b) /\ Onward(a, b, "registered", a.next)
      /\ js' = js /\ Register(a.row, a.token, a.next)
  BY RegisterStep DEF ArmedInv
<1>2. PICK b : Turns(a, b) /\ Onward(a, b, "registered", a.next)
  BY <1>1
<1>3. Unfailing /\ OneAdvance /\ EngineShape /\ Vacant /\ NoneLate /\ AirInv /\ Calls /\ Editable /\ Proved
  BY DEF ChannelInv
<1>4. CallInv(a) /\ Taking(a) /\ a.next = Successor(js.queue, js.key)
  BY <1>1, <1>3 DEF Calls, CallInv, Planned
<1>5. /\ Coming(a.row) /\ rust.row \notin {NoRow, a.row}
      /\ rust.observed = a.row => eng.fg = a.row
      /\ Awaited(a.row) => Fresh(a.row) /\ ~a.proof /\ ~a.fg
      /\ js.dedup # a.row
  BY <1>1, <1>4 DEF Taking
<1>6. a.row = js.key /\ js.key # NoRow
  BY <1>1, SuccessorAt
<1>7. /\ rust'.row = a.row /\ rust'.gen = a.token /\ rust'.next = a.next /\ rust'.position = FALSE
      /\ rust'.fired = FALSE /\ rust'.observed = NoRow
      /\ rust'.confirmed = (rust.observed = a.row)
  BY <1>1, <1>5 DEF Register
<1>8. \/ events' = events
      \/ /\ rust'.confirmed
         /\ \E e : /\ e.kind = "foreground" /\ Pending' = Pending \cup {e}
  <2> DEFINE e == [kind |-> "foreground", row |-> a.row, gen |-> a.token]
  <2>1. (~rust'.confirmed /\ Emit(<<>>)) \/ (rust'.confirmed /\ Emit(<<e>>))
    BY <1>1, <1>5, <1>7 DEF Register
  <2>2. e \in Notice
    BY DEF Notice, ArmedInv, Shapes, CallShape
  <2>3. e.kind = "foreground"
    OBVIOUS
  <2> HIDE DEF e
  <2> QED
    BY <2>1, <2>2, <2>3, Emitting, EmittingNothing DEF ArmedInv, Shapes
<1>9. Follow(a, {b}) /\ b.kind = "natural" /\ b.pc = "registered" /\ b.row = a.row /\ b.proof = a.proof /\ b.fg = a.fg
  BY <1>1, <1>2 DEF Follow, Turns, Onward, Live
<1>10. Unfailing' /\ OneAdvance'
  BY <1>1, <1>3, <1>9, FollowUnfailing, FollowAdvance
<1>11. EngineShape' /\ Vacant'
  BY <1>1, <1>3, <1>6, <1>7 DEF EngineShape, Vacant
<1>12. CallInv(b)'
  <2>1. Taken(b)'
    BY <1>1, <1>5, <1>9 DEF Taken, Coming, Awaited, Rolling, Ending
  <2>2. Dispatched(b)' /\ Planned(b)' /\ Sent(b)' /\ Taking(b)' /\ Loading(b)' /\ ~Plays(b)
    BY <1>9 DEF Dispatched, Planned, Sent, Taking, Loading, Plays
  <2> QED
    BY <2>1, <2>2 DEF CallInv, Plays
<1>13. Calls' /\ \A c \in acts' : Live(c)' => c \in {b}
  BY <1>1, <1>9, <1>12, FollowCalls
<1>14. /\ On' => eng'.bg = NoRow /\ Rolling'
       /\ ~Passed' /\ ~Ended' /\ (On' \/ Awaited(js.key)')
       /\ Awaited(js.key)' => Awaited(a.row)
  BY <1>1, <1>5, <1>6, RowAssumption DEF On, Passed, Ended, Ending, Rolling, Coming, Awaited
<1>15. AirInv'
  <2>1. Linked' /\ Placed' /\ Backed' /\ js'.dedup # js'.key
    BY <1>1, <1>5, <1>6, <1>7, <1>14 DEF Linked, Placed, Backed, Live
  <2>2. Signalled'
    <3>1. Quiet
      BY <1>1 DEF ArmedInv, Trying
    <3>2. \A e \in Pending' : e.kind = "advance" => e \in Pending
      BY <1>8 DEF Pending
    <3> QED
      BY <1>1, <1>7, <3>1, <3>2 DEF Signalled, Quiet
  <2>3. Closing' /\ Seen'
    BY <1>1, <1>4, <1>7, <1>14 DEF Closing, Seen
  <2>4. Waiting'
    <3> SUFFICES ASSUME Awaited(js.key)' PROVE ~rust'.confirmed /\ Fresh(js.key)'
      BY <1>1 DEF Waiting
    <3>1. eng.fg # a.row /\ Fresh(a.row)
      BY <1>5, <1>14 DEF Awaited
    <3>2. ~rust'.confirmed
      BY <1>5, <1>7, <3>1
    <3>3. Pending' = Pending
      BY <1>8, <3>2 DEF Pending
    <3> QED
      BY <1>1, <1>6, <3>1, <3>2, <3>3 DEF Fresh
  <2> QED
    BY <2>1, <2>2, <2>3, <2>4 DEF AirInv
<1>16. NoneLate'
  <2>1. \A c \in acts : Plays(c) /\ c.pc = "registered" => Live(c)
    BY <1>3 DEF NoneLate
  <2> QED
    BY <1>1, <1>9, <2>1 DEF NoneLate, Follow, Live, Plays
<1>17. Editable'
  BY <1>1, <1>3, <1>9, <1>13, <1>14 DEF Editable
<1>18. Proved'
  BY <1>7 DEF Proved
<1> QED
  BY <1>10, <1>11, <1>13, <1>15, <1>16, <1>17, <1>18 DEF ChannelInv

\* PLAY cuts to the registered row.
LEMMA SendChannel ==
  ASSUME ArmedInv, ArmedInv', ChannelInv, NEW a \in acts, Live(a), SendPlay(a)
  PROVE  ChannelInv'
<1>1. /\ Plays(a) /\ a.pc = "registered" /\ UNCHANGED <<rust, events, aired>>
      /\ \E b : Turns(a, b) /\ Onward(a, b, "played", a.next)
      /\ js' = js /\ eng' = [fg |-> a.row, phase |-> "loading", bg |-> NoRow]
  BY SendStep DEF ArmedInv, PLAY
<1>2. PICK b : Turns(a, b) /\ Onward(a, b, "played", a.next)
  BY <1>1
<1>3. Unfailing /\ OneAdvance /\ EngineShape /\ Vacant /\ NoneLate /\ AirInv /\ Calls /\ Editable /\ Proved
  BY DEF ChannelInv
<1>4. /\ Linked /\ ~rust.fired /\ rust.observed = NoRow
      /\ Edits = {} => rust.next = Successor(js.queue, js.key)
      /\ js.dedup # js.key
  BY <1>1, <1>3 DEF Calls, CallInv, Dispatched
<1>5. a.row = js.key /\ js.key # NoRow /\ a.row \in Rows
  BY <1>1, SuccessorAt DEF ArmedInv, Shapes, CallShape, Plays
<1>6. Follow(a, {b}) /\ b.kind = a.kind /\ b.pc = "played" /\ Plays(b)
  BY <1>1, <1>2 DEF Follow, Turns, Onward, Live, Plays
<1>7. Unfailing' /\ OneAdvance' /\ NoneLate'
  BY <1>1, <1>3, <1>6, FollowUnfailing, FollowAdvance, FollowLate
<1>8. EngineShape' /\ Vacant'
  BY <1>1, <1>3, <1>5 DEF EngineShape, Vacant
<1>9. On' /\ eng'.bg = NoRow /\ ~Passed' /\ ~Ended' /\ ~Awaited(js.key)'
  BY <1>1, <1>5 DEF On, Passed, Ended, Ending, Awaited
<1>10. CallInv(b)'
  <2>1. Dispatched(b)' /\ Planned(b)' /\ Sent(b)' /\ Taking(b)' /\ Taken(b)' /\ Loading(b)'
    BY <1>6, <1>9 DEF Dispatched, Planned, Sent, Taking, Taken, Loading, Plays
  <2> QED
    BY <1>1, <1>4, <2>1 DEF CallInv
<1>11. Calls' /\ \A c \in acts' : Live(c)' => c \in {b}
  BY <1>1, <1>6, <1>10, FollowCalls
<1>12. AirInv'
  <2>1. Linked' /\ Placed' /\ Backed' /\ js'.dedup # js'.key
    BY <1>1, <1>4, <1>9 DEF Linked, Placed, Backed
  <2>2. Signalled'
    <3>1. Quiet
      BY <1>1 DEF ArmedInv, Trying, Dispatching
    <3>2. Pending' = Pending
      BY <1>1 DEF Pending
    <3> QED
      BY <1>1, <1>4, <3>1, <3>2 DEF Signalled, Quiet
  <2>3. Closing' /\ Seen' /\ Waiting'
    BY <1>1, <1>4, <1>9 DEF Closing, Seen, Waiting
  <2> QED
    BY <2>1, <2>2, <2>3 DEF AirInv
<1>13. Editable'
  <2>1. b \in acts' /\ Live(b)' /\ b.kind # "natural"
    BY <1>1, <1>6 DEF Follow, Live, Plays
  <2> QED
    BY <1>1, <1>3, <1>6, <1>9, <1>11, <2>1 DEF Editable
<1>14. Proved'
  BY <1>1, <1>3, ProofKept
<1> QED
  BY <1>7, <1>8, <1>11, <1>12, <1>13, <1>14 DEF ChannelInv

\* The row the engine cuts to is claimed.
LEMMA ClaimChannel ==
  ASSUME ArmedInv, ArmedInv', ChannelInv, NEW a \in acts, Live(a), ClaimNext(a)
  PROVE  ChannelInv'
<1>1. /\ a.kind = "natural" /\ a.pc = "resolve" /\ UNCHANGED <<rust, events, eng, aired>>
      /\ \E b : Turns(a, b) /\ Onward(a, b, "prepare", RowAt(js.queue, a.idx + 1))
      /\ Is(js', js.token, a.row, {}, js.queue, js.coordGen, js.epoch, js.armed)
      /\ js'.advancing = js.advancing /\ js'.proven = NoRow
      /\ js'.playing = js.playing /\ js'.dedup = js.dedup /\ js'.flagged = js.flagged /\ js'.loading = js.loading
  BY ClaimStep DEF ArmedInv
<1>2. PICK b : Turns(a, b) /\ Onward(a, b, "prepare", RowAt(js.queue, a.idx + 1))
  BY <1>1
<1>a. js'.token = js.token /\ js'.key = a.row /\ js'.queue = js.queue /\ js'.epoch = js.epoch
  BY <1>1 DEF Is
<1>3. Unfailing /\ OneAdvance /\ EngineShape /\ Vacant /\ NoneLate /\ AirInv /\ Calls /\ Editable /\ Proved
  BY DEF ChannelInv
<1>4. /\ Coming(a.row) /\ rust.row \notin {NoRow, a.row}
      /\ rust.observed = a.row => eng.fg = a.row
      /\ Awaited(a.row) => Fresh(a.row) /\ ~a.proof /\ ~a.fg
      /\ js.dedup # a.row
  BY <1>1, <1>3 DEF Calls, CallInv, Taking
<1>5. Follow(a, {b}) /\ b.kind = "natural" /\ b.pc = "prepare" /\ b.row = a.row /\ b.proof = a.proof /\ b.fg = a.fg
      /\ b.idx = a.idx /\ b.next = RowAt(js.queue, a.idx + 1)
  BY <1>1, <1>2 DEF Follow, Turns, Onward, Live
<1>6. b \in acts' /\ Live(b)'
  BY <1>5, <1>a DEF Follow, Live
<1>7. b.next = Successor(js'.queue, js'.key)
  <2>1. Contains(js'.queue, js'.key) /\ b.idx = IndexIn(js'.queue, js'.key)
    BY <1>5, <1>6 DEF ArmedInv, AtItsPlace
  <2> QED
    BY <1>5, <1>a, <2>1 DEF Successor
<1>8. a.row # NoRow
  BY <1>1, CallRows
<1>9. Unfailing' /\ OneAdvance' /\ NoneLate'
  BY <1>1, <1>3, <1>5, <1>a, FollowUnfailing, FollowAdvance, FollowLate
<1>10. EngineShape' /\ Vacant'
  BY <1>1, <1>3, <1>8, <1>a DEF EngineShape, Vacant
<1>11. CallInv(b)'
  <2>1. /\ Coming(a.row)' <=> Coming(a.row)
        /\ Awaited(a.row)' <=> Awaited(a.row)
        /\ Fresh(a.row)' <=> Fresh(a.row)
    BY <1>1 DEF Coming, Awaited, Fresh, Pending, Rolling, Ending
  <2>2. Taking(b)'
    BY <1>1, <1>4, <1>5, <2>1 DEF Taking
  <2>3. Dispatched(b)' /\ Planned(b)' /\ Sent(b)' /\ Taken(b)' /\ Loading(b)' /\ ~Plays(b)
    BY <1>5, <1>7 DEF Dispatched, Planned, Sent, Taken, Loading, Plays
  <2> QED
    BY <2>2, <2>3 DEF CallInv, Plays
<1>12. Calls' /\ \A c \in acts' : Live(c)' => c \in {b}
  BY <1>5, <1>11, <1>a, FollowCalls
<1>13. ~Aired' /\ AirInv'
  <2>1. Trying(b)'
    BY <1>5 DEF Trying
  <2> QED
    BY <1>6, <2>1 DEF Aired, AirInv
<1>14. Editable'
  <2>1. js'.loading.epoch \in Nat /\ js'.loading.epoch <= js'.epoch
    BY <1>1, <1>3, <1>a DEF Editable
  <2>2. Edits # {} => js'.playing
    BY <1>1, <1>3 DEF Editable
  <2> QED
    BY <1>13, <2>1, <2>2 DEF Editable
<1>15. Proved'
  BY <1>1, <1>4, <1>a DEF Proved
<1> QED
  BY <1>9, <1>10, <1>12, <1>13, <1>14, <1>15 DEF ChannelInv

\* A step of a call in flight.
LEMMA ActivationChannel ==
  ASSUME ArmedInv, ArmedInv', ChannelInv, Activation, Failing = {}, "late" \notin Windows
  PROVE  ChannelInv'
<1>1. PICK a \in acts :
        \/ ResolveItem(a) \/ Dispatch(a) \/ SendPlay(a) \/ Played(a) \/ Retries(a) \/ Fails(a)
        \/ SkipTimer(a)
        \/ ArmNext(a)
        \/ ClaimNext(a) \/ RegisterNext(a) \/ NaturalFails(a) \/ NextRegistered(a)
        \/ ArmAfterNatural(a)
        \/ GatePreload(a) \/ SendLoadbg(a) \/ Loaded(a)
        \/ StopClear(a) \/ StopRelease(a)
  BY Zenon DEF Activation
<1>2. a.kind # "skip"
  BY DEF ChannelInv, Unfailing
<1>3. CASE ~Live(a)
  <2>1. a.kind # "stop"
    BY <1>3 DEF ArmedInv
  <2>2. /\ Leaves(a) /\ UNCHANGED <<events, eng, aired>>
        /\ rust' = rust \/ (rust' = Cleared /\ Plays(a) /\ a.pc = "registered")
    BY <1>1, <1>2, <1>3, <2>1, FadeStep DEF ArmedInv
  <2> QED
    BY <1>2, <1>3, <2>1, <2>2, FadeChannel
<1>4. CASE Live(a)
  <2>1. ~Retries(a) /\ ~Fails(a) /\ ~NaturalFails(a)
    BY DEF Retries, Fails, NaturalFails, Refused
  <2>2. ~SkipTimer(a)
    BY <1>2 DEF SkipTimer, ArmedInv, Shapes, CallShape, Stands
  <2>3. ASSUME Dispatch(a) \/ RegisterNext(a) PROVE ChannelInv'
    <3>1. Plays(a) \/ a.kind = "natural"
      BY <2>3 DEF Dispatch, RegisterNext, Plays
    <3> QED
      BY <1>4, <2>3, <3>1, DispatchChannel, RegisterNextChannel
  <2>4. ASSUME ResolveItem(a) \/ SendPlay(a) \/ Played(a) \/ ArmNext(a) \/ ClaimNext(a) \/ NextRegistered(a)
               \/ ArmAfterNatural(a)
        PROVE  ChannelInv'
    BY <1>4, <2>4, ResolveChannel, SendChannel, PlayedChannel, ArmChannel, ClaimChannel, NextRegisteredChannel
  <2>5. ASSUME GatePreload(a) \/ SendLoadbg(a) \/ Loaded(a) \/ StopClear(a) \/ StopRelease(a)
        PROVE  ChannelInv'
    BY <1>4, <2>5, GateChannel, LoadChannel, LoadedChannel, ClearChannel, ReleaseChannel
  <2> QED
    BY <1>1, <2>1, <2>2, <2>3, <2>4, <2>5, Zenon
<1> QED
  BY <1>3, <1>4

-----------------------------------------------------------------------------
(* The calls that take a new token *)

\* The call of a take or of a play supersedes the others.
LEMMA RequestChannel ==
  ASSUME ArmedInv, ArmedInv', ChannelInv, NEW r \in Rows, Asks(r), Requests(r)
  PROVE  ChannelInv'
<1>1. PICK b : /\ Joins(b) /\ Plain(b) /\ Plays(b) /\ b.advance = FALSE
               /\ b.row = r /\ b.token = js.token + 1
               /\ \/ b.kind = "take" /\ b.pc = "prepare" /\ b.next = Successor(js.queue, r)
                  \/ b.kind = "item" /\ b.pc = "resolve"
  BY DEF Asks
<1>2. /\ js'.dedup = NoRow /\ js'.flagged = js.flagged /\ js'.playing = js.playing /\ js'.proven = NoRow
      /\ js'.loading = js.loading /\ js'.advancing = js.advancing
  BY DEF Asks
<1>3. /\ js'.token = js.token + 1 /\ js'.key = r /\ js'.queue = js.queue /\ js'.epoch = js.epoch + 1
      /\ UNCHANGED <<rust, events, eng>>
  BY DEF Requests, Is
<1>4. Unfailing /\ OneAdvance /\ EngineShape /\ Vacant /\ NoneLate /\ AirInv /\ Calls /\ Editable /\ Proved
  BY DEF ChannelInv
<1>5. /\ \A c \in acts : ~Live(c)'
      /\ b \in acts' /\ Live(b)' /\ \A c \in acts' : Live(c)' => c = b
      /\ rust'.gen # js'.token /\ r # NoRow
  BY <1>1, <1>3, RowAssumption, SMTT(60) DEF ArmedInv, Shapes, CallShape, JsShape, Live,
       Joins
<1>6. Unfailing' /\ OneAdvance'
  <2>1. Unfailing'
    BY <1>1, <1>2, <1>4 DEF Unfailing, Joins, Plays
  <2>2. OneAdvance'
    BY <1>1, <1>2, <1>4 DEF OneAdvance, Joins, Plays
  <2> QED
    BY <2>1, <2>2
<1>7. EngineShape' /\ Vacant'
  BY <1>3, <1>4, <1>5 DEF EngineShape, Vacant
<1>8. NoneLate'
  BY <1>1, <1>5 DEF NoneLate, Plays
<1>9. Trying(b)
  BY <1>1 DEF Trying, Dispatching, Plays
<1>10. ~Aired' /\ AirInv'
  <2>1. Trying(b)'
    BY <1>9 DEF Trying, Plays
  <2> QED
    BY <1>5, <2>1 DEF Aired, AirInv
<1>11. Calls'
  <2>1. CallInv(b)'
    <3>1. Dispatched(b)' /\ Planned(b)' /\ Sent(b)' /\ Taking(b)' /\ Taken(b)' /\ Loading(b)'
      BY <1>1, <1>3 DEF Dispatched, Planned, Sent, Taking, Taken, Loading, Plays
    <3> QED
      BY <1>2, <1>3, <1>5, <3>1 DEF CallInv
  <2> QED
    BY <1>5, <2>1 DEF Calls
<1>12. Editable'
  <2>1. js'.loading.epoch \in Nat /\ js'.loading.epoch <= js'.epoch
    BY <1>2, <1>3, <1>4, SMTT(60) DEF Editable, ArmedInv, Shapes, JsShape
  <2> QED
    BY <1>1, <1>5, <1>10, <2>1 DEF Editable, Plays
<1>13. Proved'
  BY <1>5 DEF Proved
<1> QED
  BY <1>6, <1>7, <1>8, <1>10, <1>11, <1>12, <1>13 DEF ChannelInv

\* A stop supersedes the others and claims nothing.
LEMMA HaltChannel ==
  ASSUME ArmedInv, ArmedInv', ChannelInv, Halting, Halts
  PROVE  ChannelInv'
<1>1. PICK b : Joins(b) /\ Plain(b) /\ b.kind = "stop" /\ b.pc = "clear" /\ b.advance = FALSE
  BY DEF Halting
<1>2. /\ js'.flagged = js.flagged /\ js'.loading = js.loading /\ js'.advancing = js.advancing
  BY DEF Halting
<1>3. /\ js'.token = js.token + 1 /\ js'.key = NoRow /\ js'.epoch = js.epoch + 1
      /\ UNCHANGED <<rust, events, eng>>
  BY DEF Halts, Is
<1>4. Unfailing /\ OneAdvance /\ EngineShape /\ Vacant /\ NoneLate /\ AirInv /\ Calls /\ Editable /\ Proved
  BY DEF ChannelInv
<1>5. /\ \A c \in acts' : Live(c)' => c = b
      /\ rust'.gen # js'.token /\ b \in acts'
  BY <1>1, <1>3 DEF ArmedInv, Shapes, CallShape, JsShape, Live, Joins
<1>6. Unfailing' /\ OneAdvance'
  <2>1. Unfailing'
    BY <1>1, <1>2, <1>4 DEF Unfailing, Joins
  <2>2. OneAdvance'
    BY <1>1, <1>2, <1>4 DEF OneAdvance, Joins
  <2> QED
    BY <2>1, <2>2
<1>7. EngineShape' /\ Vacant'
  BY <1>1, <1>3, <1>4, <1>5 DEF EngineShape, Vacant
<1>8. NoneLate'
  BY <1>1, <1>5 DEF NoneLate
<1>10. ~Aired' /\ AirInv'
  BY <1>3 DEF Aired, AirInv
<1>11. Calls'
  <2>1. CallInv(b)'
    BY <1>1 DEF CallInv, Dispatched, Planned, Sent, Taking, Taken, Loading, Plays
  <2> QED
    BY <1>5, <2>1 DEF Calls
<1>12. Editable'
  <2>1. js'.loading.epoch \in Nat /\ js'.loading.epoch <= js'.epoch
    BY <1>2, <1>3, <1>4, SMTT(60) DEF Editable, ArmedInv, Shapes, JsShape
  <2> QED
    BY <1>1, <1>5, <1>10, <2>1 DEF Editable
<1>13. Proved'
  BY <1>5 DEF Proved
<1> QED
  BY <1>6, <1>7, <1>8, <1>10, <1>11, <1>12, <1>13 DEF ChannelInv

-----------------------------------------------------------------------------
(* The rundown moves on *)

\* While the end of a clip may be told, no call has yet to put a row on air.
LEMMA NoneTrying ==
  ASSUME ArmedInv, ~Quiet, js.key # NoRow PROVE Aired
BY DEF ArmedInv, Aired
\* No row is its own successor.
LEMMA SuccessorOther ==
  ASSUME ArmedInv, Successor(js.queue, js.key) # NoRow PROVE Successor(js.queue, js.key) # js.key
<1> DEFINE q == js.queue
           i == IndexIn(q, js.key)
<1>1. q \in Seq(Rows) /\ IsInjective(q)
  BY DEF ArmedInv, Shapes, JsShape
<1>2. i \in DOMAIN q /\ q[i] = js.key /\ i + 1 \in DOMAIN q /\ q[i + 1] = Successor(q, js.key)
  BY <1>1, Places
<1>3. i \in Nat /\ i # i + 1
  BY <1>1, <1>2
<1> QED
  BY <1>1, <1>2, <1>3 DEF IsInjective

\* At the end of the clip on air the rundown moves on.
LEMMA ContinuesChannel ==
  ASSUME ArmedInv, ArmedInv', ChannelInv, Aired, Ended, Continues, UNCHANGED <<rust, eng>>, Pending' \subseteq Pending
  PROVE  ChannelInv'
<1>1. PICK b : MovesOnTo(js, js', b) /\ Joins(b)
  BY DEF Continues
<1>2. /\ Plain(b) /\ b.advance = TRUE /\ b.token = js'.token /\ js'.token > js.token
      /\ js'.advancing = TRUE /\ js'.dedup = js.key /\ js'.flagged = js.flagged /\ js'.loading = js.loading
      /\ js'.queue = js.queue
      /\ \/ js'.key = NoRow /\ b.kind = "stop" /\ b.pc = "clear" /\ js'.epoch = js.epoch + 1
         \/ /\ js'.key = Successor(js.queue, js.key) /\ js'.key # NoRow /\ js'.epoch = js.epoch /\ js'.playing = js.playing
            /\ b.kind = "item" /\ b.pc = "resolve"
         \/ /\ js'.key = js.key /\ js'.epoch = js.epoch /\ js'.playing = js.playing
            /\ b.kind = "natural" /\ b.pc = "resolve"
            /\ b.row = Successor(js.queue, js.key) /\ b.row # NoRow /\ b.row \in js.armed
  BY <1>1 DEF MovesOnTo
<1>3. Unfailing /\ OneAdvance /\ EngineShape /\ Vacant /\ NoneLate /\ AirInv /\ Calls /\ Editable /\ Proved
  BY DEF ChannelInv
<1>4. /\ Linked /\ Placed /\ Backed /\ Signalled /\ Closing /\ Seen /\ Waiting /\ js.dedup # js.key
      /\ js.key # NoRow
  BY <1>3 DEF AirInv, Aired
<1>5. ~js.advancing /\ \A e \in Pending : e.row = js.key
  BY <1>4 DEF Closing
<1>6. js.token \in Nat /\ js'.token \in Nat /\ rust.gen \in Nat /\ rust.gen <= js.token
      /\ \A c \in acts : c.token \in Nat /\ c.token <= js.token
  BY DEF ArmedInv, Shapes, JsShape, CallShape
<1>7. /\ \A c \in acts' : Live(c)' => c = b
      /\ rust'.gen # js'.token /\ b \in acts'
  <2>1. \A c \in acts : c.token # js'.token
    BY <1>2, <1>6
  <2> QED
    BY <1>1, <1>2, <1>6, <2>1 DEF Live, Joins
<1>8. Unfailing' /\ OneAdvance'
  <2>1. Unfailing'
    BY <1>1, <1>2, <1>3 DEF Unfailing, Joins
  <2>2. \A c \in acts : ~c.advance /\ c.kind # "natural"
    BY <1>3, <1>5 DEF OneAdvance
  <2>3. OneAdvance'
    BY <1>1, <1>2, <2>2 DEF OneAdvance, Joins
  <2> QED
    BY <2>1, <2>3
<1>9. EngineShape' /\ Vacant'
  BY <1>2, <1>3, <1>4, <1>7 DEF EngineShape, Vacant
<1>10. NoneLate'
  <2>1. \A c \in acts : ~(Plays(c) /\ c.pc = "registered")
    BY <1>3, <1>4 DEF NoneLate, Linked, Aired, Trying, Dispatching
  <2> QED
    BY <1>1, <1>2, <2>1 DEF NoneLate, Joins, Plays
<1>11. ~Aired' /\ AirInv'
  <2>1. b.kind # "stop" => Trying(b)'
    BY <1>2 DEF Trying, Plays, Dispatching
  <2>2. Live(b)'
    BY <1>2 DEF Live
  <2> QED
    BY <1>2, <1>7, <2>1, <2>2 DEF Aired, AirInv
<1>12. CallInv(b)'
  <2>1. Dispatched(b)' /\ Planned(b)' /\ Sent(b)' /\ Taken(b)' /\ Loading(b)'
    BY <1>2 DEF Dispatched, Planned, Sent, Taken, Loading, Plays
  <2>2. Plays(b)' => js'.dedup # js'.key
    BY <1>2, SuccessorOther DEF Plays
  <2>3. Taking(b)'
    <3> SUFFICES ASSUME b.kind = "natural" PROVE Taking(b)'
      BY DEF Taking
    <3>1. b.row = Successor(js.queue, js.key) /\ b.row # NoRow /\ b.row # js.key /\ Held(b.row)
      BY <1>2, SuccessorOther DEF ArmedInv
    <3>2. Coming(b.row) /\ Coming(b.row)'
      BY <3>1 DEF Ended, Passed, On, Held, Coming, Awaited, Rolling, Ending
    <3>3. rust'.row \notin {NoRow, b.row}
      BY <1>4, <3>1 DEF Linked
    <3>4. rust'.observed = b.row => eng'.fg = b.row
      BY <1>4, <3>1 DEF Seen
    <3>5. Fresh(b.row)' /\ ~b.proof /\ ~b.fg
      BY <1>2, <1>5, <3>1 DEF Fresh, Plain
    <3> QED
      BY <1>2, <3>1, <3>2, <3>3, <3>4, <3>5 DEF Taking
  <2> QED
    BY <2>1, <2>2, <2>3 DEF CallInv
<1>13. Calls'
  BY <1>7, <1>12 DEF Calls
<1>14. Editable'
  <2>1. js'.loading.epoch \in Nat /\ js'.loading.epoch <= js'.epoch
    BY <1>2, <1>3, SMTT(60) DEF Editable, ArmedInv, Shapes, JsShape
  <2>2. Edits # {} => js.playing
    BY <1>3 DEF Editable
  <2>3. Edits # {} /\ b.kind = "natural" => js'.playing
    BY <1>2, <2>2
  <2> QED
    BY <1>7, <1>11, <2>1, <2>3 DEF Editable
<1>15. Proved'
  BY <1>7 DEF Proved
<1> QED
  BY <1>8, <1>9, <1>10, <1>11, <1>13, <1>14, <1>15 DEF ChannelInv

\* The end guard sees the clip on air at its end, and the rundown moves on.
LEMMA EndGuardContinues ==
  ASSUME ArmedInv, ChannelInv, EndGuard
  PROVE  Aired /\ Ended /\ Continues /\ UNCHANGED <<rust, events, eng, aired>>
<1>1. /\ UNCHANGED <<rust, events, eng, aired>>
      /\ rust.row \in js.guard /\ rust.confirmed /\ eng.phase = "ended" /\ eng.bg = NoRow
      /\ \/ rust.row # js.key
         \/ rust.row = js.key /\ (js.advancing \/ Continues)
  BY EndGuardStep DEF ArmedInv, ChannelInv, Unfailing
<1>2. rust.row = js.key /\ js.key # NoRow /\ js.key \in js.guard
  BY <1>1, RowAssumption DEF ArmedInv, Shapes, JsShape
<1>3. Aired
  BY <1>2, NoneTrying DEF Quiet
<1>4. Placed /\ Waiting /\ Closing
  BY <1>3 DEF ChannelInv, AirInv
<1>5. Ended
  BY <1>1, <1>2, <1>4 DEF Placed, Waiting, Ended, Passed, Rolling, Ending, Awaited
<1>6. Continues
  BY <1>1, <1>2, <1>4, <1>5 DEF Closing
<1> QED
  BY <1>1, <1>3, <1>5, <1>6

\* The end guard moves the rundown on.
LEMMA EndGuardChannel ==
  ASSUME ArmedInv, ArmedInv', ChannelInv, EndGuard
  PROVE  ChannelInv'
<1>1. Aired /\ Ended /\ Continues /\ UNCHANGED <<rust, events, eng, aired>>
  BY EndGuardContinues
<1>2. Pending' = Pending
  BY <1>1 DEF Pending
<1> QED
  BY <1>1, <1>2, ContinuesChannel

-----------------------------------------------------------------------------
(* Events are delivered *)

\* The proof of the first frame comes nearer with every event.
LEMMA ProofDelivered ==
  ASSUME Shapes, events # <<>>, events' = Tail(events), js'.key = js.key,
         IF Head(events).kind = "position" THEN js'.proven = Head(events).row ELSE js'.proven = js.proven,
         ProofComes
  PROVE  ProofComes'
<1>1. /\ DOMAIN events' = 1..(Len(events) - 1) /\ Len(events') = Len(events) - 1
      /\ \A i \in DOMAIN events' : events'[i] = events[i + 1]
      /\ Head(events) = events[1] /\ Len(events) \in Nat /\ Len(events) > 0
  BY Delivering DEF Shapes
<1>2. PICK i \in 0..Len(events) :
        /\ IF i = 0 THEN js.proven = js.key ELSE events[i].kind = "position" /\ events[i].row = js.key
        /\ \A k \in i + 1..Len(events) : events[k].kind = "position" => events[k].row = js.key
  BY DEF ProofComes
<1>3. ASSUME NEW m \in 0..Len(events'), m + 1 >= i
      PROVE  \A k \in m + 1..Len(events') : events'[k].kind = "position" => events'[k].row = js'.key
  <2> TAKE k \in m + 1..Len(events')
  <2>1. k \in DOMAIN events' /\ k + 1 \in i + 1..Len(events)
    BY <1>1, <1>2, <1>3
  <2> QED
    BY <1>1, <1>2, <2>1
<1>4. CASE i = 0
  <2>1. js'.proven = js'.key
    <3>1. 1 \in i + 1..Len(events)
      BY <1>1, <1>4
    <3> QED
      BY <1>1, <1>2, <1>4, <3>1
  <2>2. 0 \in 0..Len(events') /\ 0 + 1 >= i
    BY <1>1, <1>4
  <2> QED
    BY <1>3, <2>1, <2>2 DEF ProofComes
<1>5. CASE i = 1
  <2>1. js'.proven = js'.key
    BY <1>1, <1>2, <1>5
  <2>2. 0 \in 0..Len(events') /\ 0 + 1 >= i
    BY <1>1, <1>5
  <2> QED
    BY <1>3, <2>1, <2>2 DEF ProofComes
<1>6. CASE i > 1
  <2>1. i - 1 \in 0..Len(events') /\ (i - 1) + 1 >= i /\ i - 1 # 0 /\ i - 1 \in DOMAIN events' /\ (i - 1) + 1 = i
    BY <1>1, <1>2, <1>6
  <2>2. events'[i - 1] = events[i]
    BY <1>1, <2>1
  <2>3. events'[i - 1].kind = "position" /\ events'[i - 1].row = js'.key
    BY <1>2, <1>6, <2>2
  <2> QED
    BY <1>3, <2>1, <2>3 DEF ProofComes
<1> QED
  BY <1>2, <1>4, <1>5, <1>6

\* A call that is told of its row is the call it was.
LEMMA AlikeInv ==
  ASSUME NEW a, NEW b, CallInv(a)', Alike(a, b),
         a.kind = "natural" /\ Awaited(a.row)' => (b.proof => a.proof) /\ (b.fg => a.fg)
  PROVE  CallInv(b)'
<1>1. /\ b.pc = a.pc /\ b.kind = a.kind /\ b.row = a.row /\ b.next = a.next /\ b.behind = a.behind /\ b.epoch = a.epoch
      /\ (Plays(b) <=> Plays(a))
  BY DEF Alike, Plays
<1>2. Dispatched(b)' /\ Planned(b)' /\ Sent(b)' /\ Loading(b)'
  BY <1>1 DEF CallInv, Dispatched, Planned, Sent, Loading, Plays
<1>3. Taking(b)' /\ Taken(b)'
  BY <1>1 DEF CallInv, Taking, Taken
<1> QED
  BY <1>1, <1>2, <1>3 DEF CallInv, Plays

\* The waiters are told.
LEMMA InformedChannel ==
  ASSUME ArmedInv, ArmedInv', ChannelInv, NEW e \in Pending, e.kind \in {"position", "foreground", "advance"},
         Informed(e), SameClaim, js'.dedup = js.dedup, js'.playing = js.playing, js'.loading = js.loading,
         js'.advancing = js.advancing, UNCHANGED <<rust, eng>>, Pending' \subseteq Pending,
         \A w \in Pending : w # e => w \in Pending',
         e.kind = "advance" => e.gen # js.token \/ e.row # js.key \/ e.row = js.dedup,
         Proved'
  PROVE  ChannelInv'
<1>1. PICK f : /\ acts' = {f[a] : a \in acts}
               /\ \A a \in acts :
                    /\ Alike(a, f[a])
                    /\ f[a].proof => a.proof \/ (e.kind = "position" /\ a.row = e.row)
                    /\ f[a].fg => a.fg \/ (e.kind = "foreground" /\ a.row = e.row)
  BY DEF Informed
<1>2. /\ js'.token = js.token /\ js'.key = js.key /\ js'.queue = js.queue /\ js'.epoch = js.epoch
      /\ js'.flagged = js.flagged
  BY DEF SameClaim
<1>3. Unfailing /\ OneAdvance /\ EngineShape /\ Vacant /\ NoneLate /\ AirInv /\ Calls /\ Editable /\ Proved
  BY DEF ChannelInv
<1>4. \A a \in acts : /\ f[a] \in acts' /\ f[a].pc = a.pc /\ f[a].kind = a.kind /\ f[a].token = a.token /\ f[a].advance = a.advance
                      /\ (Live(f[a])' <=> Live(a)) /\ (Plays(f[a]) <=> Plays(a)) /\ (Trying(f[a])' <=> Trying(a))
  BY <1>1, <1>2 DEF Alike, Live, Plays, Trying
<1>5. \A c \in acts' : \E a \in acts : c = f[a]
  BY <1>1
<1>6. Unfailing' /\ OneAdvance'
  <2>1. Unfailing'
    BY <1>2, <1>3, <1>4, <1>5 DEF Unfailing
  <2>2. OneAdvance'
    BY <1>3, <1>4, <1>5 DEF OneAdvance
  <2> QED
    BY <2>1, <2>2
<1>7. EngineShape' /\ Vacant'
  BY <1>2, <1>3, <1>4 DEF EngineShape, Vacant
<1>8. NoneLate'
  <2>1. (\E c \in acts' : Live(c)' /\ c.kind = "natural") => \E a \in acts : Live(a) /\ a.kind = "natural"
    BY <1>4, <1>5
  <2>2. \A c \in acts' : \E a \in acts : (Plays(c) <=> Plays(a)) /\ c.pc = a.pc /\ (Live(c)' <=> Live(a))
    BY <1>4, <1>5
  <2> QED
    BY <1>2, <1>3, <2>1, <2>2 DEF NoneLate, Plays
<1>9. Aired' <=> Aired
  BY <1>2, <1>4, <1>5 DEF Aired
<1>10. AirInv'
  <2>1. (\A c \in acts' : Live(c)' => c.pc \notin {"gate", "loadbg"}) => \A a \in acts : Live(a) => a.pc \notin {"gate", "loadbg"}
    BY <1>4
  <2>2. Aired => \A w \in Pending : w.kind = "advance" /\ w.row = js.key /\ w.gen = js.token => w \in Pending'
    BY <1>3 DEF AirInv
  <2> QED
    BY <1>3, <1>9, <2>1, <2>2, AirKept
<1>11. Calls'
  <2> SUFFICES ASSUME NEW a \in acts, Live(a) PROVE CallInv(f[a])'
    BY <1>4, <1>5 DEF Calls
  <2>1. CallInv(a)
    BY <1>3 DEF Calls
  <2>2. CASE a.kind \in {"stop", "skip"}
    <3>1. f[a].kind = a.kind /\ f[a].pc = a.pc /\ Stands(a.kind, a.pc)
      BY <1>4 DEF ArmedInv, Shapes, CallShape
    <3> QED
      BY <2>2, <3>1 DEF CallInv, Dispatched, Planned, Sent, Taking, Taken, Loading, Plays, Stands
  <2>3. CASE a.kind \notin {"stop", "skip"}
    <3>1. js.key # NoRow /\ (Plays(a) \/ a.kind = "natural" => a.row # NoRow)
      BY <2>3, CallRows
    <3>2. CallInv(a)'
      BY <1>3, <2>1, <3>1, CallKept
    <3>3. a.kind = "natural" /\ Awaited(a.row) => Fresh(a.row)
      <4> SUFFICES ASSUME a.kind = "natural", Awaited(a.row) PROVE Fresh(a.row)
        OBVIOUS
      <4>1. CASE a.pc \in {"resolve", "prepare"}
        BY <2>1, <4>1 DEF CallInv, Taking
      <4>2. CASE a.pc \notin {"resolve", "prepare"}
        <5>1. a.row = js.key
          BY <4>2, SuccessorAt
        <5>2. Aired
          BY <3>1, <4>2 DEF Aired, ArmedInv, Trying, Plays
        <5> QED
          BY <1>3, <5>1, <5>2 DEF AirInv, Waiting
      <4> QED
        BY <4>1, <4>2
    <3>4. a.kind = "natural" /\ Awaited(a.row)' => (f[a].proof => a.proof) /\ (f[a].fg => a.fg)
      BY <1>1, <3>3 DEF Fresh, Awaited, Ending
    <3>5. Alike(a, f[a])
      BY <1>1
    <3> QED
      BY <3>2, <3>4, <3>5, AlikeInv
  <2> QED
    BY <2>2, <2>3
<1>12. Editable'
  <2>1. Ended' <=> Ended
    BY <1>2 DEF Ended, On, Passed, Rolling, Ending
  <2> QED
    BY <1>2, <1>3, <1>4, <1>5, <1>9, <2>1 DEF Editable
<1> QED
  BY <1>6, <1>7, <1>8, <1>10, <1>11, <1>12 DEF ChannelInv

\* The advance that is delivered for the clip claimed finds it at its end.
LEMMA AdvanceContinues ==
  ASSUME ArmedInv, ChannelInv, NEW e \in Pending, e.kind = "advance", e.gen = js.token, e.row = js.key
  PROVE  Aired /\ Ended /\ ~js.advancing
<1>1. js.key # NoRow
  BY Notices, RowAssumption DEF ArmedInv
<1>2. Aired
  BY <1>1, NoneTrying DEF Quiet
<1>3. Signalled /\ Closing
  BY <1>2 DEF ChannelInv, AirInv
<1>4. Ended
  BY <1>3 DEF Signalled
<1> QED
  BY <1>2, <1>3, <1>4 DEF Closing

\* An event tells a waiter, or moves the rundown on.
LEMMA DeliverChannel ==
  ASSUME ArmedInv, ArmedInv', ChannelInv, Deliver
  PROVE  ChannelInv'
<1> DEFINE e == Head(events)
<1>1. /\ events # <<>> /\ events' = Tail(events) /\ UNCHANGED <<rust, eng, aired>>
      /\ \/ /\ e.kind = "position" /\ Informed(e) /\ js'.proven = e.row /\ Agree(js, js')
            /\ js'.playing = js.playing /\ js'.dedup = js.dedup /\ js'.flagged = js.flagged
            /\ js'.loading = js.loading /\ js'.advancing = js.advancing
         \/ e.kind = "foreground" /\ Informed(e) /\ js' = js
         \/ /\ e.kind = "advance" /\ js' = js /\ acts' = acts
            /\ e.gen # js.token \/ e.row # js.key \/ e.row = js.dedup
         \/ /\ e.kind = "advance" /\ e.gen = js.token /\ e.row = js.key /\ e.row # js.dedup
            /\ js.advancing \/ Continues
  BY DeliverStep DEF ArmedInv, ChannelInv, Unfailing
<1>2. /\ e \in Pending /\ Pending' \subseteq Pending
      /\ \A w \in Pending : w # e => w \in Pending'
  <2>1. /\ DOMAIN events' = 1..(Len(events) - 1)
        /\ \A i \in DOMAIN events' : events'[i] = events[i + 1]
        /\ e = events[1] /\ Len(events) \in Nat /\ DOMAIN events = 1..Len(events)
        /\ e \in Pending /\ Pending' \subseteq Pending
    BY <1>1, Delivering DEF ArmedInv, Shapes
  <2> HIDE DEF e
  <2>2. ASSUME NEW w \in Pending, w # e PROVE w \in Pending'
    <3>1. PICK i \in DOMAIN events : w = events[i]
      BY <2>2 DEF Pending
    <3>2. i - 1 \in DOMAIN events' /\ (i - 1) + 1 = i
      BY <2>1, <2>2, <3>1
    <3>3. events'[i - 1] = w
      BY <2>1, <3>1, <3>2
    <3> QED
      BY <3>2, <3>3 DEF Pending
  <2> QED
    BY <2>1, <2>2
<1>3. CASE e.kind = "advance" /\ e.gen = js.token /\ e.row = js.key /\ (js.advancing \/ Continues)
  <2>1. Aired /\ Ended /\ ~js.advancing
    BY <1>2, <1>3, AdvanceContinues
  <2> QED
    BY <1>1, <1>2, <1>3, <2>1, ContinuesChannel
<1>4. CASE ~(e.kind = "advance" /\ e.gen = js.token /\ e.row = js.key /\ (js.advancing \/ Continues))
  <2>1. /\ SameClaim /\ js'.dedup = js.dedup /\ js'.playing = js.playing /\ js'.loading = js.loading
        /\ js'.advancing = js.advancing
        /\ IF e.kind = "position" THEN js'.proven = e.row ELSE js'.proven = js.proven
    BY <1>1, <1>4 DEF SameClaim, Agree, Is
  <2>2. /\ Informed(e)
        /\ e.kind \in {"position", "foreground", "advance"}
        /\ e.kind = "advance" => e.gen # js.token \/ e.row # js.key \/ e.row = js.dedup
    <3>1. ASSUME acts' = acts PROVE Informed(e)
      <4> DEFINE f == [a \in acts |-> a]
      <4>1. \A a \in acts : f[a] = a /\ DOMAIN a = CallNames
        BY DEF ArmedInv, Shapes, CallShape
      <4> HIDE DEF f, e
      <4>2. acts' = {f[a] : a \in acts}
        BY <3>1, <4>1
      <4>3. \A a \in acts : /\ Alike(a, f[a])
                            /\ f[a].proof => a.proof \/ (e.kind = "position" /\ a.row = e.row)
                            /\ f[a].fg => a.fg \/ (e.kind = "foreground" /\ a.row = e.row)
        BY <4>1 DEF Alike
      <4> QED
        BY <4>2, <4>3 DEF Informed
    <3> QED
      BY <1>1, <1>4, <3>1
  <2>3. Proved'
    <3>1. Proved
      BY DEF ChannelInv
    <3>2. js'.key = js.key /\ js'.token = js.token
      BY <2>1 DEF SameClaim
    <3>3. ProofComes => ProofComes'
      BY <1>1, <2>1, <3>2, ProofDelivered DEF ArmedInv
    <3> QED
      BY <1>1, <3>1, <3>2, <3>3 DEF Proved
  <2> HIDE DEF e
  <2> QED
    BY <1>1, <1>2, <2>1, <2>2, <2>3, InformedChannel
<1> QED
  BY <1>3, <1>4

-----------------------------------------------------------------------------
(* What Rust sees *)

\* Rust tells something of the registered row.
LEMMA Telling ==
  ASSUME Shapes, rust.row # NoRow, NEW kind \in {"position", "foreground", "advance"}, Tells(kind)
  PROVE  LET e == [kind |-> kind, row |-> rust.row, gen |-> rust.gen] IN
         /\ Pending' = Pending \cup {e}
         /\ \A i \in 1..Len(events) : events'[i] = events[i]
         /\ Len(events') = Len(events) + 1 /\ Len(events) \in Nat /\ events'[Len(events) + 1] = e
<1> DEFINE e == [kind |-> kind, row |-> rust.row, gen |-> rust.gen]
<1>1. e \in Notice
  BY DEF Notice, Shapes
<1>2. Emit(<<e>>)
  BY DEF Tells
<1> HIDE DEF e
<1>3. /\ events \in Seq(Notice) /\ events' = events \o <<e>>
  BY <1>2 DEF Emit, Shapes
<1>5. /\ DOMAIN events' = 1..(Len(events) + 1) /\ DOMAIN events = 1..Len(events) /\ Len(events) \in Nat
      /\ Len(events') = Len(events) + 1
      /\ \A i \in DOMAIN events : events'[i] = events[i]
      /\ events'[Len(events) + 1] = e
  BY <1>1, <1>3
<1>6. Pending' = Pending \cup {e}
  BY <1>1, <1>3, Emitting DEF Emit
<1> QED
  BY <1>5, <1>6 DEF e

\* While a clip is on air the gate of its registration is open; a call that dispatches shuts it.
LEMMA GateOpen ==
  ASSUME ArmedInv, Unfailing, Aired, Linked
  PROVE  ~GateShut
BY DEF GateShut, Unfailing, Aired, Linked, Trying, Plays, Dispatching, Live
\* While a call dispatches, the gate of its registration is shut.
LEMMA GateClosed ==
  ASSUME NEW a \in acts, Live(a), Plays(a), a.pc = "registered", Linked
  PROVE  GateShut
BY DEF GateShut, Linked, Plays, Live

\* What Rust tells is news to nobody but the row on air and the live call.
LEMMA ToldFrame ==
  ASSUME ArmedInv, ChannelInv, UNCHANGED <<js, acts, eng>>, rust'.gen = rust.gen, rust'.confirmed \in BOOLEAN,
         AirInv', Proved', \A a \in acts : Live(a) => Dispatched(a)' /\ Taking(a)'
  PROVE  ChannelInv'
<1>1. Unfailing /\ OneAdvance /\ EngineShape /\ Vacant /\ NoneLate /\ AirInv /\ Calls /\ Editable /\ Proved
  BY DEF ChannelInv
<1>2. Unfailing' /\ OneAdvance' /\ EngineShape' /\ Vacant'
  BY <1>1 DEF Unfailing, OneAdvance, EngineShape, Vacant
<1>3. NoneLate'
  BY <1>1 DEF NoneLate, Live, Plays
<1>4. Editable'
  <2>1. Ended' <=> Ended
    BY DEF Ended, On, Passed, Rolling, Ending
  <2>2. Aired' <=> Aired
    BY DEF Aired, Live, Trying, Plays
  <2> QED
    BY <1>1, <2>1, <2>2 DEF Editable, Live
<1>5. Calls'
  <2> SUFFICES ASSUME NEW a \in acts, Live(a) PROVE CallInv(a)'
    BY DEF Calls, Live
  <2>1. CallInv(a)
    BY <1>1 DEF Calls
  <2>2. Planned(a)' /\ Sent(a)' /\ Taken(a)' /\ Loading(a)' /\ (Plays(a)' => js'.dedup # js'.key)
    BY <2>1 DEF CallInv, Planned, Sent, Taken, Loading, Plays, On, Passed, Coming, Awaited, Rolling, Ending
  <2> QED
    BY <2>1, <2>2 DEF CallInv
<1> QED
  BY <1>2, <1>3, <1>4, <1>5 DEF ChannelInv

\* Rust sees the path of the registered row, or the cut to its successor.
LEMMA PathChannel ==
  ASSUME ArmedInv, ArmedInv', ChannelInv, RustSeesPath
  PROVE  ChannelInv'
<1>1. Unfailing /\ OneAdvance /\ EngineShape /\ Vacant /\ NoneLate /\ AirInv /\ Calls /\ Editable /\ Proved
  BY DEF ChannelInv
<1>2. /\ PathNews /\ UNCHANGED <<js, acts, eng>> /\ rust.row # NoRow
      /\ rust'.row = rust.row /\ rust'.gen = rust.gen /\ rust'.position = rust.position
      /\ rust'.confirmed = ConfirmedByPath /\ rust'.fired = (rust.fired \/ SwitchSeen)
      /\ rust'.next = (IF SwitchSeen THEN NoRow ELSE rust.next)
      /\ rust'.observed = (IF SwitchSeen THEN eng.fg ELSE rust.observed)
      /\ Tells(IF SwitchSeen THEN "advance" ELSE "foreground")
  BY DEF RustSeesPath, PathNews, ArmedInv, Shapes, RustNames
<1>3. PICK kind \in {"foreground", "advance"} : kind = (IF SwitchSeen THEN "advance" ELSE "foreground")
  OBVIOUS
<1> DEFINE e == [kind |-> kind, row |-> rust.row, gen |-> rust.gen]
<1>4. /\ Pending' = Pending \cup {e}
      /\ \A i \in 1..Len(events) : events'[i] = events[i]
      /\ Len(events') = Len(events) + 1 /\ Len(events) \in Nat /\ events'[Len(events) + 1] = e
  BY <1>2, <1>3, Telling DEF ArmedInv
<1>5. e.kind = kind /\ e.row = rust.row /\ e.gen = rust.gen
  OBVIOUS
<1> HIDE DEF e
<1>6. rust'.confirmed \in BOOLEAN
  BY <1>1, <1>2 DEF ConfirmedByPath, EngineShape
<1>7. ASSUME NEW a \in acts, Live(a) PROVE Dispatched(a)' /\ Taking(a)'
  <2>1. Dispatched(a) /\ Taking(a)
    BY <1>1, <1>7 DEF Calls, CallInv
  <2>2. Dispatched(a)'
    <3> SUFFICES ASSUME Plays(a), a.pc = "registered" PROVE Dispatched(a)'
      BY DEF Dispatched, Plays
    <3>1. Linked /\ ~rust.fired /\ rust.observed = NoRow /\ (Edits = {} => rust.next = Successor(js.queue, js.key))
      BY <2>1 DEF Dispatched
    <3>2. ~SwitchSeen
      BY <1>7, <3>1, GateClosed DEF SwitchSeen
    <3> QED
      BY <1>2, <3>1, <3>2 DEF Dispatched, Linked
  <2>3. Taking(a)'
    <3> SUFFICES ASSUME a.kind = "natural", a.pc \in {"resolve", "prepare"} PROVE Taking(a)'
      BY DEF Taking
    <3>1. /\ Coming(a.row) /\ rust.row \notin {NoRow, a.row}
          /\ rust.observed = a.row => eng.fg = a.row
          /\ Awaited(a.row) => Fresh(a.row) /\ ~a.proof /\ ~a.fg
          /\ js.dedup # a.row
      BY <2>1 DEF Taking
    <3>2. /\ Coming(a.row)' <=> Coming(a.row)
          /\ Awaited(a.row)' <=> Awaited(a.row)
      BY <1>2 DEF Coming, Awaited, Rolling, Ending
    <3>3. Fresh(a.row) => Fresh(a.row)'
      BY <1>4, <1>5, <3>1 DEF Fresh
    <3>4. rust'.observed = a.row => eng'.fg = a.row
      BY <1>2, <3>1
    <3> QED
      BY <1>2, <3>1, <3>2, <3>3, <3>4 DEF Taking
  <2> QED
    BY <2>2, <2>3
<1>8. Aired' <=> Aired
  BY <1>2 DEF Aired, Live, Trying, Plays
<1>9. AirInv'
  <2> SUFFICES ASSUME Aired
               PROVE  /\ Linked' /\ Placed' /\ Backed' /\ Signalled' /\ Closing' /\ Seen' /\ Waiting'
                      /\ js'.dedup # js'.key
    BY <1>8 DEF AirInv
  <2>1. /\ Linked /\ Placed /\ Backed /\ Signalled /\ Closing /\ Seen /\ Waiting /\ js.dedup # js.key
    BY <1>1 DEF AirInv
  <2>2. ~GateShut /\ rust.row = js.key /\ rust.gen = js.token
    BY <1>1, <2>1, GateOpen DEF Linked
  <2>3. /\ On' <=> On
        /\ Passed' <=> Passed
        /\ Ended' <=> Ended
        /\ Awaited(js.key)' <=> Awaited(js.key)
    BY <1>2 DEF On, Passed, Ended, Awaited, Rolling, Ending
  <2>4. ~Awaited(js.key)
    <3> SUFFICES ASSUME Awaited(js.key) PROVE FALSE
      OBVIOUS
    <3>1. ~rust.confirmed /\ eng.fg # rust.row
      BY <2>1, <2>2 DEF Waiting, Awaited
    <3>2. ~ConfirmedByPath /\ ~SwitchSeen /\ rust.confirmed = FALSE
      BY <1>1, <3>1 DEF ConfirmedByPath, SwitchSeen, EngineShape
    <3> QED
      BY <1>2, <3>2 DEF PathNews, ConfirmedByPath
  <2>5. SwitchSeen => Passed
    BY <2>1, <2>2, <2>4 DEF SwitchSeen, Placed, On
  <2>6. Linked' /\ Placed' /\ Backed' /\ js'.dedup # js'.key
    BY <1>2, <2>1, <2>3 DEF Linked, Placed, Backed, Live
  <2>7. Signalled'
    <3>1. CASE SwitchSeen
      <4>1. rust'.fired /\ Ended' /\ e \in Pending' /\ e.kind = "advance" /\ e.row = js'.key /\ e.gen = js'.token
        BY <1>2, <1>3, <1>4, <1>5, <2>2, <2>3, <2>5, <3>1 DEF Ended
      <4> QED
        BY <4>1 DEF Signalled
    <3>2. CASE ~SwitchSeen
      <4>1. rust'.fired <=> rust.fired
        BY <1>2, <3>2
      <4>2. e.kind # "advance"
        BY <1>3, <1>5, <3>2
      <4> QED
        BY <1>2, <1>4, <2>1, <2>3, <4>1, <4>2 DEF Signalled
    <3> QED
      BY <3>1, <3>2
  <2>8. Closing'
    BY <1>2, <1>4, <1>5, <2>1, <2>2, <2>3 DEF Closing, ConfirmedByPath
  <2>9. Seen'
    BY <1>2, <2>1, <2>3, <2>5 DEF Seen
  <2>10. Waiting'
    BY <2>3, <2>4, <1>2 DEF Waiting
  <2> QED
    BY <2>6, <2>7, <2>8, <2>9, <2>10
<1>10. Proved'
  <2> SUFFICES ASSUME ProofComes PROVE ProofComes'
    BY <1>1, <1>2 DEF Proved
  <2>1. PICK i \in 0..Len(events) :
          /\ IF i = 0 THEN js.proven = js.key ELSE events[i].kind = "position" /\ events[i].row = js.key
          /\ \A k \in i + 1..Len(events) : events[k].kind = "position" => events[k].row = js.key
    BY DEF ProofComes
  <2>2. i \in 0..Len(events')
    BY <1>4
  <2>3. IF i = 0 THEN js'.proven = js'.key ELSE events'[i].kind = "position" /\ events'[i].row = js'.key
    BY <1>2, <1>4, <2>1
  <2>4. ASSUME NEW k \in i + 1..Len(events'), events'[k].kind = "position" PROVE events'[k].row = js'.key
    <3>1. k # Len(events) + 1
      BY <1>3, <1>4, <1>5, <2>4
    <3>2. k \in i + 1..Len(events) /\ k \in 1..Len(events)
      BY <1>4, <3>1
    <3> QED
      BY <1>2, <1>4, <2>1, <2>4, <3>2
  <2> QED
    BY <2>2, <2>3, <2>4 DEF ProofComes
<1> QED
  BY <1>2, <1>6, <1>7, <1>9, <1>10, ToldFrame

\* Rust sees a first position of the registered row.
LEMMA PositionChannel ==
  ASSUME ArmedInv, ArmedInv', ChannelInv, RustSeesPosition
  PROVE  ChannelInv'
<1>1. Unfailing /\ OneAdvance /\ EngineShape /\ Vacant /\ NoneLate /\ AirInv /\ Calls /\ Editable /\ Proved
  BY DEF ChannelInv
<1>2. /\ PositionNews /\ UNCHANGED <<js, acts, eng>> /\ rust.row # NoRow
      /\ rust'.row = rust.row /\ rust'.gen = rust.gen /\ rust'.confirmed = rust.confirmed
      /\ rust'.fired = rust.fired /\ rust'.next = rust.next /\ rust'.observed = rust.observed
      /\ Tells("position")
  BY DEF RustSeesPosition, PositionNews, ArmedInv, Shapes, RustNames
<1> DEFINE e == [kind |-> "position", row |-> rust.row, gen |-> rust.gen]
<1>3. /\ Pending' = Pending \cup {e}
      /\ Len(events') = Len(events) + 1 /\ Len(events) \in Nat /\ events'[Len(events) + 1] = e
  BY <1>2, Telling DEF ArmedInv
<1>4. e.kind = "position" /\ e.row = rust.row
  OBVIOUS
<1> HIDE DEF e
<1>5. ASSUME NEW a \in acts, Live(a) PROVE Dispatched(a)' /\ Taking(a)'
  <2>1. Dispatched(a) /\ Taking(a)
    BY <1>1, <1>5 DEF Calls, CallInv
  <2>2. Dispatched(a)'
    BY <1>2, <2>1 DEF Dispatched, Linked, Plays
  <2>3. Taking(a)'
    <3> SUFFICES ASSUME a.kind = "natural", a.pc \in {"resolve", "prepare"} PROVE Taking(a)'
      BY DEF Taking
    <3>1. /\ Coming(a.row) /\ rust.row \notin {NoRow, a.row}
          /\ rust.observed = a.row => eng.fg = a.row
          /\ Awaited(a.row) => Fresh(a.row) /\ ~a.proof /\ ~a.fg
          /\ js.dedup # a.row
      BY <2>1 DEF Taking
    <3>2. /\ Coming(a.row)' <=> Coming(a.row)
          /\ Awaited(a.row)' <=> Awaited(a.row)
      BY <1>2 DEF Coming, Awaited, Rolling, Ending
    <3>3. Fresh(a.row) => Fresh(a.row)'
      BY <1>3, <1>4, <3>1 DEF Fresh
    <3> QED
      BY <1>2, <3>1, <3>2, <3>3 DEF Taking
  <2> QED
    BY <2>2, <2>3
<1>6. Aired' <=> Aired
  BY <1>2 DEF Aired, Live, Trying, Plays
<1>7. AirInv'
  <2> SUFFICES ASSUME Aired
               PROVE  /\ Linked' /\ Placed' /\ Backed' /\ Signalled' /\ Closing' /\ Seen' /\ Waiting'
                      /\ js'.dedup # js'.key
    BY <1>6 DEF AirInv
  <2>1. /\ Linked /\ Placed /\ Backed /\ Signalled /\ Closing /\ Seen /\ Waiting /\ js.dedup # js.key
    BY <1>1 DEF AirInv
  <2>2. /\ On' <=> On
        /\ Passed' <=> Passed
        /\ Ended' <=> Ended
        /\ Awaited(js.key)' <=> Awaited(js.key)
    BY <1>2 DEF On, Passed, Ended, Awaited, Rolling, Ending
  <2>3. ~Awaited(js.key)
    BY <1>2, <2>1 DEF Waiting, PositionNews
  <2>4. Linked' /\ Placed' /\ Backed' /\ js'.dedup # js'.key
    BY <1>2, <2>1, <2>2 DEF Linked, Placed, Backed, Live
  <2>5. Signalled' /\ Closing'
    BY <1>2, <1>3, <1>4, <2>1, <2>2 DEF Signalled, Closing, Linked
  <2>6. Seen' /\ Waiting'
    BY <1>2, <2>1, <2>2, <2>3 DEF Seen, Waiting
  <2> QED
    BY <2>4, <2>5, <2>6
<1>8. Proved'
  <2> SUFFICES ASSUME rust.row = js.key PROVE ProofComes'
    BY <1>2 DEF Proved
  <2>1. Len(events') \in 0..Len(events') /\ Len(events') # 0
    BY <1>3
  <2>2. events'[Len(events')].kind = "position" /\ events'[Len(events')].row = js'.key
    BY <1>2, <1>3, <1>4
  <2>3. \A k \in Len(events') + 1..Len(events') : events'[k].kind = "position" => events'[k].row = js'.key
    BY <1>3
  <2> QED
    BY <2>1, <2>2, <2>3 DEF ProofComes
<1>9. rust'.confirmed \in BOOLEAN
  BY <1>1, <1>2 DEF EngineShape
<1> QED
  BY <1>2, <1>5, <1>7, <1>8, <1>9, ToldFrame

\* Rust sees the end of the registered row.
LEMMA EndChannel ==
  ASSUME ArmedInv, ArmedInv', ChannelInv, RustSeesEnd
  PROVE  ChannelInv'
<1>1. Unfailing /\ OneAdvance /\ EngineShape /\ Vacant /\ NoneLate /\ AirInv /\ Calls /\ Editable /\ Proved
  BY DEF ChannelInv
<1>2. /\ EndNews /\ UNCHANGED <<js, acts, eng>> /\ rust.row # NoRow
      /\ rust'.row = rust.row /\ rust'.gen = rust.gen /\ rust'.confirmed = rust.confirmed /\ rust'.position = rust.position
      /\ rust'.fired = TRUE /\ rust'.next = rust.next /\ rust'.observed = rust.observed
      /\ Tells("advance")
  BY DEF RustSeesEnd, EndNews, ArmedInv, Shapes, RustNames
<1> DEFINE e == [kind |-> "advance", row |-> rust.row, gen |-> rust.gen]
<1>3. /\ Pending' = Pending \cup {e}
      /\ \A i \in 1..Len(events) : events'[i] = events[i]
      /\ Len(events') = Len(events) + 1 /\ Len(events) \in Nat /\ events'[Len(events) + 1] = e
  BY <1>2, Telling DEF ArmedInv
<1>4. e.kind = "advance" /\ e.row = rust.row /\ e.gen = rust.gen
  OBVIOUS
<1> HIDE DEF e
<1>5. ASSUME NEW a \in acts, Live(a) PROVE Dispatched(a)' /\ Taking(a)'
  <2>1. Dispatched(a) /\ Taking(a)
    BY <1>1, <1>5 DEF Calls, CallInv
  <2>2. ~(Plays(a) /\ a.pc = "registered")
    BY <1>2, <1>5, <2>1, GateClosed DEF Dispatched, EndNews
  <2>3. Taking(a)'
    <3> SUFFICES ASSUME a.kind = "natural", a.pc \in {"resolve", "prepare"} PROVE Taking(a)'
      BY DEF Taking
    <3>1. /\ Coming(a.row) /\ rust.row \notin {NoRow, a.row}
          /\ rust.observed = a.row => eng.fg = a.row
          /\ Awaited(a.row) => Fresh(a.row) /\ ~a.proof /\ ~a.fg
          /\ js.dedup # a.row
      BY <2>1 DEF Taking
    <3>2. /\ Coming(a.row)' <=> Coming(a.row)
          /\ Awaited(a.row)' <=> Awaited(a.row)
      BY <1>2 DEF Coming, Awaited, Rolling, Ending
    <3>3. Fresh(a.row) => Fresh(a.row)'
      BY <1>3, <1>4, <3>1 DEF Fresh
    <3> QED
      BY <1>2, <3>1, <3>2, <3>3 DEF Taking
  <2> QED
    BY <2>2, <2>3 DEF Dispatched, Plays
<1>6. Aired' <=> Aired
  BY <1>2 DEF Aired, Live, Trying, Plays
<1>7. AirInv'
  <2> SUFFICES ASSUME Aired
               PROVE  /\ Linked' /\ Placed' /\ Backed' /\ Signalled' /\ Closing' /\ Seen' /\ Waiting'
                      /\ js'.dedup # js'.key
    BY <1>6 DEF AirInv
  <2>1. /\ Linked /\ Placed /\ Backed /\ Signalled /\ Closing /\ Seen /\ Waiting /\ js.dedup # js.key
    BY <1>1 DEF AirInv
  <2>2. /\ On' <=> On
        /\ Passed' <=> Passed
        /\ Ended' <=> Ended
        /\ Awaited(js.key)' <=> Awaited(js.key)
    BY <1>2 DEF On, Passed, Ended, Awaited, Rolling, Ending
  <2>3. On /\ Ended /\ ~Awaited(js.key)
    BY <1>2, <2>1 DEF Placed, Linked, EndNews, Passed, Awaited, Ended, Ending
  <2>4. Linked' /\ Placed' /\ Backed' /\ js'.dedup # js'.key
    BY <1>2, <2>1, <2>2 DEF Linked, Placed, Backed, Live
  <2>5. Signalled'
    <3>1. Ended' /\ e \in Pending' /\ e.kind = "advance" /\ e.row = js'.key /\ e.gen = js'.token
      BY <1>2, <1>3, <1>4, <2>1, <2>2, <2>3 DEF Linked
    <3> QED
      BY <1>2, <3>1 DEF Signalled
  <2>6. Closing'
    BY <1>2, <1>3, <1>4, <2>1, <2>2 DEF Closing, Linked
  <2>7. Seen' /\ Waiting'
    BY <1>2, <2>1, <2>2, <2>3 DEF Seen, Waiting
  <2> QED
    BY <2>4, <2>5, <2>6, <2>7
<1>8. Proved'
  <2> SUFFICES ASSUME ProofComes PROVE ProofComes'
    BY <1>1, <1>2 DEF Proved
  <2>1. PICK i \in 0..Len(events) :
          /\ IF i = 0 THEN js.proven = js.key ELSE events[i].kind = "position" /\ events[i].row = js.key
          /\ \A k \in i + 1..Len(events) : events[k].kind = "position" => events[k].row = js.key
    BY DEF ProofComes
  <2>2. i \in 0..Len(events')
    BY <1>3
  <2>3. IF i = 0 THEN js'.proven = js'.key ELSE events'[i].kind = "position" /\ events'[i].row = js'.key
    BY <1>2, <1>3, <2>1
  <2>4. ASSUME NEW k \in i + 1..Len(events'), events'[k].kind = "position" PROVE events'[k].row = js'.key
    <3>1. k # Len(events) + 1
      BY <1>3, <1>4, <2>4
    <3>2. k \in i + 1..Len(events) /\ k \in 1..Len(events)
      BY <1>3, <3>1
    <3> QED
      BY <1>2, <1>3, <2>1, <2>4, <3>2
  <2> QED
    BY <2>2, <2>3, <2>4 DEF ProofComes
<1>9. rust'.confirmed \in BOOLEAN
  BY <1>1, <1>2 DEF EngineShape
<1> QED
  BY <1>2, <1>5, <1>7, <1>8, <1>9, ToldFrame

-----------------------------------------------------------------------------
(* What the engine does *)

\* The engine goes on with the clip that it plays, or with the last frame of it.
LEMMA EngineKept ==
  ASSUME ChannelInv, UNCHANGED <<js, acts, rust, events>>, eng'.fg = eng.fg, eng'.bg = eng.bg,
         eng.phase # "empty", eng'.phase \in {"playing", "ending", "ended"},
         Rolling' <=> Rolling, Ending' <=> Ending
  PROVE  ChannelInv'
<1>1. Unfailing /\ OneAdvance /\ EngineShape /\ Vacant /\ NoneLate /\ AirInv /\ Calls /\ Editable /\ Proved
  BY DEF ChannelInv
<1>2. Unfailing' /\ OneAdvance' /\ NoneLate' /\ Vacant' /\ Proved'
  BY <1>1 DEF Unfailing, OneAdvance, NoneLate, Vacant, Proved, ProofComes, Live, Plays
<1>3. EngineShape'
  BY <1>1 DEF EngineShape
<1>4. /\ On' <=> On
      /\ Passed' <=> Passed
      /\ Ended' <=> Ended
      /\ Aired' <=> Aired
      /\ \A r : (Awaited(r)' <=> Awaited(r)) /\ (Coming(r)' <=> Coming(r)) /\ (Fresh(r)' <=> Fresh(r))
  BY DEF On, Passed, Ended, Aired, Live, Trying, Plays, Awaited, Coming, Fresh, Pending
<1>5. AirInv'
  <2> SUFFICES ASSUME Aired
               PROVE  /\ Linked' /\ Placed' /\ Backed' /\ Signalled' /\ Closing' /\ Seen' /\ Waiting'
                      /\ js'.dedup # js'.key
    BY <1>4 DEF AirInv
  <2>1. /\ Linked /\ Placed /\ Backed /\ Signalled /\ Closing /\ Seen /\ Waiting /\ js.dedup # js.key
    BY <1>1 DEF AirInv
  <2>2. Awaited(js.key)' <=> Awaited(js.key)
    BY <1>4
  <2>3. Linked' /\ Placed' /\ Backed' /\ js'.dedup # js'.key
    BY <1>4, <2>1, <2>2 DEF Linked, Placed, Backed, Live
  <2>4. Signalled' /\ Closing'
    BY <1>4, <2>1 DEF Signalled, Closing, Pending
  <2>5. Seen' /\ Waiting'
    BY <1>4, <2>1, <2>2 DEF Seen, Waiting, Fresh, Pending
  <2> QED
    BY <2>3, <2>4, <2>5
<1>6. Calls'
  <2> SUFFICES ASSUME NEW a \in acts, Live(a) PROVE CallInv(a)'
    BY DEF Calls, Live
  <2>1. CallInv(a)
    BY <1>1 DEF Calls
  <2>2. Dispatched(a)' /\ Planned(a)' /\ Sent(a)' /\ (Plays(a)' => js'.dedup # js'.key)
    BY <1>4, <2>1 DEF CallInv, Dispatched, Planned, Sent, Plays, Linked
  <2>3. (Awaited(a.row)' <=> Awaited(a.row)) /\ (Coming(a.row)' <=> Coming(a.row)) /\ (Fresh(a.row)' <=> Fresh(a.row))
    BY <1>4
  <2>4. Taking(a)' /\ Taken(a)'
    BY <2>1, <2>3 DEF CallInv, Taking, Taken
  <2>5. Loading(a)'
    BY <1>4, <2>1 DEF CallInv, Loading
  <2> QED
    BY <2>2, <2>4, <2>5 DEF CallInv
<1>7. Editable'
  BY <1>1, <1>4 DEF Editable, Live
<1> QED
  BY <1>2, <1>3, <1>5, <1>6, <1>7 DEF ChannelInv

\* The clip renders its first frame.
LEMMA FirstFrameChannel ==
  ASSUME ArmedInv, ChannelInv, FirstFrame
  PROVE  ChannelInv'
<1>1. /\ UNCHANGED <<js, acts, rust, events>> /\ eng.phase = "loading" /\ eng'.phase = "playing"
      /\ eng'.fg = eng.fg /\ eng'.bg = eng.bg
  BY DEF FirstFrame, ArmedInv, Shapes
<1>2. (Rolling' <=> Rolling) /\ (Ending' <=> Ending)
  BY <1>1 DEF Rolling, Ending
<1> QED
  BY <1>1, <1>2, EngineKept

\* No clip nears its end with a switch unseen or an advance in flight.
LEMMA NearEndChannel ==
  ASSUME Orderly, ArmedInv, ChannelInv, NearEnd
  PROVE  ChannelInv'
<1>1. Unfailing /\ OneAdvance /\ EngineShape /\ Vacant /\ NoneLate /\ AirInv /\ Calls /\ Editable /\ Proved
  BY DEF ChannelInv
<1>2. /\ UNCHANGED <<js, acts, rust, events>> /\ eng.phase = "playing" /\ eng'.phase = "ending"
      /\ eng'.fg = eng.fg /\ eng'.bg = eng.bg
      /\ ~PathNews /\ events = <<>> /\ ~js.advancing /\ (Edits # {} => acts = {})
  BY DEF NearEnd, Orderly, ArmedInv, Shapes
<1>3. Pending = {} /\ Pending' = {} /\ eng.fg # NoRow
  BY <1>1, <1>2 DEF Pending, EngineShape
<1>4. Unfailing' /\ OneAdvance' /\ NoneLate' /\ Vacant' /\ Proved' /\ EngineShape'
  BY <1>1, <1>2 DEF Unfailing, OneAdvance, NoneLate, Vacant, Proved, ProofComes, Live, Plays, EngineShape
<1>5. (On' <=> On) /\ (Aired' <=> Aired) /\ Rolling /\ ~Ending /\ Ending' /\ ~Rolling'
  BY <1>2 DEF On, Aired, Live, Trying, Plays, Rolling, Ending
<1>6. ASSUME Aired PROVE On /\ ~Passed /\ ~rust.fired /\ rust.confirmed
  <2>1. /\ Linked /\ Placed /\ Backed /\ Signalled /\ Closing /\ Seen /\ Waiting
        /\ rust.row = js.key /\ js.key # NoRow
    BY <1>1, <1>6 DEF AirInv, Linked, Aired
  <2>2. ~GateShut
    BY <1>1, <1>6, <2>1, GateOpen
  <2>3. ~rust.fired
    BY <1>3, <2>1 DEF Signalled
  <2>4. ~Passed
    <3> SUFFICES ASSUME Passed PROVE FALSE
      OBVIOUS
    <3>1. eng.fg = rust.next /\ rust.confirmed /\ eng.fg # rust.row
      BY <2>1, <2>3 DEF Seen, Closing, Ended, Passed
    <3>2. SwitchSeen
      BY <2>2, <2>3, <3>1 DEF SwitchSeen, ConfirmedByPath
    <3> QED
      BY <1>2, <1>3, <2>1, <3>2 DEF PathNews
  <2>5. On
    BY <1>5, <2>1, <2>4 DEF Placed, Awaited
  <2>6. rust.confirmed
    BY <1>1, <1>2, <1>3, <2>1, <2>5 DEF PathNews, ConfirmedByPath, On, EngineShape
  <2> QED
    BY <2>3, <2>4, <2>5, <2>6
<1>7. AirInv'
  <2> SUFFICES ASSUME Aired
               PROVE  /\ Linked' /\ Placed' /\ Backed' /\ Signalled' /\ Closing' /\ Seen' /\ Waiting'
                      /\ js'.dedup # js'.key
    BY <1>5 DEF AirInv
  <2>1. /\ Linked /\ Placed /\ Backed /\ Signalled /\ Closing /\ Seen /\ Waiting /\ js.dedup # js.key
        /\ On /\ ~Passed /\ ~rust.fired /\ rust.confirmed
    BY <1>1, <1>6 DEF AirInv
  <2>2. Linked' /\ Placed' /\ Backed' /\ js'.dedup # js'.key
    BY <1>2, <1>5, <2>1 DEF Linked, Placed, Backed, Live
  <2>3. Signalled' /\ Closing'
    BY <1>2, <1>3, <2>1 DEF Signalled, Closing
  <2>4. ~Passed' /\ ~Awaited(js.key)'
    BY <1>2, <2>1 DEF On, Passed, Awaited
  <2>5. Seen' /\ Waiting'
    BY <1>2, <2>1, <2>4 DEF Seen, Waiting
  <2> QED
    BY <2>2, <2>3, <2>5
<1>8. Calls'
  <2> SUFFICES ASSUME NEW a \in acts, Live(a) PROVE CallInv(a)'
    BY <1>2 DEF Calls, Live
  <2>1. CallInv(a) /\ Edits = {} /\ a.kind # "natural"
    BY <1>1, <1>2 DEF Calls, OneAdvance
  <2>2. Dispatched(a)' /\ Planned(a)' /\ Sent(a)' /\ (Plays(a)' => js'.dedup # js'.key)
    BY <1>2, <1>5, <2>1 DEF CallInv, Dispatched, Planned, Sent, Plays, Linked
  <2>3. Taking(a)' /\ Taken(a)'
    BY <2>1 DEF Taking, Taken
  <2>4. a.pc = "loaded" => ~Passed
    <3> SUFFICES ASSUME a.pc = "loaded" PROVE Aired
      BY <1>6
    <3>1. a.kind = "preload"
      BY DEF ArmedInv, Shapes, CallShape, Stands
    <3>2. ~Trying(a)
      BY <3>1 DEF Trying, Plays
    <3>3. js.key # NoRow
      <4>1. \A c \in acts : c.pc = "clear" => c.kind = "stop" /\ Live(c)
        BY DEF ArmedInv, Shapes, CallShape, Stands
      <4>2. \A c \in acts : c.pc # "clear"
        BY <3>1, <4>1 DEF ArmedInv
      <4> QED
        BY <1>1, <1>3, <4>2 DEF Vacant
    <3> QED
      BY <3>2, <3>3 DEF ArmedInv, Aired
  <2>5. Loading(a)'
    BY <1>2, <1>5, <2>1, <2>4 DEF CallInv, Loading
  <2> QED
    BY <2>2, <2>3, <2>5 DEF CallInv
<1>9. Editable'
  BY <1>1, <1>2, <1>5 DEF Editable, Live
<1> QED
  BY <1>4, <1>7, <1>8, <1>9 DEF ChannelInv

\* The engine cuts to its background: to the successor of the clip on air, or to the row
\* that is already claimed.
LEMMA CutChannel ==
  ASSUME Orderly, ArmedInv, ChannelInv, ClipEnds, eng.bg # NoRow
  PROVE  ChannelInv'
<1>1. Unfailing /\ OneAdvance /\ EngineShape /\ Vacant /\ NoneLate /\ AirInv /\ Calls /\ Editable /\ Proved
  BY DEF ChannelInv
<1>2. /\ UNCHANGED <<js, acts, rust, events>> /\ eng.phase \in {"ending", "ended"}
      /\ eng'.phase = "loading" /\ eng'.fg = eng.bg /\ eng'.bg = NoRow
      /\ Edits # {} => ~EndNews
  BY DEF ClipEnds, Orderly
<1>3. Ending /\ ~Rolling /\ ~Ending' /\ Rolling' /\ eng.bg \in Rows /\ eng.fg # NoRow /\ ~Passed
  BY <1>1, <1>2 DEF Ending, Rolling, EngineShape, Passed
<1>4. Unfailing' /\ OneAdvance' /\ NoneLate' /\ Proved' /\ EngineShape' /\ Vacant'
  BY <1>1, <1>2, <1>3, RowAssumption
     DEF Unfailing, OneAdvance, NoneLate, Vacant, Proved, ProofComes, Live, Plays, EngineShape
<1>5. /\ Pending' = Pending
      /\ Aired' <=> Aired
      /\ \A a \in acts : Live(a)' <=> Live(a)
      /\ \A r : ~Awaited(r)'
  BY <1>2, <1>3 DEF Aired, Live, Trying, Plays, Pending, Awaited
<1>6. ASSUME On, Backed, \A a \in acts : Live(a) => a.pc \notin {"gate", "loadbg"}
      PROVE  Passed'
  BY <1>2, <1>3, <1>6 DEF On, Backed, Passed
<1>7. ASSUME NEW a \in acts, Live(a) PROVE a.pc \notin {"gate", "loadbg", "played"} /\ ~(Plays(a) /\ a.pc = "await")
  <2>1. Sent(a) /\ Loading(a)
    BY <1>1, <1>7 DEF Calls, CallInv
  <2>2. a.pc = "played" => Plays(a)
    BY DEF ArmedInv, Shapes, CallShape, Stands, Plays
  <2> QED
    BY <1>2, <1>3, <2>1, <2>2 DEF Sent, Loading
<1>8. AirInv'
  <2> SUFFICES ASSUME Aired
               PROVE  /\ Linked' /\ Placed' /\ Backed' /\ Signalled' /\ Closing' /\ Seen' /\ Waiting'
                      /\ js'.dedup # js'.key
    BY <1>5 DEF AirInv
  <2>1. /\ Linked /\ Placed /\ Backed /\ Signalled /\ Closing /\ Seen /\ Waiting /\ js.dedup # js.key
        /\ js.key # NoRow
    BY <1>1 DEF AirInv, Aired
  <2>2. Linked' /\ js'.dedup # js'.key /\ Waiting' /\ Backed'
    BY <1>2, <1>5, <2>1 DEF Linked, Waiting, Backed
  <2>3. CASE On
    <3>1. Passed' /\ Ended' /\ Ended
      BY <1>3, <1>6, <1>7, <2>1, <2>3 DEF Ended
    <3>2. Placed' /\ Signalled' /\ Closing'
      BY <1>2, <1>5, <2>1, <3>1 DEF Placed, Signalled, Closing
    <3>3. Seen'
      <4>1. rust'.observed = NoRow
        BY <1>2, <1>3, <2>1 DEF Seen
      <4>2. ASSUME ~rust.fired PROVE eng'.fg = rust.next
        <5>1. Edits = {}
          <6> SUFFICES ASSUME Edits # {} PROVE EndNews
            BY <1>2
          <6>1. ~GateShut /\ rust.row = js.key /\ rust.confirmed /\ eng.fg = js.key
            BY <1>1, <2>1, <2>3, <3>1, GateOpen DEF Linked, Closing, On
          <6>2. Overlong = {}
            BY DEF Orderly
          <6> QED
            BY <1>2, <2>1, <4>2, <6>1, <6>2 DEF EndNews
        <5> QED
          BY <1>2, <2>1, <3>1, <4>2, <5>1 DEF Seen, Passed
      <4> QED
        BY <1>2, <2>1, <3>1, <4>1, <4>2 DEF Seen
    <3> QED
      BY <2>2, <3>2, <3>3
  <2>4. CASE ~On
    <3>1. Awaited(js.key) /\ eng.bg = js.key
      BY <1>3, <2>1, <2>4 DEF Placed, Awaited
    <3>2. On' /\ ~Passed' /\ ~Ended' /\ ~Ended
      BY <1>2, <1>3, <2>1, <2>4, <3>1 DEF On, Passed, Ended
    <3>3. Placed' /\ Signalled' /\ Closing' /\ Seen'
      BY <1>2, <1>3, <1>5, <2>1, <3>2 DEF Placed, Signalled, Closing, Seen
    <3> QED
      BY <2>2, <3>3
  <2> QED
    BY <2>3, <2>4
<1>9. Calls'
  <2> SUFFICES ASSUME NEW a \in acts, Live(a) PROVE CallInv(a)'
    BY <1>2, <1>5 DEF Calls
  <2>1. CallInv(a) /\ a.pc \notin {"gate", "loadbg", "played"} /\ ~(Plays(a) /\ a.pc = "await")
    BY <1>1, <1>7 DEF Calls
  <2>2. Dispatched(a)' /\ Planned(a)' /\ Sent(a)' /\ (Plays(a)' => js'.dedup # js'.key)
    BY <1>2, <2>1 DEF CallInv, Dispatched, Planned, Sent, Plays, Linked
  <2>3. Coming(a.row) => Coming(a.row)' /\ eng'.fg = a.row
    BY <1>2, <1>3 DEF Coming, Awaited
  <2>4. Taking(a)' /\ Taken(a)'
    BY <1>2, <1>5, <2>1, <2>3 DEF CallInv, Taking, Taken
  <2>5. Loading(a)'
    <3>1. a.pc = "loaded" => Passed' /\ eng'.fg = a.row
      <4> SUFFICES ASSUME a.pc = "loaded" PROVE Passed' /\ eng'.fg = a.row
        OBVIOUS
      <4>1. On /\ eng.bg = a.row
        BY <1>3, <2>1 DEF CallInv, Loading
      <4>2. a.kind = "preload"
        BY DEF ArmedInv, Shapes, CallShape, Stands
      <4>3. a.row = Successor(js.queue, js.key)
        BY <4>2 DEF ArmedInv, AtItsPlace
      <4> QED
        BY <1>2, <1>3, <4>1, <4>3 DEF On, Passed
    <3> QED
      BY <1>2, <2>1, <3>1 DEF CallInv, Loading
  <2> QED
    BY <2>2, <2>4, <2>5 DEF CallInv
<1>10. Editable'
  <2>1. Aired /\ Ended' => Ended
    <3> SUFFICES ASSUME Aired, Ended' PROVE Ended
      OBVIOUS
    <3>1. Passed'
      BY <1>3 DEF Ended
    <3>2. On
      BY <1>1, <1>2, <1>3, <3>1 DEF AirInv, Placed, Passed, Awaited
    <3> QED
      BY <1>3, <3>2 DEF Ended
  <2> QED
    BY <1>1, <1>2, <1>5, <2>1 DEF Editable
<1> QED
  BY <1>4, <1>8, <1>9, <1>10 DEF ChannelInv

\* The clip ends: the last frame stays, or the engine cuts.
LEMMA ClipEndsChannel ==
  ASSUME Orderly, ArmedInv, ChannelInv, ClipEnds
  PROVE  ChannelInv'
<1>1. CASE eng.bg = NoRow
  <2>1. /\ UNCHANGED <<js, acts, rust, events>> /\ eng.phase = "ending" /\ eng'.phase = "ended"
        /\ eng'.fg = eng.fg /\ eng'.bg = eng.bg
    BY <1>1 DEF ClipEnds, ArmedInv, Shapes
  <2>2. (Rolling' <=> Rolling) /\ (Ending' <=> Ending)
    BY <2>1 DEF Rolling, Ending
  <2> QED
    BY <2>1, <2>2, EngineKept
<1> QED
  BY <1>1, CutChannel

-----------------------------------------------------------------------------
\* The dedup window ends.
LEMMA DedupChannel ==
  ASSUME ArmedInv, ChannelInv, DedupWindowEnds
  PROVE  ChannelInv'
<1>1. Unfailing /\ OneAdvance /\ EngineShape /\ Vacant /\ NoneLate /\ AirInv /\ Calls /\ Editable /\ Proved
  BY DEF ChannelInv
<1>2. /\ SameClaim /\ UNCHANGED <<acts, rust, events, eng>> /\ js'.dedup = NoRow
      /\ js'.advancing = js.advancing /\ js'.proven = js.proven /\ js'.loading = js.loading
      /\ js'.playing = js.playing
  BY DEF DedupWindowEnds, SameClaim, ArmedInv, Shapes, JsShape, JsNames
<1>3. /\ js'.token = js.token /\ js'.key = js.key /\ js'.queue = js.queue /\ js'.epoch = js.epoch
      /\ js'.flagged = js.flagged
  BY <1>2 DEF SameClaim
<1>4. (Aired' <=> Aired) /\ Pending' = Pending
  BY <1>2, <1>3 DEF Aired, Live, Trying, Plays, Pending
<1>5. AirInv'
  BY <1>1, <1>2, <1>3, <1>4, AirKept DEF Live
<1>6. Unfailing' /\ OneAdvance' /\ NoneLate' /\ Vacant' /\ EngineShape'
  BY <1>1, <1>2, <1>3 DEF Unfailing, OneAdvance, NoneLate, Vacant, EngineShape, Live, Plays
<1>7. Proved'
  BY <1>1, <1>2, <1>3, ProofKept
<1>8. Calls'
  <2> SUFFICES ASSUME NEW a \in acts, Live(a) PROVE CallInv(a)'
    BY <1>2, <1>3 DEF Calls, Live
  <2>1. CallInv(a)
    BY <1>1 DEF Calls
  <2>2. /\ On' <=> On
        /\ Passed' <=> Passed
        /\ Coming(a.row)' <=> Coming(a.row)
        /\ Awaited(a.row)' <=> Awaited(a.row)
        /\ Fresh(a.row)' <=> Fresh(a.row)
    BY <1>2, <1>3, <1>4 DEF On, Passed, Coming, Awaited, Fresh, Rolling, Ending
  <2>3. Dispatched(a)' /\ Planned(a)' /\ Sent(a)'
    BY <1>2, <1>3, <2>1, <2>2 DEF CallInv, Dispatched, Planned, Sent, Plays, Linked
  <2>4. Plays(a)' => js'.dedup # js'.key
    <3> SUFFICES ASSUME Plays(a) PROVE js.key # NoRow
      BY <1>2, <1>3 DEF Plays
    <3>1. a.row \in Rows
      BY DEF Plays, ArmedInv, Shapes, CallShape
    <3>2. a.row = js.key
      BY DEF ArmedInv, AtItsPlace
    <3> QED
      BY <3>1, <3>2, RowAssumption
  <2>5. Taking(a)'
    <3> SUFFICES ASSUME a.kind = "natural" PROVE Taking(a)'
      BY DEF Taking
    <3>1. a.row \in Rows /\ a.row # NoRow
      BY RowAssumption DEF ArmedInv, Shapes, CallShape
    <3> QED
      BY <1>2, <2>1, <2>2, <3>1 DEF CallInv, Taking
  <2>6. Taken(a)' /\ Loading(a)'
    BY <1>2, <1>3, <2>1, <2>2 DEF CallInv, Taken, Loading, Rolling
  <2> QED
    BY <2>3, <2>4, <2>5, <2>6 DEF CallInv
<1>9. Editable'
  <2>1. Ended' <=> Ended
    BY <1>2, <1>3, SMTT(60) DEF Ended, On, Passed, Rolling, Ending
  <2> QED
    BY <1>1, <1>2, <1>3, <1>4, <2>1 DEF Editable, Live
<1> QED
  BY <1>5, <1>6, <1>7, <1>8, <1>9 DEF ChannelInv

\* Nothing happens.
LEMMA IdleChannel ==
  ASSUME ChannelInv, UNCHANGED vars
  PROVE  ChannelInv'
BY DEF vars, ChannelInv, Unfailing, OneAdvance, EngineShape, Vacant, NoneLate, AirInv, Calls, Editable, Proved,
       Aired, Live, Trying, Plays, Linked, Placed, Backed, Signalled, Closing, Seen, Waiting, CallInv,
       Dispatched, Planned, Sent, Taking, Taken, Loading, On, Passed, Coming, Awaited, Fresh, Ended, Rolling,
       Ending, ProofComes, Pending

-----------------------------------------------------------------------------
(* An edit of the rundown *)

\* An edit leaves the clip on air as it is, and behind it what comes next, or a preload that
\* is going to replace it.
LEMMA EditChannel ==
  ASSUME Orderly, ArmedInv, ArmedInv', ChannelInv, NEW q \in Edits, Edit(q)
  PROVE  ChannelInv'
<1>1. Unfailing /\ OneAdvance /\ EngineShape /\ Vacant /\ NoneLate /\ AirInv /\ Calls /\ Editable /\ Proved
  BY DEF ChannelInv
<1> DEFINE Kept == acts' = {} /\ js'.epoch = js.epoch /\ (js'.queue = js.queue \/ Successor(js'.queue, js.key) \in js.armed)
           Dropped == /\ acts' = {} /\ js'.epoch = js.epoch + 1
                      /\ ~js.playing \/ js.key = NoRow \/ Successor(js'.queue, js.key) = NoRow
           Gated == /\ js'.epoch = js.epoch + 1 /\ Successor(js'.queue, js.key) # NoRow
                    /\ \E b : /\ acts' = {b} /\ b.pc = "gate" /\ b.kind = "preload" /\ b.token = js.token
                              /\ b.behind = js.key /\ b.epoch = js.epoch + 1 /\ b.advance = FALSE
<1>2. /\ acts = {} /\ UNCHANGED <<rust, events, eng, aired>>
      /\ js.playing => eng.fg = js.key /\ Rolling
      /\ eng.bg = NoRow \/ Successor(js'.queue, js.key) # NoRow
      /\ js'.token = js.token /\ js'.key = js.key
      /\ js'.proven = js.proven /\ js'.playing = js.playing /\ js'.dedup = js.dedup /\ js'.flagged = js.flagged
      /\ js'.loading = js.loading /\ js'.advancing = js.advancing
      /\ Kept \/ Dropped \/ Gated
  <2>1. js.flagged = {} /\ "busy" \notin Windows /\ "last" \notin Windows /\ "crossing" \notin Windows /\ Shapes
    BY <1>1 DEF Unfailing, Orderly, ArmedInv
  <2>2. /\ acts = {} /\ UNCHANGED <<rust, events, eng, aired>>
        /\ js.playing => eng.fg = js.key /\ Rolling
        /\ eng.bg = NoRow \/ Successor(q, js.key) # NoRow
        /\ Same5(js, js')
    BY <2>1, EditStep
  <2>3. \/ acts' = {} /\ Agree(js, js')
        \/ /\ acts' = {} /\ Is(js', js.token, js.key, js.guard, q, js.coordGen, js.epoch + 1, {})
           /\ ~js.playing \/ js.key = NoRow \/ Successor(q, js.key) = NoRow
        \/ /\ acts' = {} /\ Is(js', js.token, js.key, js.guard, q, js.coordGen, js.epoch, js.armed)
           /\ Successor(q, js.key) \in js.armed
        \/ /\ Is(js', js.token, js.key, js.guard, q, js.coordGen, js.epoch + 1, {})
           /\ Successor(q, js.key) # NoRow
           /\ \E b : /\ acts' = {b} /\ Plain(b) /\ Call(b, "gate", "preload", Successor(q, js.key), 0, js.token)
                     /\ b.behind = js.key /\ b.epoch = js.epoch + 1 /\ b.advance = FALSE
    BY <2>1, EditStep
  <2>4. js'.token = js.token /\ js'.key = js.key /\ (js'.queue = js.queue \/ js'.queue = q)
    BY <2>3 DEF Agree, Is
  <2>5. Kept \/ Dropped \/ Gated
    BY <2>3 DEF Agree, Is, Call
  <2>6. eng.bg = NoRow \/ Successor(js'.queue, js.key) # NoRow
    <3>1. CASE js'.queue = q
      BY <2>2, <3>1
    <3>2. CASE js'.queue = js.queue
      <4> SUFFICES ASSUME eng.bg # NoRow, js'.queue # q PROVE Successor(js.queue, js.key) # NoRow
        BY <3>1, <3>2, <2>2
      <4>0. js.key # NoRow
        BY <1>1, <2>2 DEF Vacant
      <4>1. Aired
        BY <2>2, <4>0 DEF Aired
      <4>2. js.playing /\ Placed /\ Backed
        BY <1>1, <2>2, <4>1 DEF Editable, AirInv
      <4>3. On
        BY <2>2, <4>2 DEF Placed, Passed, Awaited, Rolling, Ending
      <4> QED
        BY <2>2, <4>2, <4>3 DEF Backed
    <3> QED
      BY <2>4, <3>1, <3>2
  <2> QED
    BY <2>2, <2>4, <2>5, <2>6 DEF Same5
<1> HIDE DEF Kept, Dropped, Gated
<1>3. ASSUME js.key # NoRow
      PROVE  Aired /\ On /\ On' /\ Rolling /\ Rolling' /\ js.playing
  <2>1. Aired
    BY <1>2, <1>3 DEF Aired
  <2>2. js.playing
    BY <1>1, <1>2, <2>1 DEF Editable
  <2>3. On
    BY <1>1, <1>2, <2>1, <2>2 DEF AirInv, Placed, Passed, Awaited, Rolling, Ending
  <2> QED
    BY <1>2, <2>1, <2>2, <2>3 DEF On, Rolling
<1>4. \A c \in acts' : Gated /\ Live(c)' /\ c.kind = "preload" /\ c.pc = "gate" /\ ~c.advance
  BY <1>2 DEF Kept, Dropped, Gated, Live
<1>5. Unfailing' /\ OneAdvance' /\ EngineShape' /\ NoneLate' /\ Vacant'
  BY <1>1, <1>2, <1>4 DEF Unfailing, OneAdvance, EngineShape, NoneLate, Vacant, Plays
<1>6. Proved'
  BY <1>1, <1>2, ProofKept
<1>7. js'.key # NoRow => ~Ended' /\ ~Passed' /\ ~Awaited(js.key)' /\ ~Ended /\ ~Passed
  BY <1>2, <1>3 DEF On, Ended, Passed, Awaited, Rolling, Ending
<1>8. AirInv'
  <2> SUFFICES ASSUME Aired'
               PROVE  /\ Linked' /\ Placed' /\ Backed' /\ Signalled' /\ Closing' /\ Seen' /\ Waiting'
                      /\ js'.dedup # js'.key
    BY DEF AirInv
  <2>1. js'.key # NoRow /\ js.key # NoRow
    BY <1>2 DEF Aired
  <2>2. /\ Linked /\ Placed /\ Backed /\ Signalled /\ Closing /\ Seen /\ Waiting /\ js.dedup # js.key
        /\ On /\ On' /\ js.playing /\ ~Ended' /\ ~Passed' /\ ~Awaited(js.key)' /\ ~Ended /\ ~Passed
    BY <1>1, <1>3, <1>7, <2>1 DEF AirInv
  <2>3. Linked' /\ Placed' /\ js'.dedup # js'.key /\ Closing' /\ Waiting'
    BY <1>2, <2>2 DEF Linked, Placed, Closing, Waiting
  <2>4. Signalled'
    BY <1>2, <2>2 DEF Signalled, Pending
  <2>5. Seen'
    BY <1>2, <2>2 DEF Seen
  <2>6. Backed'
    <3>1. CASE Kept
      <4>1. eng.bg \in {NoRow, Successor(js.queue, js.key)}
        BY <1>2, <2>2 DEF Backed
      <4>2. CASE js'.queue = js.queue
        BY <1>2, <4>1, <4>2 DEF Backed
      <4>3. CASE Successor(js'.queue, js.key) \in js.armed
        <5>1. Successor(js'.queue, js.key) = Successor(js.queue, js.key)
          BY <4>3 DEF ArmedInv
        <5> QED
          BY <1>2, <4>1, <5>1 DEF Backed
      <4> QED
        BY <3>1, <4>2, <4>3 DEF Kept
    <3>2. CASE Dropped
      BY <1>2, <2>1, <2>2, <3>2 DEF Dropped, Backed
    <3>3. CASE Gated
      <4>1. \E c \in acts' : Live(c)' /\ c.pc = "gate"
        BY <1>4, <3>3 DEF Gated
      <4> QED
        BY <4>1 DEF Backed
    <3> QED
      BY <1>2, <3>1, <3>2, <3>3
  <2> QED
    BY <2>3, <2>4, <2>5, <2>6
<1>9. js'.loading.epoch \in Nat /\ js'.loading.epoch <= js.epoch /\ js.epoch \in Nat
  BY <1>1, <1>2 DEF Editable, ArmedInv, Shapes, JsShape
<1>10. Calls'
  <2> SUFFICES ASSUME NEW c \in acts', Live(c)' PROVE CallInv(c)'
    BY DEF Calls
  <2>1. /\ js'.epoch = js.epoch + 1 /\ Successor(js'.queue, js.key) # NoRow
        /\ c.pc = "gate" /\ c.kind = "preload" /\ c.behind = js.key /\ c.epoch = js.epoch + 1
    BY <1>4 DEF Gated
  <2>2. js.key # NoRow
    <3>1. js'.queue \in Seq(Rows) /\ IsInjective(js'.queue)
      BY DEF ArmedInv, Shapes, JsShape
    <3>2. IndexIn(js'.queue, js.key) \in DOMAIN js'.queue /\ js'.queue[IndexIn(js'.queue, js.key)] = js.key
      BY <2>1, <3>1, Places
    <3> QED
      BY <3>1, <3>2, RowAssumption
  <2>3. On' /\ Rolling'
    BY <1>3, <2>2
  <2>4. Loading(c)'
    BY <1>2, <1>9, <2>1, <2>3 DEF Loading
  <2>5. Dispatched(c)' /\ Planned(c)' /\ Sent(c)' /\ Taking(c)' /\ Taken(c)' /\ ~Plays(c)'
    BY <2>1 DEF Dispatched, Planned, Sent, Taking, Taken, Plays
  <2> QED
    BY <2>4, <2>5 DEF CallInv
<1>11. Editable'
  <2>1. js'.loading.epoch <= js'.epoch
    BY <1>2, <1>9 DEF Kept, Dropped, Gated
  <2>2. Aired' => ~Ended' /\ js'.playing
    BY <1>2, <1>3, <1>7 DEF Aired
  <2> QED
    BY <1>4, <1>9, <2>1, <2>2 DEF Editable
<1> QED
  BY <1>5, <1>6, <1>8, <1>10, <1>11 DEF ChannelInv

-----------------------------------------------------------------------------
\* Every step keeps the frontend, Rust and the engine in step.
LEMMA NextChannel ==
  ASSUME Orderly, ArmedInv, ArmedInv', ChannelInv, [Next]_vars
  PROVE  ChannelInv'
<1>1. Failing = {} /\ "late" \notin Windows /\ Shapes
  BY DEF Orderly, ArmedInv
<1>2. CASE Operator
  <2>1. ASSUME NEW r \in Rows, Take(r) \/ Play(r) PROVE ChannelInv'
    BY <1>1, <2>1, TakeAsks, TakeIs, PlayAsks, PlayIs, RequestChannel
  <2>2. CASE Stop
    BY <1>1, <2>2, StopHalts, StopIs, HaltChannel
  <2>3. ASSUME NEW q \in Edits, Edit(q) PROVE ChannelInv'
    BY <2>3, EditChannel
  <2> QED
    BY <1>2, <2>1, <2>2, <2>3, Zenon DEF Operator
<1>3. CASE Activation
  BY <1>1, <1>3, ActivationChannel
<1>4. CASE Deliver \/ EndGuard \/ DedupWindowEnds
  BY <1>4, DeliverChannel, EndGuardChannel, DedupChannel
<1>5. CASE Rust
  BY <1>5, PathChannel, PositionChannel, EndChannel DEF Rust
<1>6. CASE Engine
  BY <1>6, FirstFrameChannel, NearEndChannel, ClipEndsChannel DEF Engine
<1>7. CASE Idle \/ UNCHANGED vars
  BY <1>7, IdleChannel DEF Idle
<1> QED
  BY <1>2, <1>3, <1>4, <1>5, <1>6, <1>7 DEF Next

\* At the start the layer is empty and nothing is registered.
LEMMA InitChannel == Init => ChannelInv
<1> SUFFICES ASSUME Init PROVE ChannelInv
  OBVIOUS
<1>1. /\ acts = {} /\ js.key = NoRow /\ js.flagged = {} /\ js.loading = NotLoading /\ js.epoch = 0
      /\ rust.row = NoRow /\ rust.position = FALSE /\ rust.confirmed = TRUE
      /\ eng.fg = NoRow /\ eng.bg = NoRow /\ eng.phase = "empty"
  BY DEF Init
<1>2. Unfailing /\ OneAdvance /\ EngineShape /\ Vacant /\ NoneLate /\ Calls
  BY <1>1 DEF Unfailing, OneAdvance, EngineShape, Vacant, NoneLate, Calls
<1>3. AirInv /\ Editable /\ Proved
  BY <1>1 DEF AirInv, Aired, Editable, Proved, NotLoading
<1> QED
  BY <1>2, <1>3 DEF ChannelInv

\* Frontend, Rust and engine stay in step.
LEMMA ChannelAlways == ASSUME Orderly PROVE Spec => [](ArmedInv /\ ChannelInv)
<1>1. Init => ArmedInv /\ ChannelInv
  BY InitArmed, InitChannel
<1>2. ArmedInv /\ ChannelInv /\ [Next]_vars => (ArmedInv /\ ChannelInv)'
  <2> SUFFICES ASSUME ArmedInv, ChannelInv, [Next]_vars PROVE ArmedInv' /\ ChannelInv'
    OBVIOUS
  <2>1. ArmedInv'
    BY NextArmed DEF Orderly
  <2> QED
    BY <2>1, NextChannel
<1> QED
  BY <1>1, <1>2, PTL DEF Spec

\* When all has settled the clip on air is the one claimed, and Rust has it registered.
LEMMA SettledOn ==
  ASSUME ArmedInv, ChannelInv, Settled, eng.fg # NoRow
  PROVE  On /\ Backed /\ rust.row = js.key
<1>1. Vacant /\ AirInv /\ EngineShape
  BY DEF ChannelInv
<1>2. acts = {} /\ Pending = {} /\ ~PathNews /\ eng.phase \in {"empty", "playing"}
  BY DEF Settled, Pending
<1>3. Aired /\ js.key # NoRow
  BY <1>1, <1>2 DEF Vacant, Aired
<1>4. Placed /\ Backed /\ Signalled /\ Closing /\ Seen /\ rust.row = js.key /\ ~GateShut
  BY <1>1, <1>2, <1>3 DEF AirInv, Linked, GateShut
<1>5. ~Passed
  <2> SUFFICES ASSUME Passed PROVE FALSE
    OBVIOUS
  <2>1. ~rust.fired /\ eng.fg = rust.next /\ rust.confirmed /\ eng.fg # rust.row
    BY <1>2, <1>4 DEF Signalled, Seen, Closing, Ended, Passed
  <2> QED
    BY <1>2, <1>3, <1>4, <2>1 DEF PathNews, SwitchSeen, ConfirmedByPath
<1>6. ~Awaited(js.key)
  BY <1>2 DEF Awaited, Ending
<1> QED
  BY <1>4, <1>5, <1>6 DEF Placed

\* When all has settled the frontend, Rust and the engine agree on the clip on air, however
\* the calls, the events and the cuts of the engine interleaved before.
THEOREM ChannelAgrees == ASSUME Orderly PROVE Spec => []AllAgreeOnAir
<1>1. ArmedInv /\ ChannelInv => AllAgreeOnAir
  <2> SUFFICES ASSUME ArmedInv, ChannelInv, Settled, eng.fg # NoRow PROVE rust.row = js.key /\ eng.fg = js.key
    BY DEF AllAgreeOnAir
  <2> QED
    BY SettledOn DEF On
<1> QED
  BY <1>1, ChannelAlways, PTL

\* When all has settled the background of the engine is the row that comes next, whatever
\* edits the rundown went through.
THEOREM SuccessorIsLoaded == ASSUME Orderly PROVE Spec => []BackgroundIsSuccessor
<1>1. ArmedInv /\ ChannelInv => BackgroundIsSuccessor
  <2> SUFFICES ASSUME ArmedInv, ChannelInv, Settled, eng.bg # NoRow PROVE eng.bg = Successor(js.queue, js.key)
    BY DEF BackgroundIsSuccessor
  <2>1. acts = {}
    BY DEF Settled
  <2>2. CASE eng.fg # NoRow
    BY <2>1, <2>2, SettledOn DEF Backed
  <2>3. CASE eng.fg = NoRow
    <3>1. js.key # NoRow
      BY <2>1 DEF ChannelInv, Vacant
    <3>2. Aired /\ Placed
      BY <2>1, <3>1 DEF ChannelInv, AirInv, Aired
    <3> QED
      BY <2>3, <3>1, <3>2 DEF Placed, On, Passed, Awaited, Ending, Settled
  <2> QED
    BY <2>2, <2>3
<1> QED
  BY <1>1, ChannelAlways, PTL

-----------------------------------------------------------------------------
(* What has rendered a frame *)

\* Every proof of a first frame is of a row that has rendered one, and a LOADBG is sent on
\* such a proof.
Framed ==
  /\ eng.phase \notin {"empty", "loading"} => eng.fg \in aired
  /\ \A e \in Pending : e.kind = "position" => e.row \in aired
  /\ js.proven \in aired \cup {NoRow}
  /\ \A a \in acts : a.proof => a.row \in aired
  /\ \A a \in acts : Live(a) /\ a.pc = "loadbg" => js.key \in aired

\* A step in which nothing renders.
LEMMA FramedStep ==
  ASSUME Framed, aired' = aired, js'.proven \in {js.proven, NoRow},
         (eng'.fg = eng.fg /\ eng'.phase = eng.phase) \/ eng'.phase \in {"empty", "loading"},
         \A e \in Pending' : e.kind = "position" => e \in Pending,
         \A b \in acts' : b.proof => \E c \in acts : c.proof /\ c.row = b.row,
         \A b \in acts' : Live(b)' /\ b.pc = "loadbg" => js'.key \in aired
  PROVE  Framed'
BY DEF Framed
\* The live call goes on, or ends.
LEMMA FramedTurn ==
  ASSUME ArmedInv, Framed, NEW a \in acts, Live(a), NEW b, Turns(a, b), js'.token = js.token,
         b.proof => a.proof /\ b.row = a.row, b.pc = "loadbg" => js'.key \in aired,
         aired' = aired, js'.proven \in {js.proven, NoRow},
         (eng'.fg = eng.fg /\ eng'.phase = eng.phase) \/ eng'.phase \in {"empty", "loading"},
         \A e \in Pending' : e.kind = "position" => e \in Pending
  PROVE  Framed'
<1>1. \A c \in acts' : c = b \/ (c \in acts /\ ~Live(c)')
  BY DEF Turns, ArmedInv, Live
<1>2. \A c \in acts' : c.proof => \E d \in acts : d.proof /\ d.row = c.row
  BY <1>1
<1>3. \A c \in acts' : Live(c)' /\ c.pc = "loadbg" => js'.key \in aired
  BY <1>1
<1> QED
  BY <1>2, <1>3, FramedStep
\* Calls end, and nothing else happens.
LEMMA FramedLeave ==
  ASSUME Framed, acts' \subseteq acts, js'.token = js.token, js'.key = js.key,
         aired' = aired, js'.proven = js.proven, UNCHANGED <<events, eng>>
  PROVE  Framed'
<1>1. Pending' = Pending
  BY DEF Pending
<1>2. \A b \in acts' : Live(b)' /\ b.pc = "loadbg" => js'.key \in aired
  BY DEF Framed, Live
<1> QED
  BY <1>1, <1>2, FramedStep
\* The live call goes on as itself.
LEMMA FramedOnward ==
  ASSUME ArmedInv, Framed, NEW a \in acts, Live(a), NEW pc, NEW next, \E b : Turns(a, b) /\ Onward(a, b, pc, next),
         pc # "loadbg", js'.token = js.token, aired' = aired, js'.proven \in {js.proven, NoRow},
         (eng'.fg = eng.fg /\ eng'.phase = eng.phase) \/ eng'.phase \in {"empty", "loading"},
         \A e \in Pending' : e.kind = "position" => e \in Pending
  PROVE  Framed'
<1>1. PICK b : Turns(a, b) /\ Onward(a, b, pc, next)
  OBVIOUS
<1> QED
  BY <1>1, FramedTurn DEF Onward

\* A registration tells of a path at most.
LEMMA RegisterTells ==
  ASSUME Shapes, NEW r \in Rows, NEW g \in Nat, NEW n, Register(r, g, n)
  PROVE  \A e \in Pending' : e.kind = "position" => e \in Pending
<1> DEFINE e == [kind |-> "foreground", row |-> r, gen |-> g]
<1>1. e \in Notice /\ events \in Seq(Notice)
  BY DEF Notice, Shapes
<1>2. Emit(<<e>>) \/ Emit(<<>>)
  BY DEF Register
<1>3. e.kind # "position"
  OBVIOUS
<1> HIDE DEF e
<1>4. CASE Emit(<<e>>)
  BY <1>1, <1>3, <1>4, Emitting
<1>5. CASE Emit(<<>>)
  BY <1>1, <1>5, EmittingNothing DEF Pending
<1> QED
  BY <1>2, <1>4, <1>5

\* A call that may load what comes next knows that the clip claimed has rendered.
LEMMA ArmKnows ==
  ASSUME ArmedInv, ChannelInv, Framed, "slow" \notin Windows, NEW a \in acts, Live(a),
         a.pc = "await", a.kind \in {"take", "item", "natural"},
         a.kind = "natural" => SafeToArm(a),
         a.kind # "natural" => (IF a.kind = "take" THEN js.proven = a.row ELSE a.proof) \/ TimedOut(a)
  PROVE  js.key \in aired
<1>1. a.row = js.key /\ a.row \in Rows /\ js.key # NoRow
  BY RowAssumption DEF ArmedInv, AtItsPlace, Plays, Shapes, CallShape
<1>2. EngineShape /\ Sent(a) /\ Taken(a)
  BY DEF ChannelInv, Calls, CallInv
<1>3. a.proof \/ js.proven = a.row => js.key \in aired
  BY <1>1 DEF Framed
<1>4. eng.fg = js.key /\ TimedOut(a) => js.key \in aired
  <2> SUFFICES ASSUME eng.fg = js.key, TimedOut(a) PROVE js.key \in aired
    OBVIOUS
  <2>1. eng.phase \notin {"empty", "loading"}
    BY <1>1, <1>2 DEF TimedOut, EngineShape
  <2> QED
    BY <2>1 DEF Framed
<1>5. CASE a.kind = "natural"
  <2>1. a.proof \/ (a.fg /\ TimedOut(a))
    BY <1>5 DEF SafeToArm
  <2>2. a.fg => eng.fg = js.key
    BY <1>1, <1>2, <1>5 DEF Taken, Coming
  <2> QED
    BY <1>3, <1>4, <2>1, <2>2
<1>6. CASE a.kind # "natural"
  <2>1. eng.fg = js.key
    BY <1>2, <1>6 DEF Sent, Plays, On
  <2> QED
    BY <1>3, <1>4, <1>6, <2>1
<1> QED
  BY <1>5, <1>6

\* A step of a call in flight.
LEMMA ActivationFramed ==
  ASSUME Orderly, "slow" \notin Windows, ArmedInv, ChannelInv, Framed, Activation
  PROVE  Framed'
<1>1. PICK a \in acts :
        \/ ResolveItem(a) \/ Dispatch(a) \/ SendPlay(a) \/ Played(a) \/ Retries(a) \/ Fails(a)
        \/ SkipTimer(a)
        \/ ArmNext(a)
        \/ ClaimNext(a) \/ RegisterNext(a) \/ NaturalFails(a) \/ NextRegistered(a)
        \/ ArmAfterNatural(a)
        \/ GatePreload(a) \/ SendLoadbg(a) \/ Loaded(a)
        \/ StopClear(a) \/ StopRelease(a)
  BY Zenon DEF Activation
<1>2. Failing = {} /\ Shapes /\ a.kind # "skip"
  BY DEF Orderly, ArmedInv, ChannelInv, Unfailing
<1>3. CASE ~Live(a)
  <2>1. a.kind # "stop"
    BY <1>3 DEF ArmedInv
  <2>2. Leaves(a) /\ UNCHANGED <<events, eng, aired>>
    BY <1>1, <1>2, <1>3, <2>1, FadeStep
  <2> QED
    BY <2>2, FramedLeave DEF Leaves, Agree, Is, Keeps
<1>4. ASSUME Live(a), Leaves(a), UNCHANGED <<events, eng, aired>> PROVE Framed'
  BY <1>4, FramedLeave DEF Leaves, Agree, Is, Keeps
<1>5. ASSUME NEW r, Live(a), StartsLoading(a, r), UNCHANGED <<events, eng, aired>>, js.key \in aired PROVE Framed'
  <2>1. PICK b : Turns(a, b) /\ b.proof = FALSE
    BY <1>5 DEF StartsLoading
  <2>2. js'.token = js.token /\ js'.key = js.key /\ js'.proven = js.proven /\ Pending' = Pending
    BY <1>5 DEF StartsLoading, Agree, Is, Pending
  <2> QED
    BY <1>5, <2>1, <2>2, FramedTurn
<1>6. ASSUME Live(a), ResolveItem(a) \/ SendPlay(a) \/ Played(a) \/ ClaimNext(a) \/ NextRegistered(a) \/ StopClear(a)
      PROVE  Framed'
  <2>1. \E pc, next : pc # "loadbg" /\ \E b : Turns(a, b) /\ Onward(a, b, pc, next)
    BY <1>2, <1>6, ResolveStep, SendStep, PlayedStep, ClaimStep, NextRegisteredStep, ClearStep
  <2>2. events' = events /\ aired' = aired /\ js'.token = js.token /\ js'.proven \in {js.proven, NoRow}
    <3>1. CASE ResolveItem(a) \/ NextRegistered(a) \/ ClaimNext(a) \/ Played(a)
      BY <1>2, <1>6, <3>1, ResolveStep, ClaimStep, PlayedStep, NextRegisteredStep DEF Is, Keeps
    <3>2. CASE SendPlay(a) \/ StopClear(a)
      BY <1>2, <1>6, <3>2, SendStep, ClearStep
    <3> QED
      BY <1>6, <3>1, <3>2
  <2>3. (eng'.fg = eng.fg /\ eng'.phase = eng.phase) \/ eng'.phase \in {"empty", "loading"}
    <3>1. CASE SendPlay(a) \/ StopClear(a)
      BY <1>2, <1>6, <3>1, SendStep, ClearStep DEF PLAY, CLEAR
    <3>2. CASE ~(SendPlay(a) \/ StopClear(a))
      BY <1>2, <1>6, <3>2, ResolveStep, ClaimStep, PlayedStep, NextRegisteredStep
    <3> QED
      BY <3>1, <3>2
  <2>4. Pending' = Pending
    BY <2>2 DEF Pending
  <2> QED
    BY <1>6, <2>1, <2>2, <2>3, <2>4, FramedOnward
<1>7. ASSUME Live(a), Dispatch(a) \/ RegisterNext(a) PROVE Framed'
  <2>1. /\ js' = js /\ UNCHANGED <<eng, aired>> /\ Register(a.row, a.token, a.next)
        /\ \E b : Turns(a, b) /\ Onward(a, b, "registered", a.next)
        /\ a.kind \in {"take", "item", "natural"}
    BY <1>2, <1>7, RegisterStep
  <2>2. a.row \in Rows /\ a.token \in Nat
    BY <1>2, <2>1 DEF Shapes, CallShape
  <2>3. \A e \in Pending' : e.kind = "position" => e \in Pending
    BY <1>2, <2>1, <2>2, RegisterTells
  <2> QED
    BY <1>7, <2>1, <2>3, FramedOnward
<1>8. ASSUME Live(a), ArmNext(a) \/ ArmAfterNatural(a) PROVE Framed'
  <2>1. /\ a.pc = "await" /\ a.kind \in {"take", "item", "natural"} /\ UNCHANGED <<rust, events, eng, aired>>
        /\ \/ Leaves(a)
           \/ /\ StartsLoading(a, RowAt(js.queue, a.idx + 1))
              /\ a.kind = "natural" => SafeToArm(a)
              /\ a.kind # "natural" => (IF a.kind = "take" THEN js.proven = a.row ELSE a.proof) \/ TimedOut(a)
    BY <1>2, <1>8, ArmStep
  <2> QED
    BY <1>4, <1>5, <1>8, <2>1, ArmKnows
<1>9. ASSUME Live(a), GatePreload(a) PROVE Framed'
  <2>1. /\ a.pc = "gate" /\ UNCHANGED <<events, eng, aired>>
        /\ Leaves(a) \/ (js.proven = js.key /\ StartsLoading(a, a.row))
    BY <1>2, <1>9, GateStep
  <2>2. js.key # NoRow
    <3>1. On /\ Rolling /\ EngineShape
      BY <1>9, <2>1 DEF ChannelInv, Calls, CallInv, Loading
    <3> QED
      BY <3>1 DEF On, Rolling, EngineShape
  <2>3. js.proven = js.key => js.key \in aired
    BY <2>2 DEF Framed
  <2> QED
    BY <1>4, <1>5, <1>9, <2>1, <2>3
<1>10. ASSUME Live(a), SendLoadbg(a) PROVE Framed'
  <2>1. /\ UNCHANGED <<rust, events, aired>>
        /\ \/ Leaves(a) /\ eng' = eng
           \/ /\ \E b : Turns(a, b) /\ Onward(a, b, "loaded", a.next)
              /\ js' = js /\ LOADBG_AUTO(a.row)
    BY <1>2, <1>10, LoadStep
  <2>2. ASSUME js' = js, LOADBG_AUTO(a.row), \E b : Turns(a, b) /\ Onward(a, b, "loaded", a.next) PROVE Framed'
    <3>1. eng'.fg = eng.fg /\ eng'.phase = eng.phase
      BY <1>2, <2>2 DEF LOADBG_AUTO, Shapes
    <3>2. Pending' = Pending
      BY <2>1 DEF Pending
    <3> QED
      BY <1>10, <2>1, <2>2, <3>1, <3>2, FramedOnward
  <2> QED
    BY <1>4, <1>10, <2>1, <2>2
<1>11. ASSUME Live(a), Loaded(a) PROVE Framed'
  <2>1. UNCHANGED <<events, eng, aired>> /\ acts' = acts \ {a} /\ Keeps(js, js') /\ js'.token = js.token /\ js'.key = js.key
    BY <1>2, <1>11, LoadedStep DEF Is
  <2> QED
    BY <2>1, FramedLeave DEF Keeps
<1>12. ASSUME Live(a), StopRelease(a) PROVE Framed'
  BY <1>2, <1>4, <1>12, ReleaseStep
<1>13. CASE Live(a)
  <2>1. ~Retries(a) /\ ~Fails(a) /\ ~NaturalFails(a)
    BY <1>2 DEF Retries, Fails, NaturalFails, Refused
  <2>2. ~SkipTimer(a)
    BY <1>2 DEF SkipTimer, Shapes, CallShape, Stands
  <2> QED
    BY <1>1, <1>13, <1>6, <1>7, <1>8, <1>9, <1>10, <1>11, <1>12, <2>1, <2>2, Zenon
<1> QED
  BY <1>3, <1>13

\* A call of a new token starts.
LEMMA FramedJoin ==
  ASSUME ArmedInv, Framed, NEW b, Joins(b), b.proof = FALSE, b.pc # "loadbg",
         js'.token \in Nat, js'.token > js.token, js'.proven \in {js.proven, NoRow},
         aired' = aired, eng' = eng, Pending' \subseteq Pending
  PROVE  Framed'
<1>1. \A c \in acts' : c = b \/ (c \in acts /\ ~Live(c)')
  BY DEF Joins, ArmedInv, Shapes, CallShape, JsShape, Live
<1>2. \A c \in acts' : c.proof => \E d \in acts : d.proof /\ d.row = c.row
  BY <1>1
<1>3. \A c \in acts' : Live(c)' /\ c.pc = "loadbg" => js'.key \in aired
  BY <1>1
<1> QED
  BY <1>2, <1>3, FramedStep

\* The rundown moves on.
LEMMA ContinuesFramed ==
  ASSUME ArmedInv, Shapes', Framed, Continues, UNCHANGED <<eng, aired>>, Pending' \subseteq Pending
  PROVE  Framed'
<1>1. PICK b : MovesOnTo(js, js', b) /\ Joins(b)
  BY DEF Continues
<1>2. b.proof = FALSE /\ b.pc # "loadbg" /\ js'.token > js.token /\ js'.proven \in {js.proven, NoRow}
  BY <1>1 DEF MovesOnTo, Plain
<1> QED
  BY <1>1, <1>2, FramedJoin DEF Shapes, JsShape

\* The operator acts.
LEMMA OperatorFramed ==
  ASSUME Orderly, ArmedInv, Shapes', ChannelInv, Framed, Operator
  PROVE  Framed'
<1>1. Shapes /\ js.token \in Nat /\ js'.token \in Nat /\ js.flagged = {}
  BY DEF ArmedInv, Shapes, JsShape, ChannelInv, Unfailing
<1>2. ASSUME NEW r \in Rows, Take(r) \/ Play(r) PROVE Framed'
  <2>1. Asks(r) /\ Requests(r)
    BY <1>1, <1>2, TakeAsks, TakeIs, PlayAsks, PlayIs
  <2>2. PICK b : Joins(b) /\ b.proof = FALSE /\ b.pc # "loadbg"
    BY <2>1 DEF Asks, Plain
  <2>3. js'.token = js.token + 1 /\ js'.proven = NoRow /\ aired' = aired /\ eng' = eng /\ Pending' = Pending
    BY <2>1 DEF Asks, Requests, Is, Pending
  <2>4. js'.token > js.token /\ Pending' \subseteq Pending
    BY <1>1, <2>3
  <2>5. js'.proven \in {js.proven, NoRow} /\ aired' = aired /\ eng' = eng /\ js'.token \in Nat
    BY <1>1, <2>3
  <2> QED
    BY <2>2, <2>4, <2>5, FramedJoin
<1>3. CASE Stop
  <2>1. Halting /\ Halts
    BY <1>1, <1>3, StopHalts, StopIs
  <2>2. PICK b : Joins(b) /\ b.proof = FALSE /\ b.pc # "loadbg"
    BY <2>1 DEF Halting, Plain
  <2>3. js'.token = js.token + 1 /\ js'.proven = NoRow /\ aired' = aired /\ eng' = eng /\ Pending' = Pending
    BY <2>1 DEF Halting, Halts, Is, Pending
  <2>4. js'.token > js.token /\ Pending' \subseteq Pending
    BY <1>1, <2>3
  <2>5. js'.proven \in {js.proven, NoRow} /\ aired' = aired /\ eng' = eng /\ js'.token \in Nat
    BY <1>1, <2>3
  <2> QED
    BY <2>2, <2>4, <2>5, FramedJoin
<1>4. ASSUME NEW q \in Edits, Edit(q) PROVE Framed'
  <2>1. "busy" \notin Windows /\ "last" \notin Windows
    BY DEF Orderly
  <2>2. /\ UNCHANGED <<rust, events, eng, aired>> /\ Same5(js, js')
        /\ acts' = {} \/ \E b : acts' = {b} /\ Plain(b) /\ Call(b, "gate", "preload", Successor(q, js.key), 0, js.token)
    BY <1>1, <1>4, <2>1, EditStep
  <2>3. js'.proven = js.proven /\ Pending' = Pending /\ \A b \in acts' : b.proof = FALSE /\ b.pc # "loadbg"
    BY <2>2 DEF Same5, Pending, Plain, Call
  <2> QED
    BY <2>2, <2>3, FramedStep
<1> QED
  BY <1>2, <1>3, <1>4, Zenon DEF Operator

\* A delivered position proves the first frame of its row.
LEMMA DeliverFramed ==
  ASSUME ArmedInv, Shapes', ChannelInv, Framed, Deliver
  PROVE  Framed'
<1> DEFINE e == Head(events)
<1>1. /\ events # <<>> /\ events' = Tail(events) /\ UNCHANGED <<rust, eng, aired>>
      /\ \/ e.kind = "position" /\ Informed(e) /\ js'.proven = e.row /\ Agree(js, js')
         \/ e.kind = "foreground" /\ Informed(e) /\ js' = js
         \/ e.kind = "advance" /\ js' = js /\ acts' = acts
         \/ /\ e.kind = "advance" /\ e.gen = js.token /\ e.row = js.key
            /\ js.advancing \/ Continues
  BY DeliverStep DEF ArmedInv, ChannelInv, Unfailing
<1>2. e \in Pending /\ Pending' \subseteq Pending
  BY <1>1, Delivering DEF ArmedInv, Shapes
<1> HIDE DEF e
<1>3. CASE e.kind = "advance" /\ e.gen = js.token /\ e.row = js.key /\ (js.advancing \/ Continues)
  BY <1>1, <1>2, <1>3, AdvanceContinues, ContinuesFramed
<1>4. CASE e.kind = "advance" /\ js' = js /\ acts' = acts
  BY <1>1, <1>2, <1>4 DEF Framed, Live
<1>5. CASE Informed(e) /\ js'.token = js.token /\ js'.key = js.key
           /\ js'.proven \in {js.proven} \cup (IF e.kind = "position" THEN {e.row} ELSE {})
  <2>1. PICK f : /\ acts' = {f[a] : a \in acts}
                 /\ \A a \in acts : /\ Alike(a, f[a])
                                    /\ f[a].proof => a.proof \/ (e.kind = "position" /\ a.row = e.row)
    BY <1>5 DEF Informed
  <2>2. e.kind = "position" => e.row \in aired
    BY <1>2 DEF Framed
  <2>3. \A b \in acts' : b.proof => b.row \in aired
    BY <2>1, <2>2 DEF Framed, Alike
  <2>4. \A b \in acts' : Live(b)' /\ b.pc = "loadbg" => js'.key \in aired
    BY <1>5, <2>1 DEF Framed, Alike, Live
  <2>5. js'.proven \in aired \cup {NoRow}
    BY <1>5, <2>2 DEF Framed
  <2> QED
    BY <1>1, <1>2, <2>3, <2>4, <2>5 DEF Framed
<1> QED
  BY <1>1, <1>3, <1>4, <1>5 DEF Agree, Is

\* Rust sees positions of a rendered row only.
LEMMA RustFramed ==
  ASSUME ArmedInv, ChannelInv, Framed, Rust
  PROVE  Framed'
<1>1. UNCHANGED <<js, acts, eng, aired>>
  BY DEF Rust, RustSeesPath, RustSeesPosition, RustSeesEnd
<1>2. PICK kind \in {"position", "foreground", "advance"} :
        Tells(kind) /\ rust.row # NoRow /\ (kind = "position" => PositionNews)
  BY DEF Rust, RustSeesPath, RustSeesPosition, RustSeesEnd, PathNews, PositionNews, EndNews
<1> DEFINE e == [kind |-> kind, row |-> rust.row, gen |-> rust.gen]
<1>3. Pending' = Pending \cup {e}
  BY <1>2, Telling DEF ArmedInv
<1>4. e.kind = "position" => e.row \in aired
  <2> SUFFICES ASSUME kind = "position" PROVE rust.row \in aired
    OBVIOUS
  <2>1. eng.fg = rust.row /\ eng.phase \notin {"empty", "loading"}
    BY <1>2 DEF PositionNews, ChannelInv, EngineShape
  <2> QED
    BY <2>1 DEF Framed
<1> HIDE DEF e
<1> QED
  BY <1>1, <1>3, <1>4 DEF Framed, Live

\* A clip that has passed its first frame has rendered one.
LEMMA EngineFramed ==
  ASSUME ArmedInv, Framed, Engine
  PROVE  Framed'
<1>1. js' = js /\ acts' = acts /\ Pending' = Pending /\ aired \subseteq aired'
  BY DEF Engine, FirstFrame, NearEnd, ClipEnds, Pending
<1>2. eng'.phase \notin {"empty", "loading"} => eng'.fg \in aired'
  <2>1. DOMAIN eng = {"fg", "phase", "bg"}
    BY DEF ArmedInv, Shapes
  <2>2. CASE FirstFrame
    BY <2>1, <2>2 DEF FirstFrame
  <2>3. CASE NearEnd
    BY <2>1, <2>3 DEF NearEnd, Framed
  <2>4. CASE ClipEnds
    BY <2>1, <2>4 DEF ClipEnds, Framed
  <2> QED
    BY <2>2, <2>3, <2>4 DEF Engine
<1> QED
  BY <1>1, <1>2 DEF Framed, Live

\* Every step keeps the proofs true.
LEMMA NextFramed ==
  ASSUME Orderly, "slow" \notin Windows, ArmedInv, Shapes', ChannelInv, Framed, [Next]_vars
  PROVE  Framed'
<1>1. CASE EndGuard
  <2>1. Continues /\ UNCHANGED <<events, eng, aired>>
    BY <1>1, EndGuardContinues
  <2>2. Pending' = Pending
    BY <2>1 DEF Pending
  <2> QED
    BY <2>1, <2>2, ContinuesFramed
<1>2. CASE DedupWindowEnds \/ Idle \/ UNCHANGED vars
  <2>1. UNCHANGED <<acts, events, eng, aired>> /\ js'.token = js.token /\ js'.key = js.key /\ js'.proven = js.proven
    BY <1>2 DEF DedupWindowEnds, Idle, vars, ArmedInv, Shapes, JsShape, JsNames
  <2> QED
    BY <2>1, FramedLeave
<1> QED
  BY <1>1, <1>2, OperatorFramed, ActivationFramed, DeliverFramed, RustFramed, EngineFramed, Zenon DEF Next

\* Only a LOADBG puts a row behind the clip on air.
LEMMA LoadedBy ==
  ASSUME Shapes, [Next]_vars, eng'.bg \notin {eng.bg, NoRow}
  PROVE  \E a \in acts : Live(a) /\ a.pc = "loadbg"
<1>1. Activation
  <2>1. DOMAIN eng = {"fg", "phase", "bg"}
    BY SMTT(60) DEF Shapes
  <2>2. ~(Operator \/ Deliver \/ EndGuard \/ DedupWindowEnds \/ Rust \/ Idle \/ UNCHANGED vars)
    BY DEF Operator, Take, Play, Stop, Edit, Commanded, Deliver, EndGuard, DedupWindowEnds, Rust, RustSeesPath,
           RustSeesPosition, RustSeesEnd, Idle, vars
  <2>3. ~Engine
    BY <2>1 DEF Engine, FirstFrame, NearEnd, ClipEnds
  <2> QED
    BY <2>2, <2>3 DEF Next
<1>2. PICK a \in acts :
        \/ ResolveItem(a) \/ Dispatch(a) \/ SendPlay(a) \/ Played(a) \/ Retries(a) \/ Fails(a)
        \/ SkipTimer(a)
        \/ ArmNext(a)
        \/ ClaimNext(a) \/ RegisterNext(a) \/ NaturalFails(a) \/ NextRegistered(a)
        \/ ArmAfterNatural(a)
        \/ GatePreload(a) \/ SendLoadbg(a) \/ Loaded(a)
        \/ StopClear(a) \/ StopRelease(a)
  BY <1>1, Zenon DEF Activation
<1>3. ~(SendPlay(a) \/ StopClear(a))
  BY SMTT(60) DEF SendPlay, StopClear, PLAY, CLEAR
<1>4. SendLoadbg(a)
  BY <1>2, <1>3
     DEF ResolveItem, Dispatch, Played, Retries, Fails, SkipTimer, ArmNext, ClaimNext, RegisterNext, NaturalFails,
         NextRegistered, ArmAfterNatural, GatePreload, Loaded, StopRelease
<1>5. a.pc = "loadbg" /\ Live(a)
  BY <1>4 DEF SendLoadbg, StalePreload, Live
<1> QED
  BY <1>5

\* A LOADBG waits its turn: it replaces no background that a natural advance has claimed, and
\* none is sent before the clip on air has rendered its first frame, as long as no dispatch
\* takes longer than the first-frame timeout.
THEOREM PreloadWaits ==
  ASSUME Orderly, "slow" \notin Windows
  PROVE  Spec => LoadbgWaitsItsTurn
<1> DEFINE Inv == ArmedInv /\ ChannelInv /\ Framed
<1>1. Init => Inv
  <2> SUFFICES ASSUME Init PROVE Framed
    BY InitArmed, InitChannel
  <2>1. acts = {} /\ js.proven = NoRow /\ eng.phase = "empty" /\ events = <<>>
    BY DEF Init
  <2>2. Pending = {}
    BY <2>1 DEF Pending
  <2> QED
    BY <2>1, <2>2 DEF Framed
<1>2. Inv /\ [Next]_vars => Inv'
  <2> SUFFICES ASSUME Inv, [Next]_vars PROVE ArmedInv' /\ ChannelInv' /\ Framed'
    OBVIOUS
  <2>1. ArmedInv'
    BY NextArmed DEF Orderly
  <2>2. Shapes'
    BY <2>1 DEF ArmedInv
  <2> QED
    BY <2>1, <2>2, NextChannel, NextFramed
<1>3. Inv /\ [Next]_vars =>
        [eng'.bg \notin {eng.bg, NoRow} =>
           /\ eng.bg # NoRow => eng.bg # js.key
           /\ eng.fg \notin aired => eng.phase # "loading"]_vars
  <2> SUFFICES ASSUME ArmedInv, ChannelInv, Framed, [Next]_vars, eng'.bg \notin {eng.bg, NoRow}
               PROVE  eng.bg # js.key /\ eng.fg \in aired
    OBVIOUS
  <2>1. PICK a \in acts : Live(a) /\ a.pc = "loadbg"
    BY LoadedBy DEF ArmedInv
  <2>2. On
    BY <2>1 DEF ChannelInv, Calls, CallInv, Loading
  <2> QED
    BY <2>1, <2>2 DEF On, Framed
<1> HIDE DEF Inv
<1> QED
  BY <1>1, <1>2, <1>3, PTL DEF Spec, LoadbgWaitsItsTurn
=============================================================================
