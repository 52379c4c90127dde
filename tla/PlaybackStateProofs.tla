------------------------- MODULE PlaybackStateProofs -------------------------
(***************************************************************************)
(* Proofs about PlaybackState for every set of rows, files, requests and   *)
(* positions and every value of the thresholds.                            *)
(***************************************************************************)
EXTENDS PlaybackState, TLAPS

\* What the handlers have emitted is what their one-shot latches say.
Count(b) == IF b THEN 1 ELSE 0

LatchInv ==
  /\ latch.transition = latch.advance
  /\ emitted["advance"] = Count(latch.advance)
  /\ emitted["foreground"] = Count(latch.foreground)
  /\ emitted["position"] = Count(latch.position)
  /\ latch.position => latch.foreground
  /\ latch.advance => fence.confirmed

-----------------------------------------------------------------------------
LEMMA SatSubType == \A m, n \in Nat : SatSub(m, n) \in Nat
BY DEF SatSub

LEMMA SatSubMonotone ==
  ASSUME NEW m \in Nat, NEW n \in Nat, NEW k \in Nat, m >= n
  PROVE  SatSub(m, k) >= SatSub(n, k)
BY DEF SatSub

LEMMA SatSubBound == \A m, n \in Nat : SatSub(m, n) + n >= m
BY DEF SatSub

\* The numbers derived from a request are naturals.
LEMMA RequestType ==
  ASSUME NEW r \in Requests
  PROVE  /\ r \in Request
         /\ OutPoint(r) \in Nat
         /\ TrimOut(r) \in Nat
         /\ NormalizedElapsed(r) \in Nat
         /\ EffectiveDuration(r.trimIn, TrimOut(r), OutPoint(r)) \in Nat
         /\ Remaining(r) \in Nat
<1>1. r \in Request
  BY InputAssumption
<1>2. r.dur \in Nat /\ r.trimIn \in Nat /\ r.elapsed \in Nat /\ r.trimOut \in Nat \cup {NoValue}
  BY <1>1 DEF Request
<1>3. OutPoint(r) \in Nat
  BY <1>2, InputAssumption DEF OutPoint
<1>4. TrimOut(r) \in Nat
  BY <1>2, <1>3 DEF TrimOut
<1>5. NormalizedElapsed(r) \in Nat
  BY <1>2, SatSubType DEF NormalizedElapsed
<1>6. EffectiveDuration(r.trimIn, TrimOut(r), OutPoint(r)) \in Nat
  BY <1>2, <1>3, <1>4, SatSubType DEF EffectiveDuration
<1>7. Remaining(r) \in Nat
  BY <1>5, <1>6, SatSubType DEF Remaining
<1> QED
  BY <1>1, <1>3, <1>4, <1>5, <1>6, <1>7

LEMMA ToleranceBound ==
  \A e \in Nat : EarlyTolerance(e) \in Nat /\ EarlyTolerance(e) <= EARLY_TOLERANCE
BY ThresholdAssumption DEF EarlyTolerance

LEMMA GateType ==
  ASSUME now \in Nat, NEW r \in Requests
  PROVE  Gate(r) \in Nat
<1> DEFINE eff == EffectiveDuration(r.trimIn, TrimOut(r), OutPoint(r))
<1>1. eff \in Nat /\ Remaining(r) \in Nat
  BY RequestType
<1>2. EarlyTolerance(eff) \in Nat
  BY <1>1, ToleranceBound
<1>3. SatSub(Remaining(r), EarlyTolerance(eff)) \in Nat
  BY <1>1, <1>2, SatSubType
<1> QED
  BY <1>3 DEF Gate

\* A coherent request arms its gate at most the tolerance before the end.
LEMMA GateBound ==
  ASSUME now \in Nat, CoherentRequests, NEW r \in Requests, OutPoint(r) # UMAX
  PROVE  Gate(r) + EARLY_TOLERANCE >= now + SatSub(OutPoint(r), NormalizedElapsed(r))
<1> DEFINE eff == EffectiveDuration(r.trimIn, TrimOut(r), OutPoint(r))
           left == SatSub(OutPoint(r), NormalizedElapsed(r))
           wait == SatSub(Remaining(r), EarlyTolerance(eff))
<1>1. /\ eff \in Nat /\ OutPoint(r) \in Nat /\ NormalizedElapsed(r) \in Nat
      /\ Remaining(r) \in Nat
  BY RequestType
<1>2. eff >= OutPoint(r)
  BY DEF CoherentRequests
<1>3. Remaining(r) >= left
  BY <1>1, <1>2, SatSubMonotone DEF Remaining
<1>4. EarlyTolerance(eff) \in Nat /\ EarlyTolerance(eff) <= EARLY_TOLERANCE
  BY <1>1, ToleranceBound
<1>5. wait + EarlyTolerance(eff) >= Remaining(r)
  BY <1>1, <1>4, SatSubBound
<1>6. wait \in Nat /\ left \in Nat
  BY <1>1, <1>4, SatSubType
<1>7. Gate(r) = now + wait
  BY DEF Gate
<1> HIDE DEF eff, left, wait
<1>8. now + wait + EARLY_TOLERANCE >= now + left
  BY <1>1, <1>3, <1>4, <1>5, <1>6, ThresholdAssumption
<1> QED
  BY <1>7, <1>8 DEF left

-----------------------------------------------------------------------------
(* Type correctness *)

LEMMA InitType == Init => TypeOK
BY BoundAssumption, SentinelAssumption, InputAssumption
   DEF Init, TypeOK, RegType, ModeType, FenceType, ClockType, LatchType,
       ClearedReg, ClearedFence, ClearedClock, ClearedLatch, NothingEmitted, Events

LEMMA NowType == TypeOK => now \in Nat
BY BoundAssumption DEF TypeOK

LEMMA RegisterType ==
  ASSUME TypeOK, NEW r \in Requests, RegisterPlayback(r), calls' \in 0..MaxCalls
  PROVE  TypeOK'
<1>1. /\ r \in Request /\ OutPoint(r) \in Nat /\ TrimOut(r) \in Nat
      /\ NormalizedElapsed(r) \in Nat
  BY RequestType
<1>2. now \in Nat /\ Gate(r) \in Nat
  BY NowType, GateType
<1>3. SatSub(OutPoint(r), NormalizedElapsed(r)) \in Nat
  BY <1>1, SatSubType
<1>4. /\ r.uuid \in Uuids /\ r.gen \in Nat /\ r.file \in Files \cup {NoFile}
      /\ r.next \in Files \cup {NoFile} /\ r.trimIn \in Nat /\ r.adopted \in BOOLEAN
  BY <1>1 DEF Request
<1>5. reg.file \in Files \cup {NoFile}
  BY DEF TypeOK, RegType
<1>6. reg' \in RegType
  BY <1>1, <1>2, <1>3, <1>4, <1>5 DEF RegisterPlayback, RegType
<1>7. mode' \in ModeType
  BY DEF RegisterPlayback, TypeOK, ModeType
<1>8. ConfirmedAtRegistration(r) \in BOOLEAN /\ ForegroundConfirmedNow(r) \in BOOLEAN
  BY <1>4 DEF ConfirmedAtRegistration, ForegroundConfirmedNow, TransitionObserved, SameFileTransition
<1>9. fence' \in FenceType
  BY <1>4, <1>8 DEF RegisterPlayback, FenceType
<1>10. clock' \in ClockType
  BY <1>1, <1>2, <1>4 DEF RegisterPlayback, ClockType
<1>11. latch' \in LatchType
  BY <1>4, <1>8 DEF RegisterPlayback, ClearedLatch, LatchType
<1>12. emitted' \in [Events -> Nat]
  BY DEF RegisterPlayback, NothingEmitted, Events
<1> QED
  BY <1>6, <1>7, <1>9, <1>10, <1>11, <1>12 DEF TypeOK, RegisterPlayback

LEMMA EmitType ==
  ASSUME emitted \in [Events -> Nat], NEW kinds, Emit(kinds)
  PROVE  emitted' \in [Events -> Nat]
BY DEF Emit

\* Raising a flag keeps the flags Boolean.
LEMMA PathLatchType ==
  ASSUME TypeOK, NEW A \in BOOLEAN, NEW B \in BOOLEAN, NEW C \in BOOLEAN
  PROVE  [latch EXCEPT !.foreground = @ \/ A, !.premature = @ \/ B,
                       !.advance = @ \/ C, !.transition = @ \/ C] \in LatchType
BY ZenonT(60) DEF TypeOK, LatchType

LEMMA TimeLatchType ==
  ASSUME TypeOK, NEW A \in BOOLEAN, NEW B \in BOOLEAN, NEW C \in BOOLEAN
  PROVE  [latch EXCEPT !.foreground = @ \/ A, !.position = @ \/ B,
                       !.advance = @ \/ C, !.transition = @ \/ C] \in LatchType
BY ZenonT(60) DEF TypeOK, LatchType

LEMMA PathOscType ==
  ASSUME TypeOK, NEW f \in Files, PathOsc(f)
  PROVE  TypeOK'
<1> DEFINE newly == ConfirmedBy(f) /\ ~fence.confirmed /\ ~latch.foreground
           premature == /\ reg.next # NoFile /\ ~latch.premature
                        /\ PrematureSwitchObservation(f) /\ PrematureAutoSwitch
<1>1. emitted' \in [Events -> Nat]
  BY EmitType DEF PathOsc, TypeOK
<1>2. ConfirmedBy(f) \in BOOLEAN /\ PathSwitch(f) \in BOOLEAN
  BY DEF ConfirmedBy, PathSwitch, TypeOK, FenceType
<1>3. fence' \in FenceType
  BY <1>2 DEF PathOsc, TypeOK, FenceType
<1>4. reg' \in RegType
  BY DEF PathOsc, TypeOK, RegType
<1>5. latch' \in LatchType
  <2>1. latch' = [latch EXCEPT !.foreground = @ \/ newly, !.premature = @ \/ premature,
                               !.advance = @ \/ PathSwitch(f), !.transition = @ \/ PathSwitch(f)]
    BY DEF PathOsc
  <2>2. newly \in BOOLEAN /\ premature \in BOOLEAN
    OBVIOUS
  <2> HIDE DEF newly, premature
  <2> QED
    BY <1>2, <2>1, <2>2, PathLatchType
<1> QED
  BY <1>1, <1>3, <1>4, <1>5 DEF PathOsc, TypeOK

LEMMA SampledType ==
  ASSUME TypeOK, NEW p \in Nat
  PROVE  Sampled(p) \in ClockType
<1>1. reg.trimIn \in Nat /\ now \in Nat
  BY NowType DEF TypeOK, RegType
<1>2. SatSub(p, reg.trimIn) \in Nat
  BY <1>1, SatSubType
<1>3. clock \in ClockType
  BY DEF TypeOK
<1>4. AtMost(clock.samples + 1, 2) \in Nat /\ AtMost(clock.stalled + 1, FRAME_ZERO_TICKS) \in Nat
  BY <1>3, ThresholdAssumption DEF AtMost, ClockType
<1> QED
  BY <1>1, <1>2, <1>3, <1>4 DEF Sampled, ClockType

LEMMA TimeOscType ==
  ASSUME TypeOK, NEW p \in Positions \cup {NoValue}, TimeOsc(p)
  PROVE  TypeOK'
<1>1. now \in Nat /\ (p # NoValue => p \in Nat)
  BY NowType, InputAssumption
<1>2. reg.trimIn \in Nat /\ clock \in ClockType /\ fence \in FenceType
  BY DEF TypeOK, RegType
<1> SUFFICES clock' \in ClockType /\ fence' \in FenceType /\ latch' \in LatchType
             /\ emitted' \in [Events -> Nat]
  BY DEF TimeOsc, TypeOK
<1>3. CASE TimeOscFork(p)
  <2>1. p # NoValue => SatSub(p, reg.trimIn) \in Nat
    BY <1>1, <1>2, SatSubType
  <2>2. (IF p = NoValue THEN clock.pos ELSE SatSub(p, reg.trimIn)) \in Nat
    BY <1>2, <2>1 DEF ClockType
  <2>3. clock' = [clock EXCEPT !.osc = now,
                               !.pos = IF p = NoValue THEN @ ELSE SatSub(p, reg.trimIn)]
    BY <1>3 DEF TimeOscFork
  <2>4. clock' \in ClockType
    BY <1>1, <1>2, <2>2, <2>3, Zenon DEF ClockType
  <2> QED
    BY <1>3, <2>4 DEF TimeOscFork, TypeOK
<1>4. CASE TimeOscUnconfirmed
  BY <1>1, <1>4 DEF TimeOscUnconfirmed, TypeOK, ClockType
<1>5. CASE TimeOscIgnored(p)
  BY <1>1, <1>5 DEF TimeOscIgnored, TypeOK, ClockType, FenceType
<1>6. CASE TimeOscAccepted(p)
  <2> DEFINE c == IF p = NoValue THEN [clock EXCEPT !.osc = now] ELSE Sampled(p)
  <2>1. c \in ClockType
    <3>1. CASE p = NoValue
      BY <1>1, <1>2, <3>1 DEF ClockType
    <3>2. CASE p # NoValue
      BY <1>1, <3>2, SampledType
    <3> QED
      BY <3>1, <3>2
  <2>2. clock' = c
    BY <1>6 DEF TimeOscAccepted
  <2>3. emitted' \in [Events -> Nat]
    BY <1>6, EmitType DEF TimeOscAccepted, TypeOK
  <2>4. fence' \in FenceType
    <3> DEFINE n == IF fence.awaiting /\ ~InResetWindow(p) THEN fence.ignored + 1 ELSE fence.ignored
    <3>1. n \in Nat
      BY <1>2 DEF FenceType
    <3>2. fence' = [fence EXCEPT !.awaiting = FALSE, !.ignored = n]
      BY <1>6, Zenon DEF TimeOscAccepted
    <3> HIDE DEF n
    <3> QED
      BY <1>2, <3>1, <3>2 DEF FenceType
  <2>5. ProvesForeground(p) \in BOOLEAN /\ ProvesPosition(p) \in BOOLEAN /\ ShouldAdvance(c) \in BOOLEAN
    BY DEF ProvesForeground, ProvesPosition, ShouldAdvance
  <2>6. latch' = [latch EXCEPT !.foreground = @ \/ ProvesForeground(p),
                               !.position = @ \/ ProvesPosition(p),
                               !.advance = @ \/ ShouldAdvance(c),
                               !.transition = @ \/ ShouldAdvance(c)]
    BY <1>6 DEF TimeOscAccepted
  <2>7. latch' \in LatchType
    BY <2>5, <2>6, TimeLatchType
  <2> QED
    BY <2>1, <2>2, <2>3, <2>4, <2>7
<1> QED
  BY <1>3, <1>4, <1>5, <1>6 DEF TimeOsc

LEMMA WatchdogType ==
  ASSUME TypeOK, Watchdog
  PROVE  TypeOK'
<1>1. emitted' \in [Events -> Nat]
  BY EmitType DEF Watchdog, TypeOK
<1>2. WatchdogAdvances \in BOOLEAN /\ WatchdogReportsStall \in BOOLEAN
  BY DEF WatchdogAdvances, WatchdogReportsStall
<1>3. latch' \in LatchType
  BY <1>2 DEF Watchdog, TypeOK, LatchType
<1> QED
  BY <1>1, <1>3 DEF Watchdog, TypeOK

LEMMA ClearType ==
  ASSUME TypeOK, ClearState, calls' \in 0..MaxCalls
  PROVE  TypeOK'
BY InputAssumption
   DEF ClearState, TypeOK, RegType, ModeType, FenceType, ClockType, LatchType,
       ClearedReg, ClearedFence, ClearedClock, ClearedLatch, NothingEmitted, Events

LEMMA FrontendType ==
  ASSUME TypeOK, FrontendCall
  PROVE  TypeOK'
<1>1. calls' \in 0..MaxCalls
  BY BoundAssumption DEF FrontendCall, TypeOK
<1>2. ASSUME NEW r \in Requests, RegisterPlayback(r) PROVE TypeOK'
  BY <1>1, <1>2, RegisterType
<1>3. ASSUME NEW paused \in BOOLEAN, SetPaused(paused) PROVE TypeOK'
  BY <1>1, <1>3, NowType DEF SetPaused, TypeOK, ModeType, ClockType
<1>4. ASSUME ClearState PROVE TypeOK'
  BY <1>1, <1>4, ClearType
<1>5. ASSUME NEW fork \in BOOLEAN, DetectEngine(fork) PROVE TypeOK'
  BY <1>1, <1>5 DEF DetectEngine, TypeOK, ModeType
<1> QED
  BY <1>2, <1>3, <1>4, <1>5 DEF FrontendCall, ClearPlayback, ClearPlaybackIfUuid

\* Every field keeps its type whatever the frontend, the engine and the
\* network do; in particular no saturating subtraction goes below zero.
THEOREM TypeCorrect == Spec => []TypeOK
<1>1. Init => TypeOK
  BY InitType
<1>2. TypeOK /\ [Next]_vars => TypeOK'
  <2> SUFFICES ASSUME TypeOK, [Next]_vars PROVE TypeOK'
    OBVIOUS
  <2>1. CASE FrontendCall
    BY <2>1, FrontendType
  <2>2. ASSUME NEW f \in Files, PathOsc(f) PROVE TypeOK'
    BY <2>2, PathOscType
  <2>3. ASSUME NEW p \in Positions \cup {NoValue}, TimeOsc(p) PROVE TypeOK'
    BY <2>3, TimeOscType
  <2>4. CASE Watchdog
    BY <2>4, WatchdogType
  <2>5. CASE Tick
    <3>1. now' \in 0..MaxNow
      BY <2>5, BoundAssumption DEF Tick, TypeOK
    <3> QED
      BY <2>5, <3>1 DEF Tick, TypeOK
  <2>6. CASE OscFreeze
    BY <2>6 DEF OscFreeze, TypeOK
  <2>7. CASE UNCHANGED vars
    BY <2>7 DEF vars, TypeOK
  <2> QED
    BY <2>1, <2>2, <2>3, <2>4, <2>5, <2>6, <2>7 DEF Next, WindowClosed
<1> QED
  BY <1>1, <1>2, PTL DEF Spec

-----------------------------------------------------------------------------
(* At most one advance, ordered confirmations, no unconfirmed advance *)

LEMMA EmitCount ==
  ASSUME TypeOK, NEW kinds, Emit(kinds), NEW e \in Events
  PROVE  /\ e \in kinds => emitted'[e] = emitted[e] + 1
         /\ e \notin kinds => emitted'[e] = emitted[e]
         /\ emitted[e] \in Nat
BY DEF Emit, TypeOK

LEMMA LatchRegister ==
  ASSUME TypeOK, LatchInv, NEW r \in Requests, RegisterPlayback(r)
  PROVE  LatchInv'
<1>1. r.adopted \in BOOLEAN
  BY RequestType DEF Request
<1>2. r.adopted => ForegroundConfirmedNow(r)
  BY DEF ForegroundConfirmedNow
<1>3. /\ latch'.transition = FALSE /\ latch'.advance = FALSE
      /\ latch'.foreground = ForegroundConfirmedNow(r) /\ latch'.position = r.adopted
  BY DEF RegisterPlayback, ClearedLatch
<1>4. /\ emitted'["advance"] = 0
      /\ emitted'["foreground"] = IF ForegroundConfirmedNow(r) THEN 1 ELSE 0
      /\ emitted'["position"] = IF r.adopted THEN 1 ELSE 0
  BY DEF RegisterPlayback, NothingEmitted, Events
<1> QED
  BY <1>1, <1>2, <1>3, <1>4 DEF LatchInv, Count

LEMMA LatchClear ==
  ASSUME ClearState
  PROVE  LatchInv'
BY DEF ClearState, LatchInv, Count, ClearedLatch, NothingEmitted, Events

LEMMA LatchPathOsc ==
  ASSUME TypeOK, LatchInv, NEW f \in Files, PathOsc(f)
  PROVE  LatchInv'
<1> DEFINE newly == ConfirmedBy(f) /\ ~fence.confirmed /\ ~latch.foreground
           premature == /\ reg.next # NoFile /\ ~latch.premature
                        /\ PrematureSwitchObservation(f) /\ PrematureAutoSwitch
           switch == PathSwitch(f)
           kinds == (IF premature THEN {"premature"} ELSE {})
                    \cup (IF switch THEN {"advance"} ELSE {})
                    \cup (IF newly /\ ~switch THEN {"foreground"} ELSE {})
<1>1. switch \in BOOLEAN /\ ConfirmedBy(f) \in BOOLEAN /\ newly \in BOOLEAN
  BY DEF PathSwitch, ConfirmedBy, TypeOK, FenceType
\* A switch needs a file other than the registered one, a first confirmation
\* the registered one itself.
<1>2. switch => ~newly
  BY DEF PathSwitch, ConfirmedBy
<1>3. switch => ~latch.advance /\ ConfirmedBy(f)
  BY DEF PathSwitch, LatchInv
<1>4. newly => ~latch.foreground
  OBVIOUS
<1>5. latch \in LatchType /\ fence \in FenceType
  BY DEF TypeOK
<1>6. /\ latch'.foreground = (latch.foreground \/ newly)
      /\ latch'.advance = (latch.advance \/ switch)
      /\ latch'.transition = (latch.transition \/ switch)
      /\ latch'.position = latch.position
  BY <1>5 DEF PathOsc, LatchType
<1>7. fence'.confirmed = ConfirmedBy(f)
  BY <1>5 DEF PathOsc, FenceType
<1>8. Emit(kinds)
  BY DEF PathOsc
<1>9. fence.confirmed => ConfirmedBy(f)
  BY DEF ConfirmedBy
<1>10. /\ emitted'["advance"] = emitted["advance"] + Count(switch)
       /\ emitted'["foreground"] = emitted["foreground"] + Count(newly)
       /\ emitted'["position"] = emitted["position"]
  <2>1. {"advance", "foreground", "position"} \subseteq Events
    BY DEF Events
  <2>2. /\ ("advance" \in kinds) <=> switch
        /\ ("foreground" \in kinds) <=> newly
        /\ "position" \notin kinds
    BY <1>1, <1>2
  <2> HIDE DEF kinds, switch, newly
  <2> QED
    BY <1>1, <1>8, <2>1, <2>2, EmitCount DEF Count
<1> HIDE DEF newly, premature, switch, kinds
<1> QED
  BY <1>1, <1>2, <1>3, <1>4, <1>5, <1>6, <1>7, <1>9, <1>10 DEF LatchInv, Count, LatchType, FenceType

LEMMA LatchTimeOsc ==
  ASSUME TypeOK, LatchInv, NEW p \in Positions \cup {NoValue}, TimeOsc(p)
  PROVE  LatchInv'
<1>1. CASE ~TimeOscAccepted(p)
  <2>1. emitted' = emitted /\ latch' = latch
    BY <1>1 DEF TimeOsc, TimeOscFork, TimeOscUnconfirmed, TimeOscIgnored
  <2>2. fence'.confirmed = fence.confirmed
    BY <1>1 DEF TimeOsc, TimeOscFork, TimeOscUnconfirmed, TimeOscIgnored, TypeOK, FenceType
  <2> QED
    BY <2>1, <2>2 DEF LatchInv
<1>2. CASE TimeOscAccepted(p)
  <2> DEFINE c == IF p = NoValue THEN [clock EXCEPT !.osc = now] ELSE Sampled(p)
             foreground == ProvesForeground(p)
             position == ProvesPosition(p)
             advance == ShouldAdvance(c)
             kinds == (IF foreground THEN {"foreground"} ELSE {})
                      \cup (IF position THEN {"position"} ELSE {})
                      \cup (IF advance THEN {"advance"} ELSE {})
  <2>1. foreground \in BOOLEAN /\ position \in BOOLEAN /\ advance \in BOOLEAN
    BY DEF ProvesForeground, ProvesPosition, ShouldAdvance
  <2>2. /\ foreground => ~latch.foreground
        /\ position => ~latch.position
        /\ position /\ ~latch.foreground => foreground
        /\ advance => ~latch.advance
    BY DEF ProvesForeground, ProvesPosition, ShouldAdvance
  <2>3. latch \in LatchType /\ fence \in FenceType
    BY DEF TypeOK
  <2>4. /\ latch'.foreground = (latch.foreground \/ foreground)
        /\ latch'.position = (latch.position \/ position)
        /\ latch'.advance = (latch.advance \/ advance)
        /\ latch'.transition = (latch.transition \/ advance)
    BY <1>2, <2>3 DEF TimeOscAccepted, LatchType
  <2>5. fence.confirmed /\ fence'.confirmed = fence.confirmed
    BY <1>2, <2>3 DEF TimeOscAccepted, FenceType
  <2>6. Emit(kinds)
    BY <1>2 DEF TimeOscAccepted
  <2>7. /\ emitted'["advance"] = emitted["advance"] + Count(advance)
        /\ emitted'["foreground"] = emitted["foreground"] + Count(foreground)
        /\ emitted'["position"] = emitted["position"] + Count(position)
    <3>1. {"advance", "foreground", "position"} \subseteq Events
      BY DEF Events
    <3>2. /\ ("advance" \in kinds) <=> advance
          /\ ("foreground" \in kinds) <=> foreground
          /\ ("position" \in kinds) <=> position
      BY <2>1
    <3> HIDE DEF kinds, advance, foreground, position
    <3> QED
      BY <2>1, <2>6, <3>1, <3>2, EmitCount DEF Count
  <2> HIDE DEF c, foreground, position, advance, kinds
  <2> QED
    BY <2>1, <2>2, <2>3, <2>4, <2>5, <2>7 DEF LatchInv, Count, LatchType
<1> QED
  BY <1>1, <1>2

LEMMA LatchWatchdog ==
  ASSUME TypeOK, LatchInv, Watchdog
  PROVE  LatchInv'
<1> DEFINE kinds == (IF WatchdogReportsStall THEN {"stalled"} ELSE {})
                    \cup (IF WatchdogAdvances THEN {"advance"} ELSE {})
<1>1. WatchdogAdvances \in BOOLEAN
  BY DEF WatchdogAdvances
<1>2. latch \in LatchType
  BY DEF TypeOK
<1>3. /\ latch'.foreground = latch.foreground /\ latch'.position = latch.position
      /\ latch'.advance = WatchdogAdvances
      /\ latch'.transition = (latch.transition \/ WatchdogAdvances)
  BY <1>2 DEF Watchdog, LatchType
<1>4. fence.confirmed /\ ~latch.advance /\ fence' = fence
  BY DEF Watchdog
<1>5. Emit(kinds)
  BY DEF Watchdog
<1>6. /\ emitted'["advance"] = emitted["advance"] + Count(WatchdogAdvances)
      /\ emitted'["foreground"] = emitted["foreground"]
      /\ emitted'["position"] = emitted["position"]
  <2>1. {"advance", "foreground", "position"} \subseteq Events
    BY DEF Events
  <2>2. /\ ("advance" \in kinds) <=> WatchdogAdvances
        /\ "foreground" \notin kinds /\ "position" \notin kinds
    BY <1>1
  <2> HIDE DEF kinds
  <2> QED
    BY <1>1, <1>5, <2>1, <2>2, EmitCount DEF Count
<1> QED
  BY <1>1, <1>2, <1>3, <1>4, <1>6 DEF LatchInv, Count, LatchType

LEMMA LatchInductive == TypeOK /\ LatchInv /\ [Next]_vars => LatchInv'
<1> SUFFICES ASSUME TypeOK, LatchInv, [Next]_vars PROVE LatchInv'
  OBVIOUS
<1>1. CASE FrontendCall
  <2>1. ASSUME NEW r \in Requests, RegisterPlayback(r) PROVE LatchInv'
    BY <2>1, LatchRegister
  <2>2. ASSUME NEW paused \in BOOLEAN, SetPaused(paused) PROVE LatchInv'
    BY <2>2 DEF SetPaused, LatchInv
  <2>3. ASSUME ClearState PROVE LatchInv'
    BY <2>3, LatchClear
  <2>4. ASSUME NEW fork \in BOOLEAN, DetectEngine(fork) PROVE LatchInv'
    BY <2>4 DEF DetectEngine, LatchInv
  <2> QED
    BY <1>1, <2>1, <2>2, <2>3, <2>4 DEF FrontendCall, ClearPlayback, ClearPlaybackIfUuid
<1>2. ASSUME NEW f \in Files, PathOsc(f) PROVE LatchInv'
  BY <1>2, LatchPathOsc
<1>3. ASSUME NEW p \in Positions \cup {NoValue}, TimeOsc(p) PROVE LatchInv'
  BY <1>3, LatchTimeOsc
<1>4. CASE Watchdog
  BY <1>4, LatchWatchdog
<1>5. CASE Tick \/ OscFreeze \/ UNCHANGED vars
  BY <1>5 DEF Tick, OscFreeze, vars, LatchInv
<1> QED
  BY <1>1, <1>2, <1>3, <1>4, <1>5 DEF Next, WindowClosed

\* The latches and the events agree in every reachable state.
LEMMA LatchesCorrect == Spec => []LatchInv
<1>1. Init => LatchInv
  BY DEF Init, LatchInv, Count, ClearedLatch, ClearedFence, NothingEmitted, Events
<1> QED
  BY <1>1, LatchInductive, TypeCorrect, PTL DEF Spec

\* However the seven ways to end a clip race, one advance is emitted.
THEOREM OneAdvance == Spec => []AdvanceOncePerRegistration
<1>1. LatchInv => AdvanceOncePerRegistration
  BY DEF LatchInv, Count, AdvanceOncePerRegistration
<1> QED
  BY <1>1, LatchesCorrect, PTL

\* Each confirmation is emitted once, the position never without the foreground.
THEOREM OrderedConfirmations == Spec => []ConfirmationsOrderedAndUnique
<1>1. TypeOK /\ LatchInv => ConfirmationsOrderedAndUnique
  BY DEF LatchInv, Count, ConfirmationsOrderedAndUnique, TypeOK, LatchType
<1> QED
  BY <1>1, LatchesCorrect, TypeCorrect, PTL

\* Only a clip that was seen on air is advanced away.
THEOREM ConfirmedAdvance == Spec => []AdvanceOnlyWhenConfirmed
<1>1. TypeOK /\ LatchInv => AdvanceOnlyWhenConfirmed
  BY DEF LatchInv, Count, AdvanceOnlyWhenConfirmed, TypeOK, LatchType, FenceType
<1> QED
  BY <1>1, LatchesCorrect, TypeCorrect, PTL

-----------------------------------------------------------------------------
(* No early advance *)

LEMMA GateInductive ==
  ASSUME CoherentRequests, TypeOK, GateSitsBeforeTheEnd, [Next]_vars
  PROVE  GateSitsBeforeTheEnd'
<1>1. now \in Nat /\ reg \in RegType
  BY NowType DEF TypeOK
<1>2. ASSUME NEW r \in Requests, RegisterPlayback(r) PROVE GateSitsBeforeTheEnd'
  <2>1. /\ reg'.out = OutPoint(r) /\ reg'.gate = Gate(r) /\ reg'.since = now
        /\ reg'.planned = SatSub(OutPoint(r), NormalizedElapsed(r))
    BY <1>2 DEF RegisterPlayback
  <2> QED
    BY <1>1, <2>1, GateBound DEF GateSitsBeforeTheEnd
<1>3. ASSUME ClearState PROVE GateSitsBeforeTheEnd'
  BY <1>3 DEF ClearState, GateSitsBeforeTheEnd, ClearedReg
<1>4. ASSUME NEW f \in Files, PathOsc(f) PROVE GateSitsBeforeTheEnd'
  BY <1>1, <1>4 DEF PathOsc, GateSitsBeforeTheEnd, RegType
<1>5. CASE UNCHANGED reg
  BY <1>5 DEF GateSitsBeforeTheEnd
<1> QED
  BY <1>2, <1>3, <1>4, <1>5
     DEF Next, FrontendCall, SetPaused, DetectEngine, ClearPlayback, ClearPlaybackIfUuid,
         TimeOsc, Watchdog, Tick, OscFreeze, WindowClosed, vars

\* Every way to advance waits for the gate.
LEMMA AdvanceAfterGate ==
  ASSUME TypeOK, Next, emitted'["advance"] > emitted["advance"]
  PROVE  Inferring /\ now >= reg.gate
<1>1. emitted["advance"] \in Nat
  BY DEF TypeOK, Events
<1>2. ASSUME NEW r \in Requests, RegisterPlayback(r) PROVE FALSE
  BY <1>1, <1>2 DEF RegisterPlayback, NothingEmitted, Events
<1>3. ASSUME ClearState PROVE FALSE
  BY <1>1, <1>3 DEF ClearState, NothingEmitted, Events
<1>4. ASSUME NEW f \in Files, PathOsc(f) PROVE Inferring /\ now >= reg.gate
  <2>1. PathSwitch(f)
    <3> SUFFICES ASSUME ~PathSwitch(f) PROVE FALSE
      OBVIOUS
    <3>1. \E kinds : Emit(kinds) /\ "advance" \notin kinds
      BY <1>4 DEF PathOsc
    <3> QED
      BY <1>1, <3>1, EmitCount DEF Events
  <2> QED
    BY <1>4, <2>1 DEF PathOsc, PathSwitch
<1>5. ASSUME NEW p \in Positions \cup {NoValue}, TimeOsc(p) PROVE Inferring /\ now >= reg.gate
  <2>1. TimeOscAccepted(p)
    BY <1>1, <1>5 DEF TimeOsc, TimeOscFork, TimeOscUnconfirmed, TimeOscIgnored
  <2> DEFINE c == IF p = NoValue THEN [clock EXCEPT !.osc = now] ELSE Sampled(p)
  <2>2. ShouldAdvance(c)
    <3> SUFFICES ASSUME ~ShouldAdvance(c) PROVE FALSE
      OBVIOUS
    <3>1. \E kinds : Emit(kinds) /\ "advance" \notin kinds
      BY <2>1 DEF TimeOscAccepted
    <3> QED
      BY <1>1, <3>1, EmitCount DEF Events
  <2> QED
    BY <2>1, <2>2 DEF TimeOscAccepted, ShouldAdvance
<1>6. CASE Watchdog
  <2>1. WatchdogAdvances
    <3> SUFFICES ASSUME ~WatchdogAdvances PROVE FALSE
      OBVIOUS
    <3>1. \E kinds : Emit(kinds) /\ "advance" \notin kinds
      BY <1>6 DEF Watchdog
    <3> QED
      BY <1>1, <3>1, EmitCount DEF Events
  <2> QED
    BY <1>6, <2>1 DEF Watchdog, WatchdogAdvances
<1>7. CASE UNCHANGED emitted
  BY <1>1, <1>7
<1> QED
  BY <1>2, <1>3, <1>4, <1>5, <1>6, <1>7
     DEF Next, FrontendCall, SetPaused, DetectEngine, ClearPlayback, ClearPlaybackIfUuid,
         Tick, OscFreeze, WindowClosed, vars

\* If every request's trim window covers its duration, the gate sits at most
\* the tolerance before the planned end.
THEOREM GateAtTheEnd == CoherentRequests => (Spec => []GateSitsBeforeTheEnd)
<1> SUFFICES ASSUME CoherentRequests PROVE Spec => []GateSitsBeforeTheEnd
  OBVIOUS
<1>1. Init => GateSitsBeforeTheEnd
  BY DEF Init, GateSitsBeforeTheEnd, ClearedReg
<1>2. TypeOK /\ GateSitsBeforeTheEnd /\ [Next]_vars => GateSitsBeforeTheEnd'
  BY GateInductive
<1> QED
  BY <1>1, <1>2, TypeCorrect, PTL DEF Spec

\* Under the same condition no mechanism ends a clip of known duration early.
THEOREM NoEarlyAdvance == CoherentRequests => (Spec => NeverEarly)
<1> SUFFICES ASSUME CoherentRequests PROVE Spec => NeverEarly
  OBVIOUS
<1>1. TypeOK /\ GateSitsBeforeTheEnd /\ [Next]_vars =>
        [emitted'["advance"] > emitted["advance"] =>
           /\ Inferring
           /\ reg.out # UMAX => now + EARLY_TOLERANCE >= reg.since + reg.planned]_vars
  <2> SUFFICES ASSUME TypeOK, GateSitsBeforeTheEnd, Next, emitted'["advance"] > emitted["advance"]
               PROVE  /\ Inferring
                      /\ reg.out # UMAX => now + EARLY_TOLERANCE >= reg.since + reg.planned
    OBVIOUS
  <2>1. Inferring /\ now >= reg.gate
    BY AdvanceAfterGate
  <2>2. now \in Nat /\ reg \in RegType
    BY NowType DEF TypeOK
  <2> QED
    BY <2>1, <2>2, ThresholdAssumption DEF GateSitsBeforeTheEnd, RegType
<1> QED
  BY <1>1, GateAtTheEnd, TypeCorrect, PTL DEF Spec, NeverEarly
=============================================================================
