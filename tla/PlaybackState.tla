---------------------------- MODULE PlaybackState ----------------------------
(***************************************************************************)
(* The Rust playback state (src-tauri/src/caspar.rs): the state machine    *)
(* that watches the OSC samples CasparCG sends for the program layer and   *)
(* decides, at most once per registered clip, that the rundown must        *)
(* advance.                                                                *)
(*                                                                         *)
(* Every handler of the code runs under one mutex, so each is one atomic   *)
(* action.  The callers are the frontend commands (register, pause,        *)
(* clear), the OSC listener (path and time samples) and the 250 ms         *)
(* watchdog task.  This module lets the environment send any sample at     *)
(* any time: UDP may lose, delay, repeat or reorder them.                  *)
(*                                                                         *)
(* Times are in ticks and the code's millisecond thresholds are the        *)
(* constants below.  A file stands for the basename the code compares.     *)
(***************************************************************************)
EXTENDS Naturals

CONSTANTS
  Uuids,          \* rundown rows
  Files,          \* basenames of media files
  NoUuid,         \* current_uuid = None
  NoFile,         \* an empty path / expected_next_path = None
  NoValue,        \* an absent optional number
  UMAX,           \* u64::MAX: the out point of a clip of unknown duration
  Requests,       \* the registrations the frontend may send
  Positions,      \* file positions a /file/time sample may carry
  ADVANCE_THRESHOLD, POSITION_RESET_WINDOW, POSITION_RESET_MAX_WAIT,
  POSITION_RESET_MAX_IGNORED, PREMATURE_SWITCH_MARGIN, PLAYBACK_WATCHDOG,
  EOF_GAP, EOF_NEAR, STALL_TICKS, STALL_NEAR, FRAME_ZERO_TICKS,
  LONG_CLIP, EARLY_TOLERANCE, SAMPLE_STEP, MOVE_EPSILON,
  MaxNow,         \* bound on the monotonic clock
  CallsBy,        \* the frontend calls, and OSC freezes, only up to this time
  MaxCalls        \* bound on the number of frontend calls

Request ==
  [uuid : Uuids, gen : Nat, file : Files \cup {NoFile}, next : Files \cup {NoFile},
   dur : Nat, trimIn : Nat, trimOut : Nat \cup {NoValue},
   adopted : BOOLEAN, elapsed : Nat]

ASSUME SentinelAssumption ==
  NoUuid \notin Uuids /\ NoFile \notin Files /\ NoValue \notin Nat

ASSUME InputAssumption ==
  /\ Positions \subseteq Nat
  /\ \A r \in Requests : r \in Request /\ r.dur < UMAX
  /\ UMAX \in Nat \ {0}

ASSUME ThresholdAssumption ==
  /\ ADVANCE_THRESHOLD \in Nat /\ POSITION_RESET_WINDOW \in Nat
  /\ POSITION_RESET_MAX_WAIT \in Nat /\ POSITION_RESET_MAX_IGNORED \in Nat
  /\ PREMATURE_SWITCH_MARGIN \in Nat /\ PLAYBACK_WATCHDOG \in Nat
  /\ EOF_GAP \in Nat /\ EOF_NEAR \in Nat /\ STALL_TICKS \in Nat \ {0}
  /\ STALL_NEAR \in Nat /\ FRAME_ZERO_TICKS \in Nat /\ LONG_CLIP \in Nat
  /\ EARLY_TOLERANCE \in Nat /\ SAMPLE_STEP \in Nat /\ MOVE_EPSILON \in Nat
  /\ STALL_TICKS <= FRAME_ZERO_TICKS

ASSUME BoundAssumption == MaxNow \in Nat /\ CallsBy \in Nat /\ MaxCalls \in Nat

VARIABLES
  now,      \* now_ms(): process-local monotonic time
  reg,      \* what the frontend registered, and the gate derived from it;
            \* planned is history: how much of the clip was left to play
  mode,     \* is_playing, is_paused and fork.is_fork()
  fence,    \* path confirmation and the wait for the new clip's first position
  clock,    \* the position tracking fed by /file/time
  latch,    \* the one-shot flags of the registration
  emitted,  \* history: events emitted for the current registration
  calls,    \* history: frontend calls so far
  oscUp     \* the engine still sends OSC

vars == <<now, reg, mode, fence, clock, latch, emitted, calls, oscUp>>

Events == {"advance", "foreground", "position", "stalled", "premature"}

SatSub_Plain(a, b) == a - b
SatSub(a, b) == IF a >= b THEN a - b ELSE 0
AtMost(n, cap) == IF n <= cap THEN n ELSE cap

-----------------------------------------------------------------------------
\* clear_playback_state: everything except the engine mode.
ClearedReg ==
  [uuid |-> NoUuid, gen |-> 0, file |-> NoFile, next |-> NoFile, outgoing |-> NoFile,
   trimIn |-> 0, trimOut |-> 0, out |-> UMAX, gate |-> 0, since |-> 0, planned |-> 0]
ClearedFence == [confirmed |-> TRUE, awaiting |-> FALSE, ignored |-> 0, observed |-> NoFile]
ClearedClock ==
  [pos |-> 0, last |-> 0, lastObserved |-> 0, samples |-> 0, stalled |-> 0, ever |-> FALSE, osc |-> 0]
ClearedLatch ==
  [advance |-> FALSE, transition |-> FALSE, stall |-> FALSE, premature |-> FALSE,
   foreground |-> FALSE, position |-> FALSE]
NothingEmitted == [e \in Events |-> 0]

Init ==
  /\ now = 0
  /\ reg = ClearedReg
  /\ mode = [playing |-> FALSE, paused |-> FALSE, fork |-> FALSE]
  /\ fence = ClearedFence
  /\ clock = ClearedClock
  /\ latch = ClearedLatch
  /\ emitted = NothingEmitted
  /\ calls = 0
  /\ oscUp = TRUE

Emit(kinds) == emitted' = [e \in Events |-> emitted[e] + (IF e \in kinds THEN 1 ELSE 0)]

-----------------------------------------------------------------------------
(* caspar_register_playback and register_playback_internal *)

OutPoint(r) == IF r.dur = 0 THEN UMAX ELSE r.dur
TrimOut(r) ==
  IF r.trimOut # NoValue THEN r.trimOut
  ELSE r.trimIn + (IF OutPoint(r) # UMAX THEN OutPoint(r) ELSE r.dur)

\* The content length the gate is computed from.
EffectiveDuration(trimIn, trimOut, out) ==
  IF SatSub(trimOut, trimIn) = 0 THEN out ELSE SatSub(trimOut, trimIn)

NormalizedElapsed(r) == IF r.adopted THEN SatSub(r.elapsed, r.trimIn) ELSE 0

Remaining_AbsoluteElapsed(r) ==
  SatSub(EffectiveDuration(r.trimIn, TrimOut(r), OutPoint(r)), r.elapsed)
Remaining(r) ==
  SatSub(EffectiveDuration(r.trimIn, TrimOut(r), OutPoint(r)), NormalizedElapsed(r))

EarlyTolerance(effective) == IF effective >= LONG_CLIP THEN EARLY_TOLERANCE ELSE 0

\* An unknown duration does not gate the path switch or the watchdog.
Gate(r) ==
  IF OutPoint(r) = UMAX THEN now
  ELSE now + SatSub(Remaining(r),
                    EarlyTolerance(EffectiveDuration(r.trimIn, TrimOut(r), OutPoint(r))))

\* The path switch already showed this clip on air before it was registered.
TransitionObserved(r) == fence.observed # NoFile /\ fence.observed = r.file
SameFileTransition(r) == latch.transition /\ reg.file # NoFile /\ reg.file = r.file

ConfirmedAtRegistration(r) ==
  r.adopted \/ reg.file = NoFile \/ TransitionObserved(r) \/ SameFileTransition(r)
ForegroundConfirmedNow(r) ==
  r.adopted \/ (ConfirmedAtRegistration(r) /\ ~SameFileTransition(r))

RegisterPlayback(r) ==
  /\ reg' = [uuid |-> r.uuid, gen |-> r.gen, file |-> r.file, next |-> r.next,
             outgoing |-> IF ConfirmedAtRegistration(r) THEN NoFile ELSE reg.file,
             trimIn |-> r.trimIn, trimOut |-> TrimOut(r), out |-> OutPoint(r),
             gate |-> Gate(r), since |-> now,
             planned |-> SatSub(OutPoint(r), NormalizedElapsed(r))]
  /\ mode' = [mode EXCEPT !.playing = TRUE, !.paused = FALSE]
  /\ fence' = [confirmed |-> ConfirmedAtRegistration(r), awaiting |-> ~r.adopted,
               ignored |-> 0, observed |-> NoFile]
  /\ LET elapsed == NormalizedElapsed(r)
     IN  clock' = [pos |-> elapsed, last |-> elapsed, lastObserved |-> elapsed,
                   samples |-> IF r.adopted THEN 2 ELSE 0, stalled |-> 0,
                   ever |-> r.adopted /\ elapsed > 0, osc |-> now]
  /\ latch' = [ClearedLatch EXCEPT !.foreground = ForegroundConfirmedNow(r), !.position = r.adopted]
  /\ emitted' = [NothingEmitted EXCEPT !["foreground"] = IF ForegroundConfirmedNow(r) THEN 1 ELSE 0,
                                       !["position"] = IF r.adopted THEN 1 ELSE 0]
  /\ UNCHANGED <<now, oscUp>>

(* caspar_set_playback_paused: a resume restarts the OSC silence clock. *)
SetPaused(paused) ==
  /\ mode' = [mode EXCEPT !.paused = paused]
  /\ clock' = IF paused THEN clock ELSE [clock EXCEPT !.osc = now]
  /\ UNCHANGED <<now, reg, fence, latch, emitted, oscUp>>

ClearState ==
  /\ reg' = ClearedReg
  /\ mode' = [mode EXCEPT !.playing = FALSE, !.paused = FALSE]
  /\ fence' = [ClearedFence EXCEPT !.ignored = fence.ignored]
  /\ clock' = ClearedClock
  /\ latch' = ClearedLatch
  /\ emitted' = NothingEmitted
  /\ UNCHANGED <<now, oscUp>>

(* caspar_clear_playback and caspar_clear_playback_if_uuid *)
ClearPlayback == ClearState
ClearPlaybackIfUuid(uuid) == reg.uuid = uuid /\ ClearState

(* caspar_engine_detect: a reconnect may find a stock or a fork server. *)
DetectEngine(fork) ==
  /\ mode' = [mode EXCEPT !.fork = fork]
  /\ UNCHANGED <<now, reg, fence, clock, latch, emitted, oscUp>>

FrontendCall ==
  /\ now <= CallsBy /\ calls < MaxCalls
  /\ calls' = calls + 1
  /\ \/ \E r \in Requests : RegisterPlayback(r)
     \/ \E paused \in BOOLEAN : SetPaused(paused)
     \/ ClearPlayback
     \/ \E uuid \in Uuids : ClearPlaybackIfUuid(uuid)
     \/ \E fork \in BOOLEAN : DetectEngine(fork)

-----------------------------------------------------------------------------
(* handle_playback_path_osc *)

\* The stock inference listens to OSC.
Inferring == mode.playing /\ ~mode.paused /\ ~mode.fork

ConfirmedBy(f) == fence.confirmed \/ reg.file = NoFile \/ f = reg.file

\* is_premature_switch_observation: until the registered clip was seen, a
\* path naming the outgoing file is that clip's tail.
PrematureSwitchObservation(f) ==
  /\ reg.file # NoFile /\ f = reg.next /\ f # reg.file
  /\ ~(~ConfirmedBy(f) /\ reg.outgoing # NoFile /\ f = reg.outgoing)

PrematureAutoSwitch == reg.gate # 0 /\ now + PREMATURE_SWITCH_MARGIN < reg.gate

PathSwitch_NoLatch(f) ==
  reg.next # NoFile /\ reg.file # NoFile /\ ConfirmedBy(f) /\ f = reg.next /\ f # reg.file /\ now >= reg.gate
PathSwitch_Unconfirmed(f) ==
  /\ reg.next # NoFile /\ reg.file # NoFile /\ f = reg.next /\ f # reg.file
  /\ now >= reg.gate /\ ~latch.transition
PathSwitch(f) ==
  /\ reg.next # NoFile /\ reg.file # NoFile
  /\ ConfirmedBy(f) /\ f = reg.next /\ f # reg.file
  /\ now >= reg.gate
  /\ ~latch.transition

PathOsc(f) ==
  /\ oscUp /\ Inferring
  /\ LET confirmed == ConfirmedBy(f)
         newly == confirmed /\ ~fence.confirmed /\ ~latch.foreground
         premature == /\ reg.next # NoFile /\ ~latch.premature
                      /\ PrematureSwitchObservation(f) /\ PrematureAutoSwitch
         switch == PathSwitch(f)
     IN  /\ fence' = [fence EXCEPT !.confirmed = confirmed,
                                   !.observed = IF switch THEN f ELSE @]
         /\ reg' = IF switch THEN [reg EXCEPT !.next = NoFile] ELSE reg
         /\ latch' = [latch EXCEPT !.foreground = @ \/ newly,
                                   !.premature = @ \/ premature,
                                   !.advance = @ \/ switch,
                                   !.transition = @ \/ switch]
         /\ Emit((IF premature THEN {"premature"} ELSE {})
                 \cup (IF switch THEN {"advance"} ELSE {})
                 \cup (IF newly /\ ~switch THEN {"foreground"} ELSE {}))
  /\ UNCHANGED <<now, mode, clock, calls, oscUp>>

-----------------------------------------------------------------------------
(* handle_playback_osc: a /file/time sample, p = NoValue when it carries no position *)

\* Fork mode: only the clock runs.
TimeOscFork(p) ==
  /\ mode.playing /\ ~mode.paused /\ mode.fork
  /\ clock' = [clock EXCEPT !.osc = now,
                            !.pos = IF p = NoValue THEN @ ELSE SatSub(p, reg.trimIn)]
  /\ UNCHANGED <<fence, latch, emitted>>

\* The outgoing clip's samples only keep the watchdog quiet.
TimeOscUnconfirmed ==
  /\ Inferring /\ ~fence.confirmed
  /\ clock' = [clock EXCEPT !.osc = now]
  /\ UNCHANGED <<fence, latch, emitted>>

InResetWindow(p) ==
  p # NoValue /\ reg.trimIn <= p /\ p <= reg.trimIn + POSITION_RESET_WINDOW

\* should_abandon_position_reset_wait, counting the sample at hand
AbandonResetWait ==
  \/ now - reg.since >= POSITION_RESET_MAX_WAIT
  \/ fence.ignored + 1 >= POSITION_RESET_MAX_IGNORED

TimeOscIgnored(p) ==
  /\ Inferring /\ fence.confirmed /\ fence.awaiting
  /\ p = NoValue \/ (~InResetWindow(p) /\ ~AbandonResetWait)
  /\ fence' = [fence EXCEPT !.ignored = IF p = NoValue THEN @ ELSE @ + 1]
  /\ clock' = [clock EXCEPT !.osc = now]
  /\ UNCHANGED <<latch, emitted>>

\* The position, progress and stall bookkeeping of one accepted sample.  The
\* counters stop where nothing tells larger values apart.
Sampled(p) ==
  LET pos == SatSub(p, reg.trimIn)
      progressed == pos >= clock.lastObserved + SAMPLE_STEP
      moved == pos > clock.last + MOVE_EPSILON
  IN  [pos |-> pos, last |-> pos, osc |-> now,
       lastObserved |-> IF progressed THEN pos ELSE clock.lastObserved,
       samples |-> IF progressed THEN AtMost(clock.samples + 1, 2) ELSE clock.samples,
       ever |-> clock.ever \/ moved,
       stalled |-> IF moved THEN 0
                   ELSE IF clock.ever /\ pos = clock.last
                        THEN AtMost(clock.stalled + 1, FRAME_ZERO_TICKS)
                        ELSE clock.stalled]

\* playback_should_advance
ShouldAdvance(c) ==
  /\ ~latch.advance
  /\ c.pos > 0 /\ reg.out > 0
  /\ c.pos >= SatSub(reg.out, ADVANCE_THRESHOLD)
  /\ now >= reg.gate
  /\ c.samples >= (IF EffectiveDuration(reg.trimIn, reg.trimOut, reg.out) >= LONG_CLIP THEN 2 ELSE 1)

\* The first accepted sample proves the clip on air, whichever way the wait ended.
ProvesForeground_WindowOnly(p) == fence.awaiting /\ ~latch.foreground /\ InResetWindow(p)
ProvesForeground(p) == fence.awaiting /\ ~latch.foreground
ProvesPosition(p) == fence.awaiting /\ ~latch.position

TimeOscAccepted(p) ==
  /\ Inferring /\ fence.confirmed
  /\ fence.awaiting => p # NoValue /\ (InResetWindow(p) \/ AbandonResetWait)
  /\ LET c == IF p = NoValue THEN [clock EXCEPT !.osc = now] ELSE Sampled(p)
         foreground == ProvesForeground(p)
         position == ProvesPosition(p)
         advance == ShouldAdvance(c)
     IN  /\ clock' = c
         /\ fence' = [fence EXCEPT !.awaiting = FALSE,
                                   !.ignored = IF fence.awaiting /\ ~InResetWindow(p) THEN @ + 1 ELSE @]
         /\ latch' = [latch EXCEPT !.foreground = @ \/ foreground,
                                   !.position = @ \/ position,
                                   !.advance = @ \/ advance,
                                   !.transition = @ \/ advance]
         /\ Emit((IF foreground THEN {"foreground"} ELSE {})
                 \cup (IF position THEN {"position"} ELSE {})
                 \cup (IF advance THEN {"advance"} ELSE {}))

TimeOsc(p) ==
  /\ oscUp
  /\ \/ TimeOscFork(p)
     \/ TimeOscUnconfirmed
     \/ TimeOscIgnored(p)
     \/ TimeOscAccepted(p)
  /\ UNCHANGED <<now, reg, mode, calls, oscUp>>

-----------------------------------------------------------------------------
(* spawn_playback_watchdog: one iteration of the 250 ms loop *)

Gap == SatSub(now, clock.osc)

\* The silence is long and the clip should have ended by now.
DeadlineFallback_NeedsPosition ==
  /\ Gap >= PLAYBACK_WATCHDOG /\ reg.out # UMAX /\ clock.pos > 0
  /\ now >= clock.osc + SatSub(reg.out, clock.pos)
DeadlineFallback ==
  /\ Gap >= PLAYBACK_WATCHDOG /\ reg.out # UMAX
  /\ now >= clock.osc + SatSub(reg.out, clock.pos)
\* A shorter silence close to the end.
EofWatchdog ==
  /\ Gap < PLAYBACK_WATCHDOG /\ Gap >= EOF_GAP
  /\ clock.pos > 0 /\ reg.out > 0 /\ reg.out # UMAX
  /\ clock.pos >= SatSub(reg.out, EOF_NEAR)
\* Samples keep coming but the position stands still near the end.
EofPositionStall ==
  /\ clock.ever /\ clock.stalled >= STALL_TICKS /\ reg.out # UMAX
  /\ clock.pos >= SatSub(reg.out, STALL_NEAR)
FrameZeroStall == ~clock.ever /\ clock.stalled >= FRAME_ZERO_TICKS /\ clock.pos = 0

WatchdogAdvances_NoGate ==
  DeadlineFallback \/ EofWatchdog \/ EofPositionStall \/ FrameZeroStall
WatchdogAdvances ==
  /\ now >= reg.gate
  /\ DeadlineFallback \/ EofWatchdog \/ EofPositionStall \/ FrameZeroStall

WatchdogReportsStall == Gap >= PLAYBACK_WATCHDOG /\ ~latch.stall

Watchdog ==
  /\ Inferring /\ fence.confirmed /\ reg.uuid # NoUuid /\ ~latch.advance
  /\ WatchdogAdvances \/ WatchdogReportsStall
  /\ latch' = [latch EXCEPT !.stall = @ \/ WatchdogReportsStall,
                            !.advance = WatchdogAdvances,
                            !.transition = @ \/ WatchdogAdvances]
  /\ Emit((IF WatchdogReportsStall THEN {"stalled"} ELSE {})
          \cup (IF WatchdogAdvances THEN {"advance"} ELSE {}))
  /\ UNCHANGED <<now, reg, mode, fence, clock, calls, oscUp>>

-----------------------------------------------------------------------------
(* The environment *)

Tick ==
  /\ now < MaxNow
  /\ now' = now + 1
  /\ UNCHANGED <<reg, mode, fence, clock, latch, emitted, calls, oscUp>>

\* External: CasparCG stops sending OSC for good.
OscFreeze ==
  /\ oscUp /\ now <= CallsBy
  /\ oscUp' = FALSE
  /\ UNCHANGED <<now, reg, mode, fence, clock, latch, emitted, calls>>

\* The bounded clock has run out.
WindowClosed == now = MaxNow /\ UNCHANGED vars

Next ==
  \/ FrontendCall
  \/ \E f \in Files : PathOsc(f)
  \/ \E p \in Positions \cup {NoValue} : TimeOsc(p)
  \/ Watchdog
  \/ Tick
  \/ OscFreeze
  \/ WindowClosed

Spec == Init /\ [][Next]_vars

\* The watchdog task loops for ever and time passes.
Fairness == WF_vars(Watchdog) /\ WF_vars(Tick)
FairSpec == Spec /\ Fairness

-----------------------------------------------------------------------------
(* Properties *)

RegType ==
  [uuid : Uuids \cup {NoUuid}, gen : Nat, file : Files \cup {NoFile},
   next : Files \cup {NoFile}, outgoing : Files \cup {NoFile},
   trimIn : Nat, trimOut : Nat, out : Nat, gate : Nat, since : Nat, planned : Nat]
ModeType == [playing : BOOLEAN, paused : BOOLEAN, fork : BOOLEAN]
FenceType ==
  [confirmed : BOOLEAN, awaiting : BOOLEAN, ignored : Nat, observed : Files \cup {NoFile}]
ClockType ==
  [pos : Nat, last : Nat, lastObserved : Nat, samples : Nat, stalled : Nat,
   ever : BOOLEAN, osc : Nat]
LatchType ==
  [advance : BOOLEAN, transition : BOOLEAN, stall : BOOLEAN, premature : BOOLEAN,
   foreground : BOOLEAN, position : BOOLEAN]

\* Every number of the playback state is a u64: no subtraction goes below zero.
TypeOK ==
  /\ now \in 0..MaxNow
  /\ reg \in RegType /\ mode \in ModeType /\ fence \in FenceType
  /\ clock \in ClockType /\ latch \in LatchType
  /\ emitted \in [Events -> Nat]
  /\ calls \in 0..MaxCalls
  /\ oscUp \in BOOLEAN

\* "Exactly one advance per item": the path switch, the position check and
\* the four watchdog fallbacks race for the end of a clip, each with its own
\* latch, and between them emit caspar://advance at most once per registration.
AdvanceOncePerRegistration == emitted["advance"] <= 1

\* The frontend arms the next LOADBG on the position confirmation and takes
\* the foreground one as the weaker evidence: each is sent at most once per
\* registration, from whichever of register, path and time handlers comes
\* first, and never the position without the foreground.
ConfirmationsOrderedAndUnique ==
  /\ emitted["foreground"] <= 1
  /\ emitted["position"] <= emitted["foreground"]

\* A clip that never proved to be on air is never advanced away: after the
\* registration of a new clip the outgoing one's path, position and silence
\* cannot end it.
AdvanceOnlyWhenConfirmed == emitted["advance"] > 0 => fence.confirmed

\* Whatever the samples say, no mechanism ends a clip of known duration before
\* what was left of it at registration, less the early tolerance, has passed
\* on the monotonic clock, and none ends a paused clip or a fork clip.
NeverEarly ==
  [][emitted'["advance"] > emitted["advance"] =>
       /\ Inferring
       /\ reg.out # UMAX => now + EARLY_TOLERANCE >= reg.since + reg.planned]_vars

\* "an OSC freeze cannot hang the rundown": once CasparCG stays silent, a
\* confirmed clip of known duration that keeps running is advanced.
FreezeEndsInAdvance ==
  <>[](~oscUp /\ Inferring /\ fence.confirmed /\ reg.out # UMAX) => []<>latch.advance

\* PREMATURE_SWITCH_MARGIN_MS: "The gate itself already sits 300 ms before the
\* expected end".  It does for requests whose trim window covers their
\* duration; a take whose row has no resolved duration sends a relative trim
\* OUT, and its gate opens too early by the whole trim IN.
GateSitsBeforeTheEnd ==
  reg.out # UMAX => reg.gate + EARLY_TOLERANCE >= reg.since + reg.planned

\* What the frontend must keep for the gate to be right: the trim window of
\* every registration is at least as long as the duration it states.
CoherentRequests ==
  \A r \in Requests :
    EffectiveDuration(r.trimIn, TrimOut(r), OutPoint(r)) >= OutPoint(r)
=============================================================================
