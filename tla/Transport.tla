------------------------------ MODULE Transport ------------------------------
(***************************************************************************)
(* The transport of the frontend playout service (src/services/caspar.ts,  *)
(* with dispatchPlay and dispatchLoadbg of src/lib/playoutDispatch.ts) on  *)
(* a stock CasparCG: takes, plays, stops, rundown edits and automatic      *)
(* advances, each an asynchronous function that gives up control at every  *)
(* await, over the state they share.                                       *)
(*                                                                         *)
(* An activation is one such call in flight; its pc names the await it     *)
(* stands at, and one action runs it to its next await.  A command or      *)
(* invoke takes effect when it is issued and its answer is a later step.   *)
(* The Rust playback state (PlaybackState) is reduced to what it tells the *)
(* frontend; the program layer of CasparCG is external.  The connection    *)
(* stays up; rows are video clips with distinct files.                     *)
(***************************************************************************)
EXTENDS Naturals, Sequences, FiniteSets, TLC, SequencesExt, FiniteSetsExt

CONSTANTS
  Rows,                   \* rundown rows
  NoRow,                  \* null: no row, no file, an empty layer
  Over,                   \* history: the requested row has had its run
  Rundown,                \* the order the service starts with
  Edits,                  \* the orders an edit may leave behind
  Failing,                \* rows the pre-flight or the engine refuses
  Overlong,               \* rows recorded as longer than their file
  Commands,               \* what the operator may do
  MaxCommands,            \* bound on the operator's commands
  MAX_CONSECUTIVE_SKIPS,
  DISPATCH_RETRY_ATTEMPTS,
  Windows                 \* the race windows below that a run leaves open

\* What may happen when a window is open
\*   "slow":     a dispatch takes longer than the first-frame timeout
\*   "stopping": the operator acts before a stop has cleared the layer
\*   "skipping": the operator acts before a row that fails has been skipped
\*   "busy":     the rundown is edited while a call is in flight
\*   "late":     the answer to a superseded registration comes after a newer registration
\*   "long":     an advance is still in flight when the next clip is near its end
\*   "last":     an edit leaves the row on air, its successor already loaded, the last one
\*   "crossing": a call is in flight, or an edit comes, when the clip on air ends
\*   "unseen":   no sample of the last moments of the clip on air has reached Rust
AllWindows == {"slow", "stopping", "skipping", "busy", "late", "long", "last", "crossing",
               "unseen"}

ASSUME RowAssumption ==
  /\ NoRow \notin Rows /\ Over \notin Rows /\ Over # NoRow
  /\ Failing \subseteq Rows /\ Overlong \subseteq Rows
  /\ \A q \in Edits \cup {Rundown} : q \in Seq(Rows) /\ IsInjective(q)
ASSUME BoundAssumption ==
  /\ MaxCommands \in Nat
  /\ MAX_CONSECUTIVE_SKIPS \in Nat \ {0} /\ DISPATCH_RETRY_ATTEMPTS \in Nat \ {0}
ASSUME SwitchAssumption ==
  Windows \subseteq AllWindows /\ Commands \subseteq {"take", "play", "stop", "edit"}

VARIABLES
  js,      \* the module state of caspar.ts
  acts,    \* activations in flight
  rust,    \* what the Rust playback state holds of the registration
  events,  \* events from Rust not yet delivered to the frontend
  eng,     \* the program layer of CasparCG: foreground, its phase, background
  asked,   \* history: what the operator last asked for, Over once it had its run
  used,    \* history: the operator's commands so far
  aired    \* history: the rows that have rendered a frame

vars == <<js, acts, rust, events, eng, asked, used, aired>>

\* One call in flight.  behind is the on-air row a gated preload waits for;
\* proof and fg: the confirmation of its row's first frame, of its path, has come.
NoAct ==
  [pc |-> "done", kind |-> "none", row |-> NoRow, next |-> NoRow, behind |-> NoRow, idx |-> 0,
   token |-> 0, gen |-> 0, epoch |-> 0, attempt |-> 1, advance |-> FALSE, manual |-> FALSE,
   proof |-> FALSE, fg |-> FALSE]

NotLoading == [row |-> NoRow, epoch |-> 0]

Init ==
  /\ js = [token |-> 0, key |-> NoRow, proven |-> NoRow, playing |-> FALSE,
           advancing |-> FALSE, armed |-> {}, epoch |-> 0, loading |-> NotLoading,
           dedup |-> NoRow, guard |-> {}, queue |-> Rundown, flagged |-> {},
           skips |-> 0, coordGen |-> 0, onAir |-> NoRow]
  /\ acts = {}
  /\ rust = [row |-> NoRow, gen |-> 0, next |-> NoRow, confirmed |-> TRUE,
             position |-> FALSE, fired |-> FALSE, observed |-> NoRow]
  /\ events = <<>>
  /\ eng = [fg |-> NoRow, phase |-> "empty", bg |-> NoRow]
  /\ asked = Over
  /\ used = 0
  /\ aired = {}

-----------------------------------------------------------------------------
(* Helpers over the module state j *)

IndexIn(q, r) == IF Contains(q, r) THEN CHOOSE i \in DOMAIN q : q[i] = r ELSE 0
RowAt(q, i) == IF i \in DOMAIN q THEN q[i] ELSE NoRow
Successor(q, r) == IF Contains(q, r) THEN RowAt(q, IndexIn(q, r) + 1) ELSE NoRow

\* claimCurrentKey: the first-frame proof belongs to one claim.
Claim(j, r) == [j EXCEPT !.key = r, !.proven = NoRow]

InvalidatePreloads_KeepArmed(j) == [j EXCEPT !.epoch = @ + 1]
InvalidatePreloads(j) == [j EXCEPT !.epoch = @ + 1, !.armed = {}]

\* stop(), up to its first await
StopNow(j) ==
  Claim([InvalidatePreloads(j) EXCEPT
           !.token = @ + 1, !.guard = {}, !.coordGen = @ + 1, !.onAir = NoRow,
           !.playing = FALSE], NoRow)

\* A call returns: the advance flag is released by the call that took it.
Returned(j, a) == [j EXCEPT !.advancing = @ /\ ~a.advance]

\* The step of activation a leaves module state j and goes on as b.
Goes(a, j, b) ==
  /\ js' = IF b.pc = "done" THEN Returned(j, a) ELSE j
  /\ acts' = (acts \ {a}) \cup ({b} \ {NoAct})
Ends(a) == Goes(a, js, NoAct)

\* What a synchronous function does: the state it leaves and the activation it becomes.
Result(j, b) == [js |-> j, act |-> b]

Stopping(j, advance) ==
  Result(StopNow(j), [NoAct EXCEPT !.pc = "clear", !.kind = "stop", !.token = j.token + 1,
                                   !.advance = advance])

\* playItemAt up to its first await: rows flagged with an error are skipped by index.
PlayItemAt(j, i, manual, advance) ==
  LET playable == {k \in DOMAIN j.queue : k >= i /\ j.queue[k] \notin j.flagged}
  IN  IF playable = {} THEN Stopping(j, advance)
      ELSE LET k == Min(playable)
           IN  Result(Claim(j, j.queue[k]),
                      [NoAct EXCEPT !.pc = "resolve", !.kind = "item", !.row = j.queue[k], !.idx = k,
                                    !.token = j.token, !.manual = manual, !.advance = advance])

\* The timer that skips a failed row.
Skip_Never(a) == NoAct
Skip(a) == [NoAct EXCEPT !.pc = "skip", !.kind = "skip", !.token = a.token]

\* advanceToNext, up to its first await
AdvanceToNext(j, natural) ==
  LET b == [j EXCEPT !.advancing = TRUE, !.guard = @ \ {j.key}, !.token = @ + 1]
      next == Successor(j.queue, j.key)
      i == IndexIn(j.queue, j.key) + 1
      taken == [b EXCEPT !.armed = @ \ {next}]
  IN  IF j.advancing THEN Result(j, NoAct)
      ELSE IF j.key = NoRow \/ next = NoRow THEN Stopping(b, TRUE)
      ELSE IF ~(natural /\ next \in j.armed) THEN PlayItemAt(b, i, FALSE, TRUE)
      ELSE IF next \in j.flagged THEN Result([taken EXCEPT !.advancing = FALSE], Skip([token |-> b.token]))
      ELSE Result(taken, [NoAct EXCEPT !.pc = "resolve", !.kind = "natural", !.row = next, !.idx = i,
                                       !.token = b.token, !.advance = TRUE])

\* advanceNext(true, source): only the row claimed as current advances, and
\* once within the dedup window.
AdvanceNatural(j, source) ==
  IF source # j.key \/ source = j.dedup THEN Result(j, NoAct)
  ELSE AdvanceToNext([j EXCEPT !.dedup = source], TRUE)

\* The part of preloadNextItemAt behind its first-frame gate: the row is
\* taken by index from the queue of the moment.
Preload(j, a, r) ==
  IF r = NoRow \/ r \in j.flagged \/ r \in j.armed \/ j.loading = [row |-> r, epoch |-> j.epoch]
  THEN Result(j, NoAct)
  ELSE Result([j EXCEPT !.loading = [row |-> r, epoch |-> j.epoch]],
              [NoAct EXCEPT !.pc = "loadbg", !.kind = "preload", !.row = r, !.token = a.token,
                            !.epoch = j.epoch, !.advance = a.advance])

-----------------------------------------------------------------------------
(* What the operator does *)

Allowed(command) ==
  /\ command \in Commands /\ used < MaxCommands
  /\ "stopping" \in Windows \/ \A a \in acts : a.kind # "stop"
  /\ "skipping" \in Windows \/ \A a \in acts : a.kind # "skip"
  /\ command = "edit" => "busy" \in Windows \/ acts = {}
Commanded(r) ==
  /\ asked' = r
  /\ used' = used + 1
  /\ UNCHANGED <<rust, events, eng, aired>>

\* take() and the synchronous start of playItemWithIntent
Take(r) ==
  /\ Allowed("take")
  /\ Contains(js.queue, r) /\ r \notin js.flagged
  /\ LET j == [Claim(InvalidatePreloads(js), r) EXCEPT
                 !.token = @ + 1, !.coordGen = @ + 1, !.guard = {}, !.dedup = NoRow]
     IN  /\ js' = j
         /\ acts' = acts \cup
              {[NoAct EXCEPT !.pc = "prepare", !.kind = "take", !.row = r, !.idx = IndexIn(j.queue, r),
                             !.next = Successor(j.queue, r), !.token = j.token, !.gen = j.coordGen]}
  /\ Commanded(r)

\* play(items, startIndex): on a live connection it runs to playItemAt's first await.
Play(r) ==
  /\ Allowed("play")
  /\ Contains(js.queue, r) /\ r \notin js.flagged
  /\ LET j == [Claim(InvalidatePreloads(js), r) EXCEPT !.token = @ + 1, !.guard = {}, !.dedup = NoRow]
         start == PlayItemAt(j, IndexIn(j.queue, r), TRUE, FALSE)
     IN  js' = start.js /\ acts' = acts \cup {start.act}
  /\ Commanded(r)

Stop ==
  /\ Allowed("stop")
  /\ LET stopping == Stopping(js, FALSE)
     IN  js' = stopping.js /\ acts' = acts \cup {stopping.act}
  /\ Commanded(NoRow)

\* refreshQueue after a rundown edit: q must still hold the on-air row, and an
\* armed successor that stays the successor is kept.
Rearm_Never(j, next) == Result(j, NoAct)
Rearm(j, next) ==
  Result(j, [NoAct EXCEPT !.pc = "gate", !.kind = "preload", !.row = next, !.behind = j.key,
                          !.token = j.token, !.epoch = j.epoch])
RefreshQueue(q) ==
  LET next == Successor(q, js.key)
      j == InvalidatePreloads([js EXCEPT !.queue = q])
  IN  IF ~js.playing \/ js.key = NoRow THEN Result(j, NoAct)
      ELSE IF ~Contains(q, js.key) THEN Result(js, NoAct)
      ELSE IF next = NoRow THEN Result(j, NoAct)
      ELSE IF next \in js.armed THEN Result([js EXCEPT !.queue = q], NoAct)
      ELSE IF next \in js.flagged THEN Result(j, NoAct)
      ELSE Rearm(j, next)

Edit(q) ==
  /\ Allowed("edit") /\ q # js.queue
  /\ "crossing" \in Windows \/ js.playing => eng.fg = js.key /\ eng.phase \in {"loading", "playing"}
  /\ "last" \in Windows \/ eng.bg = NoRow \/ Successor(q, js.key) # NoRow
  /\ LET refreshed == RefreshQueue(q)
     IN  js' = refreshed.js /\ acts' = acts \cup ({refreshed.act} \ {NoAct})
  /\ used' = used + 1
  /\ UNCHANGED <<rust, events, eng, asked, aired>>

Operator ==
  \/ \E r \in Rows : Take(r) \/ Play(r)
  \/ Stop
  \/ \E q \in Edits : Edit(q)

-----------------------------------------------------------------------------
(* What the frontend asks of Rust and of the engine *)

Emit(e) == events' = events \o e

\* register_playback_internal: confirmed at once when nothing was registered,
\* when the path switch already showed the row, or on a re-registration of the
\* row whose end was already signalled.
Register(r, generation, next) ==
  LET signalled == rust.fired /\ rust.row = r
      confirmed == rust.row = NoRow \/ rust.observed = r \/ signalled
  IN  /\ rust' = [row |-> r, gen |-> generation, next |-> next, confirmed |-> confirmed,
                  position |-> FALSE, fired |-> FALSE, observed |-> NoRow]
      /\ Emit(IF confirmed /\ ~signalled
              THEN <<[kind |-> "foreground", row |-> r, gen |-> generation]>> ELSE <<>>)

Cleared == [row |-> NoRow, gen |-> 0, next |-> NoRow, confirmed |-> TRUE,
            position |-> FALSE, fired |-> FALSE, observed |-> NoRow]

PLAY(r) == eng' = [fg |-> r, phase |-> "loading", bg |-> NoRow]
LOADBG_AUTO(r) == eng' = [eng EXCEPT !.bg = r]
CLEAR == eng' = [fg |-> NoRow, phase |-> "empty", bg |-> NoRow]

\* A newer request owns the channel.
Superseded(a) == a.token # js.token \/ (a.kind = "take" /\ a.gen # js.coordGen)

Given_up(a) == asked' = IF a.row = asked /\ ~Superseded(a) THEN Over ELSE asked

-----------------------------------------------------------------------------
(* What the OSC samples of the moment would tell the Rust playback state *)

ConfirmedByPath == rust.confirmed \/ eng.fg = rust.row
\* The gate of a registration for PLAY is shut for the length of the clip: while its
\* call tries, and in the pause before a retry or a skip, it does not open on an earlier
\* airing of the row.
GateShut ==
  \E a \in acts : /\ a.token = rust.gen
                  /\ \/ a.kind \in {"take", "item"} /\ a.pc \in {"prepare", "registered"}
                     \/ a.kind = "skip"
SwitchSeen ==
  ConfirmedByPath /\ ~GateShut /\ eng.fg = rust.next /\ eng.fg # rust.row /\ ~rust.fired
PathNews ==
  /\ rust.row # NoRow /\ eng.fg # NoRow
  /\ SwitchSeen \/ ConfirmedByPath # rust.confirmed
\* the positions of another clip fall outside the registered one's reset window
PositionNews ==
  /\ rust.row # NoRow /\ rust.confirmed /\ ~rust.position
  /\ eng.fg = rust.row /\ eng.phase # "loading"
\* the end of an overlong clip comes before its gate: only the watchdog tells of it
EndNews ==
  /\ rust.row # NoRow /\ rust.confirmed /\ ~rust.fired /\ ~GateShut
  /\ eng.fg = rust.row
  /\ eng.phase = "ended" \/ (eng.phase = "ending" /\ rust.row \notin Overlong)

-----------------------------------------------------------------------------
(* playItemAt, playItemWithIntent and dispatchPlay *)

\* The duration query and the compliance graphics of playItemAt; then the next
\* row's path goes with the registration.
ResolveItem(a) ==
  /\ a.pc = "resolve" /\ a.kind = "item"
  /\ IF Superseded(a) THEN Ends(a)
     ELSE Goes(a, [js EXCEPT !.guard = {}],
               [a EXCEPT !.pc = "prepare", !.next = RowAt(js.queue, a.idx + 1)])
  /\ UNCHANGED <<rust, events, eng, asked, used, aired>>

\* Pre-flight, trim and path are in; the stale guard, then the registration.
Dispatch(a) ==
  /\ a.pc = "prepare" /\ a.kind \in {"take", "item"}
  /\ "late" \in Windows \/ \A b \in acts : ~(b.pc = "registered" /\ Superseded(b))
  /\ IF Superseded(a)
     THEN Ends(a) /\ UNCHANGED <<rust, events>>
     ELSE Register(a.row, a.token, a.next) /\ Goes(a, js, [a EXCEPT !.pc = "registered"])
  /\ UNCHANGED <<eng, asked, used, aired>>

\* The registration is acknowledged: PLAY, or release a registration that is
\* still this row's.
SendPlay_Unguarded(a) ==
  /\ a.pc = "registered" /\ a.kind \in {"take", "item"}
  /\ PLAY(a.row) /\ Goes(a, js, [a EXCEPT !.pc = "played"])
  /\ UNCHANGED <<rust, events, asked, used, aired>>
SendPlay(a) ==
  /\ a.pc = "registered" /\ a.kind \in {"take", "item"}
  /\ IF Superseded(a)
     THEN rust' = (IF rust.row = a.row THEN Cleared ELSE rust) /\ Ends(a) /\ UNCHANGED eng
     ELSE PLAY(a.row) /\ Goes(a, js, [a EXCEPT !.pc = "played"]) /\ UNCHANGED rust
  /\ UNCHANGED <<events, asked, used, aired>>

\* PLAY is acknowledged; a take is confirmed to the coordinator.
Played(a) ==
  /\ a.pc = "played"
  /\ IF Superseded(a) THEN Ends(a)
     ELSE Goes(a, [js EXCEPT !.playing = TRUE, !.guard = @ \cup {a.row},
                             !.skips = IF a.kind = "item" THEN 0 ELSE @,
                             !.onAir = IF a.kind = "take" THEN a.row ELSE @],
               [a EXCEPT !.pc = "await"])
  /\ UNCHANGED <<rust, events, eng, asked, used, aired>>

\* A row that cannot be played: the pre-flight refuses it, whatever the token is
\* by then, or the engine refuses PLAY.
Refused(a) ==
  /\ a.kind \in {"take", "item"} /\ a.row \in Failing
  /\ \/ a.pc = "prepare" /\ ("skipping" \in Windows \/ ~Superseded(a))
     \/ a.pc = "registered" /\ ~Superseded(a)

\* dispatchPlayWithRetry of playItemAt: a failed attempt starts over.
Retries(a) ==
  /\ Refused(a) /\ a.kind = "item" /\ a.attempt < DISPATCH_RETRY_ATTEMPTS
  /\ Goes(a, js, [a EXCEPT !.pc = "prepare", !.attempt = @ + 1])
  /\ UNCHANGED <<rust, events, eng, asked, used, aired>>

\* The dispatch gives up.  An automatic row is skipped after a pause, until too
\* many in a row failed.
Fails(a) ==
  /\ Refused(a)
  /\ \E flagged \in BOOLEAN :
       LET j == [js EXCEPT !.flagged = IF flagged THEN @ \cup {a.row} ELSE @]
           skips == j.skips + 1
       IN  IF a.kind = "take" \/ a.manual THEN Goes(a, j, NoAct)
           ELSE IF skips >= MAX_CONSECUTIVE_SKIPS THEN Goes(a, [j EXCEPT !.skips = skips], NoAct)
           ELSE Goes(a, Returned([j EXCEPT !.skips = skips], a), Skip(a))
  /\ Given_up(a)
  /\ UNCHANGED <<rust, events, eng, used, aired>>

\* The skip timer: advanceNext(false) under whatever token is current.
SkipTimer(a) ==
  /\ a.pc = "skip"
  /\ LET started == AdvanceToNext(js, FALSE) IN Goes(a, started.js, started.act)
  /\ UNCHANGED <<rust, events, eng, asked, used, aired>>

\* The first-frame timer ran out.  It is set after PLAY by a take and before
\* the dispatch by playItemAt; a clip on air renders well within it.
TimedOut_Early(a) == TRUE
TimedOut(a) == (a.kind = "item" /\ "slow" \in Windows) \/ eng.phase # "loading" \/ eng.fg # a.row

ArmNext(a) ==
  /\ a.pc = "await" /\ a.kind \in {"take", "item"}
  /\ \/ Superseded(a) /\ Ends(a)
     \/ /\ ~Superseded(a)
        /\ (IF a.kind = "take" THEN js.proven = a.row ELSE a.proof) \/ TimedOut(a)
        /\ LET preload == Preload(js, a, RowAt(js.queue, a.idx + 1))
           IN  Goes(a, preload.js, preload.act)
  /\ UNCHANGED <<rust, events, eng, asked, used, aired>>

-----------------------------------------------------------------------------
(* The natural branch of advanceToNext: the engine itself cuts to its background *)

ClaimNext(a) ==
  /\ a.pc = "resolve" /\ a.kind = "natural"
  /\ IF Superseded(a) THEN Ends(a)
     ELSE Goes(a, [Claim(js, a.row) EXCEPT !.guard = {}],
               [a EXCEPT !.pc = "prepare", !.next = RowAt(js.queue, a.idx + 1)])
  /\ UNCHANGED <<rust, events, eng, asked, used, aired>>

RegisterNext(a) ==
  /\ a.pc = "prepare" /\ a.kind = "natural"
  /\ IF Superseded(a)
     THEN Ends(a) /\ UNCHANGED <<rust, events>>
     ELSE Register(a.row, a.token, a.next) /\ Goes(a, js, [a EXCEPT !.pc = "registered"])
  /\ UNCHANGED <<eng, asked, used, aired>>

\* The trim or the path of the next row cannot be resolved, before or after it
\* was claimed.
NaturalFails(a) ==
  /\ a.kind = "natural" /\ a.row \in Failing
  /\ a.pc \in {"resolve", "prepare"} /\ ("skipping" \in Windows \/ ~Superseded(a))
  /\ Goes(a, Returned([js EXCEPT !.flagged = @ \cup {a.row}], a), Skip(a))
  /\ UNCHANGED <<rust, events, eng, asked, used, aired>>

NextRegistered(a) ==
  /\ a.pc = "registered" /\ a.kind = "natural"
  /\ IF Superseded(a) THEN Ends(a)
     ELSE Goes(a, [js EXCEPT !.guard = @ \cup {a.row}], [a EXCEPT !.pc = "await"])
  /\ UNCHANGED <<rust, events, eng, asked, used, aired>>

\* The background is loaded behind the new clip on proof that it is on air: its
\* first frame, or its path once the first-frame timer ran out.  When both
\* timers ran out, by when the old clip has ended, the background stays empty.
SafeToArm_Always(a) == TRUE
SafeToArm(a) == a.proof \/ (a.fg /\ TimedOut(a))

ArmAfterNatural(a) ==
  /\ a.pc = "await" /\ a.kind = "natural"
  /\ \/ Superseded(a) /\ Ends(a)
     \/ eng.phase # "ending" /\ Ends(a)
     \/ /\ ~Superseded(a) /\ SafeToArm(a)
        /\ LET preload == Preload(js, a, RowAt(js.queue, a.idx + 1))
           IN  Goes(a, preload.js, preload.act)
  /\ UNCHANGED <<rust, events, eng, asked, used, aired>>

-----------------------------------------------------------------------------
(* preloadNextItemAt and dispatchLoadbg *)

StalePreload(a) == a.token # js.token \/ a.epoch # js.epoch

\* The gate of a rundown edit: the clip on air has proved its first frame, or
\* the preload is withheld once no proof has come in the time a clip needs.
NoProofComes ==
  /\ eng.phase # "loading" /\ ~PathNews /\ ~PositionNews
  /\ \A i \in DOMAIN events : events[i].kind # "position"
GatePreload(a) ==
  /\ a.pc = "gate"
  /\ \/ (StalePreload(a) \/ js.key # a.behind \/ (js.proven # a.behind /\ NoProofComes)) /\ Ends(a)
     \/ /\ ~StalePreload(a) /\ js.key = a.behind /\ js.proven = a.behind
        /\ LET preload == Preload(js, a, a.row) IN Goes(a, preload.js, preload.act)
  /\ UNCHANGED <<rust, events, eng, asked, used, aired>>

LoadDone(a) ==
  [js EXCEPT !.loading = IF @ = [row |-> a.row, epoch |-> a.epoch] THEN NotLoading ELSE @]

SendLoadbg(a) ==
  /\ a.pc = "loadbg"
  /\ \/ StalePreload(a) /\ Goes(a, LoadDone(a), NoAct) /\ UNCHANGED eng
     \/ ~StalePreload(a) /\ LOADBG_AUTO(a.row) /\ Goes(a, js, [a EXCEPT !.pc = "loaded"])
     \/ a.row \in Failing /\ Goes(a, LoadDone(a), NoAct) /\ UNCHANGED eng
  /\ UNCHANGED <<rust, events, asked, used, aired>>

Loaded(a) ==
  /\ a.pc = "loaded"
  /\ Goes(a, [LoadDone(a) EXCEPT !.armed = IF StalePreload(a) THEN @ ELSE @ \cup {a.row}], NoAct)
  /\ UNCHANGED <<rust, events, eng, asked, used, aired>>

-----------------------------------------------------------------------------
(* stop() after its synchronous part: no token is looked at again *)

StopClear(a) ==
  /\ a.pc = "clear"
  /\ CLEAR
  /\ Goes(a, js, [a EXCEPT !.pc = "release"])
  /\ UNCHANGED <<rust, events, asked, used, aired>>

StopRelease(a) ==
  /\ a.pc = "release"
  /\ rust' = Cleared
  /\ Ends(a)
  /\ UNCHANGED <<events, eng, asked, used, aired>>

Activation ==
  \E a \in acts :
    \/ ResolveItem(a) \/ Dispatch(a) \/ SendPlay(a) \/ Played(a) \/ Retries(a) \/ Fails(a)
    \/ SkipTimer(a)
    \/ ArmNext(a)
    \/ ClaimNext(a) \/ RegisterNext(a) \/ NaturalFails(a) \/ NextRegistered(a)
    \/ ArmAfterNatural(a)
    \/ GatePreload(a) \/ SendLoadbg(a) \/ Loaded(a)
    \/ StopClear(a) \/ StopRelease(a)

-----------------------------------------------------------------------------
(* The Rust playback state, from its OSC samples *)

Tells(kind) == Emit(<<[kind |-> kind, row |-> rust.row, gen |-> rust.gen]>>)

RustSeesPath ==
  /\ PathNews
  /\ rust' = [rust EXCEPT !.confirmed = ConfirmedByPath, !.fired = @ \/ SwitchSeen,
                          !.next = IF SwitchSeen THEN NoRow ELSE @,
                          !.observed = IF SwitchSeen THEN eng.fg ELSE @]
  /\ Tells(IF SwitchSeen THEN "advance" ELSE "foreground")
  /\ UNCHANGED <<js, acts, eng, asked, used, aired>>

RustSeesPosition ==
  /\ PositionNews
  /\ rust' = [rust EXCEPT !.position = TRUE]
  /\ Tells("position")
  /\ UNCHANGED <<js, acts, eng, asked, used, aired>>

RustSeesEnd ==
  /\ EndNews
  /\ rust' = [rust EXCEPT !.fired = TRUE]
  /\ Tells("advance")
  /\ UNCHANGED <<js, acts, eng, asked, used, aired>>

-----------------------------------------------------------------------------
(* Events from Rust, in the order they were emitted *)

Start(result) == js' = result.js /\ acts' = acts \cup ({result.act} \ {NoAct})

\* The waiters of playItemAt and of advanceToNext, set before the dispatch.
Waits(a, r) ==
  /\ a.row = r
  /\ \/ a.kind = "item" /\ a.pc \in {"prepare", "registered", "played", "await"}
     \/ a.kind = "natural" /\ a.pc \in {"registered", "await"}

Deliver ==
  /\ events # <<>>
  /\ events' = Tail(events)
  /\ LET e == Head(events)
     IN  CASE e.kind = "position" ->
                /\ js' = [js EXCEPT !.proven = e.row]
                /\ acts' = {IF Waits(a, e.row) THEN [a EXCEPT !.proof = TRUE] ELSE a : a \in acts}
           [] e.kind = "foreground" ->
                /\ acts' = {IF Waits(a, e.row) /\ a.kind = "natural"
                            THEN [a EXCEPT !.fg = TRUE] ELSE a : a \in acts}
                /\ UNCHANGED js
           [] e.kind = "advance" ->
                Start(IF e.gen = js.token THEN AdvanceNatural(js, e.row) ELSE Result(js, NoAct))
  /\ UNCHANGED <<rust, eng, asked, used, aired>>

\* The JavaScript end guard (endGuard.ts) sees the registered row stand still
\* for seconds: longer than the dedup window, and than the engine and the
\* events of Rust take, unless the row is overlong.
EndGuard ==
  /\ rust.row \in js.guard /\ rust.confirmed /\ js.dedup # rust.row
  /\ eng.phase = "ended" /\ eng.bg = NoRow
  /\ rust.row \in Overlong \/ (~EndNews /\ events = <<>>)
  /\ LET advanced == AdvanceNatural(js, rust.row)
     IN  Start(Result([advanced.js EXCEPT !.guard = @ \ {rust.row}], advanced.act))
  /\ UNCHANGED <<rust, events, eng, asked, used, aired>>

\* ADVANCE_DEDUP_WINDOW_MS has passed.
DedupWindowEnds ==
  /\ js.dedup # NoRow
  /\ js' = [js EXCEPT !.dedup = NoRow]
  /\ UNCHANGED <<acts, rust, events, eng, asked, used, aired>>

-----------------------------------------------------------------------------
(* External: the program layer of CasparCG *)

FirstFrame ==
  /\ eng.phase = "loading"
  /\ eng' = [eng EXCEPT !.phase = "playing"]
  /\ aired' = aired \cup {eng.fg}
  /\ UNCHANGED <<js, acts, rust, events, asked, used>>

\* A clip lasts long enough for OSC to show it to Rust and for the frontend to hear of it.
NearEnd ==
  /\ eng.phase = "playing"
  /\ ~PathNews /\ events = <<>>
  /\ "long" \in Windows \/ ~js.advancing
  /\ "crossing" \in Windows \/ acts = {}
  /\ eng' = [eng EXCEPT !.phase = "ending"]
  /\ asked' = IF eng.fg = asked THEN Over ELSE asked
  /\ UNCHANGED <<js, acts, rust, events, used, aired>>

\* The end of the clip: the AUTO background takes over, or the last frame stays.
ClipEnds ==
  /\ eng.phase = "ending" \/ (eng.phase = "ended" /\ eng.bg # NoRow)
  /\ "unseen" \in Windows \/ ~EndNews
  /\ eng' = IF eng.bg = NoRow THEN [eng EXCEPT !.phase = "ended"]
            ELSE [fg |-> eng.bg, phase |-> "loading", bg |-> NoRow]
  /\ UNCHANGED <<js, acts, rust, events, asked, used, aired>>

Rust == RustSeesPath \/ RustSeesPosition \/ RustSeesEnd
Engine == FirstFrame \/ NearEnd \/ ClipEnds

\* Nothing is left to do.
Idle == acts = {} /\ events = <<>> /\ used = MaxCommands /\ UNCHANGED vars

Next == Operator \/ Activation \/ Deliver \/ EndGuard \/ DedupWindowEnds \/ Rust \/ Engine \/ Idle

Spec == Init /\ [][Next]_vars

\* Promises resolve, timers fire, events are delivered, OSC keeps coming and
\* clips play on.  Nothing is assumed of the operator.
Fairness ==
  /\ WF_vars(Activation) /\ WF_vars(Deliver) /\ WF_vars(EndGuard) /\ WF_vars(DedupWindowEnds)
  /\ WF_vars(Rust) /\ WF_vars(Engine)
FairSpec == Spec /\ Fairness

-----------------------------------------------------------------------------
(* Properties *)

ActType ==
  [pc : {"resolve", "prepare", "registered", "played", "await", "skip", "gate", "loadbg",
         "loaded", "clear", "release"},
   kind : {"take", "item", "natural", "skip", "preload", "stop"},
   row : Rows \cup {NoRow}, next : Rows \cup {NoRow}, behind : Rows \cup {NoRow}, idx : Nat,
   token : Nat, gen : Nat, epoch : Nat, attempt : 1..DISPATCH_RETRY_ATTEMPTS,
   advance : BOOLEAN, manual : BOOLEAN, proof : BOOLEAN, fg : BOOLEAN]

\* Types, and one call at most holds the advance flag, which is up exactly then.
TypeOK ==
  /\ js.key \in Rows \cup {NoRow} /\ js.proven \in Rows \cup {NoRow}
  /\ js.armed \subseteq Rows /\ js.guard \subseteq Rows /\ js.flagged \subseteq Rows
  /\ js.queue \in Edits \cup {Rundown}
  /\ js.skips \in 0..MAX_CONSECUTIVE_SKIPS
  /\ acts \subseteq ActType
  /\ eng.fg \in Rows \cup {NoRow} /\ eng.bg \in Rows \cup {NoRow}
  /\ eng.phase \in {"empty", "loading", "playing", "ending", "ended"}
  /\ js.advancing <=> Cardinality({a \in acts : a.advance}) = 1

\* Nothing more happens before the clip on air ends or the operator acts.
Settled ==
  /\ acts = {} /\ events = <<>>
  /\ ~PathNews /\ ~PositionNews /\ ~EndNews
  /\ eng.phase \in {"empty", "playing"}

\* A LOADBG waits its turn.  It never replaces the background that a natural
\* advance has already claimed as the row on air, which would skip the row
\* (incident 2026-09-23); and it is not sent before the clip on air has rendered
\* its first frame, when AUTO makes the engine cut at once (incident 2026-09-18).
\* The latter is said of a row on air for the first time: a re-take may count the
\* late first-frame event of the earlier airing as its own.
LoadbgWaitsItsTurn ==
  [][eng'.bg \notin {eng.bg, NoRow} =>
       /\ eng.bg # NoRow => eng.bg # js.key
       /\ eng.fg \notin aired => eng.phase # "loading"]_vars

\* The service believes a row armed only when the engine holds it: the natural
\* advance sends no PLAY for it.
ArmedIsLoaded == \A r \in js.armed : eng.bg = r \/ eng.fg = r

\* When everything has settled the last request stands: its row is on air, or
\* has had its run, and after a stop the layer is empty.
LastRequestStands == Settled /\ asked # Over => eng.fg = asked

\* When everything has settled the frontend, Rust and the engine agree on the
\* clip on air: otherwise nothing advances the rundown at its end.
AllAgreeOnAir == Settled /\ eng.fg # NoRow => rust.row = js.key /\ eng.fg = js.key

\* A background left on a settled layer is the row that comes next.
BackgroundIsSuccessor ==
  Settled /\ eng.bg # NoRow => eng.bg = Successor(js.queue, js.key)

\* A clip that stands at its last frame is followed by the next one or by the
\* end of the rundown, unless too many rows in a row failed.
NoClipFreezes ==
  eng.phase = "ended" ~> eng.phase # "ended" \/ js.skips = MAX_CONSECUTIVE_SKIPS
=============================================================================
