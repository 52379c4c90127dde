------------------------------ MODULE Recovery ------------------------------
(***************************************************************************)
(* PlayOut's own crash recovery (recovery.rs): the checkpoint of what is   *)
(* on air, the journal of sessions with its crash-loop brake, automatic    *)
(* relaunches and the watchdog of the user interface.  A launch reads what *)
(* the session before it left on disk, whenever that session ended.        *)
(***************************************************************************)
EXTENDS Naturals, Sequences, FiniteSets

CONSTANTS
    Rows,           \* rundown rows that can be on air
    MaxPos,         \* length of a row, in checkpoint intervals
    Threshold,      \* CRASH_LOOP_THRESHOLD, 3 in the code
    JournalLen,     \* SESSION_JOURNAL_LEN, 20 in the code
    MaxReloads,     \* UI_MAX_RELOADS, 3 in the code
    MaxLaunches,    \* bound: launches of PlayOut
    MaxTakes,       \* bound: takes
    Open            \* the window a run leaves open: "failedSpawn"
ASSUME RecoveryAssumption ==
    /\ MaxPos \in Nat /\ Threshold \in Nat \ {0} /\ JournalLen \in Nat /\ JournalLen >= Threshold
    /\ MaxReloads \in Nat /\ MaxLaunches \in Nat /\ MaxTakes \in Nat
    /\ Open \subseteq {"failedSpawn"}
ASSUME RowNames == "no write" \notin Rows

VARIABLES
    app,        \* the instance: down, up, exiting (RunEvent::Exit handled)
    disk,       \* checkpoint.json: the row on air and its position
    journal,    \* sessions.json
    mem,        \* Inner of RecoveryState
    write,      \* the checkpoint the writer is putting on disk
    reg,        \* the Rust registration: row and position since its start
    base,       \* where that airing started, in its row
    take,       \* the take in progress: none, asked, registered
    ui, watch,  \* whether the interface answers; UiWatch
    allowed,    \* AUTO_RESTART_ALLOWED
    leaving,    \* EXITING_FOR_RECOVERY
    replacement,\* a replacement process waits for this one
    launches, old, takes, automatic     \* time and history: sessions up to old
                \* are outside the crash-loop window, automatic are the relaunches in it
shared == <<disk, journal>>
inst == <<mem, write, reg, base, take>>
face == <<ui, watch>>
restart == <<allowed, leaving, replacement>>
history == <<launches, old, takes, automatic>>
vars == <<app, shared, inst, face, restart, history>>

NoRow == "none"
Nothing == [row |-> NoRow, pos |-> 0]
NoWrite == [row |-> "no write", pos |-> 0]
NoTake == [at |-> "none", row |-> NoRow, offset |-> 0]
Points == [row : Rows \cup {NoRow}, pos : 0..MaxPos]
FreshWatch == [pong |-> "none", reloading |-> FALSE, reloads |-> 0, gaveUp |-> FALSE]
FreshMem == [sessions |-> <<>>, prev |-> Nothing, handled |-> FALSE, row |-> NoRow,
             offset |-> 0, last |-> 0, dirty |-> FALSE]

(* A process that is gone has no memory. *)
Forgotten ==
    /\ mem' = FreshMem /\ write' = NoWrite /\ reg' = Nothing /\ base' = 0 /\ take' = NoTake
    /\ ui' = TRUE /\ watch' = FreshWatch /\ allowed' = FALSE /\ leaving' = FALSE

Init ==
    /\ app = "down" /\ disk = Nothing /\ journal = <<>>
    /\ mem = FreshMem /\ write = NoWrite /\ reg = Nothing /\ base = 0 /\ take = NoTake
    /\ ui = TRUE /\ watch = FreshWatch
    /\ allowed = FALSE /\ leaving = FALSE /\ replacement = FALSE
    /\ launches = 0 /\ old = 0 /\ takes = 0 /\ automatic = {}

(* count_recent_crashes: sessions up to old began before the window. *)
Crashes(sessions) == Cardinality({i \in DOMAIN sessions : ~sessions[i].clean /\ sessions[i].id > old})

Lesser(a, b) == IF a < b THEN a ELSE b
(* on_air_position, with the position the checkpoint remembers. *)
Position(m) ==
    IF reg.row = m.row THEN Lesser(reg.pos + m.offset, MaxPos) ELSE m.last
Build(m) == IF m.row = NoRow THEN Nothing ELSE [row |-> m.row, pos |-> Position(m)]
Remember(m) == IF m.row = NoRow THEN m ELSE [m EXCEPT !.last = Position(m)]

-----------------------------------------------------------------------------
(* RecoveryState::boot, set_crash_loop and sync_auto_restart. *)

Journaled(sessions, id) ==
    LET all == Append(sessions, [id |-> id, clean |-> FALSE]) IN
    IF Len(all) > JournalLen THEN Tail(all) ELSE all
(* wait_for_predecessor: the instance before it is gone. *)
MayStart(recovered) == app = "down" /\ launches < MaxLaunches /\ recovered = replacement
AutoRestart == Crashes(journal) < Threshold
Launch(recovered) ==
    /\ MayStart(recovered)
    /\ launches' = launches + 1 /\ replacement' = FALSE
    /\ automatic' = IF recovered THEN automatic \cup {launches'} ELSE automatic
    /\ journal' = Journaled(journal, launches')
    /\ mem' = [FreshMem EXCEPT !.sessions = journal', !.prev = disk]
    /\ allowed' = AutoRestart /\ leaving' = FALSE
    /\ app' = "up"
    /\ UNCHANGED <<disk, write, reg, base, take, face, old, takes>>

(* recovery_ack_previous *)
Ack(m) == [m EXCEPT !.handled = TRUE, !.dirty = TRUE]

(* ensureBootInfo: a checkpoint without an item is handled at once. *)
BootInfo ==
    /\ app = "up" /\ ui /\ ~mem.handled /\ mem.prev.row = NoRow
    /\ mem' = Ack(mem)
    /\ UNCHANGED <<app, shared, write, reg, base, take, face, restart, history>>

-----------------------------------------------------------------------------
(* What the interface tells the checkpoint: a take or a resume first       *)
(* handles the previous checkpoint, then registers the clip, then pushes   *)
(* the context; it may also fail.                                          *)

Ask(row, offset) ==
    /\ app = "up" /\ ui /\ take.at = "none" /\ takes < MaxTakes /\ takes' = takes + 1
    /\ offset = 0 \/ (offset = mem.prev.pos /\ row = mem.prev.row /\ ~mem.handled)
    /\ take' = [at |-> "asked", row |-> row, offset |-> offset]
    /\ mem' = IF mem.handled THEN mem ELSE Ack(mem)
    /\ UNCHANGED <<app, shared, write, reg, base, face, restart, launches, old, automatic>>
Register ==
    /\ app = "up" /\ take.at = "asked"
    /\ reg' = [row |-> take.row, pos |-> 0] /\ base' = take.offset
    /\ take' = [take EXCEPT !.at = "registered"]
    /\ UNCHANGED <<app, shared, mem, write, face, restart, history>>
TakeFails ==
    /\ app = "up" /\ take.at = "asked" /\ take' = NoTake
    /\ UNCHANGED <<app, shared, mem, write, reg, base, face, restart, history>>

(* recovery_checkpoint_update *)
Update(row, offset) ==
    LET same == row # NoRow /\ mem.row = row /\ mem.offset = offset IN
    [mem EXCEPT !.row = row, !.offset = offset, !.dirty = TRUE,
                !.last = IF same THEN @ ELSE offset]
Push ==
    /\ app = "up" /\ ui /\ take.at = "registered" /\ take' = NoTake
    /\ mem' = Update(take.row, take.offset)
    /\ UNCHANGED <<app, shared, write, reg, base, face, restart, history>>
(* A change of the graphics between takes pushes the same context again. *)
Graphics ==
    /\ app = "up" /\ ui /\ take.at = "none" /\ mem' = Update(mem.row, mem.offset)
    /\ UNCHANGED <<app, shared, write, reg, base, take, face, restart, history>>
(* stop(), and the choice to hold: nothing is on air, and that is pushed. *)
Stop ==
    /\ app = "up" /\ ui /\ take.at = "none" /\ (mem.row # NoRow \/ ~mem.handled)
    /\ reg' = Nothing /\ base' = 0
    /\ mem' = [Update(NoRow, 0) EXCEPT !.handled = TRUE]
    /\ UNCHANGED <<app, shared, write, take, face, restart, history>>
Plays ==
    /\ app = "up" /\ reg.row # NoRow /\ base + reg.pos < MaxPos
    /\ reg' = [reg EXCEPT !.pos = @ + 1]
    /\ UNCHANGED <<app, shared, mem, write, base, take, face, restart, history>>

-----------------------------------------------------------------------------
(* spawn_writer *)

Due_Unprotected(m) == m.dirty \/ (m.row # NoRow /\ reg.row = m.row)
(* Until the previous checkpoint is handled only an on-air item replaces it. *)
Due(m) == /\ m.handled \/ m.row # NoRow
          /\ m.dirty \/ (m.row # NoRow /\ reg.row = m.row)
Snapshot ==
    /\ app = "up" /\ write = NoWrite /\ Due(mem)
    /\ write' = Build(mem) /\ mem' = [Remember(mem) EXCEPT !.dirty = FALSE]
    /\ UNCHANGED <<app, shared, reg, base, take, face, restart, history>>
(* write_atomic: the rename. An exit does not wait for it. *)
Written ==
    /\ app \in {"up", "exiting"} /\ write # NoWrite
    /\ disk' = write /\ write' = NoWrite
    /\ UNCHANGED <<app, journal, mem, reg, base, take, face, restart, history>>

-----------------------------------------------------------------------------
(* mark_exit, and the ways a session ends. *)

Closed(sessions, id, clean) ==
    [i \in DOMAIN sessions |-> IF sessions[i].id = id THEN [sessions[i] EXCEPT !.clean = clean] ELSE sessions[i]]
MarkExit(clean) ==
    /\ app' = "exiting"
    /\ disk' = IF mem.handled \/ mem.row # NoRow THEN Build(mem) ELSE disk
    /\ mem' = [Remember(mem) EXCEPT !.sessions = Closed(@, launches, clean)]
    /\ journal' = mem'.sessions
    /\ UNCHANGED <<write, reg, base, take, launches, old, takes, automatic>>
Exit ==
    /\ app = "up" /\ MarkExit(~leaving)
    /\ UNCHANGED <<face, restart>>
Gone ==
    /\ app = "exiting" /\ app' = "down" /\ Forgotten
    /\ UNCHANGED <<shared, replacement, history>>

(* The process dies. A replacement is started by Restart Manager or by the *)
(* panic hook where allowed. write_atomic leaves the old file or the new.  *)
Dies ==
    /\ app = "up" /\ app' = "down"
    /\ disk' \in {disk} \cup ({write} \ {NoWrite})
    /\ replacement' \in {FALSE, allowed} /\ Forgotten
    /\ UNCHANGED <<journal, history>>

SpawnReplacement == leaving' = TRUE /\ replacement' = TRUE
(* relaunch_self: the journal shall show this exit as unclean. *)
Relaunch_Clean ==
    /\ IF allowed THEN replacement' = TRUE /\ MarkExit(TRUE)
       ELSE UNCHANGED <<app, shared, inst, replacement, launches, old, takes, automatic>>
    /\ UNCHANGED <<allowed, leaving>>
Relaunch ==
    /\ UNCHANGED <<allowed, launches, old, takes, automatic>>
    /\ \/ ~allowed /\ UNCHANGED <<app, shared, inst, leaving, replacement>>
       \/ allowed /\ SpawnReplacement /\ MarkExit(FALSE)
       \/ allowed /\ "failedSpawn" \in Open /\ leaving' = TRUE
          /\ UNCHANGED <<app, shared, inst, replacement>>

-----------------------------------------------------------------------------
(* spawn_ui_watchdog *)

Hangs == /\ app = "up" /\ ui /\ ui' = FALSE
         /\ UNCHANGED <<app, shared, inst, watch, restart, history>>
Pong == /\ app = "up" /\ ui
        /\ watch' = [watch EXCEPT !.pong = "fresh", !.reloading = FALSE]
        /\ UNCHANGED <<app, shared, inst, ui, restart, history>>
Stale == /\ app = "up" /\ ~ui /\ watch.pong = "fresh"
         /\ watch' = [watch EXCEPT !.pong = "stale"]
         /\ UNCHANGED <<app, shared, inst, ui, restart, history>>

Reloading_Disarms == [watch EXCEPT !.reloads = @ + 1, !.pong = "none"]
Reloading == [watch EXCEPT !.reloads = @ + 1, !.pong = "none", !.reloading = TRUE]
(* The page starts anew, or does not come back.  It adopts a clip that was *)
(* registered and not pushed, and pushes that.                             *)
Reload ==
    /\ app = "up" /\ ~watch.gaveUp /\ ~watch.reloading /\ watch.pong = "stale"
    /\ watch.reloads < MaxReloads
    /\ watch' = Reloading /\ ui' \in BOOLEAN
    /\ take' = IF take.at = "registered" THEN take ELSE NoTake
    /\ UNCHANGED <<app, shared, mem, write, reg, base, restart, history>>
StandDown ==
    /\ app = "up" /\ ~watch.gaveUp /\ ~watch.reloading /\ watch.pong = "stale"
    /\ watch.reloads >= MaxReloads
    /\ watch' = [watch EXCEPT !.gaveUp = TRUE]
    /\ UNCHANGED <<app, shared, inst, ui, restart, history>>
(* UI_RELOAD_GRACE is long enough for a page that works to answer. *)
ReloadFailed ==
    /\ app = "up" /\ ~watch.gaveUp /\ watch.reloading /\ ~ui
    /\ watch' = [watch EXCEPT !.gaveUp = TRUE]
    /\ Relaunch
    /\ UNCHANGED <<ui>>

-----------------------------------------------------------------------------
(* Time passes: the oldest session leaves the crash-loop window, and       *)
(* UI_RELOAD_WINDOW forgets a reload.                                      *)
Ages == \/ /\ old < launches /\ old' = old + 1 /\ automatic' = automatic \ {old'}
           /\ UNCHANGED <<app, shared, inst, face, restart, launches, takes>>
        \/ /\ watch.reloads > 0 /\ watch' = [watch EXCEPT !.reloads = @ - 1]
           /\ UNCHANGED <<app, shared, inst, ui, restart, history>>

Interface == BootInfo \/ Graphics \/ Register \/ TakeFails \/ Push \/ Pong
Watchdog == Stale \/ Reload \/ StandDown \/ ReloadFailed
Next ==
    \/ \E recovered \in BOOLEAN : Launch(recovered)
    \/ \E row \in Rows, offset \in 0..MaxPos : Ask(row, offset)
    \/ Interface \/ Stop \/ Plays \/ Snapshot \/ Written
    \/ Exit \/ Gone \/ Dies \/ Hangs \/ Watchdog \/ Ages
Spec == Init /\ [][Next]_vars
(* The watchdog's timer fires; a page that works answers. *)
FairSpec == Spec /\ WF_vars(Watchdog) /\ WF_vars(Pong)

-----------------------------------------------------------------------------
TypeOK ==
    /\ app \in {"down", "up", "exiting"} /\ disk \in Points /\ write \in Points \cup {NoWrite}
    /\ Len(journal) <= JournalLen /\ mem.prev \in Points /\ mem.last \in 0..MaxPos
    /\ reg \in Points /\ base + reg.pos <= MaxPos
    /\ watch.pong \in {"none", "fresh", "stale"} /\ watch.reloads \in 0..MaxReloads

(* Whatever crashes, exits or reloads, the resume point of an earlier      *)
(* session leaves the disk only after this session has dealt with it.  And *)
(* once the writer has caught up with the last take the checkpoint names   *)
(* the row on air and is not ahead of it: a resume skips nothing.          *)
CheckpointFollows ==
    (app = "up" /\ take.at = "none" /\ ~mem.dirty /\ write = NoWrite /\ mem.row # NoRow) =>
        /\ disk.row = mem.row
        /\ reg.row = mem.row => disk.pos <= base + reg.pos
ResumePointKept ==
    /\ [][disk.row # NoRow /\ disk'.row = NoRow => mem.handled]_vars
    /\ []CheckpointFollows

(* Automatic relaunches inside the crash-loop window are bounded as long as *)
(* the journal holds every session of that window; the first of them may    *)
(* follow a crash that the window no longer holds.                          *)
AutoRelaunchBounded ==
    launches - old <= JournalLen => Cardinality(automatic) <= Threshold + 1

(* An interface that hangs after it has answered once comes back, or the   *)
(* watchdog has given up or relaunched.                                    *)
HungUiHandled ==
    (app = "up" /\ ~ui /\ watch.pong # "none") ~> (ui \/ watch.gaveUp \/ app # "up")
=============================================================================
