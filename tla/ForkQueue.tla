----------------------------- MODULE ForkQueue ------------------------------
(***************************************************************************)
(* The wait queue of the fork engine (src/lib/forkQueue.ts and the fork    *)
(* part of services/caspar.ts over src-tauri/src/caspar_fork.rs).  The     *)
(* engine plays the queued rows back to back; PlayOut keeps the next rows  *)
(* queued and edits the queue while the engine may cut at any time.  Every *)
(* edit names the item it was planned behind (EXPECT).                     *)
(*                                                                         *)
(* A command and the handling of its reply are one step: a reply needs     *)
(* less than the frame after which the engine can cut.                     *)
(***************************************************************************)
EXTENDS Naturals, Sequences, FiniteSets, SequencesExt

CONSTANTS
    Rows,           \* the rundown at the start, a sequence of distinct rows
    Unready,        \* rows whose media is not ready yet
    Depth,          \* forkQueueDepth
    MaxAttempts,    \* attempts of one sync, 3 in the code
    MaxRetries,     \* FORK_ROW_MAX_RETRIES
    MaxEdits, MaxTakes, MaxFaults,      \* bounds: edits, takes and stops, failed commands
    Open            \* the windows a run leaves open, of seven named below
ASSUME QueueAssumption ==
    /\ Rows \in Seq(Range(Rows)) /\ IsInjective(Rows) /\ {"none", "fallback"} \cap Range(Rows) = {}
    /\ Unready \subseteq Range(Rows) /\ Depth \in Nat \ {0} /\ MaxAttempts \in Nat \ {0}
    /\ MaxRetries \in Nat /\ MaxEdits \in Nat /\ MaxTakes \in Nat /\ MaxFaults \in Nat
    /\ Open \subseteq {"late", "short", "dry", "recut", "retake", "fence", "again"}

VARIABLES
    layer,        \* the layer: item on air, whether it ended, items waiting
    events,     \* onair and ended events not yet handled
    rundown,    \* queuedItems: rows in order
    row,        \* per row its trim version and ingestor status
    ui,         \* currentKey, forkForegroundTag, forkWaitingTags, forkPendingTakeTag, forkClips
    token,      \* playToken
    sync,       \* runForkSync
    retry,      \* forkRowRetries and its timer
    take,       \* the take under way
    follow,     \* the tag whose end waits for the refill in flight
    used        \* history: edits, takes and faults so far
queueVars == <<layer, events, rundown, row, ui, token, sync, retry, take, follow, used>>

RowSet == Range(Rows)
NoKey == "none"
Filler == "fallback"
\* A tag is a row and an occurrence: plain, :n, or :t<n> of a re-take.
Tag(r, n) == [base |-> r, n |-> n]
NoTag == Tag(NoKey, 1)
Item(tag, version, auto) == [tag |-> tag, ver |-> version, auto |-> auto]
NoItem == Item(NoTag, 0, FALSE)
Tags(items) == [i \in DOMAIN items |-> items[i].tag]
Wishes(items) == [i \in DOMAIN items |-> [base |-> items[i].tag.base, ver |-> items[i].ver]]
FromHereOn(s, i) == SubSeq(s, i, Len(s))

Idle == [pc |-> "idle", onAir |-> NoTag, token |-> 0, desired |-> <<>>, attempts |-> 0,
         tags |-> <<>>, at |-> 1, blocked |-> NoKey]
NoTake == [pc |-> "none", row |-> NoKey, token |-> 0, tag |-> NoTag]

QueueInit ==
    /\ layer \in [fg : {NoItem}, ended : {FALSE}, waiting : {<<>>}, fill : BOOLEAN]
    /\ events = <<>> /\ rundown = Rows
    /\ row = [r \in RowSet |-> [ver |-> 0, status |-> IF r \in Unready THEN "blocked" ELSE "ready"]]
    /\ ui = [key |-> NoKey, fg |-> NoTag, waiting |-> <<>>, pending |-> NoTag, known |-> {}, dirty |-> FALSE]
    /\ token = 0 /\ sync = Idle /\ retry = [count |-> 0, armed |-> FALSE]
    /\ take = NoTake /\ follow = NoTag /\ used = [edits |-> 0, takes |-> 0, faults |-> 0]

-----------------------------------------------------------------------------
(* planForkQueue *)

Keeps(onAir, want, waiting, known, k) ==
    /\ k <= Len(want) /\ k <= Len(waiting)
    /\ \A i \in 1..k : /\ waiting[i].base = want[i].base
                       /\ [tag |-> waiting[i], ver |-> want[i].ver] \in known
                       /\ waiting[i] # onAir /\ \A j \in 1..(i - 1) : waiting[i] # waiting[j]
Longest_IgnoresTrims(onAir, want, waiting, known) ==
    CHOOSE k \in 0..Len(want) :
        /\ Keeps(onAir, want, waiting, {[tag |-> waiting[i], ver |-> want[i].ver] : i \in DOMAIN waiting \cap DOMAIN want}, k)
        /\ \A l \in (k + 1)..Len(want) :
             ~Keeps(onAir, want, waiting, {[tag |-> waiting[i], ver |-> want[i].ver] : i \in DOMAIN waiting \cap DOMAIN want}, l)
Longest(onAir, want, waiting, known) ==
    CHOOSE k \in 0..Len(want) : /\ Keeps(onAir, want, waiting, known, k)
                                /\ \A l \in (k + 1)..Len(want) : ~Keeps(onAir, want, waiting, known, l)
FreeTag(r, taken) ==
    Tag(r, CHOOSE n \in 1..(Cardinality(taken) + 1) :
             Tag(r, n) \notin taken /\ \A m \in 1..(n - 1) : Tag(r, m) \in taken)
\* The rows wanted are distinct, so a new tag need not be compared with other new ones.
Plan(onAir, want, waiting, known) ==
    LET keep == Longest(onAir, want, waiting, known)
        kept == SubSeq(waiting, 1, keep)
    IN  [keep |-> keep, clear |-> Len(waiting) > keep,
         tags |-> [i \in DOMAIN want |-> IF i <= keep THEN waiting[i]
                                         ELSE FreeTag(want[i].base, Range(kept) \cup {onAir})]]

-----------------------------------------------------------------------------
(* The engine: external. *)

OnLayer(item, waiting) == [layer EXCEPT !.fg = item, !.ended = FALSE, !.waiting = waiting]
\* A clip outlasts the handling of the events before it.
Outlasts == (events = <<>> /\ follow = NoTag) \/ "short" \in Open
\* No take or stop falls between a sync's CLEAR and its reply, between its last
\* QUEUE and its end, or between the start of the fallback and its report.
Fenced == /\ "fence" \in Open \/ ~(sync.pc = "clear" \/ (sync.pc = "queue" /\ sync.at > Len(sync.tags)))
          /\ "dry" \in Open \/ \A i \in DOMAIN events : events[i].tag.base # Filler
TakeFails == take.pc # "none" /\ row[take.row].status # "ready"
\* A re-take of the row on air is over before that row ends or syncs again.
Retakes(r) == "retake" \notin Open /\ r = ui.fg.base
Recut(r) == "recut" \notin Open /\ layer.fg.tag.base = r /\ ui.fg # layer.fg.tag
\* No take of a row begins before the reports of its earlier airing are handled.
Again(r) == "again" \notin Open /\ (follow.base = r \/ \E i \in DOMAIN events : events[i].tag.base = r)
Cut == /\ Outlasts /\ layer.waiting # <<>> /\ Head(layer.waiting).auto /\ layer.fg # NoItem
       /\ take.row = Head(layer.waiting).tag.base \/ TakeFails => "recut" \in Open
       /\ layer' = OnLayer(Head(layer.waiting), Tail(layer.waiting))
       /\ events' = Append(events, [kind |-> "onair", tag |-> Head(layer.waiting).tag])
       /\ UNCHANGED <<rundown, row, ui, token, sync, retry, take, follow, used>>
Ends == /\ Outlasts /\ ~Retakes(take.row) /\ layer.fg # NoItem /\ ~layer.ended /\ layer.fg.tag.base # Filler
        /\ \A i \in DOMAIN layer.waiting : ~layer.waiting[i].auto
        /\ layer' = [layer EXCEPT !.ended = TRUE]
        /\ events' = Append(events, [kind |-> "ended", tag |-> layer.fg.tag])
        /\ UNCHANGED <<rundown, row, ui, token, sync, retry, take, follow, used>>
Fills == /\ layer.fill /\ layer.ended /\ ("dry" \in Open \/ (events = <<>> /\ follow = NoTag /\ take.pc = "none"))
         /\ layer' = [layer EXCEPT !.fg = Item(Tag(Filler, 1), 0, FALSE), !.ended = FALSE]
         /\ events' = Append(events, [kind |-> "onair", tag |-> Tag(Filler, 1)])
         /\ UNCHANGED <<rundown, row, ui, token, sync, retry, take, follow, used>>

\* QUEUE CLEAR [AFTER kept]: its code and the layer after it.
ClearCode(kept) ==
    IF layer.fg.tag # sync.onAir THEN 409
    ELSE IF kept # <<>> /\ Last(kept) \notin Range(Tags(layer.waiting)) THEN 404 ELSE 202
QueueCode == IF layer.fg.tag # sync.onAir THEN 409 ELSE 202
\* An AUTO item queued on a layer that has ended goes on air at once.
Queued(item) ==
    IF layer.ended /\ layer.waiting = <<>> THEN OnLayer(item, <<>>)
    ELSE [layer EXCEPT !.waiting = Append(@, item)]
Reported(item) ==
    IF layer.ended /\ layer.waiting = <<>> THEN Append(events, [kind |-> "onair", tag |-> item.tag]) ELSE events

-----------------------------------------------------------------------------
(* runForkSync and syncForkQueue *)

Place(r) == CHOOSE i \in DOMAIN rundown : rundown[i] = r
\* The rows behind r that have no error, in order.
Behind(r) == {x \in Range(rundown) : Place(x) > Place(r) /\ row[x].status # "error"}
NextRows(r) ==
    [n \in 1..Cardinality(Behind(r)) |->
       CHOOSE x \in Behind(r) : Cardinality({y \in Behind(r) : Place(y) <= Place(x)}) = n]
Candidates == NextRows(ui.key)
Desired ==
    LET blocked == {i \in DOMAIN Candidates : row[Candidates[i]].status = "blocked"}
        free == IF blocked = {} THEN Len(Candidates) ELSE (CHOOSE i \in blocked : \A j \in blocked : i <= j) - 1
    IN [i \in 1..(IF free < Depth THEN free ELSE Depth) |-> [base |-> Candidates[i], ver |-> row[Candidates[i]].ver]]
\* The row the window stops at because it is not ready.
Blocker == LET n == Len(Desired) + 1 IN
    IF n <= Depth /\ n <= Len(Candidates) THEN Candidates[n] ELSE NoKey

Stale == sync.token # token \/ sync.onAir # ui.fg
CanSync == ui.key # NoKey /\ ui.fg.base = ui.key /\ ui.key \in Range(rundown)

SyncBegins ==
    /\ sync.pc = "idle" /\ ui.dirty /\ ~Retakes(take.row)
    /\ ui' = [ui EXCEPT !.dirty = FALSE]
    /\ sync' = IF CanSync
               THEN [Idle EXCEPT !.pc = "info", !.onAir = ui.fg, !.token = token, !.desired = Desired,
                                   !.blocked = Blocker]
               ELSE Idle
    /\ UNCHANGED <<layer, events, rundown, row, token, retry, take, follow, used>>
SyncReads ==
    /\ sync.pc = "info"
    /\ LET plan == Plan(sync.onAir, sync.desired, Tags(layer.waiting), ui.known) IN
       sync' = IF sync.attempts = MaxAttempts \/ Stale \/ layer.fg.tag # sync.onAir THEN [sync EXCEPT !.pc = "end"]
               ELSE [sync EXCEPT !.pc = IF plan.clear THEN "clear" ELSE "queue", !.attempts = @ + 1,
                                 !.tags = plan.tags, !.at = plan.keep + 1]
    /\ UNCHANGED <<layer, events, rundown, row, ui, token, retry, take, follow, used>>
SyncClears ==
    LET kept == SubSeq(sync.tags, 1, sync.at - 1) IN
    /\ sync.pc = "clear"
    /\ IF ClearCode(kept) = 202
       THEN /\ layer' = [layer EXCEPT !.waiting = SubSeq(@, 1, IF kept = <<>> THEN 0 ELSE
                         CHOOSE i \in DOMAIN @ : @[i].tag = Last(kept))]
            /\ ui' = [ui EXCEPT !.waiting = kept] /\ sync' = [sync EXCEPT !.pc = "queue"]
       ELSE sync' = [sync EXCEPT !.pc = "info"] /\ UNCHANGED <<layer, ui>>
    /\ UNCHANGED <<events, rundown, row, token, retry, take, follow, used>>

Handled(tag, version) ==
    [ui EXCEPT !.waiting = Append(@, tag), !.known = {k \in @ : k.tag # tag} \cup {[tag |-> tag, ver |-> version]}]
SyncQueues ==
    LET tag == sync.tags[sync.at]
        want == sync.desired[sync.at]
        item == Item(tag, want.ver, TRUE) IN
    /\ sync.pc = "queue" /\ sync.at <= Len(sync.tags)
    /\ UNCHANGED <<rundown, row, token, retry, take, follow, used>>
    /\ \/ Stale /\ sync' = [sync EXCEPT !.pc = "end"] /\ UNCHANGED <<layer, events, ui>>
       \/ ~Stale /\ QueueCode = 409 /\ sync' = [sync EXCEPT !.pc = "info"] /\ UNCHANGED <<layer, events, ui>>
       \/ /\ ~Stale /\ QueueCode = 202
          /\ layer' = Queued(item) /\ events' = Reported(item)
          /\ sync' = [sync EXCEPT !.at = @ + 1] /\ ui' = Handled(tag, want.ver)
\* The clip cannot be prepared, or QUEUE is refused: the row is flagged.
SyncRefused ==
    /\ sync.pc = "queue" /\ sync.at <= Len(sync.tags) /\ used.faults < MaxFaults
    /\ take.row = sync.desired[sync.at].base => "recut" \in Open
    /\ used' = [used EXCEPT !.faults = @ + 1]
    /\ row' = [row EXCEPT ![sync.desired[sync.at].base].status = "error"]
    /\ sync' = [sync EXCEPT !.pc = "end"] /\ ui' = [ui EXCEPT !.dirty = TRUE]
    /\ UNCHANGED <<layer, events, rundown, token, retry, take, follow>>

\* pruneForkClips
Pruned(u) == LET live == Range(u.waiting) \cup {u.fg, u.pending} IN
    [u EXCEPT !.known = {k \in @ : k.tag \in live}]
\* The sync is over; a row that is not ready is tried again, then given up.
SyncEnds ==
    /\ sync.pc = "end" \/ (sync.pc = "queue" /\ sync.at > Len(sync.tags))
    /\ sync' = Idle
    /\ LET done == IF sync.pc = "queue" THEN Pruned([ui EXCEPT !.waiting = sync.tags]) ELSE ui
           wait == sync.blocked # NoKey /\ ~Stale
           over == wait /\ retry.count = MaxRetries
       IN /\ row' = IF over THEN [row EXCEPT ![sync.blocked].status = "error"] ELSE row
          /\ ui' = IF over THEN [done EXCEPT !.dirty = TRUE] ELSE done
          /\ retry' = IF wait /\ ~over THEN [count |-> retry.count + 1, armed |-> TRUE]
                      ELSE IF over \/ sync.blocked = NoKey THEN [retry EXCEPT !.count = 0] ELSE retry
    /\ UNCHANGED <<layer, events, rundown, token, take, follow, used>>
RowRetry ==
    /\ retry.armed /\ retry' = [retry EXCEPT !.armed = FALSE] /\ ui' = [ui EXCEPT !.dirty = TRUE]
    /\ UNCHANGED <<layer, events, rundown, row, token, sync, take, follow, used>>

-----------------------------------------------------------------------------
(* onForkOnAir, onForkFallbackOnAir and onForkEnded *)

IsLast(r) == r \notin Range(rundown) \/ Behind(r) = {}

\* finishRundownOnFallback and stop(): nothing of PlayOut is on air.
Released(fg) == [key |-> NoKey, fg |-> fg, waiting |-> <<>>, pending |-> NoTag, known |-> {}, dirty |-> ui.dirty]

OnFallback(e) ==
    LET ended == ui.fg.base # Filler /\ ui.pending = NoTag /\ ui.key # NoKey IN
    IF ended /\ IsLast(ui.key)
    THEN ui' = Released(e.tag) /\ token' = token + 1
    ELSE ui' = [ui EXCEPT !.fg = e.tag, !.waiting = <<>>] /\ UNCHANGED token
OnTake(e) ==
    /\ ui' = IF ui.key # e.tag.base THEN [ui EXCEPT !.pending = NoTag]
             ELSE Pruned([ui EXCEPT !.pending = NoTag, !.fg = e.tag, !.dirty = TRUE])
    /\ UNCHANGED token
Natural(e) ==
    LET at == CHOOSE i \in DOMAIN ui.waiting : ui.waiting[i] = e.tag IN
    /\ ui' = Pruned([ui EXCEPT !.waiting = FromHereOn(@, at + 1), !.fg = e.tag, !.key = e.tag.base, !.dirty = TRUE])
    /\ token' = token + 1
OnAir ==
    /\ events # <<>> /\ Head(events).kind = "onair" /\ events' = Tail(events)
    /\ LET e == Head(events) IN
       \/ e.tag.base = Filler /\ OnFallback(e)
       \/ e.tag.base # Filler /\ e.tag = ui.pending /\ OnTake(e)
       \/ e.tag.base # Filler /\ e.tag # ui.pending /\ e.tag \in Range(ui.waiting) /\ Natural(e)
       \/ e.tag.base # Filler /\ e.tag # ui.pending /\ e.tag \notin Range(ui.waiting) /\ UNCHANGED <<ui, token>>
    /\ UNCHANGED <<layer, rundown, row, sync, retry, take, follow, used>>

Ended ==
    /\ events # <<>> /\ Head(events).kind = "ended" /\ events' = Tail(events)
    /\ follow' = IF Head(events).tag = ui.fg THEN ui.fg ELSE follow
    /\ UNCHANGED <<layer, rundown, row, ui, token, sync, retry, take, used>>
NextTaken ==
    IF IsLast(ui.key) THEN take' = NoTake /\ ui' = Released(NoTag)
    ELSE LET r == Head(NextRows(ui.key)) IN
         /\ take' = [NoTake EXCEPT !.pc = "prepare", !.row = r, !.token = token']
         /\ ui' = [ui EXCEPT !.key = r]
Following ==
    /\ follow # NoTag /\ follow' = NoTag
    /\ IF follow # ui.fg \/ follow.base # ui.key \/ ui.waiting # <<>> THEN UNCHANGED <<ui, token, take>>
       ELSE token' = token + 1 /\ NextTaken
    /\ UNCHANGED <<layer, events, rundown, row, sync, retry, used>>
Follow_AtOnce == Following
\* The refill in flight is over.  Nothing waits: advanceNext takes the next row.
Follow == sync.pc = "idle" /\ ~ui.dirty /\ Following

-----------------------------------------------------------------------------
(* forkTake *)

TakeBegins_Unfenced(r) ==
    /\ used.takes < MaxTakes /\ used' = [used EXCEPT !.takes = @ + 1]
    /\ row[r].status = "ready" /\ ~Recut(r) /\ ~Again(r) /\ Fenced /\ token' = token + 1
    /\ Retakes(r) => events = <<>> /\ ~layer.ended /\ follow = NoTag
    /\ take' = [NoTake EXCEPT !.pc = "prepare", !.row = r, !.token = token']
    /\ ui' = [ui EXCEPT !.key = r] /\ retry' = [retry EXCEPT !.armed = FALSE]
    /\ UNCHANGED <<layer, events, rundown, row, sync, follow>>
TakeBegins(r) ==
    /\ used.takes < MaxTakes /\ used' = [used EXCEPT !.takes = @ + 1]
    /\ row[r].status = "ready" /\ ~Recut(r) /\ ~Again(r) /\ Fenced /\ token' = token + 1
    /\ Retakes(r) => events = <<>> /\ ~layer.ended /\ follow = NoTag
    /\ take' = [NoTake EXCEPT !.pc = "prepare", !.row = r, !.token = token']
    /\ ui' = [ui EXCEPT !.key = r, !.waiting = <<>>] /\ retry' = [retry EXCEPT !.armed = FALSE]
    /\ UNCHANGED <<layer, events, rundown, row, sync, follow>>
TakeTag == Tag(take.row, IF ui.fg.base = take.row THEN 10 + token ELSE 1)
TakeLoads ==
    LET tag == TakeTag IN
    /\ take.pc = "prepare" /\ take.token = token /\ row[take.row].status = "ready"
    /\ take' = [take EXCEPT !.pc = "loaded", !.tag = tag]
    /\ layer' = [layer EXCEPT !.waiting = <<Item(tag, row[take.row].ver, FALSE)>>]
    /\ ui' = [ui EXCEPT !.waiting = <<>>] /\ retry' = [retry EXCEPT !.armed = FALSE]
    /\ UNCHANGED <<events, rundown, row, token, sync, follow, used>>
\* The row an advance fell on is not ready: it is flagged and skipped.
TakeRefused ==
    /\ take.pc = "prepare" /\ take.token = token /\ row[take.row].status # "ready"
    /\ row' = [row EXCEPT ![take.row].status = "error"] /\ token' = token + 1
    /\ NextTaken
    /\ UNCHANGED <<layer, events, rundown, sync, retry, follow, used>>
TakePlays ==
    LET item == Head(layer.waiting) IN
    /\ take.pc = "loaded" /\ take.token = token /\ take' = NoTake
    /\ events = <<>> \/ "late" \in Open     \* what happened before LOADBG has been reported
    /\ layer' = OnLayer(item, Tail(layer.waiting))
    /\ events' = Append(events, [kind |-> "onair", tag |-> item.tag])
    /\ ui' = [ui EXCEPT !.pending = take.tag, !.fg = take.tag, !.dirty = TRUE,
                        !.known = @ \cup {[tag |-> take.tag, ver |-> item.ver]}]
    /\ UNCHANGED <<rundown, row, token, sync, retry, follow, used>>
TakeDropped ==
    /\ take.pc # "none" /\ take.token # token /\ take' = NoTake
    /\ UNCHANGED <<layer, events, rundown, row, ui, token, sync, retry, follow, used>>
\* stop(), whose awaits Transport models.
Stop ==
    /\ ui.key # NoKey /\ Fenced /\ used.takes < MaxTakes /\ used' = [used EXCEPT !.takes = @ + 1]
    /\ token' = token + 1 /\ ui' = Released(NoTag) /\ retry' = [count |-> 0, armed |-> FALSE]
    /\ layer' = OnLayer(NoItem, <<>>)
    /\ UNCHANGED <<events, rundown, row, sync, take, follow>>

-----------------------------------------------------------------------------
(* Edits of the rundown reach the queue through scheduleForkSync. *)

Edit == used.edits < MaxEdits /\ used' = [used EXCEPT !.edits = @ + 1] /\ ui' = [ui EXCEPT !.dirty = TRUE]
Moved == \E i \in 1..(Len(rundown) - 1) :
    /\ Edit /\ rundown' = [rundown EXCEPT ![i] = rundown[i + 1], ![i + 1] = rundown[i]]
    /\ UNCHANGED <<layer, events, row, token, sync, retry, take, follow>>
Trimmed == \E r \in RowSet :
    /\ Edit /\ row' = [row EXCEPT ![r].ver = @ + 1]
    /\ UNCHANGED <<layer, events, rundown, token, sync, retry, take, follow>>
Arrives == \E r \in RowSet :
    /\ row[r].status = "blocked" /\ row' = [row EXCEPT ![r].status = "ready"]
    /\ UNCHANGED <<layer, events, rundown, ui, token, sync, retry, take, follow, used>>

Engine == Cut \/ Ends \/ Fills
Work == SyncBegins \/ SyncReads \/ SyncClears \/ SyncQueues \/ SyncEnds \/ RowRetry
        \/ OnAir \/ Ended \/ Follow \/ TakeLoads \/ TakePlays \/ TakeRefused \/ TakeDropped
QueueNext == Engine \/ Work \/ SyncRefused \/ (\E r \in RowSet : TakeBegins(r)) \/ Stop \/ Moved \/ Trimmed \/ Arrives
QueueSpec == QueueInit /\ [][QueueNext]_queueVars
\* Every await of the frontend returns, and its events are delivered.
FairQueueSpec == QueueSpec /\ WF_queueVars(Work)

-----------------------------------------------------------------------------
QueueTypes ==
    /\ Len(layer.waiting) <= Depth /\ Len(ui.waiting) <= 2 * Depth
    /\ sync.attempts <= MaxAttempts /\ retry.count <= MaxRetries
    /\ ui.key \in RowSet \cup {NoKey} /\ ui.fg.base \in RowSet \cup {NoKey, Filler}

Quiet == events = <<>> /\ take = NoTake /\ sync.pc = "idle" /\ ~ui.dirty /\ follow = NoTag

(* Whatever cut or edit came in between, once everything is handled PlayOut *)
(* and the engine name the same item as on air, and behind it wait the next *)
(* rows of the rundown as they are now, in order and with their present     *)
(* trims, no two under one tag.                                             *)
OnAirKnown == Quiet /\ ui.key # NoKey /\ ui.fg.base # Filler => layer.fg.tag = ui.fg /\ ui.fg.base = ui.key
WindowWaits ==
    Quiet /\ ~retry.armed /\ CanSync => Wishes(layer.waiting) = Desired
TagsUnique == IsInjective(<<layer.fg.tag>> \o Tags(layer.waiting))
QueueIsWindow == OnAirKnown /\ WindowWaits /\ TagsUnique

(* A cut of the engine never takes the channel from a take under way. *)
TakeStands == [][ui'.key # ui.key /\ take.pc # "none" /\ take.token = token =>
                    used' # used \/ row[take.row].status # "ready"]_queueVars

(* A layer that ran dry with rows left to play is not left as it is, on a *)
(* last frame or on the fallback.                                         *)
Dry == layer.ended \/ layer.fg.tag.base = Filler
EndIsFollowed ==
    (Dry /\ ui.key # NoKey /\ ~IsLast(ui.key)) ~> (~Dry \/ ui.key = NoKey \/ IsLast(ui.key))
=============================================================================
