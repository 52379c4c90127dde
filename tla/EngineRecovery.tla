---------------------------- MODULE EngineRecovery ----------------------------
(* CasparCG is lost while a clip is on air, and comes back (caspar.ts and      *)
(* engineRecovery.ts): connection and handshake, outage, plan and resume, with *)
(* an operator who goes on working.  A stock engine plays one clip of the      *)
(* rundown; its cut to a background and live sources are left to Transport.    *)
(* Positions count seconds into a clip's trimmed window.                       *)
EXTENDS Naturals, Sequences

CONSTANTS
  Rows,         \* the rundown is 1..Rows
  Duration,     \* length of every clip, more than MIN_RESUME_REMAINING_MS
  Scenarios,    \* bounds of a behaviour: its deaths, blips, slow probes and commands,
                \* and auto, the setting autoResumeAfterRestart
  Windows       \* races left open: claimed, adopting, unheard, unnoticed, handshaking,
                \* late, fastboot
Scenario == [auto : BOOLEAN, deaths : Nat, blips : Nat, probes : Nat, commands : Nat]
ASSUME PlayoutAssumption ==
  Rows \in Nat \ {0} /\ Duration \in Nat \ {0, 1} /\ Scenarios \subseteq Scenario

VARIABLES
  eng,          \* the engine: its clip, the position of that, the station's template
  link,         \* the socket of the AMCP worker: none, open, stale (it will fail once)
  supervised,   \* the supervisor started the engine and reports on it
  reports,      \* caspar-process-state events on their way
  silent,       \* no playback tick for RESUME_TICK_SURVIVAL_MS
  svc,          \* the module state of caspar.ts, and the row registered in Rust
  hs,           \* performHandshake
  rec,          \* runEngineRecovery
  act,          \* play, take and stop after their first await
  wish,         \* history: what the operator, or else the plan, wants on air
  reached,      \* history: how far the last airing of each row got
  left          \* of the scenario

recoveryVars == <<eng, link, supervised, reports, silent, svc, hs, rec, act, wish, reached, left>>

Nothing == 0
Row == 1..Rows
NoLoss == [key |-> Nothing, pos |-> 0]
NoCall == [at |-> "idle", row |-> Nothing, seek |-> 0, token |-> 0]
NoRecovery == [at |-> "idle", loss |-> NoLoss, epoch |-> 0, row |-> Nothing, seek |-> 0]
Who == {"operator", "recovery"}
Down == [up |-> FALSE, clip |-> Nothing, pos |-> 0, template |-> FALSE]

PlayoutInit ==
  /\ eng = [up |-> TRUE, clip |-> 1, pos |-> 0, template |-> TRUE]
  /\ link = "open" /\ supervised \in BOOLEAN /\ reports = <<>> /\ silent = FALSE
  /\ svc = [connected |-> TRUE, playing |-> TRUE, key |-> 1, pos |-> 0, offset |-> 0,
            reg |-> 1, base |-> 0, token |-> 0, epoch |-> 0, loss |-> NoLoss,
            probe |-> FALSE, timer |-> FALSE, exit |-> FALSE, suspected |-> FALSE,
            phase |-> "idle", wanted |-> TRUE, loaded |-> TRUE, failed |-> FALSE]
  /\ hs = [at |-> "idle", fresh |-> FALSE]
  /\ rec = NoRecovery /\ act = [w \in Who |-> NoCall]
  /\ wish = 1 /\ reached = [r \in Row |-> 0]
  /\ left \in Scenarios

\* One command: the first after the socket broke fails, the next connects anew.
Works == eng.up /\ link # "stale"
Used == link' = IF Works THEN "open" ELSE "none"

OnAir(s) == s.playing /\ s.key # Nothing
Probing(s) == [s EXCEPT !.probe = @ \/ s.loss = NoLoss]   \* scheduleOutageProbe
\* markDisconnected; the reconnect timer that it sets is Handshake.
Disconnected(s) ==
  LET d == [s EXCEPT !.connected = FALSE] IN IF OnAir(d) THEN Probing(d) ELSE d
EngineLooksDead == svc.exit \/ silent
\* enterEngineOutage; from here to the next registration Rust is paused.
Outage(s) ==
  IF s.loss # NoLoss \/ ~OnAir(s) THEN s
  ELSE [s EXCEPT !.loss = [key |-> s.key, pos |-> s.pos], !.token = @ + 1,
                 !.timer = FALSE, !.playing = FALSE, !.phase = "outage"]
\* cancelEngineRecovery.
Cancelled_KeepsLoss(s) ==
  [s EXCEPT !.probe = FALSE, !.phase = IF @ = "outage" THEN "idle" ELSE @]
Cancelled(s) ==
  [s EXCEPT !.epoch = @ + 1, !.loss = NoLoss, !.probe = FALSE,
            !.phase = IF @ = "outage" THEN "idle" ELSE @]
\* claimCurrentKey: the resume offset belongs to one airing.
Claimed(s, r) == [s EXCEPT !.key = r, !.offset = 0]
Registered(s, r, base) ==
  [s EXCEPT !.playing = TRUE, !.reg = r, !.base = base]
\* applyComplianceForItem, and what it leaves in the engine.
Complied(s) == IF s.connected THEN [s EXCEPT !.wanted = TRUE, !.loaded = TRUE] ELSE s
Template(s) == eng.template \/ (s.connected /\ ~s.loaded)

\* The timing a closed window assumes of commands that are under way.
NoneAt(steps) == \A w \in Who : act[w].at \notin steps
-----------------------------------------------------------------------------
(* The engine, its socket and its supervisor.                                  *)

Reported(events) == reports' = IF supervised THEN reports \o events ELSE reports

EngineDies ==
  /\ eng.up /\ left.deaths > 0
  /\ eng' = Down /\ link' = IF link = "open" THEN "stale" ELSE link
  /\ Reported(<<"crashed">>)
  /\ left' = [left EXCEPT !.deaths = @ - 1]
  /\ UNCHANGED <<supervised, silent, svc, hs, rec, act, wish, reached>>

\* Window "handshaking": within a handshake, or ENGINE_SETTLE_MS, the socket or a
\* report says that the engine is lost, and the next step finds it.
Unbroken == "handshaking" \in Windows \/ (hs.at = "idle" /\ rec.at # "settle")

\* The supervisor reports an exit before it starts another engine; window "late":
\* the report arrives after that engine answers. Window "fastboot": it answers
\* before a handshake, a dispatch or a recovery of the engine before it is over.
EngineBoots ==
  /\ ~eng.up /\ ("late" \in Windows \/ reports = <<>>)
  /\ "fastboot" \in Windows \/ (hs.at = "idle" /\ rec.at = "idle" /\ NoneAt({"send"}))
  /\ eng' = [Down EXCEPT !.up = TRUE]
  /\ Reported(<<"operational">>)
  /\ UNCHANGED <<link, supervised, silent, svc, hs, rec, act, wish, reached, left>>

\* One slow port probe reads "starting" off an engine that plays.
SlowProbe ==
  /\ supervised /\ eng.up /\ reports = <<>> /\ left.probes > 0
  /\ Reported(<<"starting", "operational">>)
  /\ left' = [left EXCEPT !.probes = @ - 1]
  /\ UNCHANGED <<eng, link, supervised, silent, svc, hs, rec, act, wish, reached>>

Blip ==
  /\ eng.up /\ link = "open" /\ left.blips > 0 /\ Unbroken
  /\ "unheard" \in Windows \/ NoneAt({"clear"})
  /\ link' = "stale" /\ left' = [left EXCEPT !.blips = @ - 1]
  /\ UNCHANGED <<eng, supervised, reports, silent, svc, hs, rec, act, wish, reached>>

Plays ==
  /\ eng.clip # Nothing /\ eng.pos < Duration
  /\ eng' = [eng EXCEPT !.pos = @ + 1]
  /\ reached' = [reached EXCEPT ![eng.clip] = eng.pos + 1]
  /\ UNCHANGED <<link, supervised, reports, silent, svc, hs, rec, act, wish, left>>

\* caspar://playback-tick: Rust counts from where the registered clip began.
Ticking == eng.clip # Nothing /\ svc.playing /\ svc.reg = eng.clip
Tick ==
  /\ Ticking /\ silent' = FALSE
  /\ svc' = [svc EXCEPT !.pos = (eng.pos - svc.base)
                                + IF svc.key = svc.reg THEN svc.offset ELSE 0]
  /\ UNCHANGED <<eng, link, supervised, reports, hs, rec, act, wish, reached, left>>
FallsSilent ==
  /\ ~Ticking /\ ~silent /\ silent' = TRUE
  /\ UNCHANGED <<eng, link, supervised, reports, svc, hs, rec, act, wish, reached, left>>
-----------------------------------------------------------------------------
(* Losing the connection, and the outage.                                      *)

HandleProcessStateEvent ==
  /\ reports # <<>> /\ (Unbroken \/ Head(reports) = "operational")
  /\ reports' = Tail(reports)
  /\ svc' = IF Head(reports) = "operational" THEN svc
            ELSE Disconnected([svc EXCEPT !.suspected = TRUE,
                                          !.exit = @ \/ Head(reports) = "crashed"])
  /\ UNCHANGED <<eng, link, supervised, silent, hs, rec, act, wish, reached, left>>

\* startHeartbeat.
Heartbeat ==
  /\ svc.connected /\ hs.at = "idle" /\ ~(eng.up /\ link = "open") /\ Used
  /\ svc' = IF Works THEN svc ELSE Disconnected(svc)
  /\ UNCHANGED <<eng, supervised, reports, silent, hs, rec, act, wish, reached, left>>

\* An inconclusive probe looks again. Window "claimed": the key is of a command
\* that has put nothing on air yet, the position still of the clip before it.
Declarable ==
  "claimed" \in Windows \/ (svc.reg = svc.key /\ NoneAt({"take", "play", "send", "confirm"}))
OutageProbe ==
  /\ svc.probe /\ Unbroken
  /\ LET over == svc.loss # NoLoss \/ ~OnAir(svc) \/ svc.connected
         s == [svc EXCEPT !.probe = FALSE]
     IN \/ over /\ svc' = s
        \/ ~over /\ EngineLooksDead /\ Declarable /\ svc' = Outage(s)
  /\ UNCHANGED <<eng, link, supervised, reports, silent, hs, rec, act, wish, reached, left>>
-----------------------------------------------------------------------------
(* The handshake.                                                              *)

\* A failed INFO is repeated. No tick can follow a loss, Rust being paused.
Handshake ==
  /\ ~svc.connected /\ hs.at = "idle" /\ eng.up /\ link' = "open"
  /\ hs' = [at |-> "reconcile", fresh |-> svc.suspected \/ svc.loss # NoLoss]
  /\ svc' = [svc EXCEPT !.connected = TRUE, !.probe = FALSE, !.suspected = FALSE, !.exit = FALSE]
  /\ UNCHANGED <<eng, supervised, reports, silent, rec, act, wish, reached, left>>

\* Window "adopting": it asks the engine while a PLAY or a CLEAR is on its way.
Apart == "adopting" \in Windows \/ NoneAt({"send", "clear"})

\* A layer that cannot be asked is unknown.
ReconcileGraphicsLayers ==
  /\ hs.at = "reconcile" /\ Apart /\ hs' = [hs EXCEPT !.at = "sync"] /\ Used
  /\ LET s == [svc EXCEPT !.loaded = eng.template, !.wanted = @ \/ eng.template] IN
     IF ~Works THEN /\ svc' = Disconnected([svc EXCEPT !.loaded = @ /\ ~hs.fresh])
                    /\ UNCHANGED eng
     ELSE IF s.wanted /\ ~s.loaded THEN svc' = Complied(s) /\ eng' = [eng EXCEPT !.template = Template(s)]
     ELSE svc' = s /\ UNCHANGED eng
  /\ UNCHANGED <<supervised, reports, silent, rec, act, wish, reached, left>>

\* runEngineRecovery, up to its wait: a second run returns at once.
Begins(s, loss) ==
  rec' = IF rec.at # "idle" THEN rec
         ELSE [NoRecovery EXCEPT !.at = "settle", !.loss = loss, !.epoch = s.epoch]

\* synchronizeOnAirState: a clip that plays is adopted.
AdoptOnAir ==
  /\ LET s == [Claimed(svc, eng.clip) EXCEPT !.connected = TRUE, !.pos = eng.pos, !.timer = FALSE,
                 !.loss = NoLoss, !.phase = IF svc.loss # NoLoss THEN "restored" ELSE @]
     IN /\ svc' = Complied(Registered(s, eng.clip, 0))
        /\ eng' = [eng EXCEPT !.template = Template(s)]
  /\ silent' = FALSE /\ UNCHANGED rec
FindsNothing_Trusts ==
  /\ LET s == IF Works THEN [svc EXCEPT !.connected = TRUE] ELSE Disconnected(svc) IN
     IF s.loss # NoLoss THEN Begins(s, s.loss) /\ svc' = [s EXCEPT !.loss = NoLoss]
     ELSE svc' = s /\ UNCHANGED rec
  /\ UNCHANGED <<eng, silent>>
\* An empty layer: the engine restarted.
FindsNothing ==
  /\ LET s == IF Works THEN [svc EXCEPT !.connected = TRUE] ELSE Disconnected(svc) IN
     IF s.loss # NoLoss THEN Begins(s, s.loss) /\ svc' = [s EXCEPT !.loss = NoLoss]
     ELSE svc' = [s EXCEPT !.timer = TRUE] /\ UNCHANGED rec
  /\ UNCHANGED <<eng, silent>>
SynchronizeOnAirState ==
  /\ hs.at = "sync" /\ Apart /\ hs' = [at |-> "idle", fresh |-> FALSE] /\ Used
  /\ IF Works /\ eng.clip # Nothing THEN AdoptOnAir ELSE FindsNothing
  /\ UNCHANGED <<supervised, reports, act, wish, reached, left>>

\* evaluateResume: RESUME_EVAL_DELAY_MS is longer than the survival window and
\* than ENGINE_SETTLE_MS.
EvaluateResume ==
  /\ svc.timer /\ (Ticking \/ silent) /\ Unbroken
  /\ LET s == [svc EXCEPT !.timer = FALSE]
         o == Outage(s)
     IN IF OnAir(s) /\ EngineLooksDead
        THEN /\ Declarable
             /\ IF o.loss # NoLoss THEN Begins(o, o.loss) ELSE UNCHANGED rec
             /\ svc' = [o EXCEPT !.loss = NoLoss]
        ELSE svc' = s /\ UNCHANGED rec
  /\ UNCHANGED <<eng, link, supervised, reports, silent, hs, act, wish, reached, left>>
-----------------------------------------------------------------------------
(* The recovery.                                                               *)

\* planEngineRecovery, with RESUME_REWIND_MS and MIN_RESUME_REMAINING_MS.
Plan(loss) ==
  LET seek == IF loss.pos > 0 THEN loss.pos - 1 ELSE 0
      next == [row |-> IF loss.key < Rows THEN loss.key + 1 ELSE Nothing, seek |-> 0]
  IN IF ~left.auto THEN [row |-> Nothing, seek |-> 0]
     ELSE IF Duration - seek < 2 THEN next ELSE [row |-> loss.key, seek |-> seek]

\* play, take and stop, up to their first await.
Taken(s, r) == [Claimed(Cancelled(s), r) EXCEPT !.token = @ + 1, !.timer = FALSE]

\* ENGINE_SETTLE_MS later: the operator took control, the connection is lost
\* again, a clip is on air, or the plan says hold or resume.
Settled ==
  /\ rec.at = "settle"
  /\ LET plan == Plan(rec.loss) IN
     IF rec.epoch # svc.epoch
       THEN rec' = NoRecovery /\ UNCHANGED <<svc, act, wish>>
     ELSE IF ~svc.connected
       THEN /\ svc' = [svc EXCEPT !.loss = IF @ = NoLoss THEN rec.loss ELSE @]
            /\ rec' = NoRecovery /\ UNCHANGED <<act, wish>>
     ELSE IF svc.playing
       THEN /\ svc' = [svc EXCEPT !.phase = "restored"]
            /\ rec' = NoRecovery /\ UNCHANGED <<act, wish>>
     ELSE IF plan.row = Nothing
       THEN /\ svc' = [Claimed(svc, Nothing) EXCEPT !.token = @ + 1, !.reg = Nothing, !.phase = "held"]
            /\ rec' = NoRecovery /\ wish' = Nothing /\ UNCHANGED act
     ELSE /\ svc' = [Taken(svc, plan.row) EXCEPT !.phase = "restoring", !.offset = plan.seek]
          /\ rec' = [rec EXCEPT !.at = "playing", !.row = plan.row, !.seek = plan.seek]
          /\ act' = [act EXCEPT !["recovery"] = [at |-> "send", row |-> plan.row, seek |-> plan.seek,
                                                 token |-> svc.token + 1]]
          /\ wish' = plan.row
  /\ UNCHANGED <<eng, link, supervised, reports, silent, hs, reached, left>>

-----------------------------------------------------------------------------
(* The operator's commands, and the PLAY that the recovery shares with them.   *)

Commanded(what) ==
  /\ act["operator"] = NoCall /\ left.commands > 0
  /\ left' = [left EXCEPT !.commands = @ - 1] /\ wish' = what
  /\ UNCHANGED <<eng, link, supervised, reports, silent, hs, rec, reached>>
Takes(kind, r) ==
  /\ Commanded(r)
  /\ svc' = [Taken(svc, r) EXCEPT !.failed = FALSE]
  /\ act' = [act EXCEPT !["operator"] =
               [at |-> IF svc.connected THEN "send" ELSE kind, row |-> r, seek |-> 0,
                token |-> svc.token + 1]]
TakeRow(r) == Takes("take", r)
PlayRow(r) == Takes("play", r)

\* connect(): its handshake is over. A take looks whether it was superseded, a
\* play goes on under the token of whatever came after it.
Connects ==
  LET a == act["operator"] IN
  /\ a.at \in {"take", "play"} /\ svc.connected /\ hs.at = "idle"
  /\ IF a.token # svc.token /\ a.at = "take"
     THEN act' = [act EXCEPT !["operator"] = NoCall] /\ UNCHANGED svc
     ELSE /\ act' = [act EXCEPT !["operator"].at = "send", !["operator"].token = svc.token]
          /\ svc' = Claimed(svc, a.row)
  /\ UNCHANGED <<eng, link, supervised, reports, silent, hs, rec, wish, reached, left>>
\* RECONNECT_FOREGROUND_ATTEMPTS are used up.
CannotConnect ==
  /\ act["operator"].at \in {"take", "play"} /\ ~svc.connected /\ ~eng.up
  /\ act' = [act EXCEPT !["operator"] = NoCall] /\ svc' = [svc EXCEPT !.failed = TRUE]
  /\ UNCHANGED <<eng, link, supervised, reports, silent, hs, rec, wish, reached, left>>

\* A call is over; with its play runEngineRecovery goes on, and is over too.
Ends(w, s) ==
  /\ act' = [act EXCEPT ![w] = NoCall]
  /\ IF w = "operator" THEN svc' = s /\ UNCHANGED rec
     ELSE /\ svc' = [s EXCEPT !.phase = IF s.playing /\ s.key = rec.row THEN "restored"
                                       ELSE IF s.key \in {rec.row, Nothing} THEN "failed" ELSE @]
          /\ rec' = NoRecovery

\* playItemAt and playItemWithIntent: registration, PLAY and graphics. A play is
\* sent again when it fails; a failure does not mark the connection.
Sends(w) ==
  LET a == act[w]
      s == [svc EXCEPT !.pos = a.seek]
  IN
  /\ a.at = "send"
  /\ "unnoticed" \in Windows \/ supervised \/ link # "stale" \/ hs.at # "idle"
  /\ \/ /\ a.token # svc.token
        /\ Ends(w, svc) /\ UNCHANGED <<eng, link, reached>>
     \/ /\ a.token = svc.token /\ ~Works /\ link' = "none"
        /\ Ends(w, [s EXCEPT !.failed = TRUE, !.reg = a.row]) /\ UNCHANGED <<eng, reached>>
     \/ /\ a.token = svc.token /\ eng.up /\ link' = "open"
        /\ eng' = [up |-> TRUE, clip |-> a.row, pos |-> a.seek, template |-> Template(s)]
        /\ svc' = Complied(Registered([s EXCEPT !.failed = FALSE], a.row, a.seek))
        /\ reached' = [reached EXCEPT ![a.row] = a.seek]
        /\ act' = [act EXCEPT ![w].at = "confirm"] /\ UNCHANGED rec
  /\ UNCHANGED <<supervised, reports, silent, hs, wish, left>>
\* The first frame, or PRELOAD_ARM_CONFIRMATION_TIMEOUT_MS.
Confirmed(w) ==
  /\ act[w].at = "confirm" /\ Ends(w, svc)
  /\ silent' = (silent /\ ~Ticking)
  /\ UNCHANGED <<eng, link, supervised, reports, hs, wish, reached, left>>

\* stop: it clears what a connection reaches. Window "unheard": the engine plays
\* on without one, and the next handshake adopts what was stopped.
Stop ==
  /\ Commanded(Nothing)
  /\ "unheard" \in Windows \/ ~eng.up \/ (svc.connected /\ link # "stale")
  /\ LET s == [Taken(svc, Nothing) EXCEPT !.playing = FALSE, !.pos = 0, !.failed = FALSE] IN
     IF svc.connected
     THEN /\ svc' = [s EXCEPT !.wanted = FALSE, !.loaded = FALSE]
          /\ act' = [act EXCEPT !["operator"] = [NoCall EXCEPT !.at = "clear"]]
     ELSE svc' = [s EXCEPT !.reg = Nothing] /\ UNCHANGED act
Clears ==
  /\ act["operator"].at = "clear" /\ act' = [act EXCEPT !["operator"] = NoCall] /\ Used
  /\ IF Works
     THEN /\ eng' = [Down EXCEPT !.up = TRUE]
          /\ svc' = [svc EXCEPT !.connected = TRUE, !.reg = Nothing]
     ELSE UNCHANGED eng /\ svc' = Disconnected(svc)
  /\ UNCHANGED <<supervised, reports, silent, hs, rec, wish, reached, left>>
-----------------------------------------------------------------------------
Connection ==
  \/ HandleProcessStateEvent \/ Heartbeat \/ OutageProbe
  \/ Handshake \/ ReconcileGraphicsLayers \/ SynchronizeOnAirState \/ EvaluateResume
CommandSteps ==
  \/ Settled \/ Connects \/ CannotConnect \/ Clears
  \/ \E w \in Who : Sends(w) \/ Confirmed(w)
PlayoutNext ==
  \/ EngineDies \/ EngineBoots \/ SlowProbe \/ Blip \/ Plays \/ Tick \/ FallsSilent
  \/ Connection \/ CommandSteps
  \/ Stop \/ \E r \in Row : TakeRow(r) \/ PlayRow(r)

PlayoutSpec == PlayoutInit /\ [][PlayoutNext]_recoveryVars

\* An engine is started again, time passes, and awaits and timers go on.
PlayoutFairness ==
  WF_recoveryVars(EngineBoots) /\ WF_recoveryVars(FallsSilent)
  /\ WF_recoveryVars(Connection) /\ WF_recoveryVars(CommandSteps)
FairPlayoutSpec == PlayoutSpec /\ PlayoutFairness
-----------------------------------------------------------------------------
Position == 0..Duration
Point == [key : 0..Rows, pos : Position]
Service ==
  [connected : BOOLEAN, playing : BOOLEAN, key : 0..Rows, pos : Position, offset : Position,
   reg : 0..Rows, base : Position, token : Nat, epoch : Nat, loss : Point,
   probe : BOOLEAN, timer : BOOLEAN, exit : BOOLEAN, suspected : BOOLEAN,
   phase : {"idle", "outage", "restoring", "restored", "held", "failed"},
   wanted : BOOLEAN, loaded : BOOLEAN, failed : BOOLEAN]
Call == [at : {"idle", "take", "play", "send", "confirm", "clear"}, row : 0..Rows,
         seek : Position, token : Nat]
EngineState == [up : BOOLEAN, clip : 0..Rows, pos : Position, template : BOOLEAN]
HandshakeState == [at : {"idle", "reconcile", "sync"}, fresh : BOOLEAN]
RecoveryState == [at : {"idle", "settle", "playing"}, loss : Point, epoch : Nat, row : 0..Rows,
                  seek : Position]
Report == {"crashed", "starting", "operational"}
PlayoutType ==
  /\ eng \in EngineState /\ link \in {"none", "open", "stale"}
  /\ supervised \in BOOLEAN /\ silent \in BOOLEAN /\ reports \in Seq(Report)
  /\ svc \in Service /\ act \in [Who -> Call] /\ hs \in HandshakeState /\ rec \in RecoveryState
  /\ wish \in 0..Rows /\ reached \in [Row -> Position] /\ left \in Scenario

\* What a recovery puts on air, unless it is superseded, skips nothing that was
\* not shown: it resumes the row no further than the row got, and only a row of
\* which less than a second was left is left.
NothingSkipped ==
  act["recovery"].at = "send" /\ act["recovery"].token = svc.token =>
    IF rec.row = rec.loss.key THEN rec.seek <= reached[rec.row]
    ELSE reached[rec.loss.key] = Duration

\* Off air, and the operator has been told.
Told == ~svc.playing /\ svc.phase \in {"held", "failed"}
AtRest ==
  /\ eng.up /\ link = "open" /\ reports = <<>> /\ svc.connected /\ ~svc.probe /\ ~svc.timer
  /\ hs.at = "idle" /\ rec.at = "idle" /\ NoneAt({"take", "play", "send", "clear"})
\* Whenever everything has come to rest and no command has failed, the engine
\* plays what is wanted, PlayOut and its clock know it, and the station's
\* template is back.
AsWished ==
  AtRest /\ ~svc.failed =>
    /\ eng.clip = wish \/ (eng.clip = Nothing /\ Told)
    /\ eng.clip # Nothing => svc.key = eng.clip /\ svc.reg = eng.clip
    /\ svc.wanted => eng.template
\* The two of them: a lost engine leaves the channel as it is wished for.
ChannelRestored == NothingSkipped /\ AsWished

\* A channel that shows something else than what is wanted gets there, or the
\* operator is told.
Served == eng.clip = wish \/ Told \/ svc.failed
OutageEnds == ~Served ~> Served
=============================================================================
