----------------------------- MODULE Supervisor -----------------------------
(***************************************************************************)
(* The CasparCG process supervisor of caspar_process.rs: start, stop and   *)
(* restart commands, status polls, the watchdogs of a spawned child and of *)
(* an adopted engine, and crash handlers with their back-off, all of them  *)
(* tasks that share one mutex and read the process table outside it.       *)
(* One step is what a task does under one lock.  A change of state emits a *)
(* status, which is a status read: Poll, possible at any moment.           *)
(***************************************************************************)
EXTENDS Naturals, FiniteSets

CONSTANTS
    MaxProcs,       \* bound: engines that ever run
    Tasks,          \* bound: commands and crash handlers in flight
    MaxCrashes,     \* MAX_CRASHES_BEFORE_TRIP, 3 in the code
    Cases           \* instances considered, see Case

(* The role and settings of an instance, with the bounds of its run: the   *)
(* operator's commands, the status polls (Always for no bound) and the     *)
(* images of the engines that may be launched outside PlayOut.             *)
Always == 100
Case == [primary : BOOLEAN, auto : BOOLEAN, keepAlive : BOOLEAN,
         ops : Nat, polls : Nat, outside : SUBSET {"ours", "foreign"}]
ASSUME BoundsAssumption == /\ MaxProcs \in Nat \ {0} /\ MaxCrashes \in Nat \ {0}
                           /\ Cases \subseteq Case

VARIABLES
    proc, image, helpers,               \* the process table
    state, child, pid, adopted, job,    \* SupervisorInner
    expectedStop, tripped,
    crashes,                            \* length of crash_history
    boot, steady,                       \* child watchdogs in either phase
    task, poll,                         \* tasks in flight, the status poll
    set,                                \* its case
    ops, polls, overlapped,             \* history, and of the stops that no start
    stops, held                         \* overlapped: those under way, whether one is over
table == <<proc, image, helpers>>
inner == <<state, child, pid, adopted, job, expectedStop, tripped>>
watchdogs == <<boot, steady>>
history == <<ops, polls, overlapped, stops, held>>
vars == <<table, inner, crashes, watchdogs, task, poll, set, history>>

Engines == 1..MaxProcs
NoPid == 0
Helper(e) == MaxProcs + e           \* pid of the CEF helpers of engine e
Pids == 0..(2 * MaxProcs)
EngineOf(p) == IF p > MaxProcs THEN p - MaxProcs ELSE p
NoWatch == [pid |-> NoPid, ours |-> FALSE, running |-> FALSE]
Idle == [pc |-> "idle", pid |-> NoPid, open |-> FALSE, why |-> "operator"]

Alive == {e \in Engines : proc[e] \in {"booting", "up"}}
Up == {e \in Engines : proc[e] = "up"}
PortOpen == Up # {}
Orphans == {e \in Engines : proc[e] = "dead" /\ helpers[e]}
PidAlive(p) == \/ p \in Alive
               \/ p > MaxProcs /\ helpers[EngineOf(p)]

(* find_engine_pid: the owner of the port, else some root casparcg.exe.    *)
(* A helper is a root once its engine is dead.                             *)
Detect ==
    IF PortOpen THEN Up
    ELSE IF Alive \cup Orphans = {} THEN {NoPid}
    ELSE Alive \cup {Helper(e) : e \in Orphans}

(* terminate_process_by_pid, and the end of a Job Object (KILL_ON_CLOSE). *)
Terminate(S) ==
    /\ proc' = [e \in Engines |-> IF e \in S \cap Alive THEN "dead" ELSE proc[e]]
    /\ helpers' = [e \in Engines |-> helpers[e] /\ Helper(e) \notin S]
    /\ UNCHANGED image

Init ==
    /\ proc \in [Engines -> {"none", "up"}] /\ \A e \in Engines \ {1} : proc[e] = "none"
    /\ set \in Cases /\ image \in [Engines -> {"none"} \cup set.outside]
    /\ \A e \in Engines : image[e] = "none" <=> proc[e] = "none"
    /\ helpers = [e \in Engines |-> FALSE]
    /\ state = "Stopped" /\ child = NoPid /\ pid = NoPid /\ adopted = NoWatch /\ job = NoPid
    /\ expectedStop = FALSE /\ tripped = FALSE /\ crashes = 0 /\ boot = 0 /\ steady = 0
    /\ task = [t \in Tasks |-> Idle] /\ poll = Idle
    /\ ops = 0 /\ polls = 0 /\ overlapped = FALSE /\ stops = {} /\ held = FALSE

Goto(t, pc) == task' = [task EXCEPT ![t].pc = pc]
GotoWith(t, pc, p) == task' = [task EXCEPT ![t].pc = pc, ![t].pid = p, ![t].open = PortOpen]
Done(t) == task' = [task EXCEPT ![t] = Idle]
Starting(t) == task[t].pc \in {"start", "probe", "spawn"}

-----------------------------------------------------------------------------
(* The operator's commands. A monitor instance refuses start and stop. *)

Command(t, pc) ==
    /\ set.primary /\ task[t].pc = "idle" /\ ops < set.ops /\ ops' = ops + 1
    /\ task' = [task EXCEPT ![t] = [Idle EXCEPT !.pc = pc[1], !.why = pc[2]]]
    /\ IF pc[1] = "start" THEN stops' = {} /\ held' = FALSE ELSE UNCHANGED <<stops, held>>
    /\ UNCHANGED <<table, inner, crashes, watchdogs, poll, set, polls, overlapped>>
Commands == {<<"start", "operator">>, <<"mark", "operator">>, <<"mark", "restart">>}

-----------------------------------------------------------------------------
(* start_internal *)

Start(t) ==
    /\ task[t].pc = "start"
    /\ expectedStop' = FALSE /\ tripped' = FALSE
    /\ Goto(t, "probe")
    /\ UNCHANGED <<table, state, child, pid, adopted, job, crashes, watchdogs, poll, set, history>>

Probe_NoGrace(t) ==
    /\ task[t].pc = "probe"
    /\ \E p \in Detect : GotoWith(t, IF PortOpen THEN "adopt" ELSE "spawn", p)
    /\ UNCHANGED <<table, inner, crashes, watchdogs, poll, set, history>>
(* A process without the port is waited for: it opens the port, goes away, *)
(* or ADOPT_BOOT_GRACE ends and it is adopted as it is.                    *)
Probe(t) ==
    /\ task[t].pc = "probe"
    /\ \E p \in Detect : GotoWith(t, IF p = NoPid THEN "spawn" ELSE "adopt", p)
    /\ UNCHANGED <<table, inner, crashes, watchdogs, poll, set, history>>

(* What every adoption writes. *)
Adopted(p, open) ==
    /\ state' = IF open THEN "Operational" ELSE "Starting"
    /\ pid' = p
Adopt(t) ==
    /\ task[t].pc = "adopt"
    /\ Adopted(task[t].pid, task[t].open)
    /\ Goto(t, "ensure")
    /\ UNCHANGED <<table, child, adopted, job, expectedStop, tripped, crashes, watchdogs, poll, set, history>>

(* ensure_adopted_watchdog_internal. The image of a process that is gone   *)
(* by now is unknown.                                                      *)
EnsureWatchdog(p) ==
    adopted' = IF child # NoPid \/ (adopted # NoWatch /\ pid = p) THEN adopted
               ELSE [pid |-> p, running |-> TRUE,
                     ours |-> PidAlive(p) /\ image[EngineOf(p)] # "foreign"]
Ensure(t) ==
    /\ task[t].pc = "ensure"
    /\ EnsureWatchdog(task[t].pid)
    /\ Done(t)
    /\ UNCHANGED <<table, state, child, pid, job, expectedStop, tripped, crashes, watchdogs, poll, set, history>>

(* The new Job Object replaces the old one, whose engine it takes along.   *)
Spawn(t) ==
    /\ task[t].pc = "spawn"
    /\ \E e \in Engines :
         /\ proc[e] = "none" /\ \A d \in 1..(e - 1) : proc[d] # "none"
         /\ proc' = [d \in Engines |-> IF d = e THEN "booting"
                       ELSE IF d = job /\ d \in Alive THEN "dead" ELSE proc[d]]
         /\ image' = [image EXCEPT ![e] = "spawned"]
         /\ state' = "Starting" /\ child' = e /\ pid' = e
         /\ job' = IF set.keepAlive THEN NoPid ELSE e
         /\ expectedStop' = FALSE /\ adopted' = NoWatch
    /\ boot' = boot + 1
    /\ overlapped' = (overlapped \/ \E u \in Tasks \ {t} : task[u].pc = "spawn")
    /\ Done(t)
    /\ UNCHANGED <<helpers, tripped, crashes, steady, poll, set, ops, polls, stops, held>>

SpawnFails_Silent(t) ==
    /\ task[t].pc = "spawn" /\ Done(t)
    /\ UNCHANGED <<table, inner, crashes, watchdogs, poll, set, history>>
(* No executable, or the spawn fails: only the relaunch reports a crash. *)
SpawnFails(t) ==
    /\ task[t].pc = "spawn"
    /\ state' = IF task[t].why = "relaunch" THEN "Crashed" ELSE state
    /\ Done(t)
    /\ UNCHANGED <<table, child, pid, adopted, job, expectedStop, tripped, crashes, watchdogs, poll, set, history>>

-----------------------------------------------------------------------------
(* stop and restart *)

Mark(t) ==
    /\ task[t].pc = "mark"
    /\ expectedStop' = TRUE /\ tripped' = FALSE /\ adopted' = NoWatch
    /\ stops' = IF \E u \in Tasks : Starting(u) THEN stops ELSE stops \cup {t}
    /\ Goto(t, "take")
    /\ UNCHANGED <<table, state, child, pid, job, crashes, watchdogs, poll, set, ops, polls, overlapped, held>>

(* The child, else the adopted pid, else the owner of the port. *)
Take(t) ==
    /\ task[t].pc = "take"
    /\ \E p \in IF child # NoPid THEN {child} ELSE IF pid # NoPid THEN {pid}
                ELSE IF PortOpen THEN Up ELSE {NoPid} : GotoWith(t, "kill", p)
    /\ child' = NoPid /\ pid' = NoPid
    /\ UNCHANGED <<table, state, adopted, job, expectedStop, tripped, crashes, watchdogs, poll, set, history>>

(* EXIT or a kill for the target; KILL over the port for another engine    *)
(* that serves it, which may not obey.                                     *)
Kill(t) ==
    /\ task[t].pc = "kill"
    /\ \E others \in {{}, Up} : Terminate({task[t].pid} \cup others)
    /\ Goto(t, "settle")
    /\ UNCHANGED <<inner, crashes, watchdogs, poll, set, history>>

Settle(t) ==
    /\ task[t].pc = "settle"
    /\ Terminate({job})
    /\ state' = "Stopped" /\ pid' = NoPid /\ job' = NoPid
    /\ IF task[t].why = "restart"
       THEN /\ crashes' = 0 /\ task' = [task EXCEPT ![t] = [Idle EXCEPT !.pc = "start"]]
            /\ stops' = {} /\ held' = FALSE
       ELSE /\ Done(t) /\ UNCHANGED crashes
            /\ stops' = stops \ {t} /\ held' = (held \/ t \in stops)
    /\ UNCHANGED <<child, adopted, expectedStop, tripped, watchdogs, poll, set, ops, polls, overlapped>>

-----------------------------------------------------------------------------
(* handle_crash *)

Handler(u, pc, p) == /\ task[u].pc = "idle"
                     /\ task' = [task EXCEPT ![u] = [Idle EXCEPT !.pc = pc, !.pid = p, !.why = "relaunch"]]

(* Crashes older than the window are forgotten before this one counts. *)
Crash(t) ==
    /\ task[t].pc = "crash"
    /\ Terminate(IF task[t].pid \in Engines THEN {Helper(task[t].pid)} ELSE {})
    /\ \E kept \in 0..crashes :
         /\ crashes' = IF kept > MaxCrashes THEN kept ELSE kept + 1
         /\ IF crashes' > MaxCrashes \/ ~set.auto \/ ~set.primary
            THEN /\ state' = "Crashed" /\ tripped' = (tripped \/ crashes' > MaxCrashes) /\ Done(t)
            ELSE /\ state' = "Starting" /\ Goto(t, "backoff") /\ UNCHANGED tripped
    /\ UNCHANGED <<child, pid, adopted, job, expectedStop, watchdogs, poll, set, history>>

Backoff_IgnoresStop(t) ==
    /\ task[t].pc = "backoff" /\ Goto(t, "start")
    /\ UNCHANGED <<table, inner, crashes, watchdogs, poll, set, history>>
(* A Stop during the back-off wins over the relaunch. *)
Backoff(t) ==
    /\ task[t].pc = "backoff"
    /\ IF expectedStop THEN Done(t) ELSE Goto(t, "start")
    /\ UNCHANGED <<table, inner, crashes, watchdogs, poll, set, history>>

-----------------------------------------------------------------------------
(* run_process_watchdog: any number of them may look at the same child. *)

WatchBoot ==
    /\ boot > 0 /\ child \in Alive /\ PortOpen
    /\ boot' = boot - 1 /\ steady' = steady + 1
    /\ state' = "Operational"
    /\ UNCHANGED <<table, child, pid, adopted, job, expectedStop, tripped, crashes, task, poll, set, history>>

Leaves == \/ boot > 0 /\ boot' = boot - 1 /\ UNCHANGED steady
          \/ steady > 0 /\ steady' = steady - 1 /\ UNCHANGED boot
WatchTaken ==
    /\ child = NoPid /\ Leaves
    /\ UNCHANGED <<table, inner, crashes, task, poll, set, history>>
WatchDeath ==
    /\ child # NoPid /\ proc[child] = "dead" /\ Leaves
    /\ child' = NoPid /\ pid' = NoPid
    /\ IF expectedStop THEN state' = "Stopped" /\ UNCHANGED task
       ELSE UNCHANGED state /\ \E u \in Tasks : Handler(u, "crash", pid)
    /\ UNCHANGED <<table, adopted, job, expectedStop, tripped, crashes, poll, set, history>>

(* Sixty seconds of a watchdog, of a child or of an adopted engine. *)
Healthy ==
    /\ (steady > 0 /\ child \in Alive) \/ (adopted.running /\ PidAlive(adopted.pid))
    /\ crashes > 0 /\ crashes' = 0
    /\ UNCHANGED <<table, inner, watchdogs, task, poll, set, history>>

-----------------------------------------------------------------------------
(* run_adopted_process_watchdog *)

(* The task returns; its handle stays in adopted_watchdog. *)
AdoptedReturns ==
    /\ adopted.running /\ (expectedStop \/ child # NoPid)
    /\ adopted' = [adopted EXCEPT !.running = FALSE]
    /\ UNCHANGED <<table, state, child, pid, job, expectedStop, tripped, crashes, watchdogs, task, poll, set, history>>
Detached == adopted' = NoWatch
AdoptedDeath ==
    /\ adopted.running /\ ~expectedStop /\ child = NoPid /\ ~PidAlive(adopted.pid)
    /\ pid' = NoPid /\ Detached
    /\ IF adopted.ours /\ set.auto /\ set.primary
       THEN /\ state' = "Starting"
            /\ Terminate(IF adopted.pid \in Engines THEN {Helper(adopted.pid)} ELSE {})
            /\ \E u \in Tasks : Handler(u, "grace", NoPid)
       ELSE state' = "Crashed" /\ UNCHANGED <<table, task>>
    /\ UNCHANGED <<child, job, expectedStop, tripped, crashes, watchdogs, poll, set, history>>

(* EXTERNAL_RELAUNCH_GRACE: stopped, revived by somebody else, or over. *)
Grace(t) ==
    /\ task[t].pc = "grace"
    /\ \/ expectedStop /\ Done(t) /\ UNCHANGED <<state, pid>>
       \/ ~expectedStop /\ \E p \in Detect \ {NoPid} : GotoWith(t, "ensure", p) /\ Adopted(p, PortOpen)
       \/ ~expectedStop /\ Detect = {NoPid} /\ Goto(t, "crash") /\ UNCHANGED <<state, pid>>
    /\ UNCHANGED <<table, child, adopted, job, expectedStop, tripped, crashes, watchdogs, poll, set, history>>

-----------------------------------------------------------------------------
(* caspar_process_get_status and caspar_process_adopt: one probe, used     *)
(* under later locks.                                                      *)

PollBegins ==
    /\ poll.pc = "idle" /\ (set.polls = Always \/ polls < set.polls)
    /\ polls' = IF set.polls = Always THEN polls ELSE polls + 1
    /\ \E p \in Detect : \E pc \in {"status", "takeover"} :
         /\ pc = "takeover" => p # NoPid
         /\ poll' = [Idle EXCEPT !.pc = pc, !.pid = p, !.open = PortOpen]
    /\ UNCHANGED <<table, inner, crashes, watchdogs, task, set, ops, overlapped, stops, held>>

PollTakeover ==
    /\ poll.pc = "takeover"
    /\ IF child = NoPid THEN Adopted(poll.pid, poll.open) ELSE UNCHANGED <<state, pid>>
    /\ poll' = [poll EXCEPT !.pc = "status"]
    /\ UNCHANGED <<table, child, adopted, job, expectedStop, tripped, crashes, watchdogs, task, set, history>>

(* The watchdog, then get_status_with. An executable is configured. *)
PollStatus ==
    /\ poll.pc = "status"
    /\ IF set.primary /\ poll.pid # NoPid THEN EnsureWatchdog(poll.pid) ELSE UNCHANGED adopted
    /\ LET settled == state \notin {"Crashed", "Starting"}
           found == poll.pid # NoPid IN
       /\ state' = CASE child # NoPid -> state
                     [] child = NoPid /\ poll.open -> "Operational"
                     [] child = NoPid /\ ~poll.open /\ settled -> IF found THEN "Starting" ELSE "Stopped"
                     [] OTHER -> state
       /\ pid' = CASE child # NoPid -> pid
                   [] child = NoPid /\ found -> IF pid = NoPid THEN poll.pid ELSE pid
                   [] OTHER -> IF settled THEN NoPid ELSE pid
    /\ poll' = Idle
    /\ UNCHANGED <<table, child, job, expectedStop, tripped, crashes, watchdogs, task, set, history>>

-----------------------------------------------------------------------------
(* The processes (external). *)

Boots == \E e \in Engines :
    /\ proc[e] = "booting" /\ ~PortOpen
    /\ proc' = [proc EXCEPT ![e] = "up"]
    /\ \E h \in BOOLEAN : helpers' = [helpers EXCEPT ![e] = h]
    /\ UNCHANGED <<image, inner, crashes, watchdogs, task, poll, set, history>>
Dies == \E e \in Alive :
    /\ proc' = [proc EXCEPT ![e] = "dead"]
    /\ UNCHANGED <<image, helpers, inner, crashes, watchdogs, task, poll, set, history>>
HelperEnds == \E e \in Orphans :
    /\ helpers' = [helpers EXCEPT ![e] = FALSE]
    /\ UNCHANGED <<proc, image, inner, crashes, watchdogs, task, poll, set, history>>
Launched == \E e \in Engines, i \in set.outside :
    /\ proc[e] = "none" /\ \A d \in 1..(e - 1) : proc[d] # "none"
    /\ proc' = [proc EXCEPT ![e] = "booting"] /\ image' = [image EXCEPT ![e] = i]
    /\ UNCHANGED <<helpers, inner, crashes, watchdogs, task, poll, set, history>>

Step(t) == \/ Start(t) \/ Probe(t) \/ Adopt(t) \/ Ensure(t) \/ Spawn(t) \/ SpawnFails(t)
           \/ Mark(t) \/ Take(t) \/ Kill(t) \/ Settle(t)
           \/ Crash(t) \/ Backoff(t) \/ Grace(t)
Watch == WatchBoot \/ WatchTaken \/ WatchDeath \/ AdoptedReturns \/ AdoptedDeath
Poll == PollBegins \/ PollTakeover \/ PollStatus
Next ==
    \/ \E t \in Tasks : Step(t) \/ \E pc \in Commands : Command(t, pc)
    \/ Watch \/ Healthy \/ Poll
    \/ Boots \/ Dies \/ HelperEnds \/ Launched
Spec == Init /\ [][Next]_vars
(* Tasks are polled and their timers fire; the interface polls the status; *)
(* an engine that does not die boots.                                      *)
Fairness == /\ \A t \in Tasks : WF_vars(Step(t))
            /\ WF_vars(Watch) /\ WF_vars(PollBegins) /\ WF_vars(PollTakeover \/ PollStatus)
            /\ WF_vars(Boots) /\ WF_vars(HelperEnds)
FairSpec == Spec /\ Fairness

-----------------------------------------------------------------------------
TypeOK ==
    /\ proc \in [Engines -> {"none", "booting", "up", "dead"}] /\ Cardinality(Up) <= 1
    /\ image \in [Engines -> {"none", "spawned", "ours", "foreign"}] /\ helpers \in [Engines -> BOOLEAN]
    /\ state \in {"Stopped", "Starting", "Operational", "Crashed"}
    /\ child \in Engines \cup {NoPid} /\ pid \in Pids /\ job \in Engines \cup {NoPid}
    /\ adopted \in [pid : Pids, ours : BOOLEAN, running : BOOLEAN]
    /\ expectedStop \in BOOLEAN /\ tripped \in BOOLEAN /\ crashes \in 0..(MaxCrashes + 1)
    /\ boot \in Nat /\ steady \in Nat /\ (child # NoPid => boot + steady > 0)

(* PlayOut never has two engines of its own running, whatever is adopted,  *)
(* crashes or is stopped meanwhile, unless two starts were past their      *)
(* probes together.                                                        *)
OneEngine == ~overlapped => Cardinality({e \in Alive : image[e] = "spawned"}) <= 1

(* A stop that no start overlapped stands: until the operator starts again *)
(* no relaunch is under way, and no engine of PlayOut runs but one that    *)
(* another stop is about to end.                                           *)
Ending(e) == \E t \in Tasks : task[t].pc = "kill" /\ task[t].pid = e
StopStands ==
    held /\ ~overlapped =>
        /\ \A t \in Tasks : ~Starting(t)
        /\ \A e \in Alive : image[e] = "spawned" => Ending(e)

(* A child's death is answered: another engine, or a report of the end. *)
DeathAnswered ==
    (child # NoPid /\ proc[child] = "dead") ~> (state \in {"Stopped", "Crashed"} \/ Alive # {})

=============================================================================
