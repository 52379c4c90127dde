-------------------------- MODULE SupervisorProofs --------------------------
(***************************************************************************)
(* The loss of CasparCG on its two sides: OneEngine and StopStands of the  *)
(* process supervisor, for any number of processes, tasks, crashes and     *)
(* cases, and then ChannelRestored of the playout, for any rundown and any *)
(* number of losses and commands.                                          *)
(***************************************************************************)
EXTENDS Supervisor, EngineRecovery, FiniteSetTheorems, SequenceTheorems, TLAPS

Ours == {e \in Alive : image[e] = "spawned"}
Spawning == \E t \in Tasks : task[t].pc = "spawn"

\* What the argument needs to know of the types.
ProcessType ==
  /\ set \in Cases
  /\ proc \in [Engines -> {"none", "booting", "up", "dead"}]
  /\ DOMAIN image = Engines /\ DOMAIN task = Tasks

\* A start goes on to spawn only when it has found no process. So unless two
\* starts do so together, none is about to spawn while an engine of ours runs.
OneInv ==
  /\ ProcessType
  /\ ~overlapped => \A e, f \in Ours : e = f
  /\ ~overlapped /\ Spawning => Ours = {}

-----------------------------------------------------------------------------
\* At first there is at most an engine of somebody else.
LEMMA InitOne == Init => OneInv
<1> SUFFICES ASSUME Init PROVE OneInv
  OBVIOUS
<1>1. ProcessType
  BY DEF Init, ProcessType
<1>2. set.outside \subseteq {"ours", "foreign"}
  BY BoundsAssumption DEF Init, Case
<1>3. Ours = {}
  BY <1>2 DEF Init, Ours, Alive
<1> QED
  BY <1>1, <1>3 DEF OneInv

\* A step that spawns nothing: engines of ours only go, and who is about to
\* spawn was so before, or has seen that there is no process.
LEMMA FewerKeeps ==
  ASSUME OneInv, ProcessType', UNCHANGED overlapped, Ours' \subseteq Ours,
         Spawning' => Spawning \/ Ours = {}
  PROVE  OneInv'
BY DEF OneInv

\* The engine spawned is the only one, unless another start spawns one too.
LEMMA SpawnKeeps == ASSUME OneInv, NEW t \in Tasks, Spawn(t) PROVE OneInv'
<1>1. PICK e \in Engines : /\ proc[e] = "none"
                           /\ proc' = [d \in Engines |-> IF d = e THEN "booting"
                                         ELSE IF d = job /\ d \in Alive THEN "dead" ELSE proc[d]]
                           /\ image' = [image EXCEPT ![e] = "spawned"]
  BY DEF Spawn
<1>2. ProcessType'
  BY <1>1 DEF Spawn, Done, OneInv, ProcessType
<1>3. Ours' \subseteq Ours \cup {e}
  BY <1>1 DEF Ours, Alive, OneInv, ProcessType
<1>4. Spawning
  BY DEF Spawn, Spawning
<1>5. ASSUME ~overlapped' PROVE ~overlapped /\ ~Spawning'
  BY <1>5 DEF Spawn, Done, Idle, Spawning, OneInv, ProcessType
<1> QED
  BY <1>2, <1>3, <1>4, <1>5 DEF OneInv

\* Engines of ours are ended, die and boot, and others are launched.
LEMMA EndsKeep ==
  ASSUME ProcessType, NEW S, Terminate(S)
  PROVE  Ours' \subseteq Ours /\ proc' \in [Engines -> {"none", "booting", "up", "dead"}]
BY DEF ProcessType, Terminate, Ours, Alive

\* Processes boot, die and are launched outside PlayOut.
LEMMA OutsideFewer ==
  ASSUME OneInv, Boots \/ Dies \/ HelperEnds \/ Launched
  PROVE  ProcessType' /\ Ours' \subseteq Ours
<1>1. UNCHANGED <<task, set>>
  BY DEF Boots, Dies, HelperEnds, Launched
<1>2. CASE Boots
  BY <1>2, <1>1 DEF Boots, OneInv, ProcessType, Ours, Alive
<1>3. CASE Dies
  BY <1>3, <1>1 DEF Dies, OneInv, ProcessType, Ours, Alive
<1>4. CASE HelperEnds
  BY <1>4, <1>1 DEF HelperEnds, OneInv, ProcessType, Ours, Alive
<1>5. CASE Launched
  <2>1. set.outside \subseteq {"ours", "foreign"}
    BY BoundsAssumption DEF OneInv, ProcessType, Case
  <2> QED
    BY <1>5, <1>1, <2>1 DEF Launched, OneInv, ProcessType, Ours, Alive
<1> QED
  BY <1>2, <1>3, <1>4, <1>5

\* So they leave what holds.
LEMMA OutsideKeeps ==
  ASSUME OneInv, Boots \/ Dies \/ HelperEnds \/ Launched
  PROVE  OneInv'
<1>1. UNCHANGED <<task, overlapped>>
  BY DEF Boots, Dies, HelperEnds, Launched, history
<1> QED
  BY <1>1, OutsideFewer, FewerKeeps DEF Spawning

\* The watchdogs and polls: a handler begins with the crash or the grace.
LEMMA WatchKeeps == ASSUME OneInv, Watch \/ Healthy \/ Poll PROVE OneInv'
<1>1. UNCHANGED <<image, overlapped, set>>
  BY ZenonT(60) DEF Watch, Healthy, Poll, WatchBoot, WatchTaken, WatchDeath, AdoptedReturns,
       AdoptedDeath, PollBegins, PollTakeover, PollStatus, Terminate, table, history
<1>2. proc' \in [Engines -> {"none", "booting", "up", "dead"}] /\ Ours' \subseteq Ours
  <2>1. CASE UNCHANGED proc
    BY <2>1, <1>1 DEF OneInv, ProcessType, Ours, Alive
  <2>2. CASE AdoptedDeath
    BY <2>2, <2>1, EndsKeep, SMTT(60) DEF AdoptedDeath, table, OneInv
  <2> QED
    BY <2>1, <2>2 DEF Watch, Healthy, Poll, WatchBoot, WatchTaken, WatchDeath, AdoptedReturns,
         PollBegins, PollTakeover, PollStatus, table
<1>3. \/ UNCHANGED task
      \/ \E u \in Tasks, pc \in {"crash", "grace"}, p \in {pid, NoPid} : Handler(u, pc, p)
  BY DEF Watch, Healthy, Poll, WatchBoot, WatchTaken, WatchDeath, AdoptedReturns, AdoptedDeath,
         PollBegins, PollTakeover, PollStatus
<1>4. DOMAIN task' = Tasks /\ (Spawning' => Spawning)
  <2>1. CASE UNCHANGED task
    BY <2>1 DEF Spawning, OneInv, ProcessType
  <2>2. CASE \E u \in Tasks, pc \in {"crash", "grace"}, p \in {pid, NoPid} : Handler(u, pc, p)
    <3>1. PICK u \in Tasks, pc \in {"crash", "grace"}, p \in {pid, NoPid} : Handler(u, pc, p)
      BY <2>2
    <3>2. DOMAIN task' = Tasks /\ \A w \in Tasks \ {u} : task'[w] = task[w]
      BY <3>1 DEF Handler, OneInv, ProcessType
    <3>3. task'[u] = [Idle EXCEPT !.pc = pc, !.pid = p, !.why = "relaunch"]
      BY <3>1 DEF Handler, OneInv, ProcessType
    <3>4. task'[u].pc # "spawn"
      BY <3>1, <3>3 DEF Idle
    <3> QED
      BY <3>2, <3>4 DEF Spawning
  <2> QED
    BY <1>3, <2>1, <2>2
<1> QED
  BY <1>1, <1>2, <1>4, FewerKeeps, SMTT(60) DEF OneInv, ProcessType

\* A task is about to spawn after its probe only, which then found no process.
LEMMA StepKeeps == ASSUME OneInv, NEW t \in Tasks, Step(t), ~Spawn(t) PROVE OneInv'
<1>1. UNCHANGED <<image, overlapped, set>>
  BY DEF Step, Start, Probe, Adopt, Ensure, SpawnFails, Mark, Take, Kill, Settle, Crash, Backoff,
         Grace, Terminate, table, history
<1>2. proc' \in [Engines -> {"none", "booting", "up", "dead"}] /\ Ours' \subseteq Ours
  <2>1. CASE UNCHANGED proc
    BY <2>1, <1>1 DEF OneInv, ProcessType, Ours, Alive
  <2>2. CASE \E S : Terminate(S)
    BY <2>2, EndsKeep, SMTT(60) DEF OneInv
  <2> QED
    BY <2>1, <2>2
    DEF Step, Start, Probe, Adopt, Ensure, SpawnFails, Mark, Take, Kill, Settle, Crash, Backoff,
        Grace, table
<1>3. DOMAIN task' = Tasks /\ \A u \in Tasks \ {t} : task'[u] = task[u]
  BY DEF Step, Start, Probe, Adopt, Ensure, SpawnFails, Mark, Take, Kill, Settle, Crash, Backoff,
         Grace, Goto, GotoWith, Done, OneInv, ProcessType
<1>4. task'[t].pc = "spawn" => Ours = {}
  <2>1. CASE Probe(t)
    <3>1. PICK p \in Detect : GotoWith(t, IF p = NoPid THEN "spawn" ELSE "adopt", p)
      BY <2>1 DEF Probe
    <3>2. task'[t].pc = "spawn" => p = NoPid
      BY <3>1 DEF GotoWith, OneInv, ProcessType
    <3>3. p = NoPid => Alive = {}
      BY <3>1, BoundsAssumption DEF Detect, NoPid, Alive, Up, PortOpen, Engines, Orphans, Helper
    <3> QED
      BY <3>2, <3>3 DEF Ours
  <2>2. CASE \E pc \in {"probe", "take", "settle", "backoff", "start", "crash"} : Goto(t, pc)
    BY <2>2 DEF Goto, OneInv, ProcessType
  <2>3. CASE \E pc \in {"kill", "ensure"} : \E p : GotoWith(t, pc, p)
    BY <2>3 DEF GotoWith, OneInv, ProcessType
  <2>4. CASE Done(t)
    BY <2>4 DEF Done, Idle, OneInv, ProcessType
  <2>5. CASE task' = [task EXCEPT ![t] = [Idle EXCEPT !.pc = "start"]]
    BY <2>5 DEF Idle, OneInv, ProcessType
  <2>6. CASE Goto(t, "ensure")
    BY <2>6 DEF Goto, OneInv, ProcessType
  <2> QED
    BY <2>1, <2>2, <2>3, <2>4, <2>5, <2>6
    DEF Step, Start, Adopt, Ensure, SpawnFails, Mark, Take, Kill, Settle, Crash, Backoff, Grace
<1>5. Spawning' => Spawning \/ Ours = {}
  BY <1>3, <1>4 DEF Spawning
<1> QED
  BY <1>1, <1>2, <1>3, <1>5, FewerKeeps DEF OneInv, ProcessType

\* The operator's commands start a task.
LEMMA CommandKeeps ==
  ASSUME OneInv, NEW t \in Tasks, NEW pc \in Commands, Command(t, pc)
  PROVE  OneInv'
<1>1. UNCHANGED <<proc, image, overlapped, set>>
  BY DEF Command, table
<1>2. DOMAIN task' = Tasks /\ (Spawning' => Spawning)
  BY DEF Command, Commands, Idle, Spawning, OneInv, ProcessType
<1> QED
  BY <1>1, <1>2, FewerKeeps DEF OneInv, ProcessType, Ours, Alive

-----------------------------------------------------------------------------
\* The inductive invariant of OneEngine, step by step.
LEMMA OneInvStep ==
  ASSUME OneInv, [Next]_vars
  PROVE  OneInv'
<1>1. CASE UNCHANGED vars
  BY <1>1 DEF vars, table, history, OneInv, ProcessType, Ours, Alive, Spawning
<1>2. CASE Next
  BY <1>2, StepKeeps, SpawnKeeps, CommandKeeps, WatchKeeps, OutsideKeeps DEF Next
<1> QED
  BY <1>1, <1>2

\* PlayOut never runs two engines it has spawned, for any number of commands,
\* crash handlers, adoptions and processes, unless two starts were past their
\* probes together (start_internal, ADOPT_BOOT_GRACE).
THEOREM NeverTwoEngines == Spec => []OneEngine
<1>1. Init => OneInv
  BY InitOne
<1>2. OneInv /\ [Next]_vars => OneInv'
  BY OneInvStep
<1>3. OneInv => OneEngine
  <2> SUFFICES ASSUME OneInv, ~overlapped PROVE Cardinality(Ours) <= 1
    BY DEF OneEngine, Ours
  <2>1. CASE Ours = {}
    BY <2>1, FS_EmptySet
  <2>2. CASE Ours # {}
    <3>1. PICK e \in Ours : Ours = {e}
      BY <2>2 DEF OneInv
    <3>2. Cardinality({e}) = 1
      BY FS_Singleton
    <3> QED
      BY <3>1, <3>2
  <2> QED
    BY <2>1, <2>2
<1> QED
  BY <1>1, <1>2, <1>3, PTL DEF Spec

-----------------------------------------------------------------------------
\* Every task is a record of four fields.
Shaped ==
  \A t \in Tasks : task[t] = [pc |-> task[t].pc, pid |-> task[t].pid,
                              open |-> task[t].open, why |-> task[t].why]

Stopping == {"take", "kill", "settle"}
PastTake == \E t \in stops : task[t].pc \in {"kill", "settle"}

\* A stop that no start overlaps leaves no child once it has taken it, and no
\* relaunch comes through its mark; the engine it or another took is ended.
StopInv ==
  /\ OneInv /\ Shaped
  /\ stops \subseteq Tasks /\ \A t \in stops : task[t].pc \in Stopping
  /\ held \/ stops # {} => expectedStop /\ \A t \in Tasks : ~Starting(t)
  /\ held \/ PastTake => child = NoPid
  /\ ~overlapped => \A e \in Ours : e = child \/ Ending(e)

\* A task that is not stopping moves on, and starts none.
LEMMA OthersMove ==
  ASSUME StopInv, OneInv', Shaped', UNCHANGED <<overlapped, stops, held, expectedStop>>,
         child' = child \/ (child' = NoPid /\ child \notin Ours'), Ours' \subseteq Ours,
         NEW t \in Tasks, \A u \in Tasks \ {t} : task'[u] = task[u],
         task'[t] = task[t] \/ (task[t].pc \notin Stopping /\ task'[t].pc \notin Stopping),
         held \/ stops # {} => (Starting(t)' => Starting(t))
  PROVE  StopInv'
<1>1. \A u \in Tasks : task[u].pc \in Stopping => task'[u] = task[u]
  BY DEF StopInv
<1>2. \A u \in Tasks : task[u].pc = "kill" => task'[u] = task[u]
  BY <1>1 DEF Stopping
<1>3. stops' \subseteq Tasks /\ \A u \in stops' : task'[u].pc \in Stopping
  BY <1>1 DEF StopInv
<1>4. held' \/ stops' # {} => expectedStop' /\ \A u \in Tasks : ~Starting(u)'
  BY DEF StopInv, Starting
<1>5. PastTake' => PastTake
  BY <1>1 DEF PastTake, StopInv
<1>6. \A e : Ending(e) => Ending(e)'
  BY <1>2 DEF Ending
<1> QED
  BY <1>3, <1>4, <1>5, <1>6 DEF StopInv

\* No task moves: engines and watchdogs only.
LEMMA NoneMoves ==
  ASSUME StopInv, OneInv', Shaped', UNCHANGED <<overlapped, stops, held, expectedStop, task>>,
         child' = child \/ (child' = NoPid /\ child \notin Ours'), Ours' \subseteq Ours
  PROVE  StopInv'
<1>1. /\ \A e : Ending(e)' <=> Ending(e)
      /\ PastTake' <=> PastTake
      /\ \A u \in Tasks : Starting(u)' <=> Starting(u)
  BY SMTT(60) DEF Ending, PastTake, Starting
<1> QED
  BY <1>1 DEF StopInv

\* A step of a task, as the moves of one.
LEMMA TaskSteps ==
  ASSUME OneInv, NEW t \in Tasks, Step(t) \/ \E pc \in Commands : Command(t, pc)
  PROVE  DOMAIN task' = Tasks /\ \A u \in Tasks \ {t} : task'[u] = task[u]
BY ZenonT(60) DEF Step, Start, Probe, Adopt, Ensure, Spawn, SpawnFails, Mark, Take, Kill,
     Settle, Crash, Backoff, Grace, Command, Goto, GotoWith, Done, OneInv, ProcessType

\* No step changes the shape of a task.
LEMMA ShapeKept ==
  ASSUME OneInv, Shaped, [Next]_vars
  PROVE  Shaped'
<1>1. DOMAIN task = Tasks
  BY SMTT(60) DEF OneInv, ProcessType
<1> DEFINE Record(x) == x = [pc |-> x.pc, pid |-> x.pid, open |-> x.open, why |-> x.why]
<1>2. ASSUME NEW t \in Tasks, Step(t) \/ \E pc \in Commands : Command(t, pc)
      PROVE  Record(task'[t])
  <2>1. CASE \E pc : Goto(t, pc)
    BY <1>1, <2>1 DEF Shaped, Goto
  <2>2. CASE \E pc, p : GotoWith(t, pc, p)
    BY <1>1, <2>2 DEF Shaped, GotoWith
  <2>3. CASE Done(t)
    BY <1>1, <2>3 DEF Done, Idle
  <2>4. CASE \E pc, why : task' = [task EXCEPT ![t] = [Idle EXCEPT !.pc = pc, !.why = why]]
    BY <1>1, <2>4 DEF Idle
  <2>5. CASE task' = [task EXCEPT ![t] = [Idle EXCEPT !.pc = "start"]]
    BY <1>1, <2>5 DEF Idle
  <2> QED
    BY <1>2, <2>1, <2>2, <2>3, <2>4, <2>5
    DEF Step, Start, Probe, Adopt, Ensure, Spawn, SpawnFails, Mark, Take, Kill, Settle, Crash,
        Backoff, Grace, Command
<1>3. ASSUME NEW t \in Tasks, Step(t) \/ \E pc \in Commands : Command(t, pc)
      PROVE  Shaped'
  BY <1>2, <1>3, TaskSteps DEF Shaped
<1>4. ASSUME NEW u \in Tasks, NEW pc, NEW p, Handler(u, pc, p)
      PROVE  Shaped'
  BY <1>1, <1>4 DEF Shaped, Handler, Idle
<1>5. CASE UNCHANGED task
  BY <1>5 DEF Shaped
<1> QED
  BY <1>3, <1>4, <1>5
  DEF Next, vars, Watch, Healthy, Poll, WatchBoot, WatchTaken, WatchDeath, AdoptedReturns, AdoptedDeath,
      PollBegins, PollTakeover, PollStatus, Boots, Dies, HelperEnds, Launched

\* Where Goto and GotoWith lead.
LEMMA GoesTo ==
  ASSUME DOMAIN task = Tasks, Shaped, NEW t \in Tasks
  PROVE  /\ \A pc : Goto(t, pc) => task'[t].pc = pc
         /\ \A pc, p : GotoWith(t, pc, p) => task'[t].pc = pc /\ task'[t].pid = p
         /\ Done(t) => task'[t].pc = "idle"
<1> DEFINE r == [pc |-> task[t].pc, pid |-> task[t].pid, open |-> task[t].open, why |-> task[t].why]
<1>1. task[t] = r
  BY DEF Shaped
<1>2. ASSUME NEW pc, Goto(t, pc) PROVE task'[t].pc = pc
  BY <1>1, <1>2 DEF Goto
<1>3. ASSUME NEW pc, NEW p, GotoWith(t, pc, p) PROVE task'[t].pc = pc /\ task'[t].pid = p
  <2>1. task'[t] = [[[task[t] EXCEPT !.pc = pc] EXCEPT !.pid = p] EXCEPT !.open = PortOpen]
    BY <1>3 DEF GotoWith
  <2>2. task'[t] = [[[r EXCEPT !.pc = pc] EXCEPT !.pid = p] EXCEPT !.open = PortOpen]
    BY <1>1, <2>1
  <2> QED
    BY <2>2
<1>4. Done(t) => task'[t].pc = "idle"
  BY DEF Done, Idle
<1> QED
  BY <1>2, <1>3, <1>4

\* Where the steps that concern neither a start nor a stop lead.
LEMMA OtherSteps ==
  ASSUME StopInv, OneInv', Shaped', NEW t \in Tasks,
         Probe(t) \/ Adopt(t) \/ Ensure(t) \/ SpawnFails(t) \/ Crash(t) \/ Backoff(t) \/ Grace(t)
  PROVE  StopInv'
<1>1. OneInv /\ Shaped /\ DOMAIN task = Tasks
  BY DEF StopInv, OneInv, ProcessType
<1>2. DOMAIN task' = Tasks /\ \A u \in Tasks \ {t} : task'[u] = task[u]
  BY <1>1, TaskSteps DEF Step
<1>3. UNCHANGED <<image, overlapped, stops, held, expectedStop, child>>
  BY DEF Probe, Adopt, Ensure, SpawnFails, Crash, Backoff, Grace, Terminate, table, inner, history,
         EnsureWatchdog
<1>4. Ours' \subseteq Ours
  <2>1. CASE UNCHANGED proc
    BY <2>1, <1>3 DEF Ours, Alive
  <2>2. CASE Crash(t)
    BY <2>2, <1>1, EndsKeep DEF Crash, OneInv
  <2> QED
    BY <2>1, <2>2 DEF Probe, Adopt, Ensure, SpawnFails, Backoff, Grace, table
<1>5. /\ task[t].pc \in {"probe", "adopt", "ensure", "spawn", "crash", "backoff", "grace"}
      /\ task'[t].pc \in {"spawn", "adopt", "ensure", "idle", "backoff", "start", "crash"}
      /\ task'[t].pc = "spawn" => task[t].pc = "probe"
      /\ task'[t].pc = "start" => ~expectedStop
  <2>1. CASE Probe(t)
    BY <1>1, <2>1, GoesTo DEF Probe
  <2>2. CASE Adopt(t)
    BY <1>1, <2>2, GoesTo DEF Adopt
  <2>3. CASE Ensure(t) \/ SpawnFails(t)
    BY <1>1, <2>3, GoesTo DEF Ensure, SpawnFails
  <2>4. CASE Crash(t)
    <3>1. Done(t) \/ Goto(t, "backoff")
      BY <2>4 DEF Crash
    <3> QED
      BY <1>1, <2>4, <3>1, GoesTo DEF Crash
  <2>5. CASE Backoff(t)
    BY <1>1, <2>5, GoesTo DEF Backoff
  <2>6. CASE Grace(t)
    BY <1>1, <2>6, GoesTo DEF Grace
  <2> QED
    BY <2>1, <2>2, <2>3, <2>4, <2>5, <2>6
<1>6. /\ task[t].pc \notin Stopping /\ task'[t].pc \notin Stopping
      /\ held \/ stops # {} => (Starting(t)' => Starting(t))
  BY <1>5 DEF Stopping, Starting, StopInv
<1> QED
  BY <1>2, <1>3, <1>4, <1>6, OthersMove

\* While a start is under way no stop counts, so what it changes is its own.
LEMMA StartSteps ==
  ASSUME StopInv, OneInv', Shaped', NEW t \in Tasks, Start(t) \/ Spawn(t)
  PROVE  StopInv'
<1>1. OneInv /\ Shaped /\ DOMAIN task = Tasks /\ Starting(t)
  BY DEF StopInv, OneInv, ProcessType, Start, Spawn, Starting
<1>2. DOMAIN task' = Tasks /\ \A u \in Tasks \ {t} : task'[u] = task[u]
  BY <1>1, TaskSteps DEF Step
<1>3. ~held /\ stops = {} /\ UNCHANGED <<held, stops>>
  BY <1>1 DEF StopInv, Start, Spawn, history
<1>4. \A e : Ending(e) => Ending(e)'
  BY <1>1, <1>2 DEF Ending, Starting
<1>5. ~overlapped' => \A e \in Ours' : e = child' \/ Ending(e)'
  <2>1. CASE Start(t)
    BY <1>4, <2>1 DEF Start, StopInv, Ours, Alive, table, history
  <2>2. CASE Spawn(t)
    <3>1. PICK e \in Engines :
            /\ proc' = [d \in Engines |-> IF d = e THEN "booting"
                          ELSE IF d = job /\ d \in Alive THEN "dead" ELSE proc[d]]
            /\ image' = [image EXCEPT ![e] = "spawned"] /\ child' = e
      BY <2>2 DEF Spawn
    <3>2. Ours' \subseteq Ours \cup {e}
      BY <1>1, <3>1 DEF Ours, Alive, OneInv, ProcessType
    <3>3. ~overlapped' => Ours = {}
      BY <1>1, <2>2 DEF Spawn, OneInv, Spawning
    <3> QED
      BY <3>1, <3>2, <3>3
  <2> QED
    BY <2>1, <2>2
<1> QED
  BY <1>3, <1>5 DEF StopInv, PastTake

\* The operator's commands: a start ends the reign of every stop.
LEMMA OperationSteps ==
  ASSUME StopInv, OneInv', Shaped', NEW t \in Tasks, NEW pc \in Commands, Command(t, pc)
  PROVE  StopInv'
<1>1. OneInv /\ Shaped /\ DOMAIN task = Tasks /\ task[t].pc = "idle"
  BY DEF StopInv, OneInv, ProcessType, Command
<1>2. DOMAIN task' = Tasks /\ \A u \in Tasks \ {t} : task'[u] = task[u]
  BY <1>1, TaskSteps
<1>3. UNCHANGED <<proc, image, overlapped, expectedStop, child>>
  BY DEF Command, table, inner
<1>4. Ours' \subseteq Ours
  BY <1>3 DEF Ours, Alive
<1>5. CASE pc[1] = "start"
  <2>1. stops' = {} /\ ~held'
    BY <1>5 DEF Command
  <2>2. \A e : Ending(e) => Ending(e)'
    BY <1>1, <1>2 DEF Ending
  <2> QED
    BY <1>3, <1>4, <2>1, <2>2 DEF StopInv, PastTake
<1>6. CASE pc[1] # "start"
  <2>1. UNCHANGED <<stops, held>>
    BY <1>6 DEF Command
  <2>2. task'[t].pc = "mark"
    BY <1>1, <1>6 DEF Command, Commands, Idle
  <2>3. task[t].pc \notin Stopping /\ task'[t].pc \notin Stopping /\ ~Starting(t)'
    BY <1>1, <2>2 DEF Stopping, Starting
  <2> QED
    BY <1>2, <1>3, <1>4, <2>1, <2>3, OthersMove
<1> QED
  BY <1>5, <1>6

\* A stop: its mark, the engine it takes, the kill and its end.
LEMMA MarkStep ==
  ASSUME StopInv, OneInv', Shaped', NEW t \in Tasks, Mark(t)
  PROVE  StopInv'
<1>1. OneInv /\ Shaped /\ DOMAIN task = Tasks /\ task[t].pc = "mark"
  BY DEF StopInv, OneInv, ProcessType, Mark
<1>2. DOMAIN task' = Tasks /\ \A u \in Tasks \ {t} : task'[u] = task[u]
  BY <1>1, TaskSteps DEF Step
<1>3. UNCHANGED <<proc, image, overlapped, held, child>> /\ expectedStop'
  BY DEF Mark, table
<1>4. task'[t].pc = "take"
  BY <1>1 DEF Mark, Goto, Shaped
<1>5. t \notin stops
  BY <1>1 DEF StopInv, Stopping
<1>6. \A e : Ending(e) => Ending(e)'
  BY <1>1, <1>2 DEF Ending
<1>7. \A u \in Tasks : Starting(u)' => Starting(u)
  BY <1>2, <1>4 DEF Starting
<1>8. Ours' \subseteq Ours
  BY <1>3 DEF Ours, Alive
<1>9. PastTake' => PastTake
  BY <1>2, <1>4 DEF PastTake, Mark, StopInv
<1>10. stops' = IF \E u \in Tasks : Starting(u) THEN stops ELSE stops \cup {t}
  BY DEF Mark
<1>11. stops' \subseteq Tasks /\ \A u \in stops' : task'[u].pc \in Stopping
  BY <1>2, <1>4, <1>10 DEF StopInv, Stopping
<1>12. held' \/ stops' # {} => \A u \in Tasks : ~Starting(u)'
  BY <1>3, <1>7, <1>10 DEF StopInv
<1> QED
  BY <1>3, <1>6, <1>8, <1>9, <1>11, <1>12 DEF StopInv

LEMMA TakeStep ==
  ASSUME StopInv, OneInv', Shaped', NEW t \in Tasks, Take(t)
  PROVE  StopInv'
<1>1. OneInv /\ Shaped /\ DOMAIN task = Tasks /\ task[t].pc = "take"
  BY DEF StopInv, OneInv, ProcessType, Take
<1>2. DOMAIN task' = Tasks /\ \A u \in Tasks \ {t} : task'[u] = task[u]
  BY <1>1, TaskSteps DEF Step
<1>3. UNCHANGED <<proc, image, overlapped, held, stops, expectedStop>> /\ child' = NoPid
  BY DEF Take, table, history
<1>4. task'[t].pc = "kill" /\ (child # NoPid => task'[t].pid = child)
  BY <1>1 DEF Take, GotoWith, Shaped
<1>5. \A e : Ending(e) => Ending(e)'
  BY <1>1, <1>2 DEF Ending
<1>6. ~overlapped' => \A e \in Ours' : Ending(e)'
  <2> SUFFICES ASSUME ~overlapped, NEW e \in Ours PROVE Ending(e)'
    BY <1>3 DEF Ours, Alive
  <2>1. e # NoPid
    BY DEF Ours, Alive, Engines, NoPid
  <2>2. CASE e = child
    BY <1>4, <2>1, <2>2 DEF Ending
  <2> QED
    BY <1>5, <2>2 DEF StopInv
<1>7. \A u \in Tasks : Starting(u)' => Starting(u)
  BY <1>2, <1>4 DEF Starting
<1>8. \A u \in stops : task'[u].pc \in Stopping
  BY <1>2, <1>4 DEF StopInv, Stopping
<1> QED
  BY <1>3, <1>6, <1>7, <1>8 DEF StopInv

\* What it has taken dies under the kill.
LEMMA KillStep ==
  ASSUME StopInv, OneInv', Shaped', NEW t \in Tasks, Kill(t)
  PROVE  StopInv'
<1>1. OneInv /\ Shaped /\ DOMAIN task = Tasks /\ task[t].pc = "kill"
  BY DEF StopInv, OneInv, ProcessType, Kill
<1>2. DOMAIN task' = Tasks /\ \A u \in Tasks \ {t} : task'[u] = task[u]
  BY <1>1, TaskSteps DEF Step
<1>3. UNCHANGED <<image, overlapped, held, stops, expectedStop, child>>
  BY DEF Kill, Terminate, inner, history
<1>4. task'[t].pc = "settle"
  BY <1>1 DEF Kill, Goto, Shaped
<1>5. Ours' \subseteq Ours \ {task[t].pid}
  <2>1. PICK S : Terminate(S) /\ task[t].pid \in S
    BY DEF Kill
  <2> QED
    BY <1>1, <2>1 DEF Terminate, Ours, Alive, OneInv, ProcessType
<1>6. \A e \in Ours' : Ending(e) => Ending(e)'
  BY <1>1, <1>2, <1>5 DEF Ending
<1>7. \A u \in Tasks : Starting(u)' => Starting(u)
  BY <1>2, <1>4 DEF Starting
<1>8. (\A u \in stops : task'[u].pc \in Stopping) /\ (PastTake' => PastTake)
  BY <1>1, <1>2, <1>3, <1>4 DEF StopInv, Stopping, PastTake
<1> QED
  BY <1>3, <1>5, <1>6, <1>7, <1>8 DEF StopInv

\* Its end: a restart goes on to a start, another stop holds if none overlapped it.
LEMMA SettleStep ==
  ASSUME StopInv, OneInv', Shaped', NEW t \in Tasks, Settle(t)
  PROVE  StopInv'
<1>1. OneInv /\ Shaped /\ DOMAIN task = Tasks /\ task[t].pc = "settle"
  BY DEF StopInv, OneInv, ProcessType, Settle
<1>2. DOMAIN task' = Tasks /\ \A u \in Tasks \ {t} : task'[u] = task[u]
  BY <1>1, TaskSteps DEF Step
<1>3. UNCHANGED <<overlapped, expectedStop, child>>
  BY DEF Settle
<1>4. Ours' \subseteq Ours
  BY <1>1, EndsKeep DEF Settle, OneInv
<1>5. \A e : Ending(e) => Ending(e)'
  BY <1>1, <1>2 DEF Ending
<1>6. CASE task[t].why = "restart"
  <2>1. stops' = {} /\ ~held'
    BY <1>6 DEF Settle
  <2> QED
    BY <1>3, <1>4, <1>5, <2>1 DEF StopInv, PastTake
<1>7. CASE task[t].why # "restart"
  <2>1. stops' = stops \ {t} /\ held' = (held \/ t \in stops) /\ Done(t)
    BY <1>7 DEF Settle
  <2>2. task'[t].pc = "idle"
    BY <1>1, <2>1 DEF Done, Idle
  <2>3. \A u \in Tasks : Starting(u)' => Starting(u)
    BY <1>2, <2>2 DEF Starting
  <2>4. held' \/ PastTake' => held \/ PastTake
    BY <1>1, <1>2, <2>1 DEF PastTake, StopInv
  <2>5. held' \/ stops' # {} => held \/ stops # {}
    BY <2>1
  <2>6. stops' \subseteq Tasks /\ \A u \in stops' : task'[u].pc \in Stopping
    BY <1>2, <2>1 DEF StopInv
  <2> QED
    BY <1>3, <1>4, <1>5, <2>3, <2>4, <2>5, <2>6 DEF StopInv
<1> QED
  BY <1>6, <1>7

\* The watchdogs take a dead child only; handlers begin with the crash or the grace.
LEMMA WatchSteps ==
  ASSUME StopInv, OneInv', Shaped', Watch \/ Healthy \/ Poll
  PROVE  StopInv'
<1>1. OneInv /\ Shaped /\ DOMAIN task = Tasks
  BY SMTT(60) DEF StopInv, OneInv, ProcessType
<1>2. UNCHANGED <<image, overlapped, held, stops, expectedStop>>
  BY ZenonT(60) DEF Watch, Healthy, Poll, WatchBoot, WatchTaken, WatchDeath, AdoptedReturns,
       AdoptedDeath, PollBegins, PollTakeover, PollStatus, Terminate, table, inner, history
<1>3. Ours' \subseteq Ours
  <2>1. CASE UNCHANGED proc
    BY <2>1, <1>2 DEF Ours, Alive
  <2>2. CASE AdoptedDeath
    BY <2>2, <2>1, <1>1, EndsKeep, SMTT(60) DEF AdoptedDeath, table, OneInv
  <2> QED
    BY <2>1, <2>2 DEF Watch, Healthy, Poll, WatchBoot, WatchTaken, WatchDeath, AdoptedReturns,
         PollBegins, PollTakeover, PollStatus, table
<1>4. child' = child \/ (child' = NoPid /\ child \notin Ours')
  <2>1. CASE WatchDeath
    <3>1. proc[child] = "dead" /\ child' = NoPid
      BY <2>1 DEF WatchDeath
    <3>2. child \notin Ours
      BY <3>1, SMTT(60) DEF Ours, Alive
    <3> QED
      BY <1>3, <3>1, <3>2
  <2> QED
    BY <2>1 DEF Watch, Healthy, Poll, WatchBoot, WatchTaken, AdoptedReturns, AdoptedDeath,
         PollBegins, PollTakeover, PollStatus, inner
<1>5. \/ UNCHANGED task
      \/ \E u \in Tasks, pc \in {"crash", "grace"}, p \in {pid, NoPid} : Handler(u, pc, p)
  BY DEF Watch, Healthy, Poll, WatchBoot, WatchTaken, WatchDeath, AdoptedReturns, AdoptedDeath,
         PollBegins, PollTakeover, PollStatus
<1>6. CASE UNCHANGED task
  BY <1>2, <1>3, <1>4, <1>6, NoneMoves
<1>7. CASE \E u \in Tasks, pc \in {"crash", "grace"}, p \in {pid, NoPid} : Handler(u, pc, p)
  <2>1. PICK u \in Tasks, pc \in {"crash", "grace"}, p \in {pid, NoPid} : Handler(u, pc, p)
    BY <1>7
  <2>2. /\ \A w \in Tasks \ {u} : task'[w] = task[w]
        /\ task[u].pc = "idle"
        /\ task'[u] = [Idle EXCEPT !.pc = pc, !.pid = p, !.why = "relaunch"]
    BY <1>1, <2>1 DEF Handler
  <2>3. task'[u].pc = pc
    BY <2>2 DEF Idle
  <2>4. task[u].pc \notin Stopping /\ task'[u].pc \notin Stopping /\ ~Starting(u)'
    BY <2>1, <2>2, <2>3 DEF Stopping, Starting
  <2> QED
    BY <1>2, <1>3, <1>4, <2>2, <2>4, OthersMove
<1> QED
  BY <1>5, <1>6, <1>7

\* Processes boot, die and are launched outside PlayOut.
LEMMA OutsideSteps ==
  ASSUME StopInv, OneInv', Shaped', Boots \/ Dies \/ HelperEnds \/ Launched
  PROVE  StopInv'
<1>1. UNCHANGED <<task, overlapped, held, stops, expectedStop, child>>
  BY DEF Boots, Dies, HelperEnds, Launched, inner, history
<1>2. Ours' \subseteq Ours
  BY OutsideFewer DEF StopInv
<1> QED
  BY <1>1, <1>2, NoneMoves

\* A stop is kept, whatever crashes, is adopted, polled or launched meanwhile:
\* no relaunch comes through, and only another stop's target is left to die
\* (caspar_process_stop, handle_crash).
THEOREM StopsStand == Spec => []StopStands
<1>1. Init => StopInv
  <2> SUFFICES ASSUME Init PROVE StopInv
    OBVIOUS
  <2>1. OneInv
    BY InitOne
  <2>2. Ours = {}
    BY BoundsAssumption DEF Init, Case, Ours, Alive
  <2>3. Shaped
    BY DEF Init, Shaped, Idle
  <2> QED
    BY <2>1, <2>2, <2>3 DEF Init, StopInv, PastTake
<1>2. StopInv /\ [Next]_vars => StopInv'
  <2> SUFFICES ASSUME StopInv, [Next]_vars PROVE StopInv'
    OBVIOUS
  <2>1. OneInv' /\ Shaped'
    BY OneInvStep, ShapeKept DEF StopInv
  <2>2. CASE UNCHANGED vars
    <3>1. /\ UNCHANGED <<overlapped, stops, held, expectedStop, task, child>> /\ Ours' \subseteq Ours
      BY <2>2 DEF vars, table, inner, history, Ours, Alive
    <3> QED
      BY <2>1, <3>1, NoneMoves
  <2>3. ASSUME NEW t \in Tasks, Step(t) PROVE StopInv'
    BY <2>1, <2>3, OtherSteps, StartSteps, MarkStep, TakeStep, KillStep, SettleStep DEF Step
  <2> QED
    BY <2>1, <2>2, <2>3, OperationSteps, WatchSteps, OutsideSteps DEF Next
<1>3. StopInv => StopStands
  BY DEF StopInv, StopStands, Ours, Alive, NoPid, Engines
<1> QED
  BY <1>1, <1>2, <1>3, PTL DEF Spec

-----------------------------------------------------------------------------
(* ChannelRestored: PlayOut's side of a lost engine, while no race of Windows  *)
(* is left open.                                                               *)
USE DEF EngineState, HandshakeState, RecoveryState, Report

Lost == svc.loss # NoLoss
Crashed(q) == \E i \in DOMAIN q : q[i] = "crashed"
Operator(steps) == act["operator"].at \in steps
Asking == Operator({"take", "play", "send"})
Undelivered == Operator({"take", "play", "send", "clear"})
\* The play of a recovery that nothing superseded, and a recovery that will play.
Resuming == act["recovery"].at = "send" /\ act["recovery"].token = svc.token
Settling == rec.at = "settle" /\ rec.epoch = svc.epoch

\* A call and a recovery are of rows, and the recovery has a call while it plays.
Shape ==
  /\ Lost => svc.loss.key \in Row
  /\ rec.at # "idle" => rec.loss.key \in Row
  /\ rec.epoch <= svc.epoch
  /\ Operator({"take", "play", "send", "confirm"}) => act["operator"].row \in Row
  /\ act["operator"].seek = 0
  /\ act["recovery"].at \in {"idle", "send", "confirm"}
  /\ act["recovery"].at # "idle" <=> rec.at = "playing"
  /\ act["recovery"].at # "idle" =>
       rec.row \in Row /\ act["recovery"].row = rec.row /\ act["recovery"].seek = rec.seek
  /\ act["recovery"].token <= svc.token

\* An engine that is down plays nothing, and a socket outlives no engine. A
\* handshake is broken off by nothing but the end of the engine. The socket of a
\* connection that PlayOut believes in is missing only where something tells it.
Engine ==
  /\ ~eng.up => eng.clip = Nothing /\ ~eng.template /\ link # "open" /\ eng.pos = 0
  /\ Crashed(reports) => ~eng.up
  /\ hs.at # "idle" /\ eng.up => link = "open" /\ svc.connected
  /\ link = "none" /\ svc.connected => supervised \/ (hs.at # "idle" /\ ~eng.up)
  /\ eng.clip # Nothing => reached[eng.clip] = eng.pos /\ svc.base <= eng.pos

\* While a command of the operator is on its way nothing else commands.
OperatorOwns ==
  /\ act["operator"].at # "idle" => ~Lost /\ ~Settling
  /\ act["operator"].at # "idle" /\ act["recovery"].at # "idle" => act["recovery"].token < svc.token
  /\ Asking => act["operator"].token = svc.token /\ wish = act["operator"].row /\ svc.offset = 0
  /\ Operator({"send"}) => svc.key = act["operator"].row
StopOwns ==
  Operator({"clear"}) =>
    /\ wish = Nothing /\ ~svc.playing /\ ~svc.timer /\ ~svc.wanted /\ ~svc.loaded
    /\ link = "stale" => eng.clip = Nothing
RecoveryOwns ==
  Resuming => /\ ~Lost /\ ~svc.playing /\ svc.offset = act["recovery"].seek
              /\ wish = act["recovery"].row /\ svc.key = act["recovery"].row

\* A recovery waits for an engine that plays nothing.
Waits ==
  /\ rec.at = "settle" => ~Lost
  /\ Settling => /\ svc.failed \/ (~svc.playing /\ eng.clip = Nothing)
                 /\ svc.connected => ~svc.exit
                 /\ rec.loss.pos <= reached[rec.loss.key]

\* Nothing is silent that plays, but for a call's first frame.
SilentIsOff ==
  silent /\ Ticking => svc.failed \/ Undelivered \/ \E w \in Who : act[w].at = "confirm"

\* What PlayOut believes, unless a command failed or is on its way: the clip it
\* takes to be on air is the one that is wanted and no other one plays.
OnAirIsWished ==
  svc.playing /\ ~svc.failed /\ ~Undelivered =>
    wish # Nothing /\ svc.key = wish /\ svc.reg = wish /\ eng.clip \in {Nothing, wish}
\* Where it takes nothing to be on air, nothing is: a clip is adopted.
OffIsOff ==
  ~svc.playing /\ ~svc.failed /\ ~Undelivered =>
    eng.clip = Nothing \/ (Lost /\ eng.clip = wish)
\* And there is a reason for it.
OffIsMeant ==
  ~svc.playing /\ ~svc.failed /\ ~Undelivered =>
    wish = Nothing \/ Lost \/ Settling \/ Resuming \/ Told

\* A loss waits for a handshake.
LossWaits ==
  Lost => /\ ~svc.playing \/ svc.failed
          /\ ~svc.connected \/ hs.at # "idle"
          /\ rec.at = "playing" => svc.failed \/ (~eng.up /\ hs.at = "idle")
          /\ svc.loss.pos <= reached[svc.loss.key]

\* An exit that was seen is forgotten by the handshake.
ExitSeen ==
  svc.exit => /\ hs.at = "idle"
              /\ svc.timer => /\ ~svc.connected /\ eng.clip = Nothing
                              /\ eng.up => NoneAt({"send"})

\* An engine that was lost will be asked again.
Noticed ==
  \/ ~svc.connected \/ Crashed(reports) \/ (link = "stale" /\ ~supervised)
  \/ hs.at = "reconcile" \/ (hs.at = "sync" /\ ~eng.up)
GoneIsNoticed ==
  svc.playing /\ ~svc.failed /\ ~Undelivered /\ eng.clip = Nothing =>
    Noticed \/ svc.timer \/ hs.at = "sync"
TemplateIsThere == svc.wanted \/ svc.loaded => eng.template \/ Noticed

\* The position is one that the registered row has reached.
PositionReached ==
  svc.playing => svc.offset <= svc.base /\ svc.reg \in Row /\ svc.pos <= reached[svc.reg]

PlayoutInv ==
  /\ PlayoutType /\ Shape /\ Engine /\ OperatorOwns /\ StopOwns /\ RecoveryOwns /\ Waits
  /\ SilentIsOff /\ OnAirIsWished /\ OffIsOff /\ OffIsMeant /\ LossWaits /\ ExitSeen
  /\ GoneIsNoticed /\ TemplateIsThere /\ PositionReached /\ NothingSkipped

-----------------------------------------------------------------------------
\* What a report that is sent, or handled, does to the reports under way.
LEMMA CrashedAppended ==
  ASSUME NEW q \in Seq(Report)
  PROVE  /\ Crashed(q \o <<"crashed">>)
         /\ Crashed(q \o <<"operational">>) <=> Crashed(q)
         /\ Crashed(q \o <<"starting", "operational">>) <=> Crashed(q)
<1>1. (q \o <<"crashed">>)[Len(q) + 1] = "crashed" /\ Len(q) + 1 \in DOMAIN (q \o <<"crashed">>)
  OBVIOUS
<1>2. ASSUME NEW i \in DOMAIN q
      PROVE  /\ i \in DOMAIN (q \o <<"operational">>) /\ (q \o <<"operational">>)[i] = q[i]
             /\ i \in DOMAIN (q \o <<"starting", "operational">>)
             /\ (q \o <<"starting", "operational">>)[i] = q[i]
  OBVIOUS
<1>3. ASSUME NEW i \in DOMAIN (q \o <<"operational">>), (q \o <<"operational">>)[i] = "crashed"
      PROVE  i \in DOMAIN q /\ q[i] = "crashed"
  BY <1>3
<1>4. ASSUME NEW i \in DOMAIN (q \o <<"starting", "operational">>),
             (q \o <<"starting", "operational">>)[i] = "crashed"
      PROVE  i \in DOMAIN q /\ q[i] = "crashed"
  BY <1>4
<1> QED  BY <1>1, <1>2, <1>3, <1>4 DEF Crashed

LEMMA CrashedHandled ==
  ASSUME NEW q \in Seq(Report), q # <<>>
  PROVE  /\ Crashed(Tail(q)) => Crashed(q)
         /\ Crashed(q) => Head(q) = "crashed" \/ Crashed(Tail(q))
         /\ Head(q) = "crashed" => Crashed(q)
<1>1. DOMAIN q = 1..Len(q) /\ Len(q) \in Nat \ {0} /\ Head(q) = q[1]
      /\ DOMAIN Tail(q) = 1..(Len(q) - 1) /\ \A i \in 1..(Len(q) - 1) : Tail(q)[i] = q[i + 1]
  OBVIOUS
<1>2. ASSUME NEW i \in 2..Len(q)
      PROVE  i - 1 \in 1..(Len(q) - 1) /\ Tail(q)[i - 1] = q[i]
  BY <1>1
<1>3. ASSUME Crashed(q)  PROVE  Head(q) = "crashed" \/ Crashed(Tail(q))
  <2>1. PICK i \in 1..Len(q) : q[i] = "crashed"
    BY <1>1, <1>3 DEF Crashed
  <2>2. CASE i = 1
    BY <1>1, <2>1, <2>2
  <2>3. CASE i # 1
    <3>1. i - 1 \in DOMAIN Tail(q) /\ Tail(q)[i - 1] = "crashed"
      BY <1>1, <1>2, <2>1, <2>3
    <3> QED  BY <3>1 DEF Crashed
  <2> QED  BY <2>2, <2>3
<1>4. ASSUME Crashed(Tail(q))  PROVE  Crashed(q)
  <2>1. PICK i \in 1..(Len(q) - 1) : Tail(q)[i] = "crashed"
    BY <1>1, <1>4 DEF Crashed
  <2>2. i + 1 \in 1..Len(q) /\ q[i + 1] = "crashed"
    BY <1>1, <2>1
  <2> QED  BY <1>1, <2>2 DEF Crashed
<1> QED  BY <1>1, <1>3, <1>4 DEF Crashed

\* The records that stand for nothing.
LEMMA Nones == NoLoss \in Point /\ NoCall \in Call /\ NoLoss.key = 0 /\ NoLoss.pos = 0
  BY PlayoutAssumption DEF NoLoss, NoCall, Point, Call, Position, Nothing

\* A clip plays, and everything agrees on it.
LEMMA InitInv == PlayoutInit => PlayoutInv
<1> SUFFICES ASSUME PlayoutInit PROVE PlayoutInv
  OBVIOUS
<1> USE PlayoutAssumption
<1>1. PlayoutType
  <2>1. svc \in Service
    BY Nones DEF PlayoutInit, Service, Position
  <2>2. act \in [Who -> Call] /\ reports \in Seq(Report)
    BY Nones DEF PlayoutInit, Who
  <2>3. rec \in RecoveryState
    BY Nones DEF PlayoutInit, NoRecovery, Position, Nothing
  <2>4. eng \in EngineState
    BY DEF PlayoutInit, Position
  <2>5. reached \in [Row -> Position] /\ wish \in 0..Rows
    BY DEF PlayoutInit, Position, Row
  <2>6. hs \in HandshakeState
    BY DEF PlayoutInit
  <2> QED  BY <2>1, <2>2, <2>3, <2>4, <2>5, <2>6 DEF PlayoutInit, PlayoutType
<1>2. Shape /\ Engine
  BY DEF PlayoutInit, Shape, Engine, Lost, Crashed, Operator, NoLoss, NoCall, NoRecovery, Nothing,
       Who, Row
<1>3. OperatorOwns /\ StopOwns /\ RecoveryOwns /\ Waits /\ SilentIsOff /\ LossWaits /\ ExitSeen
        /\ NothingSkipped
  BY DEF PlayoutInit, OperatorOwns, StopOwns, RecoveryOwns, Waits, SilentIsOff, LossWaits,
       ExitSeen, NothingSkipped, Lost, Operator, Asking, Settling, Resuming, NoLoss, NoCall,
       NoRecovery, Nothing, Who, Row
<1>4. OnAirIsWished /\ OffIsOff /\ OffIsMeant /\ GoneIsNoticed /\ TemplateIsThere
        /\ PositionReached
  BY DEF PlayoutInit, OnAirIsWished, OffIsOff, OffIsMeant, GoneIsNoticed, TemplateIsThere,
       PositionReached, Noticed, Lost, NoLoss, Nothing, Row
<1> QED  BY <1>1, <1>2, <1>3, <1>4 DEF PlayoutInv

\* At rest nothing is on its way, and what PlayOut believes is what is wished.
LEMMA Safe == PlayoutInv => ChannelRestored
<1> SUFFICES ASSUME PlayoutInv PROVE ChannelRestored
  OBVIOUS
<1>1. AsWished
  BY DEF PlayoutInv, PlayoutType, Shape, OnAirIsWished, OffIsOff, OffIsMeant, LossWaits,
       GoneIsNoticed, TemplateIsThere, AsWished, AtRest, Noticed, Crashed, Undelivered, Operator,
       NoneAt, Settling, Resuming, Who, Nothing
<1> QED  BY <1>1 DEF PlayoutInv, ChannelRestored

\* Fields that connections and timers leave alone.
Belief(t, s) ==
  /\ t.playing = s.playing /\ t.key = s.key /\ t.pos = s.pos /\ t.offset = s.offset
  /\ t.reg = s.reg /\ t.base = s.base /\ t.token = s.token /\ t.epoch = s.epoch
  /\ t.loss = s.loss /\ t.phase = s.phase /\ t.failed = s.failed
Graphics(t, s) == t.wanted = s.wanted /\ t.loaded = s.loaded

\* markDisconnected.
LEMMA DisconnectedIs ==
  ASSUME NEW s \in Service
  PROVE  /\ Disconnected(s) \in Service /\ ~Disconnected(s).connected
         /\ Belief(Disconnected(s), s) /\ Graphics(Disconnected(s), s)
         /\ Disconnected(s).timer = s.timer /\ Disconnected(s).exit = s.exit
  BY DEF Disconnected, Probing, OnAir, Service, Belief, Graphics

\* The engine dies, with its clip, its template and its sockets.
LEMMA DiesKeeps ==
  ASSUME PlayoutInv, Windows = {}, EngineDies  PROVE PlayoutInv'
<1> USE DEF PlayoutInv
<1>1. PlayoutType'
  <2>1. Down \in EngineState
    BY PlayoutAssumption DEF Down, Nothing, Position
  <2>2. left \in Scenario /\ left.deaths > 0 /\ left' = [left EXCEPT !.deaths = @ - 1]
    BY DEF EngineDies, PlayoutType
  <2>3. left' \in Scenario
    BY <2>2 DEF Scenario
  <2>4. reports \in Seq(Report) /\ Reported(<<"crashed">>)
    BY DEF EngineDies, PlayoutType
  <2>5. reports' = reports \o <<"crashed">> \/ reports' = reports
    BY <2>4 DEF Reported
  <2>6. reports' \in Seq(Report)
    BY <2>4, <2>5
  <2> QED  BY <2>1, <2>3, <2>6 DEF EngineDies, PlayoutType
<1>2. Shape'
  BY DEF EngineDies, Shape, Lost, Operator
<1>3. Engine'
  BY CrashedAppended DEF EngineDies, Reported, Engine, Down, Nothing, PlayoutType
<1>4. OperatorOwns' /\ StopOwns' /\ RecoveryOwns' /\ Waits' /\ LossWaits' /\ ExitSeen'
        /\ PositionReached' /\ NothingSkipped'
  BY DEF EngineDies, OperatorOwns, StopOwns, RecoveryOwns, Waits, LossWaits, ExitSeen,
       PositionReached, NothingSkipped, Lost, Operator, Asking, Settling, Resuming, Down, NoneAt
<1>5. SilentIsOff' /\ OnAirIsWished' /\ OffIsOff' /\ OffIsMeant'
  BY DEF EngineDies, SilentIsOff, OnAirIsWished, OffIsOff, OffIsMeant, Lost, Operator,
       Undelivered, Settling, Resuming, Down, Told, Ticking
<1>6. Noticed'
  BY CrashedAppended DEF EngineDies, Reported, Noticed, Engine, PlayoutType, Down
<1>7. GoneIsNoticed' /\ TemplateIsThere'
  BY <1>6 DEF GoneIsNoticed, TemplateIsThere
<1> QED  BY <1>1, <1>2, <1>3, <1>4, <1>5, <1>7

\* A heartbeat finds the engine gone, or opens a socket again.
LEMMA HeartbeatKeeps ==
  ASSUME PlayoutInv, Windows = {}, Heartbeat  PROVE PlayoutInv'
<1> USE DEF PlayoutInv
<1>0. /\ svc' \in Service /\ Belief(svc', svc) /\ Graphics(svc', svc)
      /\ svc'.timer = svc.timer /\ svc'.exit = svc.exit
      /\ ~svc'.connected \/ (Works /\ svc' = svc)
  BY DisconnectedIs DEF Heartbeat, PlayoutType, Belief, Graphics
<1>1. PlayoutType'
  BY <1>0 DEF Heartbeat, Used, PlayoutType
<1>2. Shape' /\ OperatorOwns' /\ StopOwns' /\ RecoveryOwns' /\ Waits'
  BY <1>0 DEF Heartbeat, Used, Belief, Graphics, Shape, OperatorOwns, StopOwns, RecoveryOwns,
       Waits, Lost, Operator, Asking, Settling, Resuming
<1>3. Engine'
  BY <1>0 DEF Heartbeat, Used, Works, Belief, Engine
<1>4. SilentIsOff' /\ OnAirIsWished' /\ OffIsOff' /\ OffIsMeant' /\ LossWaits'
  BY <1>0 DEF Heartbeat, Used, Belief, SilentIsOff, OnAirIsWished, OffIsOff, OffIsMeant,
       LossWaits, Lost, Operator, Undelivered, Settling, Resuming, Told, Ticking
<1>5. ExitSeen' /\ PositionReached' /\ NothingSkipped' /\ GoneIsNoticed' /\ TemplateIsThere'
  BY <1>0 DEF Heartbeat, Used, Works, Belief, Graphics, ExitSeen, PositionReached, NothingSkipped,
       GoneIsNoticed, TemplateIsThere, Noticed, Operator, Undelivered, NoneAt
<1> QED BY <1>1, <1>2, <1>3, <1>4, <1>5

\* Another engine, while no command is on its way to it.
LEMMA BootsKeeps ==
  ASSUME PlayoutInv, Windows = {}, EngineBoots  PROVE PlayoutInv'
<1> USE DEF PlayoutInv
<1>1. PlayoutType'
  <2>0. 0 \in Position /\ 0 \in 0..Rows
    BY PlayoutAssumption DEF Position
  <2>1. eng' \in EngineState
    BY <2>0 DEF EngineBoots, Down, Nothing
  <2>2. /\ reports \in Seq(Report)
        /\ reports' = reports \o <<"operational">> \/ reports' = reports
    BY DEF EngineBoots, Reported, PlayoutType
  <2>3. reports' \in Seq(Report)
    BY <2>2
  <2> QED  BY <2>1, <2>3 DEF EngineBoots, PlayoutType
<1>2. Crashed(reports') <=> Crashed(reports)
  BY CrashedAppended DEF EngineBoots, Reported, PlayoutType
<1>3. /\ eng'.up /\ eng'.clip = Nothing /\ eng'.template = FALSE /\ eng'.pos = 0
      /\ eng.clip = Nothing /\ eng.template = FALSE /\ ~eng.up /\ ~Crashed(reports)
      /\ link # "open" /\ hs.at = "idle" /\ rec.at = "idle" /\ NoneAt({"send"})
  BY DEF EngineBoots, Down, Engine, Crashed
<1>4. Shape' /\ OperatorOwns' /\ StopOwns' /\ RecoveryOwns' /\ Waits' /\ NothingSkipped'
        /\ PositionReached'
  BY <1>3 DEF EngineBoots, Shape, OperatorOwns, StopOwns, RecoveryOwns, Waits, NothingSkipped,
       PositionReached, Lost, Operator, Asking, Settling, Resuming, NoneAt, Who
<1>5. Engine'
  BY <1>2, <1>3 DEF EngineBoots, Engine
<1>6. SilentIsOff' /\ OnAirIsWished' /\ OffIsOff' /\ OffIsMeant' /\ LossWaits'
  BY <1>3 DEF EngineBoots, SilentIsOff, OnAirIsWished, OffIsOff, OffIsMeant, LossWaits, Lost,
       Operator, Undelivered, Settling, Resuming, Told, Ticking
<1>7. ExitSeen' /\ GoneIsNoticed' /\ TemplateIsThere'
  BY <1>2, <1>3 DEF EngineBoots, ExitSeen, GoneIsNoticed, TemplateIsThere, Noticed, Operator,
       Undelivered, NoneAt
<1> QED  BY <1>1, <1>4, <1>5, <1>6, <1>7

\* Two reports of which none is a crash.
LEMMA ProbeKeeps ==
  ASSUME PlayoutInv, Windows = {}, SlowProbe  PROVE PlayoutInv'
<1> USE DEF PlayoutInv
<1>1. PlayoutType'
  <2>1. left \in Scenario /\ left.probes > 0 /\ left' = [left EXCEPT !.probes = @ - 1]
    BY DEF SlowProbe, PlayoutType
  <2>2. left' \in Scenario
    BY <2>1 DEF Scenario
  <2>3. reports' = reports \o <<"starting", "operational">> \/ reports' = reports
    BY DEF SlowProbe, Reported
  <2>4. reports' \in Seq(Report)
    <3>1. reports \in Seq(Report)
      BY DEF PlayoutType
    <3>2. <<"starting", "operational">> \in Seq(Report)
      BY ConcatProperties
    <3>3. reports \o <<"starting", "operational">> \in Seq(Report)
      BY ONLY <3>1, <3>2, ConcatProperties
    <3> QED  BY ONLY <2>3, <3>1, <3>3
  <2> QED  BY <2>2, <2>4 DEF SlowProbe, PlayoutType
<1>2. Crashed(reports') <=> Crashed(reports)
  BY CrashedAppended DEF SlowProbe, Reported, PlayoutType
<1>3. Shape' /\ OperatorOwns' /\ StopOwns' /\ RecoveryOwns' /\ Waits' /\ NothingSkipped'
        /\ PositionReached'
  BY DEF SlowProbe, Shape, OperatorOwns, StopOwns, RecoveryOwns, Waits, NothingSkipped,
       PositionReached, Lost, Operator, Asking, Settling, Resuming
<1>4. Engine'
  BY <1>2 DEF SlowProbe, Engine
<1>5. SilentIsOff' /\ OnAirIsWished' /\ OffIsOff' /\ OffIsMeant' /\ LossWaits'
  BY DEF SlowProbe, SilentIsOff, OnAirIsWished, OffIsOff, OffIsMeant, LossWaits, Lost, Operator,
       Undelivered, Settling, Resuming, Told, Ticking
<1>6. ExitSeen' /\ GoneIsNoticed' /\ TemplateIsThere'
  BY <1>2 DEF SlowProbe, ExitSeen, GoneIsNoticed, TemplateIsThere, Noticed, Operator, Undelivered,
       NoneAt
<1> QED  BY <1>1, <1>3, <1>4, <1>5, <1>6

\* A socket breaks; nothing is lost but the connection.
LEMMA BlipKeeps ==
  ASSUME PlayoutInv, Windows = {}, Blip  PROVE PlayoutInv'
<1> USE DEF PlayoutInv
<1>1. PlayoutType'
  <2>1. left \in Scenario /\ left.blips > 0 /\ left' = [left EXCEPT !.blips = @ - 1]
    BY DEF Blip, PlayoutType
  <2>2. left' \in Scenario
    BY <2>1 DEF Scenario
  <2> QED  BY <2>2 DEF Blip, PlayoutType
<1>2. /\ hs.at = "idle" /\ rec.at # "settle" /\ act["operator"].at # "clear"
      /\ link = "open" /\ link' = "stale" /\ eng.up
  BY DEF Blip, Unbroken, NoneAt, Who
<1>3. Shape' /\ OperatorOwns' /\ StopOwns' /\ RecoveryOwns' /\ Waits' /\ NothingSkipped'
        /\ PositionReached'
  BY <1>2 DEF Blip, Shape, OperatorOwns, StopOwns, RecoveryOwns, Waits, NothingSkipped,
       PositionReached, Lost, Operator, Asking, Settling, Resuming
<1>4. Engine'
  BY <1>2 DEF Blip, Engine
<1>5. SilentIsOff' /\ OnAirIsWished' /\ OffIsOff' /\ OffIsMeant' /\ LossWaits'
  BY DEF Blip, SilentIsOff, OnAirIsWished, OffIsOff, OffIsMeant, LossWaits, Lost, Operator,
       Undelivered, Settling, Resuming, Told, Ticking
<1>6. ExitSeen' /\ GoneIsNoticed' /\ TemplateIsThere'
  BY <1>2 DEF Blip, ExitSeen, GoneIsNoticed, TemplateIsThere, Noticed, Operator, Undelivered,
       NoneAt
<1> QED  BY <1>1, <1>3, <1>4, <1>5, <1>6

\* The clip on air gets further, and no other row does.
LEMMA PlaysKeeps ==
  ASSUME PlayoutInv, Windows = {}, Plays  PROVE PlayoutInv'
<1> USE DEF PlayoutInv
<1>0. /\ eng \in EngineState /\ reached \in [Row -> Position]
      /\ eng.clip # 0 /\ eng.pos < Duration /\ eng' = [eng EXCEPT !.pos = @ + 1]
      /\ reached' = [reached EXCEPT ![eng.clip] = eng.pos + 1] /\ reached[eng.clip] = eng.pos
  BY DEF Plays, PlayoutType, Engine, Nothing
<1>1. /\ eng.clip \in Row /\ eng' \in EngineState
      /\ eng'.up = eng.up /\ eng'.clip = eng.clip /\ eng'.template = eng.template
      /\ eng'.pos = eng.pos + 1 /\ eng.pos + 1 \in Position
  BY <1>0, PlayoutAssumption, SMTT(60) DEF Row, Position
<1>2. /\ reached' \in [Row -> Position] /\ reached'[eng.clip] = eng.pos + 1
      /\ \A r \in Row : r # eng.clip => reached'[r] = reached[r]
  BY <1>0, <1>1
<1>3. \A r \in Row, n \in Nat : n <= reached[r] => n <= reached'[r]
  BY <1>0, <1>1, <1>2 DEF Position
<1>4. PlayoutType'
  BY <1>1, <1>2 DEF Plays, PlayoutType
<1>5. \A n \in Position : n \in Nat
  BY PlayoutAssumption DEF Position
<1>6. /\ svc.pos \in Nat /\ svc.loss.pos \in Nat /\ svc.base \in Nat
      /\ rec.loss.pos \in Nat /\ rec.seek \in Nat
  BY <1>5 DEF PlayoutType, Service, Point
<1>7. Shape' /\ OperatorOwns' /\ StopOwns' /\ RecoveryOwns'
  BY <1>1 DEF Plays, Shape, OperatorOwns, StopOwns, RecoveryOwns, Lost, Operator, Asking,
       Settling, Resuming
<1>8. Waits' /\ LossWaits'
  BY <1>1, <1>3, <1>6 DEF Plays, Shape, Waits, LossWaits, Lost, Settling
<1>9. PositionReached'
  BY <1>1, <1>3, <1>6 DEF Plays, PositionReached
<1>10. NothingSkipped'
  <2>1. eng.pos # Duration
    BY <1>0, <1>1, PlayoutAssumption DEF Position
  <2>2. Resuming /\ rec.row # rec.loss.key => rec.loss.key # eng.clip /\ rec.loss.key \in Row
    BY <1>0, <2>1 DEF NothingSkipped, Shape, Resuming
  <2> QED  BY <1>2, <1>3, <1>6, <2>2 DEF Plays, Shape, NothingSkipped, Resuming
<1>11. Engine'
  <2>1. svc.base <= eng.pos /\ eng.pos \in Nat /\ eng.up /\ svc.base <= eng.pos + 1
    BY <1>0, <1>6, PlayoutAssumption DEF Engine, Nothing, Position
  <2> QED  BY <1>1, <1>2, <2>1 DEF Plays, Engine
<1>12. SilentIsOff' /\ OnAirIsWished' /\ OffIsOff' /\ OffIsMeant'
  BY <1>1 DEF Plays, SilentIsOff, OnAirIsWished, OffIsOff, OffIsMeant, Lost, Operator,
       Undelivered, Settling, Resuming, Told, Ticking
<1>13. ExitSeen' /\ GoneIsNoticed' /\ TemplateIsThere'
  BY <1>1 DEF Plays, ExitSeen, GoneIsNoticed, TemplateIsThere, Noticed, Operator, Undelivered,
       NoneAt
<1> QED  BY <1>4, <1>7, <1>8, <1>9, <1>10, <1>11, <1>12, <1>13

\* A tick tells a position that the clip has reached.
LEMMA TickKeeps ==
  ASSUME PlayoutInv, Windows = {}, Tick  PROVE PlayoutInv'
<1> USE DEF PlayoutInv
<1>1. /\ eng.clip # 0 /\ svc.playing /\ svc.reg = eng.clip /\ silent' = FALSE
      /\ svc' = [svc EXCEPT !.pos = (eng.pos - svc.base) + IF svc.key = svc.reg THEN svc.offset ELSE 0]
      /\ reached[eng.clip] = eng.pos /\ svc.base <= eng.pos /\ svc.offset <= svc.base
  BY DEF Tick, Ticking, Engine, PositionReached, Nothing
<1>2. svc \in Service /\ eng.pos \in Position
  BY DEF PlayoutType
<1>3. (eng.pos - svc.base) + (IF svc.key = svc.reg THEN svc.offset ELSE 0) \in 0..eng.pos
  BY <1>1, <1>2, PlayoutAssumption DEF Service, Position
<1>4. svc' \in Service /\ svc'.pos <= eng.pos
  BY <1>1, <1>2, <1>3, PlayoutAssumption DEF Service, Position
<1>5. /\ svc'.connected = svc.connected /\ svc'.playing = svc.playing /\ svc'.key = svc.key
      /\ svc'.offset = svc.offset /\ svc'.reg = svc.reg /\ svc'.base = svc.base
      /\ svc'.token = svc.token /\ svc'.epoch = svc.epoch /\ svc'.loss = svc.loss
      /\ svc'.probe = svc.probe /\ svc'.timer = svc.timer /\ svc'.exit = svc.exit
      /\ svc'.suspected = svc.suspected /\ svc'.phase = svc.phase
      /\ svc'.wanted = svc.wanted /\ svc'.loaded = svc.loaded /\ svc'.failed = svc.failed
  BY <1>1, <1>2 DEF Service
<1>6. PlayoutType'
  BY <1>1, <1>4 DEF Tick, PlayoutType
<1>7. Shape' /\ OperatorOwns' /\ StopOwns' /\ RecoveryOwns' /\ Waits' /\ NothingSkipped'
  BY <1>5 DEF Tick, Shape, OperatorOwns, StopOwns, RecoveryOwns, Waits, NothingSkipped, Lost,
       Operator, Asking, Settling, Resuming
<1>8. Engine' /\ PositionReached'
  BY <1>1, <1>4, <1>5 DEF Tick, Engine, PositionReached
<1>9. SilentIsOff' /\ OnAirIsWished' /\ OffIsOff' /\ OffIsMeant' /\ LossWaits'
  BY <1>1, <1>5 DEF Tick, SilentIsOff, OnAirIsWished, OffIsOff, OffIsMeant, LossWaits, Lost,
       Operator, Undelivered, Settling, Resuming, Told
<1>10. ExitSeen' /\ GoneIsNoticed' /\ TemplateIsThere'
  BY <1>1, <1>5 DEF Tick, ExitSeen, GoneIsNoticed, TemplateIsThere, Noticed, Operator,
       Undelivered, NoneAt
<1> QED  BY <1>6, <1>7, <1>8, <1>9, <1>10

\* No ticks come where no clip plays.
LEMMA SilenceKeeps ==
  ASSUME PlayoutInv, Windows = {}, FallsSilent  PROVE PlayoutInv'
<1> USE DEF PlayoutInv
<1>1. PlayoutType' /\ Shape' /\ OperatorOwns' /\ StopOwns' /\ RecoveryOwns' /\ Waits'
        /\ NothingSkipped'
  BY DEF FallsSilent, PlayoutType, Shape, OperatorOwns, StopOwns, RecoveryOwns, Waits,
       NothingSkipped, Lost, Operator, Asking, Settling, Resuming
<1>2. Engine' /\ PositionReached' /\ ExitSeen' /\ GoneIsNoticed' /\ TemplateIsThere'
  BY DEF FallsSilent, Engine, PositionReached, ExitSeen, GoneIsNoticed, TemplateIsThere, Noticed,
       Operator, Undelivered, NoneAt
<1>3. SilentIsOff' /\ OnAirIsWished' /\ OffIsOff' /\ OffIsMeant' /\ LossWaits'
  BY DEF FallsSilent, SilentIsOff, OnAirIsWished, OffIsOff, OffIsMeant, LossWaits, Lost, Operator,
       Undelivered, Settling, Resuming, Told, Ticking
<1> QED  BY <1>1, <1>2, <1>3

\* A report of the supervisor breaks the connection, or is none of an exit.
LEMMA ReportKeeps ==
  ASSUME PlayoutInv, Windows = {}, HandleProcessStateEvent  PROVE PlayoutInv'
<1> USE DEF PlayoutInv
<1>1. /\ reports \in Seq(Report) /\ reports # <<>>
      /\ reports' = Tail(reports) /\ svc \in Service
  BY DEF HandleProcessStateEvent, PlayoutType
<1>2. /\ Crashed(reports') => Crashed(reports)
      /\ Crashed(reports) => Head(reports) = "crashed" \/ Crashed(reports')
      /\ Head(reports) = "crashed" => Crashed(reports)
  BY <1>1, CrashedHandled
<1>3. /\ svc' \in Service /\ Belief(svc', svc) /\ Graphics(svc', svc) /\ svc'.timer = svc.timer
      /\ svc' = svc \/ (~svc'.connected /\ Unbroken)
      /\ Head(reports) = "crashed" => ~svc'.connected /\ Unbroken
      /\ svc'.exit = svc.exit \/ Head(reports) = "crashed"
  <2> DEFINE s == [svc EXCEPT !.suspected = TRUE, !.exit = @ \/ Head(reports) = "crashed"]
  <2>1. /\ s \in Service /\ Belief(s, svc) /\ Graphics(s, svc) /\ s.timer = svc.timer
        /\ s.exit = (svc.exit \/ Head(reports) = "crashed") /\ svc.exit \in BOOLEAN
    BY <1>1 DEF Service, Belief, Graphics
  <2>2. /\ Disconnected(s) \in Service /\ Belief(Disconnected(s), svc)
        /\ Graphics(Disconnected(s), svc)
        /\ Disconnected(s).timer = svc.timer /\ ~Disconnected(s).connected
        /\ Disconnected(s).exit = (svc.exit \/ Head(reports) = "crashed")
    BY <2>1, DisconnectedIs DEF Belief, Graphics
  <2>3. /\ svc' = svc \/ (Unbroken /\ svc' = Disconnected(s))
        /\ Head(reports) = "crashed" => Unbroken /\ svc' = Disconnected(s)
    BY DEF HandleProcessStateEvent
  <2> HIDE DEF s
  <2> QED  BY <1>1, <2>1, <2>2, <2>3 DEF Belief, Graphics
<1>4. Unbroken => hs.at = "idle" /\ rec.at # "settle"
  BY DEF Unbroken
<1>5. PlayoutType'
  <2>1. reports' \in Seq(Report)
    BY <1>1
  <2> QED  BY <1>3, <2>1 DEF HandleProcessStateEvent, PlayoutType
<1>6. Shape' /\ OperatorOwns' /\ StopOwns' /\ RecoveryOwns' /\ Waits' /\ NothingSkipped'
        /\ PositionReached'
  BY <1>3, <1>4 DEF HandleProcessStateEvent, Belief, Graphics, Shape, OperatorOwns, StopOwns,
       RecoveryOwns, Waits, NothingSkipped, PositionReached, Lost, Operator, Asking, Settling,
       Resuming
<1>7. Engine'
  BY <1>2, <1>3, <1>4 DEF HandleProcessStateEvent, Belief, Engine
<1>8. SilentIsOff' /\ OnAirIsWished' /\ OffIsOff' /\ OffIsMeant' /\ LossWaits'
  BY <1>3 DEF HandleProcessStateEvent, Belief, SilentIsOff, OnAirIsWished, OffIsOff, OffIsMeant,
       LossWaits, Lost, Operator, Undelivered, Settling, Resuming, Told, Ticking
<1>9. ExitSeen' /\ GoneIsNoticed' /\ TemplateIsThere'
  BY <1>2, <1>3, <1>4 DEF HandleProcessStateEvent, Belief, Graphics, Engine, ExitSeen,
       GoneIsNoticed, TemplateIsThere, Noticed, Operator, Undelivered, NoneAt
<1> QED  BY <1>5, <1>6, <1>7, <1>8, <1>9

\* enterEngineOutage, of a clip that is on air.
LEMMA OutageIs ==
  ASSUME NEW s \in Service, s.loss = NoLoss, OnAir(s)
  PROVE  LET o == Outage(s) IN
         /\ o \in Service /\ o.loss = [key |-> s.key, pos |-> s.pos] /\ o.loss # NoLoss
         /\ o.token = s.token + 1 /\ ~o.timer /\ ~o.playing /\ o.phase = "outage"
         /\ o.connected = s.connected /\ o.key = s.key /\ o.pos = s.pos /\ o.offset = s.offset
         /\ o.reg = s.reg /\ o.base = s.base /\ o.epoch = s.epoch /\ o.probe = s.probe
         /\ o.exit = s.exit /\ o.failed = s.failed /\ Graphics(o, s)
<1>1. /\ s.key \in 0..Rows /\ s.pos \in Position /\ s.token + 1 \in Nat /\ s.key # 0
      /\ Outage(s) = [s EXCEPT !.loss = [key |-> s.key, pos |-> s.pos], !.token = @ + 1,
                               !.timer = FALSE, !.playing = FALSE, !.phase = "outage"]
  BY DEF Outage, OnAir, Service, Nothing
<1>2. [key |-> s.key, pos |-> s.pos] \in Point /\ [key |-> s.key, pos |-> s.pos] # NoLoss
  BY <1>1 DEF Point, NoLoss, Nothing
<1> QED  BY <1>1, <1>2, ZenonT(60) DEF Service, Graphics

\* The probe declares an outage of a clip that is on air, or looks again.
LEMMA OutageProbeKeeps ==
  ASSUME PlayoutInv, Windows = {}, OutageProbe  PROVE PlayoutInv'
<1> USE DEF PlayoutInv
<1> DEFINE s == [svc EXCEPT !.probe = FALSE]
<1>1. /\ s \in Service /\ Belief(s, svc) /\ Graphics(s, svc) /\ s.timer = svc.timer
      /\ s.connected = svc.connected /\ s.exit = svc.exit /\ svc \in Service
  BY DEF PlayoutType, Service, Belief, Graphics
<1>2. /\ hs.at = "idle" /\ rec.at # "settle"
      /\ \/ svc' = s
         \/ /\ svc.loss = NoLoss /\ OnAir(svc) /\ ~svc.connected /\ EngineLooksDead
            /\ svc.reg = svc.key /\ NoneAt({"take", "play", "send", "confirm"})
            /\ svc' = Outage(s)
  BY DEF OutageProbe, Unbroken, Declarable
<1> HIDE DEF s
<1>3. CASE svc' = s
  <2>1. PlayoutType' /\ Shape' /\ OperatorOwns' /\ StopOwns' /\ RecoveryOwns' /\ Waits'
          /\ NothingSkipped'
    BY <1>1, <1>3 DEF OutageProbe, Belief, Graphics, PlayoutType, Shape, OperatorOwns, StopOwns,
         RecoveryOwns, Waits, NothingSkipped, Lost, Operator, Asking, Settling, Resuming
  <2>2. Engine' /\ PositionReached' /\ ExitSeen' /\ GoneIsNoticed' /\ TemplateIsThere'
    BY <1>1, <1>3 DEF OutageProbe, Belief, Graphics, Engine, PositionReached, ExitSeen,
         GoneIsNoticed, TemplateIsThere, Noticed, Operator, Undelivered, NoneAt
  <2>3. SilentIsOff' /\ OnAirIsWished' /\ OffIsOff' /\ OffIsMeant' /\ LossWaits'
    BY <1>1, <1>3 DEF OutageProbe, Belief, SilentIsOff, OnAirIsWished, OffIsOff, OffIsMeant,
         LossWaits, Lost, Operator, Undelivered, Settling, Resuming, Told, Ticking
  <2> QED  BY <2>1, <2>2, <2>3
<1>4. CASE svc' = Outage(s) /\ svc' # s
  <2>1. /\ svc.loss = NoLoss /\ OnAir(svc) /\ ~svc.connected /\ EngineLooksDead
        /\ svc.reg = svc.key /\ NoneAt({"take", "play", "send", "confirm"})
        /\ OnAir(s) /\ s.loss = NoLoss
    BY <1>1, <1>2, <1>4 DEF OnAir, Belief
  <2>2. /\ svc' \in Service /\ svc'.loss = [key |-> svc.key, pos |-> svc.pos]
        /\ svc'.loss # NoLoss
        /\ svc'.token = svc.token + 1 /\ ~svc'.timer /\ ~svc'.playing /\ svc'.phase = "outage"
        /\ svc'.connected = svc.connected /\ svc'.key = svc.key /\ svc'.pos = svc.pos
        /\ svc'.offset = svc.offset /\ svc'.reg = svc.reg /\ svc'.base = svc.base
        /\ svc'.epoch = svc.epoch /\ svc'.exit = svc.exit
        /\ svc'.failed = svc.failed /\ Graphics(svc', svc)
    BY <1>1, <1>4, <2>1, OutageIs DEF Belief, Graphics
  <2>3. /\ svc.playing /\ svc.key \in Row /\ svc.token \in Nat
        /\ act["operator"].at \notin {"take", "play", "send", "confirm", "clear"}
        /\ act["recovery"].at \notin {"send", "confirm"} /\ svc.pos <= reached[svc.reg]
    BY <1>1, <2>1 DEF OnAir, NoneAt, Who, StopOwns, Operator, PositionReached, Service, Row,
         Nothing
  <2>4. PlayoutType'
    BY <2>2 DEF OutageProbe, PlayoutType
  <2>5. /\ act["recovery"].token <= svc.token /\ act["recovery"].token \in Nat
        /\ act["operator"].at = "idle"
    BY <2>3 DEF Shape, PlayoutType, Call, Who
  <2>6. Shape' /\ OperatorOwns' /\ StopOwns' /\ RecoveryOwns' /\ Waits' /\ NothingSkipped'
    BY <1>2, <2>2, <2>3, <2>5 DEF OutageProbe, Graphics, Shape, OperatorOwns, StopOwns,
         RecoveryOwns, Waits, NothingSkipped, Lost, Operator, Asking, Settling, Resuming
  <2>7. Engine' /\ PositionReached' /\ ExitSeen' /\ GoneIsNoticed' /\ TemplateIsThere'
    BY <2>2 DEF OutageProbe, Graphics, Engine, PositionReached, ExitSeen, GoneIsNoticed,
         TemplateIsThere, Noticed, Operator, Undelivered, NoneAt
  <2>8. svc'.loss.pos = svc.pos /\ svc'.loss.key = svc.key
    BY <2>2
  <2>9. rec.at # "playing"
    BY <2>3 DEF Shape
  <2>10. LossWaits'
    BY <1>2, <2>1, <2>2, <2>3, <2>8, <2>9 DEF OutageProbe, LossWaits, Lost
  <2>11. SilentIsOff' /\ OnAirIsWished' /\ OffIsOff' /\ OffIsMeant'
    BY <2>1, <2>2, <2>3 DEF OutageProbe, SilentIsOff, OnAirIsWished, OffIsOff, OffIsMeant, Lost,
         Operator, Undelivered, Settling, Resuming, Told, Ticking
  <2> QED  BY <2>4, <2>6, <2>7, <2>10, <2>11
<1> QED  BY <1>2, <1>3, <1>4

\* A handshake begins, and forgets the exit.
LEMMA HandshakeKeeps ==
  ASSUME PlayoutInv, Windows = {}, Handshake  PROVE PlayoutInv'
<1> USE DEF PlayoutInv
<1>1. /\ svc' \in Service /\ Belief(svc', svc) /\ Graphics(svc', svc) /\ svc'.timer = svc.timer
      /\ svc'.connected /\ ~svc.connected /\ svc'.exit = FALSE
      /\ hs' \in HandshakeState
      /\ hs'.at = "reconcile" /\ eng.up /\ link' = "open"
  BY DEF Handshake, PlayoutType, Service, Belief, Graphics
<1>2. PlayoutType' /\ Shape' /\ OperatorOwns' /\ StopOwns' /\ RecoveryOwns' /\ Waits'
        /\ NothingSkipped'
  BY <1>1 DEF Handshake, Belief, Graphics, PlayoutType, Shape, OperatorOwns, StopOwns,
       RecoveryOwns, Waits, NothingSkipped, Lost, Operator, Asking, Settling, Resuming
<1>3. Engine' /\ PositionReached' /\ ExitSeen' /\ GoneIsNoticed' /\ TemplateIsThere'
  BY <1>1 DEF Handshake, Belief, Graphics, Engine, PositionReached, ExitSeen, GoneIsNoticed,
       TemplateIsThere, Noticed, Operator, Undelivered, NoneAt
<1>4. SilentIsOff' /\ OnAirIsWished' /\ OffIsOff' /\ OffIsMeant' /\ LossWaits'
  BY <1>1 DEF Handshake, Belief, SilentIsOff, OnAirIsWished, OffIsOff, OffIsMeant, LossWaits,
       Lost, Operator, Undelivered, Settling, Resuming, Told, Ticking
<1> QED  BY <1>2, <1>3, <1>4

\* applyComplianceForItem.
LEMMA CompliedIs ==
  ASSUME NEW s \in Service
  PROVE  LET c == Complied(s) IN
         /\ c \in Service /\ Belief(c, s) /\ c.connected = s.connected
         /\ c.timer = s.timer /\ c.exit = s.exit
         /\ c.connected => c.wanted /\ c.loaded
         /\ ~c.connected => Graphics(c, s)
<1>1. CASE s.connected
  <2>1. Complied(s) = [s EXCEPT !.wanted = TRUE, !.loaded = TRUE]
    BY <1>1 DEF Complied
  <2>2. Complied(s) \in Service
    BY <2>1, ZenonT(60) DEF Service
  <2> QED  BY <1>1, <2>1, <2>2, ZenonT(60) DEF Service, Belief
<1>2. CASE ~s.connected
  BY <1>2 DEF Complied, Belief, Graphics
<1> QED  BY <1>1, <1>2

\* The template is loaded again, or the connection is lost on the way.
LEMMA ReconcileKeeps ==
  ASSUME PlayoutInv, Windows = {}, ReconcileGraphicsLayers  PROVE PlayoutInv'
<1> USE DEF PlayoutInv
<1> DEFINE s == [svc EXCEPT !.loaded = eng.template, !.wanted = @ \/ eng.template]
           f == [svc EXCEPT !.loaded = @ /\ ~hs.fresh]
<1>1. /\ svc \in Service /\ eng \in EngineState
      /\ hs \in HandshakeState
      /\ hs.at = "reconcile" /\ hs' = [hs EXCEPT !.at = "sync"]
      /\ act["operator"].at \notin {"send", "clear"} /\ act["recovery"].at # "send"
  BY DEF ReconcileGraphicsLayers, PlayoutType, Apart, NoneAt, Who
<1>2. /\ s \in Service /\ Belief(s, svc) /\ s.timer = svc.timer /\ s.connected = svc.connected
      /\ s.exit = svc.exit /\ s.loaded = eng.template /\ s.wanted = (svc.wanted \/ eng.template)
      /\ f \in Service /\ Belief(f, svc) /\ f.timer = svc.timer /\ f.exit = svc.exit
      /\ f.wanted = svc.wanted /\ (f.loaded => svc.loaded)
  BY <1>1, ZenonT(60) DEF Service, Belief
<1>3. /\ hs' \in HandshakeState /\ hs'.at = "sync" /\ hs'.fresh = hs.fresh
      /\ link' \in {"none", "open", "stale"}
  BY <1>1 DEF ReconcileGraphicsLayers, Used
<1>4. /\ ~Works => svc' = Disconnected(f) /\ eng' = eng
      /\ Works => \/ /\ svc' = Complied(s) /\ s.wanted /\ ~s.loaded
                     /\ eng' = [eng EXCEPT !.template = Template(s)]
                  \/ svc' = s /\ ~(s.wanted /\ ~s.loaded) /\ eng' = eng
  BY DEF ReconcileGraphicsLayers
<1>5. Works => svc.connected /\ eng.up /\ link' = "open"
  BY <1>1 DEF Works, Engine, ReconcileGraphicsLayers, Used
<1> HIDE DEF s, f
<1>6. Template(s) = (eng.template \/ s.connected) \/ s.loaded
  BY DEF Template
<1>7. /\ svc' \in Service /\ Belief(svc', svc) /\ svc'.timer = svc.timer /\ svc'.exit = svc.exit
      /\ Works => svc'.connected
      /\ ~Works => /\ ~svc'.connected /\ eng' = eng
                   /\ svc'.wanted => svc.wanted
                   /\ svc'.loaded => svc.loaded
      /\ eng' = eng \/ eng' = [eng EXCEPT !.template = Template(s)]
      /\ Works => (svc'.wanted \/ svc'.loaded => eng'.template)
  <2>1. CASE ~Works
    BY <1>2, <1>4, <2>1, DisconnectedIs DEF Belief, Graphics
  <2>2. CASE Works
    BY <1>1, <1>2, <1>4, <1>5, <2>2, CompliedIs DEF Belief, Graphics, Template
  <2> QED  BY <2>1, <2>2
<1>8. /\ eng' \in EngineState
      /\ eng'.up = eng.up /\ eng'.clip = eng.clip /\ eng'.pos = eng.pos
      /\ ~Works => eng'.template = eng.template
  <2>1. Template(s) \in BOOLEAN
    BY <1>1, <1>2 DEF Template, Service
  <2> QED  BY <1>1, <1>7, <2>1
<1>9. PlayoutType'
  BY <1>3, <1>7, <1>8 DEF ReconcileGraphicsLayers, PlayoutType
<1>10. Shape' /\ OperatorOwns' /\ StopOwns' /\ RecoveryOwns' /\ Waits' /\ NothingSkipped'
         /\ PositionReached'
  <2>1. Shape' /\ PositionReached' /\ NothingSkipped'
    BY <1>1, <1>7, <1>8 DEF ReconcileGraphicsLayers, Belief, Shape, NothingSkipped,
         PositionReached, Lost, Operator
  <2>2. OperatorOwns' /\ StopOwns' /\ RecoveryOwns'
    BY <1>1, <1>7, <1>8 DEF ReconcileGraphicsLayers, Belief, OperatorOwns, StopOwns, RecoveryOwns,
         Lost, Operator, Asking, Settling, Resuming
  <2>3. Waits'
    BY <1>1, <1>7, <1>8 DEF ReconcileGraphicsLayers, Belief, Waits, ExitSeen, Lost, Settling
  <2> QED  BY <2>1, <2>2, <2>3
<1>11. Engine'
  BY <1>1, <1>3, <1>5, <1>7, <1>8 DEF ReconcileGraphicsLayers, Used, Works, Belief, Engine
<1>12. SilentIsOff' /\ OnAirIsWished' /\ OffIsOff' /\ OffIsMeant' /\ LossWaits'
  BY <1>1, <1>3, <1>7, <1>8 DEF ReconcileGraphicsLayers, Belief, SilentIsOff, OnAirIsWished,
       OffIsOff, OffIsMeant, LossWaits, Lost, Operator, Undelivered, Settling, Resuming, Told,
       Ticking
<1>13. ExitSeen' /\ GoneIsNoticed' /\ TemplateIsThere'
  BY <1>1, <1>3, <1>7, <1>8 DEF ReconcileGraphicsLayers, Belief, ExitSeen, GoneIsNoticed,
       TemplateIsThere, Noticed, Operator, Undelivered, NoneAt
<1> QED  BY <1>9, <1>10, <1>11, <1>12, <1>13

\* runEngineRecovery, up to its wait.
LEMMA BeginsIs ==
  ASSUME PlayoutType, NEW s \in Service, NEW loss \in Point, Begins(s, loss)
  PROVE  /\ rec' \in RecoveryState
         /\ rec.at # "idle" => rec' = rec
         /\ rec.at = "idle" => rec'.at = "settle" /\ rec'.loss = loss /\ rec'.epoch = s.epoch
<1>1. rec \in RecoveryState
  BY DEF PlayoutType
<1>2. s.epoch \in Nat
  BY DEF Service
<1>3. NoRecovery \in RecoveryState
  BY Nones, PlayoutAssumption DEF NoRecovery, Nothing, Position
<1>4. [NoRecovery EXCEPT !.at = "settle", !.loss = loss, !.epoch = s.epoch]
        \in RecoveryState
      /\ [NoRecovery EXCEPT !.at = "settle", !.loss = loss, !.epoch = s.epoch].at = "settle"
      /\ [NoRecovery EXCEPT !.at = "settle", !.loss = loss, !.epoch = s.epoch].loss = loss
      /\ [NoRecovery EXCEPT !.at = "settle", !.loss = loss, !.epoch = s.epoch].epoch = s.epoch
  BY <1>2, <1>3
<1> QED  BY <1>1, <1>4 DEF Begins

\* A clip plays on the layer: no other one than the one that is wished for.
LEMMA AdoptKeeps ==
  ASSUME PlayoutInv, Windows = {}, SynchronizeOnAirState, Works, eng.clip # Nothing
  PROVE  PlayoutInv'
<1> USE DEF PlayoutInv
<1> DEFINE s == [Claimed(svc, eng.clip) EXCEPT !.connected = TRUE, !.pos = eng.pos, !.timer = FALSE,
                   !.loss = NoLoss, !.phase = IF svc.loss # NoLoss THEN "restored" ELSE @]
           t == Registered(s, eng.clip, 0)
<1>1. /\ svc \in Service /\ eng \in EngineState
      /\ 0 \in Position /\ eng.clip \in Row /\ NoLoss \in Point
      /\ reached[eng.clip] = eng.pos /\ svc.base <= eng.pos
  BY Nones, PlayoutAssumption DEF PlayoutType, Engine, Position, Row, Nothing
<1>2. /\ hs.at = "sync" /\ hs'.at = "idle" /\ hs' \in HandshakeState
      /\ act["operator"].at \notin {"send", "clear"} /\ act["recovery"].at # "send"
      /\ svc' = Complied(t) /\ eng' = [eng EXCEPT !.template = Template(s)]
      /\ silent' = FALSE /\ rec' = rec /\ link' = "open" /\ eng.up /\ svc.connected
      /\ link = "open"
  BY DEF SynchronizeOnAirState, AdoptOnAir, Apart, NoneAt, Who, Used, Works, Engine
<1>3. /\ s \in Service /\ s.connected /\ s.loaded = svc.loaded
      /\ t \in Service /\ t.connected /\ t.playing /\ t.key = eng.clip /\ t.pos = eng.pos
      /\ t.offset = 0
      /\ t.reg = eng.clip /\ t.base = 0 /\ t.token = svc.token /\ t.epoch = svc.epoch
      /\ t.loss = NoLoss
      /\ t.exit = svc.exit /\ t.timer = FALSE /\ t.failed = svc.failed
  BY <1>1, ZenonT(60) DEF Claimed, Registered, Service
<1> HIDE DEF s, t
<1>4. /\ svc' \in Service /\ svc'.connected /\ svc'.playing /\ svc'.key = eng.clip
      /\ svc'.pos = eng.pos /\ svc'.offset = 0
      /\ svc'.reg = eng.clip /\ svc'.base = 0 /\ svc'.token = svc.token
      /\ svc'.epoch = svc.epoch /\ svc'.loss = NoLoss
      /\ svc'.exit = svc.exit /\ svc'.timer = FALSE /\ svc'.failed = svc.failed
  BY <1>2, <1>3, CompliedIs DEF Belief
<1>5. svc.loaded => eng.template
  BY <1>2 DEF TemplateIsThere, Noticed, Engine
<1>6. /\ eng' \in EngineState
      /\ eng'.up /\ eng'.clip = eng.clip /\ eng'.pos = eng.pos /\ eng'.template = TRUE
  <2>1. Template(s) = TRUE
    BY <1>1, <1>3, <1>5 DEF Template, Service
  <2> QED  BY <1>1, <1>2, <2>1
<1>7. PlayoutType'
  BY <1>2, <1>4, <1>6 DEF SynchronizeOnAirState, PlayoutType
<1>8. Shape' /\ OperatorOwns' /\ StopOwns' /\ RecoveryOwns' /\ NothingSkipped'
  BY <1>2, <1>4 DEF SynchronizeOnAirState, Shape, OperatorOwns, StopOwns, RecoveryOwns,
       NothingSkipped, Lost, Operator, Asking, Settling, Resuming
<1>9. ~svc.exit
  BY <1>2 DEF ExitSeen
<1>10. Waits' /\ LossWaits' /\ ExitSeen' /\ SilentIsOff'
  <2>1. Settling => svc.failed
    BY <1>2, <1>1, <1>4 DEF Waits, Settling, LossWaits, Lost, Nothing, Row
  <2> QED  BY <1>2, <1>4, <1>9, <2>1 DEF SynchronizeOnAirState, Waits, LossWaits, ExitSeen,
                SilentIsOff, Lost, Settling
<1>11. Engine'
  <2>1. 0 <= eng.pos /\ eng.pos \in Nat
    BY <1>1, PlayoutAssumption DEF Position
  <2> QED  BY <1>1, <1>2, <1>4, <1>6, <2>1 DEF SynchronizeOnAirState, Engine
<1>12. OnAirIsWished' /\ OffIsOff' /\ OffIsMeant'
  BY <1>1, <1>2, <1>4, <1>6 DEF SynchronizeOnAirState, OnAirIsWished, OffIsOff, OffIsMeant,
       Undelivered, Operator, Nothing, Row
<1>13. PositionReached'
  <2>1. svc'.pos <= reached[eng.clip]
    BY <1>1, <1>4, PlayoutAssumption DEF Position
  <2> QED  BY <1>1, <1>4, <2>1 DEF SynchronizeOnAirState, PositionReached
<1>14. GoneIsNoticed' /\ TemplateIsThere'
  BY <1>1, <1>6 DEF GoneIsNoticed, TemplateIsThere, Nothing, Row
<1> QED  BY <1>7, <1>8, <1>10, <1>11, <1>12, <1>13, <1>14

\* Nothing plays: a recovery of the loss begins, or the resume timer is set.
LEMMA EmptyKeeps ==
  ASSUME PlayoutInv, Windows = {}, SynchronizeOnAirState, ~(Works /\ eng.clip # Nothing)
  PROVE  PlayoutInv'
<1> USE DEF PlayoutInv
<1> DEFINE s == IF Works THEN [svc EXCEPT !.connected = TRUE] ELSE Disconnected(svc)
<1>1. /\ svc \in Service /\ NoLoss \in Point
      /\ hs.at = "sync" /\ hs'.at = "idle" /\ hs' \in HandshakeState
      /\ act["operator"].at \notin {"send", "clear"} /\ act["recovery"].at # "send"
      /\ link' = (IF Works THEN "open" ELSE "none") /\ eng' = eng /\ silent' = silent
      /\ IF s.loss # NoLoss THEN Begins(s, s.loss) /\ svc' = [s EXCEPT !.loss = NoLoss]
         ELSE svc' = [s EXCEPT !.timer = TRUE] /\ rec' = rec
  BY Nones DEF SynchronizeOnAirState, FindsNothing, Apart, NoneAt, Who, Used, PlayoutType
<1>2. /\ s \in Service /\ Belief(s, svc) /\ Graphics(s, svc) /\ s.exit = svc.exit
      /\ s.connected = Works
  BY <1>1, DisconnectedIs, ZenonT(60) DEF Service, Belief, Graphics, Works
<1>3. /\ Works => eng.up /\ eng.clip = Nothing /\ link = "open" /\ svc.connected
      /\ ~Works => ~eng.up /\ eng.clip = Nothing
  BY <1>1 DEF Works, Engine
<1> HIDE DEF s
<1>4. /\ svc' \in Service /\ svc'.connected = Works /\ svc'.playing = svc.playing
      /\ svc'.key = svc.key
      /\ svc'.pos = svc.pos /\ svc'.offset = svc.offset /\ svc'.reg = svc.reg
      /\ svc'.base = svc.base
      /\ svc'.token = svc.token /\ svc'.epoch = svc.epoch /\ svc'.loss = NoLoss
      /\ svc'.exit = svc.exit
      /\ svc'.phase = svc.phase /\ svc'.failed = svc.failed /\ Graphics(svc', svc)
      /\ ~Lost => svc'.timer
  <2>1. \/ svc' = [s EXCEPT !.loss = NoLoss] /\ s.loss # NoLoss
        \/ svc' = [s EXCEPT !.timer = TRUE] /\ s.loss = NoLoss
    BY <1>1
  <2>2. /\ svc' \in Service /\ svc'.connected = s.connected /\ svc'.playing = s.playing
        /\ svc'.key = s.key
        /\ svc'.pos = s.pos /\ svc'.offset = s.offset /\ svc'.reg = s.reg /\ svc'.base = s.base
        /\ svc'.token = s.token /\ svc'.epoch = s.epoch /\ svc'.loss = NoLoss
        /\ svc'.exit = s.exit
        /\ svc'.phase = s.phase /\ svc'.failed = s.failed /\ svc'.wanted = s.wanted
        /\ svc'.loaded = s.loaded
        /\ s.loss = NoLoss => svc'.timer
    <3>1. CASE svc' = [s EXCEPT !.loss = NoLoss] /\ s.loss # NoLoss
      <4>1. NoLoss \in Point
        BY Nones
      <4> QED  BY <1>2, <3>1, <4>1, ZenonT(60) DEF Service
    <3>2. CASE svc' = [s EXCEPT !.timer = TRUE] /\ s.loss = NoLoss
      BY <1>2, <3>2, ZenonT(60) DEF Service
    <3> QED  BY <2>1, <3>1, <3>2
  <2> QED  BY <1>2, <2>2 DEF Belief, Graphics, Lost
<1>5. /\ rec' \in RecoveryState
      /\ ~Lost => rec' = rec
      /\ Lost /\ rec.at # "idle" => rec' = rec /\ rec.at = "playing" /\ svc.failed
      /\ Lost /\ rec.at = "idle" => rec'.at = "settle" /\ rec'.loss = svc.loss /\ rec'.epoch = svc.epoch
  <2>1. CASE Lost
    <3>1. Begins(s, svc.loss) /\ svc.loss \in Point /\ s.epoch = svc.epoch
      BY <1>1, <1>2, <2>1 DEF Lost, Belief, Service
    <3>2. rec.at # "idle" => rec.at = "playing" /\ svc.failed
      BY <1>1, <2>1 DEF Waits, LossWaits, PlayoutType
    <3> QED  BY <1>2, <2>1, <3>1, <3>2, BeginsIs
  <2>2. CASE ~Lost
    BY <1>1, <1>2, <2>2 DEF Lost, Belief, PlayoutType
  <2> QED  BY <2>1, <2>2
<1>6. ~svc.exit
  BY <1>1 DEF ExitSeen
<1>7. PlayoutType'
  BY <1>1, <1>4, <1>5 DEF SynchronizeOnAirState, PlayoutType
<1>8. Shape'
  <2>1. svc.epoch <= svc.epoch
    BY <1>1 DEF Service
  <2>2. rec.at = "idle" => act["recovery"].at = "idle"
    BY DEF Shape
  <2>3. rec'.at = "playing" <=> rec.at = "playing"
    BY <1>5, <2>2
  <2>4. act["recovery"].at # "idle" => rec' = rec
    BY <1>5, <2>2
  <2>5. rec'.epoch <= svc.epoch /\ (rec'.at # "idle" => rec'.loss.key \in Row)
    BY <1>5, <2>1 DEF Shape
  <2> QED  BY <1>1, <1>4, <2>3, <2>4, <2>5 DEF SynchronizeOnAirState, Shape, Lost, Operator
<1>9. Lost => act["operator"].at = "idle"
  BY DEF OperatorOwns
<1>10. OperatorOwns' /\ StopOwns' /\ RecoveryOwns' /\ NothingSkipped'
  BY <1>1, <1>4, <1>5, <1>9 DEF SynchronizeOnAirState, OperatorOwns, StopOwns, RecoveryOwns,
       NothingSkipped, Lost, Operator, Asking, Settling, Resuming
<1>11. Waits' /\ LossWaits' /\ ExitSeen'
  BY <1>1, <1>3, <1>4, <1>5, <1>6 DEF SynchronizeOnAirState, Waits, LossWaits, ExitSeen, Lost,
       Settling
<1>12. Engine' /\ PositionReached' /\ SilentIsOff'
  BY <1>1, <1>3, <1>4 DEF SynchronizeOnAirState, Engine, PositionReached, SilentIsOff, Ticking,
       Operator, Undelivered
<1>13. OnAirIsWished' /\ OffIsOff' /\ OffIsMeant'
  BY <1>1, <1>3, <1>4, <1>5 DEF SynchronizeOnAirState, OnAirIsWished, OffIsOff, OffIsMeant, Lost,
       Operator, Undelivered, Settling, Resuming, Told
<1>14. GoneIsNoticed' /\ TemplateIsThere'
  BY <1>1, <1>3, <1>4 DEF SynchronizeOnAirState, GoneIsNoticed, TemplateIsThere, Noticed, Engine,
       LossWaits, Lost, Operator, Undelivered, Graphics
<1> QED  BY <1>7, <1>8, <1>10, <1>11, <1>12, <1>13, <1>14

\* The resume timer: the engine looks dead, and a recovery begins.
LEMMA EvaluateKeeps ==
  ASSUME PlayoutInv, Windows = {}, EvaluateResume  PROVE PlayoutInv'
<1> USE DEF PlayoutInv
<1> DEFINE s == [svc EXCEPT !.timer = FALSE]
           o == Outage(s)
<1>1. /\ svc \in Service /\ s \in Service /\ Belief(s, svc) /\ Graphics(s, svc)
      /\ s.exit = svc.exit
      /\ s.connected = svc.connected /\ ~s.timer /\ NoLoss \in Point
  BY Nones DEF PlayoutType, Service, Belief, Graphics
<1>2. /\ svc.timer /\ (Ticking \/ silent) /\ hs.at = "idle" /\ rec.at # "settle"
      /\ \/ svc' = s /\ rec' = rec /\ ~(OnAir(s) /\ EngineLooksDead)
         \/ /\ OnAir(s) /\ EngineLooksDead
            /\ svc.reg = svc.key /\ NoneAt({"take", "play", "send", "confirm"})
            /\ svc' = [o EXCEPT !.loss = NoLoss]
            /\ IF o.loss # NoLoss THEN Begins(o, o.loss) ELSE rec' = rec
  BY DEF EvaluateResume, Unbroken, Declarable
<1> HIDE DEF s, o
<1>3. CASE svc' = s /\ rec' = rec /\ ~(OnAir(s) /\ EngineLooksDead)
  <2>1. PlayoutType' /\ Shape' /\ OperatorOwns' /\ StopOwns' /\ RecoveryOwns' /\ Waits'
          /\ NothingSkipped'
    BY <1>1, <1>3 DEF EvaluateResume, Belief, Graphics, PlayoutType, Shape, OperatorOwns,
         StopOwns, RecoveryOwns, Waits, NothingSkipped, Lost, Operator, Asking, Settling, Resuming
  <2>2. Engine' /\ PositionReached' /\ ExitSeen' /\ TemplateIsThere'
    BY <1>1, <1>3 DEF EvaluateResume, Belief, Graphics, Engine, PositionReached, ExitSeen,
         TemplateIsThere, Noticed, NoneAt
  <2>3. GoneIsNoticed'
    <3>1. svc.playing /\ ~svc.failed /\ ~Undelivered => svc.key # Nothing /\ OnAir(s)
      BY <1>1 DEF OnAirIsWished, OnAir, Belief
    <3>2. eng.clip = Nothing => silent
      BY <1>2 DEF Ticking
    <3> QED  BY <1>1, <1>3, <3>1, <3>2 DEF EvaluateResume, Belief, GoneIsNoticed, EngineLooksDead,
                  Operator, Undelivered
  <2>4. SilentIsOff' /\ OnAirIsWished' /\ OffIsOff' /\ OffIsMeant' /\ LossWaits'
    BY <1>1, <1>3 DEF EvaluateResume, Belief, SilentIsOff, OnAirIsWished, OffIsOff, OffIsMeant,
         LossWaits, Lost, Operator, Undelivered, Settling, Resuming, Told, Ticking
  <2> QED  BY <2>1, <2>2, <2>3, <2>4
<1>4. ASSUME OnAir(s), EngineLooksDead, svc.reg = svc.key, NoneAt({"take", "play", "send", "confirm"}),
             svc' = [o EXCEPT !.loss = NoLoss], IF o.loss # NoLoss THEN Begins(o, o.loss) ELSE rec' = rec
      PROVE  PlayoutInv'
  <2>1. /\ svc.playing /\ svc.key \in Row /\ svc.token \in Nat /\ svc.epoch \in Nat
        /\ act["operator"].at \notin {"take", "play", "send", "confirm", "clear"}
        /\ act["recovery"].at \notin {"send", "confirm"} /\ svc.pos <= reached[svc.reg]
    BY <1>1, <1>2, <1>4 DEF OnAir, Belief, NoneAt, Who, StopOwns, Operator, PositionReached,
         Service, Row, Nothing
  <2>2. /\ act["recovery"].token <= svc.token /\ act["recovery"].token \in Nat
        /\ act["operator"].at = "idle"
        /\ act["recovery"].at = "idle" /\ rec.at = "idle"
    BY <1>2, <2>1 DEF Shape, PlayoutType, Call, Who
  <2>3. /\ o \in Service /\ o.loss # NoLoss /\ o.loss \in Point
        /\ ~o.timer /\ o.connected = svc.connected /\ o.key = svc.key /\ o.pos = svc.pos
        /\ o.offset = svc.offset /\ o.reg = svc.reg /\ o.base = svc.base
        /\ o.epoch = svc.epoch /\ o.exit = svc.exit /\ o.failed = svc.failed /\ Graphics(o, svc)
        /\ o.token \in Nat /\ svc.token <= o.token
        /\ Lost => svc.failed /\ o.loss = svc.loss /\ o.playing
        /\ ~Lost => ~o.playing /\ o.loss.key = svc.key /\ o.loss.pos = svc.pos
    <3>1. CASE Lost
      <4>1. o = s
        BY <1>1, <3>1 DEF o, Outage, Lost, Belief
      <4>2. svc.loss \in Point /\ svc.token <= svc.token
        BY <1>1 DEF Service
      <4> QED  BY <1>1, <2>1, <3>1, <4>1, <4>2 DEF Belief, Graphics, LossWaits, Lost
    <3>2. CASE ~Lost
      <4>1. s.loss = NoLoss
        BY <1>1, <3>2 DEF Belief, Lost
      <4>2. o.token = s.token + 1 /\ s.token = svc.token /\ o \in Service /\ o.loss # NoLoss /\ ~o.timer
            /\ ~o.playing /\ o.loss = [key |-> s.key, pos |-> s.pos]
            /\ o.connected = svc.connected /\ o.key = svc.key
            /\ o.pos = svc.pos /\ o.offset = svc.offset /\ o.reg = svc.reg /\ o.base = svc.base
            /\ o.epoch = svc.epoch /\ o.exit = svc.exit /\ o.failed = svc.failed
            /\ Graphics(o, svc)
            /\ s.key = svc.key /\ s.pos = svc.pos
        BY <1>1, <1>4, <4>1, OutageIs DEF o, Belief, Graphics
      <4>3. o.loss \in Point
        BY <4>2 DEF Service
      <4> QED  BY <2>1, <3>2, <4>2, <4>3
    <3> QED  BY <3>1, <3>2
  <2>4. /\ svc' \in Service /\ svc'.loss = NoLoss
        /\ ~svc'.timer /\ svc'.connected = svc.connected /\ svc'.key = svc.key
        /\ svc'.pos = svc.pos
        /\ svc'.offset = svc.offset /\ svc'.reg = svc.reg /\ svc'.base = svc.base
        /\ svc'.epoch = svc.epoch /\ svc'.exit = svc.exit /\ svc'.failed = svc.failed
        /\ Graphics(svc', svc)
        /\ svc'.token = o.token /\ svc'.playing = o.playing
    BY <1>1, <1>4, <2>3 DEF Service, Graphics
  <2>5. /\ rec' \in RecoveryState
        /\ rec'.at = "settle" /\ rec'.loss = o.loss /\ rec'.epoch = svc.epoch
    BY <1>4, <2>2, <2>3, BeginsIs
  <2>6. PlayoutType'
    BY <2>4, <2>5 DEF EvaluateResume, PlayoutType
  <2>7. o.loss.key \in Row /\ o.loss.pos <= reached[o.loss.key]
    BY <1>4, <2>1, <2>3 DEF Shape, LossWaits
  <2>8. act["recovery"].token <= o.token /\ svc.epoch <= svc.epoch
    BY <2>1, <2>2, <2>3
  <2>9. Shape' /\ OperatorOwns' /\ StopOwns' /\ RecoveryOwns' /\ NothingSkipped'
    BY <2>1, <2>2, <2>4, <2>5, <2>7, <2>8 DEF EvaluateResume, Shape, OperatorOwns, StopOwns,
         RecoveryOwns, NothingSkipped, Lost, Operator, Asking, Settling, Resuming
  <2>10. ~Lost /\ ~svc.failed => eng.clip = Nothing
    <3>1. svc.exit => eng.clip = Nothing
      BY <1>2 DEF ExitSeen
    <3>2. silent /\ eng.clip # Nothing /\ ~svc.failed => FALSE
      BY <1>4, <2>1, <2>2 DEF SilentIsOff, Ticking, OnAirIsWished, Undelivered, Operator, Who,
           Nothing
    <3> QED  BY <1>4, <3>1, <3>2 DEF EngineLooksDead
  <2>11. Waits'
    BY <1>2, <2>3, <2>4, <2>5, <2>7, <2>10 DEF EvaluateResume, Waits, ExitSeen, Lost, Settling
  <2>12. Engine' /\ PositionReached' /\ ExitSeen' /\ TemplateIsThere'
    BY <2>1, <2>3, <2>4 DEF EvaluateResume, Graphics, Engine, PositionReached, ExitSeen,
         TemplateIsThere, Noticed, NoneAt
  <2>13. SilentIsOff' /\ OnAirIsWished' /\ OffIsOff' /\ OffIsMeant' /\ LossWaits'
           /\ GoneIsNoticed'
    <3>1. Settling'
      BY <2>4, <2>5 DEF Settling
    <3>2. Undelivered' = Undelivered /\ ~Undelivered
      BY <2>2 DEF EvaluateResume, Undelivered, Operator
    <3>3. svc.failed \/ ~svc'.playing
      BY <2>3, <2>4
    <3>4. SilentIsOff'
      BY <2>2, <2>3, <2>4, <3>3 DEF EvaluateResume, SilentIsOff, Ticking
    <3>5. LossWaits'
      BY <2>4 DEF LossWaits, Lost
    <3>6. ~svc.failed => ~Lost
      BY <2>3
    <3>7. svc'.failed = svc.failed /\ eng' = eng
      BY <2>4 DEF EvaluateResume
    <3> QED  BY <2>10, <3>1, <3>2, <3>3, <3>4, <3>5, <3>6, <3>7 DEF OnAirIsWished, OffIsOff,
                  OffIsMeant, GoneIsNoticed
  <2> QED  BY <2>6, <2>9, <2>11, <2>12, <2>13
<1> QED  BY <1>2, <1>3, <1>4

\* planEngineRecovery: the row again, no further than it got, or the next one
\* when the row had less than a second left.
LEMMA PlanIs ==
  ASSUME NEW loss \in Point, loss.key \in Row, left \in Scenario
  PROVE  /\ Plan(loss).row \in 0..Rows /\ Plan(loss).seek \in Position
         /\ Plan(loss).row = loss.key => Plan(loss).seek <= loss.pos
         /\ Plan(loss).row \in Row /\ Plan(loss).row # loss.key => loss.pos = Duration
<1>1. loss.pos \in 0..Duration /\ loss.key \in 1..Rows /\ Rows \in Nat /\ Duration \in Nat \ {0, 1}
  BY PlayoutAssumption DEF Point, Position, Row
<1> DEFINE seek == IF loss.pos > 0 THEN loss.pos - 1 ELSE 0
<1>2. /\ seek \in 0..Duration /\ seek <= loss.pos /\ 0 \in 0..Duration
      /\ Duration - seek < 2 => loss.pos = Duration
  BY <1>1
<1>3. Plan(loss) = IF ~left.auto THEN [row |-> 0, seek |-> 0]
                   ELSE IF Duration - seek < 2
                        THEN [row |-> IF loss.key < Rows THEN loss.key + 1 ELSE 0, seek |-> 0]
                        ELSE [row |-> loss.key, seek |-> seek]
  BY DEF Plan, Nothing
<1> HIDE DEF seek
<1>4. CASE ~left.auto
  BY <1>1, <1>2, <1>3, <1>4 DEF Position, Row
<1>5. CASE left.auto /\ Duration - seek < 2
  <2>1. Plan(loss).seek = 0 /\ Plan(loss).row = (IF loss.key < Rows THEN loss.key + 1 ELSE 0)
    BY <1>3, <1>5
  <2> QED  BY <1>1, <1>2, <1>5, <2>1 DEF Position, Row
<1>6. CASE left.auto /\ ~(Duration - seek < 2)
  BY <1>1, <1>2, <1>3, <1>6 DEF Position, Row
<1> QED  BY <1>4, <1>5, <1>6

\* play, take and stop, up to their first await.
LEMMA TakenIs ==
  ASSUME NEW s \in Service, NEW r \in 0..Rows
  PROVE  LET t == Taken(s, r) IN
         /\ t \in Service /\ t.connected = s.connected /\ t.playing = s.playing /\ t.key = r
         /\ t.pos = s.pos /\ t.offset = 0 /\ t.reg = s.reg /\ t.base = s.base
         /\ t.token = s.token + 1 /\ t.epoch = s.epoch + 1 /\ t.loss = NoLoss /\ ~t.timer
         /\ t.exit = s.exit /\ t.failed = s.failed /\ Graphics(t, s)
<1>1. s.token + 1 \in Nat /\ s.epoch + 1 \in Nat /\ 0 \in Position /\ NoLoss \in Point
  BY Nones, PlayoutAssumption DEF Service, Position
<1>2. /\ Cancelled(s) \in Service /\ Cancelled(s).epoch = s.epoch + 1
      /\ Cancelled(s).loss = NoLoss
      /\ Cancelled(s).connected = s.connected /\ Cancelled(s).playing = s.playing
      /\ Cancelled(s).pos = s.pos /\ Cancelled(s).reg = s.reg /\ Cancelled(s).base = s.base
      /\ Cancelled(s).token = s.token /\ Cancelled(s).exit = s.exit
      /\ Cancelled(s).failed = s.failed
      /\ Graphics(Cancelled(s), s)
  BY <1>1, ZenonT(60) DEF Cancelled, Service, Graphics
<1> QED  BY <1>1, <1>2, ZenonT(60) DEF Taken, Claimed, Service, Graphics

\* The recovery looks what has become of the engine, and plays or holds.
LEMMA SettledKeeps ==
  ASSUME PlayoutInv, Windows = {}, Settled  PROVE PlayoutInv'
<1> USE DEF PlayoutInv
<1> DEFINE plan == Plan(rec.loss)
           h == [Claimed(svc, Nothing) EXCEPT !.token = @ + 1, !.reg = Nothing, !.phase = "held"]
           t == [Taken(svc, plan.row) EXCEPT !.phase = "restoring", !.offset = plan.seek]
           c == [at |-> "send", row |-> plan.row, seek |-> plan.seek, token |-> svc.token + 1]
<1>1. /\ svc \in Service /\ act \in [Who -> Call] /\ rec.loss \in Point /\ rec.loss.key \in Row
      /\ left \in Scenario
      /\ rec \in RecoveryState
      /\ rec.at = "settle" /\ act["recovery"].at = "idle" /\ svc.loss = NoLoss
      /\ act["recovery"].token <= svc.token /\ rec.epoch <= svc.epoch
  BY DEF Settled, PlayoutType, Shape, Waits, Lost
<1>2. \/ rec' = NoRecovery /\ svc' = svc /\ act' = act /\ wish' = wish /\ ~Settling
      \/ /\ Settling /\ ~svc.connected /\ svc' = [svc EXCEPT !.loss = rec.loss]
         /\ rec' = NoRecovery /\ act' = act /\ wish' = wish
      \/ /\ Settling /\ svc.playing /\ svc' = [svc EXCEPT !.phase = "restored"]
         /\ rec' = NoRecovery /\ act' = act /\ wish' = wish
      \/ /\ Settling /\ svc.connected /\ ~svc.playing /\ svc' = h
         /\ rec' = NoRecovery /\ act' = act /\ wish' = Nothing
      \/ /\ Settling /\ svc.connected /\ ~svc.playing /\ plan.row # Nothing /\ svc' = t
         /\ rec' = [rec EXCEPT !.at = "playing", !.row = plan.row, !.seek = plan.seek]
         /\ act' = [act EXCEPT !["recovery"] = c] /\ wish' = plan.row
  BY <1>1 DEF Settled, Settling
<1>3. Settling => act["operator"].at = "idle"
  BY DEF OperatorOwns
<1>4. /\ NoRecovery \in RecoveryState
      /\ NoRecovery.at = "idle" /\ NoRecovery.epoch = 0 /\ 0 <= svc.epoch
  BY <1>1, Nones, PlayoutAssumption DEF NoRecovery, Nothing, Position, Service
<1>5. UNCHANGED <<eng, link, supervised, reports, silent, hs, reached, left>>
  BY DEF Settled
<1> HIDE DEF plan, h, t, c
\* Given up, or another command goes on.
<1>6. ASSUME rec' = NoRecovery, act' = act, wish' = wish,
             (svc' = svc /\ ~Settling) \/ (svc.playing /\ svc' = [svc EXCEPT !.phase = "restored"])
      PROVE  PlayoutInv'
  <2>1. /\ svc' \in Service /\ svc'.connected = svc.connected /\ svc'.playing = svc.playing
        /\ svc'.key = svc.key
        /\ svc'.pos = svc.pos /\ svc'.offset = svc.offset /\ svc'.reg = svc.reg
        /\ svc'.base = svc.base
        /\ svc'.token = svc.token /\ svc'.epoch = svc.epoch /\ svc'.loss = svc.loss
        /\ svc'.timer = svc.timer
        /\ svc'.exit = svc.exit /\ svc'.failed = svc.failed /\ Graphics(svc', svc)
        /\ ~svc.playing => svc'.phase = svc.phase /\ ~Settling
    BY <1>1, <1>6 DEF Service, Graphics
  <2>2. PlayoutType'
    BY <1>4, <1>5, <1>6, <2>1 DEF PlayoutType
  <2>3. Shape' /\ OperatorOwns' /\ StopOwns' /\ RecoveryOwns' /\ Waits' /\ NothingSkipped'
    BY <1>1, <1>4, <1>5, <1>6, <2>1 DEF Graphics, Shape, OperatorOwns, StopOwns, RecoveryOwns,
         Waits, NothingSkipped, Lost, Operator, Asking, Settling, Resuming
  <2>4. Engine' /\ PositionReached' /\ ExitSeen' /\ GoneIsNoticed' /\ TemplateIsThere'
    BY <1>5, <1>6, <2>1 DEF Graphics, Engine, PositionReached, ExitSeen, GoneIsNoticed,
         TemplateIsThere, Noticed, Operator, Undelivered, NoneAt
  <2>5. SilentIsOff' /\ OnAirIsWished' /\ OffIsOff' /\ OffIsMeant' /\ LossWaits'
    BY <1>1, <1>4, <1>5, <1>6, <2>1 DEF SilentIsOff, OnAirIsWished, OffIsOff, OffIsMeant,
         LossWaits, Lost, Operator, Undelivered, Settling, Resuming, Told, Ticking
  <2> QED  BY <2>2, <2>3, <2>4, <2>5
\* Lost again.
<1>7. ASSUME Settling, ~svc.connected, svc' = [svc EXCEPT !.loss = rec.loss],
             rec' = NoRecovery, act' = act, wish' = wish
      PROVE  PlayoutInv'
  <2>1. /\ svc' \in Service /\ svc'.connected = svc.connected /\ svc'.playing = svc.playing
        /\ svc'.key = svc.key
        /\ svc'.pos = svc.pos /\ svc'.offset = svc.offset /\ svc'.reg = svc.reg
        /\ svc'.base = svc.base
        /\ svc'.token = svc.token /\ svc'.epoch = svc.epoch /\ svc'.loss = rec.loss
        /\ svc'.timer = svc.timer
        /\ svc'.exit = svc.exit /\ svc'.failed = svc.failed /\ Graphics(svc', svc)
        /\ svc'.phase = svc.phase
    BY <1>1, <1>7 DEF Service, Graphics
  <2>2. rec.loss # NoLoss
    BY <1>1, Nones DEF Row
  <2>3. PlayoutType'
    BY <1>4, <1>5, <1>7, <2>1 DEF PlayoutType
  <2>4. Shape' /\ OperatorOwns' /\ StopOwns' /\ RecoveryOwns' /\ Waits' /\ NothingSkipped'
    BY <1>1, <1>3, <1>4, <1>5, <1>7, <2>1 DEF Graphics, Shape, OperatorOwns, StopOwns,
         RecoveryOwns, Waits, NothingSkipped, Lost, Operator, Asking, Settling, Resuming
  <2>5. Engine' /\ PositionReached' /\ ExitSeen' /\ GoneIsNoticed' /\ TemplateIsThere'
    BY <1>5, <1>7, <2>1 DEF Graphics, Engine, PositionReached, ExitSeen, GoneIsNoticed,
         TemplateIsThere, Noticed, Operator, Undelivered, NoneAt
  <2>6. SilentIsOff' /\ OnAirIsWished' /\ OffIsOff' /\ OffIsMeant' /\ LossWaits'
    BY <1>1, <1>4, <1>5, <1>7, <2>1, <2>2 DEF SilentIsOff, OnAirIsWished, OffIsOff, OffIsMeant,
         LossWaits, Waits, Lost, Operator, Undelivered, Settling, Resuming, Told, Ticking
  <2> QED  BY <2>3, <2>4, <2>5, <2>6
\* Held.
<1>8. ASSUME Settling, svc.connected, ~svc.playing, svc' = h,
             rec' = NoRecovery, act' = act, wish' = Nothing
      PROVE  PlayoutInv'
  <2>1. svc.token + 1 \in Nat /\ 0 \in Position /\ 0 \in 0..Rows
    BY <1>1, PlayoutAssumption DEF Service, Position
  <2>2. /\ svc' \in Service /\ svc'.connected = svc.connected /\ svc'.playing = svc.playing
        /\ svc'.key = 0
        /\ svc'.pos = svc.pos /\ svc'.offset = 0 /\ svc'.reg = 0 /\ svc'.base = svc.base
        /\ svc'.token = svc.token + 1 /\ svc'.epoch = svc.epoch /\ svc'.loss = svc.loss
        /\ svc'.timer = svc.timer
        /\ svc'.exit = svc.exit /\ svc'.failed = svc.failed /\ Graphics(svc', svc)
        /\ svc'.phase = "held"
    BY <1>1, <1>8, <2>1 DEF h, Claimed, Service, Graphics, Nothing
  <2>3. PlayoutType'
    BY <1>4, <1>5, <1>8, <2>1, <2>2 DEF PlayoutType, Nothing
  <2>4. act["recovery"].token <= svc.token + 1
    BY <1>1, <2>1 DEF Who, Call, Service
  <2>5. Shape' /\ OperatorOwns' /\ StopOwns' /\ RecoveryOwns' /\ Waits' /\ NothingSkipped'
    BY <1>1, <1>3, <1>4, <1>5, <1>8, <2>2, <2>4 DEF Graphics, Shape, OperatorOwns, StopOwns,
         RecoveryOwns, Waits, NothingSkipped, Lost, Operator, Asking, Settling, Resuming
  <2>6. Engine' /\ PositionReached' /\ ExitSeen' /\ GoneIsNoticed' /\ TemplateIsThere'
    BY <1>5, <1>8, <2>2 DEF Graphics, Engine, PositionReached, ExitSeen, GoneIsNoticed,
         TemplateIsThere, Noticed, Operator, Undelivered, NoneAt
  <2>7. SilentIsOff' /\ OnAirIsWished' /\ OffIsOff' /\ OffIsMeant' /\ LossWaits'
    BY <1>1, <1>3, <1>5, <1>8, <2>2 DEF SilentIsOff, OnAirIsWished, OffIsOff, OffIsMeant,
         LossWaits, Waits, Lost, Operator, Undelivered, Settling, Ticking
  <2> QED  BY <2>3, <2>5, <2>6, <2>7
\* Resumed.
<1>9. ASSUME Settling, svc.connected, ~svc.playing, plan.row # Nothing, svc' = t,
             rec' = [rec EXCEPT !.at = "playing", !.row = plan.row, !.seek = plan.seek],
             act' = [act EXCEPT !["recovery"] = c], wish' = plan.row
      PROVE  PlayoutInv'
  <2>1. /\ plan.row \in Row /\ plan.row \in 0..Rows /\ plan.seek \in Position
        /\ plan.row = rec.loss.key => plan.seek <= rec.loss.pos
        /\ plan.row # rec.loss.key => rec.loss.pos = Duration
    BY <1>1, <1>9, PlanIs DEF plan, Row, Nothing
  <2>2. /\ svc' \in Service /\ svc'.connected = svc.connected /\ svc'.playing = svc.playing
        /\ svc'.key = plan.row
        /\ svc'.pos = svc.pos /\ svc'.offset = plan.seek /\ svc'.reg = svc.reg
        /\ svc'.base = svc.base
        /\ svc'.token = svc.token + 1 /\ svc'.epoch = svc.epoch + 1 /\ svc'.loss = NoLoss
        /\ ~svc'.timer
        /\ svc'.exit = svc.exit /\ svc'.failed = svc.failed /\ Graphics(svc', svc)
        /\ svc'.phase = "restoring"
    <3>1. /\ Taken(svc, plan.row) \in Service /\ Taken(svc, plan.row).connected = svc.connected
          /\ Taken(svc, plan.row).playing = svc.playing /\ Taken(svc, plan.row).key = plan.row
          /\ Taken(svc, plan.row).pos = svc.pos /\ Taken(svc, plan.row).reg = svc.reg
          /\ Taken(svc, plan.row).base = svc.base /\ Taken(svc, plan.row).token = svc.token + 1
          /\ Taken(svc, plan.row).epoch = svc.epoch + 1 /\ Taken(svc, plan.row).loss = NoLoss
          /\ ~Taken(svc, plan.row).timer /\ Taken(svc, plan.row).exit = svc.exit
          /\ Taken(svc, plan.row).failed = svc.failed /\ Graphics(Taken(svc, plan.row), svc)
      BY <1>1, <2>1, TakenIs
    <3> QED  BY <1>9, <2>1, <3>1 DEF t, Service, Graphics
  <2>3. svc.token \in Nat /\ svc.token + 1 \in Nat /\ svc.epoch \in Nat
    BY <1>1 DEF Service
  <2>4. /\ act' \in [Who -> Call] /\ act'["operator"] = act["operator"]
        /\ act'["recovery"].at = "send"
        /\ act'["recovery"].row = plan.row /\ act'["recovery"].seek = plan.seek
        /\ act'["recovery"].token = svc.token + 1
    <3>1. /\ c \in Call /\ c.at = "send" /\ c.row = plan.row /\ c.seek = plan.seek
          /\ c.token = svc.token + 1
      BY <2>1, <2>3 DEF c, Call
    <3> QED  BY <1>1, <1>9, <3>1 DEF Who
  <2>5. /\ rec' \in RecoveryState
        /\ rec'.at = "playing" /\ rec'.row = plan.row /\ rec'.seek = plan.seek
        /\ rec'.loss = rec.loss /\ rec'.epoch = rec.epoch
    BY <1>1, <1>9, <2>1
  <2>6. PlayoutType'
    BY <1>5, <1>9, <2>1, <2>2, <2>4, <2>5 DEF PlayoutType
  <2>7. rec.epoch <= svc.epoch + 1 /\ svc.token + 1 <= svc.token + 1
    BY <1>1, <2>3
  <2>8. Shape'
    BY <1>1, <1>3, <1>5, <2>1, <2>2, <2>4, <2>5, <2>7 DEF Shape, Lost, Operator
  <2>9. OperatorOwns' /\ StopOwns' /\ RecoveryOwns' /\ Waits'
    BY <1>3, <1>5, <1>9, <2>2, <2>4, <2>5 DEF OperatorOwns, StopOwns, RecoveryOwns, Waits, Lost,
         Operator, Asking, Settling, Resuming
  <2>10. NothingSkipped'
    <3>1. rec.loss.pos <= reached[rec.loss.key] /\ reached[rec.loss.key] \in 0..Duration
          /\ rec.loss.pos \in 0..Duration /\ plan.seek \in 0..Duration
      BY <1>1, <1>9, <2>1 DEF Waits, PlayoutType, Position, Point
    <3>2. plan.row = rec.loss.key => plan.seek <= reached[plan.row]
      BY <2>1, <3>1, PlayoutAssumption
    <3>3. plan.row # rec.loss.key => reached[rec.loss.key] = Duration
      BY <2>1, <3>1, PlayoutAssumption
    <3> QED  BY <1>5, <2>5, <3>2, <3>3 DEF NothingSkipped
  <2>11. Engine' /\ PositionReached' /\ ExitSeen' /\ GoneIsNoticed' /\ TemplateIsThere'
    BY <1>5, <1>9, <2>2 DEF Graphics, Engine, PositionReached, ExitSeen, GoneIsNoticed,
         TemplateIsThere, Noticed, Operator, Undelivered, NoneAt
  <2>12. SilentIsOff' /\ OnAirIsWished' /\ OffIsOff' /\ OffIsMeant' /\ LossWaits'
    BY <1>3, <1>5, <1>9, <2>2, <2>4 DEF SilentIsOff, OnAirIsWished, OffIsOff, OffIsMeant,
         LossWaits, Waits, Lost, Operator, Undelivered, Settling, Resuming, Ticking
  <2> QED  BY <2>6, <2>8, <2>9, <2>10, <2>11, <2>12
<1> QED  BY <1>2, <1>6, <1>7, <1>8, <1>9

\* What a command of the operator starts from: it supersedes a recovery.
LEMMA TakesKeeps ==
  ASSUME PlayoutInv, Windows = {}, NEW r \in Row, NEW kind \in {"take", "play"}, Takes(kind, r)
  PROVE  PlayoutInv'
<1> USE DEF PlayoutInv
<1> DEFINE c == [at |-> IF svc.connected THEN "send" ELSE kind, row |-> r, seek |-> 0,
                 token |-> svc.token + 1]
<1>1. /\ svc \in Service /\ act \in [Who -> Call] /\ r \in 0..Rows /\ svc.token \in Nat
      /\ svc.epoch \in Nat
      /\ act["recovery"].token \in Nat /\ act["recovery"].token <= svc.token
      /\ rec.epoch \in Nat /\ rec.epoch <= svc.epoch /\ left \in Scenario /\ 0 \in Position
  <2>1. /\ svc \in Service /\ act \in [Who -> Call] /\ rec.epoch \in Nat /\ left \in Scenario
        /\ act["recovery"].token <= svc.token /\ rec.epoch <= svc.epoch
    BY DEF PlayoutType, Shape
  <2> QED  BY <2>1, PlayoutAssumption DEF Row, Service, Call, Who, Position
<1>2. /\ svc' = [Taken(svc, r) EXCEPT !.failed = FALSE] /\ act' = [act EXCEPT !["operator"] = c]
      /\ wish' = r /\ left.commands > 0 /\ left' = [left EXCEPT !.commands = @ - 1]
      /\ UNCHANGED <<eng, link, supervised, reports, silent, hs, rec, reached>>
  BY DEF Takes, Commanded
<1>3. /\ svc' \in Service /\ svc'.connected = svc.connected /\ svc'.playing = svc.playing
      /\ svc'.key = r
      /\ svc'.pos = svc.pos /\ svc'.offset = 0 /\ svc'.reg = svc.reg /\ svc'.base = svc.base
      /\ svc'.token = svc.token + 1 /\ svc'.epoch = svc.epoch + 1 /\ svc'.loss = NoLoss
      /\ ~svc'.timer
      /\ svc'.exit = svc.exit /\ svc'.failed = FALSE /\ Graphics(svc', svc)
  <2> DEFINE t == Taken(svc, r)
  <2>1. /\ t \in Service /\ t.connected = svc.connected /\ t.playing = svc.playing /\ t.key = r
        /\ t.pos = svc.pos /\ t.offset = 0 /\ t.reg = svc.reg /\ t.base = svc.base
        /\ t.token = svc.token + 1 /\ t.epoch = svc.epoch + 1 /\ t.loss = NoLoss /\ ~t.timer
        /\ t.exit = svc.exit /\ Graphics(t, svc)
    BY <1>1, TakenIs DEF Row
  <2>2. svc' = [t EXCEPT !.failed = FALSE]
    BY <1>2
  <2> HIDE DEF t
  <2>3. svc' \in Service
    BY <2>1, <2>2 DEF Service
  <2> QED  BY <2>1, <2>2, <2>3, ZenonT(60) DEF Service, Graphics
<1>4. /\ c \in Call /\ c.at \in {"send", "take", "play"} /\ c.row = r /\ c.seek = 0
      /\ c.token = svc.token + 1
  BY <1>1 DEF Call
<1>5. /\ act' \in [Who -> Call] /\ act'["recovery"] = act["recovery"]
      /\ act'["operator"].at \in {"send", "take", "play"}
      /\ act'["operator"].row = r /\ act'["operator"].seek = 0
      /\ act'["operator"].token = svc.token + 1
  BY <1>1, <1>2, <1>4 DEF Who
<1>6. left' \in Scenario
  BY <1>1, <1>2 DEF Scenario
<1>7. /\ act["recovery"].token < svc.token + 1 /\ act["recovery"].token # svc.token + 1
      /\ rec.epoch <= svc.epoch + 1 /\ rec.epoch # svc.epoch + 1
      /\ act["recovery"].token <= svc.token + 1
  BY <1>1
<1>8. PlayoutType'
  BY <1>1, <1>2, <1>3, <1>5, <1>6 DEF PlayoutType
<1>9. Shape' /\ OperatorOwns' /\ StopOwns' /\ RecoveryOwns' /\ Waits' /\ NothingSkipped'
  BY <1>2, <1>3, <1>5, <1>7 DEF Shape, OperatorOwns, StopOwns, RecoveryOwns, Waits,
       NothingSkipped, Lost, Operator, Asking, Settling, Resuming
<1>10. PositionReached'
  <2>1. svc.playing => 0 <= svc.base
    BY <1>1, PlayoutAssumption DEF Service, Position
  <2> QED  BY <1>2, <1>3, <2>1 DEF PositionReached
<1>11. Engine' /\ ExitSeen' /\ LossWaits'
  BY <1>2, <1>3 DEF Engine, ExitSeen, LossWaits, Lost
<1>12. Undelivered'
  BY <1>5 DEF Undelivered, Operator
<1>13. TemplateIsThere'
  BY <1>2, <1>3 DEF TemplateIsThere, Noticed, Graphics
<1> QED  BY <1>8, <1>9, <1>10, <1>11, <1>12, <1>13 DEF SilentIsOff, OnAirIsWished, OffIsOff,
              OffIsMeant, GoneIsNoticed

\* A take that waited for the connection goes on.
LEMMA ConnectsKeeps ==
  ASSUME PlayoutInv, Windows = {}, Connects  PROVE PlayoutInv'
<1> USE DEF PlayoutInv
<1>1. /\ svc \in Service /\ act \in [Who -> Call] /\ act["operator"].at \in {"take", "play"}
      /\ svc.token \in Nat
      /\ act["operator"].row \in Row /\ svc.connected /\ hs.at = "idle"
      /\ act["operator"].token = svc.token /\ 0 \in Position
  BY PlayoutAssumption DEF Connects, PlayoutType, Shape, OperatorOwns, Asking, Operator, Service,
       Position
<1>2. /\ svc' = Claimed(svc, act["operator"].row)
      /\ act' = [act EXCEPT !["operator"].at = "send", !["operator"].token = svc.token]
      /\ UNCHANGED <<eng, link, supervised, reports, silent, hs, rec, wish, reached, left>>
  BY <1>1 DEF Connects
<1>3. /\ svc' \in Service /\ svc'.connected = svc.connected /\ svc'.playing = svc.playing
      /\ svc'.key = act["operator"].row
      /\ svc'.pos = svc.pos /\ svc'.offset = 0 /\ svc'.reg = svc.reg /\ svc'.base = svc.base
      /\ svc'.token = svc.token /\ svc'.epoch = svc.epoch /\ svc'.loss = svc.loss
      /\ svc'.timer = svc.timer
      /\ svc'.exit = svc.exit /\ svc'.failed = svc.failed /\ Graphics(svc', svc)
  <2>1. act["operator"].row \in 0..Rows
    BY <1>1 DEF Row
  <2>2. svc' = [svc EXCEPT !.key = act["operator"].row, !.offset = 0]
    BY <1>2 DEF Claimed
  <2> QED  BY <1>1, <2>1, <2>2 DEF Service, Graphics
<1>4. /\ act' \in [Who -> Call] /\ act'["recovery"] = act["recovery"]
      /\ act'["operator"].at = "send"
      /\ act'["operator"].row = act["operator"].row
      /\ act'["operator"].seek = act["operator"].seek
      /\ act'["operator"].token = svc.token
  BY <1>1, <1>2 DEF Who, Call
<1>5. PlayoutType'
  BY <1>2, <1>3, <1>4 DEF PlayoutType
<1>6. Shape' /\ OperatorOwns' /\ StopOwns' /\ RecoveryOwns' /\ Waits' /\ NothingSkipped'
  <2>1. Shape' /\ StopOwns'
    BY <1>1, <1>2, <1>3, <1>4, ZenonT(60) DEF Shape, StopOwns, Lost, Operator
  <2>2. OperatorOwns'
    BY <1>1, <1>2, <1>3, <1>4, ZenonT(60) DEF OperatorOwns, Lost, Operator, Asking, Settling
  <2>3. ~Resuming
    BY <1>1 DEF OperatorOwns, Shape, Resuming, Service, Call, Who
  <2>4. RecoveryOwns' /\ Waits' /\ NothingSkipped'
    BY <1>2, <1>3, <1>4, <2>3 DEF RecoveryOwns, Waits, NothingSkipped, Lost, Settling, Resuming
  <2> QED  BY <2>1, <2>2, <2>4
<1>7. PositionReached'
  <2>1. svc.playing => 0 <= svc.base
    BY <1>1, PlayoutAssumption DEF Service, Position
  <2> QED  BY <1>2, <1>3, <2>1 DEF PositionReached
<1>8. Engine' /\ ExitSeen' /\ LossWaits'
  BY <1>1, <1>2, <1>3 DEF Engine, ExitSeen, LossWaits, Lost
<1>9. Undelivered'
  BY <1>4 DEF Undelivered, Operator
<1>10. TemplateIsThere'
  BY <1>2, <1>3 DEF TemplateIsThere, Noticed, Graphics
<1> QED  BY <1>5, <1>6, <1>7, <1>8, <1>9, <1>10 DEF SilentIsOff, OnAirIsWished, OffIsOff,
              OffIsMeant, GoneIsNoticed

\* It gives up.
LEMMA CannotConnectKeeps ==
  ASSUME PlayoutInv, Windows = {}, CannotConnect  PROVE PlayoutInv'
<1> USE DEF PlayoutInv
<1>1. /\ svc \in Service /\ act \in [Who -> Call] /\ act["operator"].at \in {"take", "play"}
      /\ ~svc.connected
      /\ svc' = [svc EXCEPT !.failed = TRUE] /\ act' = [act EXCEPT !["operator"] = NoCall]
      /\ UNCHANGED <<eng, link, supervised, reports, silent, hs, rec, wish, reached, left>>
  BY DEF CannotConnect, PlayoutType
<1>2. /\ svc' \in Service /\ svc'.connected = svc.connected /\ svc'.playing = svc.playing
      /\ svc'.key = svc.key
      /\ svc'.pos = svc.pos /\ svc'.offset = svc.offset /\ svc'.reg = svc.reg
      /\ svc'.base = svc.base
      /\ svc'.token = svc.token /\ svc'.epoch = svc.epoch /\ svc'.loss = svc.loss
      /\ svc'.timer = svc.timer
      /\ svc'.exit = svc.exit /\ svc'.failed /\ Graphics(svc', svc)
  BY <1>1 DEF Service, Graphics
<1>3. /\ act' \in [Who -> Call] /\ act'["recovery"] = act["recovery"]
      /\ act'["operator"].at = "idle"
      /\ act'["operator"].seek = 0
  BY <1>1, Nones DEF Who, NoCall
<1>4. PlayoutType'
  BY <1>1, <1>2, <1>3 DEF PlayoutType
<1>5. Shape' /\ OperatorOwns' /\ StopOwns' /\ RecoveryOwns' /\ Waits' /\ NothingSkipped'
  BY <1>1, <1>2, <1>3 DEF Shape, OperatorOwns, StopOwns, RecoveryOwns, Waits, NothingSkipped,
       Lost, Operator, Asking, Settling, Resuming
<1>6. Engine' /\ PositionReached' /\ ExitSeen' /\ LossWaits' /\ TemplateIsThere'
  BY <1>1, <1>2, <1>3 DEF Engine, PositionReached, ExitSeen, LossWaits, TemplateIsThere, Noticed,
       Graphics, Lost, NoneAt, Who
<1> QED  BY <1>2, <1>4, <1>5, <1>6 DEF SilentIsOff, OnAirIsWished, OffIsOff, OffIsMeant,
              GoneIsNoticed

\* A stop supersedes a recovery, and everything that waited.
LEMMA StopKeeps ==
  ASSUME PlayoutInv, Windows = {}, Stop  PROVE PlayoutInv'
<1> USE DEF PlayoutInv
<1> DEFINE s == [Taken(svc, Nothing) EXCEPT !.playing = FALSE, !.pos = 0, !.failed = FALSE]
           c == [NoCall EXCEPT !.at = "clear"]
<1>1. /\ svc \in Service /\ act \in [Who -> Call] /\ 0 \in 0..Rows /\ svc.token \in Nat
      /\ svc.epoch \in Nat
      /\ act["recovery"].token \in Nat /\ act["recovery"].token <= svc.token
      /\ rec.epoch \in Nat /\ rec.epoch <= svc.epoch /\ left \in Scenario /\ 0 \in Position
  <2>1. /\ svc \in Service /\ act \in [Who -> Call] /\ rec.epoch \in Nat /\ left \in Scenario
        /\ act["recovery"].token <= svc.token /\ rec.epoch <= svc.epoch
    BY DEF PlayoutType, Shape
  <2> QED  BY <2>1, PlayoutAssumption DEF Service, Call, Who, Position
<1>2. /\ act["operator"] = NoCall /\ wish' = 0 /\ left.commands > 0
      /\ left' = [left EXCEPT !.commands = @ - 1]
      /\ ~eng.up \/ (svc.connected /\ link # "stale")
      /\ svc.connected => /\ svc' = [s EXCEPT !.wanted = FALSE, !.loaded = FALSE]
                          /\ act' = [act EXCEPT !["operator"] = c]
      /\ ~svc.connected => svc' = [s EXCEPT !.reg = Nothing] /\ act' = act
      /\ UNCHANGED <<eng, link, supervised, reports, silent, hs, rec, reached>>
  BY DEF Stop, Commanded, Nothing
<1>3. /\ s \in Service /\ s.connected = svc.connected /\ ~s.playing /\ s.key = 0
      /\ s.pos = 0 /\ s.offset = 0 /\ s.base = svc.base
      /\ s.token = svc.token + 1 /\ s.epoch = svc.epoch + 1 /\ s.loss = NoLoss /\ ~s.timer
      /\ s.exit = svc.exit /\ s.failed = FALSE /\ Graphics(s, svc)
  <2>1. /\ Taken(svc, 0) \in Service /\ Taken(svc, 0).connected = svc.connected
        /\ Taken(svc, 0).key = 0
        /\ Taken(svc, 0).offset = 0 /\ Taken(svc, 0).base = svc.base
        /\ Taken(svc, 0).token = svc.token + 1
        /\ Taken(svc, 0).epoch = svc.epoch + 1 /\ Taken(svc, 0).loss = NoLoss
        /\ ~Taken(svc, 0).timer
        /\ Taken(svc, 0).exit = svc.exit /\ Graphics(Taken(svc, 0), svc)
    BY <1>1, TakenIs
  <2> QED  BY <1>1, <2>1 DEF Service, Graphics, Nothing
<1> HIDE DEF s
<1>4. /\ svc' \in Service /\ svc'.connected = svc.connected /\ ~svc'.playing /\ svc'.key = 0
      /\ svc'.pos = 0 /\ svc'.offset = 0 /\ svc'.base = svc.base
      /\ svc'.token = svc.token + 1 /\ svc'.epoch = svc.epoch + 1 /\ svc'.loss = NoLoss
      /\ ~svc'.timer
      /\ svc'.exit = svc.exit /\ svc'.failed = FALSE
      /\ svc.connected => ~svc'.wanted /\ ~svc'.loaded
      /\ ~svc.connected => Graphics(svc', svc)
  <2>1. CASE svc.connected
    <3>1. svc' = [s EXCEPT !.wanted = FALSE, !.loaded = FALSE]
      BY <1>2, <2>1
    <3> QED  BY <1>3, <2>1, <3>1 DEF Service
  <2>2. CASE ~svc.connected
    BY <1>1, <1>2, <1>3, <2>2 DEF Service, Graphics, Nothing
  <2> QED  BY <2>1, <2>2
<1>5. /\ act' \in [Who -> Call] /\ act'["recovery"] = act["recovery"]
      /\ act'["operator"].seek = 0
      /\ svc.connected => act'["operator"].at = "clear"
      /\ ~svc.connected => act'["operator"].at = "idle"
      /\ act["operator"].at = "idle"
  <2>1. c \in Call /\ c.at = "clear" /\ c.seek = 0 /\ NoCall.at = "idle" /\ NoCall.seek = 0
    BY Nones DEF NoCall, Call
  <2> HIDE DEF c
  <2> QED  BY <1>1, <1>2, <2>1 DEF Who
<1>6. left' \in Scenario
  BY <1>1, <1>2 DEF Scenario
<1>7. /\ act["recovery"].token < svc.token + 1 /\ act["recovery"].token # svc.token + 1
      /\ rec.epoch <= svc.epoch + 1 /\ rec.epoch # svc.epoch + 1
      /\ act["recovery"].token <= svc.token + 1
  BY <1>1
<1>8. ~svc.connected => eng.clip = Nothing
  BY <1>2 DEF Engine
<1>9. PlayoutType'
  BY <1>1, <1>2, <1>4, <1>5, <1>6 DEF PlayoutType
<1>10. Shape' /\ OperatorOwns' /\ RecoveryOwns' /\ Waits' /\ NothingSkipped'
  BY <1>2, <1>4, <1>5, <1>7 DEF Shape, OperatorOwns, RecoveryOwns, Waits, NothingSkipped, Lost,
       Operator, Asking, Settling, Resuming
<1>11. StopOwns'
  BY <1>2, <1>4, <1>5 DEF StopOwns, Operator, Engine, Nothing
<1>12. Engine' /\ ExitSeen' /\ LossWaits' /\ PositionReached' /\ GoneIsNoticed'
  BY <1>2, <1>4 DEF Engine, ExitSeen, LossWaits, PositionReached, GoneIsNoticed, Lost
<1>13. TemplateIsThere'
  BY <1>2, <1>4 DEF TemplateIsThere, Noticed, Graphics
<1>14. SilentIsOff' /\ OnAirIsWished' /\ OffIsOff' /\ OffIsMeant'
  BY <1>2, <1>4, <1>5, <1>8 DEF SilentIsOff, OnAirIsWished, OffIsOff, OffIsMeant, Ticking,
       Operator, Undelivered, Nothing
<1> QED  BY <1>9, <1>10, <1>11, <1>12, <1>13, <1>14

\* Its CLEAR arrives, or finds that the engine is gone.
LEMMA ClearsKeeps ==
  ASSUME PlayoutInv, Windows = {}, Clears  PROVE PlayoutInv'
<1> USE DEF PlayoutInv
<1>1. /\ svc \in Service /\ act \in [Who -> Call] /\ act["operator"].at = "clear"
      /\ 0 \in 0..Rows
      /\ act' = [act EXCEPT !["operator"] = NoCall]
      /\ link' = (IF Works THEN "open" ELSE "none")
      /\ Works => /\ eng' = [Down EXCEPT !.up = TRUE]
                  /\ svc' = [svc EXCEPT !.connected = TRUE, !.reg = Nothing]
      /\ ~Works => eng' = eng /\ svc' = Disconnected(svc)
      /\ UNCHANGED <<supervised, reports, silent, hs, rec, wish, reached, left>>
  BY PlayoutAssumption DEF Clears, Used, PlayoutType
<1>2. /\ svc' \in Service /\ (svc'.connected <=> Works)
      /\ svc'.playing = svc.playing /\ svc'.key = svc.key
      /\ svc'.pos = svc.pos /\ svc'.offset = svc.offset /\ svc'.base = svc.base
      /\ svc'.token = svc.token /\ svc'.epoch = svc.epoch /\ svc'.loss = svc.loss
      /\ svc'.timer = svc.timer
      /\ svc'.exit = svc.exit /\ svc'.failed = svc.failed /\ svc'.phase = svc.phase
      /\ Graphics(svc', svc)
  <2>1. CASE Works
    BY <1>1, <2>1, ZenonT(60) DEF Service, Graphics, Nothing
  <2>2. CASE ~Works
    <3>1. svc' = Disconnected(svc)
      BY <1>1, <2>2
    <3> QED  BY <1>1, <2>2, <3>1, DisconnectedIs DEF Belief
  <2> QED  BY <2>1, <2>2
<1>3. /\ act' \in [Who -> Call] /\ act'["recovery"] = act["recovery"]
      /\ act'["operator"].at = "idle"
      /\ act'["operator"].seek = 0
  BY <1>1, Nones DEF Who, NoCall
<1>4. /\ wish = Nothing /\ ~svc.playing /\ ~svc.timer /\ ~svc.wanted /\ ~svc.loaded
      /\ link = "stale" => eng.clip = Nothing
      /\ ~Lost /\ ~Settling
  BY <1>1 DEF StopOwns, OperatorOwns, Operator
<1>5. /\ eng'.up = eng.up /\ eng'.clip = Nothing
      /\ ~eng'.up => ~eng'.template /\ eng'.pos = 0
      /\ eng' \in EngineState
  <2>1. CASE Works
    <3>1. eng' = [up |-> TRUE, clip |-> 0, pos |-> 0, template |-> FALSE] /\ eng.up
      BY <1>1, <2>1 DEF Down, Works, Nothing
    <3>2. 0 \in Position
      BY PlayoutAssumption DEF Position
    <3>3. eng.up = TRUE
      BY <3>1 DEF PlayoutType
    <3> QED  BY <1>1, <3>1, <3>2, <3>3 DEF Nothing
  <2>2. CASE ~Works
    BY <1>1, <1>4, <2>2 DEF Works, Engine, PlayoutType
  <2> QED  BY <2>1, <2>2
<1>6. PlayoutType'
  BY <1>1, <1>2, <1>3, <1>5 DEF PlayoutType
<1>7. Shape' /\ OperatorOwns' /\ StopOwns' /\ RecoveryOwns' /\ Waits' /\ NothingSkipped'
  BY <1>1, <1>2, <1>3, <1>4 DEF Shape, OperatorOwns, StopOwns, RecoveryOwns, Waits,
       NothingSkipped, Lost, Operator, Asking, Settling, Resuming
<1>8. Engine'
  <2>1. hs.at # "idle" /\ eng.up => Works
    BY DEF Engine, Works
  <2> QED  BY <1>1, <1>2, <1>5, <2>1 DEF Engine, Works
<1>9. ExitSeen' /\ LossWaits' /\ PositionReached' /\ GoneIsNoticed' /\ TemplateIsThere'
  BY <1>1, <1>2, <1>4 DEF ExitSeen, LossWaits, PositionReached, GoneIsNoticed, TemplateIsThere,
       Graphics, Lost
<1>10. SilentIsOff' /\ OnAirIsWished' /\ OffIsOff' /\ OffIsMeant'
  BY <1>1, <1>2, <1>4, <1>5 DEF SilentIsOff, OnAirIsWished, OffIsOff, OffIsMeant, Ticking
<1> QED  BY <1>6, <1>7, <1>8, <1>9, <1>10

\* A call is over; after its play a recovery is over too.
LEMMA EndsIs ==
  ASSUME PlayoutType, NEW w \in Who, NEW s \in Service, Ends(w, s)
  PROVE  /\ act' \in [Who -> Call] /\ act'[w].at = "idle" /\ act'[w] = NoCall
         /\ \A v \in Who : v # w => act'[v] = act[v]
         /\ svc' \in Service /\ svc'.connected = s.connected /\ svc'.playing = s.playing
         /\ svc'.key = s.key
         /\ svc'.pos = s.pos /\ svc'.offset = s.offset /\ svc'.reg = s.reg /\ svc'.base = s.base
         /\ svc'.token = s.token /\ svc'.epoch = s.epoch /\ svc'.loss = s.loss
         /\ svc'.timer = s.timer
         /\ svc'.exit = s.exit /\ svc'.failed = s.failed /\ Graphics(svc', s)
         /\ ~s.playing => svc'.phase = s.phase \/ svc'.phase = "failed"
         /\ w = "operator" => svc' = s /\ rec' = rec
         /\ w = "recovery" => rec' = NoRecovery
<1>1. act \in [Who -> Call] /\ act' = [act EXCEPT ![w] = NoCall] /\ NoCall \in Call /\ NoCall.at = "idle"
  BY Nones DEF PlayoutType, Ends, NoCall
<1>2. /\ act' \in [Who -> Call] /\ act'[w].at = "idle" /\ act'[w] = NoCall
      /\ \A v \in Who : v # w => act'[v] = act[v]
  BY <1>1
<1>3. CASE w = "operator"
  <2>1. svc' = s /\ rec' = rec /\ w # "recovery"
    BY <1>3 DEF Ends
  <2> QED  BY <1>2, <2>1 DEF Graphics
<1>4. CASE w = "recovery"
  <2>1. /\ rec' = NoRecovery /\ w # "operator"
        /\ svc' = [s EXCEPT !.phase = IF s.playing /\ s.key = rec.row THEN "restored"
                                     ELSE IF s.key \in {rec.row, Nothing} THEN "failed" ELSE @]
    BY <1>4 DEF Ends
  <2>2. /\ svc' \in Service /\ svc'.connected = s.connected /\ svc'.playing = s.playing
        /\ svc'.key = s.key
        /\ svc'.pos = s.pos /\ svc'.offset = s.offset /\ svc'.reg = s.reg /\ svc'.base = s.base
        /\ svc'.token = s.token /\ svc'.epoch = s.epoch /\ svc'.loss = s.loss
        /\ svc'.timer = s.timer
        /\ svc'.exit = s.exit /\ svc'.failed = s.failed /\ Graphics(svc', s)
        /\ ~s.playing => svc'.phase = s.phase \/ svc'.phase = "failed"
    BY <2>1 DEF Service, Graphics
  <2> QED  BY <1>2, <2>1, <2>2
<1> QED  BY <1>3, <1>4 DEF Who

\* The end of a call that nobody waits for any more, or whose clip is on air.
LEMMA EndKeeps ==
  ASSUME PlayoutInv, NEW w \in Who, Ends(w, svc), act[w].at # "idle",
         act[w].at = "confirm" \/ (act[w].at = "send" /\ act[w].token # svc.token),
         act[w].at = "confirm" => silent' = (silent /\ ~Ticking),
         act[w].at = "send" => silent' = silent,
         UNCHANGED <<eng, link, supervised, reports, hs, wish, reached, left>>
  PROVE  PlayoutInv'
<1> USE DEF PlayoutInv
<1>1. /\ svc \in Service /\ act \in [Who -> Call] /\ silent \in BOOLEAN
  BY DEF PlayoutType
<1>2. /\ act' \in [Who -> Call] /\ act'[w].at = "idle" /\ act'[w].seek = 0 /\ act'[w].token = 0
      /\ \A v \in Who : v # w => act'[v] = act[v]
      /\ svc' \in Service /\ svc'.connected = svc.connected /\ svc'.playing = svc.playing
      /\ svc'.key = svc.key
      /\ svc'.pos = svc.pos /\ svc'.offset = svc.offset /\ svc'.reg = svc.reg
      /\ svc'.base = svc.base
      /\ svc'.token = svc.token /\ svc'.epoch = svc.epoch /\ svc'.loss = svc.loss
      /\ svc'.timer = svc.timer
      /\ svc'.exit = svc.exit /\ svc'.failed = svc.failed /\ Graphics(svc', svc)
      /\ ~svc.playing => svc'.phase = svc.phase \/ svc'.phase = "failed"
      /\ w = "operator" => svc' = svc /\ rec' = rec
      /\ w = "recovery" => rec' = NoRecovery
  BY <1>1, EndsIs DEF NoCall
<1>3. w = "operator" => act["operator"].at = "confirm"
  BY DEF OperatorOwns, Asking, Operator
<1>4. w = "recovery" => rec.at = "playing" /\ ~Resuming /\ rec'.at = "idle" /\ rec'.epoch = 0
  BY <1>2 DEF Shape, Resuming, NoRecovery
<1>5. silent' \in BOOLEAN /\ 0 <= svc.epoch /\ 0 <= svc.token
  <2>1. silent' \in BOOLEAN
    BY <1>1
  <2> QED  BY <1>1, <2>1 DEF Service
<1>6. rec' \in RecoveryState
  <2>1. NoRecovery \in RecoveryState
    BY Nones, PlayoutAssumption DEF NoRecovery, Nothing, Position
  <2> QED  BY <1>2, <2>1 DEF PlayoutType, Who
<1>7. PlayoutType'
  BY <1>2, <1>5, <1>6 DEF PlayoutType
<1>8. Ticking' = Ticking
  BY <1>2 DEF Ticking
<1>9. CASE w = "operator"
  <2>1. /\ act'["operator"].at = "idle" /\ act'["operator"].seek = 0
        /\ act'["recovery"] = act["recovery"]
        /\ svc' = svc /\ rec' = rec /\ act["operator"].at = "confirm"
    BY <1>2, <1>3, <1>9 DEF Who
  <2>2. Shape' /\ OperatorOwns' /\ StopOwns' /\ RecoveryOwns' /\ Waits' /\ NothingSkipped'
    BY <2>1 DEF Shape, OperatorOwns, StopOwns, RecoveryOwns, Waits, NothingSkipped, Lost,
         Operator, Asking, Settling, Resuming
  <2>3. Engine' /\ PositionReached' /\ ExitSeen' /\ GoneIsNoticed' /\ TemplateIsThere'
    BY <2>1 DEF Engine, PositionReached, ExitSeen, GoneIsNoticed, TemplateIsThere, Noticed,
         Operator, Undelivered, NoneAt, Who
  <2>4. SilentIsOff'
    BY <1>8, <1>9, <2>1 DEF SilentIsOff
  <2>5. OnAirIsWished' /\ OffIsOff' /\ OffIsMeant' /\ LossWaits'
    BY <2>1 DEF OnAirIsWished, OffIsOff, OffIsMeant, LossWaits, Lost, Operator, Undelivered,
         Settling, Resuming, Told
  <2> QED  BY <1>7, <2>2, <2>3, <2>4, <2>5
<1>10. CASE w = "recovery"
  <2>1. /\ act'["recovery"].at = "idle" /\ act'["recovery"].token = 0
        /\ act'["operator"] = act["operator"]
        /\ rec'.at = "idle" /\ rec'.epoch = 0 /\ rec.at = "playing" /\ ~Resuming
    BY <1>2, <1>4, <1>10 DEF Who
  <2>2. Shape' /\ OperatorOwns' /\ StopOwns'
    BY <1>2, <1>5, <2>1 DEF Shape, OperatorOwns, StopOwns, Lost, Operator, Asking, Settling,
         Graphics
  <2>3. RecoveryOwns' /\ Waits' /\ NothingSkipped'
    BY <2>1 DEF RecoveryOwns, Waits, NothingSkipped, Settling, Resuming
  <2>4. Engine' /\ PositionReached' /\ ExitSeen' /\ GoneIsNoticed' /\ TemplateIsThere'
    BY <1>2, <2>1 DEF Graphics, Engine, PositionReached, ExitSeen, GoneIsNoticed, TemplateIsThere,
         Noticed, Operator, Undelivered, NoneAt, Who
  <2>5. SilentIsOff'
    BY <1>1, <1>2, <1>8, <1>10, <2>1 DEF SilentIsOff, Operator, Undelivered, Who
  <2>6. OnAirIsWished' /\ OffIsOff' /\ OffIsMeant' /\ LossWaits'
    BY <1>2, <2>1 DEF OnAirIsWished, OffIsOff, OffIsMeant, LossWaits, Lost, Operator, Undelivered,
         Settling, Resuming, Told
  <2> QED  BY <1>7, <2>2, <2>3, <2>4, <2>5, <2>6
<1> QED  BY <1>9, <1>10 DEF Who

\* The first frame.
LEMMA ConfirmedKeeps ==
  ASSUME PlayoutInv, Windows = {}, NEW w \in Who, Confirmed(w)  PROVE PlayoutInv'
<1>1. silent \in BOOLEAN
  BY DEF PlayoutInv, PlayoutType
<1> QED  BY <1>1, EndKeeps DEF Confirmed

\* A PLAY that fails.
LEMMA PlayFails ==
  ASSUME PlayoutInv, Windows = {}, NEW w \in Who, act[w].at = "send", act[w].token = svc.token,
         supervised \/ link # "stale" \/ hs.at # "idle", ~Works, link' = "none",
         Ends(w, [svc EXCEPT !.pos = act[w].seek, !.failed = TRUE, !.reg = act[w].row]),
         UNCHANGED <<eng, supervised, reports, silent, hs, wish, reached, left>>
  PROVE  PlayoutInv'
<1> USE DEF PlayoutInv
<1> DEFINE s == [svc EXCEPT !.pos = act[w].seek, !.failed = TRUE, !.reg = act[w].row]
<1>1. /\ svc \in Service /\ act \in [Who -> Call] /\ act[w].seek \in Position
      /\ act[w].row \in 0..Rows
  BY DEF PlayoutType, Call
<1>2. /\ s \in Service /\ s.connected = svc.connected /\ s.playing = svc.playing
      /\ s.key = svc.key
      /\ s.pos = act[w].seek /\ s.offset = svc.offset /\ s.reg = act[w].row /\ s.base = svc.base
      /\ s.token = svc.token /\ s.epoch = svc.epoch /\ s.loss = svc.loss /\ s.timer = svc.timer
      /\ s.exit = svc.exit /\ s.failed /\ Graphics(s, svc) /\ Ends(w, s)
  BY <1>1 DEF Service, Graphics
<1> HIDE DEF s
<1>3. /\ act' \in [Who -> Call] /\ act'[w].at = "idle" /\ act'[w].seek = 0 /\ act'[w].token = 0
      /\ \A v \in Who : v # w => act'[v] = act[v]
      /\ svc' \in Service /\ svc'.connected = svc.connected /\ svc'.playing = svc.playing
      /\ svc'.key = svc.key
      /\ svc'.pos = act[w].seek /\ svc'.offset = svc.offset /\ svc'.reg = act[w].row
      /\ svc'.base = svc.base
      /\ svc'.token = svc.token /\ svc'.epoch = svc.epoch /\ svc'.loss = svc.loss
      /\ svc'.timer = svc.timer
      /\ svc'.exit = svc.exit /\ svc'.failed /\ Graphics(svc', svc)
      /\ w = "operator" => rec' = rec
      /\ w = "recovery" => rec' = NoRecovery
  BY <1>2, EndsIs DEF NoCall, Graphics
<1>4. /\ NoRecovery \in RecoveryState
      /\ NoRecovery.at = "idle" /\ NoRecovery.epoch = 0 /\ 0 <= svc.epoch /\ 0 <= svc.token
  BY <1>1, Nones, PlayoutAssumption DEF NoRecovery, Nothing, Position, Service
<1>5. PlayoutType'
  BY <1>3, <1>4 DEF PlayoutType, Who
<1>6. PositionReached'
  <2>1. CASE w = "operator"
    <3>1. act[w].seek = 0 /\ act[w].row \in Row
      BY <2>1 DEF Shape, Operator
    <3>2. reached[act[w].row] \in 0..Duration
      BY <3>1 DEF PlayoutType, Position
    <3>3. 0 <= reached[act[w].row]
      BY <3>2, PlayoutAssumption
    <3> QED  BY <1>3, <3>1, <3>3 DEF PositionReached
  <2>2. CASE w = "recovery"
    BY <1>3, <2>2 DEF PositionReached, RecoveryOwns, Resuming
  <2> QED  BY <2>1, <2>2 DEF Who
<1>7. Engine' /\ TemplateIsThere'
  <2>1. ~(hs.at # "idle" /\ eng.up) /\ (link = "none" /\ svc.connected => supervised \/ hs.at # "idle")
    BY DEF Engine, Works
  <2>2. svc.connected => supervised \/ hs.at # "idle"
    <3>1. link \in {"none", "open", "stale"} /\ (eng.up => link = "stale")
      BY DEF Works, PlayoutType
    <3> QED  BY <2>1, <3>1 DEF Engine
  <2>3. Engine'
    BY <1>3, <2>1, <2>2 DEF Engine
  <2>4. hs.at \in {"idle", "reconcile", "sync"}
    BY DEF PlayoutType
  <2>5. Noticed => Noticed'
    BY <1>3, <2>1, <2>2, <2>4 DEF Noticed
  <2> QED  BY <1>3, <2>3, <2>5 DEF Graphics, TemplateIsThere
<1>8. CASE w = "operator"
  <2>1. /\ act'["operator"].at = "idle" /\ act'["operator"].seek = 0
        /\ act'["recovery"] = act["recovery"]
        /\ rec' = rec /\ act["operator"].at = "send"
    BY <1>3, <1>8 DEF Who
  <2>2. Shape' /\ OperatorOwns' /\ StopOwns' /\ RecoveryOwns' /\ Waits' /\ NothingSkipped'
    BY <1>3, <2>1 DEF Shape, OperatorOwns, StopOwns, RecoveryOwns, Waits, NothingSkipped, Lost,
         Operator, Asking, Settling, Resuming
  <2>3. ExitSeen' /\ LossWaits'
    BY <1>3, <2>1 DEF ExitSeen, LossWaits, Lost, NoneAt, Who
  <2> QED  BY <1>3, <1>5, <1>6, <1>7, <2>2, <2>3 DEF SilentIsOff, OnAirIsWished, OffIsOff,
                OffIsMeant, GoneIsNoticed
<1>9. CASE w = "recovery"
  <2>1. /\ act'["recovery"].at = "idle" /\ act'["recovery"].token = 0
        /\ act'["operator"] = act["operator"]
        /\ rec'.at = "idle" /\ rec'.epoch = 0 /\ Resuming
    BY <1>3, <1>4, <1>9 DEF Who, Resuming
  <2>2. Shape' /\ OperatorOwns' /\ StopOwns'
    BY <1>3, <1>4, <2>1 DEF Shape, OperatorOwns, StopOwns, Lost, Operator, Asking, Settling,
         Graphics
  <2>3. RecoveryOwns' /\ Waits' /\ NothingSkipped'
    BY <2>1 DEF RecoveryOwns, Waits, NothingSkipped, Settling, Resuming
  <2>4. ExitSeen' /\ LossWaits'
    BY <1>3, <2>1 DEF ExitSeen, LossWaits, Lost, NoneAt, Who
  <2> QED  BY <1>3, <1>5, <1>6, <1>7, <2>2, <2>3, <2>4 DEF SilentIsOff, OnAirIsWished, OffIsOff,
                OffIsMeant, GoneIsNoticed
<1> QED  BY <1>8, <1>9 DEF Who

\* A PLAY that the engine answers.
LEMMA PlayArrives ==
  ASSUME PlayoutInv, Windows = {}, NEW w \in Who, act[w].at = "send", act[w].token = svc.token,
         supervised \/ link # "stale" \/ hs.at # "idle", eng.up, link' = "open",
         eng' = [up |-> TRUE, clip |-> act[w].row, pos |-> act[w].seek,
                 template |-> Template([svc EXCEPT !.pos = act[w].seek])],
         svc' = Complied(Registered([svc EXCEPT !.pos = act[w].seek, !.failed = FALSE],
                                    act[w].row, act[w].seek)),
         reached' = [reached EXCEPT ![act[w].row] = act[w].seek],
         act' = [act EXCEPT ![w].at = "confirm"],
         UNCHANGED <<rec, supervised, reports, silent, hs, wish, left>>
  PROVE  PlayoutInv'
<1> USE DEF PlayoutInv
<1> DEFINE s == [svc EXCEPT !.pos = act[w].seek]
           t == Registered([svc EXCEPT !.pos = act[w].seek, !.failed = FALSE], act[w].row, act[w].seek)
<1>1. /\ svc \in Service /\ act \in [Who -> Call] /\ reached \in [Row -> Position]
      /\ act[w].seek \in Position /\ act[w].row \in 0..Rows
      /\ eng \in EngineState
  BY DEF PlayoutType, Call
<1>2. /\ act[w].row \in Row /\ svc.key = act[w].row /\ wish = act[w].row
      /\ svc.offset = act[w].seek
      /\ ~Lost /\ ~Settling
  <2>1. CASE w = "operator"
    BY <2>1 DEF Shape, OperatorOwns, Asking, Operator
  <2>2. CASE w = "recovery"
    <3>1. Resuming /\ rec.at = "playing"
      BY <2>2 DEF Resuming, Shape
    <3> QED  BY <2>2, <3>1 DEF Shape, RecoveryOwns, Resuming, Settling
  <2> QED  BY <2>1, <2>2 DEF Who
<1>3. /\ t \in Service /\ t.connected = svc.connected /\ t.playing /\ t.key = svc.key
      /\ t.pos = act[w].seek /\ t.offset = svc.offset /\ t.reg = act[w].row
      /\ t.base = act[w].seek
      /\ t.token = svc.token /\ t.epoch = svc.epoch /\ t.loss = svc.loss /\ t.timer = svc.timer
      /\ t.exit = svc.exit /\ t.failed = FALSE /\ Graphics(t, svc)
      /\ s.connected = svc.connected /\ s.loaded = svc.loaded
  BY <1>1 DEF Registered, Service, Graphics
<1> HIDE DEF s, t
<1>4. /\ svc' \in Service /\ svc'.connected = svc.connected /\ svc'.playing
      /\ svc'.key = act[w].row
      /\ svc'.pos = act[w].seek /\ svc'.offset = act[w].seek /\ svc'.reg = act[w].row
      /\ svc'.base = act[w].seek
      /\ svc'.token = svc.token /\ svc'.epoch = svc.epoch /\ svc'.loss = svc.loss
      /\ svc'.timer = svc.timer
      /\ svc'.exit = svc.exit /\ svc'.failed = FALSE /\ (svc.connected \/ Graphics(svc', svc))
  <2>1. svc' = Complied(t)
    BY DEF t
  <2> QED  BY <1>2, <1>3, <2>1, CompliedIs DEF Belief, Graphics
<1>5. /\ eng' \in EngineState
      /\ eng'.up /\ eng'.clip = act[w].row /\ eng'.pos = act[w].seek
      /\ eng'.template = (eng.template \/ (svc.connected /\ ~svc.loaded))
  <2>1. Template(s) = (eng.template \/ (svc.connected /\ ~svc.loaded))
    BY <1>3 DEF Template
  <2>2. /\ Template(s) \in BOOLEAN
        /\ eng' = [up |-> TRUE, clip |-> act[w].row, pos |-> act[w].seek, template |-> Template(s)]
    BY <1>1, <2>1 DEF s
  <2> QED  BY <1>1, <2>1, <2>2
<1>6. /\ act' \in [Who -> Call] /\ act'[w].at = "confirm" /\ act'[w].row = act[w].row
      /\ act'[w].seek = act[w].seek /\ act'[w].token = act[w].token
      /\ \A v \in Who : v # w => act'[v] = act[v]
  BY <1>1 DEF Call
<1>7. reached' \in [Row -> Position] /\ reached'[act[w].row] = act[w].seek
  BY <1>1, <1>2
<1>8. PlayoutType'
  BY <1>4, <1>5, <1>6, <1>7 DEF PlayoutType
<1>9. act[w].seek <= act[w].seek
  BY <1>1, PlayoutAssumption, SMTT(60) DEF Position
<1>10. Engine' /\ PositionReached' /\ GoneIsNoticed'
  BY <1>2, <1>4, <1>5, <1>7, <1>9, SMTT(60) DEF Engine, PositionReached, GoneIsNoticed,
       Nothing, Row
<1>11. TemplateIsThere'
  <2>1. svc.connected => hs.at = "reconcile" \/ (svc.loaded => eng.template)
    BY DEF TemplateIsThere, Noticed, Engine
  <2> QED  BY <1>4, <1>5, <2>1 DEF TemplateIsThere, Noticed
<1>12. LossWaits' /\ OffIsOff' /\ OffIsMeant' /\ OnAirIsWished'
  BY <1>2, <1>4, SMTT(60) DEF LossWaits, OffIsOff, OffIsMeant, OnAirIsWished, Lost, Nothing,
       Row
<1>13. SilentIsOff'
  BY <1>6 DEF SilentIsOff
<1>14. CASE w = "operator"
  <2>1. /\ act'["operator"].at = "confirm" /\ act'["operator"].seek = act["operator"].seek
        /\ act'["operator"].row = act["operator"].row /\ act'["recovery"] = act["recovery"]
        /\ act["operator"].at = "send" /\ ~Resuming
    <3>1. ~Resuming
      BY <1>1, <1>14, SMTT(60) DEF OperatorOwns, Resuming, Service, Call, Who
    <3> QED  BY <1>6, <1>14, <3>1 DEF Who
  <2>2. Shape' /\ OperatorOwns' /\ StopOwns'
    BY <1>2, <1>4, <2>1, SMTT(60) DEF Shape, OperatorOwns, StopOwns, Lost, Operator, Asking,
         Settling
  <2>3. RecoveryOwns' /\ Waits' /\ NothingSkipped'
    BY <1>2, <1>4, <2>1, SMTT(60) DEF RecoveryOwns, Waits, NothingSkipped, Lost, Settling,
         Resuming
  <2>4. ExitSeen'
    BY <1>4, <1>14 DEF ExitSeen, NoneAt, Who
  <2> QED  BY <1>8, <1>10, <1>11, <1>12, <1>13, <2>2, <2>3, <2>4
<1>15. CASE w = "recovery"
  <2>1. /\ act'["recovery"].at = "confirm" /\ act'["recovery"].seek = act["recovery"].seek
        /\ act'["recovery"].row = act["recovery"].row
        /\ act'["recovery"].token = act["recovery"].token
        /\ act'["operator"] = act["operator"] /\ Resuming
    BY <1>6, <1>15 DEF Who, Resuming
  <2>2. ~(act["operator"].at # "idle")
    BY <1>1, <2>1, SMTT(60) DEF OperatorOwns, Resuming, Service, Call, Who
  <2>3. Shape' /\ OperatorOwns' /\ StopOwns'
    BY <1>2, <1>4, <2>1, <2>2, SMTT(60) DEF Shape, OperatorOwns, StopOwns, Lost, Operator,
         Asking, Settling, Resuming
  <2>4. RecoveryOwns' /\ Waits' /\ NothingSkipped'
    BY <1>2, <1>4, <2>1, SMTT(60) DEF RecoveryOwns, Waits, NothingSkipped, Lost, Settling,
         Resuming
  <2>5. ExitSeen'
    BY <1>4, <1>15 DEF ExitSeen, NoneAt, Who
  <2> QED  BY <1>8, <1>10, <1>11, <1>12, <1>13, <2>3, <2>4, <2>5
<1> QED  BY <1>14, <1>15 DEF Who

\* The PLAY of the operator or of the recovery.
LEMMA SendsKeeps ==
  ASSUME PlayoutInv, Windows = {}, NEW w \in Who, Sends(w)  PROVE PlayoutInv'
<1>1. /\ UNCHANGED <<supervised, reports, silent, hs, wish, left>> /\ silent \in BOOLEAN
  BY DEF Sends, PlayoutInv, PlayoutType
<1>2. act[w].at = "send" /\ (supervised \/ link # "stale" \/ hs.at # "idle")
  BY DEF Sends
<1>3. CASE act[w].token # svc.token
  <2>1. Ends(w, svc) /\ UNCHANGED <<eng, link, reached>>
    BY <1>3 DEF Sends
  <2> QED  BY <1>1, <1>2, <1>3, <2>1, EndKeeps
<1>4. CASE act[w].token = svc.token
  <2>1. \/ /\ ~Works /\ link' = "none" /\ UNCHANGED <<eng, reached>>
           /\ Ends(w, [svc EXCEPT !.pos = act[w].seek, !.failed = TRUE, !.reg = act[w].row])
        \/ /\ eng.up /\ link' = "open" /\ UNCHANGED rec
           /\ eng' = [up |-> TRUE, clip |-> act[w].row, pos |-> act[w].seek,
                      template |-> Template([svc EXCEPT !.pos = act[w].seek])]
           /\ svc' = Complied(Registered([svc EXCEPT !.pos = act[w].seek, !.failed = FALSE],
                                         act[w].row, act[w].seek))
           /\ reached' = [reached EXCEPT ![act[w].row] = act[w].seek]
           /\ act' = [act EXCEPT ![w].at = "confirm"]
    BY <1>4 DEF Sends
  <2> QED  BY <1>1, <1>2, <1>4, <2>1, PlayFails, PlayArrives
<1> QED  BY <1>3, <1>4

\* The rest of the program.
LEMMA PlayoutStutters ==
  ASSUME PlayoutInv, UNCHANGED recoveryVars  PROVE PlayoutInv'
<1> USE DEF PlayoutInv, recoveryVars
<1>1. PlayoutType' /\ Shape' /\ OperatorOwns' /\ StopOwns' /\ RecoveryOwns' /\ Waits'
        /\ NothingSkipped'
  BY DEF PlayoutType, Shape, OperatorOwns, StopOwns, RecoveryOwns, Waits, NothingSkipped, Lost,
       Operator, Asking, Settling, Resuming
<1>2. Engine' /\ PositionReached' /\ ExitSeen' /\ GoneIsNoticed' /\ TemplateIsThere'
  BY DEF Engine, PositionReached, ExitSeen, GoneIsNoticed, TemplateIsThere, Noticed, Operator,
       Undelivered, NoneAt
<1>3. SilentIsOff' /\ OnAirIsWished' /\ OffIsOff' /\ OffIsMeant' /\ LossWaits'
  BY DEF SilentIsOff, OnAirIsWished, OffIsOff, OffIsMeant, LossWaits, Lost, Operator, Undelivered,
       Settling, Resuming, Told, Ticking
<1> QED  BY <1>1, <1>2, <1>3

\* Every step keeps the invariant.
LEMMA PlayoutInvInductive ==
  ASSUME Windows = {}  PROVE PlayoutSpec => []PlayoutInv
<1>1. PlayoutInv /\ [PlayoutNext]_recoveryVars => PlayoutInv'
  <2> SUFFICES ASSUME PlayoutInv, [PlayoutNext]_recoveryVars  PROVE PlayoutInv'
    OBVIOUS
  <2>1. CASE EngineDies \/ EngineBoots \/ SlowProbe \/ Blip \/ Plays \/ Tick \/ FallsSilent
    BY <2>1, DiesKeeps, BootsKeeps, ProbeKeeps, BlipKeeps, PlaysKeeps, TickKeeps, SilenceKeeps
  <2>2. CASE Connection
    <3>1. CASE SynchronizeOnAirState
      BY <3>1, AdoptKeeps, EmptyKeeps
    <3> QED  BY <2>2, <3>1, ReportKeeps, HeartbeatKeeps, OutageProbeKeeps, HandshakeKeeps,
                  ReconcileKeeps,
                EvaluateKeeps DEF Connection
  <2>3. CASE CommandSteps
    BY <2>3, SettledKeeps, ConnectsKeeps, CannotConnectKeeps, ClearsKeeps, SendsKeeps,
         ConfirmedKeeps DEF CommandSteps
  <2>4. CASE Stop
    BY <2>4, StopKeeps
  <2>5. ASSUME NEW r \in Row, TakeRow(r) \/ PlayRow(r)  PROVE PlayoutInv'
    BY <2>5, TakesKeeps DEF TakeRow, PlayRow
  <2>6. CASE UNCHANGED recoveryVars
    BY <2>6, PlayoutStutters
  <2> QED  BY <2>1, <2>2, <2>3, <2>4, <2>5, <2>6 DEF PlayoutNext
<1> QED  BY InitInv, <1>1, PTL DEF PlayoutSpec

\* NothingSkipped and AsWished (caspar.ts, engineRecovery.ts), for every rundown,
\* length of its clips and bound on losses, blips, slow probes and commands: while
\* none of the races of Windows is left open, a recovery skips nothing that was not
\* shown, and when the program comes to rest the engine plays what is wished for.
THEOREM ChannelIsRestored ==
  ASSUME Windows = {}  PROVE PlayoutSpec => []ChannelRestored
BY PlayoutInvInductive, Safe, PTL
=============================================================================
