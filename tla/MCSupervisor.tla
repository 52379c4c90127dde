---------------------------- MODULE MCSupervisor ----------------------------
(* The loss of CasparCG on its two sides, each a part of its own: the process  *)
(* supervisor, and the playout that is restored on the engine it started.      *)
EXTENDS Supervisor, EngineRecovery

VARIABLE part

Primary == [primary |-> TRUE, auto |-> TRUE, keepAlive |-> FALSE,
            ops |-> 1, polls |-> Always, outside |-> {}]
Unpolled == [Primary EXCEPT !.ops = 2, !.polls = 0, !.keepAlive = TRUE]
MCCases == {
    Primary,                                                        \* polled all the time
    Unpolled,                                                       \* commands that race
    [Unpolled EXCEPT !.ops = 3, !.auto = FALSE],                    \* and stop after stop
    [Primary EXCEPT !.ops = 0, !.outside = {"ours"}],               \* a launcher
    [Primary EXCEPT !.auto = FALSE, !.polls = 1, !.outside = {"foreign"}],
    [Primary EXCEPT !.primary = FALSE, !.outside = {"ours"}]}       \* monitor mode

\* Two rows of three seconds: two losses of the engine and one of the connection,
\* without and with the resume; a loss of each and a command; a slow probe.
Bounds(auto, deaths, blips, probes, commands) ==
  [auto |-> auto, deaths |-> deaths, blips |-> blips, probes |-> probes, commands |-> commands]
MCScenarios == {Bounds(TRUE, 2, 1, 0, 0), Bounds(FALSE, 1, 1, 0, 0),
                Bounds(TRUE, 1, 1, 0, 1), Bounds(TRUE, 1, 0, 1, 0)}
-----------------------------------------------------------------------------
\* The part that stands still does so in a state in which nothing fair can happen:
\* no process that nobody asks for, and a clip on air.
MCInit ==
  /\ part \in {"supervisor", "playout"} /\ Init /\ PlayoutInit
  /\ part = "supervisor" => ~supervised /\ left = Bounds(TRUE, 2, 1, 0, 0)
  /\ part = "playout" => set = Unpolled /\ \A e \in Engines : proc[e] = "none"
MCNext ==
  \/ part = "supervisor" /\ Next /\ UNCHANGED <<part, recoveryVars>>
  \/ part = "playout" /\ PlayoutNext /\ UNCHANGED <<part, vars>>
MCSpec ==
  /\ MCInit /\ [][MCNext]_<<part, vars, recoveryVars>>
  /\ Fairness /\ PlayoutFairness
=============================================================================
