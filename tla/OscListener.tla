------------------------------ MODULE OscListener ------------------------------
(* The OSC feed of the engine (configure_caspar_osc_listener, run_osc_listener *)
(* in caspar.rs): one loopback socket with its receive task and one playback   *)
(* watchdog, replaced when the operator sets another port.                     *)
(*                                                                             *)
(* A listener and its watchdog are named by the call that started them; call 0 *)
(* stands for "not running".                                                   *)
EXTENDS Naturals, FiniteSets

CONSTANTS Ports,               \* ports the operator may set
          Calls,               \* calls of the command, numbers from 1
          Taken,               \* ports another program holds
          Windows              \* races left open, see Configure

VARIABLES call,        \* call[c]
          record,      \* CasparOscListenerControl: the port and whose handles it holds
          stopping,    \* listeners told to stop (stop_tx sent or dropped)
          listening,   \* receive tasks running: call |-> port
          watching,    \* playback watchdogs running
          everFed      \* a listener has been started

oscVars == <<call, record, stopping, listening, watching, everFed>>

Idle == [at |-> "idle", port |-> 0, old |-> 0]
NoListener == [port |-> 0, of |-> 0]
Bound == {listening[c] : c \in DOMAIN listening} \cup
         {call[c].port : c \in {c \in Calls : call[c].at \in {"replace", "await", "start"}}}

Init ==
  /\ call = [c \in Calls |-> Idle]
  /\ record = NoListener /\ stopping = {} /\ listening = <<>> /\ watching = {}
  /\ everFed = FALSE

InFlight == {c \in Calls : call[c].at \in {"bind", "replace", "await", "start"}}
Goes(c, to) == call' = [call EXCEPT ![c].at = to]

\* The port is the one listened on already; or it is about to be bound. Window
\* "overlap": while another call is under way.
Configure(c, port) ==
  /\ call[c].at = "idle"
  /\ "overlap" \in Windows \/ InFlight = {}
  /\ LET to == IF record.port = port /\ record.of # 0 THEN "done" ELSE "bind" IN
     call' = [call EXCEPT ![c] = [at |-> to, port |-> port, old |-> 0]]
  /\ UNCHANGED <<record, stopping, listening, watching, everFed>>

\* The new socket is bound before the running listener is torn down.
Bind(c) ==
  /\ call[c].at = "bind"
  /\ Goes(c, IF call[c].port \in Taken \cup Bound THEN "refused" ELSE "replace")
  /\ UNCHANGED <<record, stopping, listening, watching, everFed>>

\* The handles of the running listener are taken and its task told to stop.
Replace(c) ==
  /\ call[c].at = "replace"
  /\ call' = [call EXCEPT ![c].at = "await", ![c].old = record.of]
  /\ stopping' = stopping \cup ({record.of} \ {0})
  /\ record' = NoListener
  /\ UNCHANGED <<listening, watching, everFed>>

\* run_osc_listener: the stop channel was used, or dropped with its handle.
Stops(c) ==
  /\ c \in DOMAIN listening /\ c \in stopping
  /\ listening' = [d \in DOMAIN listening \ {c} |-> listening[d]]
  /\ stopping' = stopping \ {c}
  /\ UNCHANGED <<call, record, watching, everFed>>

Await_KeepsWatchdog(c) ==
  /\ call[c].at = "await" /\ call[c].old \notin DOMAIN listening
  /\ Goes(c, "start")
  /\ UNCHANGED <<record, stopping, listening, watching, everFed>>

\* The old task has ended; its watchdog is aborted.
Await(c) ==
  /\ call[c].at = "await" /\ call[c].old \notin DOMAIN listening
  /\ watching' = watching \ {call[c].old}
  /\ Goes(c, "start")
  /\ UNCHANGED <<record, stopping, listening, everFed>>

\* The new task and watchdog are spawned and recorded. A handle that is
\* overwritten is dropped: its listener stops, its watchdog goes on.
Start(c) ==
  /\ call[c].at = "start"
  /\ listening' = [d \in DOMAIN listening \cup {c} |->
                     IF d = c THEN call[c].port ELSE listening[d]]
  /\ watching' = watching \cup {c}
  /\ stopping' = stopping \cup ({record.of} \ {0})
  /\ record' = [port |-> call[c].port, of |-> c]
  /\ everFed' = TRUE
  /\ Goes(c, "done")

Next ==
  \/ \E c \in Calls, port \in Ports : Configure(c, port)
  \/ \E c \in Calls : Bind(c) \/ Replace(c) \/ Stops(c) \/ Await(c) \/ Start(c)

Spec == Init /\ [][Next]_oscVars

(* When no call is under way the engine's feed has exactly one receiver, on    *)
(* the recorded port, and one watchdog: changing the port, or a port another   *)
(* program holds, never leaves the on-air clip without its OSC or with two     *)
(* watchdogs inferring its end (audit T2-15).                                  *)
OneFeed ==
  InFlight = {} /\ everFed =>
    /\ DOMAIN listening \ stopping = {record.of} /\ listening[record.of] = record.port
    /\ watching = {record.of}
=============================================================================
