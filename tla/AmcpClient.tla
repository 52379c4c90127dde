----------------------------- MODULE AmcpClient -----------------------------
(***************************************************************************)
(* The AMCP client of amcp.rs: callers of send() enqueue one command each  *)
(* on a bounded channel, a worker owns the socket, writes one command at a *)
(* time and frames its reply out of the lines the engine sends.            *)
(* AMCP has no request numbers, so a reply belongs to a command only by    *)
(* the order of lines on the connection.                                   *)
(***************************************************************************)
EXTENDS Naturals, Sequences, SequencesExt

CONSTANTS
    Calls,          \* invocations of send(), one command each
    Kind,           \* how the engine answers each command's line
    Mutating,       \* the calls whose command is not a read-only query
    Capacity,       \* slots of the channel, 64 in the code
    MaxWorkers,     \* bound: workers ever spawned
    MaxConns,       \* bound: connections ever opened
    MaxFaults,      \* bound: engine restarts and worker panics
    Disturbances    \* those that may happen, of "late", "slow", "panic"

(* ack: status line alone; one: one more line; echo: 400 and the echoed    *)
(* command; bare: 400 alone; block: data up to a blank line.               *)
Kinds == {"ack", "one", "echo", "bare", "block"}
ASSUME CallsAssumption ==
    /\ "none" \notin Calls /\ Kind \in [Calls -> Kinds] /\ Mutating \subseteq Calls
    /\ Capacity \in Nat \ {0} /\ MaxWorkers \in Nat \ {0}
    /\ MaxConns \in Nat \ {0} /\ MaxFaults \in Nat
    /\ Disturbances \subseteq {"late", "slow", "panic"}

VARIABLES
    call,       \* progress of each send(): new, offer, queued, dropped, done
    attempts,   \* its attempts counter
    via,        \* the worker whose sender it cloned
    answer,     \* what the caller was given
    monitor,    \* read_only: decided once, when the instance starts
    sender,     \* AmcpClient.worker: the worker the live sender belongs to
    alive,      \* workers whose receiver exists
    queue,      \* requests in each worker's channel
    at,         \* where each worker stands: recv, connect, write, read
    req,        \* its request in hand
    conn,       \* its connection, 0 for stream = None
    buf,        \* lines it has read for the reply in hand
    inbox,      \* commands the engine has received on each connection
    wire,       \* lines on their way back on each connection
    broken,     \* connections the engine no longer serves
    opened,     \* connections opened so far
    executed,   \* what the engine executed, in order
    accepted,   \* history: commands in the order the channel took them
    disturbed,  \* history: the disturbances that have happened
    faults
callVars == <<call, attempts, via, answer>>
workVars == <<at, req, conn, buf>>
engineVars == <<inbox, wire, broken, opened, executed>>
history == <<accepted, disturbed, faults>>
vars == <<callVars, monitor, sender, alive, queue, workVars, engineVars, history>>

Workers == 1..MaxWorkers
Conns == 1..MaxConns
Line(c, part) == [of |-> c, part |-> part]
None == Line("none", "none")        \* no answer yet
Unsent == Line("none", "unsent")    \* an error before anything was written
Lost == Line("none", "lost")        \* an error after the write began
Lines == [of : Calls, part : {"status", "data", "end"}]
Answers == Lines \cup {None, Unsent, Lost}
NoCall == "none"

(* The lines the engine sends for one command. *)
Reply(c) ==
    CASE Kind[c] \in {"ack", "bare"} -> <<Line(c, "status")>>
      [] Kind[c] \in {"one", "echo"} -> <<Line(c, "status"), Line(c, "data")>>
      [] Kind[c] = "block" -> <<Line(c, "status"), Line(c, "data"), Line(c, "end")>>

Init ==
    /\ call = [c \in Calls |-> "new"] /\ attempts = [c \in Calls |-> 0]
    /\ via = [c \in Calls |-> 1] /\ answer = [c \in Calls |-> None]
    /\ monitor \in BOOLEAN /\ sender = 1 /\ alive = {1}
    /\ queue = [w \in Workers |-> <<>>]
    /\ at = [w \in Workers |-> "recv"] /\ req = [w \in Workers |-> NoCall]
    /\ conn = [w \in Workers |-> 0] /\ buf = [w \in Workers |-> <<>>]
    /\ inbox = [k \in Conns |-> <<>>] /\ wire = [k \in Conns |-> <<>>]
    /\ broken = {} /\ opened = 0 /\ executed = <<>>
    /\ accepted = <<>> /\ disturbed = {} /\ faults = 0

-----------------------------------------------------------------------------
(* send() *)

Answer(c, line) == /\ call' = [call EXCEPT ![c] = "done"]
                   /\ answer' = [answer EXCEPT ![c] = line]

(* validate_amcp_command, and the monitor mode's refusal of a mutation. *)
Refused(c) == monitor /\ c \in Mutating
Refuse(c) ==
    /\ call[c] = "new" /\ Refused(c)
    /\ Answer(c, Unsent)
    /\ UNCHANGED <<attempts, via, sender, alive, queue, workVars, engineVars, history>>

(* The sender is cloned under the mutex; the channel send comes after it. *)
Offer(c) ==
    /\ call[c] = "new" /\ ~Refused(c)
    /\ call' = [call EXCEPT ![c] = "offer"] /\ via' = [via EXCEPT ![c] = sender]
    /\ attempts' = [attempts EXCEPT ![c] = @ + 1]
    /\ UNCHANGED <<answer, sender, alive, queue, workVars, engineVars, history>>

(* tx.send waits for a free slot. *)
Enqueue(c) ==
    /\ call[c] = "offer" /\ via[c] \in alive /\ Len(queue[via[c]]) < Capacity
    /\ queue' = [queue EXCEPT ![via[c]] = Append(@, c)]
    /\ call' = [call EXCEPT ![c] = "queued"] /\ accepted' = Append(accepted, c)
    /\ UNCHANGED <<attempts, via, answer, sender, alive, workVars, engineVars, disturbed, faults>>

(* respawn_worker: a fresh worker takes over the shared sender. *)
Respawn == \E w \in Workers :
    /\ w = sender + 1
    /\ sender' = w /\ alive' = alive \cup {w}

(* The channel is closed: one respawn, then give up. *)
Closed(c) ==
    /\ call[c] = "offer" /\ via[c] \notin alive
    /\ IF attempts[c] >= 2
       THEN /\ Answer(c, Unsent)
            /\ UNCHANGED <<attempts, via, sender, alive>>
       ELSE /\ Respawn
            /\ via' = [via EXCEPT ![c] = sender'] /\ attempts' = [attempts EXCEPT ![c] = @ + 1]
            /\ UNCHANGED <<call, answer>>
    /\ UNCHANGED <<queue, workVars, engineVars, history>>

Dropped_Retries(c) ==
    /\ call[c] = "dropped"
    /\ Respawn
    /\ call' = [call EXCEPT ![c] = "offer"] /\ via' = [via EXCEPT ![c] = sender']
    /\ UNCHANGED <<attempts, answer, queue, workVars, engineVars, history>>
Dropped_Waits(c) == call[c] = "dropped" /\ FALSE /\ UNCHANGED vars
(* The worker died with the request: the oneshot is dropped. *)
Dropped(c) ==
    /\ call[c] = "dropped"
    /\ Respawn
    /\ Answer(c, Lost)
    /\ UNCHANGED <<attempts, via, queue, workVars, engineVars, history>>

-----------------------------------------------------------------------------
(* amcp_worker *)

Recv(w) ==
    /\ w \in alive /\ at[w] = "recv" /\ queue[w] # <<>>
    /\ req' = [req EXCEPT ![w] = Head(queue[w])]
    /\ queue' = [queue EXCEPT ![w] = Tail(@)]
    /\ at' = [at EXCEPT ![w] = IF conn[w] = 0 THEN "connect" ELSE "write"]
    /\ UNCHANGED <<callVars, sender, alive, conn, buf, engineVars, history>>

(* The request in hand is answered and the worker goes back to the channel. *)
Finish(w, line) ==
    /\ Answer(req[w], line)
    /\ at' = [at EXCEPT ![w] = "recv"] /\ req' = [req EXCEPT ![w] = NoCall]
    /\ buf' = [buf EXCEPT ![w] = <<>>]
    /\ UNCHANGED <<attempts, via, sender, alive, queue>>

Connect(w) ==
    /\ w \in alive /\ at[w] = "connect" /\ opened < MaxConns
    /\ opened' = opened + 1 /\ conn' = [conn EXCEPT ![w] = opened']
    /\ at' = [at EXCEPT ![w] = "write"]
    /\ UNCHANGED <<callVars, sender, alive, queue, req, buf, inbox, wire, broken, executed, history>>

ConnectFails(w) ==
    /\ w \in alive /\ at[w] = "connect"
    /\ Finish(w, Unsent)
    /\ UNCHANGED <<conn, engineVars, history>>

Write(w) ==
    /\ w \in alive /\ at[w] = "write" /\ conn[w] \notin broken
    /\ inbox' = [inbox EXCEPT ![conn[w]] = Append(@, req[w])]
    /\ at' = [at EXCEPT ![w] = "read"]
    /\ UNCHANGED <<callVars, sender, alive, queue, req, conn, buf, wire, broken, opened, executed, history>>

(* What goes wrong without a fault of the connection, and is remembered. *)
Disturb(d) == d \in Disturbances /\ disturbed' = disturbed \cup {d}

(* An error or COMMAND_TIMEOUT while writing, or one while reading: the    *)
(* connection is given up together with what is on it.                     *)
GiveUp(w) ==
    /\ Finish(w, Lost)
    /\ conn' = [conn EXCEPT ![w] = 0]
    /\ wire' = [wire EXCEPT ![conn[w]] = <<>>]
    /\ UNCHANGED <<inbox, broken, opened, executed, accepted, faults>>
WriteFails(w) == /\ w \in alive /\ at[w] = "write" /\ conn[w] \in broken
                 /\ GiveUp(w) /\ UNCHANGED disturbed

Framed_EchoLeft(b) ==
    /\ b # <<>>
    /\ \/ b[1].part # "status" \/ Kind[b[1].of] \in {"ack", "echo", "bare"}
       \/ Kind[b[1].of] = "one" /\ Len(b) > 1
       \/ Kind[b[1].of] = "block" /\ \E i \in DOMAIN b : b[i].part = "end"
(* read_framed_reply: the first line decides how many more belong to it. A *)
(* line that is no status line parses to code 0 and is taken alone.        *)
Framed(b) ==
    /\ b # <<>>
    /\ \/ b[1].part # "status" \/ Kind[b[1].of] = "ack"
       \/ Kind[b[1].of] \in {"one", "echo", "bare"} /\ Len(b) > 1
       \/ Kind[b[1].of] = "block" /\ \E i \in DOMAIN b : b[i].part = "end"

(* One chunk holds any number of the lines that have arrived. What is read *)
(* beyond the frame is thrown away with the buffer.                        *)
Read(w) ==
    /\ w \in alive /\ at[w] = "read"
    /\ \E n \in 1..Len(wire[conn[w]]) :
         LET b == buf[w] \o SubSeq(wire[conn[w]], 1, n) IN
         /\ wire' = [wire EXCEPT ![conn[w]] = SubSeq(@, n + 1, Len(@))]
         /\ IF Framed(b) THEN Finish(w, b[1])
            ELSE /\ buf' = [buf EXCEPT ![w] = b]
                 /\ UNCHANGED <<callVars, sender, alive, queue, at, req>>
    /\ UNCHANGED <<conn, inbox, broken, opened, executed, history>>

(* READ_GAP_TIMEOUT or the end of the stream in the body: what has arrived *)
(* is accepted as complete and the connection is kept.                     *)
Gap(w) ==
    /\ w \in alive /\ at[w] = "read" /\ buf[w] # <<>>
    /\ IF wire[conn[w]] = <<>> THEN UNCHANGED disturbed ELSE Disturb("late")
    /\ Finish(w, buf[w][1])
    /\ UNCHANGED <<conn, engineVars, accepted, faults>>

(* The status line does not come: end of the stream or STATUS_LINE_TIMEOUT. *)
NoStatus(w) ==
    /\ w \in alive /\ at[w] = "read" /\ buf[w] = <<>> /\ wire[conn[w]] = <<>>
    /\ IF conn[w] \in broken THEN UNCHANGED disturbed ELSE Disturb("slow")
    /\ GiveUp(w)

(* A worker whose last sender is gone leaves its loop. *)
Retire(w) ==
    /\ w \in alive /\ w # sender /\ at[w] = "recv" /\ queue[w] = <<>>
    /\ \A c \in Calls : ~(call[c] = "offer" /\ via[c] = w)
    /\ alive' = alive \ {w}
    /\ UNCHANGED <<callVars, sender, queue, workVars, engineVars, history>>

(* External: a worker task is lost, and with it every reply it owes. *)
Panic(w) ==
    /\ Disturb("panic") /\ faults < MaxFaults /\ w \in alive
    /\ faults' = faults + 1 /\ alive' = alive \ {w}
    /\ call' = [c \in Calls |-> IF c = req[w] \/ Contains(queue[w], c) THEN "dropped" ELSE call[c]]
    /\ queue' = [queue EXCEPT ![w] = <<>>] /\ req' = [req EXCEPT ![w] = NoCall]
    /\ at' = [at EXCEPT ![w] = "recv"] /\ buf' = [buf EXCEPT ![w] = <<>>]
    /\ conn' = [conn EXCEPT ![w] = 0]
    /\ UNCHANGED <<attempts, via, answer, sender, engineVars, accepted>>

-----------------------------------------------------------------------------
(* The engine (external): commands of one connection in order, and a       *)
(* command already received is executed even when its client has gone.     *)

Execute(k) ==
    /\ inbox[k] # <<>>
    /\ executed' = Append(executed, Head(inbox[k]))
    /\ inbox' = [inbox EXCEPT ![k] = Tail(@)]
    /\ wire' = IF \E w \in Workers : conn[w] = k
               THEN [wire EXCEPT ![k] = @ \o Reply(Head(inbox[k]))] ELSE wire
    /\ UNCHANGED <<callVars, sender, alive, queue, workVars, broken, opened, history>>

EngineRestarts ==
    /\ faults < MaxFaults /\ faults' = faults + 1
    /\ broken' = 1..opened
    /\ inbox' = [k \in Conns |-> <<>>] /\ wire' = [k \in Conns |-> <<>>]
    /\ UNCHANGED <<callVars, sender, alive, queue, workVars, opened, executed, accepted, disturbed>>

AllDone == /\ \A c \in Calls : call[c] = "done"
           /\ \A k \in Conns : inbox[k] = <<>>
           /\ UNCHANGED vars

Client(c) == /\ UNCHANGED monitor
             /\ Refuse(c) \/ Offer(c) \/ Enqueue(c) \/ Closed(c) \/ Dropped(c)
Working(w) == /\ UNCHANGED monitor
              /\ \/ Recv(w) \/ Connect(w) \/ ConnectFails(w) \/ Write(w) \/ WriteFails(w)
                 \/ Read(w) \/ Gap(w) \/ NoStatus(w)
Engine(k) == Execute(k) /\ UNCHANGED monitor
Next ==
    \/ \E c \in Calls : Client(c)
    \/ \E w \in Workers : Working(w) \/ (UNCHANGED monitor /\ (Retire(w) \/ Panic(w)))
    \/ \E k \in Conns : Engine(k)
    \/ EngineRestarts /\ UNCHANGED monitor
    \/ AllDone
Spec == Init /\ [][Next]_vars
(* The runtime polls every task, timeouts fire, and a command the engine   *)
(* has received is executed.                                               *)
FairSpec == /\ Spec
            /\ \A c \in Calls : WF_vars(Client(c))
            /\ \A w \in Workers : WF_vars(Working(w))
            /\ \A k \in Conns : WF_vars(Engine(k))

-----------------------------------------------------------------------------
TypeOK ==
    /\ call \in [Calls -> {"new", "offer", "queued", "dropped", "done"}]
    /\ attempts \in [Calls -> 0..2] /\ via \in [Calls -> Workers] /\ answer \in [Calls -> Answers]
    /\ monitor \in BOOLEAN /\ sender \in Workers /\ alive \subseteq Workers
    /\ \A w \in Workers : queue[w] \in Seq(Calls) /\ Len(queue[w]) <= Capacity
    /\ at \in [Workers -> {"recv", "connect", "write", "read"}]
    /\ req \in [Workers -> Calls \cup {NoCall}] /\ conn \in [Workers -> 0..MaxConns]
    /\ \A w \in Workers : buf[w] \in Seq(Lines)
    /\ \A k \in Conns : inbox[k] \in Seq(Calls) /\ wire[k] \in Seq(Lines)
    /\ broken \subseteq Conns /\ opened \in 0..MaxConns
    /\ executed \in Seq(Calls) /\ faults \in 0..MaxFaults

(* An answered send() holds the engine's answer to its own command, never  *)
(* a line of another command's reply (amcp_worker "matches them to the     *)
(* single in-flight request"), as long as no body came after the read gap. *)
ReplyIsOwn ==
    "late" \notin disturbed =>
        \A c \in Calls : answer[c] \in Lines => answer[c] = Line(c, "status")

(* send() retries only what never reached a socket: whatever fails, no     *)
(* command is executed twice, and one reported as not sent never is.  They *)
(* are executed in the order the channel took them, across reconnects and  *)
(* engine restarts, as long as every status line came in time and no       *)
(* worker died.                                                            *)
AtMostOnce ==
    /\ \A i, j \in DOMAIN executed : executed[i] = executed[j] => i = j
    /\ \A c \in Calls : answer[c] = Unsent => ~Contains(executed, c)
ExecutedInOrder ==
    disturbed \cap {"slow", "panic"} = {} =>
        \A i, j \in DOMAIN executed : i < j =>
            \E k, l \in DOMAIN accepted :
                k < l /\ accepted[k] = executed[i] /\ accepted[l] = executed[j]
ExecutedOnceInOrder == AtMostOnce /\ ExecutedInOrder

(* Every call is answered, whatever the engine and the workers do. *)
EveryCallAnswered == \A c \in Calls : <>(call[c] = "done")
=============================================================================
