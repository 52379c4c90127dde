----------------------------- MODULE ForkEvents -----------------------------
(***************************************************************************)
(* The event cursor of the fork engine (src-tauri/src/caspar_fork.rs,      *)
(* ForkOscState and after_osc_packet).  The engine numbers its events and  *)
(* repeats in every OSC bundle its counter and the newest event of each    *)
(* kind; PlayOut hands the events out in order and fetches over AMCP those *)
(* that were overwritten.  A restarted engine counts from 1 again.         *)
(*                                                                         *)
(* The OSC listener and every gap fetch are tasks of their own: each takes *)
(* the lock for one change of the cursor and emits after releasing it.     *)
(* The engine and the datagrams are external: OSC comes over loopback, so  *)
(* datagrams keep their order, and a lost one is one never sent.           *)
(***************************************************************************)
EXTENDS Naturals, Sequences, FiniteSets, SequencesExt, FiniteSetsExt

CONSTANTS
  Kinds,      \* event kinds, each latched on its own
  LogSize,    \* events the engine remembers (128 in the engine)
  MaxSeq,     \* bound on the events of one engine instance
  MaxInst,    \* bound on engine instances
  MaxTasks,   \* bound on gap fetches not yet done emitting
  Windows     \* the race windows below that a run leaves open

\* What may happen when a window is open
\*   "overtaking": an AMCP answer is used before an older datagram, or after a newer one
\*   "gap":        the engine restarts while events are missing
AllWindows == {"overtaking", "gap"}

ASSUME BoundAssumption ==
  /\ LogSize \in Nat \ {0} /\ MaxSeq \in Nat /\ MaxInst \in Nat \ {0}
  /\ MaxTasks \in Nat \ {0} /\ Windows \subseteq AllWindows

VARIABLES
  eng,      \* the engine: instance, event counter, newest event of each kind
  net,      \* the datagram not yet read, if any
  cursor,   \* ForkOscState; from and base: history, the instance it knows of and the
            \* event it started after
  osc,      \* the OSC listener: where it stands and what it has left to emit
  fetches,  \* gap fetches
  probe,    \* the QUEUE INFO answer of a handshake, if one is under way
  handed,   \* history: events in the order the cursor let them go
  shown     \* history: the event the frontend got last

vars == <<eng, net, cursor, osc, fetches, probe, handed, shown>>

Instances == 1..MaxInst
Event == [inst : Instances, seq : 1..MaxSeq]
Nothing == [inst |-> 0, seq |-> 0]
Reset == Nothing   \* in a list to emit: emit_instance, the engine restarted

Init ==
  /\ eng = [inst |-> 1, seq |-> 0, newest |-> [k \in Kinds |-> 0]]
  /\ net = <<>>
  /\ cursor = [fork |-> FALSE, inst |-> 0, last |-> 0, announced |-> 0, pending |-> {},
               fetching |-> FALSE, rested |-> TRUE, from |-> 0, base |-> 0]
  /\ osc = [pc |-> "idle", out |-> <<>>]
  /\ fetches = {}
  /\ probe = Nothing
  /\ handed = <<>>
  /\ shown = Nothing

Oldest == IF eng.seq > LogSize THEN eng.seq - LogSize + 1 ELSE 1
Seqs(S) == {e.seq : e \in S}
Events(inst, S) == {[inst |-> inst, seq |-> s] : s \in S}
\* The events of a set by their numbers: the i-th has i numbers up to its own.
Rank(E, e) == Cardinality({d \in E : d.seq <= e.seq})
InOrder(E) == [i \in 1..Cardinality(E) |-> CHOOSE e \in E : Rank(E, e) = i]
After(E, n) == {e \in E : e.seq > n}

-----------------------------------------------------------------------------
(* ForkOscState: each operator is one call under the lock *)

SetFork_Reseeded(c, info) ==
  [c EXCEPT !.fork = TRUE, !.inst = info.inst, !.from = info.inst, !.last = info.seq,
            !.base = IF c.inst = info.inst THEN @ ELSE info.seq, !.pending = {},
            !.announced = Max({@, info.seq})]
SetFork(c, info) ==
  LET same == c.inst = info.inst
  IN [c EXCEPT !.fork = TRUE, !.inst = info.inst, !.from = info.inst,
               !.last = IF same THEN @ ELSE info.seq,
               !.base = IF same THEN @ ELSE info.seq,
               !.pending = IF same THEN @ ELSE {},
               !.announced = Max({@, info.seq})]

Observe(c, d) ==
  [c EXCEPT !.announced = d.seq,
            !.pending = {e \in @ : e.seq \notin Seqs(d.events)} \cup d.events]

WentBack_OrStood(c) == c.announced > 0 /\ c.announced <= c.last
WentBack(c) == c.announced > 0 /\ c.announced < c.last

\* The pending events that follow the cursor without a hole, after a reset
\* from 1 on and up to the counter.
Drainable(c) ==
  LET last == IF WentBack(c) THEN 0 ELSE c.last
      usable == {e \in c.pending : WentBack(c) => e.seq <= c.announced}
  IN {e \in After(usable, last) : \A s \in (last + 1)..e.seq : s \in Seqs(usable)}

Drain(c) ==
  LET last == Max(Seqs(Drainable(c)) \cup {IF WentBack(c) THEN 0 ELSE c.last})
      kept == {e \in After(c.pending, last) : WentBack(c) => e.seq <= c.announced}
  IN [c EXCEPT !.last = last, !.pending = kept]

Missing(c) == Max(Seqs(c.pending) \cup {c.announced}) > c.last

Applied_CursorKept(c, reply) ==
  [c EXCEPT !.fetching = FALSE, !.inst = reply.inst, !.from = reply.inst]
Applied(c, reply) ==
  LET base == IF c.inst # reply.inst THEN 0 ELSE c.last
      last == Max({base, reply.seq} \cup Seqs(reply.events))
  IN [c EXCEPT !.fetching = FALSE, !.inst = reply.inst, !.from = reply.inst,
               !.base = IF c.inst # reply.inst THEN reply.since ELSE @,
               !.last = last, !.pending = After(@, last)]

\* What a reply adds: its events after the cursor, all of them after a restart.
Fresh(c, reply) ==
  InOrder(IF c.inst # reply.inst THEN reply.events ELSE After(reply.events, c.last))

Alarm(restarted) == IF restarted THEN <<Reset>> ELSE <<>>

\* An answer n is used after every datagram sent before it ...
NothingOlder(n) ==
  \/ "overtaking" \in Windows
  \/ /\ osc.pc # "drain"
     /\ \A i \in DOMAIN net : net[i].inst = n.inst => net[i].seq >= n.seq

\* ... and a datagram d after every answer sent before it.
NothingWaits(d) ==
  \/ "overtaking" \in Windows
  \/ \A n \in {probe} \cup {f \in fetches : f.pc = "answered"} : d.inst = n.inst => d.seq <= n.seq

-----------------------------------------------------------------------------
(* The engine (external) *)

EngineEvent ==
  /\ eng.seq < MaxSeq
  /\ \E k \in Kinds :
       eng' = [eng EXCEPT !.seq = @ + 1, !.newest[k] = eng.seq + 1]
  /\ UNCHANGED <<net, cursor, osc, fetches, probe, handed, shown>>

SendOsc ==
  /\ net = <<>>
  /\ net' = <<[inst |-> eng.inst, seq |-> eng.seq,
               events |-> Events(eng.inst, {eng.newest[k] : k \in Kinds} \ {0})]>>
  /\ UNCHANGED <<eng, cursor, osc, fetches, probe, handed, shown>>

\* A restart takes seconds: by then everything the old engine sent was used.
Restart ==
  /\ eng.inst < MaxInst
  /\ net = <<>> /\ osc.pc = "idle" /\ probe = Nothing
  /\ \A f \in fetches : f.pc = "asked"
  /\ "gap" \in Windows \/ (cursor.pending = {} /\ fetches = {})
  /\ eng' = [inst |-> eng.inst + 1, seq |-> 0, newest |-> [k \in Kinds |-> 0]]
  /\ UNCHANGED <<net, cursor, osc, fetches, probe, handed, shown>>

-----------------------------------------------------------------------------
(* The OSC listener *)

ReadOsc ==
  /\ osc.pc = "idle" /\ net # <<>> /\ NothingWaits(Head(net))
  /\ net' = <<>>
  /\ cursor' = IF cursor.fork THEN Observe(cursor, Head(net)) ELSE cursor
  /\ osc' = [osc EXCEPT !.pc = IF cursor.fork THEN "drain" ELSE "idle"]
  /\ UNCHANGED <<eng, fetches, probe, handed, shown>>

\* after_osc_packet: hand out what follows, and fetch when something is missing.
DrainOsc ==
  /\ osc.pc = "drain"
  /\ Cardinality(fetches) < MaxTasks
  /\ LET c == Drain(cursor)
         out == InOrder(Drainable(cursor))
         ask == Missing(c) /\ ~c.fetching /\ c.rested
     IN /\ cursor' = [c EXCEPT !.fetching = @ \/ ask, !.rested = @ /\ ~ask,
                                !.from = IF WentBack(cursor) THEN eng.inst ELSE @,
                                !.base = IF WentBack(cursor) THEN 0 ELSE @]
        /\ osc' = [pc |-> "emit", out |-> Alarm(WentBack(cursor)) \o out]
        /\ handed' = handed \o out
        /\ fetches' = IF ask THEN fetches \cup {[pc |-> "asked", since |-> c.last, inst |-> 0,
                                                 seq |-> 0, events |-> {}, out |-> <<>>]}
                      ELSE fetches
  /\ UNCHANGED <<eng, net, probe, shown>>

\* The next thing on its list reaches the frontend.
EmitOsc ==
  /\ osc.pc = "emit"
  /\ IF osc.out = <<>> THEN osc' = [osc EXCEPT !.pc = "idle"] /\ UNCHANGED shown
     ELSE /\ osc' = [osc EXCEPT !.out = Tail(@)]
          /\ shown' = IF Head(osc.out) = Reset THEN shown ELSE Head(osc.out)
  /\ UNCHANGED <<eng, net, cursor, fetches, probe, handed>>

GapIntervalPasses ==
  /\ ~cursor.rested
  /\ cursor' = [cursor EXCEPT !.rested = TRUE]
  /\ UNCHANGED <<eng, net, osc, fetches, probe, handed, shown>>

-----------------------------------------------------------------------------
(* A gap fetch: EVENTS <since> *)

Becomes(f, g) == fetches' = (fetches \ {f}) \cup g

\* AMCP reaches whatever engine is there now.
Answered(f) ==
  /\ f.pc = "asked"
  /\ Becomes(f, {[f EXCEPT !.pc = "answered", !.inst = eng.inst, !.seq = eng.seq,
                           !.events = Events(eng.inst, Max({Oldest, f.since + 1})..eng.seq)]})
  /\ UNCHANGED <<eng, net, cursor, osc, probe, handed, shown>>

FetchFails_Silently(f) ==
  /\ f.pc = "asked"
  /\ Becomes(f, {})
  /\ UNCHANGED <<eng, net, cursor, osc, probe, handed, shown>>
FetchFails(f) ==
  /\ f.pc = "asked"
  /\ Becomes(f, {})
  /\ cursor' = [cursor EXCEPT !.fetching = FALSE]
  /\ UNCHANGED <<eng, net, osc, probe, handed, shown>>

ApplyFetched(f) ==
  /\ f.pc = "answered" /\ NothingOlder(f)
  /\ LET out == Fresh(cursor, f)
     IN /\ cursor' = Applied(cursor, f)
        /\ handed' = handed \o out
        /\ Becomes(f, {[f EXCEPT !.pc = "emit", !.events = {},
                                 !.out = Alarm(cursor.inst # f.inst) \o out]})
  /\ UNCHANGED <<eng, net, osc, probe, shown>>

EmitFetched(f) ==
  /\ f.pc = "emit"
  /\ IF f.out = <<>> THEN Becomes(f, {}) /\ UNCHANGED shown
     ELSE /\ Becomes(f, {[f EXCEPT !.out = Tail(@)]})
          /\ shown' = IF Head(f.out) = Reset THEN shown ELSE Head(f.out)
  /\ UNCHANGED <<eng, net, cursor, osc, probe, handed>>

-----------------------------------------------------------------------------
(* caspar_engine_detect, on every handshake *)

Probe ==
  /\ probe = Nothing
  /\ probe' = [inst |-> eng.inst, seq |-> eng.seq]
  /\ UNCHANGED <<eng, net, cursor, osc, fetches, handed, shown>>

Detect ==
  /\ probe # Nothing /\ NothingOlder(probe)
  /\ cursor' = SetFork(cursor, probe)
  /\ probe' = Nothing
  /\ UNCHANGED <<eng, net, osc, fetches, handed, shown>>

-----------------------------------------------------------------------------

Next ==
  \/ EngineEvent \/ SendOsc \/ Restart
  \/ ReadOsc \/ DrainOsc \/ EmitOsc \/ GapIntervalPasses
  \/ \E f \in fetches : Answered(f) \/ FetchFails(f) \/ ApplyFetched(f) \/ EmitFetched(f)
  \/ Probe \/ Detect

Spec == Init /\ [][Next]_vars

\* The engine sends OSC every tick and answers some fetch while it runs; the
\* listener, the fetches and the timer run; a lost engine is probed again.
Fairness ==
  /\ WF_vars(SendOsc) /\ WF_vars(ReadOsc) /\ WF_vars(DrainOsc) /\ WF_vars(EmitOsc)
  /\ WF_vars(GapIntervalPasses)
  /\ SF_vars(\E f \in fetches : Answered(f))
  /\ SF_vars(\E f \in fetches : ApplyFetched(f))
  /\ WF_vars(\E f \in fetches : EmitFetched(f))
  /\ WF_vars(Probe /\ cursor.inst # eng.inst) /\ SF_vars(Detect)
FairSpec == Spec /\ Fairness

-----------------------------------------------------------------------------
(* Properties *)

TypeOK ==
  /\ eng \in [inst : Instances, seq : 0..MaxSeq, newest : [Kinds -> 0..MaxSeq]]
  /\ Len(net) <= 1
  /\ cursor \in [fork : BOOLEAN, inst : 0..MaxInst, last : 0..MaxSeq, announced : 0..MaxSeq,
                 pending : SUBSET Event, fetching : BOOLEAN, rested : BOOLEAN, from : 0..MaxInst, base : 0..MaxSeq]
  /\ osc.pc \in {"idle", "drain", "emit"}
  /\ \A f \in fetches : f.pc \in {"asked", "answered", "emit"} /\ f.since \in 0..MaxSeq
  /\ handed \in Seq(Event)

Precedes(d, e) == d.inst < e.inst \/ (d.inst = e.inst /\ d.seq < e.seq)

\* The cursor lets every event go once and in order, whatever arrives over OSC
\* while a fetch is out.
HandedOnceInOrder ==
  \A i \in 1..(Len(handed) - 1) : Precedes(handed[i], handed[i + 1])

\* "Seqs that fell out of the log are skipped", and no others: what the cursor
\* passed was handed out, unless the engine itself has forgotten it.
OnlyForgottenSkipped ==
  cursor.from = eng.inst =>
    \A s \in (cursor.base + 1)..cursor.last :
      s < Oldest \/ [inst |-> eng.inst, seq |-> s] \in Range(handed)

\* "The seq counter went back: the engine restarted": a reset is reported by
\* the listener only on the first news of a new instance.
ResetIsARestart ==
  [][(Reset \in Range(osc'.out) \ Range(osc.out)) => cursor.from < eng.inst]_vars

\* When the engine falls silent the cursor arrives at its last event.
CatchesUp == <>[](cursor.inst = eng.inst => cursor.last = eng.seq)
=============================================================================
