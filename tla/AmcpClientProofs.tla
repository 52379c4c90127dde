-------------------------- MODULE AmcpClientProofs --------------------------
(***************************************************************************)
(* AtMostOnce, ExecutedOnceInOrder and ReplyIsOwn for any number of calls, *)
(* workers, connections, restarts and faults.                              *)
(***************************************************************************)
EXTENDS AmcpClient, SequenceTheorems, TLAPS

\* What the engine has got, executed or not.
Waiting(k) == Range(inbox[k])
Sent == Range(executed) \cup UNION {Waiting(k) : k \in Conns}

PlaceType ==
  /\ call \in [Calls -> {"new", "offer", "queued", "dropped", "done"}] /\ via \in [Calls -> Workers]
  /\ DOMAIN answer = Calls /\ sender \in Workers /\ alive \subseteq Workers
  /\ queue \in [Workers -> Seq(Calls)] /\ req \in [Workers -> Calls \cup {NoCall}]
  /\ at \in [Workers -> {"recv", "connect", "write", "read"}]
  /\ conn \in [Workers -> 0..MaxConns] /\ opened \in 0..MaxConns
  /\ \A w \in Workers : at[w] = "recv" <=> req[w] = NoCall
  /\ \A w \in Workers : at[w] \in {"write", "read"} => conn[w] # 0
  /\ inbox \in [Conns -> Seq(Calls)] /\ executed \in Seq(Calls)
LineType == wire \in [Conns -> Seq(Lines)] /\ buf \in [Workers -> Seq(Lines)]

\* A command is at one place at a time: with its caller, in one channel, in
\* the hand of one worker, or once at the engine.
OnceAtTheEngine ==
  /\ IsInjective(executed)
  /\ \A k \in Conns : IsInjective(inbox[k]) /\ Waiting(k) \cap Range(executed) = {}
  /\ \A j, k \in Conns : j # k => Waiting(j) \cap Waiting(k) = {}
OnceQueued ==
  /\ \A w \in Workers : IsInjective(queue[w])
  /\ \A v, w \in Workers : v # w => Range(queue[v]) \cap Range(queue[w]) = {}
  /\ \A w \in Workers : \A c \in Range(queue[w]) : call[c] = "queued" /\ c \notin Sent
InOneHand ==
  /\ \A w \in Workers : req[w] # NoCall =>
       /\ call[req[w]] = "queued"
       /\ \A v \in Workers : req[w] \notin Range(queue[v]) /\ (v # w => req[v] # req[w])
       /\ at[w] # "read" => req[w] \notin Sent
NotYetSent == \A c \in Calls : call[c] \in {"new", "offer"} => c \notin Sent
ReportedUnsent == \A c \in Calls : answer[c] = Unsent => call[c] = "done" /\ c \notin Sent

Places == OnceAtTheEngine /\ OnceQueued /\ InOneHand /\ NotYetSent /\ ReportedUnsent
PlaceInv == PlaceType /\ LineType /\ Places

-----------------------------------------------------------------------------
\* A sequence without repetitions keeps having none.
LEMMA AppendOnce ==
  ASSUME NEW S, NEW s \in Seq(S), NEW e \in S
  PROVE  /\ Append(s, e) \in Seq(S) /\ Range(Append(s, e)) = Range(s) \cup {e}
         /\ IsInjective(s) /\ e \notin Range(s) => IsInjective(Append(s, e))
<1>1. /\ Append(s, e) \in Seq(S) /\ DOMAIN s = 1..Len(s) /\ Len(s) \in Nat
      /\ DOMAIN Append(s, e) = 1..(Len(s) + 1)
      /\ \A i \in 1..Len(s) : Append(s, e)[i] = s[i]
      /\ Append(s, e)[Len(s) + 1] = e
  OBVIOUS
<1>2. Range(Append(s, e)) = Range(s) \cup {e}
  <2>1. \A i \in 1..(Len(s) + 1) : i \in 1..Len(s) \/ i = Len(s) + 1
    BY <1>1
  <2>2. \A i \in 1..Len(s) : i \in 1..(Len(s) + 1)
    BY <1>1
  <2>3. Len(s) + 1 \in 1..(Len(s) + 1)
    BY <1>1
  <2> QED
    BY <1>1, <2>1, <2>2, <2>3 DEF Range
<1>3. IsInjective(s) /\ e \notin Range(s) => IsInjective(Append(s, e))
  BY <1>1 DEF IsInjective, Range
<1> QED
  BY <1>1, <1>2, <1>3

\* Its tail is the rest of it.
LEMMA TailOnce ==
  ASSUME NEW S, NEW s \in Seq(S), s # <<>>, IsInjective(s)
  PROVE  /\ Head(s) \in S /\ Tail(s) \in Seq(S) /\ IsInjective(Tail(s))
         /\ Head(s) \in Range(s) /\ Range(Tail(s)) = Range(s) \ {Head(s)}
<1>1. /\ Head(s) \in S /\ Tail(s) \in Seq(S) /\ Head(s) = s[1]
      /\ DOMAIN s = 1..Len(s) /\ Len(s) \in Nat \ {0}
      /\ DOMAIN Tail(s) = 1..(Len(s) - 1)
      /\ \A i \in 1..(Len(s) - 1) : Tail(s)[i] = s[i + 1]
  OBVIOUS
<1>2. IsInjective(Tail(s))
  BY <1>1 DEF IsInjective
<1>3. Head(s) \in Range(s)
  BY <1>1 DEF Range
<1>4. Range(Tail(s)) = Range(s) \ {Head(s)}
  <2>1. \A i \in 1..(Len(s) - 1) : Tail(s)[i] \in Range(s) \ {Head(s)}
    BY <1>1 DEF IsInjective, Range
  <2>2. \A i \in 1..Len(s) : s[i] = Head(s) \/ \E j \in 1..(Len(s) - 1) : s[i] = Tail(s)[j]
    <3> SUFFICES ASSUME NEW i \in 1..Len(s), i # 1 PROVE \E j \in 1..(Len(s) - 1) : s[i] = Tail(s)[j]
      BY <1>1
    <3>1. i - 1 \in 1..(Len(s) - 1) /\ Tail(s)[i - 1] = s[i]
      BY <1>1
    <3> QED
      BY <3>1
  <2>3. \A i \in 1..(Len(s) - 1) : i \in DOMAIN Tail(s)
    BY <1>1
  <2>4. Range(Tail(s)) \subseteq Range(s) \ {Head(s)}
    BY <1>1, <2>1 DEF Range
  <2>5. ASSUME NEW x \in Range(s), x # Head(s) PROVE x \in Range(Tail(s))
    <3>1. PICK i \in 1..Len(s) : x = s[i]
      BY <1>1 DEF Range
    <3>2. PICK j \in 1..(Len(s) - 1) : s[i] = Tail(s)[j]
      BY <2>2, <2>5, <3>1
    <3> QED
      BY <2>3, <3>1, <3>2 DEF Range
  <2> QED
    BY <2>4, <2>5
<1> QED
  BY <1>1, <1>2, <1>3, <1>4

-----------------------------------------------------------------------------
\* At first nothing is anywhere but with its caller.
LEMMA InitPlaces == Init => PlaceInv
<1> SUFFICES ASSUME Init PROVE PlaceInv
  OBVIOUS
<1>1. PlaceType /\ LineType
  BY CallsAssumption DEF Init, PlaceType, LineType, Workers, Conns
<1>2. Range(<<>>) = {} /\ IsInjective(<<>>)
  BY DEF Range, IsInjective
<1>3. Sent = {} /\ \A k \in Conns : Waiting(k) = {}
  BY <1>2 DEF Init, Sent, Waiting
<1>4. \A c \in Calls : answer[c] # Unsent
  BY DEF Init, None, Unsent, Line
<1> QED
  BY <1>1, <1>2, <1>3, <1>4
  DEF Init, PlaceInv, Places, OnceAtTheEngine, OnceQueued, InOneHand, NotYetSent, ReportedUnsent

\* The types.
LEMMA ReplyLines == ASSUME NEW c \in Calls PROVE Reply(c) \in Seq(Lines)
<1>1. \A part \in {"status", "data", "end"} : Line(c, part) \in Lines
  BY DEF Line, Lines
<1>2. Kind[c] \in Kinds
  BY CallsAssumption
<1> QED
  BY <1>1, <1>2 DEF Reply, Kinds

\* A worker's step keeps them.
LEMMA WorkerTypes ==
  ASSUME PlaceType, LineType, NEW w \in Workers, Working(w)
  PROVE  PlaceType' /\ LineType'
<1> USE DEF PlaceType
<1>a. <<>> \in Seq(Lines)
  OBVIOUS
<1>1. ASSUME NEW line, Finish(w, line), inbox' = inbox, executed' = executed,
             opened' = opened, conn' = conn \/ conn' = [conn EXCEPT ![w] = 0]
      PROVE  PlaceType' /\ buf' \in [Workers -> Seq(Lines)]
  <2>1. buf' \in [Workers -> Seq(Lines)]
    BY <1>1, <1>a DEF Finish, LineType
  <2>2. /\ call' \in [Calls -> {"new", "offer", "queued", "dropped", "done"}]
        /\ DOMAIN answer' = Calls
    BY <1>1 DEF Finish, Answer
  <2>3. /\ req' \in [Workers -> Calls \cup {NoCall}]
        /\ at' \in [Workers -> {"recv", "connect", "write", "read"}]
    BY <1>1 DEF Finish
  <2>6. conn' \in [Workers -> 0..MaxConns]
    <3>1. 0 \in 0..MaxConns
      BY CallsAssumption
    <3>2. conn' = conn => conn' \in [Workers -> 0..MaxConns]
      OBVIOUS
    <3>3. conn' = [conn EXCEPT ![w] = 0] => conn' \in [Workers -> 0..MaxConns]
      BY <3>1
    <3> QED
      BY <1>1, <3>2, <3>3
  <2>4. /\ \A v \in Workers \ {w} : req'[v] = req[v] /\ at'[v] = at[v] /\ conn'[v] = conn[v]
        /\ req'[w] = NoCall /\ at'[w] = "recv"
    BY <1>1 DEF Finish
  <2>5. /\ \A v \in Workers : at'[v] = "recv" <=> req'[v] = NoCall
        /\ \A v \in Workers : at'[v] \in {"write", "read"} => conn'[v] # 0
    BY <2>4
  <2> QED
    BY <1>1, <2>1, <2>2, <2>3, <2>5, <2>6 DEF Finish
<1>2. CASE Recv(w)
  <2>1. Head(queue[w]) \in Calls /\ Tail(queue[w]) \in Seq(Calls) /\ Head(queue[w]) # NoCall
    BY <1>2, CallsAssumption DEF Recv, NoCall
  <2> QED
    BY <1>2, <2>1 DEF Recv, LineType, callVars, engineVars, history
<1>3. CASE Connect(w)
  <2>1. opened' \in 0..MaxConns /\ opened' # 0
    BY <1>3, CallsAssumption DEF Connect
  <2> QED
    BY <1>3, <2>1 DEF Connect, LineType, callVars, history
<1>4. CASE ConnectFails(w)
  BY <1>4, <1>1 DEF ConnectFails, LineType, engineVars
<1>5. CASE Write(w)
  <2>1. req[w] \in Calls => \A s \in Seq(Calls) : Append(s, req[w]) \in Seq(Calls)
    OBVIOUS
  <2>2. inbox' \in [Conns -> Seq(Calls)]
    BY <1>5, <2>1 DEF Write
  <2> QED
    BY <1>5, <2>2 DEF Write, LineType, callVars
<1>6. ASSUME GiveUp(w) PROVE PlaceType' /\ LineType'
  <2>1. wire' \in [Conns -> Seq(Lines)]
    BY <1>6, <1>a DEF GiveUp, LineType
  <2> QED
    BY <1>6, <1>1, <2>1 DEF GiveUp, LineType
<1>7. CASE Read(w)
  <2>1. PICK n \in 1..Len(wire[conn[w]]) :
          LET b == buf[w] \o SubSeq(wire[conn[w]], 1, n) IN
          /\ wire' = [wire EXCEPT ![conn[w]] = SubSeq(@, n + 1, Len(@))]
          /\ IF Framed(b) THEN Finish(w, b[1])
             ELSE /\ buf' = [buf EXCEPT ![w] = b]
                  /\ UNCHANGED <<callVars, sender, alive, queue, at, req>>
    BY <1>7 DEF Read
  <2>2. conn[w] \in Conns /\ wire[conn[w]] \in Seq(Lines)
    BY <1>7 DEF Read, LineType, Conns
  <2>3. /\ SubSeq(wire[conn[w]], n + 1, Len(wire[conn[w]])) \in Seq(Lines)
        /\ buf[w] \o SubSeq(wire[conn[w]], 1, n) \in Seq(Lines)
    BY <2>2, SubSeqProperties, ConcatProperties, SMTT(60) DEF LineType
  <2>4. wire' \in [Conns -> Seq(Lines)]
    BY <2>1, <2>2, <2>3 DEF LineType
  <2>5. UNCHANGED <<conn, inbox, opened, executed>>
    BY <1>7 DEF Read
  <2>6. CASE Framed(buf[w] \o SubSeq(wire[conn[w]], 1, n))
    <3>1. Finish(w, (buf[w] \o SubSeq(wire[conn[w]], 1, n))[1])
      BY <2>1, <2>6
    <3>2. PlaceType' /\ buf' \in [Workers -> Seq(Lines)]
      BY <1>1, <2>5, <3>1
    <3> QED
      BY <2>4, <3>2 DEF LineType
  <2>7. CASE ~Framed(buf[w] \o SubSeq(wire[conn[w]], 1, n))
    <3>1. /\ buf' = [buf EXCEPT ![w] = buf[w] \o SubSeq(wire[conn[w]], 1, n)]
          /\ UNCHANGED <<callVars, sender, alive, queue, at, req>>
      BY <2>1, <2>7
    <3>2. buf' \in [Workers -> Seq(Lines)]
      BY <2>3, <3>1 DEF LineType
    <3> QED
      BY <2>4, <2>5, <3>1, <3>2 DEF LineType, callVars
  <2> QED
    BY <2>6, <2>7
<1>8. CASE Gap(w)
  BY <1>8, <1>1 DEF Gap, LineType, engineVars
<1> QED
  BY <1>2, <1>3, <1>4, <1>5, <1>6, <1>7, <1>8 DEF Working, WriteFails, NoStatus

\* So do the callers, the runtime and the engine.
LEMMA OtherTypes ==
  ASSUME PlaceType, LineType,
         \/ \E c \in Calls : Client(c)
         \/ \E w \in Workers : Retire(w) \/ Panic(w)
         \/ (\E k \in Conns : Engine(k)) \/ EngineRestarts \/ AllDone
  PROVE  PlaceType' /\ LineType'
<1>1. CASE \E c \in Calls : Client(c)
  <2> PICK c \in Calls : Client(c)
    BY <1>1
  <2>1. CASE Refuse(c)
    BY <2>1 DEF Refuse, Answer, PlaceType, LineType, workVars, engineVars, history
  <2>4. CASE Offer(c)
    BY <2>4 DEF Offer, PlaceType, LineType, workVars, engineVars, history
  <2>2. CASE Enqueue(c)
    <3>1. queue' \in [Workers -> Seq(Calls)]
      BY <2>2 DEF Enqueue, PlaceType
    <3>2. call' \in [Calls -> {"new", "offer", "queued", "dropped", "done"}]
      BY <2>2 DEF Enqueue, PlaceType
    <3> QED
      BY <2>2, <3>1, <3>2 DEF Enqueue, PlaceType, LineType, workVars, engineVars
  <2>3. CASE Closed(c) \/ Dropped(c)
    <3>1. sender' \in Workers /\ alive' \subseteq Workers
      BY <2>3 DEF Closed, Dropped, Respawn, PlaceType
    <3>2. /\ call' \in [Calls -> {"new", "offer", "queued", "dropped", "done"}]
          /\ DOMAIN answer' = Calls
      BY <2>3 DEF Closed, Dropped, Answer, PlaceType
    <3>3. via' \in [Calls -> Workers]
      BY <2>3, <3>1 DEF Closed, Dropped, PlaceType
    <3>4. UNCHANGED <<queue, workVars, engineVars>>
      BY <2>3 DEF Closed, Dropped
    <3> QED
      BY <3>1, <3>2, <3>3, <3>4 DEF PlaceType, LineType, workVars, engineVars
  <2> QED
    BY <2>1, <2>2, <2>3, <2>4 DEF Client
<1>2. CASE \E w \in Workers : Retire(w)
  BY <1>2, SMTT(60) DEF Retire, PlaceType, LineType, callVars, workVars, engineVars, history
<1>3. CASE \E w \in Workers : Panic(w)
  <2> PICK w \in Workers : Panic(w)
    BY <1>3
  <2> USE DEF PlaceType, LineType
  <2>1. \A S : <<>> \in Seq(S)
    OBVIOUS
  <2>2. queue' \in [Workers -> Seq(Calls)] /\ buf' \in [Workers -> Seq(Lines)]
    BY <2>1 DEF Panic
  <2>3. /\ call' \in [Calls -> {"new", "offer", "queued", "dropped", "done"}]
        /\ req' \in [Workers -> Calls \cup {NoCall}] /\ conn' \in [Workers -> 0..MaxConns]
        /\ at' \in [Workers -> {"recv", "connect", "write", "read"}]
    BY CallsAssumption, SMTT(60) DEF Panic
  <2>4. /\ \A v \in Workers \ {w} : req'[v] = req[v] /\ at'[v] = at[v] /\ conn'[v] = conn[v]
        /\ req'[w] = NoCall /\ at'[w] = "recv"
    BY DEF Panic
  <2> QED
    BY <2>2, <2>3, <2>4, SMTT(60) DEF Panic, engineVars
<1>4. CASE \E k \in Conns : Engine(k)
  <2> PICK k \in Conns : Engine(k)
    BY <1>4
  <2>1. /\ Head(inbox[k]) \in Calls /\ Tail(inbox[k]) \in Seq(Calls)
        /\ Reply(Head(inbox[k])) \in Seq(Lines)
    BY ReplyLines, SMTT(60) DEF Engine, Execute, PlaceType
  <2>2. executed' \in Seq(Calls) /\ inbox' \in [Conns -> Seq(Calls)]
    BY <2>1 DEF Engine, Execute, PlaceType
  <2>3. wire' \in [Conns -> Seq(Lines)]
    BY <2>1 DEF Engine, Execute, LineType
  <2> QED
    BY <2>2, <2>3 DEF Engine, Execute, PlaceType, LineType, callVars, workVars, history
<1>5. CASE EngineRestarts
  BY <1>5 DEF EngineRestarts, PlaceType, LineType, callVars, workVars
<1>6. CASE AllDone
  BY <1>6 DEF AllDone, vars, PlaceType, LineType, callVars, workVars, engineVars
<1> QED
  BY <1>1, <1>2, <1>3, <1>4, <1>5, <1>6

-----------------------------------------------------------------------------
\* A call that is answered leaves its place; who answers "not sent" has not
\* sent it.
LEMMA AnswerKeeps ==
  ASSUME PlaceInv, NEW c \in Calls, NEW line, Answer(c, line), UNCHANGED <<queue, inbox, executed>>,
         line = Unsent => c \notin Sent,
         \A w \in Workers : c \notin Range(queue[w]),
         \A w \in Workers : req'[w] # NoCall => req'[w] = req[w] /\ at'[w] = at[w] /\ req[w] # c
  PROVE  Places'
<1>1. Sent' = Sent /\ \A k \in Conns : Waiting(k)' = Waiting(k)
  BY DEF Sent, Waiting
<1>2. /\ call'[c] = "done" /\ answer'[c] = line
      /\ \A d \in Calls \ {c} : call'[d] = call[d] /\ answer'[d] = answer[d]
  BY DEF Answer, PlaceInv, PlaceType
<1>3. OnceAtTheEngine'
  BY <1>1 DEF PlaceInv, Places, OnceAtTheEngine
<1>4. OnceQueued'
  <2>1. \A w \in Workers : Range(queue[w]) \subseteq Calls
    BY DEF PlaceInv, PlaceType, Range
  <2> QED
    BY <1>1, <1>2, <2>1 DEF PlaceInv, Places, OnceQueued
<1>5. InOneHand'
  BY <1>1, <1>2, SMTT(60) DEF PlaceInv, PlaceType, Places, InOneHand
<1>6. NotYetSent' /\ ReportedUnsent'
  BY <1>1, <1>2 DEF PlaceInv, Places, NotYetSent, ReportedUnsent
<1> QED
  BY <1>3, <1>4, <1>5, <1>6 DEF Places

\* A worker answers the request in its hand.
LEMMA FinishKeeps ==
  ASSUME PlaceInv, NEW w \in Workers, NEW line, req[w] # NoCall, Finish(w, line),
         UNCHANGED <<inbox, executed>>, line = Unsent => at[w] # "read"
  PROVE  Places'
<1>1. req[w] \in Calls
  BY DEF PlaceInv, PlaceType
<1>2. \A v \in Workers : req[w] \notin Range(queue[v])
  BY DEF PlaceInv, Places, InOneHand
<1>3. \A v \in Workers : req'[v] # NoCall => req'[v] = req[v] /\ at'[v] = at[v] /\ req[v] # req[w]
  BY DEF Finish, PlaceInv, PlaceType, Places, InOneHand
<1>4. line = Unsent => req[w] \notin Sent
  BY DEF PlaceInv, Places, InOneHand
<1>5. Answer(req[w], line) /\ UNCHANGED queue
  BY DEF Finish
<1> QED
  BY <1>1, <1>2, <1>3, <1>4, <1>5, AnswerKeeps

\* The callers.
LEMMA ClientKeeps == ASSUME PlaceInv, NEW c \in Calls, Client(c) PROVE Places'
<1>1. CASE call[c] \in {"new", "offer", "dropped"}
  <2>1. \A w \in Workers : c \notin Range(queue[w]) /\ req[w] # c
    BY <1>1, CallsAssumption DEF PlaceInv, Places, OnceQueued, InOneHand, NoCall
  <2>2. ASSUME NEW line, Answer(c, line), line = Unsent => c \notin Sent,
               UNCHANGED <<queue, inbox, executed, req, at>>
        PROVE  Places'
    BY <2>1, <2>2, AnswerKeeps
  <2>3. CASE Refuse(c)
    BY <2>2, <2>3 DEF Refuse, workVars, engineVars, PlaceInv, Places, NotYetSent
  <2>4. CASE Dropped(c)
    BY <2>2, <2>4 DEF Dropped, workVars, engineVars, Lost, Unsent, Line
  <2>5. ASSUME UNCHANGED <<answer, queue, inbox, executed, req, at>>, call[c] \in {"new", "offer"},
               call' = call \/ call' = [call EXCEPT ![c] = "offer"]
        PROVE  Places'
    <3>1. Sent' = Sent /\ \A k \in Conns : Waiting(k)' = Waiting(k)
      BY <2>5 DEF Sent, Waiting
    <3>2. /\ call'[c] \in {"new", "offer"}
          /\ \A d \in Calls \ {c} : call'[d] = call[d]
      BY <2>5 DEF PlaceInv, PlaceType
    <3>3. \A w \in Workers : Range(queue[w]) \subseteq Calls
      BY DEF PlaceInv, PlaceType, Range
    <3>4. OnceAtTheEngine' /\ OnceQueued'
      BY <2>1, <2>5, <3>1, <3>2, <3>3 DEF PlaceInv, Places, OnceAtTheEngine, OnceQueued
    <3>5. InOneHand'
      BY <2>1, <2>5, <3>1, <3>2 DEF PlaceInv, PlaceType, Places, InOneHand
    <3>6. NotYetSent' /\ ReportedUnsent'
      BY <2>5, <3>1, <3>2 DEF PlaceInv, Places, NotYetSent, ReportedUnsent
    <3> QED
      BY <3>4, <3>5, <3>6 DEF Places
  <2>6. CASE Offer(c)
    BY <2>5, <2>6 DEF Offer, workVars, engineVars
  <2>7. CASE Closed(c)
    BY <2>2, <2>5, <2>7 DEF Closed, workVars, engineVars, PlaceInv, Places, NotYetSent
  <2>8. CASE Enqueue(c)
    <3>1. via[c] \in Workers /\ queue[via[c]] \in Seq(Calls) /\ c \notin Range(queue[via[c]])
      BY <2>1 DEF PlaceInv, PlaceType
    <3>2. IsInjective(queue[via[c]])
      BY <3>1 DEF PlaceInv, Places, OnceQueued
    <3>3. /\ Range(queue'[via[c]]) = Range(queue[via[c]]) \cup {c} /\ IsInjective(queue'[via[c]])
          /\ \A w \in Workers \ {via[c]} : queue'[w] = queue[w]
      BY <2>8, <3>1, <3>2, AppendOnce DEF Enqueue, PlaceInv, PlaceType
    <3>4. Sent' = Sent /\ (\A k \in Conns : Waiting(k)' = Waiting(k)) /\ c \notin Sent
      BY <2>8 DEF Enqueue, engineVars, Sent, Waiting, PlaceInv, Places, NotYetSent
    <3>5. /\ call'[c] = "queued" /\ UNCHANGED <<answer, req, at, inbox, executed>>
          /\ \A d \in Calls \ {c} : call'[d] = call[d]
      BY <2>8 DEF Enqueue, workVars, engineVars, PlaceInv, PlaceType
    <3>6. \A w \in Workers : Range(queue[w]) \subseteq Calls
      BY DEF PlaceInv, PlaceType, Range
    <3>7. OnceAtTheEngine'
      <4>1. inbox' = inbox /\ executed' = executed
        BY <3>5
      <4> QED
        BY <3>4, <4>1 DEF PlaceInv, Places, OnceAtTheEngine
    <3>8. OnceQueued'
      <4>1. \A w \in Workers : IsInjective(queue'[w])
        BY <3>3 DEF PlaceInv, Places, OnceQueued
      <4>2. \A v, w \in Workers : v # w => Range(queue'[v]) \cap Range(queue'[w]) = {}
        BY <2>1, <3>3 DEF PlaceInv, Places, OnceQueued
      <4>3. \A w \in Workers : \A d \in Range(queue'[w]) : d = c \/ d \in Range(queue[w])
        BY <3>3
      <4>4. \A w \in Workers : \A d \in Range(queue'[w]) : call'[d] = "queued" /\ d \notin Sent'
        BY <3>4, <3>5, <3>6, <4>3 DEF PlaceInv, Places, OnceQueued
      <4> QED
        BY <4>1, <4>2, <4>4, Zenon DEF OnceQueued
    <3>9. InOneHand'
      <4>1. \A w \in Workers : Range(queue'[w]) \subseteq Range(queue[w]) \cup {c}
        BY <3>1, <3>3
      <4>2. \A w \in Workers : req[w] # NoCall => req[w] \in Calls \ {c}
        BY <2>1 DEF PlaceInv, PlaceType
      <4> QED
        BY <3>4, <3>5, <4>1, <4>2 DEF PlaceInv, Places, InOneHand
    <3>10. NotYetSent' /\ ReportedUnsent'
      BY <2>8, <3>4, <3>5 DEF Enqueue, PlaceInv, Places, NotYetSent, ReportedUnsent
    <3> QED
      BY <3>7, <3>8, <3>9, <3>10 DEF Places
  <2> QED
    BY <2>3, <2>4, <2>6, <2>7, <2>8 DEF Client
<1> QED
  BY <1>1 DEF Client, Refuse, Offer, Enqueue, Closed, Dropped

\* The workers.
LEMMA WorkingKeeps == ASSUME PlaceInv, NEW w \in Workers, Working(w) PROVE Places'
<1> USE DEF PlaceInv, PlaceType
<1>1. CASE Recv(w)
  <2> DEFINE c == Head(queue[w])
  <2>1. /\ c \in Calls /\ c # NoCall /\ c \in Range(queue[w]) /\ IsInjective(Tail(queue[w]))
        /\ Range(Tail(queue[w])) = Range(queue[w]) \ {c}
    BY <1>1, TailOnce, CallsAssumption, SMTT(60) DEF Recv, Places, OnceQueued, NoCall
  <2>2. /\ queue'[w] = Tail(queue[w]) /\ req'[w] = c /\ at'[w] \in {"connect", "write"}
        /\ \A v \in Workers \ {w} : queue'[v] = queue[v] /\ req'[v] = req[v] /\ at'[v] = at[v]
    BY <1>1 DEF Recv
  <2>3. UNCHANGED <<call, answer, inbox, executed>>
    BY <1>1 DEF Recv, callVars, engineVars
  <2>4. Sent' = Sent /\ \A k \in Conns : Waiting(k)' = Waiting(k)
    BY <2>3 DEF Sent, Waiting
  <2>5. call[c] = "queued" /\ c \notin Sent /\ \A v \in Workers \ {w} : c \notin Range(queue[v])
    BY <2>1 DEF Places, OnceQueued
  <2>6. \A v \in Workers : req[v] # c
    BY <2>1 DEF Places, InOneHand
  <2> HIDE DEF c
  <2>7. OnceAtTheEngine'
    BY <2>3, <2>4 DEF Places, OnceAtTheEngine
  <2>8. \A v \in Workers : Range(queue'[v]) \subseteq Range(queue[v]) /\ IsInjective(queue'[v])
    BY <2>1, <2>2, ZenonT(60) DEF Places, OnceQueued
  <2>9. OnceQueued'
    BY <2>3, <2>4, <2>8 DEF Places, OnceQueued
  <2>10. InOneHand'
    <3>1. \A v \in Workers : c \notin Range(queue'[v])
      BY <2>1, <2>2, <2>5
    <3>2. \A v \in Workers \ {w} : req'[v] # c
      BY <2>2, <2>6
    <3>3. \A v \in Workers : req'[v] # NoCall =>
            /\ call'[req'[v]] = "queued" /\ (at'[v] # "read" => req'[v] \notin Sent)
      BY <2>2, <2>3, <2>5, ZenonT(60) DEF Places, InOneHand
    <3>4. \A u, v \in Workers : req'[v] # NoCall => req'[v] \notin Range(queue'[u])
      BY <2>2, <2>8, <3>1 DEF Places, InOneHand
    <3>5. \A u, v \in Workers : req'[v] # NoCall /\ u # v => req'[u] # req'[v]
      <4>1. \A u, v \in Workers \ {w} : req[v] # NoCall /\ u # v => req'[u] # req'[v]
        BY <2>2, SMTT(60) DEF Places, InOneHand
      <4> QED
        BY <2>2, <3>2, <4>1, ZenonT(60)
    <3> QED
      BY <2>4, <3>3, <3>4, <3>5 DEF InOneHand
  <2>11. NotYetSent' /\ ReportedUnsent'
    BY <2>3, <2>4 DEF Places, NotYetSent, ReportedUnsent
  <2> QED
    BY <2>7, <2>9, <2>10, <2>11 DEF Places
<1>2. CASE Connect(w)
  <2>1. UNCHANGED <<call, answer, queue, req, inbox, executed>>
    BY <1>2 DEF Connect, callVars
  <2>2. Sent' = Sent /\ \A k \in Conns : Waiting(k)' = Waiting(k)
    BY <2>1 DEF Sent, Waiting
  <2>3. at[w] # "read" /\ \A v \in Workers \ {w} : at'[v] = at[v]
    BY <1>2 DEF Connect
  <2> QED
    BY <2>1, <2>2, <2>3 DEF Places, OnceAtTheEngine, OnceQueued, InOneHand, NotYetSent, ReportedUnsent
<1>3. CASE ConnectFails(w)
  BY <1>3, FinishKeeps DEF ConnectFails, engineVars
<1>4. CASE Write(w)
  <2>a. req[w] \in Calls /\ conn[w] \in Conns
    BY <1>4 DEF Write, Conns
  <2> PICK c \in Calls, k \in Conns : c = req[w] /\ k = conn[w]
    BY <2>a
  <2>1. c # NoCall /\ inbox[k] \in Seq(Calls) /\ c \notin Sent
    BY <1>4 DEF Write, Conns, Places, InOneHand
  <2>2. c \notin Range(inbox[k]) /\ IsInjective(inbox[k])
    BY <2>1 DEF Sent, Waiting, Places, OnceAtTheEngine
  <2>3. /\ inbox'[k] = Append(inbox[k], c) /\ at'[w] = "read"
        /\ \A j \in Conns \ {k} : inbox'[j] = inbox[j]
        /\ \A v \in Workers \ {w} : at'[v] = at[v]
        /\ UNCHANGED <<call, answer, queue, req, executed>>
    BY <1>4, <2>1 DEF Write, callVars
  <2>4. Range(inbox'[k]) = Range(inbox[k]) \cup {c} /\ IsInjective(inbox'[k])
    BY <2>1, <2>2, <2>3, AppendOnce
  <2>5. /\ Waiting(k)' = Waiting(k) \cup {c} /\ \A j \in Conns \ {k} : Waiting(j)' = Waiting(j)
        /\ Sent' = Sent \cup {c}
    <3>1. /\ Waiting(k)' = Waiting(k) \cup {c}
          /\ \A j \in Conns \ {k} : Waiting(j)' = Waiting(j)
      BY <2>1, <2>3, <2>4 DEF Waiting
    <3>2. /\ \A d : d \in Sent <=> d \in Range(executed) \/ \E j \in Conns : d \in Waiting(j)
          /\ \A d : d \in Sent' <=> d \in Range(executed') \/ \E j \in Conns : d \in Waiting(j)'
      BY DEF Sent
    <3>3. \A d, j : j \in Conns => (d \in Waiting(j)' <=> d \in Waiting(j) \/ (j = k /\ d = c))
      BY <3>1
    <3>4. executed' = executed
      BY <2>3
    <3>5. \A d : d \in Sent' <=> d \in Sent \/ d = c
      BY <3>2, <3>3, <3>4
    <3> QED
      BY <3>1, <3>5
  <2>6. /\ call[c] = "queued" /\ \A v \in Workers : c \notin Range(queue[v])
        /\ \A v \in Workers \ {w} : req[v] # c
    BY <2>1 DEF Places, InOneHand
  <2>7. OnceAtTheEngine'
    <3>1. \A j \in Conns : c \notin Waiting(j)
      BY <2>1 DEF Sent
    <3>2. c \notin Range(executed) /\ executed' = executed
      BY <2>1, <2>3 DEF Sent
    <3>3. \A j \in Conns : IsInjective(inbox'[j])
      BY <2>3, <2>4 DEF Places, OnceAtTheEngine
    <3>4. \A d, j : j \in Conns => (d \in Waiting(j)' <=> d \in Waiting(j) \/ (j = k /\ d = c))
      BY <2>5
    <3>5. \A j \in Conns : Waiting(j)' \cap Range(executed') = {}
      <4>1. \A d : \A j \in Conns : ~(d \in Waiting(j) /\ d \in Range(executed))
        BY DEF Places, OnceAtTheEngine
      <4>2. \A d : \A j \in Conns : ~(d \in Waiting(j)' /\ d \in Range(executed'))
        BY <3>2, <3>4, <4>1
      <4> QED
        BY <4>2
    <3>6. \A i, j \in Conns : i # j => Waiting(i)' \cap Waiting(j)' = {}
      <4>a. \A i, j \in Conns : i # j => Waiting(i) \cap Waiting(j) = {}
        BY DEF Places, OnceAtTheEngine
      <4>1. \A d : \A i, j \in Conns : d \in Waiting(i) /\ d \in Waiting(j) => i = j
        BY <4>a
      <4>2. \A d : \A i, j \in Conns : d \in Waiting(i)' /\ d \in Waiting(j)' => i = j
        <5> SUFFICES ASSUME NEW d, NEW i \in Conns, NEW j \in Conns,
                            d \in Waiting(i)', d \in Waiting(j)'
                     PROVE  i = j
          OBVIOUS
        <5>1. CASE d = c
          BY <3>1, <3>4, <5>1
        <5>2. CASE d # c
          BY <3>4, <4>1, <5>2
        <5> QED
          BY <5>1, <5>2
      <4> QED
        BY <4>2
    <3>7. IsInjective(executed')
      BY <3>2 DEF Places, OnceAtTheEngine
    <3> QED
      BY <3>3, <3>5, <3>6, <3>7 DEF OnceAtTheEngine
  <2>8. OnceQueued'
    BY <2>3, <2>5, <2>6 DEF Places, OnceQueued
  <2>9. InOneHand'
    BY <2>3, <2>5, <2>6, SMTT(60) DEF Places, InOneHand
  <2>10. NotYetSent' /\ ReportedUnsent'
    BY <2>3, <2>5, <2>6 DEF Places, NotYetSent, ReportedUnsent
  <2> QED
    BY <2>7, <2>8, <2>9, <2>10 DEF Places
<1>5. ASSUME GiveUp(w), at[w] \in {"write", "read"} PROVE Places'
  BY <1>5, FinishKeeps DEF GiveUp, Lost, Unsent, Line
<1>6. ASSUME NEW b \in Seq(Lines), b # <<>>, at[w] = "read", Finish(w, b[1]),
             UNCHANGED <<inbox, executed>>
      PROVE  Places'
  <2>1. b[1] \in Lines
    BY <1>6
  <2>2. b[1] # Unsent
    BY <2>1 DEF Lines, Unsent, Line
  <2> QED
    BY <1>6, <2>2, FinishKeeps
<1>7. CASE Read(w)
  <2>1. PICK n \in 1..Len(wire[conn[w]]) :
          LET b == buf[w] \o SubSeq(wire[conn[w]], 1, n) IN
          IF Framed(b) THEN Finish(w, b[1])
          ELSE /\ buf' = [buf EXCEPT ![w] = b]
               /\ UNCHANGED <<callVars, sender, alive, queue, at, req>>
    BY <1>7 DEF Read
  <2>2. conn[w] \in Conns /\ wire[conn[w]] \in Seq(Lines)
    BY <1>7, SMTT(60) DEF Read, LineType, Conns
  <2> DEFINE b == buf[w] \o SubSeq(wire[conn[w]], 1, n)
  <2>3. b \in Seq(Lines)
    BY <2>2, SubSeqProperties, ConcatProperties DEF LineType
  <2>4. at[w] = "read" /\ UNCHANGED <<inbox, executed>>
    BY <1>7, SMTT(60) DEF Read
  <2>5. CASE Framed(b)
    BY <1>6, <2>1, <2>3, <2>4, <2>5 DEF Framed
  <2>6. CASE ~Framed(b)
    <3>1. UNCHANGED <<call, answer, queue, at, req, inbox, executed>>
      BY <2>1, <2>4, <2>6 DEF callVars
    <3>2. Sent' = Sent /\ \A k \in Conns : Waiting(k)' = Waiting(k)
      BY <3>1 DEF Sent, Waiting
    <3> QED
      BY <3>1, <3>2 DEF Places, OnceAtTheEngine, OnceQueued, InOneHand, NotYetSent, ReportedUnsent
  <2> QED
    BY <2>5, <2>6
<1>8. CASE Gap(w)
  BY <1>6, <1>8 DEF Gap, engineVars, LineType
<1> QED
  BY <1>1, <1>2, <1>3, <1>4, <1>5, <1>7, <1>8 DEF Working, WriteFails, NoStatus

\* The runtime loses a worker, the engine executes and restarts.
LEMMA OutsideKeeps ==
  ASSUME PlaceInv,
         \/ \E w \in Workers : Retire(w) \/ Panic(w)
         \/ (\E k \in Conns : Engine(k)) \/ EngineRestarts \/ AllDone
  PROVE  Places'
<1> USE DEF PlaceInv, PlaceType
<1>1. ASSUME UNCHANGED <<call, answer, queue, at, req, inbox, executed>> PROVE Places'
  <2>1. Sent' = Sent /\ \A k \in Conns : Waiting(k)' = Waiting(k)
    BY <1>1 DEF Sent, Waiting
  <2> QED
    BY <1>1, <2>1 DEF Places, OnceAtTheEngine, OnceQueued, InOneHand, NotYetSent, ReportedUnsent
<1>2. CASE (\E w \in Workers : Retire(w)) \/ AllDone
  BY <1>1, <1>2 DEF Retire, AllDone, vars, callVars, workVars, engineVars
<1>3. CASE \E w \in Workers : Panic(w)
  <2> PICK w \in Workers : Panic(w)
    BY <1>3
  <2>1. UNCHANGED <<answer, inbox, executed>>
    BY DEF Panic, engineVars
  <2>2. Sent' = Sent /\ \A k \in Conns : Waiting(k)' = Waiting(k)
    BY <2>1 DEF Sent, Waiting
  <2>3. /\ queue'[w] = <<>> /\ req'[w] = NoCall
        /\ \A v \in Workers \ {w} : queue'[v] = queue[v] /\ req'[v] = req[v] /\ at'[v] = at[v]
    BY DEF Panic
  <2>4. Range(<<>>) = {} /\ IsInjective(<<>>)
    BY DEF Range, IsInjective
  <2>5. \A c \in Calls : Contains(queue[w], c) => c \in Range(queue[w])
    BY DEF Contains, Range
  <2>6. /\ \A c \in Calls : call'[c] \in {call[c], "dropped"}
        /\ \A c \in Calls : c # req[w] /\ c \notin Range(queue[w]) => call'[c] = call[c]
    BY <2>5 DEF Panic
  <2>7. \A c \in Calls : call'[c] # call[c] => call[c] = "queued"
    BY <2>6, CallsAssumption DEF Places, OnceQueued, InOneHand, NoCall
  <2>8. OnceAtTheEngine'
    BY <2>1, <2>2 DEF Places, OnceAtTheEngine
  <2>9. \A v \in Workers : Range(queue[v]) \subseteq Calls
    BY DEF Range
  <2>10. OnceQueued'
    <3>1. \A v \in Workers : IsInjective(queue'[v]) /\ Range(queue'[v]) \subseteq Range(queue[v])
      BY <2>3, <2>4 DEF Places, OnceQueued
    <3>2. \A v \in Workers : \A c \in Range(queue'[v]) : v # w /\ c \in Range(queue[v])
      BY <2>3, <2>4
    <3>3. \A v \in Workers : \A c \in Range(queue'[v]) : c \in Calls /\ call'[c] = call[c]
      <4> SUFFICES ASSUME NEW v \in Workers, NEW c \in Range(queue'[v])
                   PROVE  c \in Calls /\ call'[c] = call[c]
        OBVIOUS
      <4>1. v # w /\ c \in Range(queue[v]) /\ c \in Calls
        BY <2>9, <3>2
      <4>2. c \notin Range(queue[w])
        BY <4>1 DEF Places, OnceQueued
      <4>3. req[w] # NoCall => req[w] \notin Range(queue[v])
        BY DEF Places, InOneHand
      <4>4. c # req[w]
        BY <4>1, <4>3, CallsAssumption DEF NoCall
      <4> QED
        BY <2>6, <4>1, <4>2, <4>4
    <3> QED
      BY <2>2, <3>1, <3>3, ZenonT(60) DEF Places, OnceQueued
  <2>11. InOneHand'
    <3>1. \A v \in Workers : Range(queue'[v]) \subseteq Range(queue[v])
      BY <2>3, <2>4
    <3>2. \A v \in Workers : req'[v] # NoCall => v # w /\ call'[req[v]] = call[req[v]]
      BY <2>3, <2>6 DEF Places, InOneHand
    <3> QED
      BY <2>2, <2>3, <3>1, <3>2, SMTT(60) DEF Places, InOneHand
  <2>12. NotYetSent' /\ ReportedUnsent'
    BY <2>1, <2>2, <2>6, <2>7 DEF Places, NotYetSent, ReportedUnsent
  <2> QED
    BY <2>8, <2>10, <2>11, <2>12 DEF Places
<1>4. ASSUME Sent' \subseteq Sent, OnceAtTheEngine', UNCHANGED <<call, answer, queue, at, req>>
      PROVE  Places'
  BY <1>4, SMTT(60) DEF Places, OnceQueued, InOneHand, NotYetSent, ReportedUnsent
<1>5. CASE \E k \in Conns : Engine(k)
  <2> PICK k \in Conns : Engine(k)
    BY <1>5
  <2> DEFINE c == Head(inbox[k])
  <2>1. /\ inbox[k] \in Seq(Calls) /\ inbox[k] # <<>> /\ IsInjective(inbox[k])
        /\ IsInjective(executed)
    BY DEF Engine, Execute, Places, OnceAtTheEngine
  <2>2. /\ c \in Calls /\ c \in Range(inbox[k]) /\ IsInjective(Tail(inbox[k]))
        /\ Range(Tail(inbox[k])) = Range(inbox[k]) \ {c}
    BY <2>1, TailOnce, SMTT(60)
  <2>3. /\ inbox'[k] = Tail(inbox[k]) /\ \A j \in Conns \ {k} : inbox'[j] = inbox[j]
        /\ executed' = Append(executed, c) /\ UNCHANGED <<call, answer, queue, at, req>>
    BY DEF Engine, Execute, callVars, workVars
  <2>4. c \in Waiting(k) /\ c \notin Range(executed) /\ \A j \in Conns \ {k} : c \notin Waiting(j)
    BY <2>2 DEF Waiting, Places, OnceAtTheEngine
  <2> HIDE DEF c
  <2>5. /\ Waiting(k)' = Waiting(k) \ {c} /\ \A j \in Conns \ {k} : Waiting(j)' = Waiting(j)
    BY <2>2, <2>3 DEF Waiting
  <2>6. Range(executed') = Range(executed) \cup {c} /\ IsInjective(executed')
    <3>1. executed \in Seq(Calls)
      OBVIOUS
    <3> QED
      BY <2>1, <2>2, <2>3, <2>4, <3>1, AppendOnce
  <2>7. Sent' \subseteq Sent
    <3>1. \A j \in Conns : Waiting(j)' \subseteq Waiting(j)
      BY <2>5
    <3>2. c \in Sent
      BY <2>4 DEF Sent
    <3> QED
      BY <2>6, <3>1, <3>2 DEF Sent
  <2>8. \A j \in Conns : IsInjective(inbox'[j])
    BY <2>2, <2>3 DEF Places, OnceAtTheEngine
  <2>9. OnceAtTheEngine'
    <3>1. \A j \in Conns : Waiting(j)' \subseteq Waiting(j) /\ c \notin Waiting(j)'
      BY <2>4, <2>5
    <3> QED
      BY <2>6, <2>8, <3>1 DEF Places, OnceAtTheEngine
  <2> QED
    BY <1>4, <2>3, <2>7, <2>9
<1>6. CASE EngineRestarts
  <2>1. /\ \A k \in Conns : inbox'[k] = <<>>
        /\ UNCHANGED <<call, answer, queue, at, req, executed>>
    BY <1>6 DEF EngineRestarts, callVars, workVars
  <2>2. Range(<<>>) = {} /\ IsInjective(<<>>)
    BY DEF Range, IsInjective
  <2>3. \A k \in Conns : Waiting(k)' = {} /\ IsInjective(inbox'[k])
    BY <2>1, <2>2 DEF Waiting
  <2>4. Sent' \subseteq Sent
    BY <2>1, <2>3 DEF Sent
  <2>5. OnceAtTheEngine'
    BY <2>1, <2>3 DEF Places, OnceAtTheEngine
  <2> QED
    BY <1>4, <2>1, <2>4, <2>5
<1> QED
  BY <1>2, <1>3, <1>5, <1>6

\* Every step keeps every command at one place.
LEMMA StepKeeps == PlaceInv /\ [Next]_vars => PlaceInv'
<1> SUFFICES ASSUME PlaceInv, [Next]_vars PROVE PlaceInv'
  OBVIOUS
<1>1. CASE UNCHANGED vars
  <2>1. AllDone => Places' /\ PlaceType' /\ LineType'
    BY OutsideKeeps, OtherTypes DEF PlaceInv
  <2> QED
    BY <1>1, SMTT(60) DEF vars, callVars, workVars, engineVars, PlaceInv, PlaceType,
         LineType, Places, OnceAtTheEngine, OnceQueued, InOneHand, NotYetSent,
         ReportedUnsent, Sent, Waiting
<1>2. CASE Next
  BY <1>2, WorkerTypes, OtherTypes, ClientKeeps, WorkingKeeps, OutsideKeeps DEF Next, PlaceInv
<1> QED
  BY <1>1, <1>2

-----------------------------------------------------------------------------
\* No command is executed twice, and one reported as not sent never is,
\* whatever is lost, late or restarted: send retries only what the channel
\* gave back (amcp.rs, send and amcp_worker).
THEOREM NothingTwice == Spec => []AtMostOnce
<1>1. Init => PlaceInv
  BY InitPlaces
<1>2. PlaceInv /\ [Next]_vars => PlaceInv'
  BY StepKeeps
<1>3. PlaceInv => AtMostOnce
  <2> SUFFICES ASSUME PlaceInv PROVE AtMostOnce
    OBVIOUS
  <2>1. \A c : Contains(executed, c) => c \in Sent
    BY DEF Contains, Sent, Range, PlaceInv, PlaceType
  <2>2. \A i, j \in DOMAIN executed : executed[i] = executed[j] => i = j
    BY DEF PlaceInv, Places, OnceAtTheEngine, IsInjective
  <2> QED
    BY <2>1, <2>2 DEF AtMostOnce, PlaceInv, Places, ReportedUnsent
<1> QED
  BY <1>1, <1>2, <1>3, PTL DEF Spec

-----------------------------------------------------------------------------
(* The order of the commands on the engine. *)

Quiet == disturbed \cap {"slow", "panic"} = {}

\* The channel took a before b.
Earlier == {p \in Calls \X Calls :
              \E k, l \in DOMAIN accepted : k < l /\ accepted[k] = p[1] /\ accepted[l] = p[2]}
Ordered(R, s) == \A i, j \in DOMAIN s : i < j => <<s[i], s[j]>> \in R

\* Without a lost worker the first one stays, and without a slow status line
\* it leaves a connection only when the engine has lost what was on it.
OneWorker == sender = 1 /\ alive = {1} /\ \A c \in Calls : via[c] = 1 /\ call[c] # "dropped"
OneConnection ==
  /\ \A k \in Conns : inbox[k] # <<>> => k = conn[1] /\ k \notin broken
  /\ at[1] = "connect" => conn[1] = 0

\* What the engine has executed, what it still has, what the worker holds and
\* what is in the channel are in the order in which the channel took them.
Taken ==
  /\ Sent \cup Range(queue[1]) \subseteq Range(accepted)
  /\ req[1] # NoCall => req[1] \in Range(accepted)
LineUp ==
  /\ Ordered(Earlier, executed) /\ Ordered(Earlier, queue[1])
  /\ \A k \in Conns : Ordered(Earlier, inbox[k])
  /\ \A k \in Conns : Range(executed) \X Waiting(k) \subseteq Earlier
  /\ Sent \X Range(queue[1]) \subseteq Earlier
  /\ req[1] # NoCall => {req[1]} \X Range(queue[1]) \subseteq Earlier
  /\ req[1] # NoCall /\ at[1] # "read" => Sent \X {req[1]} \subseteq Earlier
InLine == OneWorker /\ OneConnection /\ Taken /\ LineUp
OrderInv == accepted \in Seq(Calls) /\ (Quiet => InLine)

-----------------------------------------------------------------------------
\* A new last element, later than all others, keeps the order.
LEMMA AppendOrdered ==
  ASSUME NEW S, NEW R, NEW s \in Seq(S), NEW e \in S, Ordered(R, s), Range(s) \X {e} \subseteq R
  PROVE  Ordered(R, Append(s, e))
<1>1. /\ DOMAIN s = 1..Len(s) /\ Len(s) \in Nat /\ DOMAIN Append(s, e) = 1..(Len(s) + 1)
      /\ \A i \in 1..Len(s) : Append(s, e)[i] = s[i]
      /\ Append(s, e)[Len(s) + 1] = e
  OBVIOUS
<1> SUFFICES ASSUME NEW i \in 1..(Len(s) + 1), NEW j \in 1..(Len(s) + 1), i < j
             PROVE  <<Append(s, e)[i], Append(s, e)[j]>> \in R
  BY <1>1 DEF Ordered
<1>2. i \in 1..Len(s) /\ Append(s, e)[i] = s[i]
  BY <1>1
<1>3. CASE j \in 1..Len(s)
  BY <1>1, <1>2, <1>3 DEF Ordered
<1>4. CASE j = Len(s) + 1
  BY <1>1, <1>2, <1>4 DEF Range
<1> QED
  BY <1>1, <1>3, <1>4, SMTT(60)

\* The head is earlier than the rest, which keeps the order.
LEMMA TailOrdered ==
  ASSUME NEW S, NEW R, NEW s \in Seq(S), s # <<>>, Ordered(R, s)
  PROVE  Ordered(R, Tail(s)) /\ {Head(s)} \X Range(Tail(s)) \subseteq R
<1>1. /\ Head(s) = s[1] /\ DOMAIN s = 1..Len(s) /\ Len(s) \in Nat \ {0}
      /\ DOMAIN Tail(s) = 1..(Len(s) - 1)
      /\ \A i \in 1..(Len(s) - 1) : Tail(s)[i] = s[i + 1]
  OBVIOUS
<1>2. Ordered(R, Tail(s))
  BY <1>1 DEF Ordered
<1>3. \A i \in 1..(Len(s) - 1) : <<Head(s), Tail(s)[i]>> \in R
  BY <1>1 DEF Ordered
<1>4. {Head(s)} \X Range(Tail(s)) \subseteq R
  BY <1>1, <1>3 DEF Range
<1> QED
  BY <1>2, <1>4

\* An order may grow.
LEMMA MoreOrdered ==
  ASSUME NEW R, NEW Q, R \subseteq Q, NEW s, Ordered(R, s) PROVE Ordered(Q, s)
BY DEF Ordered

\* Who is taken by the channel is later than all that it took before.
LEMMA TakenLast ==
  ASSUME accepted \in Seq(Calls), NEW c \in Calls, accepted' = Append(accepted, c)
  PROVE  Earlier \subseteq Earlier' /\ Range(accepted) \X {c} \subseteq Earlier'
<1>1. /\ DOMAIN accepted = 1..Len(accepted) /\ Len(accepted) \in Nat
      /\ DOMAIN accepted' = 1..(Len(accepted) + 1)
      /\ \A i \in 1..Len(accepted) : accepted'[i] = accepted[i]
      /\ accepted'[Len(accepted) + 1] = c
  OBVIOUS
<1>2. Earlier \subseteq Earlier'
  <2> SUFFICES ASSUME NEW p \in Earlier PROVE p \in Earlier'
    OBVIOUS
  <2>1. p \in Calls \X Calls
    BY DEF Earlier
  <2>2. PICK k \in DOMAIN accepted, l \in DOMAIN accepted : k < l /\ accepted[k] = p[1] /\ accepted[l] = p[2]
    BY DEF Earlier
  <2>3. k \in DOMAIN accepted' /\ l \in DOMAIN accepted' /\ accepted'[k] = p[1] /\ accepted'[l] = p[2]
    BY <1>1, <2>2
  <2> QED
    BY <2>1, <2>2, <2>3 DEF Earlier
<1>3. ASSUME NEW a \in Range(accepted) PROVE <<a, c>> \in Earlier'
  <2>1. PICK k \in DOMAIN accepted : accepted[k] = a
    BY DEF Range
  <2>2. /\ k \in DOMAIN accepted' /\ Len(accepted) + 1 \in DOMAIN accepted' /\ k < Len(accepted) + 1
        /\ accepted'[k] = a /\ accepted'[Len(accepted) + 1] = c
    BY <1>1, <2>1
  <2>3. a \in Calls
    BY <1>1, <2>1
  <2> QED
    BY <2>2, <2>3 DEF Earlier
<1> QED
  BY <1>2, <1>3

\* At first nothing is in line.
LEMMA InitOrder == Init => OrderInv
<1> SUFFICES ASSUME Init PROVE OrderInv
  OBVIOUS
<1>1. Range(<<>>) = {} /\ Ordered(Earlier, <<>>)
  BY DEF Range, Ordered
<1>2. Sent = {} /\ \A k \in Conns : Waiting(k) = {}
  BY <1>1 DEF Init, Sent, Waiting
<1>3. 1 \in Workers
  BY CallsAssumption DEF Workers
<1>4. /\ queue[1] = <<>> /\ req[1] = NoCall /\ at[1] = "recv" /\ executed = <<>>
      /\ \A k \in Conns : inbox[k] = <<>>
  BY <1>3 DEF Init
<1>5. OneWorker /\ accepted \in Seq(Calls)
  BY DEF Init, OneWorker
<1> QED
  BY <1>1, <1>2, <1>4, <1>5 DEF OrderInv, InLine, OneConnection, Taken, LineUp

\* A step that moves nothing forward: the request in hand may be given back,
\* and the engine may lose what it had.
LEMMA StandsInLine ==
  ASSUME Taken, LineUp, UNCHANGED <<accepted, queue, executed>>,
         \A k \in Conns : inbox'[k] \in {inbox[k], <<>>},
         req'[1] = NoCall \/ (req'[1] = req[1] /\ (at'[1] # "read" => at[1] # "read"))
  PROVE  Taken' /\ LineUp'
<1>1. Earlier' = Earlier
  BY DEF Earlier
<1>2. Range(<<>>) = {} /\ Ordered(Earlier, <<>>)
  BY DEF Range, Ordered
<1>3. \A k \in Conns : Waiting(k)' \subseteq Waiting(k) /\ Ordered(Earlier, inbox'[k])
  BY <1>2 DEF Waiting, LineUp
<1>4. Sent' \subseteq Sent
  BY <1>3 DEF Sent
<1>5. Taken'
  BY <1>4 DEF Taken
<1>6. LineUp'
  BY <1>1, <1>3, <1>4 DEF LineUp
<1> QED
  BY <1>5, <1>6

\* The callers: a new command goes to the end of the line.
LEMMA ClientInLine ==
  ASSUME PlaceInv, accepted \in Seq(Calls), InLine, NEW c \in Calls, Client(c)
  PROVE  accepted' \in Seq(Calls) /\ InLine'
<1>1. via[c] = 1 /\ call[c] # "dropped" /\ 1 \in alive /\ 1 \in Workers
  BY CallsAssumption DEF InLine, OneWorker, Workers
<1>2. ASSUME UNCHANGED <<sender, alive, workVars, engineVars>>, via' = via \/ via' = [via EXCEPT ![c] = 1],
             call' = call \/ \E pc \in {"offer", "queued", "done"} : call' = [call EXCEPT ![c] = pc]
      PROVE  OneWorker' /\ OneConnection'
  <2>1. OneWorker'
    BY <1>2 DEF InLine, OneWorker, PlaceInv, PlaceType
  <2>2. OneConnection'
    BY <1>2 DEF InLine, OneConnection, workVars, engineVars
  <2> QED
    BY <2>1, <2>2
<1>3. CASE Refuse(c) \/ Offer(c)
  <2>1. UNCHANGED <<accepted, queue, executed, inbox, req, at>>
    BY <1>3 DEF Refuse, Offer, workVars, engineVars, history
  <2>2. Taken' /\ LineUp'
    BY <2>1, StandsInLine DEF InLine
  <2>3. OneWorker' /\ OneConnection'
    BY <1>2, <1>3 DEF Refuse, Offer, Answer, InLine, OneWorker
  <2> QED
    BY <2>1, <2>2, <2>3 DEF InLine
<1>4. CASE Enqueue(c)
  <2>1. /\ accepted' = Append(accepted, c) /\ UNCHANGED <<executed, inbox, req, at>>
        /\ queue[1] \in Seq(Calls) /\ queue'[1] = Append(queue[1], c)
    BY <1>1, <1>4 DEF Enqueue, workVars, engineVars, PlaceInv, PlaceType
  <2>2. Earlier \subseteq Earlier' /\ Range(accepted) \X {c} \subseteq Earlier'
    BY <2>1, TakenLast
  <2>3. Sent' = Sent /\ \A k \in Conns : Waiting(k)' = Waiting(k)
    BY <2>1 DEF Sent, Waiting
  <2>4. Range(queue'[1]) = Range(queue[1]) \cup {c} /\ Range(accepted') = Range(accepted) \cup {c}
    BY <2>1, AppendOnce
  <2>5. Taken'
    BY <2>1, <2>3, <2>4 DEF InLine, Taken
  <2>6. Ordered(Earlier', queue'[1])
    <3>1. Ordered(Earlier', queue[1])
      BY <2>2, MoreOrdered DEF InLine, LineUp
    <3>2. Range(queue[1]) \X {c} \subseteq Earlier'
      BY <2>2 DEF InLine, Taken
    <3> QED
      BY <2>1, <3>1, <3>2, AppendOrdered
  <2>7. Ordered(Earlier', executed) /\ \A k \in Conns : Ordered(Earlier', inbox[k])
    BY <2>2, MoreOrdered DEF InLine, LineUp
  <2>8. Sent' \X Range(queue'[1]) \subseteq Earlier'
    BY <2>2, <2>3, <2>4 DEF InLine, LineUp, Taken
  <2>9. req[1] # NoCall => {req[1]} \X Range(queue'[1]) \subseteq Earlier'
    BY <2>2, <2>4 DEF InLine, LineUp, Taken
  <2>10. LineUp'
    BY <2>1, <2>2, <2>3, <2>6, <2>7, <2>8, <2>9 DEF InLine, LineUp
  <2>11. OneWorker' /\ OneConnection'
    BY <1>2, <1>4 DEF Enqueue
  <2> QED
    BY <2>1, <2>5, <2>10, <2>11 DEF InLine
<1> QED
  BY <1>1, <1>3, <1>4 DEF Client, Closed, Dropped

\* The worker.
LEMMA WorkingInLine ==
  ASSUME PlaceInv, InLine, NEW w \in Workers, Working(w), Quiet'
  PROVE  accepted' = accepted /\ InLine'
<1>1. w = 1 /\ 1 \in Workers /\ accepted' = accepted
  BY DEF InLine, OneWorker, Working, Recv, Connect, ConnectFails, Write, WriteFails, Read, Gap,
         NoStatus, GiveUp, history
<1>2. ASSUME NEW line, Finish(1, line) PROVE OneWorker' /\ UNCHANGED queue
  BY <1>2 DEF Finish, Answer, InLine, OneWorker, PlaceInv, PlaceType
<1>3. ASSUME NEW line, Finish(1, line), UNCHANGED executed, \A k \in Conns : inbox'[k] = inbox[k]
      PROVE  OneWorker' /\ Taken' /\ LineUp' /\ at'[1] = "recv"
  <2>1. OneWorker' /\ UNCHANGED queue
    BY <1>2, <1>3
  <2>2. req'[1] = NoCall /\ at'[1] = "recv"
    BY <1>1, <1>3 DEF Finish, PlaceInv, PlaceType
  <2>3. Taken' /\ LineUp'
    BY <1>1, <1>3, <2>1, <2>2, StandsInLine DEF InLine
  <2> QED
    BY <2>1, <2>2, <2>3
<1>4. CASE Recv(1)
  <2> DEFINE c == Head(queue[1])
  <2>1. /\ queue[1] \in Seq(Calls) /\ queue[1] # <<>> /\ IsInjective(queue[1])
        /\ Ordered(Earlier, queue[1])
    BY <1>1, <1>4 DEF Recv, PlaceInv, PlaceType, Places, OnceQueued, InLine, LineUp
  <2>2. c \in Range(queue[1]) /\ Range(Tail(queue[1])) = Range(queue[1]) \ {c}
    BY <2>1, TailOnce
  <2>3. Ordered(Earlier, Tail(queue[1])) /\ {c} \X Range(Tail(queue[1])) \subseteq Earlier
    BY <2>1, TailOrdered
  <2>4. /\ queue'[1] = Tail(queue[1]) /\ req'[1] = c
        /\ at'[1] = IF conn[1] = 0 THEN "connect" ELSE "write"
        /\ UNCHANGED <<call, via, sender, alive, accepted, inbox, executed, conn, broken>>
    BY <1>1, <1>4 DEF Recv, callVars, engineVars, history, PlaceInv, PlaceType
  <2> HIDE DEF c
  <2>5. Sent' = Sent /\ Earlier' = Earlier /\ \A k \in Conns : Waiting(k)' = Waiting(k)
    BY <2>4 DEF Sent, Waiting, Earlier
  <2>6. Taken'
    BY <2>2, <2>4, <2>5 DEF InLine, Taken
  <2>7. LineUp'
    BY <2>2, <2>3, <2>4, <2>5 DEF InLine, LineUp
  <2>8. OneWorker' /\ OneConnection'
    BY <2>4 DEF InLine, OneWorker, OneConnection
  <2> QED
    BY <1>1, <2>6, <2>7, <2>8 DEF InLine
<1>5. CASE Connect(1)
  <2>1. /\ conn[1] = 0 /\ at'[1] = "write" /\ at[1] # "read"
        /\ UNCHANGED <<call, via, sender, alive, accepted, queue, req, inbox, executed, broken>>
    BY <1>1, <1>5 DEF Connect, callVars, history, InLine, OneConnection, PlaceInv, PlaceType
  <2>2. \A k \in Conns : inbox[k] = <<>>
    BY <2>1 DEF InLine, OneConnection, Conns
  <2>3. Taken' /\ LineUp'
    BY <2>1, StandsInLine DEF InLine
  <2>4. OneWorker' /\ OneConnection'
    BY <2>1, <2>2 DEF InLine, OneWorker, OneConnection
  <2> QED
    BY <1>1, <2>3, <2>4 DEF InLine
<1>6. CASE ConnectFails(1)
  <2>1. UNCHANGED <<conn, inbox, executed, broken>> /\ Finish(1, Unsent)
    BY <1>6 DEF ConnectFails, engineVars
  <2>2. OneWorker' /\ Taken' /\ LineUp' /\ at'[1] = "recv"
    BY <1>3, <2>1
  <2>3. OneConnection'
    BY <2>1, <2>2 DEF InLine, OneConnection
  <2> QED
    BY <1>1, <2>2, <2>3 DEF InLine
<1>7. CASE Write(1)
  <2>a. req[1] \in Calls /\ conn[1] \in Conns /\ req[1] # NoCall
    BY <1>1, <1>7 DEF Write, Conns, PlaceInv, PlaceType
  <2> PICK c \in Calls, k \in Conns : c = req[1] /\ k = conn[1]
    BY <2>a
  <2>1. /\ inbox[k] \in Seq(Calls) /\ k \notin broken /\ at[1] = "write" /\ at'[1] = "read"
        /\ inbox'[k] = Append(inbox[k], c) /\ \A j \in Conns \ {k} : inbox'[j] = inbox[j]
        /\ UNCHANGED <<call, via, sender, alive, accepted, queue, req, executed, conn, broken>>
    BY <1>1, <1>7 DEF Write, callVars, history, PlaceInv, PlaceType
  <2>2. Range(inbox'[k]) = Range(inbox[k]) \cup {c}
    BY <2>1, AppendOnce
  <2>3. \A d, j : j \in Conns => (d \in Waiting(j)' <=> d \in Waiting(j) \/ (j = k /\ d = c))
    BY <2>1, <2>2 DEF Waiting
  <2>4. Earlier' = Earlier
    BY <2>1 DEF Earlier
  <2>5. Sent \X {c} \subseteq Earlier /\ {c} \X Range(queue[1]) \subseteq Earlier /\ c \in Range(accepted)
    BY <2>a, <2>1 DEF InLine, LineUp, Taken
  <2>6. \A d : d \in Sent' => d \in Sent \/ d = c
    <3>1. /\ \A d : d \in Sent <=> d \in Range(executed) \/ \E j \in Conns : d \in Waiting(j)
          /\ \A d : d \in Sent' <=> d \in Range(executed') \/ \E j \in Conns : d \in Waiting(j)'
      BY DEF Sent
    <3> QED
      BY <2>1, <2>3, <3>1
  <2>7. Taken'
    BY <2>1, <2>5, <2>6 DEF InLine, Taken
  <2>8. Ordered(Earlier, inbox'[k]) /\ \A j \in Conns : Ordered(Earlier, inbox'[j])
    <3>1. Range(inbox[k]) \X {c} \subseteq Earlier
      BY <2>5 DEF Sent, Waiting
    <3>2. Ordered(Earlier, inbox'[k])
      BY <2>1, <3>1, AppendOrdered DEF InLine, LineUp
    <3> QED
      BY <2>1, <3>2 DEF InLine, LineUp
  <2>9. \A j \in Conns : Range(executed) \X Waiting(j)' \subseteq Earlier
    <3>1. Range(executed) \X {c} \subseteq Earlier
      BY <2>5 DEF Sent
    <3>2. \A j \in Conns : Range(executed) \X Waiting(j) \subseteq Earlier
      BY DEF InLine, LineUp
    <3> QED
      BY <2>3, <3>1, <3>2
  <2>10. Sent' \X Range(queue[1]) \subseteq Earlier
    <3>1. Sent \X Range(queue[1]) \subseteq Earlier
      BY DEF InLine, LineUp
    <3> QED
      BY <2>5, <2>6, <3>1
  <2>11. LineUp'
    BY <2>1, <2>4, <2>8, <2>9, <2>10 DEF InLine, LineUp
  <2>12. OneWorker' /\ OneConnection'
    BY <2>1 DEF InLine, OneWorker, OneConnection
  <2> QED
    BY <1>1, <2>7, <2>11, <2>12 DEF InLine
<1>8. ASSUME GiveUp(1), conn[1] \in broken PROVE InLine'
  <2>1. UNCHANGED <<inbox, executed, broken>> /\ Finish(1, Lost)
    BY <1>8 DEF GiveUp
  <2>2. \A k \in Conns : inbox[k] = <<>>
    BY <1>8 DEF InLine, OneConnection
  <2>3. OneWorker' /\ Taken' /\ LineUp' /\ at'[1] = "recv"
    BY <1>3, <2>1
  <2>4. OneConnection'
    BY <2>1, <2>2, <2>3 DEF OneConnection
  <2> QED
    BY <2>3, <2>4 DEF InLine
<1>9. CASE NoStatus(1)
  <2>1. conn[1] \in broken
    BY <1>9 DEF NoStatus, Disturb, Quiet
  <2> QED
    BY <1>1, <1>8, <1>9, <2>1 DEF NoStatus
<1>10. CASE Read(1) \/ Gap(1)
  <2>1. UNCHANGED <<conn, inbox, executed, broken>>
    BY <1>10 DEF Read, Gap, engineVars
  <2>2. (\E line : Finish(1, line)) \/ UNCHANGED <<callVars, sender, alive, queue, at, req>>
    BY <1>10 DEF Read, Gap
  <2>3. OneWorker' /\ Taken' /\ LineUp' /\ (at'[1] = "recv" \/ at' = at)
    <3>1. CASE \E line : Finish(1, line)
      BY <1>3, <2>1, <3>1
    <3>2. CASE UNCHANGED <<callVars, sender, alive, queue, at, req>>
      <4>1. OneWorker'
        BY <3>2 DEF InLine, OneWorker, callVars
      <4> QED
        BY <1>1, <2>1, <3>2, <4>1, StandsInLine DEF InLine
    <3> QED
      BY <2>2, <3>1, <3>2
  <2>4. OneConnection'
    BY <2>1, <2>3 DEF InLine, OneConnection
  <2> QED
    BY <1>1, <2>3, <2>4 DEF InLine
<1> QED
  BY <1>1, <1>4, <1>5, <1>6, <1>7, <1>8, <1>9, <1>10, SMTT(60) DEF Working, WriteFails

\* The engine executes what it got first, and a restart loses what it has.
LEMMA OutsideInLine ==
  ASSUME PlaceInv, InLine, Quiet',
         \/ \E w \in Workers : Retire(w) \/ Panic(w)
         \/ (\E k \in Conns : Engine(k)) \/ EngineRestarts \/ AllDone
  PROVE  accepted' = accepted /\ InLine'
<1>1. CASE \E w \in Workers : Retire(w) \/ Panic(w)
  BY <1>1 DEF Retire, Panic, Disturb, Quiet, InLine, OneWorker
<1>2. CASE \E k \in Conns : Engine(k)
  <2> PICK k \in Conns : Engine(k)
    BY <1>2
  <2> DEFINE c == Head(inbox[k])
  <2>1. /\ inbox[k] \in Seq(Calls) /\ inbox[k] # <<>> /\ IsInjective(inbox[k])
        /\ Ordered(Earlier, inbox[k]) /\ executed \in Seq(Calls)
    BY DEF Engine, Execute, PlaceInv, PlaceType, Places, OnceAtTheEngine, InLine, LineUp
  <2>2. c \in Calls /\ c \in Range(inbox[k]) /\ Range(Tail(inbox[k])) = Range(inbox[k]) \ {c}
    BY <2>1, TailOnce
  <2>3. Ordered(Earlier, Tail(inbox[k])) /\ {c} \X Range(Tail(inbox[k])) \subseteq Earlier
    BY <2>1, TailOrdered
  <2>4. /\ inbox'[k] = Tail(inbox[k]) /\ \A j \in Conns \ {k} : inbox'[j] = inbox[j]
        /\ executed' = Append(executed, c)
        /\ UNCHANGED <<call, via, sender, alive, accepted, queue, req, at, conn, broken>>
    BY DEF Engine, Execute, callVars, workVars, history, PlaceInv, PlaceType
  <2> HIDE DEF c
  <2>5. Range(executed') = Range(executed) \cup {c}
    BY <2>1, <2>2, <2>4, AppendOnce
  <2>6. \A j \in Conns \ {k} : inbox[j] = <<>> /\ inbox'[j] = <<>>
    BY <2>1, <2>4 DEF InLine, OneConnection
  <2>7. \A j \in Conns \ {k} : Waiting(j)' = {}
    BY <2>6 DEF Waiting, Range
  <2>8. Waiting(k)' = Range(Tail(inbox[k])) /\ Waiting(k)' \subseteq Waiting(k) /\ c \in Waiting(k)
    BY <2>2, <2>4 DEF Waiting
  <2>9. Sent' \subseteq Sent
    <3>1. \A j \in Conns : Waiting(j)' \subseteq Waiting(j)
      BY <2>7, <2>8
    <3>2. c \in Sent
      BY <2>8 DEF Sent
    <3> QED
      BY <2>5, <3>1, <3>2 DEF Sent
  <2>10. Earlier' = Earlier
    BY <2>4 DEF Earlier
  <2>11. Range(executed) \X Waiting(k) \subseteq Earlier /\ Ordered(Earlier, executed)
    BY DEF InLine, LineUp
  <2>12. Ordered(Earlier, executed')
    BY <2>1, <2>2, <2>4, <2>8, <2>11, AppendOrdered
  <2>13. \A j \in Conns : Range(executed') \X Waiting(j)' \subseteq Earlier
    <3>1. Range(executed') \X Waiting(k)' \subseteq Earlier
      BY <2>3, <2>5, <2>8, <2>11
    <3> QED
      BY <2>7, <3>1
  <2>14. \A j \in Conns : Ordered(Earlier, inbox'[j])
    BY <2>3, <2>4 DEF InLine, LineUp
  <2>15. Taken'
    BY <2>4, <2>9 DEF InLine, Taken
  <2>16. LineUp'
    BY <2>4, <2>9, <2>10, <2>12, <2>13, <2>14 DEF InLine, LineUp
  <2>17. OneWorker' /\ OneConnection'
    BY <2>1, <2>4, <2>6 DEF InLine, OneWorker, OneConnection
  <2> QED
    BY <2>4, <2>15, <2>16, <2>17 DEF InLine
<1>3. CASE EngineRestarts
  <2>1. /\ \A k \in Conns : inbox'[k] = <<>>
        /\ UNCHANGED <<call, via, sender, alive, accepted, queue, req, at, conn, executed>>
    BY <1>3 DEF EngineRestarts, callVars, workVars
  <2>2. Taken' /\ LineUp'
    BY <2>1, StandsInLine DEF InLine
  <2>3. OneWorker' /\ OneConnection'
    BY <2>1 DEF InLine, OneWorker, OneConnection
  <2> QED
    BY <2>1, <2>2, <2>3 DEF InLine
<1>4. CASE AllDone
  <2>1. UNCHANGED <<call, via, sender, alive, accepted, queue, req, at, conn, inbox, executed, broken>>
    BY <1>4 DEF AllDone, vars, callVars, workVars, engineVars, history
  <2>2. Taken' /\ LineUp'
    BY <2>1, StandsInLine DEF InLine
  <2>3. OneWorker' /\ OneConnection'
    BY <2>1 DEF InLine, OneWorker, OneConnection
  <2> QED
    BY <2>1, <2>2, <2>3 DEF InLine
<1> QED
  BY <1>1, <1>2, <1>3, <1>4

\* Every step keeps the line, as long as the disturbances that break it stay out.
LEMMA StepInLine == PlaceInv /\ OrderInv /\ [Next]_vars => OrderInv'
<1> SUFFICES ASSUME PlaceInv, OrderInv, [Next]_vars PROVE OrderInv'
  OBVIOUS
<1>1. CASE UNCHANGED vars
  BY <1>1 DEF vars, callVars, workVars, engineVars, history, OrderInv, Quiet, InLine, OneWorker,
     OneConnection, Taken, LineUp, Earlier, Sent, Waiting
<1>2. CASE Next
  <2>1. disturbed \subseteq disturbed'
    BY ZenonT(60) DEF Next, Client, Refuse, Offer, Enqueue, Closed, Dropped, Working, Recv,
         Connect, ConnectFails, Write, WriteFails, Read, Gap, NoStatus, Disturb, Retire,
         Panic, Engine, Execute, EngineRestarts, AllDone, vars, history
  <2>2. accepted' = accepted \/ \E c \in Calls : accepted' = Append(accepted, c)
    BY <1>2 DEF Next, Client, Refuse, Offer, Enqueue, Closed, Dropped, Working, Recv, Connect,
       ConnectFails, Write, WriteFails, GiveUp, Read, Gap, NoStatus, Retire, Panic, Engine, Execute,
       EngineRestarts, AllDone, vars, history
  <2>3. accepted' \in Seq(Calls)
    BY <2>2 DEF OrderInv
  <2>4. Quiet' => Quiet
    BY <2>1 DEF Quiet
  <2>5. Quiet' => InLine'
    BY <1>2, <2>4, ClientInLine, WorkingInLine, OutsideInLine DEF Next, OrderInv
  <2> QED
    BY <2>3, <2>5 DEF OrderInv
<1> QED
  BY <1>1, <1>2

-----------------------------------------------------------------------------
\* No command is executed twice, none that was reported as not sent, and all in
\* the order in which the channel took them, across reconnects and restarts of
\* the engine (amcp.rs, amcp_worker: one request in flight at a time).
THEOREM OnceAndInOrder == Spec => []ExecutedOnceInOrder
<1>1. Init => PlaceInv /\ OrderInv
  BY InitPlaces, InitOrder
<1>2. (PlaceInv /\ OrderInv) /\ [Next]_vars => (PlaceInv /\ OrderInv)'
  BY StepKeeps, StepInLine
<1>3. OrderInv => ExecutedInOrder
  <2> SUFFICES ASSUME OrderInv, Quiet, NEW i \in DOMAIN executed, NEW j \in DOMAIN executed, i < j
               PROVE  \E k, l \in DOMAIN accepted :
                        k < l /\ accepted[k] = executed[i] /\ accepted[l] = executed[j]
    BY DEF ExecutedInOrder, Quiet
  <2>1. <<executed[i], executed[j]>> \in Earlier
    BY DEF OrderInv, InLine, LineUp, Ordered
  <2> QED
    BY <2>1 DEF Earlier
<1>4. Spec => []AtMostOnce
  BY NothingTwice
<1> QED
  BY <1>1, <1>2, <1>3, <1>4, PTL DEF Spec, ExecutedOnceInOrder

-----------------------------------------------------------------------------
(* Whose reply a call is given. *)

Punctual == "late" \notin disturbed

\* Every connection belongs to one worker, and a new one has nothing on it.
OwnConnection ==
  /\ \A w \in Workers : conn[w] <= opened
  /\ \A v, w \in Workers : v # w /\ conn[w] # 0 => conn[v] # conn[w]
  /\ \A k \in Conns : k > opened => inbox[k] = <<>> /\ wire[k] = <<>>

\* On the connection of a worker is its request, or else the rest of its
\* reply, or nothing after the engine has restarted; and nothing between two.
Idle(w) == buf[w] = <<>> /\ (conn[w] # 0 => inbox[conn[w]] = <<>> /\ wire[conn[w]] = <<>>)
Asked(w) == inbox[conn[w]] = <<req[w]>> /\ wire[conn[w]] = <<>> /\ buf[w] = <<>>
Replied(w) == inbox[conn[w]] = <<>> /\ buf[w] \o wire[conn[w]] = Reply(req[w])
CutOff(w) == /\ inbox[conn[w]] = <<>> /\ wire[conn[w]] = <<>>
             /\ buf[w] # <<>> => buf[w][1] = Line(req[w], "status")
OwnLines ==
  \A w \in Workers : IF at[w] = "read" THEN Asked(w) \/ Replied(w) \/ CutOff(w) ELSE Idle(w)
OwnAnswers == \A c \in Calls : answer[c] \in Lines => answer[c] = Line(c, "status")
ReplyInv == OwnConnection /\ (Punctual => OwnLines /\ OwnAnswers)

-----------------------------------------------------------------------------
\* A reply begins with its status line.
LEMMA StatusFirst ==
  ASSUME NEW c \in Calls
  PROVE  Reply(c) \in Seq(Lines) /\ Reply(c) # <<>> /\ Reply(c)[1] = Line(c, "status")
<1>1. Kind[c] \in Kinds
  BY CallsAssumption
<1> QED
  BY <1>1, ReplyLines DEF Reply, Kinds

\* What has been read of a reply begins with it.
LEMMA PrefixFirst ==
  ASSUME NEW c \in Calls, NEW b \in Seq(Lines), NEW r \in Seq(Lines), b \o r = Reply(c), b # <<>>
  PROVE  b[1] = Line(c, "status")
<1>1. (b \o r)[1] = b[1]
  OBVIOUS
<1> QED
  BY <1>1, StatusFirst

\* What is taken as a whole frame is a whole reply.
LEMMA FrameIsWhole ==
  ASSUME NEW c \in Calls, NEW b \in Seq(Lines), NEW r \in Seq(Lines), b \o r = Reply(c), Framed(b)
  PROVE  r = <<>>
<1>1. b # <<>> /\ b[1] = Line(c, "status")
  BY PrefixFirst DEF Framed
<1>2. b[1].part = "status" /\ b[1].of = c
  BY <1>1 DEF Line
<1>3. /\ Len(b) \in Nat \ {0} /\ Len(r) \in Nat /\ Len(b) + Len(r) = Len(Reply(c))
      /\ \A i \in 1..Len(b) : b[i] = Reply(c)[i]
  <2>1. Len(b \o r) = Len(b) + Len(r) /\ \A i \in 1..Len(b) : (b \o r)[i] = b[i]
    OBVIOUS
  <2> QED
    BY <1>1, <2>1
<1>4. CASE Kind[c] \in {"ack", "bare"}
  <2>1. Len(Reply(c)) = 1
    BY <1>4 DEF Reply
  <2> QED
    BY <1>3, <2>1
<1>5. CASE Kind[c] \in {"one", "echo"}
  <2>1. Len(Reply(c)) = 2 /\ Len(b) > 1
    BY <1>2, <1>5 DEF Reply, Framed
  <2> QED
    BY <1>3, <2>1
<1>6. CASE Kind[c] = "block"
  <2>1. /\ Len(Reply(c)) = 3 /\ Reply(c)[1].part = "status" /\ Reply(c)[2].part = "data"
    BY <1>6 DEF Reply, Line
  <2>2. PICK i \in 1..Len(b) : b[i].part = "end"
    BY <1>2, <1>6 DEF Framed
  <2>3. i # 1 /\ i # 2
    BY <1>3, <2>1, <2>2
  <2> QED
    BY <1>3, <2>1, <2>2, <2>3
<1> QED
  BY <1>4, <1>5, <1>6, CallsAssumption DEF Kinds

\* A chunk of what is on the wire, and what is left of it.
LEMMA Chunk ==
  ASSUME NEW S, NEW t \in Seq(S), NEW n \in 1..Len(t)
  PROVE  /\ SubSeq(t, 1, n) \in Seq(S) /\ SubSeq(t, 1, n) # <<>>
         /\ SubSeq(t, n + 1, Len(t)) \in Seq(S)
         /\ SubSeq(t, 1, n) \o SubSeq(t, n + 1, Len(t)) = t
<1>1. \A i \in 1..Len(t) : t[i] \in S
  OBVIOUS
<1>2. SubSeq(t, 1, n) \in Seq(S) /\ Len(SubSeq(t, 1, n)) = n
  <2>1. \A i \in 1..n : t[i] \in S
    BY <1>1
  <2>2. 1 \in Int /\ n \in Int /\ 1 <= n /\ n - 1 + 1 = n
    OBVIOUS
  <2> QED
    BY <2>1, <2>2, SubSeqProperties
<1>3. SubSeq(t, n + 1, Len(t)) \in Seq(S)
  <2>1. \A i \in (n + 1)..Len(t) : t[i] \in S
    BY <1>1, SMTT(60)
  <2> QED
    BY <2>1, SubSeqProperties
<1>4. SubSeq(t, 1, n) \o SubSeq(t, n + 1, Len(t)) = t
  <2>1. SubSeq(t, 1, n) \o SubSeq(t, n + 1, Len(t)) = SubSeq(t, 1, Len(t))
    <3>1. 1 \in 1..(Len(t) + 1) /\ n \in (1 - 1)..Len(t) /\ Len(t) \in n..Len(t)
      OBVIOUS
    <3> QED
      BY <3>1, ConcatAdjacentSubSeq
  <2>2. SubSeq(t, 1, Len(t)) = t
    BY SubSeqFull
  <2> QED
    BY <2>1, <2>2
<1>5. Len(<<>>) = 0 /\ n # 0
  OBVIOUS
<1> QED
  BY <1>2, <1>3, <1>4, <1>5

\* What has been read and what is left still make up the whole.
LEMMA ReadSplits ==
  ASSUME NEW S, NEW s \in Seq(S), NEW h \in Seq(S), NEW r \in Seq(S), h # <<>>
  PROVE  s \o h \in Seq(S) /\ s \o h # <<>> /\ (s \o h) \o r = s \o (h \o r)
<1>1. (s \o h) \o r = s \o (h \o r)
  BY ConcatAssociative, SMTT(60)
<1>2. s \o h \in Seq(S) /\ s \o h # <<>>
  OBVIOUS
<1> QED
  BY <1>1, <1>2

\* The same of the lines of the engine.
LEMMA LinesSplit ==
  \A s, h, r \in Seq(Lines) : h # <<>> =>
    s \o h \in Seq(Lines) /\ s \o h # <<>> /\ (s \o h) \o r = s \o (h \o r)
BY ReadSplits, SMTT(60)

\* An error is no line of the engine.
LEMMA ErrorsAreNoLines == Unsent \notin Lines /\ Lost \notin Lines /\ None \notin Lines
BY CallsAssumption DEF Unsent, Lost, None, Line, Lines

-----------------------------------------------------------------------------
\* At first there is no connection.
LEMMA InitReply == Init => ReplyInv
<1> SUFFICES ASSUME Init PROVE ReplyInv
  OBVIOUS
<1>1. OwnConnection
  BY DEF Init, OwnConnection
<1>2. OwnLines
  BY DEF Init, OwnLines, Idle
<1>3. OwnAnswers
  BY ErrorsAreNoLines DEF Init, OwnAnswers
<1> QED
  BY <1>1, <1>2, <1>3 DEF ReplyInv

\* Nothing on a worker's connection and in its hands changes.
LEMMA LinesStand ==
  ASSUME NEW w \in Workers, IF at[w] = "read" THEN Asked(w) \/ Replied(w) \/ CutOff(w) ELSE Idle(w),
         at'[w] = at[w] \/ {at[w], at'[w]} \cap {"read"} = {}, at[w] = "read" => req'[w] = req[w],
         conn'[w] = conn[w], buf'[w] = buf[w],
         conn[w] # 0 \/ at[w] = "read" => inbox'[conn[w]] = inbox[conn[w]] /\ wire'[conn[w]] = wire[conn[w]]
  PROVE  (IF at[w] = "read" THEN Asked(w) \/ Replied(w) \/ CutOff(w) ELSE Idle(w))'
<1>1. CASE at[w] = "read"
  BY <1>1 DEF Asked, Replied, CutOff
<1>2. CASE at[w] # "read"
  BY <1>2 DEF Idle
<1> QED
  BY <1>1, <1>2

\* The other workers' connections are left alone.
LEMMA OthersStand ==
  ASSUME PlaceInv, OwnConnection, OwnLines, NEW w \in Workers,
         \A v \in Workers \ {w} : /\ at'[v] = at[v] /\ req'[v] = req[v]
                                  /\ conn'[v] = conn[v] /\ buf'[v] = buf[v],
         \A k \in Conns : k # conn[w] => inbox'[k] = inbox[k] /\ wire'[k] = wire[k],
         (IF at[w] = "read" THEN Asked(w) \/ Replied(w) \/ CutOff(w) ELSE Idle(w))'
  PROVE  OwnLines'
<1> SUFFICES ASSUME NEW v \in Workers \ {w}
             PROVE  (IF at[v] = "read" THEN Asked(v) \/ Replied(v) \/ CutOff(v) ELSE Idle(v))'
  BY DEF OwnLines
<1>1. conn[v] # 0 => conn[v] \in Conns /\ conn[v] # conn[w]
  BY DEF PlaceInv, PlaceType, OwnConnection, Conns
<1>2. at[v] = "read" => conn[v] # 0
  BY DEF PlaceInv, PlaceType
<1>3. IF at[v] = "read" THEN Asked(v) \/ Replied(v) \/ CutOff(v) ELSE Idle(v)
  BY DEF OwnLines
<1> QED
  BY <1>1, <1>2, <1>3, LinesStand

\* The callers only give errors out.
LEMMA ClientReplies ==
  ASSUME PlaceInv, ReplyInv, NEW c \in Calls, Client(c) PROVE ReplyInv'
<1>1. UNCHANGED <<at, req, conn, buf, inbox, wire, opened, disturbed>>
  BY DEF Client, Refuse, Offer, Enqueue, Closed, Dropped, workVars, engineVars, history
<1>2. answer' = answer \/ \E line \in {Unsent, Lost} : answer' = [answer EXCEPT ![c] = line]
  BY DEF Client, Refuse, Offer, Enqueue, Closed, Dropped, Answer
<1>3. OwnAnswers => OwnAnswers'
  BY <1>2, ErrorsAreNoLines, ZenonT(60) DEF OwnAnswers, PlaceInv, PlaceType
<1> QED
  BY <1>1, <1>3 DEF ReplyInv, OwnConnection, Punctual, OwnLines, Asked, Replied, CutOff, Idle

\* A worker gives out the first line of the reply to its own request.
LEMMA WorkingReplies ==
  ASSUME PlaceInv, ReplyInv, NEW w \in Workers, Working(w) PROVE ReplyInv'
<1> USE DEF PlaceInv, PlaceType
<1>1. CASE Connect(w)
  <2>1. /\ opened' = opened + 1 /\ opened' \in Conns /\ conn'[w] = opened' /\ at'[w] = "write"
        /\ at[w] = "connect" /\ opened \in Nat
        /\ \A v \in Workers \ {w} : conn'[v] = conn[v] /\ at'[v] = at[v]
        /\ UNCHANGED <<answer, req, buf, inbox, wire, disturbed>>
    BY <1>1, CallsAssumption DEF Connect, Conns, callVars, history
  <2>2. OwnConnection'
    <3>1. \A v \in Workers \ {w} : conn'[v] <= opened /\ conn'[v] \in 0..MaxConns
      BY <2>1 DEF ReplyInv, OwnConnection
    <3>2. \A v \in Workers : conn'[v] <= opened'
      <4>1. \A v \in Workers \ {w} : conn'[v] <= opened + 1
        BY <2>1, <3>1, CallsAssumption, SMTT(60)
      <4>2. opened + 1 <= opened + 1
        BY <2>1
      <4> QED
        BY <2>1, <4>1, <4>2
    <3>3. \A u, v \in Workers : u # v /\ conn'[v] # 0 => conn'[u] # conn'[v]
      BY <2>1, <3>1, SMTT(60) DEF ReplyInv, OwnConnection
    <3>4. \A k \in Conns : k > opened' => inbox'[k] = <<>> /\ wire'[k] = <<>>
      BY <2>1 DEF ReplyInv, OwnConnection, Conns
    <3> QED
      BY <3>2, <3>3, <3>4 DEF OwnConnection
  <2>3. ASSUME OwnLines PROVE OwnLines'
    <3>1. inbox[opened'] = <<>> /\ wire[opened'] = <<>> /\ buf[w] = <<>>
      BY <2>1, <2>3 DEF ReplyInv, OwnConnection, OwnLines, Idle
    <3>2. Idle(w)'
      BY <2>1, <3>1 DEF Idle
    <3> QED
      BY <2>1, <2>3, <3>2, OthersStand DEF ReplyInv
  <2> QED
    BY <2>1, <2>2, <2>3 DEF ReplyInv, Punctual, OwnAnswers
<1>2. ASSUME ~Connect(w) PROVE OwnConnection'
  <2>1. opened' = opened /\ (conn' = conn \/ conn' = [conn EXCEPT ![w] = 0])
    BY <1>2 DEF Working, Recv, ConnectFails, Write, WriteFails, Read, Gap, NoStatus, GiveUp, engineVars
  <2>2. \A k \in Conns : k # conn[w] => inbox'[k] = inbox[k] /\ wire'[k] = wire[k]
    <3>1. (inbox' = inbox \/ Write(w)) /\ (wire' = wire \/ GiveUp(w) \/ Read(w))
      BY <1>2 DEF Working, Recv, ConnectFails, Write, WriteFails, Read, Gap, NoStatus, GiveUp, engineVars
    <3>2. Write(w) => \A k \in Conns : k # conn[w] => inbox'[k] = inbox[k]
      BY DEF Write
    <3>3. GiveUp(w) \/ Read(w) => \A k \in Conns : k # conn[w] => wire'[k] = wire[k]
      BY DEF GiveUp, Read, LineType
    <3> QED
      BY <3>1, <3>2, <3>3, SMTT(60)
  <2>3. \A k \in Conns : k > opened => k # conn[w]
    BY DEF ReplyInv, OwnConnection, Conns
  <2>4. \A v \in Workers : conn'[v] \in {conn[v], 0}
    BY <2>1
  <2>5. \A v \in Workers : conn'[v] <= opened
    <3>1. 0 <= opened
      BY CallsAssumption
    <3> QED
      BY <2>4, <3>1 DEF ReplyInv, OwnConnection
  <2>6. \A u, v \in Workers : u # v /\ conn'[v] # 0 => conn'[u] # conn'[v]
    BY <2>4 DEF ReplyInv, OwnConnection
  <2> QED
    BY <2>1, <2>2, <2>3, <2>5, <2>6 DEF ReplyInv, OwnConnection
<1>3. ASSUME OwnLines, OwnAnswers, NEW line, Finish(w, line), req[w] \in Calls,
             line \in Lines => line = Line(req[w], "status"),
             UNCHANGED inbox, conn'[w] \in {conn[w], 0},
             \A v \in Workers \ {w} : conn'[v] = conn[v],
             \A k \in Conns : k # conn[w] => wire'[k] = wire[k],
             conn'[w] # 0 => inbox[conn[w]] = <<>> /\ wire'[conn[w]] = <<>>
      PROVE  OwnLines' /\ OwnAnswers'
  <2>1. /\ at'[w] = "recv" /\ buf'[w] = <<>>
        /\ \A v \in Workers \ {w} : at'[v] = at[v] /\ req'[v] = req[v] /\ buf'[v] = buf[v]
    BY <1>3 DEF Finish, LineType
  <2>2. Idle(w)'
    BY <1>3, <2>1 DEF Idle
  <2>3. OwnLines'
    BY <1>3, <2>1, <2>2, OthersStand, ZenonT(60) DEF ReplyInv
  <2>4. OwnAnswers'
    BY <1>3 DEF Finish, Answer, OwnAnswers
  <2> QED
    BY <2>3, <2>4
<1>4. ASSUME OwnLines, OwnAnswers, Recv(w) PROVE OwnLines' /\ OwnAnswers'
  <2>1. /\ UNCHANGED <<answer, conn, buf, inbox, wire>> /\ at[w] = "recv" /\ at'[w] # "read"
        /\ \A v \in Workers \ {w} : at'[v] = at[v] /\ req'[v] = req[v]
    BY <1>4 DEF Recv, callVars, engineVars
  <2>2. Idle(w)'
    BY <1>4, <2>1 DEF OwnLines, Idle
  <2> QED
    BY <1>4, <2>1, <2>2, OthersStand DEF ReplyInv, OwnAnswers
<1>5. ASSUME OwnLines, OwnAnswers, Write(w) PROVE OwnLines' /\ OwnAnswers'
  <2>1. /\ at[w] = "write" /\ at'[w] = "read" /\ conn[w] \in Conns /\ conn[w] # 0
        /\ UNCHANGED <<answer, req, conn, buf, wire>>
        /\ inbox'[conn[w]] = Append(inbox[conn[w]], req[w])
        /\ \A k \in Conns : k # conn[w] => inbox'[k] = inbox[k]
        /\ \A v \in Workers \ {w} : at'[v] = at[v]
    BY <1>5 DEF Write, callVars, Conns
  <2>2. inbox[conn[w]] = <<>> /\ wire[conn[w]] = <<>> /\ buf[w] = <<>>
    BY <1>5, <2>1 DEF OwnLines, Idle
  <2>3. Append(<<>>, req[w]) = <<req[w]>>
    OBVIOUS
  <2>4. Asked(w)'
    BY <2>1, <2>2, <2>3 DEF Asked
  <2> QED
    BY <1>5, <2>1, <2>4, OthersStand DEF ReplyInv, OwnAnswers
<1>6. ASSUME OwnLines, OwnAnswers, GiveUp(w), at[w] # "recv" PROVE OwnLines' /\ OwnAnswers'
  <2>1. /\ UNCHANGED inbox /\ Finish(w, Lost) /\ conn'[w] = 0
        /\ \A v \in Workers \ {w} : conn'[v] = conn[v]
        /\ \A k \in Conns : k # conn[w] => wire'[k] = wire[k]
    BY <1>6 DEF GiveUp, LineType
  <2>2. req[w] \in Calls
    BY <1>6
  <2> QED
    BY <1>3, <1>6, <2>1, <2>2, ErrorsAreNoLines
<1>7. ASSUME OwnLines, OwnAnswers, ConnectFails(w) PROVE OwnLines' /\ OwnAnswers'
  <2>1. UNCHANGED <<inbox, wire, conn>> /\ Finish(w, Unsent) /\ req[w] \in Calls
    BY <1>7 DEF ConnectFails, engineVars
  <2>2. conn[w] # 0 => inbox[conn[w]] = <<>> /\ wire[conn[w]] = <<>>
    BY <1>7 DEF ConnectFails, OwnLines, Idle
  <2> QED
    BY <1>3, <1>7, <2>1, <2>2, ErrorsAreNoLines
<1>8. ASSUME OwnLines, OwnAnswers, Read(w) PROVE OwnLines' /\ OwnAnswers'
  <2> DEFINE k == conn[w]
             b(n) == buf[w] \o SubSeq(wire[k], 1, n)
  <2>1. PICK n \in 1..Len(wire[k]) :
          /\ wire' = [wire EXCEPT ![k] = SubSeq(@, n + 1, Len(@))]
          /\ IF Framed(b(n)) THEN Finish(w, b(n)[1])
             ELSE /\ buf' = [buf EXCEPT ![w] = b(n)]
                  /\ UNCHANGED <<callVars, sender, alive, queue, at, req>>
    BY <1>8 DEF Read
  <2> DEFINE rest == SubSeq(wire[k], n + 1, Len(wire[k]))
  <2>2. /\ k \in Conns /\ k # 0 /\ wire[k] \in Seq(Lines) /\ buf[w] \in Seq(Lines)
        /\ at[w] = "read" /\ req[w] \in Calls /\ UNCHANGED <<conn, inbox>>
    BY <1>8, SMTT(60) DEF Read, LineType, Conns
  <2>3. Replied(w)
    BY <1>8, <2>1, <2>2, SMTT(60) DEF OwnLines, Asked, CutOff
  <2>4. /\ b(n) \in Seq(Lines) /\ rest \in Seq(Lines) /\ b(n) \o rest = Reply(req[w]) /\ b(n) # <<>>
    <3>1. buf[w] \o wire[k] = Reply(req[w])
      BY <2>3 DEF Replied
    <3> DEFINE head == SubSeq(wire[k], 1, n)
    <3>2. head \in Seq(Lines) /\ head # <<>> /\ rest \in Seq(Lines) /\ head \o rest = wire[k]
      <4>1. \A t \in Seq(Lines) : \A i \in 1..Len(t) :
              /\ SubSeq(t, 1, i) \in Seq(Lines) /\ SubSeq(t, 1, i) # <<>>
              /\ SubSeq(t, i + 1, Len(t)) \in Seq(Lines)
              /\ SubSeq(t, 1, i) \o SubSeq(t, i + 1, Len(t)) = t
        BY Chunk
      <4>2. wire[k] \in Seq(Lines) /\ n \in 1..Len(wire[k])
        BY <2>1, <2>2
      <4> QED
        BY <4>1, <4>2, Zenon
    <3>3. b(n) \in Seq(Lines) /\ b(n) # <<>> /\ b(n) \o rest = buf[w] \o (head \o rest)
      BY <2>2, <3>2, LinesSplit, ZenonT(60)
    <3> QED
      BY <3>1, <3>2, <3>3, Zenon
  <2>5. wire'[k] = rest /\ \A j \in Conns : j # k => wire'[j] = wire[j]
    BY <2>1, <2>2 DEF LineType
  <2>6. inbox[k] = <<>>
    BY <2>3 DEF Replied
  <2>7. CASE Framed(b(n))
    <3>1. rest = <<>> /\ b(n)[1] = Line(req[w], "status")
      BY <2>2, <2>4, <2>7, FrameIsWhole, PrefixFirst, ZenonT(60)
    <3>2. Finish(w, b(n)[1])
      BY <2>1, <2>7
    <3> QED
      BY <1>3, <1>8, <2>2, <2>5, <2>6, <3>1, <3>2
  <2>8. CASE ~Framed(b(n))
    <3>1. buf' = [buf EXCEPT ![w] = b(n)] /\ UNCHANGED <<answer, at, req>>
      BY <2>1, <2>8 DEF callVars
    <3>2. buf'[w] = b(n) /\ \A v \in Workers \ {w} : buf'[v] = buf[v]
      BY <3>1 DEF LineType
    <3>3. Replied(w)'
      BY <2>2, <2>4, <2>5, <2>6, <3>1, <3>2 DEF Replied
    <3> QED
      BY <1>8, <2>2, <2>5, <3>1, <3>2, <3>3, OthersStand, ZenonT(60) DEF ReplyInv, OwnAnswers
  <2> QED
    BY <2>7, <2>8
<1>9. ASSUME OwnLines, OwnAnswers, Gap(w), Punctual' PROVE OwnLines' /\ OwnAnswers'
  <2>1. /\ wire[conn[w]] = <<>> /\ buf[w] # <<>> /\ at[w] = "read" /\ Finish(w, buf[w][1])
        /\ UNCHANGED <<conn, inbox, wire>> /\ req[w] \in Calls /\ buf[w] \in Seq(Lines)
    BY <1>9 DEF Gap, Disturb, Punctual, engineVars, LineType
  <2>2. inbox[conn[w]] = <<>> /\ buf[w][1] = Line(req[w], "status")
    <3>1. CASE Replied(w)
      <4>1. <<>> \in Seq(Lines) /\ buf[w] \o <<>> = Reply(req[w])
        BY <2>1, <3>1 DEF Replied
      <4> QED
        BY <2>1, <3>1, <4>1, PrefixFirst DEF Replied
    <3>2. CASE CutOff(w)
      BY <2>1, <3>2 DEF CutOff
    <3> QED
      BY <1>9, <2>1, <3>1, <3>2 DEF OwnLines, Asked
  <2> QED
    BY <1>3, <1>9, <2>1, <2>2
<1>10. Punctual' => Punctual
  BY DEF Punctual, Working, Recv, Connect, ConnectFails, Write, WriteFails, Read, Gap, NoStatus,
         Disturb, history
<1> QED
  BY <1>1, <1>2, <1>4, <1>5, <1>6, <1>7, <1>8, <1>9, <1>10
  DEF Working, WriteFails, NoStatus, ReplyInv

\* The engine's lines go to who asked, and a restart cuts them off.
LEMMA OutsideReplies ==
  ASSUME PlaceInv, ReplyInv,
         \/ \E w \in Workers : Retire(w) \/ Panic(w)
         \/ (\E k \in Conns : Engine(k)) \/ EngineRestarts \/ AllDone
  PROVE  ReplyInv'
<1> USE DEF PlaceInv, PlaceType
<1>1. CASE (\E w \in Workers : Retire(w)) \/ AllDone
  <2>1. UNCHANGED <<answer, at, req, conn, buf, inbox, wire, opened, disturbed>>
    BY <1>1 DEF Retire, AllDone, vars, callVars, workVars, engineVars, history
  <2> QED
    BY <2>1 DEF ReplyInv, OwnConnection, Punctual, OwnLines, Asked, Replied, CutOff, Idle, OwnAnswers
<1>2. CASE \E w \in Workers : Panic(w)
  <2> PICK w \in Workers : Panic(w)
    BY <1>2
  <2>1. /\ UNCHANGED <<answer, inbox, wire, opened>> /\ disturbed' = disturbed \cup {"panic"}
        /\ conn'[w] = 0 /\ at'[w] = "recv" /\ buf'[w] = <<>>
        /\ \A v \in Workers \ {w} : /\ at'[v] = at[v] /\ req'[v] = req[v]
                                    /\ conn'[v] = conn[v] /\ buf'[v] = buf[v]
    BY DEF Panic, Disturb, engineVars, LineType
  <2>2. OwnConnection'
    <3>1. conn'[w] <= opened
      BY <2>1, CallsAssumption
    <3>2. \A v \in Workers : conn'[v] = conn[v] \/ conn'[v] = 0
      BY <2>1
    <3>3. \A v \in Workers : conn'[v] <= opened'
      BY <2>1, <3>1 DEF ReplyInv, OwnConnection
    <3>4. \A u, v \in Workers : u # v /\ conn'[v] # 0 => conn'[u] # conn'[v]
      BY <3>2 DEF ReplyInv, OwnConnection
    <3>5. \A j \in Conns : j > opened' => inbox'[j] = <<>> /\ wire'[j] = <<>>
      BY <2>1 DEF ReplyInv, OwnConnection
    <3> QED
      BY <3>3, <3>4, <3>5 DEF OwnConnection
  <2>3. Idle(w)'
    BY <2>1 DEF Idle
  <2>4. OwnLines => OwnLines'
    BY <2>1, <2>3, OthersStand DEF ReplyInv
  <2> QED
    BY <2>1, <2>2, <2>4 DEF ReplyInv, Punctual, OwnAnswers
<1>3. CASE \E k \in Conns : Engine(k)
  <2> PICK k \in Conns : Engine(k)
    BY <1>3
  <2>1. /\ inbox[k] # <<>> /\ inbox[k] \in Seq(Calls) /\ inbox'[k] = Tail(inbox[k])
        /\ \A j \in Conns \ {k} : inbox'[j] = inbox[j] /\ wire'[j] = wire[j]
        /\ UNCHANGED <<answer, at, req, conn, buf, opened, disturbed>>
    BY DEF Engine, Execute, callVars, workVars, history, LineType
  <2>2. OwnConnection'
    <3>1. k <= opened
      BY <2>1 DEF ReplyInv, OwnConnection, Conns
    <3>2. \A j \in Conns : j > opened => j # k
      BY <3>1 DEF Conns
    <3> QED
      BY <2>1, <3>2 DEF ReplyInv, OwnConnection
  <2>3. ASSUME OwnLines PROVE OwnLines'
    <3>1. CASE \A w \in Workers : conn[w] # k
      <4> SUFFICES ASSUME NEW w \in Workers
                   PROVE  (IF at[w] = "read" THEN Asked(w) \/ Replied(w) \/ CutOff(w) ELSE Idle(w))'
        BY DEF OwnLines
      <4>1. conn[w] # 0 => inbox'[conn[w]] = inbox[conn[w]] /\ wire'[conn[w]] = wire[conn[w]]
        <5>1. conn[w] # 0 => conn[w] \in Conns \ {k}
          BY <3>1 DEF Conns
        <5> QED
          BY <2>1, <5>1
      <4>2. at[w] = "read" => conn[w] # 0
        OBVIOUS
      <4>3. IF at[w] = "read" THEN Asked(w) \/ Replied(w) \/ CutOff(w) ELSE Idle(w)
        BY <2>3 DEF OwnLines
      <4> QED
        BY <2>1, <4>1, <4>2, <4>3, LinesStand
    <3>2. CASE \E w \in Workers : conn[w] = k
      <4> PICK w \in Workers : conn[w] = k
        BY <3>2
      <4>a. k # 0
        BY DEF Conns
      <4>1. at[w] = "read" /\ Asked(w)
        BY <2>1, <2>3, <4>a DEF OwnLines, Idle, Replied, CutOff
      <4>2. inbox[k] = <<req[w]>> /\ wire[k] = <<>> /\ buf[w] = <<>> /\ req[w] \in Calls
        BY <4>1 DEF Asked
      <4>3. Head(inbox[k]) = req[w] /\ Tail(inbox[k]) = <<>>
        BY <4>2
      <4>4. wire'[k] = <<>> \o Reply(req[w])
        BY <4>2, <4>3 DEF Engine, Execute, LineType
      <4>5. <<>> \o (<<>> \o Reply(req[w])) = Reply(req[w])
        BY <4>2, StatusFirst, ConcatEmptySeq
      <4>6. Replied(w)'
        BY <2>1, <4>2, <4>3, <4>4, <4>5 DEF Replied
      <4> QED
        BY <2>1, <2>3, <4>1, <4>6, OthersStand, SMTT(60) DEF ReplyInv
    <3> QED
      BY <3>1, <3>2
  <2> QED
    BY <2>1, <2>2, <2>3 DEF ReplyInv, Punctual, OwnAnswers
<1>4. CASE EngineRestarts
  <2>1. /\ \A k \in Conns : inbox'[k] = <<>> /\ wire'[k] = <<>>
        /\ UNCHANGED <<answer, at, req, conn, buf, opened, disturbed>>
    BY <1>4 DEF EngineRestarts, callVars, workVars
  <2>2. OwnConnection'
    BY <2>1 DEF ReplyInv, OwnConnection
  <2>3. ASSUME OwnLines PROVE OwnLines'
    <3> SUFFICES ASSUME NEW w \in Workers
                 PROVE  (IF at[w] = "read" THEN Asked(w) \/ Replied(w) \/ CutOff(w) ELSE Idle(w))'
      BY DEF OwnLines
    <3>1. conn[w] # 0 => conn[w] \in Conns
      BY DEF Conns
    <3>2. CASE at[w] = "read"
      <4>1. req[w] \in Calls /\ conn[w] \in Conns /\ buf[w] \in Seq(Lines)
        BY <3>1, <3>2 DEF LineType
      <4>2. buf[w] # <<>> => buf[w][1] = Line(req[w], "status")
        BY <2>3, <3>2, <4>1, PrefixFirst, ZenonT(60) DEF OwnLines, Asked, Replied, CutOff,
             LineType
      <4> QED
        BY <2>1, <3>2, <4>1, <4>2 DEF CutOff
    <3>3. CASE at[w] # "read"
      BY <2>1, <2>3, <3>1, <3>3 DEF OwnLines, Idle
    <3> QED
      BY <3>2, <3>3
  <2> QED
    BY <2>1, <2>2, <2>3 DEF ReplyInv, Punctual, OwnAnswers
<1> QED
  BY <1>1, <1>2, <1>3, <1>4

\* Every step keeps it.
LEMMA StepReplies == PlaceInv /\ ReplyInv /\ [Next]_vars => ReplyInv'
<1> SUFFICES ASSUME PlaceInv, ReplyInv, [Next]_vars PROVE ReplyInv'
  OBVIOUS
<1>1. CASE UNCHANGED vars
  <2>1. UNCHANGED <<answer, at, req, conn, buf, inbox, wire, opened, disturbed>>
    BY <1>1 DEF vars, callVars, workVars, engineVars, history
  <2>2. (OwnConnection <=> OwnConnection') /\ (Punctual <=> Punctual') /\ (OwnAnswers <=> OwnAnswers')
    BY <2>1 DEF OwnConnection, Punctual, OwnAnswers
  <2>3. OwnLines <=> OwnLines'
    BY <2>1 DEF OwnLines, Asked, Replied, CutOff, Idle
  <2> QED
    BY <2>2, <2>3 DEF ReplyInv
<1>2. CASE Next
  <2>1. CASE \E c \in Calls : Client(c)
    BY <2>1, ClientReplies
  <2>2. CASE \E w \in Workers : Working(w)
    BY <2>2, WorkingReplies
  <2>3. CASE ~(\E c \in Calls : Client(c)) /\ ~(\E w \in Workers : Working(w))
    <3>1. \/ \E w \in Workers : Retire(w) \/ Panic(w)
          \/ (\E k \in Conns : Engine(k)) \/ EngineRestarts \/ AllDone
      BY <1>2, <2>3 DEF Next
    <3> QED
      BY <3>1, OutsideReplies
  <2> QED
    BY <2>1, <2>2, <2>3
<1> QED
  BY <1>1, <1>2

-----------------------------------------------------------------------------
\* An answered call holds the engine's reply to its own command, across
\* reconnects, restarts of the engine and lost workers, as long as no body
\* came after the read gap (amcp.rs, read_framed_reply and amcp_worker).
THEOREM ReplyBelongs == Spec => []ReplyIsOwn
<1>1. Init => PlaceInv /\ ReplyInv
  BY InitPlaces, InitReply
<1>2. (PlaceInv /\ ReplyInv) /\ [Next]_vars => (PlaceInv /\ ReplyInv)'
  BY StepKeeps, StepReplies
<1>3. ReplyInv => ReplyIsOwn
  BY DEF ReplyInv, Punctual, OwnAnswers, ReplyIsOwn
<1> QED
  BY <1>1, <1>2, <1>3, PTL DEF Spec
=============================================================================
