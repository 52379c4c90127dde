--------------------------- MODULE RecoveryProofs ---------------------------
(***************************************************************************)
(* AutoRelaunchBounded for every threshold, length of the journal and      *)
(* number of launches, and ResumePointKept for every rundown and length.   *)
(***************************************************************************)
EXTENDS Recovery, FiniteSetTheorems, TLAPS

Session == [id : Nat, clean : BOOLEAN]

JournalType ==
  /\ journal \in Seq(Session) /\ launches \in Nat /\ old \in 0..launches
  /\ automatic \in SUBSET ((old + 1)..launches)
  /\ allowed \in BOOLEAN /\ replacement \in BOOLEAN /\ "sessions" \in DOMAIN mem

\* The journal holds the last sessions, in the order of their launches.
LastSessions ==
  /\ Len(journal) \in {launches, JournalLen}
  /\ Len(journal) <= launches /\ Len(journal) <= JournalLen
  /\ \A i \in 1..Len(journal) : journal[i].id = launches - Len(journal) + i

LastUnclean == launches >= 1 /\ ~journal[Len(journal)].clean

\* A session is unclean until it ends otherwise, and stays so when it is
\* followed by an automatic relaunch.
RunningIsUnclean == app = "up" => mem.sessions = journal /\ ~replacement /\ LastUnclean
ReplacedIsUnclean == replacement => LastUnclean
Predecessors ==
  \A i \in 1..Len(journal) : journal[i].id + 1 \in automatic => ~journal[i].clean

\* Relaunches after session k, and the brake: a session that may be followed
\* by another relaunch has seen less than Threshold crashes.
Since(k) == {a \in automatic : a > k}
Bounded ==
  \A k \in old..launches : launches - k <= JournalLen => Cardinality(Since(k)) <= Threshold + 1
Brake ==
  allowed \/ replacement =>
    \A k \in old..launches : launches - k < JournalLen => Cardinality(Since(k)) <= Threshold

RelaunchInv ==
  /\ JournalType /\ LastSessions /\ RunningIsUnclean /\ ReplacedIsUnclean
  /\ Predecessors /\ Bounded /\ Brake

-----------------------------------------------------------------------------
\* The relaunches of a set are finitely many.
LEMMA SinceFinite ==
  ASSUME JournalType, NEW k
  PROVE  IsFiniteSet(automatic) /\ IsFiniteSet(Since(k)) /\ Cardinality(Since(k)) \in Nat
<1>1. IsFiniteSet((old + 1)..launches)
  BY FS_Interval DEF JournalType
<1>2. IsFiniteSet(automatic)
  BY <1>1, FS_Subset DEF JournalType
<1>3. IsFiniteSet(Since(k))
  BY <1>2, FS_Subset DEF Since
<1> QED
  BY <1>2, <1>3, FS_CardinalityType

\* Relaunches that each follow a crash on record, but for the first, are one
\* more than the crashes at most.
LEMMA CrashesCount ==
  ASSUME JournalType, LastSessions, NEW k \in old..launches, launches + 1 - k < JournalLen,
         NEW A \in SUBSET ((k + 1)..(launches + 1)),
         \A a \in A, i \in 1..Len(journal) : journal[i].id + 1 = a => ~journal[i].clean
  PROVE  Cardinality(A) <= Crashes(journal) + 1 /\ Crashes(journal) \in Nat
<1> DEFINE C == {i \in DOMAIN journal : ~journal[i].clean /\ journal[i].id > old}
           B == A \ {k + 1}
           first == launches - Len(journal)
           f == [a \in B |-> a - 1 - first]
<1>1. IsFiniteSet(A)
  <2>1. k + 1 \in Int /\ launches + 1 \in Int
    BY DEF JournalType
  <2>2. IsFiniteSet((k + 1)..(launches + 1))
    BY <2>1, FS_Interval
  <2> QED
    BY <2>2, FS_Subset
<1>2. IsFiniteSet(C)
  <2>1. DOMAIN journal = 1..Len(journal) /\ Len(journal) \in Nat
    BY DEF JournalType
  <2>2. IsFiniteSet(1..Len(journal))
    BY <2>1, FS_Interval
  <2> QED
    BY <2>1, <2>2, FS_Subset
<1>3. f \in Injection(B, C)
  <2>1. ASSUME NEW a \in B PROVE a \in Nat /\ a - 1 - first \in C
    <3>1. /\ a \in A /\ a \in (k + 2)..(launches + 1) /\ k \in Nat /\ launches \in Nat
          /\ Len(journal) \in Nat /\ first \in Nat /\ first = launches - Len(journal)
      BY DEF JournalType, LastSessions
    <3>2. a - 1 - first \in 1..Len(journal)
      BY <3>1, RecoveryAssumption DEF LastSessions
    <3>3. journal[a - 1 - first].id = a - 1
      BY <3>1, <3>2 DEF LastSessions
    <3>4. ~journal[a - 1 - first].clean
      BY <3>1, <3>2, <3>3, SMTT(60)
    <3>5. journal[a - 1 - first].id > old /\ DOMAIN journal = 1..Len(journal)
      BY <3>1, <3>3 DEF JournalType
    <3> QED
      BY <3>1, <3>2, <3>4, <3>5
  <2>2. first \in Int
    BY DEF JournalType
  <2>3. ASSUME NEW a \in B, NEW b \in B, f[a] = f[b] PROVE a = b
    BY <2>1, <2>2, <2>3
  <2> QED
    BY <2>1, <2>3 DEF Injection, IsInjective
<1>4. Cardinality(B) <= Cardinality(C)
  BY <1>2, <1>3, FS_Injection
<1>5. Cardinality(A) <= Cardinality(B) + 1 /\ Cardinality(A) \in Nat /\ Cardinality(B) \in Nat
  <2>1. Cardinality(A) \in Nat
    BY <1>1, FS_CardinalityType
  <2>2. Cardinality(B) = IF k + 1 \in A THEN Cardinality(A) - 1 ELSE Cardinality(A)
    BY <1>1, FS_RemoveElement
  <2>3. Cardinality(B) \in Nat
    BY <1>1, FS_RemoveElement, FS_CardinalityType
  <2> QED
    BY <2>1, <2>2, <2>3
<1>6. Cardinality(C) \in Nat /\ Crashes(journal) = Cardinality(C)
  BY <1>2, FS_CardinalityType DEF Crashes
<1> QED
  BY <1>4, <1>5, <1>6

-----------------------------------------------------------------------------
\* Nothing is on record before the first launch.
LEMMA InitRelaunch == Init => RelaunchInv
<1> SUFFICES ASSUME Init PROVE RelaunchInv
  OBVIOUS
<1>1. JournalType
  <2>1. "sessions" \in DOMAIN mem
    BY DEF Init, FreshMem
  <2>2. journal \in Seq(Session)
    BY DEF Init
  <2>3. launches = 0 /\ old = 0 /\ automatic = {} /\ allowed = FALSE /\ replacement = FALSE
    BY DEF Init
  <2>4. automatic \in SUBSET ((old + 1)..launches)
    BY <2>3, Zenon
  <2>5. launches \in Nat /\ old \in 0..launches
    BY <2>3
  <2>6. allowed \in BOOLEAN /\ replacement \in BOOLEAN
    BY <2>3, Zenon
  <2> QED
    BY <2>1, <2>2, <2>4, <2>5, <2>6, Zenon DEF JournalType
<1>2. Len(journal) = 0 /\ launches = 0 /\ app = "down" /\ replacement = FALSE /\ allowed = FALSE
  BY DEF Init
<1>3. LastSessions /\ RunningIsUnclean /\ ReplacedIsUnclean /\ Predecessors
  BY <1>2, RecoveryAssumption
  DEF LastSessions, RunningIsUnclean, ReplacedIsUnclean, Predecessors
<1>4. \A k : Since(k) = {}
  BY DEF Init, Since
<1>5. Bounded /\ Brake
  BY <1>2, <1>4, FS_EmptySet, RecoveryAssumption DEF Bounded, Brake
<1> QED
  BY <1>1, <1>3, <1>5 DEF RelaunchInv

\* Takes, positions, checkpoints and the watchdog of the page do not touch the
\* sessions on record.
LEMMA QuietKeeps ==
  ASSUME RelaunchInv, UNCHANGED <<app, journal, launches, old, automatic, allowed, replacement>>,
         mem'.sessions = mem.sessions, "sessions" \in DOMAIN mem'
  PROVE  RelaunchInv'
BY DEF RelaunchInv, JournalType, LastSessions, RunningIsUnclean, ReplacedIsUnclean, LastUnclean,
       Predecessors, Bounded, Brake, Since

\* A session that ends leaves its entry as it is, or marks it. Only one that is
\* unclean is followed by a relaunch, and only where the brake is off.
LEMMA EndKeeps ==
  ASSUME RelaunchInv, UNCHANGED <<journal, launches, old, automatic>>,
         app' \in {"down", "exiting"}, "sessions" \in DOMAIN mem',
         allowed' \in {allowed, FALSE},
         replacement' \in {replacement, FALSE} \/ (replacement' = allowed /\ app = "up")
  PROVE  RelaunchInv'
<1>1. JournalType'
  BY DEF RelaunchInv, JournalType
<1>2. (LastSessions /\ Predecessors /\ Bounded)'
  BY DEF RelaunchInv, LastSessions, Predecessors, Bounded, Since
<1>3. RunningIsUnclean' /\ ReplacedIsUnclean'
  <2>1. RunningIsUnclean'
    BY DEF RunningIsUnclean
  <2>2. replacement' => replacement \/ app = "up"
    BY DEF RelaunchInv, JournalType
  <2>3. replacement \/ app = "up" => LastUnclean
    BY DEF RelaunchInv, ReplacedIsUnclean, RunningIsUnclean
  <2> QED
    BY <2>1, <2>2, <2>3 DEF ReplacedIsUnclean, LastUnclean
<1>4. allowed' \/ replacement' => allowed \/ replacement
  BY DEF RelaunchInv, JournalType
<1>5. Brake'
  BY <1>4 DEF RelaunchInv, Brake, Since
<1> QED
  BY <1>1, <1>2, <1>3, <1>5 DEF RelaunchInv

\* The exit marks the last session, and no other; a relaunch leaves it unclean.
LEMMA MarkExitKeeps ==
  ASSUME RelaunchInv, NEW clean \in BOOLEAN, app = "up", MarkExit(clean), allowed' = allowed,
         replacement' = replacement \/ (replacement' = TRUE /\ allowed /\ clean = FALSE)
  PROVE  RelaunchInv'
<1>1. mem.sessions = journal /\ ~replacement /\ LastUnclean
  BY DEF RelaunchInv, RunningIsUnclean
<1>2. journal' = Closed(journal, launches, clean) /\ "sessions" \in DOMAIN mem'
  BY <1>1 DEF MarkExit, Remember, RelaunchInv, JournalType
<1>3. /\ Len(journal') = Len(journal) /\ Len(journal) \in Nat
      /\ journal' \in Seq(Session)
      /\ \A i \in 1..Len(journal) :
           /\ journal'[i].id = journal[i].id
           /\ journal'[i].clean = IF journal[i].id = launches THEN clean ELSE journal[i].clean
  <2> DEFINE n == Len(journal)
             s == [i \in 1..n |-> IF journal[i].id = launches
                                  THEN [journal[i] EXCEPT !.clean = clean] ELSE journal[i]]
  <2>1. n \in Nat /\ DOMAIN journal = 1..n /\ \A i \in 1..n : journal[i] \in Session
    BY DEF RelaunchInv, JournalType
  <2>2. journal' = s
    BY <1>2, <2>1 DEF Closed
  <2>3. \A i \in 1..n : /\ s[i] \in Session /\ s[i].id = journal[i].id
                        /\ s[i].clean = IF journal[i].id = launches THEN clean ELSE journal[i].clean
    BY <2>1 DEF Session
  <2>4. s \in Seq(Session) /\ Len(s) = n
    BY <2>1, <2>3
  <2> QED
    BY <2>1, <2>2, <2>3, <2>4
<1>4. UNCHANGED <<launches, old, automatic>> /\ app' = "exiting"
  BY DEF MarkExit
<1>5. JournalType'
  BY <1>2, <1>3, <1>4 DEF RelaunchInv, JournalType
<1>6. LastSessions'
  BY <1>3, <1>4 DEF RelaunchInv, LastSessions
<1>7. ReplacedIsUnclean'
  <2> SUFFICES ASSUME replacement' PROVE LastUnclean'
    BY DEF ReplacedIsUnclean
  <2>1. Len(journal) >= 1 /\ launches >= 1
    BY <1>1, <1>3, RecoveryAssumption DEF LastUnclean, RelaunchInv, LastSessions
  <2>2. journal[Len(journal)].id = launches
    BY <2>1, <1>3 DEF RelaunchInv, LastSessions, JournalType
  <2>3. clean = FALSE
    BY <1>1
  <2> QED
    BY <2>1, <2>2, <2>3, <1>3, <1>4 DEF LastUnclean
<1>8. Predecessors'
  <2>1. launches + 1 \notin automatic /\ launches \in Nat
    BY DEF RelaunchInv, JournalType
  <2> QED
    BY <2>1, <1>3, <1>4 DEF RelaunchInv, Predecessors
<1>9. Bounded' /\ Brake' /\ RunningIsUnclean'
  BY <1>1, <1>4 DEF RelaunchInv, Bounded, Brake, Since, RunningIsUnclean
<1> QED
  BY <1>5, <1>6, <1>7, <1>8, <1>9 DEF RelaunchInv

\* The window moves on: sessions leave it from the oldest.
LEMMA AgesKeeps == ASSUME RelaunchInv, Ages PROVE RelaunchInv'
<1>1. CASE UNCHANGED <<old, automatic>>
  <2>1. UNCHANGED <<app, shared, inst, restart, launches>>
    BY <1>1 DEF Ages, history, RelaunchInv, JournalType
  <2> QED
    BY <1>1, <2>1, QuietKeeps DEF shared, inst, restart, RelaunchInv, JournalType
<1>2. CASE old < launches /\ old' = old + 1 /\ automatic' = automatic \ {old'}
           /\ UNCHANGED <<app, shared, inst, face, restart, launches, takes>>
  <2>1. UNCHANGED <<app, journal, mem, launches, allowed, replacement>>
    BY <1>2 DEF shared, inst, restart
  <2>2. JournalType'
    BY <1>2, <2>1 DEF RelaunchInv, JournalType
  <2>3. (LastSessions /\ RunningIsUnclean /\ ReplacedIsUnclean /\ Predecessors)'
    BY <1>2, <2>1
    DEF RelaunchInv, LastSessions, RunningIsUnclean, ReplacedIsUnclean, LastUnclean, Predecessors
  <2>4. \A k \in old'..launches' : k \in old..launches /\ Since(k)' = Since(k)
    BY <1>2, <2>1 DEF RelaunchInv, JournalType, Since
  <2>5. Bounded'
    BY <2>1, <2>4 DEF RelaunchInv, Bounded
  <2>6. Brake'
    BY <2>1, <2>4 DEF RelaunchInv, Brake
  <2> QED
    BY <2>2, <2>3, <2>5, <2>6 DEF RelaunchInv
<1> QED
  BY <1>1, <1>2 DEF Ages, history

\* A launch: it may be followed by a relaunch only if the journal, which holds
\* what came before it, holds less than Threshold crashes.
LEMMA LaunchKeeps ==
  ASSUME RelaunchInv, NEW recovered \in BOOLEAN, Launch(recovered)
  PROVE  RelaunchInv'
<1> DEFINE n == Len(journal)
           entry == [id |-> launches + 1, clean |-> FALSE]
           all == Append(journal, entry)
<1>1. /\ launches' = launches + 1 /\ old' = old /\ app' = "up"
      /\ automatic' = IF replacement THEN automatic \cup {launches + 1} ELSE automatic
      /\ journal' = (IF Len(all) > JournalLen THEN Tail(all) ELSE all)
      /\ mem'.sessions = journal' /\ "sessions" \in DOMAIN mem'
      /\ launches \in Nat /\ n \in Nat /\ entry \in Session
  BY DEF Launch, MayStart, Journaled, FreshMem, RelaunchInv, JournalType, Session
<1>a. /\ allowed' \in BOOLEAN /\ replacement' \in BOOLEAN /\ ~replacement'
      /\ allowed' => Crashes(journal) < Threshold
  <2>1. replacement' = FALSE /\ allowed' = AutoRestart
    BY DEF Launch
  <2>2. AutoRestart \in BOOLEAN
    BY DEF AutoRestart
  <2>3. AutoRestart => Crashes(journal) < Threshold
    BY DEF AutoRestart
  <2> QED
    BY <2>1, <2>2, <2>3, Zenon
<1>2. /\ all \in Seq(Session) /\ Len(all) = n + 1 /\ all[n + 1] = entry
      /\ \A i \in 1..n : all[i] = journal[i]
  BY <1>1 DEF RelaunchInv, JournalType
<1> HIDE DEF all
<1>3. /\ journal' \in Seq(Session) /\ Len(journal') \in Nat
      /\ Len(journal') = (IF n + 1 > JournalLen THEN n ELSE n + 1)
      /\ \A i \in 1..Len(journal') : journal'[i] = all[i + n + 1 - Len(journal')]
  <2>1. CASE n + 1 > JournalLen
    <3>1. journal' = Tail(all) /\ all # <<>>
      BY <1>1, <1>2, <2>1
    <3>2. Tail(all) \in Seq(Session) /\ Len(Tail(all)) = n
          /\ \A i \in 1..n : Tail(all)[i] = all[i + 1]
      BY <1>1, <1>2, <3>1
    <3>3. \A i \in 1..n : i + n + 1 - n = i + 1
      BY <1>1
    <3> QED
      BY <1>1, <2>1, <3>1, <3>2, <3>3
  <2>2. CASE ~(n + 1 > JournalLen)
    BY <1>1, <1>2, <2>2
  <2> QED
    BY <2>1, <2>2
<1>4. JournalType'
  <2>1. automatic' \in SUBSET ((old + 1)..(launches + 1))
    BY <1>1 DEF RelaunchInv, JournalType
  <2>2. old \in 0..(launches + 1)
    BY <1>1 DEF RelaunchInv, JournalType
  <2>3. allowed' \in BOOLEAN /\ replacement' \in BOOLEAN
    BY <1>a
  <2> QED
    BY <1>1, <1>3, <2>1, <2>2, <2>3 DEF JournalType
<1>5. \A i \in 1..(n + 1) : all[i].id = launches - n + i
  <2>1. all[n + 1].id = launches + 1 /\ launches - n + (n + 1) = launches + 1
    BY <1>1, <1>2
  <2>2. \A i \in 1..n : all[i].id = launches - n + i
    BY <1>2 DEF RelaunchInv, LastSessions
  <2>3. \A i \in 1..(n + 1) : i \in 1..n \/ i = n + 1
    BY <1>1
  <2> QED
    BY <2>1, <2>2, <2>3, Zenon
<1>6. LastSessions'
  <2>1. n \in {launches, JournalLen} /\ n <= launches /\ n <= JournalLen /\ JournalLen \in Nat
    BY RecoveryAssumption DEF RelaunchInv, LastSessions
  <2>2. Len(journal') \in {launches', JournalLen} /\ Len(journal') <= launches'
        /\ Len(journal') <= JournalLen
    BY <1>1, <1>3, <2>1
  <2>3. ASSUME NEW i \in 1..Len(journal')
        PROVE  journal'[i].id = launches' - Len(journal') + i
    <3> DEFINE m == Len(journal')
    <3>a. m \in {n, n + 1} /\ n \in Nat
      BY <1>1, <1>3
    <3>b. i \in 1..m
      OBVIOUS
    <3> HIDE DEF m, n
    <3>1. i + n + 1 - m \in 1..(n + 1)
      BY <3>a, <3>b
    <3> USE DEF m, n
    <3>2. all[i + n + 1 - Len(journal')].id = launches - n + (i + n + 1 - Len(journal'))
      BY <3>1, <1>5
    <3>3. journal'[i] = all[i + n + 1 - Len(journal')]
      BY <1>3
    <3>4. launches - n + (i + n + 1 - Len(journal')) = launches' - Len(journal') + i
      BY <1>1, <1>3
    <3> QED
      BY <3>2, <3>3, <3>4
  <2> QED
    BY <2>2, <2>3, Zenon DEF LastSessions
<1>7. RunningIsUnclean' /\ ReplacedIsUnclean'
  BY <1>1, <1>a, <1>2, <1>3, RecoveryAssumption
  DEF RelaunchInv, LastSessions, RunningIsUnclean, ReplacedIsUnclean, LastUnclean
<1>8. ASSUME NEW i \in 1..n, journal[i].id + 1 \in automatic' PROVE ~journal[i].clean
  <2>1. CASE journal[i].id + 1 \in automatic
    BY <2>1 DEF RelaunchInv, Predecessors
  <2>2. CASE replacement /\ journal[i].id = launches
    BY <2>2, <1>1, SMTT(60) DEF RelaunchInv, ReplacedIsUnclean, LastUnclean, LastSessions
  <2>3. journal[i].id \in Nat
    <3>1. journal[i] \in Session
      BY DEF RelaunchInv, JournalType
    <3> QED
      BY <3>1 DEF Session
  <2> QED
    BY <2>1, <2>2, <2>3, <1>1, <1>8
<1>9. Predecessors'
  <2>1. launches + 2 \notin automatic'
    BY <1>1 DEF RelaunchInv, JournalType
  <2> QED
    BY <2>1, <1>1, <1>2, <1>3, <1>8, SMTT(60) DEF Predecessors
<1>10. Bounded'
  <2> SUFFICES ASSUME NEW k \in old..(launches + 1), launches + 1 - k <= JournalLen
               PROVE  Cardinality(Since(k)') <= Threshold + 1
    BY <1>1 DEF Bounded
  <2>1. CASE k = launches + 1
    <3>1. \A a \in automatic' : ~(a > k)
      BY <2>1, <1>1 DEF RelaunchInv, JournalType
    <3>2. Since(k)' = {}
      BY <3>1 DEF Since
    <3> QED
      BY <3>2, FS_EmptySet, RecoveryAssumption
  <2>2. CASE k # launches + 1 /\ ~replacement
    <3>1. Since(k)' = Since(k) /\ k \in old..launches /\ launches - k <= JournalLen
      BY <2>2, <1>1, RecoveryAssumption DEF RelaunchInv, JournalType, Since
    <3> QED
      BY <3>1 DEF RelaunchInv, Bounded
  <2>3. CASE k # launches + 1 /\ replacement
    <3>1. Since(k)' = Since(k) \cup {launches + 1} /\ k \in old..launches /\ launches - k < JournalLen
      BY <2>3, <1>1, RecoveryAssumption DEF RelaunchInv, JournalType, Since
    <3>2. Cardinality(Since(k)) <= Threshold
      BY <2>3, <3>1 DEF RelaunchInv, Brake
    <3>3. Cardinality(Since(k)') <= Cardinality(Since(k)) + 1 /\ Cardinality(Since(k)) \in Nat
          /\ Cardinality(Since(k)') \in Nat
      <4>1. IsFiniteSet(Since(k)) /\ Cardinality(Since(k)) \in Nat
        BY SinceFinite DEF RelaunchInv
      <4>2. Cardinality(Since(k) \cup {launches + 1}) =
              IF launches + 1 \in Since(k) THEN Cardinality(Since(k)) ELSE Cardinality(Since(k)) + 1
        BY <4>1, FS_AddElement
      <4> QED
        BY <3>1, <4>1, <4>2
    <3> QED
      BY <3>2, <3>3, RecoveryAssumption
  <2> QED
    BY <2>1, <2>2, <2>3
<1>11. Brake'
  <2> SUFFICES ASSUME allowed', NEW k \in old..(launches + 1), launches + 1 - k < JournalLen
               PROVE  Cardinality(Since(k)') <= Threshold
    BY <1>1, <1>a DEF Brake
  <2>1. Since(k)' \in SUBSET ((k + 1)..(launches + 1))
    <3>1. \A a \in automatic' : a > k => a \in (k + 1)..(launches + 1)
      BY <1>1 DEF RelaunchInv, JournalType
    <3> QED
      BY <3>1 DEF Since
  <2>2. CASE k = launches + 1
    <3>1. Since(k)' = {}
      BY <2>1, <2>2, <1>1
    <3> QED
      BY <3>1, FS_EmptySet, RecoveryAssumption
  <2>3. CASE k # launches + 1
    <3>1. k \in old..launches
      BY <2>3, <1>1 DEF RelaunchInv, JournalType
    <3>2. \A a \in Since(k)', i \in 1..n : journal[i].id + 1 = a => ~journal[i].clean
      BY <1>8 DEF Since
    <3>3. Cardinality(Since(k)') <= Crashes(journal) + 1 /\ Crashes(journal) \in Nat
      BY <2>1, <3>1, <3>2, CrashesCount DEF RelaunchInv
    <3>4. Cardinality(Since(k)') \in Nat /\ Crashes(journal) < Threshold
      <4>1. IsFiniteSet((k + 1)..(launches + 1))
        BY <1>1, FS_Interval DEF RelaunchInv, JournalType
      <4>2. IsFiniteSet(Since(k)')
        BY <4>1, <2>1, FS_Subset
      <4> QED
        BY <1>a, <4>2, FS_CardinalityType
    <3> QED
      BY <3>3, <3>4, RecoveryAssumption
  <2> QED
    BY <2>2, <2>3
<1> QED
  BY <1>4, <1>6, <1>7, <1>9, <1>10, <1>11 DEF RelaunchInv

-----------------------------------------------------------------------------
\* Every step keeps the inductive invariant.
LEMMA StepRelaunch == ASSUME RelaunchInv, [Next]_vars PROVE RelaunchInv'
<1>1. ASSUME NEW recovered \in BOOLEAN, Launch(recovered) PROVE RelaunchInv'
  BY <1>1, LaunchKeeps
<1>2. CASE \/ BootInfo \/ Graphics \/ Push \/ Stop \/ Snapshot
           \/ \E row \in Rows, offset \in 0..MaxPos : Ask(row, offset)
  <2>1. UNCHANGED <<app, journal, launches, old, automatic, allowed, replacement>>
    BY <1>2 DEF BootInfo, Graphics, Push, Stop, Snapshot, Ask, shared, restart, history
  <2>2. mem'.sessions = mem.sessions /\ "sessions" \in DOMAIN mem'
    BY <1>2
    DEF BootInfo, Graphics, Push, Stop, Snapshot, Ask, Ack, Update, Remember, RelaunchInv, JournalType
  <2> QED
    BY <2>1, <2>2, QuietKeeps
<1>3. CASE \/ Register \/ TakeFails \/ Pong \/ Plays \/ Written \/ Hangs \/ Stale \/ Reload
           \/ StandDown \/ UNCHANGED vars
  <2>1. UNCHANGED <<app, journal, mem, launches, old, automatic, allowed, replacement>>
    BY <1>3
    DEF Register, TakeFails, Pong, Plays, Written, Hangs, Stale, Reload, StandDown, vars,
        shared, inst, restart, history
  <2> QED
    BY <2>1, QuietKeeps DEF RelaunchInv, JournalType
<1>4. CASE Exit
  BY <1>4, MarkExitKeeps DEF Exit, restart, RelaunchInv
<1>5. CASE ReloadFailed
  <2>1. CASE UNCHANGED <<app, shared, inst, replacement>>
    <3>1. UNCHANGED <<app, journal, mem, launches, old, automatic, allowed, replacement>>
      BY <2>1, <1>5 DEF ReloadFailed, Relaunch, shared, inst, MarkExit
    <3> QED
      BY <3>1, QuietKeeps DEF RelaunchInv, JournalType
  <2>2. CASE allowed /\ SpawnReplacement /\ MarkExit(FALSE)
    BY <2>2, <1>5, MarkExitKeeps DEF ReloadFailed, Relaunch, SpawnReplacement
  <2> QED
    BY <2>1, <2>2, <1>5 DEF ReloadFailed, Relaunch
<1>6. CASE Gone \/ Dies
  BY <1>6, EndKeeps
  DEF Gone, Dies, Forgotten, FreshMem, shared, history, RelaunchInv, JournalType
<1>7. CASE Ages
  BY <1>7, AgesKeeps
<1> QED
  BY <1>1, <1>2, <1>3, <1>4, <1>5, <1>6, <1>7 DEF Next, Interface, Watchdog

\* However PlayOut crashes, hangs, exits and is launched, the relaunches it
\* makes of itself inside the crash-loop window are bounded, as long as that
\* window holds no more sessions than the journal (RecoveryState::boot,
\* relaunch_self).
THEOREM RelaunchesBounded == Spec => []AutoRelaunchBounded
<1>1. Init => RelaunchInv
  BY InitRelaunch
<1>2. RelaunchInv /\ [Next]_vars => RelaunchInv'
  BY StepRelaunch
<1>3. RelaunchInv => AutoRelaunchBounded
  <2> SUFFICES ASSUME RelaunchInv PROVE AutoRelaunchBounded
    OBVIOUS
  <2>1. Since(old) = automatic /\ old \in old..launches
    <3>1. old \in 0..launches /\ launches \in Nat /\ \A a \in automatic : a > old
      BY DEF RelaunchInv, JournalType
    <3> QED
      BY <3>1 DEF Since
  <2> QED
    BY <2>1 DEF RelaunchInv, Bounded, AutoRelaunchBounded
<1> QED
  BY <1>1, <1>2, <1>3, PTL DEF Spec

-----------------------------------------------------------------------------
\* The checkpoint, from the take to the disk. The fields of the memory, the row
\* on air as the registration and the checkpoint know it, the point that is on
\* its way to disk or there, and what may still be lost of the point before.
Remembered ==
  /\ {"prev", "handled", "row", "offset", "last", "dirty"} \subseteq DOMAIN mem
  /\ mem.row \in Rows \cup {NoRow} /\ mem.offset \in 0..MaxPos
  /\ take.at \in {"none", "asked", "registered"} /\ "at" \in DOMAIN take
  /\ take.row \in Rows \cup {NoRow} /\ take.offset \in 0..MaxPos
  /\ "pos" \in DOMAIN reg /\ reg.pos \in Nat /\ base \in Nat
  /\ mem.last \in Nat /\ disk.pos \in Nat /\ write.pos \in Nat
OnAirKnown ==
  /\ take.at # "registered" => reg.row = mem.row /\ (mem.row # NoRow => base = mem.offset)
  /\ take.at = "registered" => reg.row = take.row /\ base = take.offset
WriteFollows ==
  (app = "up" /\ take.at # "registered" /\ ~mem.dirty /\ mem.row # NoRow) =>
    LET point == IF write = NoWrite THEN disk ELSE write IN
    point.row = mem.row /\ point.pos <= base + reg.pos
WriteHandled ==
  /\ write # NoWrite /\ write.row = NoRow => mem.handled
  /\ app = "down" => write = NoWrite /\ reg = Nothing /\ base = 0 /\ take = NoTake
CheckpointInv == Remembered /\ OnAirKnown /\ WriteFollows /\ WriteHandled

\* A checkpoint is built of the row and a position in it, and is no "no write".
LEMMA Built ==
  ASSUME Remembered
  PROVE  /\ Build(mem).row = mem.row /\ Build(mem) # NoWrite
         /\ Position(mem) \in Nat /\ Build(mem).pos \in Nat
         /\ reg.row = mem.row /\ mem.row # NoRow => Build(mem).pos <= mem.offset + reg.pos
<1>1. Build(mem).row = mem.row
  BY DEF Build, Nothing
<1>2. mem.row # "no write"
  BY RowNames DEF Remembered, NoRow
<1>3. Build(mem) # NoWrite
  <2>1. NoWrite.row = "no write"
    BY DEF NoWrite
  <2> QED
    BY <1>1, <1>2, <2>1
<1>4. reg.row = mem.row /\ mem.row # NoRow => Build(mem).pos <= mem.offset + reg.pos
  <2> SUFFICES ASSUME reg.row = mem.row, mem.row # NoRow
               PROVE  Build(mem).pos <= mem.offset + reg.pos
    OBVIOUS
  <2>1. Build(mem).pos = Lesser(reg.pos + mem.offset, MaxPos)
    BY DEF Build, Position
  <2>2. MaxPos \in Nat
    BY RecoveryAssumption
  <2> QED
    BY <2>1, <2>2 DEF Remembered, Lesser
<1>5. Position(mem) \in Nat
  <2>1. Position(mem) = mem.last \/ Position(mem) = Lesser(reg.pos + mem.offset, MaxPos)
    BY DEF Position
  <2>2. MaxPos \in Nat
    BY RecoveryAssumption
  <2>3. reg.pos + mem.offset \in Nat /\ mem.last \in Nat
    BY <2>2 DEF Remembered
  <2> QED
    BY <2>1, <2>2, <2>3 DEF Lesser
<1>6. Build(mem).pos \in Nat
  BY <1>5 DEF Build, Nothing
<1> QED
  BY <1>1, <1>3, <1>4, <1>5, <1>6

\* Before the first launch, and after each session.
LEMMA NothingYet ==
  /\ FreshMem.row = NoRow /\ FreshMem.offset = 0 /\ FreshMem.last = 0
  /\ {"prev", "handled", "row", "offset", "last", "dirty"} \subseteq DOMAIN FreshMem
  /\ NoTake.at = "none" /\ NoTake.row = NoRow /\ NoTake.offset = 0 /\ "at" \in DOMAIN NoTake
  /\ Nothing.row = NoRow /\ Nothing.pos = 0 /\ "pos" \in DOMAIN Nothing /\ NoWrite.pos = 0
  /\ 0 \in 0..MaxPos
<1>1. /\ FreshMem.row = NoRow /\ FreshMem.offset = 0 /\ FreshMem.last = 0
      /\ {"prev", "handled", "row", "offset", "last", "dirty"} \subseteq DOMAIN FreshMem
  BY DEF FreshMem
<1>2. NoTake.at = "none" /\ NoTake.row = NoRow /\ NoTake.offset = 0 /\ "at" \in DOMAIN NoTake
  BY DEF NoTake
<1>3. Nothing.row = NoRow /\ Nothing.pos = 0 /\ "pos" \in DOMAIN Nothing /\ NoWrite.pos = 0
  BY DEF Nothing, NoWrite
<1>4. MaxPos \in Nat
  BY RecoveryAssumption
<1>5. 0 \in 0..MaxPos
  BY <1>4
<1> QED
  BY <1>1, <1>2, <1>3, <1>5

LEMMA InitCheckpoint == Init => CheckpointInv
<1> SUFFICES ASSUME Init PROVE CheckpointInv
  OBVIOUS
<1>1. /\ app = "down" /\ disk = Nothing /\ mem = FreshMem /\ write = NoWrite /\ reg = Nothing
      /\ base = 0 /\ take = NoTake
  BY DEF Init
<1> QED
  BY <1>1, NothingYet DEF CheckpointInv, Remembered, OnAirKnown, WriteFollows, WriteHandled

\* A process that is gone leaves the disk.
LEMMA GoneKeepsPoint == ASSUME CheckpointInv, Gone \/ Dies PROVE CheckpointInv'
<1>1. /\ app' = "down" /\ mem' = FreshMem /\ write' = NoWrite /\ reg' = Nothing
      /\ base' = 0 /\ take' = NoTake
  BY DEF Gone, Dies, Forgotten
<1>2. disk' = disk \/ disk' = write
  BY DEF Gone, Dies, shared
<1> QED
  BY <1>1, <1>2, NothingYet DEF CheckpointInv, Remembered, OnAirKnown, WriteFollows, WriteHandled

\* What the interface pushes is due to be written.
LEMMA PushKeepsPoint ==
  ASSUME CheckpointInv,
         \/ Push \/ Graphics \/ Stop \/ BootInfo
         \/ \E row \in Rows, offset \in 0..MaxPos : Ask(row, offset)
  PROVE  CheckpointInv'
<1>1. CASE Push
  <2>1. /\ mem'.row = take.row /\ mem'.offset = take.offset /\ mem'.dirty /\ mem'.handled = mem.handled
        /\ DOMAIN mem' = DOMAIN mem /\ mem'.last \in Nat
    BY <1>1 DEF Push, Update, CheckpointInv, Remembered
  <2>2. UNCHANGED <<app, disk, write, reg, base>> /\ take' = NoTake /\ take.at = "registered" /\ app = "up"
    BY <1>1 DEF Push, shared
  <2> QED
    BY <2>1, <2>2, NothingYet DEF CheckpointInv, Remembered, OnAirKnown, WriteFollows, WriteHandled
<1>2. CASE Graphics
  <2>1. /\ mem'.row = mem.row /\ mem'.offset = mem.offset /\ mem'.dirty /\ mem'.handled = mem.handled
        /\ DOMAIN mem' = DOMAIN mem /\ mem'.last \in Nat
    BY <1>2 DEF Graphics, Update, CheckpointInv, Remembered
  <2>2. UNCHANGED <<app, disk, write, reg, base, take>> /\ app = "up"
    BY <1>2 DEF Graphics, shared
  <2> QED
    BY <2>1, <2>2 DEF CheckpointInv, Remembered, OnAirKnown, WriteFollows, WriteHandled
<1>3. CASE Stop
  <2>1. /\ mem'.row = NoRow /\ mem'.offset = 0 /\ mem'.dirty /\ mem'.handled
        /\ DOMAIN mem' = DOMAIN mem /\ mem'.last \in Nat
    BY <1>3 DEF Stop, Update, CheckpointInv, Remembered
  <2>2. UNCHANGED <<app, disk, write, take>> /\ app = "up" /\ take.at = "none" /\ reg' = Nothing /\ base' = 0
    BY <1>3 DEF Stop, shared
  <2> QED
    BY <2>1, <2>2, NothingYet DEF CheckpointInv, Remembered, OnAirKnown, WriteFollows, WriteHandled
<1>4. CASE BootInfo
  <2>1. /\ mem'.row = mem.row /\ mem'.offset = mem.offset /\ mem'.dirty /\ mem'.handled
        /\ DOMAIN mem' = DOMAIN mem /\ mem'.last \in Nat
    BY <1>4 DEF BootInfo, Ack, CheckpointInv, Remembered
  <2>2. UNCHANGED <<app, disk, write, reg, base, take>> /\ app = "up"
    BY <1>4 DEF BootInfo, shared
  <2> QED
    BY <2>1, <2>2 DEF CheckpointInv, Remembered, OnAirKnown, WriteFollows, WriteHandled
<1>5. ASSUME NEW row \in Rows, NEW offset \in 0..MaxPos, Ask(row, offset) PROVE CheckpointInv'
  <2>1. /\ mem'.row = mem.row /\ mem'.offset = mem.offset /\ mem'.handled
        /\ DOMAIN mem' = DOMAIN mem /\ mem'.last = mem.last
    BY <1>5 DEF Ask, Ack, CheckpointInv, Remembered
  <2>2. /\ UNCHANGED <<app, disk, write, reg, base>> /\ app = "up" /\ take.at = "none"
        /\ take' = [at |-> "asked", row |-> row, offset |-> offset]
    BY <1>5 DEF Ask, shared
  <2>3. mem' = mem \/ mem'.dirty
    BY <1>5 DEF Ask, Ack, CheckpointInv, Remembered
  <2> QED
    BY <2>1, <2>2, <2>3 DEF CheckpointInv, Remembered, OnAirKnown, WriteFollows, WriteHandled
<1> QED
  BY <1>1, <1>2, <1>3, <1>4, <1>5

\* The clip is registered before its context is pushed, and plays on.
LEMMA AirKeepsPoint ==
  ASSUME CheckpointInv, Register \/ TakeFails \/ Plays
  PROVE  CheckpointInv'
<1>1. CASE Register
  <2>1. /\ reg'.row = take.row /\ reg'.pos = 0 /\ "pos" \in DOMAIN reg' /\ base' = take.offset
        /\ take'.at = "registered" /\ take'.row = take.row /\ take'.offset = take.offset
        /\ "at" \in DOMAIN take'
    BY <1>1 DEF Register, CheckpointInv, Remembered
  <2>2. UNCHANGED <<app, disk, write, mem>> /\ app = "up"
    BY <1>1 DEF Register, shared
  <2> QED
    BY <2>1, <2>2 DEF CheckpointInv, Remembered, OnAirKnown, WriteFollows, WriteHandled
<1>2. CASE TakeFails
  <2>1. UNCHANGED <<app, disk, write, mem, reg, base>> /\ take' = NoTake /\ take.at = "asked"
    BY <1>2 DEF TakeFails, shared
  <2> QED
    BY <2>1, NothingYet DEF CheckpointInv, Remembered, OnAirKnown, WriteFollows, WriteHandled
<1>3. CASE Plays
  <2>1. reg'.row = reg.row /\ reg'.pos = reg.pos + 1 /\ "pos" \in DOMAIN reg'
    BY <1>3 DEF Plays, CheckpointInv, Remembered
  <2>2. UNCHANGED <<app, disk, write, mem, base, take>> /\ app = "up"
    BY <1>3 DEF Plays, shared
  <2>3. Remembered' /\ OnAirKnown' /\ WriteHandled'
    BY <2>1, <2>2 DEF CheckpointInv, Remembered, OnAirKnown, WriteHandled
  <2>4. WriteFollows'
    <3> SUFFICES ASSUME app = "up", take.at # "registered", ~mem.dirty, mem.row # NoRow
                 PROVE  (LET point == IF write = NoWrite THEN disk ELSE write IN
                         point.row = mem.row /\ point.pos <= base + reg'.pos)
      BY <2>2 DEF WriteFollows
    <3>1. mem.row \in Rows
      BY DEF CheckpointInv, Remembered
    <3> QED
      BY <2>1, <3>1 DEF CheckpointInv, WriteFollows, Remembered
  <2> QED
    BY <2>3, <2>4 DEF CheckpointInv
<1> QED
  BY <1>1, <1>2, <1>3

\* The writer notes the point, puts it on disk, and an exit puts it there too.
LEMMA WriterKeepsPoint == ASSUME CheckpointInv, Snapshot \/ Written PROVE CheckpointInv'
<1>1. CASE Snapshot
  <2>1. /\ mem'.row = mem.row /\ mem'.offset = mem.offset /\ ~mem'.dirty /\ mem'.handled = mem.handled
        /\ DOMAIN mem' = DOMAIN mem /\ mem'.last \in {mem.last, Position(mem)}
    BY <1>1 DEF Snapshot, Remember, CheckpointInv, Remembered
  <2>2. /\ UNCHANGED <<app, disk, reg, base, take>> /\ app = "up" /\ write' = Build(mem)
        /\ (mem.handled \/ mem.row # NoRow)
    BY <1>1 DEF Snapshot, shared, Due
  <2>3. /\ write'.row = mem.row /\ write' # NoWrite
        /\ reg.row = mem.row /\ mem.row # NoRow => write'.pos <= mem.offset + reg.pos
    BY <2>2, Built DEF CheckpointInv
  <2>4. Position(mem) \in Nat /\ write'.pos \in Nat
    BY <2>2, Built DEF CheckpointInv
  <2>5. Remembered' /\ OnAirKnown' /\ WriteHandled'
    BY <2>1, <2>2, <2>3, <2>4 DEF CheckpointInv, Remembered, OnAirKnown, WriteHandled
  <2>6. WriteFollows'
    BY <2>1, <2>2, <2>3, <2>4 DEF CheckpointInv, Remembered, OnAirKnown, WriteFollows
  <2> QED
    BY <2>5, <2>6 DEF CheckpointInv
<1>2. CASE Written
  <2>1. /\ UNCHANGED <<app, mem, reg, base, take>> /\ app # "down" /\ disk' = write /\ write' = NoWrite
        /\ write # NoWrite
    BY <1>2 DEF Written
  <2> QED
    BY <2>1, NothingYet DEF CheckpointInv, Remembered, OnAirKnown, WriteFollows, WriteHandled
<1> QED
  BY <1>1, <1>2

LEMMA ExitKeepsPoint == ASSUME CheckpointInv, NEW clean, MarkExit(clean) PROVE CheckpointInv'
<1>1. /\ mem'.row = mem.row /\ mem'.offset = mem.offset /\ mem'.handled = mem.handled
      /\ DOMAIN mem' = DOMAIN mem /\ mem'.last \in {mem.last, Position(mem)}
  BY DEF MarkExit, Remember, CheckpointInv, Remembered
<1>2. UNCHANGED <<write, reg, base, take>> /\ app' = "exiting" /\ disk' \in {disk, Build(mem)}
  BY DEF MarkExit
<1>3. Position(mem) \in Nat /\ Build(mem).pos \in Nat
  BY Built DEF CheckpointInv
<1> QED
  BY <1>1, <1>2, <1>3 DEF CheckpointInv, Remembered, OnAirKnown, WriteFollows, WriteHandled

LEMMA LaunchKeepsPoint ==
  ASSUME CheckpointInv, NEW recovered \in BOOLEAN, Launch(recovered)
  PROVE  CheckpointInv'
<1>1. /\ UNCHANGED <<disk, write, reg, base, take>> /\ app = "down" /\ app' = "up"
      /\ mem' = [FreshMem EXCEPT !.sessions = journal', !.prev = disk]
  BY DEF Launch, MayStart
<1>2. /\ mem'.row = NoRow /\ mem'.offset = 0 /\ mem'.last = 0
      /\ {"prev", "handled", "row", "offset", "last", "dirty"} \subseteq DOMAIN mem'
  BY <1>1 DEF FreshMem
<1> QED
  BY <1>1, <1>2, NothingYet DEF CheckpointInv, Remembered, OnAirKnown, WriteFollows, WriteHandled

LEMMA StepCheckpoint == ASSUME CheckpointInv, [Next]_vars PROVE CheckpointInv'
<1>1. CASE \/ Push \/ Graphics \/ Stop \/ BootInfo
           \/ \E row \in Rows, offset \in 0..MaxPos : Ask(row, offset)
  BY <1>1, PushKeepsPoint
<1>2. CASE Register \/ TakeFails \/ Plays
  BY <1>2, AirKeepsPoint
<1>3. CASE Snapshot \/ Written
  BY <1>3, WriterKeepsPoint
<1>4. CASE Gone \/ Dies
  BY <1>4, GoneKeepsPoint
<1>5. ASSUME NEW recovered \in BOOLEAN, Launch(recovered) PROVE CheckpointInv'
  BY <1>5, LaunchKeepsPoint
<1>6. CASE Exit
  BY <1>6, ExitKeepsPoint DEF Exit
<1>7. ASSUME UNCHANGED <<app, shared, inst>> PROVE CheckpointInv'
  BY <1>7
  DEF shared, inst, CheckpointInv, Remembered, OnAirKnown, WriteFollows, WriteHandled
<1>8. CASE Pong \/ Hangs \/ Stale \/ StandDown \/ Ages \/ UNCHANGED vars
  <2>1. UNCHANGED <<app, shared, inst>>
    BY <1>8 DEF Pong, Hangs, Stale, StandDown, Ages, vars
  <2> QED
    BY <2>1, <1>7
<1>9. CASE Reload
  <2>1. UNCHANGED <<app, disk, mem, write, reg, base>>
    BY <1>9 DEF Reload, shared
  <2>2. take' = take \/ (take.at # "registered" /\ take' = NoTake)
    BY <1>9 DEF Reload
  <2> QED
    BY <2>1, <2>2, NothingYet DEF CheckpointInv, Remembered, OnAirKnown, WriteFollows, WriteHandled
<1>10. CASE ReloadFailed
  <2>1. UNCHANGED <<app, shared, inst>> \/ MarkExit(FALSE)
    BY <1>10 DEF ReloadFailed, Relaunch
  <2> QED
    BY <2>1, <1>7, ExitKeepsPoint
<1> QED
  BY <1>1, <1>2, <1>3, <1>4, <1>5, <1>6, <1>8, <1>9, <1>10 DEF Next, Interface, Watchdog

\* The point of an earlier session leaves the disk by a point that was noted
\* after that session was dealt with, by an exit after it, or never.
LEMMA PointLeaves ==
  ASSUME CheckpointInv, [Next]_vars
  PROVE  disk.row # NoRow /\ disk'.row = NoRow => mem.handled
<1>1. ASSUME NEW clean, MarkExit(clean) PROVE disk.row # NoRow /\ disk'.row = NoRow => mem.handled
  BY <1>1, Built DEF MarkExit, CheckpointInv
<1>2. CASE Exit \/ ReloadFailed
  BY <1>1, <1>2 DEF Exit, ReloadFailed, Relaunch, shared
<1>3. CASE Written \/ Dies
  BY <1>3 DEF Written, Dies, CheckpointInv, WriteHandled
<1>4. CASE ~(Exit \/ ReloadFailed \/ Written \/ Dies)
  <2>1. disk' = disk
    BY <1>4 DEF Next, Interface, Watchdog, Launch, Ask, BootInfo, Graphics, Register, TakeFails, Push,
                Pong, Stop, Plays, Snapshot, Gone, Hangs, Stale, Reload, StandDown, Ages, vars, shared
  <2> QED
    BY <2>1
<1> QED
  BY <1>2, <1>3, <1>4

\* Whatever crashes, exits or reloads, a resume point leaves the disk only after
\* this session has dealt with it, and the point that a crash leaves behind names
\* the row on air, or an earlier position in it, once the writer has caught up
\* (spawn_writer, mark_exit, recovery_checkpoint_update).
THEOREM ResumePointIsKept == Spec => ResumePointKept
<1>1. Init => CheckpointInv
  BY InitCheckpoint
<1>2. CheckpointInv /\ [Next]_vars => CheckpointInv'
  BY StepCheckpoint
<1>3. CheckpointInv => CheckpointFollows
  BY DEF CheckpointInv, WriteFollows, CheckpointFollows, Remembered
<1>4. CheckpointInv /\ [Next]_vars => [disk.row # NoRow /\ disk'.row = NoRow => mem.handled]_vars
  BY PointLeaves
<1> QED
  BY <1>1, <1>2, <1>3, <1>4, PTL DEF Spec, ResumePointKept
=============================================================================
