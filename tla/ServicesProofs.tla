---------------------------- MODULE ServicesProofs ----------------------------
(* What the services around playout promise, each by an inductive invariant of *)
(* its own: the alias that a take is given is the clip it asked for, for any   *)
(* number of sources, takes, exports and scans; the caches of audio peaks and  *)
(* their one scan; the resolver under a verified root and the predicate of     *)
(* readiness; the one OSC feed; the index and the cache of the library.        *)
(* Windows that the models name are shut where a theorem says so.              *)
EXTENDS Services, FiniteSetTheorems, SequenceTheorems, WellFoundedInduction, TLAPS

-----------------------------------------------------------------------------
(* GivenAliasIsTheClip *)

Ours(t) == take[t].at \in {"link", "copy", "save"}
Asked(t) == take[t].at \in {"lock", "link", "copy", "save", "given"}

\* A version is never had twice: what is not the newest is no longer there.
Versions ==
  \A s \in Sources : source[s] \in {0, newest[s]} /\ entry[s] <= newest[s]

\* An alias that shares its source's content is there.
LinkIsThere == \A s \in linked : alias[s] # NoAlias

\* The lock is held from the look at the manifest to its saving.
LockHeld == \A t \in Takes : Ours(t) => owner = t

Fingerprints ==
  \A t \in Takes : Asked(t) => /\ take[t].of \in Sources
                               /\ 1 <= take[t].expected
                               /\ take[t].expected <= newest[take[t].of]

NotOvertaken ==
  \A t \in Takes : At(t, "lock") => source[take[t].of] \in {0, take[t].expected}

\* The manifest vouches for the alias whenever it has the fingerprint of the
\* source, which is never so for an alias that is being made.
EntryVouches ==
  \A s \in Sources : entry[s] # 0 /\ entry[s] = source[s] => alias[s] = source[s]
NoneWhileMade ==
  \A t \in Takes : Ours(t) => entry[take[t].of] = 0 \/ entry[take[t].of] # source[take[t].of]
MadeOfTheSource ==
  \A t \in Takes : At(t, "save") /\ take[t].expected = source[take[t].of] =>
    alias[take[t].of] = source[take[t].of]

\* No alias is adopted unseen.
UnrecordedIsInMaking ==
  \A s \in Sources : alias[s] # NoAlias /\ entry[s] = 0 =>
    \E t \in Takes : take[t].at \in {"copy", "save"} /\ take[t].of = s

GivenIsRecorded ==
  \A t \in Takes : At(t, "given") /\ take[t].expected = source[take[t].of] =>
    /\ alias[take[t].of] = source[take[t].of]
    /\ entry[take[t].of] = source[take[t].of]

StaleIsStale ==
  owner = Collector => \A s \in stale : entry[s] # 0 /\ entry[s] # source[s]

AliasInv ==
  /\ TypeOK /\ Versions /\ LinkIsThere /\ LockHeld /\ Fingerprints
  /\ NotOvertaken /\ EntryVouches /\ NoneWhileMade /\ MadeOfTheSource
  /\ UnrecordedIsInMaking /\ GivenIsRecorded /\ StaleIsStale

\* Nothing is vouched for before there is a first alias.
LEMMA InitKeeps == ASSUME Init, Windows = {} PROVE AliasInv
<1>1. TypeOK
  BY Limits, Owners DEF Init, TypeOK, Idle, NoAlias, Partial, Collector
<1>2. Versions /\ LinkIsThere /\ EntryVouches /\ StaleIsStale
  BY Limits, Owners DEF Init, Versions, LinkIsThere, EntryVouches, StaleIsStale, Collector, NoAlias
<1>3. \A s \in Sources : alias[s] = NoAlias
  BY Limits DEF Init, NoAlias, Partial
<1>4. \A t \in Takes : take[t].at = "idle"
  BY DEF Init, Idle
<1> QED
  BY <1>1, <1>2, <1>3, <1>4
  DEF AliasInv, LockHeld, Fingerprints, NotOvertaken, NoneWhileMade, MadeOfTheSource,
      UnrecordedIsInMaking, GivenIsRecorded, Ours, Asked, At

\* A step that changes no variable keeps every part.
LEMMA Stutters == ASSUME AliasInv, UNCHANGED aliasVars PROVE AliasInv'
BY DEF aliasVars, AliasInv, TypeOK, Versions, LinkIsThere, LockHeld, Fingerprints, NotOvertaken,
       EntryVouches, NoneWhileMade, MadeOfTheSource, UnrecordedIsInMaking, GivenIsRecorded,
       StaleIsStale, Ours, Asked, At

\* An alias is given under the lock as recorded: either it was recorded with the
\* fingerprint that the take has, or it would be adopted unseen, and there is
\* none such outside the making of an alias, which has the lock.
LEMMA EnterGiven ==
  ASSUME AliasInv, Windows = {}, NEW t \in Takes, Enter(t)
  PROVE  GivenIsRecorded'
<1> DEFINE s == take[t].of
<1>1. /\ At(t, "lock") /\ owner = Nobody /\ source' = source /\ s \in Sources
      /\ entry \in [Sources -> Nat] /\ alias \in [Sources -> Nat]
      /\ take' = [take EXCEPT ![t].at = "given"] \/ take' = [take EXCEPT ![t].at = "link"]
  BY Limits DEF Enter, Found, Goes, AliasInv, Fingerprints, Asked, At, TypeOK, NoAlias, Partial
<1> SUFFICES ASSUME NEW u \in Takes, At(u, "given")', (take[u].expected)' = (source[take[u].of])'
             PROVE  /\ (alias[take[u].of])' = (source[take[u].of])'
                    /\ (entry[take[u].of])' = (source[take[u].of])'
  BY DEF GivenIsRecorded
<1>2. take[u].of \in Sources /\ take[u].of = take'[u].of /\ take[u].expected = take'[u].expected
  BY <1>1 DEF AliasInv, Fingerprints, Asked, At, TypeOK
<1>3. CASE u # t
  <2>1. At(u, "given") /\ take[u].expected = source[take[u].of]
    BY <1>1, <1>2, <1>3 DEF At, AliasInv, TypeOK
  <2>2. /\ alias[take[u].of] = source[take[u].of] /\ entry[take[u].of] = source[take[u].of]
        /\ 1 <= source[take[u].of] /\ 1 <= take[t].expected
    BY <2>1, <1>1 DEF AliasInv, GivenIsRecorded, Fingerprints, Asked, At
  <2>3. source[s] \in {0, take[t].expected}
    BY <1>1 DEF AliasInv, NotOvertaken
  <2>4. CASE take[u].of = s
    <3>1. entry[s] = take[t].expected
      BY <2>2, <2>3, <2>4
    <3>2. UNCHANGED <<alias, entry>>
      BY <3>1, <2>2, <2>4, <1>1 DEF Enter, Found
    <3> QED
      BY <3>2, <2>2, <1>1, <1>2
  <2>5. CASE take[u].of # s
    <3>1. alias'[take[u].of] = alias[take[u].of] /\ entry'[take[u].of] = entry[take[u].of]
      BY <2>5, <1>2, <1>1 DEF Enter, Found, Saved
    <3> QED
      BY <3>1, <2>2, <1>1, <1>2
  <2> QED
    BY <2>4, <2>5
<1>4. CASE u = t
  <2>1. alias[s] # NoAlias /\ UNCHANGED alias
    BY <1>1, <1>2, <1>4 DEF Enter, Found, Goes, At, AliasInv, TypeOK
  <2>2. entry[s] # 0
    <3> SUFFICES ASSUME entry[s] = 0 PROVE FALSE
      OBVIOUS
    <3>1. PICK v \in Takes : take[v].at \in {"copy", "save"}
      BY <1>1, <2>1 DEF AliasInv, UnrecordedIsInMaking
    <3> QED
      BY <3>1, <1>1, Owners DEF AliasInv, LockHeld, Ours
  <2>3. entry[s] = take[t].expected /\ UNCHANGED entry
    BY <1>1, <1>2, <1>4, <2>2 DEF Enter, Found, Goes, At, AliasInv, TypeOK
  <2> QED
    BY <1>1, <1>2, <1>4, <2>1, <2>2, <2>3 DEF AliasInv, EntryVouches
<1> QED
  BY <1>3, <1>4

\* A take that reads the fingerprint of a source has the newest one, and a
\* source nobody is about to overtake.
LEMMA StatKeeps ==
  ASSUME AliasInv, Windows = {}, NEW t \in Takes, NEW s \in Sources, Stat(t, s)
  PROVE  AliasInv'
<1>1. TypeOK'
  BY DEF AliasInv, Stat, TypeOK
<1>2. LockHeld'
  BY DEF AliasInv, Stat, LockHeld, Ours
<1>3. Fingerprints'
  BY DEF AliasInv, Stat, TypeOK, Versions, Fingerprints, Asked
<1>4. NotOvertaken'
  BY DEF AliasInv, Stat, At, NotOvertaken
<1>5. NoneWhileMade'
  BY DEF AliasInv, Stat, NoneWhileMade, Ours
<1>6. MadeOfTheSource'
  BY DEF AliasInv, Stat, At, MadeOfTheSource
<1>7. UnrecordedIsInMaking'
  BY DEF AliasInv, Stat, At, UnrecordedIsInMaking
<1>8. GivenIsRecorded'
  BY DEF AliasInv, Stat, At, GivenIsRecorded
<1>9. (Versions /\ LinkIsThere /\ EntryVouches /\ StaleIsStale)'
  BY DEF AliasInv, Stat, Versions, LinkIsThere, EntryVouches, StaleIsStale
<1> QED
  BY <1>1, <1>2, <1>3, <1>4, <1>5, <1>6, <1>7, <1>8, <1>9 DEF AliasInv

\* Each of the four findings under the lock: an alias is given only with the
\* fingerprint that the manifest has for it.
LEMMA EnterKeeps ==
  ASSUME AliasInv, Windows = {}, NEW t \in Takes, Enter(t)
  PROVE  AliasInv'
<1>1. TypeOK'
  BY Limits DEF AliasInv, Enter, Found, Saved, Goes, TypeOK, Partial,
    Collector, NoAlias
<1>2. Versions'
  BY DEF AliasInv, Enter, Found, Saved, At, Goes, TypeOK, Versions,
    Fingerprints, Asked
<1>3. LinkIsThere'
  BY DEF AliasInv, Enter, Found, Saved, Goes, TypeOK, LinkIsThere
<1>4. LockHeld'
  BY Owners DEF AliasInv, Enter, Found, Saved, Goes, TypeOK, LockHeld, Ours
<1>5. Fingerprints'
  BY DEF AliasInv, Enter, Found, Saved, At, Goes, TypeOK, LockHeld,
    Fingerprints, Asked
<1>6. NotOvertaken'
  BY DEF AliasInv, Enter, Found, Saved, At, Goes, TypeOK, NotOvertaken
<1>7. EntryVouches'
  BY Owners DEF AliasInv, Enter, Found, Saved, Goes, TypeOK, LockHeld,
    NotOvertaken, EntryVouches, UnrecordedIsInMaking, Ours
<1>8. NoneWhileMade'
  BY Owners DEF AliasInv, Enter, Found, Saved, At, Goes, TypeOK, LockHeld,
    Fingerprints, NotOvertaken, EntryVouches, NoneWhileMade, Ours, Asked,
    Partial, Collector, NoAlias
<1>9. MadeOfTheSource'
  BY Owners DEF AliasInv, Enter, Found, Saved, At, Goes, TypeOK, LockHeld,
    MadeOfTheSource, Ours
<1>10. UnrecordedIsInMaking'
  BY DEF AliasInv, Enter, Found, Saved, Goes, TypeOK, LockHeld, Fingerprints,
    UnrecordedIsInMaking, Asked
<1>11. GivenIsRecorded'
  BY EnterGiven
<1>12. StaleIsStale'
  BY Owners DEF AliasInv, Enter, Found, Saved, Goes, StaleIsStale, Collector
<1> QED
  BY <1>1, <1>2, <1>3, <1>4, <1>5, <1>6, <1>7, <1>8, <1>9, <1>10, <1>11, <1>12
    DEF AliasInv

\* A link is made only where no alias is, and has the content of its source.
LEMMA HardLinkKeeps ==
  ASSUME AliasInv, Windows = {}, NEW t \in Takes, HardLink(t)
  PROVE  AliasInv'
<1>1. TypeOK'
  BY Limits DEF AliasInv, HardLink, At, Goes, TypeOK, Fingerprints, Asked,
    Partial, Collector, NoAlias
<1>2. LinkIsThere'
  BY DEF AliasInv, HardLink, At, Goes, TypeOK, LinkIsThere, Fingerprints,
    Asked, Partial, Collector, NoAlias
<1>3. LockHeld'
  BY DEF AliasInv, HardLink, At, Goes, LockHeld, Ours
<1>4. Fingerprints'
  BY DEF AliasInv, HardLink, At, Goes, Fingerprints, Asked
<1>5. NotOvertaken'
  BY DEF AliasInv, HardLink, At, Goes, NotOvertaken
<1>6. EntryVouches'
  BY DEF AliasInv, HardLink, Goes, EntryVouches
<1>7. NoneWhileMade'
  BY DEF AliasInv, HardLink, At, Goes, NoneWhileMade, Ours
<1>8. MadeOfTheSource'
  BY DEF AliasInv, HardLink, At, Goes, TypeOK, Fingerprints, MadeOfTheSource,
    Asked
<1>9. UnrecordedIsInMaking'
  BY DEF AliasInv, HardLink, Goes, TypeOK, UnrecordedIsInMaking
<1>10. GivenIsRecorded'
  BY DEF AliasInv, HardLink, At, Goes, GivenIsRecorded
<1>11. (Versions /\ StaleIsStale)'
  BY DEF AliasInv, HardLink, Versions, StaleIsStale
<1> QED
  BY <1>1, <1>2, <1>3, <1>4, <1>5, <1>6, <1>7, <1>8, <1>9, <1>10, <1>11 DEF
    AliasInv

\* A half copy is vouched for by nothing: the manifest has no fingerprint, or
\* an older one, as long as an alias is in the making.
LEMMA CopyBeginsKeeps ==
  ASSUME AliasInv, Windows = {}, NEW t \in Takes, CopyBegins(t)
  PROVE  AliasInv'
<1>1. TypeOK'
  BY Limits DEF AliasInv, CopyBegins, At, Goes, TypeOK, Fingerprints, Asked,
    Partial, Collector, NoAlias
<1>2. LinkIsThere'
  BY DEF AliasInv, CopyBegins, Goes, LinkIsThere
<1>3. LockHeld'
  BY DEF AliasInv, CopyBegins, At, Goes, LockHeld, Ours
<1>4. Fingerprints'
  BY DEF AliasInv, CopyBegins, At, Goes, Fingerprints, Asked
<1>5. NotOvertaken'
  BY DEF AliasInv, CopyBegins, At, Goes, NotOvertaken
<1>6. EntryVouches'
  BY DEF AliasInv, CopyBegins, At, Goes, EntryVouches, NoneWhileMade, Ours
<1>7. NoneWhileMade'
  BY DEF AliasInv, CopyBegins, At, Goes, NoneWhileMade, Ours
<1>8. MadeOfTheSource'
  BY DEF AliasInv, CopyBegins, At, Goes, LockHeld, MadeOfTheSource, Ours
<1>9. UnrecordedIsInMaking'
  BY DEF AliasInv, CopyBegins, Goes, TypeOK, UnrecordedIsInMaking
<1>10. GivenIsRecorded'
  BY DEF AliasInv, CopyBegins, At, Goes, NoneWhileMade, GivenIsRecorded, Ours
<1>11. (Versions /\ StaleIsStale)'
  BY DEF AliasInv, CopyBegins, Versions, StaleIsStale
<1> QED
  BY <1>1, <1>2, <1>3, <1>4, <1>5, <1>6, <1>7, <1>8, <1>9, <1>10, <1>11 DEF
    AliasInv

\* The copy is the source, or the source is another one by now.
LEMMA CopyEndsKeeps ==
  ASSUME AliasInv, Windows = {}, NEW t \in Takes, CopyEnds(t)
  PROVE  AliasInv'
<1>1. TypeOK'
  BY Limits DEF AliasInv, CopyEnds, At, Goes, TypeOK, Fingerprints, Asked,
    Partial, Collector, NoAlias
<1>2. LinkIsThere'
  BY DEF AliasInv, CopyEnds, Goes, LinkIsThere, Partial, Collector, NoAlias
<1>3. LockHeld'
  BY DEF AliasInv, CopyEnds, At, Goes, LockHeld, Ours
<1>4. Fingerprints'
  BY DEF AliasInv, CopyEnds, At, Goes, Fingerprints, Asked
<1>5. NotOvertaken'
  BY DEF AliasInv, CopyEnds, At, Goes, NotOvertaken
<1>6. EntryVouches'
  BY DEF AliasInv, CopyEnds, Goes, Versions, EntryVouches
<1>7. NoneWhileMade'
  BY DEF AliasInv, CopyEnds, At, Goes, NoneWhileMade, Ours
<1>8. MadeOfTheSource'
  BY DEF AliasInv, CopyEnds, At, Goes, TypeOK, Versions, Fingerprints,
    MadeOfTheSource, Asked
<1>9. UnrecordedIsInMaking'
  BY DEF AliasInv, CopyEnds, Goes, TypeOK, UnrecordedIsInMaking
<1>10. GivenIsRecorded'
  BY DEF AliasInv, CopyEnds, At, Goes, Fingerprints, NoneWhileMade,
    GivenIsRecorded, Ours, Asked
<1>11. (Versions /\ StaleIsStale)'
  BY DEF AliasInv, CopyEnds, Versions, StaleIsStale
<1> QED
  BY <1>1, <1>2, <1>3, <1>4, <1>5, <1>6, <1>7, <1>8, <1>9, <1>10, <1>11 DEF
    AliasInv

\* A take that cannot make its alias gives none and lets the lock go.
LEMMA CannotCopyKeeps ==
  ASSUME AliasInv, Windows = {}, NEW t \in Takes, CannotCopy(t)
  PROVE  AliasInv'
<1>1. TypeOK'
  BY DEF AliasInv, CannotCopy, Goes, TypeOK
<1>2. LockHeld'
  BY DEF AliasInv, CannotCopy, At, Goes, TypeOK, LockHeld, Ours
<1>3. Fingerprints'
  BY DEF AliasInv, CannotCopy, Goes, Fingerprints, Asked
<1>4. NotOvertaken'
  BY DEF AliasInv, CannotCopy, At, Goes, NotOvertaken
<1>5. NoneWhileMade'
  BY DEF AliasInv, CannotCopy, Goes, NoneWhileMade, Ours
<1>6. MadeOfTheSource'
  BY DEF AliasInv, CannotCopy, At, Goes, MadeOfTheSource
<1>7. UnrecordedIsInMaking'
  BY DEF AliasInv, CannotCopy, At, Goes, UnrecordedIsInMaking
<1>8. GivenIsRecorded'
  BY DEF AliasInv, CannotCopy, At, Goes, GivenIsRecorded
<1>9. StaleIsStale'
  BY Owners DEF AliasInv, CannotCopy, Goes, StaleIsStale, Collector
<1>10. (Versions /\ LinkIsThere /\ EntryVouches)'
  BY DEF AliasInv, CannotCopy, Versions, LinkIsThere, EntryVouches
<1> QED
  BY <1>1, <1>2, <1>3, <1>4, <1>5, <1>6, <1>7, <1>8, <1>9, <1>10 DEF AliasInv

\* The fingerprint recorded is that of the content the alias was made of.
LEMMA SaveKeeps ==
  ASSUME AliasInv, Windows = {}, NEW t \in Takes, Save(t)
  PROVE  AliasInv'
<1>1. TypeOK'
  BY Limits DEF AliasInv, Save, Saved, Recorded, Goes, TypeOK, EntryVouches
<1>2. Versions'
  BY DEF AliasInv, Save, Saved, Recorded, At, Goes, TypeOK, Versions,
    Fingerprints, Asked
<1>3. LockHeld'
  BY DEF AliasInv, Save, Saved, Recorded, At, Goes, TypeOK, LockHeld, Ours
<1>4. Fingerprints'
  BY DEF AliasInv, Save, Saved, Recorded, At, Goes, Fingerprints, Asked
<1>5. NotOvertaken'
  BY DEF AliasInv, Save, Saved, Recorded, At, Goes, NotOvertaken
<1>6. EntryVouches'
  BY DEF AliasInv, Save, Saved, Recorded, Goes, TypeOK, EntryVouches,
    MadeOfTheSource
<1>7. NoneWhileMade'
  BY DEF AliasInv, Save, Saved, Recorded, At, Goes, TypeOK, LockHeld,
    NoneWhileMade, Ours
<1>8. MadeOfTheSource'
  BY DEF AliasInv, Save, Saved, Recorded, At, Goes, MadeOfTheSource
<1>9. UnrecordedIsInMaking'
  BY DEF AliasInv, Save, Saved, Recorded, At, Goes, TypeOK, Fingerprints,
    UnrecordedIsInMaking, Asked
<1>10. GivenIsRecorded'
  BY DEF AliasInv, Save, Saved, Recorded, At, Goes, TypeOK, Fingerprints,
    NoneWhileMade, MadeOfTheSource, GivenIsRecorded, Ours, Asked
<1>11. StaleIsStale'
  BY Owners DEF AliasInv, Save, Saved, Recorded, Goes, StaleIsStale, Collector
<1>12. LinkIsThere'
  BY DEF AliasInv, Save, LinkIsThere
<1> QED
  BY <1>1, <1>2, <1>3, <1>4, <1>5, <1>6, <1>7, <1>8, <1>9, <1>10, <1>11, <1>12
    DEF AliasInv

\* A scan that has looked at the manifest has the lock and the stale entries.
LEMMA GcReadsKeeps ==
  ASSUME AliasInv, Windows = {}, GcReads
  PROVE  AliasInv'
<1>1. TypeOK'
  BY Limits DEF AliasInv, GcReads, TypeOK
<1>2. LockHeld'
  BY Owners DEF AliasInv, GcReads, LockHeld, Ours
<1>3. StaleIsStale'
  BY DEF AliasInv, GcReads, StaleIsStale
<1>4. (Versions /\ LinkIsThere /\ Fingerprints /\ NotOvertaken /\ EntryVouches
       /\ NoneWhileMade /\ MadeOfTheSource /\ UnrecordedIsInMaking /\
       GivenIsRecorded)'
  BY DEF AliasInv, GcReads, Versions, LinkIsThere, Fingerprints, NotOvertaken,
    EntryVouches, NoneWhileMade, MadeOfTheSource, UnrecordedIsInMaking,
    GivenIsRecorded, Asked, At, Ours
<1> QED
  BY <1>1, <1>2, <1>3, <1>4 DEF AliasInv

\* A scan removes what the manifest does not vouch for, and no given alias of
\* a source that is as it was.
LEMMA GcRemovesKeeps ==
  ASSUME AliasInv, Windows = {}, GcRemoves
  PROVE  AliasInv'
<1>1. TypeOK'
  BY Limits DEF AliasInv, GcRemoves, Saved, TypeOK, Partial, Collector,
    NoAlias
<1>2. Versions'
  BY DEF AliasInv, GcRemoves, Saved, TypeOK, Versions
<1>3. LinkIsThere'
  BY DEF AliasInv, GcRemoves, Saved, TypeOK, LinkIsThere
<1>4. LockHeld'
  BY Owners DEF AliasInv, GcRemoves, Saved, LockHeld, Ours, Collector
<1>5. EntryVouches'
  BY DEF AliasInv, GcRemoves, Saved, EntryVouches
<1>6. NoneWhileMade'
  BY DEF AliasInv, GcRemoves, Saved, Fingerprints, NoneWhileMade, Ours, Asked
<1>7. MadeOfTheSource'
  BY Owners DEF AliasInv, GcRemoves, Saved, LockHeld, MadeOfTheSource, Ours,
    At, Collector
<1>8. UnrecordedIsInMaking'
  BY DEF AliasInv, GcRemoves, Saved, UnrecordedIsInMaking
<1>9. GivenIsRecorded'
  BY DEF AliasInv, GcRemoves, Saved, Fingerprints, GivenIsRecorded,
    StaleIsStale, Asked, At
<1>10. StaleIsStale'
  BY DEF AliasInv, GcRemoves, Saved, StaleIsStale
<1>11. (Fingerprints /\ NotOvertaken)'
  BY DEF AliasInv, GcRemoves, Fingerprints, NotOvertaken, Asked, At
<1> QED
  BY <1>1, <1>2, <1>3, <1>4, <1>5, <1>6, <1>7, <1>8, <1>9, <1>10, <1>11 DEF
    AliasInv

\* A new export has a fingerprint no alias and no take has.
LEMMA ExportKeeps ==
  ASSUME AliasInv, Windows = {}, NEW s \in Sources, Export(s)
  PROVE  AliasInv'
<1>1. TypeOK'
  BY Limits DEF AliasInv, Export, TypeOK, Partial, Collector, NoAlias
<1>2. Versions'
  BY DEF AliasInv, Export, TypeOK, Versions
<1>3. LinkIsThere'
  BY DEF AliasInv, Export, TypeOK, LinkIsThere, Partial, Collector, NoAlias
<1>4. Fingerprints'
  BY DEF AliasInv, Export, TypeOK, Fingerprints, Asked
<1>5. NotOvertaken'
  BY DEF AliasInv, Export, At, NotOvertaken
<1>6. EntryVouches'
  BY DEF AliasInv, Export, TypeOK, Versions, EntryVouches
<1>7. NoneWhileMade'
  BY DEF AliasInv, Export, TypeOK, Versions, NoneWhileMade, Ours
<1>8. MadeOfTheSource'
  BY DEF AliasInv, Export, At, TypeOK, Fingerprints, MadeOfTheSource, Asked
<1>9. UnrecordedIsInMaking'
  BY DEF AliasInv, Export, TypeOK, LinkIsThere, UnrecordedIsInMaking
<1>10. GivenIsRecorded'
  BY DEF AliasInv, Export, At, TypeOK, Fingerprints, GivenIsRecorded, Asked
<1>11. StaleIsStale'
  BY DEF AliasInv, Export, TypeOK, Versions, StaleIsStale
<1>12. LockHeld'
  BY DEF AliasInv, Export, LockHeld, Ours
<1> QED
  BY <1>1, <1>2, <1>3, <1>4, <1>5, <1>6, <1>7, <1>8, <1>9, <1>10, <1>11, <1>12
    DEF AliasInv

\* A clip that is gone is the source of no take that would trust its alias.
LEMMA DeleteKeeps ==
  ASSUME AliasInv, Windows = {}, NEW s \in Sources, Delete(s)
  PROVE  AliasInv'
<1>1. TypeOK'
  BY Limits DEF AliasInv, Delete, TypeOK
<1>2. Versions'
  BY DEF AliasInv, Delete, Versions
<1>3. LinkIsThere'
  BY DEF AliasInv, Delete, LinkIsThere
<1>4. NotOvertaken'
  BY DEF AliasInv, Delete, NotOvertaken, At
<1>5. EntryVouches'
  BY DEF AliasInv, Delete, EntryVouches
<1>6. NoneWhileMade'
  BY DEF AliasInv, Delete, NoneWhileMade, Ours
<1>7. MadeOfTheSource'
  BY DEF AliasInv, Delete, Fingerprints, MadeOfTheSource, Asked, At
<1>8. GivenIsRecorded'
  BY DEF AliasInv, Delete, Fingerprints, GivenIsRecorded, Asked, At
<1>9. StaleIsStale'
  BY DEF AliasInv, Delete, StaleIsStale
<1>10. (LockHeld /\ Fingerprints /\ UnrecordedIsInMaking)'
  BY DEF AliasInv, Delete, LockHeld, Fingerprints, UnrecordedIsInMaking,
    Asked, Ours
<1> QED
  BY <1>1, <1>2, <1>3, <1>4, <1>5, <1>6, <1>7, <1>8, <1>9, <1>10 DEF AliasInv

\* The engine opening an alias changes nothing that is vouched for.
LEMMA OpenKeeps ==
  ASSUME AliasInv, Windows = {}, NEW s \in Sources, Open(s)
  PROVE  AliasInv'
<1>1. TypeOK'
  BY DEF AliasInv, Open, TypeOK
<1>2. (Versions /\ LinkIsThere /\ LockHeld /\ Fingerprints /\ NotOvertaken /\
       EntryVouches /\ NoneWhileMade /\ MadeOfTheSource /\
       UnrecordedIsInMaking /\ GivenIsRecorded /\ StaleIsStale)'
  BY DEF AliasInv, Open, Versions, LinkIsThere, LockHeld, Fingerprints,
    NotOvertaken, EntryVouches, NoneWhileMade, MadeOfTheSource,
    UnrecordedIsInMaking, GivenIsRecorded, StaleIsStale, Asked, At, Ours
<1> QED
  BY <1>1, <1>2 DEF AliasInv

\* Nor does its closing one.
LEMMA CloseKeeps ==
  ASSUME AliasInv, Windows = {}, NEW s \in Sources, Close(s)
  PROVE  AliasInv'
<1>1. TypeOK'
  BY DEF AliasInv, Close, TypeOK
<1>2. (Versions /\ LinkIsThere /\ LockHeld /\ Fingerprints /\ NotOvertaken /\
       EntryVouches /\ NoneWhileMade /\ MadeOfTheSource /\
       UnrecordedIsInMaking /\ GivenIsRecorded /\ StaleIsStale)'
  BY DEF AliasInv, Close, Versions, LinkIsThere, LockHeld, Fingerprints,
    NotOvertaken, EntryVouches, NoneWhileMade, MadeOfTheSource,
    UnrecordedIsInMaking, GivenIsRecorded, StaleIsStale, Asked, At, Ours
<1> QED
  BY <1>1, <1>2 DEF AliasInv

\* A death outside the making of an alias leaves no alias unrecorded.
LEMMA DiesKeeps ==
  ASSUME AliasInv, Windows = {}, Dies
  PROVE  AliasInv'
<1>1. TypeOK'
  BY DEF AliasInv, Dies, TypeOK
<1>2. LockHeld'
  BY DEF AliasInv, Dies, At, LockHeld, Ours
<1>3. Fingerprints'
  BY DEF AliasInv, Dies, Fingerprints, Asked
<1>4. NotOvertaken'
  BY DEF AliasInv, Dies, At, NotOvertaken
<1>5. NoneWhileMade'
  BY DEF AliasInv, Dies, NoneWhileMade, Ours
<1>6. MadeOfTheSource'
  BY DEF AliasInv, Dies, At, MadeOfTheSource
<1>7. UnrecordedIsInMaking'
  BY DEF AliasInv, Dies, At, UnrecordedIsInMaking
<1>8. GivenIsRecorded'
  BY DEF AliasInv, Dies, At, GivenIsRecorded
<1>9. StaleIsStale'
  BY DEF AliasInv, Dies, StaleIsStale
<1>10. (Versions /\ LinkIsThere /\ EntryVouches)'
  BY DEF AliasInv, Dies, Versions, LinkIsThere, EntryVouches
<1> QED
  BY <1>1, <1>2, <1>3, <1>4, <1>5, <1>6, <1>7, <1>8, <1>9, <1>10 DEF AliasInv

-----------------------------------------------------------------------------
\* Every step, the stuttering one included, keeps the inductive invariant.
LEMMA StepKeeps == ASSUME AliasInv, Windows = {}, [Next]_aliasVars PROVE AliasInv'
<1>1. CASE \E t \in Takes, s \in Sources : Stat(t, s)
  BY <1>1, StatKeeps
<1>2. CASE \E t \in Takes :
             Enter(t) \/ HardLink(t) \/ CopyBegins(t) \/ CopyEnds(t) \/ CannotCopy(t) \/ Save(t)
  BY <1>2, EnterKeeps, HardLinkKeeps, CopyBeginsKeeps, CopyEndsKeeps, CannotCopyKeeps, SaveKeeps
<1>3. CASE GcReads \/ GcRemoves
  BY <1>3, GcReadsKeeps, GcRemovesKeeps
<1>4. CASE \E s \in Sources : Export(s) \/ Delete(s) \/ Open(s) \/ Close(s)
  BY <1>4, ExportKeeps, DeleteKeeps, OpenKeeps, CloseKeeps
<1>5. CASE Dies
  BY <1>5, DiesKeeps
<1>6. CASE UNCHANGED aliasVars
  BY <1>6, Stutters
<1> QED
  BY <1>1, <1>2, <1>3, <1>4, <1>5, <1>6 DEF Next

\* While nobody exports a clip in the moment its take waits for the lock, no
\* manifest is lost and PlayOut does not die making an alias, a take that was
\* given an alias finds the clip it asked for in it, for any number of clips,
\* takes, exports and scans (ensure_ascii_alias, gc_stale_aliases).
THEOREM AliasIsTheClip == Windows = {} => (Spec => []GivenAliasIsTheClip)
<1> SUFFICES ASSUME Windows = {} PROVE Spec => []GivenAliasIsTheClip
  OBVIOUS
<1>1. Init => AliasInv
  BY InitKeeps
<1>2. AliasInv /\ [Next]_aliasVars => AliasInv'
  BY StepKeeps
<1>3. AliasInv => GivenAliasIsTheClip
  BY DEF AliasInv, GivenIsRecorded, GivenAliasIsTheClip
<1> QED
  BY <1>1, <1>2, <1>3, PTL DEF Spec

-----------------------------------------------------------------------------
(* PeaksOfTheOpenClip *)

\* What a cache may hold: an envelope read of a file that was not older than its key.
Envelopes ==
  {e \in [key : Clips \X Nat, peaks : Nat] : e.key[2] <= e.peaks /\ e.peaks <= version[e.key[1]]}

PeakRequests ==
  [at : Peaks!Looking \cup {"idle", "scan", "end", "put", "ready", "none", "error", "cancelled"},
   clip : Clips \cup {Nobody}, key : Nat, peaks : Nat]

PeaksTypes ==
  /\ version \in [Clips -> Nat]
  /\ request \in [Requests -> PeakRequests]
  /\ active \in Requests \cup {Nobody} /\ panel \in Requests \cup {Nobody}
  /\ memory \in Seq(Envelopes) /\ disk \in Seq(Envelopes)

\* A request has a clip; from its stat on it has a key, not newer than the file; what its
\* scan reads is not older than that.
Reading(r) ==
  /\ request[r].at # "idle" => request[r].clip \in Clips
  /\ request[r].at \in {"memory", "disk", "begin", "scan", "end", "put"} =>
       1 <= request[r].key /\ request[r].key <= version[request[r].clip]
  /\ request[r].at \in {"scan", "end", "put"} =>
       request[r].key <= request[r].peaks /\ request[r].peaks <= version[request[r].clip]

\* The panel waits for the one request that looks for its file.
OneLooks == \A r \in Requests : request[r].at \in Peaks!Looking => panel = r

\* A scan that was not told to stop is the registered one.
Registered == \A r \in Requests : request[r].at = "scan" /\ r \notin cancel => active = r

PeaksInv ==
  /\ PeaksTypes /\ (\A r \in Requests : Reading(r))
  /\ OneLooks /\ Registered /\ Peaks!ScansTheOpenClip

\* Taking an entry out of a cache, and putting one in, brings nothing else into it.
LEMMA PutKeeps ==
  ASSUME NEW S, NEW cache \in Seq(S), NEW e \in S, NEW limit
  PROVE  Peaks!Put(cache, limit, e) \in Seq(S)
<1>1. Peaks!Without(cache, e.key) \in Seq(S)
  <2>1. ASSUME NEW i \in DOMAIN cache PROVE Peaks!RemoveAt(cache, i) \in Seq(S)
    <3>1. Len(cache) \in Nat /\ i \in 1..Len(cache) /\ \A j \in 1..Len(cache) : cache[j] \in S
      BY LenProperties, ElementOfSeq
    <3>2. SubSeq(cache, 1, i - 1) \in Seq(S) /\ SubSeq(cache, i + 1, Len(cache)) \in Seq(S)
      BY <3>1, SubSeqProperties
    <3> QED
      BY <3>2, ConcatProperties DEF Peaks!RemoveAt
  <2> QED
    BY <2>1 DEF Peaks!Without
<1>2. Append(Peaks!Without(cache, e.key), e) \in Seq(S)
  BY <1>1, AppendProperties
<1>3. Append(Peaks!Without(cache, e.key), e) # <<>>
  BY <1>1, AppendProperties
<1> QED
  BY <1>2, <1>3, HeadTailProperties DEF Peaks!Put

\* What a cache answers for a key has that key.
LEMMA HitsAreEnvelopes ==
  ASSUME NEW S, NEW cache \in Seq(S), NEW p, NEW v, NEW e \in Peaks!Hits(cache, p, v)
  PROVE  e \in S /\ e.key = <<p, v>>
BY LenProperties, ElementOfSeq DEF Peaks!Hits, Peaks!Range

\* The caches are empty at first.
LEMMA PeaksInit == ASSUME Peaks!Init PROVE PeaksInv
<1>1. PeaksTypes
  BY EmptySeq DEF Peaks!Init, PeaksTypes, PeakRequests, Peaks!Idle
<1> QED
  BY <1>1 DEF Peaks!Init, PeaksInv, Reading, OneLooks, Registered, Peaks!ScansTheOpenClip, Peaks!Idle, Peaks!Looking

\* A request that moves on: what its new record has to be.
LEMMA RequestMoves ==
  ASSUME PeaksInv, version' = version, NEW r \in Requests, NEW new \in PeakRequests,
         memory' \in Seq(Envelopes), disk' \in Seq(Envelopes),
         active' \in Requests \cup {Nobody}, panel' \in Requests \cup {Nobody},
         request' = [request EXCEPT ![r] = new],
         new.clip \in Clips,
         new.at \in {"memory", "disk", "begin", "scan", "end", "put"} =>
           1 <= new.key /\ new.key <= version[new.clip],
         new.at \in {"scan", "end", "put"} => new.key <= new.peaks /\ new.peaks <= version[new.clip]
  PROVE  /\ PeaksTypes' /\ \A q \in Requests : Reading(q)'
         /\ request'[r] = new /\ \A q \in Requests : q # r => request'[q] = request[q]
<1>1. Envelopes' = Envelopes
  BY DEF Envelopes
<1>2. /\ request'[r] = new /\ \A q \in Requests : q # r => request'[q] = request[q]
      /\ request' \in [Requests -> PeakRequests] /\ version \in [Clips -> Nat]
  BY DEF PeaksInv, PeaksTypes
<1>3. Reading(r)'
  BY <1>2 DEF Reading
<1>4. \A q \in Requests : q # r => Reading(q)'
  BY <1>2 DEF PeaksInv, Reading
<1> QED
  BY <1>1, <1>2, <1>3, <1>4 DEF PeaksTypes

\* A request goes on with its look or after its scan, and tells no scan to stop.
LEMMA GoesOn ==
  ASSUME PeaksInv, UNCHANGED <<version, cancel, panel>>, NEW r \in Requests, NEW new \in PeakRequests,
         memory' \in Seq(Envelopes), disk' \in Seq(Envelopes),
         active' = active \/ (active = r /\ active' = Nobody),
         request' = [request EXCEPT ![r] = new], new.clip \in Clips,
         request[r].at # "called", new.at # "scan",
         new.at \in Peaks!Looking => request[r].at \in Peaks!Looking,
         new.at \in {"memory", "disk", "begin", "end", "put"} =>
           1 <= new.key /\ new.key <= version[new.clip],
         new.at \in {"end", "put"} => new.key <= new.peaks /\ new.peaks <= version[new.clip]
  PROVE  PeaksInv'
<1>1. active' \in Requests \cup {Nobody} /\ panel' \in Requests \cup {Nobody}
  BY DEF PeaksInv, PeaksTypes
<1>2. /\ PeaksTypes' /\ \A q \in Requests : Reading(q)'
      /\ request'[r] = new /\ \A q \in Requests : q # r => request'[q] = request[q]
  BY <1>1, RequestMoves
<1>3. OneLooks'
  BY <1>2 DEF PeaksInv, OneLooks, Peaks!Looking
<1>4. Registered'
  BY <1>2 DEF PeaksInv, Registered
<1>5. Peaks!ScansTheOpenClip'
  <2> SUFFICES ASSUME NEW q \in Requests, request'[q].at = "scan", q \notin cancel', panel' # q
               PROVE  panel' # Nobody /\ request'[panel'].at = "called"
    BY DEF Peaks!ScansTheOpenClip
  <2>1. q # r /\ request[q].at = "scan" /\ q \notin cancel /\ panel # q
    BY <1>2
  <2>2. panel \in Requests /\ request[panel].at = "called"
    BY <2>1 DEF PeaksInv, Peaks!ScansTheOpenClip, PeaksTypes
  <2> QED
    BY <1>2, <2>2, RequestNames
<1> QED
  BY <1>2, <1>3, <1>4, <1>5 DEF PeaksInv

\* The panel opens a clip while no request looks for its file.
LEMMA LoadPeaksKept ==
  ASSUME PeaksInv, "slowstat" \notin Windows, NEW r \in Requests, NEW p \in Clips, Peaks!LoadPeaks(r, p)
  PROVE  PeaksInv'
<1> DEFINE new == [at |-> "called", clip |-> p, key |-> 0, peaks |-> 0]
<1>1. /\ UNCHANGED <<version, active, cancel, memory, disk>> /\ panel' = r
      /\ request[r].at = "idle" /\ \A q \in Requests : request[q].at \notin Peaks!Looking
  BY DEF Peaks!LoadPeaks, Peaks!Undisturbed
<1>2. request' = [request EXCEPT ![r] = new]
  BY DEF Peaks!LoadPeaks
<1>3. new \in PeakRequests /\ new.at = "called" /\ new.clip \in Clips
  BY DEF Peaks!Looking, PeakRequests
<1> HIDE DEF new
<1>4. memory' \in Seq(Envelopes) /\ disk' \in Seq(Envelopes) /\ active' \in Requests \cup {Nobody}
  BY <1>1 DEF PeaksInv, PeaksTypes
<1>5. /\ PeaksTypes' /\ \A q \in Requests : Reading(q)'
      /\ request'[r] = new /\ \A q \in Requests : q # r => request'[q] = request[q]
  BY <1>1, <1>2, <1>3, <1>4, RequestMoves
<1>6. OneLooks'
  BY <1>1, <1>5 DEF OneLooks
<1>7. Registered' /\ Peaks!ScansTheOpenClip'
  BY <1>1, <1>3, <1>5, RequestNames DEF PeaksInv, Registered, Peaks!ScansTheOpenClip
<1> QED
  BY <1>5, <1>6, <1>7 DEF PeaksInv

\* The panel closes: the registered scan is told to stop.
LEMMA CancelKept ==
  ASSUME PeaksInv, "slowstat" \notin Windows, Peaks!CancelAudioPeaks PROVE PeaksInv'
<1>1. /\ UNCHANGED <<version, request, memory, disk>> /\ panel' = Nobody
      /\ active' = Nobody /\ cancel' = cancel \cup ({active} \ {Nobody})
      /\ \A q \in Requests : request[q].at \notin Peaks!Looking
  BY DEF Peaks!CancelAudioPeaks, Peaks!CancelActiveScan, Peaks!Undisturbed
<1>2. PeaksTypes' /\ \A q \in Requests : Reading(q)'
  BY <1>1 DEF PeaksInv, PeaksTypes, Envelopes, Reading
<1>3. \A q \in Requests : request[q].at = "scan" => q \in cancel'
  BY <1>1, RequestNames DEF PeaksInv, Registered
<1> QED
  BY <1>1, <1>2, <1>3 DEF PeaksInv, OneLooks, Registered, Peaks!ScansTheOpenClip

\* load_peaks stops the scan of the last clip.
LEMMA SupersedeKept ==
  ASSUME PeaksInv, NEW r \in Requests, Peaks!Supersede(r) PROVE PeaksInv'
<1> DEFINE new == [request[r] EXCEPT !.at = "stat"]
<1>1. /\ UNCHANGED <<version, memory, disk, panel>> /\ request[r].at = "called"
      /\ active' = Nobody /\ cancel' = cancel \cup ({active} \ {Nobody})
      /\ request' = [request EXCEPT ![r] = new]
  BY DEF Peaks!Supersede, Peaks!CancelActiveScan, Peaks!Step
<1>2. new \in PeakRequests /\ new.at = "stat" /\ new.clip \in Clips
  BY <1>1 DEF PeaksInv, PeaksTypes, PeakRequests, Reading, Peaks!Looking
<1> HIDE DEF new
<1>3. /\ memory' \in Seq(Envelopes) /\ disk' \in Seq(Envelopes)
      /\ active' \in Requests \cup {Nobody} /\ panel' \in Requests \cup {Nobody}
  BY <1>1 DEF PeaksInv, PeaksTypes
<1>4. /\ PeaksTypes' /\ \A q \in Requests : Reading(q)'
      /\ request'[r] = new /\ \A q \in Requests : q # r => request'[q] = request[q]
  BY <1>1, <1>2, <1>3, RequestMoves
<1>5. \A q \in Requests : request[q].at = "scan" => q \in cancel'
  BY <1>1, RequestNames DEF PeaksInv, Registered
<1>6. \A q \in Requests : request'[q].at = "scan" => q \in cancel'
  BY <1>2, <1>4, <1>5
<1>7. OneLooks'
  BY <1>1, <1>4 DEF PeaksInv, OneLooks, Peaks!Looking
<1> QED
  BY <1>4, <1>6, <1>7 DEF PeaksInv, Registered, Peaks!ScansTheOpenClip

\* The stat finds the file as it is.
LEMMA StatKept == ASSUME PeaksInv, NEW r \in Requests, Peaks!Stat(r) PROVE PeaksInv'
<1> DEFINE v == version[request[r].clip]
           new == [request[r] EXCEPT !.at = IF v = 0 THEN "error" ELSE "memory", !.key = v]
<1>1. /\ UNCHANGED <<version, active, cancel, memory, disk, panel>> /\ request[r].at = "stat"
      /\ request' = [request EXCEPT ![r] = new]
  BY DEF Peaks!Stat
<1>2. request[r] \in PeakRequests /\ request[r].clip \in Clips /\ v \in Nat
  BY <1>1 DEF PeaksInv, PeaksTypes, Reading
<1>3. /\ new \in PeakRequests /\ new.clip = request[r].clip /\ new.key = v
      /\ new.at = IF v = 0 THEN "error" ELSE "memory"
  BY <1>2 DEF PeakRequests, Peaks!Looking
<1> HIDE DEF new
<1>4. memory' \in Seq(Envelopes) /\ disk' \in Seq(Envelopes)
  BY <1>1 DEF PeaksInv, PeaksTypes
<1>5. /\ new.at \notin {"called", "scan", "disk", "begin", "end", "put"}
      /\ new.at = "memory" => 1 <= new.key /\ new.key <= version[new.clip]
  BY <1>2, <1>3
<1> QED
  BY <1>1, <1>2, <1>3, <1>4, <1>5, GoesOn DEF Peaks!Looking

\* What the caches hold for a key was read of the file that the key tells of, or of a newer one.
LEMMA CachesKept ==
  ASSUME PeaksInv, NEW r \in Requests, Peaks!InMemory(r) \/ Peaks!OnDisk(r) PROVE PeaksInv'
<1>1. /\ UNCHANGED <<version, active, cancel, disk, panel>> /\ request[r].at \in {"memory", "disk"}
      /\ memory \in Seq(Envelopes) /\ disk \in Seq(Envelopes)
  BY DEF Peaks!InMemory, Peaks!OnDisk, PeaksInv, PeaksTypes
<1>2. /\ request[r] \in PeakRequests /\ request[r].clip \in Clips
      /\ 1 <= request[r].key /\ request[r].key <= version[request[r].clip]
  BY <1>1 DEF PeaksInv, PeaksTypes, Reading
<1>3. ASSUME NEW to \in {"disk", "begin"}, request' = [request EXCEPT ![r].at = to], memory' = memory
      PROVE  PeaksInv'
  <2> DEFINE new == [request[r] EXCEPT !.at = to]
  <2>1. /\ new \in PeakRequests /\ new.clip = request[r].clip /\ new.key = request[r].key
        /\ new.at = to
    BY <1>2 DEF PeakRequests, Peaks!Looking
  <2>2. request' = [request EXCEPT ![r] = new]
    BY <1>3
  <2> HIDE DEF new
  <2> QED
    BY <1>1, <1>2, <1>3, <2>1, <2>2, GoesOn DEF Peaks!Looking
<1>4. ASSUME NEW e \in Envelopes, e.key = <<request[r].clip, request[r].key>>,
             request' = [request EXCEPT ![r].at = "ready", ![r].peaks = e.peaks],
             memory' = memory \/
             memory' = Peaks!Put(memory, CACHE_ENTRIES, Peaks!Entry(request[r].clip, request[r].key, e.peaks))
      PROVE  PeaksInv'
  <2> DEFINE new == [request[r] EXCEPT !.at = "ready", !.peaks = e.peaks]
  <2>1. e.peaks \in Nat /\ request[r].key <= e.peaks /\ e.peaks <= version[request[r].clip]
    BY <1>4 DEF Envelopes
  <2>2. new \in PeakRequests /\ new.clip = request[r].clip /\ new.at = "ready"
    BY <1>2, <2>1 DEF PeakRequests
  <2>3. request' = [request EXCEPT ![r] = new]
    BY <1>2, <1>4
  <2> HIDE DEF new
  <2>4. Peaks!Entry(request[r].clip, request[r].key, e.peaks) \in Envelopes
    BY <1>2, <2>1 DEF Envelopes, Peaks!Entry, PeakRequests
  <2>5. memory' \in Seq(Envelopes)
    BY <1>1, <1>4, <2>4, PutKeeps
  <2> QED
    BY <1>1, <1>2, <2>2, <2>3, <2>5, GoesOn DEF Peaks!Looking
<1>5. CASE Peaks!InMemory(r)
  BY <1>1, <1>3, <1>4, <1>5, HitsAreEnvelopes, SMTT(60) DEF Peaks!InMemory, Peaks!Step,
       Peaks!CacheGet
<1>6. CASE Peaks!OnDisk(r)
  BY <1>1, <1>3, <1>4, <1>6, HitsAreEnvelopes DEF Peaks!OnDisk, Peaks!Step, Peaks!CacheGet
<1> QED
  BY <1>5, <1>6
\* The one request that looked becomes the registered scan, which cancels the one before.
LEMMA BeginScanKept == ASSUME PeaksInv, NEW r \in Requests, Peaks!BeginScan(r) PROVE PeaksInv'
<1> DEFINE now == version[request[r].clip]
           new == [request[r] EXCEPT !.at = "scan", !.peaks = now]
<1>1. /\ UNCHANGED <<version, memory, disk, panel>> /\ request[r].at = "begin" /\ active' = r
      /\ cancel' = cancel \cup ({active} \ {Nobody}) /\ request' = [request EXCEPT ![r].at = "scan", ![r].peaks = now]
  BY DEF Peaks!BeginScan
<1>2. /\ request[r] \in PeakRequests /\ request[r].clip \in Clips /\ now \in Nat
      /\ 1 <= request[r].key /\ request[r].key <= now
  BY <1>1 DEF PeaksInv, PeaksTypes, Reading
<1>3. /\ new \in PeakRequests /\ new.at = "scan" /\ new.clip = request[r].clip /\ new.key = request[r].key
      /\ new.peaks = now /\ request' = [request EXCEPT ![r] = new]
  BY <1>1, <1>2 DEF PeakRequests
<1> HIDE DEF new
<1>4. /\ memory' \in Seq(Envelopes) /\ disk' \in Seq(Envelopes)
      /\ active' \in Requests \cup {Nobody} /\ panel' \in Requests \cup {Nobody}
  BY <1>1 DEF PeaksInv, PeaksTypes
<1>5. /\ new.key <= version[new.clip] /\ new.key <= new.peaks /\ new.peaks <= version[new.clip]
  BY <1>2, <1>3, SMTT(60)
<1>6. /\ PeaksTypes' /\ \A q \in Requests : Reading(q)'
      /\ request'[r] = new /\ \A q \in Requests : q # r => request'[q] = request[q]
  BY <1>1, <1>2, <1>3, <1>4, <1>5, RequestMoves
<1>7. panel = r
  BY <1>1 DEF PeaksInv, OneLooks, Peaks!Looking
<1>8. \A q \in Requests : request'[q].at = "scan" /\ q # r => q \in cancel'
  BY <1>1, <1>6, RequestNames DEF PeaksInv, Registered
<1>9. OneLooks'
  BY <1>1, <1>3, <1>6 DEF PeaksInv, OneLooks, Peaks!Looking
<1> QED
  BY <1>1, <1>6, <1>7, <1>8, <1>9 DEF PeaksInv, Registered, Peaks!ScansTheOpenClip

\* ffmpeg has read the file as it was when the scan began, or as it is now.
LEMMA ScanEndsKept == ASSUME PeaksInv, NEW r \in Requests, Peaks!ScanEnds(r) PROVE PeaksInv'
<1> DEFINE now == version[request[r].clip]
<1>1. /\ UNCHANGED <<version, active, cancel, memory, disk, panel>> /\ request[r].at = "scan"
      /\ memory' \in Seq(Envelopes) /\ disk' \in Seq(Envelopes)
  BY DEF Peaks!ScanEnds, PeaksInv, PeaksTypes
<1>2. PICK read \in {request[r].peaks, now} : request' = [request EXCEPT ![r].at = "end", ![r].peaks = read]
  BY DEF Peaks!ScanEnds
<1>3. /\ request[r] \in PeakRequests /\ request[r].clip \in Clips /\ now \in Nat
      /\ 1 <= request[r].key /\ request[r].key <= now
      /\ request[r].key <= request[r].peaks /\ request[r].peaks <= now
  BY <1>1 DEF PeaksInv, PeaksTypes, Reading
<1> DEFINE new == [request[r] EXCEPT !.at = "end", !.peaks = read]
<1>4. read \in Nat /\ request[r].key <= read /\ read <= now
  BY <1>2, <1>3 DEF PeakRequests
<1>5. /\ new \in PeakRequests /\ new.at = "end" /\ new.clip = request[r].clip /\ new.key = request[r].key
      /\ new.peaks = read /\ request' = [request EXCEPT ![r] = new]
  BY <1>2, <1>3, <1>4 DEF PeakRequests
<1> HIDE DEF new
<1>6. new.at \notin Peaks!Looking /\ new.at # "scan"
  BY <1>5 DEF Peaks!Looking
<1> QED
  BY <1>1, <1>3, <1>4, <1>5, <1>6, GoesOn

\* A scan that ends without an envelope, and what keeps one.
LEMMA ScanIsOverKept ==
  ASSUME PeaksInv, NEW r \in Requests, Peaks!ScanStops(r) \/ Peaks!DiskCachePut(r) \/ Peaks!CachePut(r)
  PROVE  PeaksInv'
<1>1. /\ UNCHANGED <<version, cancel, panel>> /\ request[r].at \in {"scan", "end", "put"}
      /\ active' = active \/ (active = r /\ active' = Nobody)
      /\ memory \in Seq(Envelopes) /\ disk \in Seq(Envelopes)
  BY DEF Peaks!ScanStops, Peaks!DiskCachePut, Peaks!CachePut, Peaks!EndScan, Peaks!Step, PeaksInv, PeaksTypes
<1>2. PICK to \in {"cancelled", "error", "none", "put", "ready"} :
        /\ request' = [request EXCEPT ![r].at = to]
        /\ to = "put" => request[r].at = "end"
  BY DEF Peaks!ScanStops, Peaks!DiskCachePut, Peaks!CachePut, Peaks!Step
<1>3. /\ request[r] \in PeakRequests /\ request[r].clip \in Clips
      /\ 1 <= request[r].key /\ request[r].key <= version[request[r].clip]
      /\ request[r].key <= request[r].peaks /\ request[r].peaks <= version[request[r].clip]
  BY <1>1 DEF PeaksInv, PeaksTypes, Reading
<1>4. Peaks!Kept(r) \in Envelopes
  BY <1>3 DEF Envelopes, Peaks!Kept, Peaks!Entry, PeakRequests
<1>5. memory' \in Seq(Envelopes) /\ disk' \in Seq(Envelopes)
  <2>1. /\ memory' = memory \/ memory' = Peaks!Put(memory, CACHE_ENTRIES, Peaks!Kept(r))
        /\ disk' = disk \/ disk' = Peaks!Put(disk, DISK_CACHE_ENTRIES, Peaks!Kept(r))
    BY DEF Peaks!ScanStops, Peaks!DiskCachePut, Peaks!CachePut
  <2> QED
    BY <1>1, <1>4, <2>1, PutKeeps
<1> DEFINE new == [request[r] EXCEPT !.at = to]
<1>6. /\ new \in PeakRequests /\ new.at = to /\ new.clip = request[r].clip /\ new.key = request[r].key
      /\ new.peaks = request[r].peaks /\ request' = [request EXCEPT ![r] = new]
  BY <1>2, <1>3 DEF PeakRequests
<1> HIDE DEF new
<1>7. new.at \notin Peaks!Looking /\ new.at # "scan"
  BY <1>6 DEF Peaks!Looking
<1> QED
  BY <1>1, <1>3, <1>5, <1>6, <1>7, GoesOn

\* A newer file makes no envelope in a cache newer than the file.
LEMMA ExportKept == ASSUME PeaksInv, NEW p \in Clips, Peaks!Export(p) PROVE PeaksInv'
<1>1. /\ UNCHANGED <<request, active, cancel, memory, disk, panel>> /\ version' \in [Clips -> Nat]
      /\ \A q \in Clips : version[q] \in Nat /\ version'[q] \in Nat /\ version[q] <= version'[q]
  BY DEF Peaks!Export, PeaksInv, PeaksTypes
<1>2. Envelopes \subseteq Envelopes'
  BY <1>1 DEF Envelopes
<1>3. PeaksTypes'
  BY <1>1, <1>2, SeqMonotonic DEF PeaksInv, PeaksTypes
<1>4. ASSUME NEW r \in Requests PROVE Reading(r)'
  BY <1>1, SMTT(60) DEF PeaksInv, PeaksTypes, PeakRequests, Reading
<1> QED
  BY <1>1, <1>3, <1>4 DEF PeaksInv, OneLooks, Registered, Peaks!ScansTheOpenClip

\* Whatever is opened, exported and evicted, a cache answers with the envelope of the file
\* as it is now, and only the scan of the clip that the panel has open goes on, as long as
\* the stat of a file is done before the panel opens the next one.
THEOREM PeaksAreOfTheOpenClip ==
  ASSUME "slowstat" \notin Windows PROVE PartsSpec => []PeaksOfTheOpenClip
<1> DEFINE Inv == part = "peaks" => PeaksInv
<1>1. part \in {"aliases", "store", "peaks", "paths", "readiness", "osc"} /\ PartsInit => Inv
  BY PeaksInit DEF PartsInit
<1>2. Inv /\ [PartsNext]_serviceVars => Inv'
  <2> SUFFICES ASSUME part = "peaks" => PeaksInv, [PartsNext]_serviceVars, part' = "peaks" PROVE PeaksInv'
    OBVIOUS
  <2>1. CASE UNCHANGED peaksVars /\ UNCHANGED part
    BY <2>1 DEF peaksVars, PeaksInv, PeaksTypes, Envelopes, Reading, OneLooks, Registered, Peaks!ScansTheOpenClip
  <2>2. CASE part = "peaks" /\ Peaks!Next
    <3>1. CASE Peaks!Done
      BY <2>1, <2>2, <3>1 DEF Peaks!Done, Peaks!peaksVars, peaksVars
    <3> QED
      BY <2>2, <3>1, LoadPeaksKept, CancelKept, SupersedeKept, StatKept, CachesKept, BeginScanKept,
         ScanEndsKept, ScanIsOverKept, ExportKept DEF Peaks!Next
  <2> QED
    BY <2>1, <2>2 DEF PartsNext, serviceVars
<1>3. PeaksInv => Peaks!EnvelopeIsOfTheFile
  <2> SUFFICES ASSUME PeaksInv, NEW p \in Clips,
                      NEW e \in Peaks!Hits(memory, p, version[p]) \cup Peaks!Hits(disk, p, version[p])
               PROVE  e.peaks = version[p]
    BY DEF Peaks!EnvelopeIsOfTheFile
  <2>1. e \in Envelopes /\ e.key = <<p, version[p]>>
    BY HitsAreEnvelopes DEF PeaksInv, PeaksTypes
  <2> QED
    BY <2>1 DEF Envelopes, PeaksInv, PeaksTypes
<1>4. Inv => PeaksOfTheOpenClip
  BY <1>3 DEF PeaksOfTheOpenClip, PeaksInv
<1> QED
  BY <1>1, <1>2, <1>4, PTL DEF PartsSpec

-----------------------------------------------------------------------------
(* ReadyAssetPlays: the root, the resolver *)

\* What the resolver may answer for clip n of the registry, when the root leads there.
RightAnswer(n, a) ==
  IF n \in holds[Registry] THEN a \in {Paths!Clip(n), Paths!Alias(Spelling[Registry] \o n)}
                           ELSE a = Paths!Refusal

\* What was verified is the registry's folder; an answer is the resolver's for the root
\* that is set and the target folder that is known.
PathInv ==
  /\ where \in [Roots -> Folders \cup {Nobody}] /\ target \in TranscoderRoots
  /\ local \in Roots \cup {<<>>}
  /\ known \in {Registry, Nobody}
  /\ status.verified \in {"strong", "weak"} => Paths!Leads(local) = Registry
  /\ status.matches = "yes" => Paths!SameFolder(mediaPath, local)
  /\ \A n \in Names : answer.of = target \o n /\ advertised = target /\ Paths!Leads(local) = Registry =>
       RightAnswer(n, answer.got)

\* The path of an asset is the target folder's and the clip's.
LEMMA AssetHasAPath ==
  ASSUME NEW t \in TranscoderRoots, NEW n \in Names
  PROVE  /\ t \o n # <<>> /\ Len(t \o n) > Len(t) /\ SubSeq(t \o n, 1, Len(t)) = t
         /\ SubSeq(t \o n, Len(t) + 1, Len(t \o n)) = n
<1>1. t \in Seq(STRING) /\ n \in Seq(STRING) /\ t # <<>> /\ n # <<>>
  BY PathNames
<1>2. Len(t) \in Nat \ {0} /\ Len(n) \in Nat \ {0} /\ Len(t \o n) = Len(t) + Len(n)
  BY <1>1, EmptySeq, ConcatProperties
<1>3. SubSeq(t \o n, 1, Len(t)) = SubSeq(t, 1, Len(t))
  BY <1>1, <1>2, SubSeqOfConcat1
<1>4. SubSeq(t \o n, Len(t) + 1, Len(t) + Len(n)) = SubSeq(n, 1, Len(n))
  BY <1>1, <1>2, SubSeqOfConcat2
<1>5. SubSeq(t, 1, Len(t)) = t /\ SubSeq(n, 1, Len(n)) = n
  BY <1>1, SubSeqFull
<1>6. t \o n # <<>>
  BY <1>1, ConcatSimplifications
<1> QED
  BY <1>2, <1>3, <1>4, <1>5, <1>6

\* Below a root that leads to the registry's folder a clip of it is found under the path of
\* the registry, and nothing else is.
LEMMA RegistryAnswers ==
  ASSUME target \in TranscoderRoots, advertised = target, where \in [Roots -> Folders \cup {Nobody}],
         Paths!Leads(local) = Registry, NEW n \in Names,
         NEW a \in Paths!ResolveWithAdvertisedRoot(target \o n, local)
  PROVE  RightAnswer(n, a)
<1>1. Paths!StripRoot(target \o n, advertised) = n
  <2>1. target # <<>> /\ Paths!Inside(target \o n, target) /\ Paths!Below(target \o n, target) = n
    BY PathNames, AssetHasAPath, SMTT(60) DEF Paths!Inside, Paths!Below, Paths!IsPrefix
  <2>2. ".." \notin Paths!Range(n)
    BY PathNames DEF Paths!Range
  <2> QED
    BY <2>1, <2>2 DEF Paths!StripRoot
<1>2. n # <<>> /\ local \in Roots /\ where[local] = Registry /\ local # <<>> /\ Registry # Nobody
  BY PathNames DEF Paths!Leads
<1>3. a \in Paths!RegistryRelativePath(target \o n, local)
  BY <1>1, <1>2 DEF Paths!ResolveWithAdvertisedRoot
<1>4. \A f \in Paths!Present : f[1] \o f[2] = local \o n => f = <<local, n>>
  <2> SUFFICES ASSUME NEW f \in Paths!Present, f[1] \o f[2] = local \o n PROVE f = <<local, n>>
    OBVIOUS
  <2>1. PICK r \in Roots, m \in Names : f = <<r, m>>
    BY DEF Paths!Present
  <2>2. r \o m = local \o n
    BY <2>1
  <2>3. \A s \in Roots, k \in Names : r \o m = s \o k => r = s /\ m = k
    BY ONLY <2>1, RootsApart, ZenonT(60)
  <2>4. r = local /\ m = n
    BY <1>2, <2>2, <2>3, Zenon
  <2> QED
    BY <2>1, <2>4
<1>5. Paths!Exists(local \o n) <=> n \in holds[Registry]
  <2>1. n \in holds[Registry] <=> <<local, n>> \in Paths!Present
    BY <1>2 DEF Paths!Present
  <2> QED
    BY <1>4, <2>1 DEF Paths!Exists
<1>6. CASE n \notin holds[Registry]
  BY <1>1, <1>3, <1>5, <1>6 DEF Paths!RegistryRelativePath, RightAnswer
<1>7. CASE n \in holds[Registry]
  <2>1. Paths!Canonicalize(local \o n) = Spelling[Registry] \o n
    <3>1. (CHOOSE f \in Paths!Present : f[1] \o f[2] = local \o n) = <<local, n>>
      <4>1. <<local, n>> \in Paths!Present
        BY <1>2, <1>7 DEF Paths!Present
      <4>2. \E f \in Paths!Present : f[1] \o f[2] = local \o n
        BY <4>1
      <4>3. (CHOOSE f \in Paths!Present : f[1] \o f[2] = local \o n) \in
              {f \in Paths!Present : f[1] \o f[2] = local \o n}
        BY <4>2
      <4> QED
        BY <1>4, <4>3
    <3> QED
      <4> DEFINE g == CHOOSE f \in Paths!Present : f[1] \o f[2] = local \o n
      <4>1. Paths!Canonicalize(local \o n) = Spelling[where[g[1]]] \o g[2]
        BY <1>5, <1>7, Zenon DEF Paths!Canonicalize
      <4>2. g = <<local, n>>
        BY <3>1
      <4> HIDE DEF g
      <4>3. g[1] = local /\ g[2] = n
        BY <4>2
      <4> QED
        BY <1>2, <4>1, <4>3
  <2> QED
    BY <1>1, <1>2, <1>3, <1>5, <1>7, <2>1 DEF Paths!RegistryRelativePath, RightAnswer
<1> QED
  BY <1>6, <1>7

\* Nothing is verified, and nothing asked, at first.
LEMMA PathInit == ASSUME Paths!Init PROVE PathInv
<1>1. \A n \in Names : target \o n # <<>>
  BY AssetHasAPath DEF Paths!Init
<1> QED
  BY <1>1 DEF Paths!Init, PathInv, Paths!Unread, Paths!NoAnswer

\* The marker is judged by the registry's id, or by the one that was verified before.
LEMMA VerifiedIsTheRegistry ==
  ASSUME NEW reply \in Paths!Answers, known \in {Registry, Nobody},
         Paths!Classify(reply, Paths!LookLocally) \in {"strong", "weak"}
  PROVE  Paths!Leads(local) = Registry /\ Paths!LookLocally = Registry
BY DEF Paths!Classify, Paths!LookLocally

\* The status is read anew, or forgotten with the answer, whenever what it tells of changes.
LEMMA PathKept == ASSUME PathInv, Paths!Next PROVE PathInv'
<1>1. ASSUME NEW reply \in Paths!Answers, Paths!Refresh(reply) PROVE PathInv'
  <2>1. /\ UNCHANGED <<where, target, local, mediaPath>> /\ status' = Paths!MediaRootStatus(reply)
        /\ answer' = Paths!NoAnswer
    BY <1>1 DEF Paths!Refresh, Paths!world
  <2>2. /\ status'.verified = Paths!Classify(reply, Paths!LookLocally)
        /\ status'.matches = "yes" => Paths!SameFolder(mediaPath, local)
    BY <2>1 DEF Paths!MediaRootStatus
  <2>3. status'.verified \in {"strong", "weak"} => Paths!Leads(local) = Registry /\ Paths!LookLocally = Registry
    BY <2>2, VerifiedIsTheRegistry DEF PathInv
  <2>4. known' \in {Registry, Nobody}
    BY <1>1, <2>3 DEF Paths!Refresh, PathInv
  <2>5. (Paths!Leads(local))' = Paths!Leads(local) /\ (Paths!SameFolder(mediaPath, local))' = Paths!SameFolder(mediaPath, local)
    BY <2>1 DEF Paths!Leads, Paths!SameFolder
  <2>6. \A n \in Names : target \o n # <<>>
    BY AssetHasAPath DEF PathInv
  <2> QED
    BY <2>1, <2>2, <2>3, <2>4, <2>5, <2>6 DEF PathInv, Paths!NoAnswer
<1>2. ASSUME Paths!FixCasparMediaPath \/ \E root \in Roots : Paths!SetLocalMediaPath(root) PROVE PathInv'
  <2>1. /\ UNCHANGED <<where, target, known>> /\ status' = Paths!Unread /\ answer' = Paths!NoAnswer
        /\ local' \in Roots \cup {<<>>}
    BY <1>2 DEF Paths!FixCasparMediaPath, Paths!SetLocalMediaPath, Paths!world, PathInv
  <2>2. \A n \in Names : target \o n # <<>>
    BY AssetHasAPath DEF PathInv
  <2> QED
    BY <2>1, <2>2 DEF PathInv, Paths!Unread, Paths!NoAnswer
<1>3. ASSUME NEW path, Paths!PrepareCasparMediaPath(path) PROVE PathInv'
  <2>1. /\ UNCHANGED <<where, holds, target, local, mediaPath, known, advertised, status>>
        /\ answer'.of = path /\ answer'.got \in Paths!ResolveWithAdvertisedRoot(path, local)
    BY <1>3 DEF Paths!PrepareCasparMediaPath, Paths!world
  <2>2. ASSUME NEW n \in Names, path = target \o n, advertised = target, Paths!Leads(local) = Registry
        PROVE  RightAnswer(n, answer'.got)
    BY <2>1, <2>2, RegistryAnswers DEF PathInv
  <2> QED
    BY <2>1, <2>2 DEF PathInv, RightAnswer, Paths!Leads, Paths!SameFolder
<1> QED
  BY <1>1, <1>2, <1>3 DEF Paths!Next

\* A verified root that the engine plays from leads to the registry's folder.
LEMMA PathInvPlays == ASSUME PathInv PROVE Paths!VerifiedAssetPlays
<1> SUFFICES ASSUME NEW n \in Names, Paths!Verified, Paths!Asked(n)
             PROVE  IF n \in holds[Registry] THEN Paths!Plays(answer.got) = Spelling[Registry] \o n
                                             ELSE answer.got = Paths!Refusal
  BY DEF Paths!VerifiedAssetPlays
<1>1. Paths!Leads(local) = Registry /\ Paths!SameFolder(mediaPath, local) /\ Registry # Nobody
  BY PathNames DEF PathInv, Paths!Verified
<1>2. RightAnswer(n, answer.got)
  BY <1>1 DEF PathInv, Paths!Asked
<1>3. Paths!Leads(mediaPath) = Registry
  BY <1>1 DEF Paths!SameFolder
<1>4. CASE n \notin holds[Registry]
  BY <1>2, <1>4 DEF RightAnswer
<1>5. CASE n \in holds[Registry] /\ answer.got = Paths!Clip(n)
  <2>1. answer.got.kind = "clip" /\ answer.got.path = n
    BY <1>5 DEF Paths!Clip
  <2> QED
    BY <1>1, <1>3, <1>5, <2>1 DEF Paths!Plays
<1>6. CASE n \in holds[Registry] /\ answer.got = Paths!Alias(Spelling[Registry] \o n)
  <2>1. answer.got.kind = "alias" /\ answer.got.path = Spelling[Registry] \o n
    BY <1>6 DEF Paths!Alias
  <2> QED
    BY <1>1, <1>6, <2>1 DEF Paths!Plays
<1> QED
  BY <1>2, <1>4, <1>5, <1>6 DEF RightAnswer

-----------------------------------------------------------------------------
(* ReadyAssetPlays: the predicate *)

\* What the views show is of the row.
ReadyInv ==
  /\ row \in Ready!Rows
  /\ shown = [library |-> Ready!Unseen, rundown |-> Ready!Unseen]
     \/ shown = [library |-> Ready!MapV2ToAssetResponse(row), rundown |-> Ready!ApplyStrictReadiness(row)]

\* What both views assert is judged alike.
LEMMA JudgedAlike ==
  ASSUME NEW r \in Ready!Rows, r.trimOut > 0, r.fps > 0
  PROVE  Ready!MapV2ToAssetResponse(r) = Ready!ApplyStrictReadiness(r)
<1>1. Ready!Judged(r) = r
  <2>1. r.trimOut \in Int
    BY TrimNumbers DEF Ready!Rows
  <2>2. [r EXCEPT !.fps = r.fps] = r /\ [r EXCEPT !.trimOut = r.trimOut] = r
    BY DEF Ready!Rows
  <2>3. [r EXCEPT !.fps = IF r.fps > 0 THEN r.fps ELSE 1] = r
    BY <2>2
  <2>4. [r EXCEPT !.trimOut = IF r.trimOut <= 0 THEN r.duration ELSE r.trimOut] = r
    BY <2>1, <2>2
  <2> QED
    BY <2>3, <2>4 DEF Ready!Judged
<1> QED
  BY <1>1 DEF Ready!MapV2ToAssetResponse, Ready!ApplyStrictReadiness, Ready!Colour, Ready!AppliedColour

\* A row that asserts its trim out and rate is shown alike.
LEMMA ReadyInvShows == ASSUME ReadyInv PROVE Ready!ShownAlike
BY JudgedAlike DEF ReadyInv, Ready!ShownAlike

\* Wherever the roots lead and whatever the folders hold, with a verified root that the
\* engine plays from a take of a registry asset plays that asset or is refused because it
\* is not there; and a row whose trim out and rate are asserted is ready in both views or
\* in none.
THEOREM ReadyAssetsPlay == PartsSpec => []ReadyAssetPlays
<1> DEFINE Inv == (part = "paths" => PathInv) /\ (part = "readiness" => ReadyInv)
<1>1. part \in {"aliases", "store", "peaks", "paths", "readiness", "osc"} /\ PartsInit => Inv
  BY PathInit DEF PartsInit, ReadyInv, Ready!Init
<1>2. Inv /\ [PartsNext]_serviceVars => Inv'
  <2> SUFFICES ASSUME Inv, [PartsNext]_serviceVars PROVE Inv'
    OBVIOUS
  <2>1. CASE UNCHANGED <<part, pathVars, readinessVars>>
    BY <2>1 DEF pathVars, readinessVars, PathInv, ReadyInv, RightAnswer, Paths!Leads, Paths!SameFolder
  <2>2. CASE part = "paths" /\ Paths!Next /\ part' = part
    BY <2>2, PathKept
  <2>3. CASE part = "readiness" /\ Ready!Next /\ part' = part
    BY <2>3 DEF ReadyInv, Ready!Next, Ready!Show
  <2> QED
    BY <2>1, <2>2, <2>3 DEF PartsNext, serviceVars
<1>3. Inv => ReadyAssetPlays
  BY PathInvPlays, ReadyInvShows DEF ReadyAssetPlays
<1> QED
  BY <1>1, <1>2, <1>3, PTL DEF PartsSpec

-----------------------------------------------------------------------------
(* OneFeed *)

CallTypes ==
  call \in [Calls -> [at : {"idle", "bind", "replace", "await", "start", "done", "refused"},
                      port : Ports \cup {0}, old : Calls \cup {0}]]

\* Calls follow one another.
OneCall == \A c, d \in Osc!InFlight : c = d

\* The listener and the watchdog of one call run, and no other; or none does.
Fed ==
  /\ record.of \in Calls /\ stopping = {} /\ watching = {record.of}
  /\ DOMAIN listening = {record.of} /\ listening[record.of] = record.port
NoneRuns == record = Osc!NoListener /\ stopping = {} /\ watching = {} /\ DOMAIN listening = {}

\* The listener that call c replaces was told to stop, and may have done so.
Ending(c) ==
  /\ record = Osc!NoListener /\ watching = {call[c].old} \ {0}
  /\ stopping \subseteq {call[c].old} \ {0} /\ DOMAIN listening = stopping

OscInv ==
  /\ CallTypes /\ OneCall
  /\ (\A c \in Calls : call[c].at \notin {"await", "start"}) => IF everFed THEN Fed ELSE NoneRuns
  /\ \A c \in Calls : /\ call[c].at = "await" => Ending(c)
                      /\ call[c].at = "start" => NoneRuns

\* Nothing listens at first.
LEMMA OscInit == ASSUME Osc!Init PROVE OscInv
  BY DEF Osc!Init, OscInv, CallTypes, OneCall, Osc!InFlight, NoneRuns, Osc!Idle

\* One call at a time replaces one listener by another.
LEMMA OscKept == ASSUME OscInv, Osc!Next, "overlap" \notin Windows PROVE OscInv'
<1> USE CallNumbers
<1>1. ASSUME NEW c \in Calls, NEW port \in Ports, Osc!Configure(c, port) PROVE OscInv'
  <2>1. /\ Osc!InFlight = {} /\ call[c].at = "idle"
        /\ UNCHANGED <<record, stopping, listening, watching, everFed>>
        /\ \E to \in {"done", "bind"} : call' = [call EXCEPT ![c] = [at |-> to, port |-> port, old |-> 0]]
    BY <1>1 DEF Osc!Configure
  <2>2. CallTypes' /\ OneCall'
    BY <2>1 DEF OscInv, CallTypes, OneCall, Osc!InFlight
  <2>3. /\ \A d \in Calls : call[d].at \notin {"await", "start"}
        /\ \A d \in Calls : call'[d].at \notin {"await", "start"}
    BY <2>1 DEF OscInv, CallTypes, Osc!InFlight
  <2> QED
    BY <2>1, <2>2, <2>3 DEF OscInv, Fed, NoneRuns, Osc!NoListener
<1>2. ASSUME NEW c \in Calls, Osc!Bind(c) PROVE OscInv'
  BY <1>2 DEF OscInv, CallTypes, OneCall, Osc!InFlight, Fed, NoneRuns, Ending, Osc!Bind, Osc!Goes
<1>3. ASSUME NEW c \in Calls, Osc!Replace(c) PROVE OscInv'
  <2>1. /\ call[c].at = "replace" /\ UNCHANGED <<listening, watching, everFed>>
        /\ call' = [call EXCEPT ![c].at = "await", ![c].old = record.of]
        /\ stopping' = stopping \cup ({record.of} \ {0}) /\ record' = Osc!NoListener
    BY <1>3 DEF Osc!Replace
  <2>2. \A d \in Calls : d # c => call[d].at \notin {"bind", "replace", "await", "start"}
    BY <2>1 DEF OscInv, OneCall, Osc!InFlight
  <2>3. IF everFed THEN Fed ELSE NoneRuns
    BY <2>1, <2>2 DEF OscInv
  <2>4. record.of \in Calls \cup {0}
    BY <2>3 DEF Fed, NoneRuns, Osc!NoListener
  <2>5. CallTypes'
    BY <2>1, <2>4, ZenonT(60) DEF OscInv, CallTypes
  <2>6. call'[c].at = "await" /\ call'[c].old = record.of /\ \A d \in Calls : d # c => call'[d] = call[d]
    BY <2>1 DEF OscInv, CallTypes
  <2>8. OneCall'
    BY <2>2, <2>6 DEF OneCall, Osc!InFlight
  <2>7. Ending(c)'
    <3>1. watching = {record.of} \ {0} /\ stopping = {} /\ DOMAIN listening = {record.of} \ {0}
      <4>1. CASE Fed
        BY <4>1, 0 \notin Calls DEF Fed
      <4>2. CASE NoneRuns
        BY <4>2 DEF NoneRuns, Osc!NoListener
      <4> QED
        BY <2>3, <4>1, <4>2
    <3> QED
      BY <2>1, <2>6, <3>1 DEF Ending
  <2> QED
    BY <2>2, <2>5, <2>6, <2>7, <2>8 DEF OscInv
<1>4. ASSUME NEW c \in Calls, Osc!Stops(c) PROVE OscInv'
  <2>1. /\ c \in DOMAIN listening /\ c \in stopping /\ UNCHANGED <<call, record, watching, everFed>>
        /\ DOMAIN listening' = DOMAIN listening \ {c} /\ stopping' = stopping \ {c}
    BY <1>4 DEF Osc!Stops
  <2>2. ~Fed /\ ~NoneRuns
    BY <2>1 DEF Fed, NoneRuns
  <2>3. \A d \in Calls : call[d].at # "start"
    BY <2>2 DEF OscInv
  <2>4. ~ \A d \in Calls : call[d].at \notin {"await", "start"}
    BY <2>2 DEF OscInv
  <2>5. \A d \in Calls : call[d].at = "await" => Ending(d)'
    BY <2>1 DEF OscInv, Ending
  <2> QED
    <3>1. CallTypes' /\ OneCall'
      BY <2>1 DEF OscInv, CallTypes, OneCall, Osc!InFlight
    <3> QED
      BY <2>1, <2>3, <2>4, <2>5, <3>1 DEF OscInv
<1>5. ASSUME NEW c \in Calls, Osc!Await(c) PROVE OscInv'
  <2>1. /\ call[c].at = "await" /\ call[c].old \notin DOMAIN listening
        /\ watching' = watching \ {call[c].old} /\ call' = [call EXCEPT ![c].at = "start"]
        /\ UNCHANGED <<record, stopping, listening, everFed>>
    BY <1>5 DEF Osc!Await, Osc!Goes
  <2>2. \A d \in Calls : d # c => call[d].at \notin {"bind", "replace", "await", "start"}
    BY <2>1 DEF OscInv, OneCall, Osc!InFlight
  <2>3. call'[c].at = "start" /\ \A d \in Calls : d # c => call'[d] = call[d]
    BY <2>1 DEF OscInv, CallTypes
  <2>4. CallTypes' /\ OneCall'
    BY <2>1, <2>2, <2>3 DEF OscInv, CallTypes, OneCall, Osc!InFlight
  <2>5. NoneRuns'
    BY <2>1, ZenonT(60) DEF OscInv, Ending, NoneRuns
  <2> QED
    <3>1. ~ (\A d \in Calls : call'[d].at \notin {"await", "start"})
      BY <2>3
    <3>2. \A d \in Calls : call'[d].at # "await"
      BY <2>2, <2>3
    <3> QED
      BY <2>4, <2>5, <3>1, <3>2 DEF OscInv
<1>6. ASSUME NEW c \in Calls, Osc!Start(c) PROVE OscInv'
  <2>1. /\ call[c].at = "start" /\ everFed' = TRUE /\ record' = [port |-> call[c].port, of |-> c]
        /\ call' = [call EXCEPT ![c].at = "done"] /\ watching' = watching \cup {c}
        /\ stopping' = stopping \cup ({record.of} \ {0})
        /\ listening' = [d \in DOMAIN listening \cup {c} |-> IF d = c THEN call[c].port ELSE listening[d]]
    BY <1>6 DEF Osc!Start, Osc!Goes
  <2>2. \A d \in Calls : d # c => call[d].at \notin {"bind", "replace", "await", "start"}
    BY <2>1 DEF OscInv, OneCall, Osc!InFlight
  <2>3. call'[c].at = "done" /\ \A d \in Calls : d # c => call'[d] = call[d]
    BY <2>1 DEF OscInv, CallTypes
  <2>4. CallTypes' /\ OneCall'
    BY <2>1, <2>2, <2>3 DEF OscInv, CallTypes, OneCall, Osc!InFlight
  <2>5. NoneRuns
    BY <2>1 DEF OscInv
  <2>6. Fed'
    BY <2>1, <2>5 DEF NoneRuns, Fed, Osc!NoListener
  <2>7. \A d \in Calls : call'[d].at \notin {"await", "start"}
    BY <2>2, <2>3
  <2> QED
    BY <2>1, <2>4, <2>6, <2>7 DEF OscInv
<1> QED
  BY <1>1, <1>2, <1>3, <1>4, <1>5, <1>6 DEF Osc!Next

\* Whatever the ports, the calls and the ports that other programs hold, the engine's
\* feed has one receiver on the recorded port and one watchdog, as long as a call of
\* configure_caspar_osc_listener begins when none is under way.
THEOREM FeedIsOne ==
  ASSUME "overlap" \notin Windows PROVE PartsSpec => []OneFeed
<1> DEFINE Inv == part = "osc" => OscInv
<1>1. part \in {"aliases", "store", "peaks", "paths", "readiness", "osc"} /\ PartsInit => Inv
  BY OscInit DEF PartsInit
<1>2. Inv /\ [PartsNext]_serviceVars => Inv'
  <2> SUFFICES ASSUME part = "osc" => OscInv, [PartsNext]_serviceVars, part' = "osc" PROVE OscInv'
    OBVIOUS
  <2>1. CASE UNCHANGED oscVars /\ UNCHANGED part
    BY <2>1 DEF oscVars, OscInv, CallTypes, OneCall, Osc!InFlight, Fed, NoneRuns, Ending
  <2>2. CASE part = "osc" /\ Osc!Next
    BY <2>2, OscKept
  <2> QED
    BY <2>1, <2>2 DEF PartsNext, serviceVars
<1>3. Inv => OneFeed
  BY DEF OneFeed, Osc!OneFeed, OscInv, Osc!InFlight, Fed
<1> QED
  BY <1>1, <1>2, <1>3, PTL DEF PartsSpec

-----------------------------------------------------------------------------
(* CacheTellsOfTheFile, NoLostUpdate *)

\* A command that works on a file has one, and the file is there.
AtWork == {"skip", "look", "fp", "load", "save", "side", "ffprobe", "refresh", "put", "batch"}
Sound(b) ==
  /\ b \in Store!Commands
  /\ b.pc \in AtWork => b.at \in Files /\ Store!Present(b.at)
  /\ \A p \in b.todo : Store!Present(p)
  /\ b.pc \in {"arm", "list"} => b.kind = "warm"
  /\ b.pc = "fp" => b.op \in {"hydrate", "upsert"}
  /\ b.pc \in {"load", "save"} => b.op # "none"
  /\ b.pc \in {"load", "save"} /\ b.op \in {"hydrate", "upsert"} => b.fp \in Contents

\* Who saves has the lock, and what was loaded is still what is stored.
StoreInv ==
  /\ Store!TypeOK
  /\ \A j \in Jobs : Sound(job[j]) /\ (job[j].pc = "save" => job[j].idx = index)

\* Nothing was read of another file.
Own(of, f) == of = Nobody \/ of = f
Tells(b) ==
  /\ b.at # Nobody => Own(b.e.of, file[b.at].content)
  /\ b.pc \in {"arm", "list", "next"} => b.e.of = Nobody
  /\ b.pc \in {"load", "save"} /\ b.op \in {"hydrate", "upsert"} => b.fp = file[b.at].content
  /\ b.kind \notin {"scan", "warm"} => b.todo = {} /\ b.batch = {}
  /\ \A x \in b.batch : Own(x.e.of, file[x.path].content)
RowTells(p) == db[p] # Nobody => /\ db[p].ident <= file[p].stamp
                                 /\ db[p].ident = file[p].stamp => Own(db[p].of, file[p].content)
IndexTells(idx) == \A i \in DOMAIN idx : Own(idx[i].of, idx[i].fp)
TellsInv ==
  /\ StoreInv /\ IndexTells(index)
  /\ \A j \in Jobs : Tells(job[j])
  /\ \A p \in Files : /\ RowTells(p)
                      /\ sidecar[p] # Nobody => sidecar[p].of = file[p].content

\* A record that is found is one, and matches.
LEMMA FirstIsOne ==
  ASSUME NEW n \in Nat, NEW I \in SUBSET (1..n)
  PROVE  Store!First(I) \in I \cup {0} /\ (Store!First(I) = 0 => I = {})
<1>1. CASE I = {}
  BY <1>1 DEF Store!First
<1>2. CASE I # {}
  <2>0. I \subseteq Nat /\ I # {}
    BY <1>2
  <2>1. PICK m \in I : \A y \in I : ~(<<y, m>> \in OpToRel(<, Nat))
    BY <2>0, NatLessThanWellFounded, WFMin
  <2>2. ASSUME NEW y \in I PROVE m <= y
    <3>1. ~(y < m)
      BY <2>0, <2>1 DEF OpToRel
    <3> QED
      BY <3>1
  <2>3. Store!Min(I) \in I
    BY <2>2 DEF Store!Min
  <2> QED
    BY <1>2, <2>3 DEF Store!First
<1> QED
  BY <1>1, <1>2

LEMMA Matches ==
  ASSUME NEW idx \in Seq(Store!Records), NEW p, NEW f, NEW id
  PROVE  /\ Store!ByFp(idx, f) \in DOMAIN idx \cup {0}
         /\ Store!ByFp(idx, f) # 0 => idx[Store!ByFp(idx, f)].fp = f
         /\ Store!ByAlias(idx, p) \in DOMAIN idx \cup {0}
         /\ Store!ByAliasOrId(idx, p, id) \in DOMAIN idx \cup {0}
<1>1. DOMAIN idx = 1..Len(idx) /\ Len(idx) \in Nat
  OBVIOUS
<1>2. Store!ByFp(idx, f) \in {i \in DOMAIN idx : idx[i].fp = f} \cup {0}
  BY <1>1, FirstIsOne DEF Store!ByFp
<1>3. Store!ByAlias(idx, p) \in {i \in DOMAIN idx : p \in idx[i].aliases} \cup {0}
  BY <1>1, FirstIsOne DEF Store!ByAlias
<1>4. Store!First({k \in DOMAIN idx : idx[k].id = id}) \in {k \in DOMAIN idx : idx[k].id = id} \cup {0}
  BY <1>1, FirstIsOne
<1> QED
  BY <1>2, <1>3, <1>4 DEF Store!ByAliasOrId

\* What an operation leaves of the index: all of it, one record more, or one record
\* changed, which keeps its fingerprint, and its trim unless one is saved.
Touches(b, new) ==
  \/ new = b.idx
  \/ \E r \in Store!Records :
       /\ new = Append(b.idx, r)
       /\ r.of = Nobody \/ (b.op = "upsert" /\ r.of = b.e.of /\ r.fp = b.fp)
  \/ \E i \in DOMAIN b.idx, r \in Store!Records :
       /\ new = [b.idx EXCEPT ![i] = r] /\ r.fp = b.idx[i].fp
       /\ r.of = b.idx[i].of \/ (b.op = "upsert" /\ r.of = b.e.of /\ r.fp = b.fp)
       /\ b.idx[i].trim # 0 /\ r.trim = 0 => b.op = "profile" /\ b.e.trim = 0
\* And of the entry: what it was read of, unless a record has the file's fingerprint.
Knows(b, e) ==
  /\ e \in Store!Entries
  /\ \/ e.of = b.e.of
     \/ b.op = "hydrate" /\ \E i \in DOMAIN b.idx : b.idx[i].fp = b.fp /\ e.of = b.idx[i].of

\* A record that a file is seen under is a record.
LEMMA SeenIs ==
  ASSUME NEW idx \in Seq(Store!Records), NEW i \in DOMAIN idx, NEW p \in Files
  PROVE  \E r \in Store!Records : /\ Store!Seen(idx, i, p) = [idx EXCEPT ![i] = r]
                                  /\ r.fp = idx[i].fp /\ r.of = idx[i].of /\ r.trim = idx[i].trim
<1> DEFINE r == [idx[i] EXCEPT !.aliases = @ \cup {p}]
<1>1. idx[i] \in Store!Records
  OBVIOUS
<1>2. r \in Store!Records /\ r.fp = idx[i].fp /\ r.of = idx[i].of /\ r.trim = idx[i].trim
  BY <1>1 DEF Store!Records
<1>3. Store!Seen(idx, i, p) = [idx EXCEPT ![i] = r]
  BY DEF Store!Seen
<1> QED
  BY <1>2, <1>3

LEMMA OneChanged ==
  ASSUME NEW b, NEW i \in DOMAIN b.idx, NEW r \in Store!Records, r.fp = b.idx[i].fp,
         r.of = b.idx[i].of \/ (b.op = "upsert" /\ r.of = b.e.of /\ r.fp = b.fp),
         b.idx[i].trim # 0 /\ r.trim = 0 => b.op = "profile" /\ b.e.trim = 0,
         NEW new, new = [b.idx EXCEPT ![i] = r]
  PROVE  Touches(b, new)
BY Zenon DEF Touches

LEMMA OneAdded ==
  ASSUME NEW b, NEW r \in Store!Records, NEW new, new = Append(b.idx, r),
         r.of = Nobody \/ (b.op = "upsert" /\ r.of = b.e.of /\ r.fp = b.fp)
  PROVE  Touches(b, new)
BY Zenon DEF Touches

LEMMA HydrateTouches ==
  ASSUME NEW b \in Store!Commands, b.op = "hydrate", b.at \in Files
  PROVE  LET r == Store!Hydrate(b.idx, b.at, b.fp, b.e)
         IN  Touches(b, r.idx) /\ Knows(b, r.e) /\ r.hit \in BOOLEAN
<1> DEFINE i == Store!ByFp(b.idx, b.fp)
           r == Store!Hydrate(b.idx, b.at, b.fp, b.e)
<1>1. b.idx \in Seq(Store!Records) /\ b.e \in Store!Entries
  BY DEF Store!Commands
<1>2. i \in DOMAIN b.idx \cup {0} /\ (i # 0 => b.idx[i].fp = b.fp)
  BY <1>1, Matches
<1>3. CASE i = 0
  BY <1>1, <1>3 DEF Store!Hydrate, Touches, Knows
<1>4. CASE i # 0
  <2>1. b.idx[i] \in Store!Records /\ i \in DOMAIN b.idx
    BY <1>1, <1>2, <1>4
  <2>2. /\ r.idx = Store!Seen(b.idx, i, b.at) /\ r.hit = TRUE
        /\ r.e = [of |-> b.idx[i].of, id |-> b.idx[i].id, trim |-> b.idx[i].trim]
    BY <1>4 DEF Store!Hydrate
  <2>3. Touches(b, r.idx)
    <3>1. PICK x \in Store!Records :
            /\ Store!Seen(b.idx, i, b.at) = [b.idx EXCEPT ![i] = x]
            /\ x.fp = b.idx[i].fp /\ x.of = b.idx[i].of /\ x.trim = b.idx[i].trim
      <4> DEFINE q == b.idx
                 p == b.at
      <4>1. q \in Seq(Store!Records) /\ p \in Files /\ i \in DOMAIN q
        BY <1>1, <2>1
      <4> HIDE DEF q, p
      <4>2. \E x \in Store!Records :
              /\ Store!Seen(q, i, p) = [q EXCEPT ![i] = x]
              /\ x.fp = q[i].fp /\ x.of = q[i].of /\ x.trim = q[i].trim
        BY ONLY <4>1, SeenIs, ZenonT(60)
      <4> QED
        BY <4>2 DEF q, p
    <3> QED
      BY <2>1, <2>2, <3>1, OneChanged
  <2>4. Knows(b, r.e)
    BY <1>2, <1>4, <2>1, <2>2 DEF Knows, Store!Entries, Store!Records
  <2> QED
    BY <2>2, <2>3, <2>4
<1> QED
  BY <1>3, <1>4

LEMMA EnrichTouches ==
  ASSUME NEW b \in Store!Commands, b.op = "enrich", b.at \in Files
  PROVE  LET r == Store!Enrich(b.idx, b.at, b.e)
         IN  Touches(b, r.idx) /\ Knows(b, r.e) /\ r.hit \in BOOLEAN
<1> DEFINE i == Store!ByAliasOrId(b.idx, b.at, b.e.id)
           r == Store!Enrich(b.idx, b.at, b.e)
<1>1. b.idx \in Seq(Store!Records) /\ b.e \in Store!Entries
  BY DEF Store!Commands
<1>2. i \in DOMAIN b.idx \cup {0}
  BY <1>1, Matches
<1>3. CASE i = 0
  BY <1>1, <1>3 DEF Store!Enrich, Touches, Knows
<1>4. CASE i # 0
  <2>1. b.idx[i] \in Store!Records /\ i \in DOMAIN b.idx
    BY <1>1, <1>2, <1>4
  <2>2. r.idx = Store!Seen(b.idx, i, b.at) /\ r.hit \in BOOLEAN
    BY <1>4 DEF Store!Enrich
  <2>5. r.e = [b.e EXCEPT !.id = IF @ = Store!NoId THEN b.idx[i].id ELSE @, !.trim = b.idx[i].trim]
    BY <1>4 DEF Store!Enrich
  <2>3. Touches(b, r.idx)
    <3>1. PICK x \in Store!Records :
            /\ Store!Seen(b.idx, i, b.at) = [b.idx EXCEPT ![i] = x]
            /\ x.fp = b.idx[i].fp /\ x.of = b.idx[i].of /\ x.trim = b.idx[i].trim
      <4> DEFINE q == b.idx
                 p == b.at
      <4>1. q \in Seq(Store!Records) /\ p \in Files /\ i \in DOMAIN q
        BY <1>1, <2>1
      <4> HIDE DEF q, p
      <4>2. \E x \in Store!Records :
              /\ Store!Seen(q, i, p) = [q EXCEPT ![i] = x]
              /\ x.fp = q[i].fp /\ x.of = q[i].of /\ x.trim = q[i].trim
        BY ONLY <4>1, SeenIs, ZenonT(60)
      <4> QED
        BY <4>2 DEF q, p
    <3> QED
      BY <2>1, <2>2, <3>1, OneChanged, SMTT(60)
  <2>4. Knows(b, r.e)
    BY <1>1, <2>1, <2>5 DEF Knows, Store!Entries, Store!Records
  <2> QED
    BY <2>2, <2>3, <2>4
<1> QED
  BY <1>3, <1>4

LEMMA GeneratedIsAnId == ASSUME NEW f \in Contents PROVE Store!Generated(f) \in Store!Ids
BY DEF Store!Ids

LEMMA UpsertTouches ==
  ASSUME NEW b \in Store!Commands, b.op = "upsert", b.at \in Files, b.fp \in Contents
  PROVE  LET r == Store!Upsert(b.idx, b.at, b.fp, b.e)
         IN  Touches(b, r.idx) /\ Knows(b, r.e) /\ r.hit \in BOOLEAN
<1> DEFINE i == Store!ByFp(b.idx, b.fp)
           id == IF b.e.id # Store!NoId THEN b.e.id
                 ELSE IF i # 0 THEN b.idx[i].id ELSE Store!Generated(b.fp)
           trim == IF i # 0 /\ b.e.trim = 0 THEN b.idx[i].trim ELSE b.e.trim
           r == Store!Upsert(b.idx, b.at, b.fp, b.e)
<1>1. b.idx \in Seq(Store!Records) /\ b.e \in Store!Entries
  BY DEF Store!Commands
<1>2. i \in DOMAIN b.idx \cup {0} /\ (i # 0 => b.idx[i].fp = b.fp)
  BY <1>1, Matches
<1>3. i # 0 => i \in DOMAIN b.idx /\ b.idx[i] \in Store!Records
  BY <1>1, <1>2
<1>4. id \in Store!Ids /\ trim \in Store!AnyTrim
  BY <1>1, <1>3, GeneratedIsAnId DEF Store!Entries, Store!Records
<1>5. r.e = [b.e EXCEPT !.id = id] /\ r.hit = TRUE
  BY DEF Store!Upsert
<1>6. Knows(b, r.e)
  BY <1>1, <1>4, <1>5 DEF Knows, Store!Entries
<1> DEFINE seen == IF i # 0 THEN b.idx[i].aliases ELSE {}
           new == [fp |-> b.fp, id |-> id, aliases |-> seen \cup {b.at}, of |-> b.e.of, trim |-> trim]
<1>7. /\ r.idx = IF i = 0 THEN Append(b.idx, new) ELSE [b.idx EXCEPT ![i] = new]
      /\ b.idx[i].trim # 0 /\ trim = 0 => i = 0
  BY DEF Store!Upsert
<1>8. seen \in SUBSET Files /\ b.e.of \in Contents \cup {Nobody}
  BY <1>1, <1>3 DEF Store!Records, Store!Entries
<1> HIDE DEF i, id, trim, seen, r
<1>9. new \in Store!Records /\ new.fp = b.fp /\ new.of = b.e.of /\ new.trim = trim
  BY <1>4, <1>8 DEF Store!Records
<1> HIDE DEF new
<1>10. CASE i = 0
  <2>1. r.idx = Append(b.idx, new)
    BY <1>7, <1>10
  <2>2. Touches(b, r.idx)
    BY <1>9, <2>1, OneAdded, Zenon
  <2> QED
    BY <1>5, <1>6, <2>2 DEF r
<1>11. CASE i # 0
  <2>1. r.idx = [b.idx EXCEPT ![i] = new]
    BY <1>7, <1>11
  <2>2. Touches(b, r.idx)
    <3>1. new.fp = b.idx[i].fp /\ (b.idx[i].trim # 0 /\ new.trim = 0 => FALSE)
      BY <1>2, <1>7, <1>9, <1>11
    <3> QED
      BY <1>3, <1>9, <1>11, <2>1, <3>1, OneChanged, Zenon
  <2> QED
    BY <1>5, <1>6, <2>2 DEF r
<1> QED
  BY <1>10, <1>11

LEMMA ProfileTouches ==
  ASSUME NEW b \in Store!Commands, b.op = "profile", b.at \in Files, NEW f \in Contents
  PROVE  LET r == Store!Profile(b.idx, b.at, f, b.e)
         IN  Touches(b, r.idx) /\ Knows(b, r.e) /\ r.hit \in BOOLEAN
<1> DEFINE a == Store!ByAlias(b.idx, b.at)
           i == IF a # 0 THEN a ELSE Store!ByFp(b.idx, f)
           r == Store!Profile(b.idx, b.at, f, b.e)
<1>1. b.idx \in Seq(Store!Records) /\ b.e \in Store!Entries
  BY DEF Store!Commands
<1>2. i \in DOMAIN b.idx \cup {0}
  BY <1>1, Matches
<1>3. i # 0 => i \in DOMAIN b.idx /\ b.idx[i] \in Store!Records
  BY <1>1, <1>2
<1>4. r.e = b.e /\ r.hit = TRUE
  BY DEF Store!Profile
<1>5. Knows(b, r.e)
  BY <1>1, <1>4 DEF Knows
<1>6. CASE i = 0
  <2> DEFINE new == [fp |-> f, id |-> Store!Generated(f), aliases |-> {b.at}, of |-> Nobody,
                     trim |-> b.e.trim]
  <2>1. new \in Store!Records
    BY <1>1, GeneratedIsAnId DEF Store!Records, Store!Entries
  <2>2. r.idx = Append(b.idx, new)
    BY <1>6 DEF Store!Profile
  <2> QED
    BY <1>4, <1>5, <2>1, <2>2 DEF Touches
<1>7. CASE i # 0
  <2>1. r.idx = [b.idx EXCEPT ![i] = [b.idx[i] EXCEPT !.aliases = @ \cup {b.at}, !.trim = b.e.trim]]
    BY <1>7, Zenon DEF Store!Profile
  <2> HIDE DEF i, r
  <2> DEFINE new == [b.idx[i] EXCEPT !.aliases = @ \cup {b.at}, !.trim = b.e.trim]
  <2>2. b.e.trim \in Store!AnyTrim
    BY <1>1 DEF Store!Entries
  <2>3. /\ new \in Store!Records /\ new.fp = b.idx[i].fp /\ new.of = b.idx[i].of
        /\ new.trim = b.e.trim
    BY <1>3, <1>7, <2>2 DEF Store!Records
  <2>4. r.idx = [b.idx EXCEPT ![i] = new]
    BY <2>1
  <2> HIDE DEF new
  <2>5. Touches(b, r.idx)
    <3>1. b.idx[i].trim # 0 /\ new.trim = 0 => b.e.trim = 0
      BY <2>3
    <3> QED
      BY <1>3, <1>7, <2>3, <2>4, <3>1, OneChanged, Zenon
  <2> QED
    BY <1>4, <1>5, <2>5 DEF r
<1> QED
  BY <1>6, <1>7

-----------------------------------------------------------------------------
\* A command that ends leaves nothing behind.
LEMMA IdleIs == Store!Idle \in Store!Commands /\ Store!Blank \in Store!Entries
<1>1. Store!Blank \in Store!Entries
  BY DEF Store!Blank, Store!Entries, Store!Ids, Store!AnyTrim
<1>2. Store!Idle \in Store!Commands
  BY <1>1 DEF Store!Idle, Store!Commands, Store!Kinds, Store!Steps, Store!Operations
<1> QED
  BY <1>1, <1>2

LEMMA IdleSound == Sound(Store!Idle) /\ Tells(Store!Idle) /\ Store!Idle.pc # "save"
<1>1. Sound(Store!Idle)
  BY IdleIs DEF Sound, AtWork, Store!Idle
<1>2. Tells(Store!Idle)
  BY DEF Tells, Store!Idle
<1> QED
  BY <1>1, <1>2 DEF Store!Idle

\* What an operation answers is dealt with outside the lock.
Out == {"put", "side", "refresh", "batch", "look"}
Keeps(c, x) == x.at = c.at /\ x.kind = c.kind /\ x.todo = c.todo /\ x.batch = c.batch

LEMMA OutSound ==
  ASSUME NEW c, Sound(c), c.pc \in AtWork, NEW x \in Store!Commands, Keeps(c, x), x.pc \in Out,
         file \in [Files -> [content : Contents \cup {Nobody}, stamp : Nat]]
  PROVE  /\ Sound(x) /\ x.pc # "save"
         /\ Tells(c) /\ Own(x.e.of, file[c.at].content) => Tells(x)
<1>1. Sound(x) /\ x.pc # "save"
  BY DEF Sound, Keeps, Out, AtWork
<1>2. Tells(c) /\ Own(x.e.of, file[c.at].content) => Tells(x)
  BY DEF Tells, Keeps, Out
<1> QED
  BY <1>1, <1>2

Answers(c, x) ==
  \/ x = Store!Idle
  \/ x \in Store!Commands /\ x.pc \in Out /\ Keeps(c, x)

LEMMA HydratedIs ==
  ASSUME NEW b \in Store!Commands, NEW found \in BOOLEAN, NEW r, r.e \in Store!Entries
  PROVE  /\ Answers(b, Store!Hydrated(b, found, r))
         /\ Store!Hydrated(b, found, r).e.of \in {Nobody, b.e.of, r.e.of}
<1>1. b.e \in Store!Entries /\ b.kind \in Store!Kinds
  BY DEF Store!Commands
<1>2. CASE b.kind = "trim"
  <2> DEFINE e == [(IF found THEN r.e ELSE Store!Blank) EXCEPT !.trim = b.e.trim]
             x == [b EXCEPT !.pc = "put", !.e = e]
  <2>1. e \in Store!Entries /\ e.of \in {Nobody, r.e.of}
    BY <1>1, IdleIs DEF Store!Entries, Store!Blank
  <2>2. Store!Hydrated(b, found, r) = x
    BY <1>2 DEF Store!Hydrated
  <2> HIDE DEF e
  <2>3. x \in Store!Commands /\ x.pc = "put" /\ Keeps(b, x) /\ x.e = e
    BY <2>1 DEF Store!Commands, Store!Steps, Keeps
  <2> QED
    BY <2>1, <2>2, <2>3 DEF Answers, Out
<1>3. CASE b.kind = "scan"
  <2> DEFINE x == [b EXCEPT !.pc = "side", !.dirty = found, !.e = IF found THEN r.e ELSE @]
  <2>1. Store!Hydrated(b, found, r) = x
    BY <1>3 DEF Store!Hydrated
  <2>3. x \in Store!Commands /\ x.pc = "side" /\ Keeps(b, x) /\ x.e \in {b.e, r.e}
    BY ZenonT(60) DEF Store!Commands, Store!Steps, Keeps
  <2> QED
    BY <2>1, <2>3 DEF Answers, Out
<1>4. CASE b.kind \notin {"trim", "scan"} /\ found
  <2> DEFINE x == [b EXCEPT !.pc = "put", !.e = r.e]
  <2>1. Store!Hydrated(b, found, r) = x
    BY <1>4 DEF Store!Hydrated
  <2>3. x \in Store!Commands /\ x.pc = "put" /\ Keeps(b, x) /\ x.e = r.e
    BY <1>1 DEF Store!Commands, Store!Steps, Keeps
  <2> QED
    BY <2>1, <2>3 DEF Answers, Out
<1>5. CASE b.kind \notin {"trim", "scan"} /\ ~found
  <2> DEFINE x == [b EXCEPT !.pc = "side"]
  <2>1. Store!Hydrated(b, found, r) = x
    BY <1>5 DEF Store!Hydrated
  <2>3. x \in Store!Commands /\ x.pc = "side" /\ Keeps(b, x) /\ x.e = b.e
    BY <1>1 DEF Store!Commands, Store!Steps, Keeps
  <2> QED
    BY <2>1, <2>3 DEF Answers, Out
<1> QED
  BY <1>2, <1>3, <1>4, <1>5

LEMMA EnrichedIs ==
  ASSUME NEW b \in Store!Commands, NEW told \in BOOLEAN, NEW r, r.e \in Store!Entries
  PROVE  /\ Answers(b, Store!Enriched(b, told, r))
         /\ Store!Enriched(b, told, r).e.of = r.e.of
<1> DEFINE x == [b EXCEPT !.pc = "refresh", !.e = r.e, !.dirty = @ \/ told]
           y == [b EXCEPT !.pc = "put", !.e = r.e, !.then = "refresh"]
           z == [b EXCEPT !.pc = "refresh", !.e = r.e]
<1>1. x \in Store!Commands /\ x.pc = "refresh" /\ Keeps(b, x) /\ x.e = r.e
  BY ZenonT(60) DEF Store!Commands, Store!Steps, Keeps
<1>2. y \in Store!Commands /\ y.pc = "put" /\ Keeps(b, y) /\ y.e = r.e
  BY ZenonT(60) DEF Store!Commands, Store!Steps, Keeps
<1>3. z \in Store!Commands /\ z.pc = "refresh" /\ Keeps(b, z) /\ z.e = r.e
  BY DEF Store!Commands, Store!Steps, Keeps
<1>4. Store!Enriched(b, told, r) \in {x, y, z}
  BY DEF Store!Enriched
<1> HIDE DEF x, y, z
<1> QED
  BY <1>1, <1>2, <1>3, <1>4 DEF Answers, Out

LEMMA ProfiledIs ==
  ASSUME NEW b \in Store!Commands, NEW ok \in BOOLEAN
  PROVE  /\ Answers(b, Store!Profiled(b, ok))
         /\ Store!Profiled(b, ok).e.of \in {Nobody, b.e.of}
<1> DEFINE x == [b EXCEPT !.pc = "batch"]
           y == [b EXCEPT !.pc = "put", !.then = "end"]
           z == [b EXCEPT !.pc = "look"]
<1>1. x \in Store!Commands /\ x.pc = "batch" /\ Keeps(b, x) /\ x.e = b.e
  BY DEF Store!Commands, Store!Steps, Keeps
<1>2. y \in Store!Commands /\ y.pc = "put" /\ Keeps(b, y) /\ y.e = b.e
  BY DEF Store!Commands, Store!Steps, Keeps
<1>3. z \in Store!Commands /\ z.pc = "look" /\ Keeps(b, z) /\ z.e = b.e
  BY DEF Store!Commands, Store!Steps, Keeps
<1>4. Store!Profiled(b, ok) \in {x, y, z, Store!Idle}
  BY DEF Store!Profiled
<1>5. Store!Idle.e.of = Nobody
  BY DEF Store!Idle, Store!Blank
<1> HIDE DEF x, y, z
<1> QED
  BY <1>1, <1>2, <1>3, <1>4, <1>5 DEF Answers, Out

\* Of what was in hand or was answered.
LEMMA AfterIs ==
  ASSUME NEW c \in Store!Commands, c.op # "none", NEW ok \in BOOLEAN,
         NEW r, r.e \in Store!Entries, r.hit \in BOOLEAN
  PROVE  /\ Answers(c, Store!After(c, ok, r))
         /\ Store!After(c, ok, r).e.of \in {Nobody, c.e.of, r.e.of}
<1> DEFINE b == [c EXCEPT !.op = "none", !.fp = Nobody, !.idx = <<>>]
<1>1. b \in Store!Commands /\ Keeps(c, b) /\ b.e = c.e
  BY EmptySeq DEF Store!Commands, Store!Operations, Keeps
<1>2. \A x : Answers(b, x) => Answers(c, x)
  BY <1>1 DEF Answers, Keeps
<1>3. CASE c.op = "hydrate"
  <2>1. Store!After(c, ok, r) = Store!Hydrated(b, ok /\ r.hit, r)
    BY <1>3 DEF Store!After
  <2> HIDE DEF b
  <2> QED
    BY <1>1, <1>2, <2>1, HydratedIs
<1>4. CASE c.op = "upsert"
  <2> DEFINE d == IF ok THEN r.e ELSE b.e
             x == [b EXCEPT !.pc = "put", !.e = d]
  <2>1. Store!After(c, ok, r) = x
    BY <1>4 DEF Store!After
  <2> HIDE DEF b
  <2>3. d \in Store!Entries /\ d \in {b.e, r.e}
    BY <1>1 DEF Store!Commands
  <2> HIDE DEF d
  <2>2. x \in Store!Commands /\ x.pc = "put" /\ Keeps(b, x) /\ x.e = d
    BY <1>1, <2>3, ZenonT(60) DEF Store!Commands, Store!Steps, Keeps
  <2> HIDE DEF x
  <2> QED
    BY <1>1, <1>2, <2>1, <2>2, <2>3 DEF Answers, Out
<1>5. CASE c.op = "enrich"
  <2>1. Store!After(c, ok, r) = Store!Enriched(b, ok /\ r.hit, r)
    BY <1>5 DEF Store!After
  <2> HIDE DEF b
  <2> QED
    BY <1>1, <1>2, <2>1, EnrichedIs
<1>6. CASE c.op = "profile"
  <2>1. Store!After(c, ok, r) = Store!Profiled(b, ok)
    BY <1>6 DEF Store!After
  <2> HIDE DEF b
  <2> QED
    BY <1>1, <1>2, <2>1, ProfiledIs
<1> QED
  BY <1>3, <1>4, <1>5, <1>6 DEF Store!Commands, Store!Operations

-----------------------------------------------------------------------------
\* Where a command is, and what it has, is its own affair: what it does disturbs none
\* of the others, if it changes the index only while none of them saves.
LEMMA CommandMoves ==
  ASSUME StoreInv, NEW j \in Jobs, NEW x, Store!Goes(j, x), Sound(x), UNCHANGED <<file, sidecar>>,
         running' \in BOOLEAN, db' \in [Files -> Store!Rows \cup {Nobody}],
         index' \in Seq(Store!Records), lock' \in Jobs \cup {Nobody},
         x.pc = "save" <=> lock' = j, x.pc = "save" => x.idx = index',
         \A k \in Jobs \ {j} : /\ job[k].pc = "save" <=> lock' = k
                               /\ job[k].pc = "save" => index' = index,
         TellsInv => Tells(x) /\ IndexTells(index'), TellsInv => \A p \in Files : RowTells(p)'
  PROVE  StoreInv' /\ (TellsInv => TellsInv')
<1>1. job' = [job EXCEPT ![j] = x] /\ job \in [Jobs -> Store!Commands]
  BY DEF Store!Goes, StoreInv, Store!TypeOK
<1>2. job'[j] = x /\ \A k \in Jobs \ {j} : job'[k] = job[k]
  BY <1>1
<1>3. \A b : (Sound(b) <=> Sound(b)') /\ (Tells(b) <=> Tells(b)')
  BY DEF Sound, Tells, Own, Store!Present
<1>4. StoreInv'
  <2>1. job' \in [Jobs -> Store!Commands]
    BY <1>1 DEF Sound
  <2>2. \A k \in Jobs : job'[k].pc = "save" <=> lock' = k
    BY <1>2
  <2>3. Store!TypeOK'
    BY <2>1, <2>2 DEF StoreInv, Store!TypeOK
  <2>4. \A k \in Jobs : Sound(job[k])'
    BY <1>2, <1>3 DEF StoreInv
  <2>5. \A k \in Jobs : job'[k].pc = "save" => job'[k].idx = index'
    BY <1>2 DEF StoreInv
  <2> QED
    BY <2>3, <2>4, <2>5 DEF StoreInv
<1>5. ASSUME TellsInv PROVE TellsInv'
  <2>1. \A k \in Jobs : Tells(job[k])'
    BY <1>2, <1>3, <1>5 DEF TellsInv
  <2>2. \A p \in Files : sidecar'[p] # Nobody => sidecar'[p].of = file'[p].content
    BY <1>5 DEF TellsInv
  <2>3. IndexTells(index)'
    BY <1>5 DEF IndexTells, Own
  <2> QED
    BY <1>4, <1>5, <2>1, <2>2, <2>3 DEF TellsInv
<1> QED
  BY <1>4, <1>5

\* One that goes on outside the lock leaves the index to the others.
LEMMA Moves ==
  ASSUME StoreInv, NEW j \in Jobs, NEW x, Store!Goes(j, x), job[j].pc # "save",
         Sound(x), x.pc # "save", UNCHANGED <<file, sidecar, index, lock>>,
         running' \in BOOLEAN, db' \in [Files -> Store!Rows \cup {Nobody}],
         TellsInv => Tells(x), TellsInv => \A p \in Files : RowTells(p)'
  PROVE  StoreInv' /\ (TellsInv => TellsInv')
<1>1. /\ index' \in Seq(Store!Records) /\ lock' \in Jobs \cup {Nobody}
      /\ \A k \in Jobs : job[k].pc = "save" <=> lock' = k
  BY DEF StoreInv, Store!TypeOK
<1>2. TellsInv => IndexTells(index')
  BY DEF TellsInv
<1> QED
  BY <1>1, <1>2, CommandMoves

\* In particular one that only looks.
LEMMA Looks ==
  ASSUME StoreInv, NEW j \in Jobs, NEW x, Store!Goes(j, x), job[j].pc # "save",
         Sound(x), x.pc # "save", UNCHANGED <<file, sidecar, index, lock, db>>,
         running' \in BOOLEAN, TellsInv => Tells(x)
  PROVE  StoreInv' /\ (TellsInv => TellsInv')
<1>1. db' \in [Files -> Store!Rows \cup {Nobody}]
  BY DEF StoreInv, Store!TypeOK
<1>2. TellsInv => \A p \in Files : RowTells(p)'
  BY DEF TellsInv, RowTells, Own
<1> QED
  BY <1>1, <1>2, Moves

\* One that works on a file goes on with that file.
LEMMA AtIs ==
  ASSUME StoreInv, NEW j \in Jobs, job[j].pc \in AtWork
  PROVE  /\ job[j] \in Store!Commands /\ Sound(job[j]) /\ job[j].at \in Files
         /\ job[j].at # Nobody /\ job[j].e \in Store!Entries
         /\ Store!Present(job[j].at) /\ file[job[j].at].content \in Contents
         /\ file[job[j].at].stamp \in Nat
         /\ TellsInv => Tells(job[j]) /\ Own(job[j].e.of, file[job[j].at].content)
<1>1. job[j] \in Store!Commands /\ Sound(job[j]) /\ job[j].at \in Files /\ Store!Present(job[j].at)
  BY DEF StoreInv, Sound
<1>2. job[j].at # Nobody /\ job[j].e \in Store!Entries
  BY <1>1, StoreNames DEF Store!Commands
<1>3. file[job[j].at].content \in Contents /\ file[job[j].at].stamp \in Nat
  BY <1>1 DEF StoreInv, Store!TypeOK, Store!Present
<1> QED
  BY <1>1, <1>2, <1>3 DEF TellsInv, Tells

Asks(x) == \/ x.pc \in Out \cup {"ffprobe"}
           \/ x.pc = "fp" /\ x.op \in {"hydrate", "upsert"}
           \/ x.pc = "load" /\ x.op \in {"enrich", "profile"}
LEMMA AsksSound ==
  ASSUME NEW c, Sound(c), c.pc \in AtWork, c.at # Nobody, NEW x \in Store!Commands, Keeps(c, x), Asks(x)
  PROVE  /\ Sound(x) /\ x.pc # "save"
         /\ Tells(c) /\ Own(x.e.of, file[c.at].content) => Tells(x)
<1>1. Sound(x) /\ x.pc # "save"
  BY DEF Sound, Keeps, Asks, Out, AtWork
<1>2. Tells(c) /\ Own(x.e.of, file[c.at].content) => Tells(x)
  BY DEF Tells, Keeps, Asks, Out
<1> QED
  BY <1>1, <1>2

LEMMA GoesOnLooking ==
  ASSUME StoreInv, NEW j \in Jobs, job[j].pc \in AtWork \ {"save"}, NEW x \in Store!Commands,
         Keeps(job[j], x), Asks(x), Store!Goes(j, x),
         UNCHANGED <<file, sidecar, index, lock, db, running>>,
         TellsInv => Own(x.e.of, file[job[j].at].content)
  PROVE  StoreInv' /\ (TellsInv => TellsInv')
<1>1. Sound(x) /\ x.pc # "save" /\ (TellsInv => Tells(x))
  BY AtIs, AsksSound
<1>2. running' \in BOOLEAN
  BY DEF StoreInv, Store!TypeOK
<1> QED
  BY <1>1, <1>2, Looks

\* And has done with it.
LEMMA DoneIs ==
  ASSUME NEW b, Sound(b)
  PROVE  /\ Sound(Store!Done(b)) /\ Store!Done(b).pc # "save"
         /\ Tells(b) => Tells(Store!Done(b))
<1>1. CASE b.kind \in {"scan", "warm"}
  <2> DEFINE x == [Store!Idle EXCEPT !.kind = b.kind, !.pc = "next", !.todo = b.todo, !.batch = b.batch]
  <2>1. x \in Store!Commands
    BY IdleIs, ZenonT(60) DEF Sound, Store!Commands, Store!Steps
  <2>2. /\ x.kind = b.kind /\ x.pc = "next" /\ x.todo = b.todo /\ x.batch = b.batch /\ x.at = Nobody
        /\ x.e.of = Nobody
    BY DEF Store!Idle, Store!Blank
  <2>3. Store!Done(b) = x
    BY <1>1 DEF Store!Done
  <2> HIDE DEF x
  <2> QED
    BY <1>1, <2>1, <2>2, <2>3 DEF Sound, Tells, AtWork
<1>2. CASE b.kind \notin {"scan", "warm"}
  BY <1>2, IdleSound DEF Store!Done
<1> QED
  BY <1>1, <1>2

LEMMA RowIs ==
  ASSUME StoreInv, NEW p \in Files, Store!Valid(p)
  PROVE  /\ Store!Row(p) \in Store!Entries
         /\ TellsInv => Own(Store!Row(p).of, file[p].content)
<1>1. db[p] \in Store!Rows /\ db[p] # Nobody /\ db[p].ident = file[p].stamp
  BY DEF StoreInv, Store!TypeOK, Store!Valid
<1>2. Store!Row(p) \in Store!Entries
  BY <1>1 DEF Store!Row, Store!Rows, Store!Entries
<1>3. TellsInv => Own(db[p].of, file[p].content)
  BY <1>1 DEF TellsInv, RowTells
<1> QED
  BY <1>2, <1>3 DEF Store!Row

LEMMA PresentIs ==
  ASSUME StoreInv, NEW p \in Files
  PROVE  /\ file[p].content \in Contents \cup {Nobody} /\ file[p].stamp \in Nat
         /\ Store!Present(p) => file[p].content \in Contents
BY DEF StoreInv, Store!TypeOK, Store!Present

\* A command begins with what it was asked for.
LEMMA StartsKept ==
  ASSUME StoreInv, NEW j \in Jobs, NEW x, Store!Starts(j, x), Sound(x), x.pc # "save", Tells(x)
  PROVE  StoreInv' /\ (TellsInv => TellsInv')
BY Looks DEF Store!Starts, StoreInv, Store!TypeOK

LEMMA CommandsStart ==
  ASSUME StoreInv, NEW j \in Jobs,
         \/ \E p \in Files : \/ Store!ScanMedia(j, p) \/ Store!VerifyPlaybackReady(j, p)
                             \/ \E t \in Trims : Store!SaveTrim(j, p, t)
         \/ Store!ScanDirectory(j) \/ Store!StartMediaProbe(j)
  PROVE  StoreInv' /\ (TellsInv => TellsInv')
<1>1. ASSUME NEW p \in Files, Store!ScanMedia(j, p) PROVE StoreInv' /\ (TellsInv => TellsInv')
  <2> DEFINE x == [Store!Idle EXCEPT !.kind = "probe", !.at = p, !.pc = "look"]
  <2>1. x \in Store!Commands /\ Sound(x) /\ x.pc # "save" /\ Tells(x)
    BY <1>1, IdleIs, ZenonT(60) DEF Store!ScanMedia, Store!Idle, Store!Commands, Store!Kinds,
         Store!Steps, Sound, Tells, Own, Store!Blank
  <2> QED
    BY <1>1, <2>1, StartsKept DEF Store!ScanMedia
<1>2. ASSUME NEW p \in Files, Store!VerifyPlaybackReady(j, p) PROVE StoreInv' /\ (TellsInv => TellsInv')
  <2> DEFINE x == [Store!Idle EXCEPT !.kind = "verify", !.at = p, !.pc = "side"]
  <2>1. x \in Store!Commands /\ Sound(x) /\ x.pc # "save" /\ Tells(x)
    <3>1. Store!Present(p)
      BY <1>2 DEF Store!VerifyPlaybackReady
    <3>2. x \in Store!Commands
      BY IdleIs, ZenonT(60) DEF Store!Commands, Store!Kinds, Store!Steps
    <3> QED
      BY <3>1, <3>2 DEF Store!Idle, Sound, Tells, Own, Store!Blank
  <2> QED
    BY <1>2, <2>1, StartsKept DEF Store!VerifyPlaybackReady
<1>3. ASSUME NEW p \in Files, NEW t \in Trims, Store!SaveTrim(j, p, t) PROVE StoreInv' /\ (TellsInv => TellsInv')
  <2> DEFINE e == [Store!Blank EXCEPT !.trim = t]
             x == [Store!Idle EXCEPT !.kind = "trim", !.at = p, !.pc = "load", !.op = "profile", !.e = e]
  <2>1. e \in Store!Entries /\ e.of = Nobody
    BY IdleIs DEF Store!Entries, Store!Blank, Store!AnyTrim
  <2> HIDE DEF e
  <2>2. x \in Store!Commands /\ Sound(x) /\ x.pc # "save" /\ Tells(x)
    <3>1. Store!Present(p)
      BY <1>3 DEF Store!SaveTrim
    <3>2. x \in Store!Commands
      <4>1. /\ p \in Files \cup {Nobody} /\ "trim" \in Store!Kinds
            /\ "load" \in Store!Steps /\ "profile" \in Store!Operations
        BY DEF Store!Kinds, Store!Steps, Store!Operations
      <4> QED
        BY <2>1, <4>1, IdleIs, ZenonT(60) DEF Store!Commands
    <3> QED
      BY <2>1, <3>1, <3>2 DEF Store!Idle, Sound, Tells, Own
  <2> QED
    BY <1>3, <2>2, StartsKept DEF Store!SaveTrim, e
<1>4. ASSUME Store!ScanDirectory(j) PROVE StoreInv' /\ (TellsInv => TellsInv')
  <2> DEFINE x == [Store!Idle EXCEPT !.kind = "scan", !.todo = {p \in Files : Store!Present(p)}, !.pc = "next"]
  <2>1. x \in Store!Commands /\ Sound(x) /\ x.pc # "save" /\ Tells(x)
    BY <1>4, IdleIs, ZenonT(60) DEF Store!Idle, Store!Blank, Store!Commands, Store!Kinds,
         Store!Steps, Sound, Tells, AtWork
  <2> QED
    BY <1>4, <2>1, StartsKept DEF Store!ScanDirectory
<1>5. ASSUME Store!StartMediaProbe(j) PROVE StoreInv' /\ (TellsInv => TellsInv')
  <2> DEFINE x == [Store!Idle EXCEPT !.kind = "warm", !.pc = "arm"]
  <2>1. x \in Store!Commands /\ Sound(x) /\ x.pc # "save" /\ Tells(x)
    BY <1>5, IdleIs, ZenonT(60) DEF Store!Idle, Store!Blank, Store!Commands, Store!Kinds,
         Store!Steps, Sound, Tells, AtWork
  <2> QED
    BY <1>5, <2>1, StartsKept DEF Store!StartMediaProbe
<1> QED
  BY <1>1, <1>2, <1>3, <1>4, <1>5, SMTT(60)

\* The directory is walked, and the flag follows the background probe.
LEMMA ArmKept ==
  ASSUME StoreInv, NEW j \in Jobs, Store!Arm(j) PROVE StoreInv' /\ (TellsInv => TellsInv')
<1> DEFINE x == [job[j] EXCEPT !.pc = "list"]
<1>1. Sound(job[j]) /\ job[j].pc = "arm" /\ (TellsInv => Tells(job[j]))
  BY DEF StoreInv, TellsInv, Store!Arm
<1>2. Sound(x) /\ x.pc = "list" /\ (TellsInv => Tells(x))
  BY <1>1, SMTT(60) DEF Sound, Tells, AtWork, Store!Commands, Store!Steps
<1> QED
  BY <1>1, <1>2, Looks DEF Store!Arm

LEMMA ListKept ==
  ASSUME StoreInv, NEW j \in Jobs, Store!List(j) PROVE StoreInv' /\ (TellsInv => TellsInv')
<1> DEFINE P == {p \in Files : Store!Present(p)}
           x == [job[j] EXCEPT !.pc = "next", !.todo = P]
<1>1. Sound(job[j]) /\ job[j].pc = "list" /\ (TellsInv => Tells(job[j])) /\ running \in BOOLEAN
  BY DEF StoreInv, TellsInv, Store!TypeOK, Store!List
<1>2. P \in SUBSET Files /\ \A p \in P : Store!Present(p)
  OBVIOUS
<1>3. CASE Store!Goes(j, x) /\ UNCHANGED running
  <2>1. job[j].kind = "warm" /\ job[j] \in Store!Commands
    BY <1>1 DEF Sound
  <2> HIDE DEF P
  <2>2. x \in Store!Commands /\ x.pc = "next" /\ x.todo = P
    BY <1>2, <2>1 DEF Store!Commands, Store!Steps
  <2>3. x.kind = "warm" /\ x.at = job[j].at /\ x.e = job[j].e /\ x.batch = job[j].batch
    BY <2>1 DEF Store!Commands
  <2> HIDE DEF x
  <2>4. Sound(x) /\ (Tells(job[j]) => Tells(x))
    BY <1>1, <1>2, <2>1, <2>2, <2>3 DEF Sound, Tells, AtWork
  <2> QED
    BY <1>1, <1>3, <2>2, <2>4, Looks DEF Store!List
<1>4. CASE Store!Goes(j, Store!Idle) /\ running' = FALSE
  BY <1>1, <1>4, IdleSound, Looks DEF Store!List
<1> QED
  BY <1>3, <1>4 DEF Store!List

LEMMA NextFileKept ==
  ASSUME StoreInv, NEW j \in Jobs, Store!NextFile(j) PROVE StoreInv' /\ (TellsInv => TellsInv')
<1>1. /\ Sound(job[j]) /\ job[j] \in Store!Commands /\ job[j].pc = "next"
      /\ TellsInv => Tells(job[j]) /\ \A p \in Files : Own(Nobody, file[p].content)
      /\ running' \in BOOLEAN
  BY DEF StoreInv, TellsInv, Store!TypeOK, Store!NextFile, Own, Sound
<1>2. ASSUME NEW p \in job[j].todo,
             Store!Goes(j, [job[j] EXCEPT !.pc = IF job[j].kind = "warm" THEN "skip" ELSE "look",
                                          !.at = p, !.todo = @ \ {p}])
      PROVE  StoreInv' /\ (TellsInv => TellsInv')
  <2> DEFINE x == [job[j] EXCEPT !.pc = IF job[j].kind = "warm" THEN "skip" ELSE "look",
                                 !.at = p, !.todo = @ \ {p}]
  <2>1. p \in Files /\ Store!Present(p)
    BY <1>1 DEF Sound, Store!Commands
  <2>2. x \in Store!Commands
    BY <1>1, <2>1, ZenonT(60) DEF Store!Commands, Store!Steps
  <2>3. /\ x.pc \in {"skip", "look"} /\ x.at = p /\ x.todo \subseteq job[j].todo /\ x.batch = job[j].batch
        /\ x.kind = job[j].kind /\ x.e = job[j].e
    BY <1>1 DEF Store!Commands
  <2> HIDE DEF x
  <2>4. Sound(x)
    <3>1. \A q \in x.todo : Store!Present(q)
      BY <1>1, <2>3 DEF Sound
    <3> QED
      BY <2>1, <2>2, <2>3, <3>1 DEF Sound
  <2>5. TellsInv => Tells(x)
    BY <1>1, <2>1, <2>3, SMTT(60) DEF Tells, Own
  <2> QED
    BY <1>1, <1>2, <2>3, <2>4, <2>5, Looks DEF Store!NextFile, x
<1>3. CASE Store!Goes(j, [job[j] EXCEPT !.pc = "commit"])
  <2> DEFINE x == [job[j] EXCEPT !.pc = "commit"]
  <2>1. Sound(x) /\ x.pc = "commit" /\ (TellsInv => Tells(x))
    BY <1>1 DEF Sound, Tells, AtWork, Store!Commands, Store!Steps
  <2> QED
    BY <1>1, <1>3, <2>1, Looks DEF Store!NextFile
<1> QED
  BY <1>2, <1>3 DEF Store!NextFile

LEMMA FinishKept ==
  ASSUME StoreInv, NEW j \in Jobs, Store!Finish(j) PROVE StoreInv' /\ (TellsInv => TellsInv')
BY IdleSound, Looks DEF Store!Finish

LEMMA SkipKept ==
  ASSUME StoreInv, NEW j \in Jobs, Store!Skip(j) PROVE StoreInv' /\ (TellsInv => TellsInv')
<1> DEFINE b == job[j]
           x == [b EXCEPT !.pc = "look"]
<1>1. /\ b.pc = "skip" /\ b.pc \in AtWork \ {"save"} /\ b.pc \in AtWork
      /\ UNCHANGED <<file, sidecar, index, lock, db, running>>
      /\ Store!Goes(j, x) \/ Store!Goes(j, Store!Done(b))
  BY DEF Store!Skip, AtWork
<1>2. /\ b \in Store!Commands /\ Sound(b) /\ running' \in BOOLEAN
      /\ TellsInv => Tells(b) /\ Own(b.e.of, file[b.at].content)
  BY <1>1, AtIs DEF StoreInv, Store!TypeOK
<1>3. x \in Store!Commands /\ Keeps(b, x) /\ Asks(x) /\ x.e = b.e
  BY <1>2 DEF Store!Commands, Store!Steps, Keeps, Asks, Out
<1> HIDE DEF x
<1>4. CASE Store!Goes(j, x)
  BY <1>1, <1>2, <1>3, <1>4, GoesOnLooking
<1>5. CASE Store!Goes(j, Store!Done(b))
  BY <1>1, <1>2, <1>5, DoneIs, Looks
<1> QED
  BY <1>1, <1>4, <1>5

LEMMA LookUpKept ==
  ASSUME StoreInv, NEW j \in Jobs, Store!LookUp(j) PROVE StoreInv' /\ (TellsInv => TellsInv')
<1> DEFINE b == job[j]
           p == b.at
           asks == [b EXCEPT !.pc = "fp", !.op = "hydrate"]
<1>1. b.pc = "look" /\ b.pc \in AtWork \ {"save"} /\ UNCHANGED <<file, sidecar, index, lock, db, running>>
  BY DEF Store!LookUp, AtWork
<1>2. /\ b \in Store!Commands /\ Sound(b) /\ p \in Files /\ p # Nobody /\ b.e \in Store!Entries
      /\ TellsInv => Tells(b) /\ Own(b.e.of, file[p].content)
  BY <1>1, AtIs
<1>3. asks \in Store!Commands /\ Keeps(b, asks) /\ asks.pc = "fp" /\ asks.op = "hydrate" /\ asks.e = b.e
  BY <1>2, ZenonT(60) DEF Store!Commands, Store!Steps, Store!Operations, Keeps
<1>5. CASE Store!Knows(p) /\ Store!Goes(j, [b EXCEPT !.pc = "load", !.op = "enrich", !.e = Store!Row(p)])
  <2> DEFINE x == [b EXCEPT !.pc = "load", !.op = "enrich", !.e = Store!Row(p)]
  <2>1. Store!Valid(p)
    BY <1>5 DEF Store!Knows
  <2>2. x \in Store!Commands /\ Keeps(b, x) /\ Asks(x) /\ x.e = Store!Row(p)
    BY <1>2, <2>1, RowIs, ZenonT(60) DEF Store!Commands, Store!Steps, Store!Operations,
         Keeps, Asks
  <2> HIDE DEF x
  <2> QED
    BY <1>1, <1>2, <1>5, <2>1, <2>2, RowIs, GoesOnLooking DEF x
<1>6. CASE Store!Goes(j, asks)
  <2>1. Asks(asks)
    BY <1>3 DEF Asks
  <2> HIDE DEF asks
  <2> QED
    BY <1>1, <1>2, <1>3, <1>6, <2>1, GoesOnLooking
<1>7. CASE Store!Knows(p) /\ Store!Goes(j, [b EXCEPT !.pc = "side", !.e = Store!Row(p)])
  <2> DEFINE x == [b EXCEPT !.pc = "side", !.e = Store!Row(p)]
  <2>1. Store!Valid(p)
    BY <1>7 DEF Store!Knows
  <2>2. x \in Store!Commands /\ Keeps(b, x) /\ Asks(x) /\ x.e = Store!Row(p)
    BY <1>2, <2>1, RowIs, ZenonT(60) DEF Store!Commands, Store!Steps, Store!Operations,
         Keeps, Asks, Out
  <2> HIDE DEF x
  <2> QED
    BY <1>1, <1>2, <1>7, <2>1, <2>2, RowIs, GoesOnLooking DEF x
<1>8. CASE Store!Goes(j, [asks EXCEPT !.e = IF Store!Valid(p) THEN Store!Row(p) ELSE Store!Blank])
  <2> DEFINE e == IF Store!Valid(p) THEN Store!Row(p) ELSE Store!Blank
             x == [asks EXCEPT !.e = e]
  <2>1. e \in Store!Entries /\ (TellsInv => Own(e.of, file[p].content))
    BY <1>2, RowIs, IdleIs DEF Own, Store!Blank
  <2> HIDE DEF e, asks
  <2>2. x \in Store!Commands /\ Keeps(b, x) /\ Asks(x) /\ x.e = e
    BY <1>3, <2>1 DEF Store!Commands, Keeps, Asks
  <2> HIDE DEF x
  <2> QED
    BY <1>1, <1>2, <1>8, <2>1, <2>2, GoesOnLooking DEF x, e
<1>9. CASE /\ Store!Valid(p)
           /\ Store!Goes(j, [b EXCEPT !.pc = "put", !.e = [Store!Row(p) EXCEPT !.trim = b.e.trim]])
  <2> DEFINE e == [Store!Row(p) EXCEPT !.trim = b.e.trim]
             x == [b EXCEPT !.pc = "put", !.e = e]
  <2>1. e \in Store!Entries /\ (TellsInv => Own(e.of, file[p].content))
    BY <1>2, <1>9, RowIs DEF Store!Entries
  <2> HIDE DEF e
  <2>2. x \in Store!Commands /\ Keeps(b, x) /\ Asks(x) /\ x.e = e
    BY <1>2, <2>1 DEF Store!Commands, Store!Steps, Keeps, Asks, Out
  <2> HIDE DEF x
  <2> QED
    BY <1>1, <1>2, <1>9, <2>1, <2>2, GoesOnLooking DEF x, e
<1> HIDE DEF asks
<1> QED
  BY <1>5, <1>6, <1>7, <1>8, <1>9 DEF Store!LookUp, asks

-----------------------------------------------------------------------------
\* The fingerprint is of the file there is.
LEMMA FingerprintKept ==
  ASSUME StoreInv, NEW j \in Jobs, Store!Fingerprint(j) PROVE StoreInv' /\ (TellsInv => TellsInv')
<1> DEFINE b == job[j]
           f == file[b.at].content
           x == [b EXCEPT !.pc = "load", !.fp = f]
<1>1. b.pc = "fp" /\ b.pc \in AtWork /\ UNCHANGED <<file, sidecar, index, lock, db, running>>
  BY DEF Store!Fingerprint, AtWork
<1>2. /\ b \in Store!Commands /\ Sound(b) /\ b.at \in Files /\ Store!Present(b.at) /\ f \in Contents
      /\ running \in BOOLEAN /\ (TellsInv => Tells(b))
  BY <1>1, AtIs DEF StoreInv, Store!TypeOK
<1> HIDE DEF f
<1>3. x \in Store!Commands /\ Keeps(b, x) /\ x.e = b.e /\ x.pc = "load" /\ x.fp = f /\ x.op = b.op
  BY <1>2 DEF Store!Commands, Store!Steps, Keeps
<1> HIDE DEF x
<1>4. Sound(x)
  BY <1>1, <1>2, <1>3 DEF Sound, Keeps
<1>5. TellsInv => Tells(x)
  BY <1>2, <1>3 DEF Tells, Keeps, f
<1>6. Store!Goes(j, x)
  BY DEF Store!Fingerprint, x, f
<1> QED
  BY <1>1, <1>2, <1>3, <1>4, <1>5, <1>6, Looks

\* What was answered of the index, or was not.
LEMMA AnswersSound ==
  ASSUME NEW c, Sound(c), c.pc \in AtWork, NEW x, Answers(c, x),
         file \in [Files -> [content : Contents \cup {Nobody}, stamp : Nat]]
  PROVE  /\ Sound(x) /\ x.pc # "save"
         /\ Tells(c) /\ Own(x.e.of, file[c.at].content) => Tells(x)
BY IdleSound, OutSound DEF Answers

LEMMA LoadKept ==
  ASSUME StoreInv, NEW j \in Jobs, Store!Load(j) PROVE StoreInv' /\ (TellsInv => TellsInv')
<1> DEFINE b == job[j]
<1>1. /\ b.pc = "load" /\ b.pc \in AtWork /\ lock = Nobody
      /\ UNCHANGED <<file, sidecar, index, db, running>>
  BY DEF Store!Load, Store!Free, AtWork
<1>2. /\ b \in Store!Commands /\ Sound(b) /\ b.at \in Files /\ b.e \in Store!Entries /\ b.op # "none"
      /\ TellsInv => Tells(b) /\ Own(b.e.of, file[b.at].content)
  BY <1>1, AtIs DEF Sound
<1>3. /\ file \in [Files -> [content : Contents \cup {Nobody}, stamp : Nat]]
      /\ index \in Seq(Store!Records) /\ running' \in BOOLEAN
      /\ db' \in [Files -> Store!Rows \cup {Nobody}]
      /\ \A k \in Jobs : job[k].pc # "save" /\ k # Nobody
      /\ TellsInv => IndexTells(index') /\ \A p \in Files : RowTells(p)'
  BY <1>1, StoreNames DEF StoreInv, Store!TypeOK, TellsInv, RowTells, Own
<1>4. CASE lock' = j /\ Store!Goes(j, [b EXCEPT !.pc = "save", !.idx = index])
  <2> DEFINE x == [b EXCEPT !.pc = "save", !.idx = index]
  <2>1. /\ x \in Store!Commands /\ Keeps(b, x) /\ x.e = b.e /\ x.pc = "save" /\ x.idx = index
        /\ x.op = b.op /\ x.fp = b.fp
    BY <1>2, <1>3 DEF Store!Commands, Store!Steps, Keeps
  <2> HIDE DEF x
  <2>2. Sound(x)
    BY <1>1, <1>2, <2>1 DEF Sound, Keeps
  <2>3. TellsInv => Tells(x)
    BY <1>1, <1>2, <2>1 DEF Tells, Keeps
  <2>4. Store!Goes(j, x)
    BY <1>4 DEF x
  <2> QED
    BY <1>1, <1>3, <1>4, <2>1, <2>2, <2>3, <2>4, CommandMoves
<1>5. ASSUME UNCHANGED lock, Store!Goes(j, Store!After(b, FALSE, [e |-> b.e, hit |-> FALSE]))
      PROVE  StoreInv' /\ (TellsInv => TellsInv')
  <2> DEFINE r == [e |-> b.e, hit |-> FALSE]
             x == Store!After(b, FALSE, r)
  <2>4. Store!Goes(j, x)
    BY <1>5
  <2>3. r.e = b.e /\ r.e \in Store!Entries /\ r.hit \in BOOLEAN /\ FALSE \in BOOLEAN
    BY <1>2
  <2> HIDE DEF r
  <2>1. Answers(b, x) /\ x.e.of \in {Nobody, b.e.of}
    <3>1. Answers(b, x) /\ x.e.of \in {Nobody, b.e.of, r.e.of}
      BY <1>2, <2>3, AfterIs, Zenon
    <3> QED
      BY <2>3, <3>1
  <2> HIDE DEF x
  <2>2. Sound(x) /\ x.pc # "save" /\ (TellsInv => Tells(x))
    BY <1>1, <1>2, <1>3, <2>1, AnswersSound DEF Own
  <2> QED
    BY <1>1, <1>3, <1>5, <2>2, <2>4, Looks
<1> QED
  BY <1>4, <1>5 DEF Store!Load

\* What a save makes of the index that is stored.
LEMMA OutcomeIs ==
  ASSUME StoreInv, NEW j \in Jobs, job[j].pc = "save"
  PROVE  LET r == Store!Outcome(job[j])
         IN  Touches(job[j], r.idx) /\ Knows(job[j], r.e) /\ r.hit \in BOOLEAN
<1> DEFINE b == job[j]
           r == Store!Outcome(b)
<1>1. /\ b \in Store!Commands /\ b.at \in Files /\ file[b.at].content \in Contents /\ b.op # "none"
      /\ b.op \in {"hydrate", "upsert"} => b.fp \in Contents
  BY AtIs DEF AtWork, Sound
<1>2. CASE b.op = "hydrate"
  <2>1. r = Store!Hydrate(b.idx, b.at, b.fp, b.e)
    BY <1>2 DEF Store!Outcome
  <2> HIDE DEF r
  <2> QED
    BY <1>1, <1>2, <2>1, HydrateTouches DEF r
<1>3. CASE b.op = "upsert"
  <2>1. r = Store!Upsert(b.idx, b.at, b.fp, b.e)
    BY <1>3 DEF Store!Outcome
  <2> HIDE DEF r
  <2> QED
    BY <1>1, <1>3, <2>1, UpsertTouches DEF r
<1>4. CASE b.op = "enrich"
  <2>1. r = Store!Enrich(b.idx, b.at, b.e)
    BY <1>4 DEF Store!Outcome
  <2> HIDE DEF r
  <2> QED
    BY <1>1, <1>4, <2>1, EnrichTouches DEF r
<1>5. CASE b.op = "profile"
  <2>1. r = Store!Profile(b.idx, b.at, file[b.at].content, b.e)
    BY <1>5 DEF Store!Outcome
  <2> HIDE DEF r
  <2> QED
    BY <1>1, <1>5, <2>1, ProfileTouches DEF r
<1> QED
  BY <1>1, <1>2, <1>3, <1>4, <1>5 DEF Store!Commands, Store!Operations

\* What is touched is still an index, and tells what it told.
LEMMA TouchedIs ==
  ASSUME NEW b, b.idx \in Seq(Store!Records), NEW new, Touches(b, new)
  PROVE  /\ new \in Seq(Store!Records)
         /\ IndexTells(b.idx) /\ (b.op = "upsert" => Own(b.e.of, b.fp)) => IndexTells(new)
<1>1. CASE new = b.idx
  BY <1>1
<1>2. ASSUME NEW r \in Store!Records, new = Append(b.idx, r),
             r.of = Nobody \/ (b.op = "upsert" /\ r.of = b.e.of /\ r.fp = b.fp)
      PROVE  /\ new \in Seq(Store!Records)
             /\ IndexTells(b.idx) /\ (b.op = "upsert" => Own(b.e.of, b.fp)) => IndexTells(new)
  <2>1. /\ new \in Seq(Store!Records) /\ DOMAIN new = 1..(Len(b.idx) + 1) /\ DOMAIN b.idx = 1..Len(b.idx)
        /\ Len(b.idx) \in Nat /\ new[Len(b.idx) + 1] = r /\ \A i \in DOMAIN b.idx : new[i] = b.idx[i]
    BY <1>2, AppendProperties
  <2> QED
    BY <1>2, <2>1 DEF IndexTells, Own
<1>3. ASSUME NEW i \in DOMAIN b.idx, NEW r \in Store!Records, new = [b.idx EXCEPT ![i] = r],
             r.fp = b.idx[i].fp,
             r.of = b.idx[i].of \/ (b.op = "upsert" /\ r.of = b.e.of /\ r.fp = b.fp)
      PROVE  /\ new \in Seq(Store!Records)
             /\ IndexTells(b.idx) /\ (b.op = "upsert" => Own(b.e.of, b.fp)) => IndexTells(new)
  <2>1. /\ new \in Seq(Store!Records) /\ DOMAIN new = DOMAIN b.idx /\ new[i] = r
        /\ \A k \in DOMAIN b.idx \ {i} : new[k] = b.idx[k]
    BY <1>3, ExceptSeq
  <2> QED
    BY <1>3, <2>1 DEF IndexTells, Own
<1> QED
  BY <1>1, <1>2, <1>3 DEF Touches

LEMMA SaveKept ==
  ASSUME StoreInv, NEW j \in Jobs, Store!Save(j) PROVE StoreInv' /\ (TellsInv => TellsInv')
<1> DEFINE b == job[j]
           r == Store!Outcome(b)
<1>1. /\ b.pc = "save" /\ b.pc \in AtWork /\ lock' = Nobody
      /\ UNCHANGED <<file, sidecar, db, running>>
  BY DEF Store!Save, AtWork
<1>2. /\ b \in Store!Commands /\ Sound(b) /\ b.at \in Files /\ b.e \in Store!Entries /\ b.op # "none"
      /\ TellsInv => Tells(b) /\ Own(b.e.of, file[b.at].content)
      /\ b.idx = index /\ index \in Seq(Store!Records)
  BY <1>1, AtIs DEF Sound, StoreInv, Store!TypeOK
<1>3. /\ file \in [Files -> [content : Contents \cup {Nobody}, stamp : Nat]]
      /\ running' \in BOOLEAN /\ db' \in [Files -> Store!Rows \cup {Nobody}]
      /\ \A k \in Jobs \ {j} : job[k].pc # "save"
      /\ \A k \in Jobs : k # Nobody
      /\ TellsInv => IndexTells(index) /\ \A p \in Files : RowTells(p)'
  BY <1>1, StoreNames DEF StoreInv, Store!TypeOK, TellsInv, RowTells, Own
<1>4. Touches(b, r.idx) /\ Knows(b, r.e) /\ r.hit \in BOOLEAN
  BY <1>1, OutcomeIs
<1>5. PICK ok \in BOOLEAN : /\ Store!Goes(j, Store!After(b, ok, r))
                            /\ index' = r.idx \/ index' = index
  BY DEF Store!Save
<1> DEFINE x == Store!After(b, ok, r)
<1>6. Store!Goes(j, x)
  BY <1>5
<1> HIDE DEF r
<1>7. r.e \in Store!Entries /\ Answers(b, x) /\ x.e.of \in {Nobody, b.e.of, r.e.of}
  BY <1>2, <1>4, AfterIs, SMTT(60) DEF Knows
<1> HIDE DEF x
<1>8. TellsInv => Own(r.e.of, file[b.at].content) /\ (b.op = "upsert" => Own(b.e.of, b.fp))
  BY <1>1, <1>2, <1>3, <1>4 DEF Knows, Own, IndexTells, Tells
<1>9. index' \in Seq(Store!Records) /\ (TellsInv => IndexTells(index'))
  BY <1>2, <1>3, <1>4, <1>5, <1>8, TouchedIs
<1>10. Sound(x) /\ x.pc # "save" /\ (TellsInv => Tells(x))
  BY <1>1, <1>2, <1>3, <1>7, <1>8, AnswersSound DEF Own
<1> QED
  BY <1>1, <1>3, <1>6, <1>9, <1>10, CommandMoves

-----------------------------------------------------------------------------
\* What is read of the file: by the transcoder, at its side, or by ffprobe.
LEMMA SidecarIs ==
  ASSUME StoreInv, NEW p \in Files, NEW s, s = sidecar[p], s # Nobody
  PROVE  /\ s \in Store!Sidecars /\ Store!FromSidecar(s) \in Store!Entries
         /\ TellsInv => Own(Store!FromSidecar(s).of, file[p].content)
<1>1. s \in Store!Sidecars
  BY DEF StoreInv, Store!TypeOK
<1>2. Store!FromSidecar(s) \in Store!Entries /\ Store!FromSidecar(s).of = s.of
  BY <1>1 DEF Store!Sidecars, Store!Entries, Store!FromSidecar, Store!AnyTrim
<1> QED
  BY <1>1, <1>2 DEF TellsInv, Own

LEMMA NamedIs ==
  ASSUME NEW e \in Store!Entries, NEW s \in Store!Sidecars
  PROVE  Store!Named(e, s) \in Store!Entries /\ Store!Named(e, s).of = e.of
BY DEF Store!Named, Store!Entries, Store!Sidecars

LEMMA DescribesIs ==
  ASSUME NEW b \in Store!Commands, NEW e \in Store!Entries
  PROVE  LET x == Store!Describes(b, e)
         IN  x \in Store!Commands /\ Keeps(b, x) /\ Asks(x) /\ x.e = e
<1> DEFINE x == Store!Describes(b, e)
<1>1. CASE b.kind = "verify"
  <2>1. x = [b EXCEPT !.pc = "put", !.e = e]
    BY <1>1 DEF Store!Describes
  <2> HIDE DEF x
  <2> QED
    BY <2>1, ZenonT(60) DEF x, Store!Commands, Store!Steps, Keeps, Asks, Out
<1>2. CASE b.kind # "verify"
  <2>1. x = [b EXCEPT !.pc = "fp", !.op = "upsert", !.e = e]
    BY <1>2 DEF Store!Describes
  <2> HIDE DEF x
  <2> QED
    BY <2>1, ZenonT(60) DEF x, Store!Commands, Store!Steps, Store!Operations, Keeps, Asks,
         Out
<1> QED
  BY <1>1, <1>2

LEMMA ReadSidecarKept ==
  ASSUME StoreInv, NEW j \in Jobs, Store!ReadSidecar(j) PROVE StoreInv' /\ (TellsInv => TellsInv')
<1> DEFINE b == job[j]
           p == b.at
           s == sidecar[p]
           asks == [b EXCEPT !.pc = "load", !.op = "enrich", !.side = s]
<1>1. b.pc = "side" /\ b.pc \in AtWork \ {"save"} /\ UNCHANGED <<file, sidecar, index, lock, db, running>>
  BY DEF Store!ReadSidecar, AtWork
<1>2. /\ b \in Store!Commands /\ Sound(b) /\ p \in Files /\ p # Nobody /\ b.e \in Store!Entries
      /\ TellsInv => Own(b.e.of, file[p].content)
  BY <1>1, AtIs
<1>3. /\ s \in Store!Sidecars \cup {Nobody}
      /\ s # Nobody => /\ s \in Store!Sidecars /\ Store!FromSidecar(s) \in Store!Entries
                       /\ TellsInv => Own(Store!FromSidecar(s).of, file[p].content)
  BY <1>2, SidecarIs
<1> HIDE DEF s
<1>4. asks \in Store!Commands /\ Keeps(b, asks) /\ Asks(asks) /\ asks.e = b.e
  BY <1>2, <1>3, ZenonT(60) DEF Store!Commands, Store!Steps, Store!Operations, Keeps, Asks
<1>5. CASE Store!Goes(j, [b EXCEPT !.pc = "ffprobe"])
  <2> DEFINE x == [b EXCEPT !.pc = "ffprobe"]
  <2>1. x \in Store!Commands /\ Keeps(b, x) /\ Asks(x) /\ x.e = b.e
    BY <1>2 DEF Store!Commands, Store!Steps, Keeps, Asks
  <2>2. Store!Goes(j, x)
    BY <1>5
  <2> HIDE DEF x
  <2> QED
    BY <1>1, <1>2, <2>1, <2>2, GoesOnLooking
<1>6. CASE s # Nobody /\ Store!Goes(j, Store!Describes(b, Store!FromSidecar(s)))
  <2> DEFINE x == Store!Describes(b, Store!FromSidecar(s))
  <2>1. x \in Store!Commands /\ Keeps(b, x) /\ Asks(x) /\ x.e = Store!FromSidecar(s)
    BY <1>2, <1>3, <1>6, DescribesIs
  <2>2. Store!Goes(j, x)
    BY <1>6
  <2> HIDE DEF x
  <2> QED
    BY <1>1, <1>3, <1>6, <2>1, <2>2, GoesOnLooking
<1>7. CASE Store!Goes(j, asks)
  <2> HIDE DEF asks
  <2> QED
    BY <1>1, <1>2, <1>4, <1>7, GoesOnLooking
<1>8. CASE /\ s # Nobody
           /\ Store!Goes(j, [asks EXCEPT !.dirty = TRUE,
                                         !.e = IF b.e.of = Nobody THEN Store!FromSidecar(s)
                                               ELSE Store!Named(b.e, s)])
  <2> DEFINE e == IF b.e.of = Nobody THEN Store!FromSidecar(s) ELSE Store!Named(b.e, s)
             x == [asks EXCEPT !.dirty = TRUE, !.e = e]
  <2>1. e \in Store!Entries /\ (TellsInv => Own(e.of, file[p].content))
    BY <1>2, <1>3, <1>8, NamedIs
  <2>2. Store!Goes(j, x)
    BY <1>8
  <2> HIDE DEF e, asks
  <2>3. x \in Store!Commands /\ Keeps(b, x) /\ Asks(x) /\ x.e = e
    BY <1>4, <2>1 DEF Store!Commands, Keeps, Asks
  <2> HIDE DEF x
  <2> QED
    BY <1>1, <2>1, <2>2, <2>3, GoesOnLooking
<1> HIDE DEF asks
<1> QED
  BY <1>5, <1>6, <1>7, <1>8 DEF Store!ReadSidecar, asks, s

LEMMA FfprobeKept ==
  ASSUME StoreInv, NEW j \in Jobs, Store!Ffprobe(j) PROVE StoreInv' /\ (TellsInv => TellsInv')
<1> DEFINE b == job[j]
           e == [Store!Blank EXCEPT !.of = file[b.at].content]
           x == Store!Describes(b, e)
<1>1. /\ b.pc = "ffprobe" /\ b.pc \in AtWork \ {"save"} /\ b.pc \in AtWork
      /\ UNCHANGED <<file, sidecar, index, lock, db, running>>
  BY DEF Store!Ffprobe, AtWork
<1>2. /\ b \in Store!Commands /\ Sound(b) /\ file[b.at].content \in Contents /\ (TellsInv => Tells(b))
      /\ running' \in BOOLEAN
  BY <1>1, AtIs DEF StoreInv, Store!TypeOK
<1>3. e \in Store!Entries /\ e.of = file[b.at].content
  BY <1>2, IdleIs DEF Store!Entries, Store!Blank
<1>4. Store!Goes(j, x) \/ Store!Goes(j, Store!Done(b))
  BY DEF Store!Ffprobe
<1> HIDE DEF e
<1>5. x \in Store!Commands /\ Keeps(b, x) /\ Asks(x) /\ x.e = e
  BY <1>2, <1>3, DescribesIs
<1> HIDE DEF x
<1>6. CASE Store!Goes(j, x)
  BY <1>1, <1>3, <1>5, <1>6, GoesOnLooking DEF Own
<1>7. CASE Store!Goes(j, Store!Done(b))
  BY <1>1, <1>2, <1>7, DoneIs, Looks
<1> QED
  BY <1>4, <1>6, <1>7

\* The trim of the sidecar is the file's, and so is its name.
LEMMA RefreshKept ==
  ASSUME StoreInv, NEW j \in Jobs, Store!Refresh(j) PROVE StoreInv' /\ (TellsInv => TellsInv')
<1> DEFINE b == job[j]
           s == IF b.kind = "scan" THEN b.side ELSE sidecar[b.at]
           e == IF s = Nobody THEN b.e ELSE Store!Named(b.e, s)
<1>1. /\ b.pc = "refresh" /\ b.pc \in AtWork \ {"save"} /\ b.pc \in AtWork
      /\ UNCHANGED <<file, sidecar, index, lock, db, running>>
  BY DEF Store!Refresh, AtWork
<1>2. /\ b \in Store!Commands /\ Sound(b) /\ b.at \in Files /\ b.e \in Store!Entries
      /\ TellsInv => Tells(b) /\ Own(b.e.of, file[b.at].content)
  BY <1>1, AtIs
<1>3. s \in Store!Sidecars \cup {Nobody} /\ running' \in BOOLEAN
  BY <1>1, <1>2, SMTT(60) DEF Store!Commands, StoreInv, Store!TypeOK
<1>4. /\ \/ /\ Store!Refreshes(e, s)
            /\ Store!Goes(j, [b EXCEPT !.pc = "load", !.op = "profile", !.dirty = TRUE,
                                       !.e = [e EXCEPT !.trim = s.trim]])
         \/ Store!Goes(j, [b EXCEPT !.pc = "batch"])
         \/ Store!Goes(j, Store!Done(b))
         \/ Store!Goes(j, [b EXCEPT !.pc = "put", !.then = "end", !.e = e])
  BY DEF Store!Refresh
<1> HIDE DEF s
<1>5. e \in Store!Entries /\ e.of = b.e.of
  BY <1>2, <1>3, NamedIs
<1> HIDE DEF e
<1>6. CASE /\ Store!Refreshes(e, s)
           /\ Store!Goes(j, [b EXCEPT !.pc = "load", !.op = "profile", !.dirty = TRUE,
                                      !.e = [e EXCEPT !.trim = s.trim]])
  <2> DEFINE d == [e EXCEPT !.trim = s.trim]
             x == [b EXCEPT !.pc = "load", !.op = "profile", !.dirty = TRUE, !.e = d]
  <2>1. s \in Store!Sidecars
    BY <1>3, <1>6 DEF Store!Refreshes
  <2>2. d \in Store!Entries /\ d.of = e.of
    BY <1>5, <2>1 DEF Store!Entries, Store!Sidecars, Store!AnyTrim
  <2>3. Store!Goes(j, x)
    BY <1>6
  <2> HIDE DEF d
  <2>4. x \in Store!Commands /\ Keeps(b, x) /\ Asks(x) /\ x.e = d
    BY <1>2, <2>2, ZenonT(60) DEF Store!Commands, Store!Steps, Store!Operations, Keeps, Asks
  <2> HIDE DEF x
  <2> QED
    BY <1>1, <1>2, <1>5, <2>2, <2>3, <2>4, GoesOnLooking
<1>7. CASE Store!Goes(j, [b EXCEPT !.pc = "batch"])
  <2> DEFINE x == [b EXCEPT !.pc = "batch"]
  <2>1. x \in Store!Commands /\ Keeps(b, x) /\ Asks(x) /\ x.e = b.e
    BY <1>2 DEF Store!Commands, Store!Steps, Keeps, Asks, Out
  <2>2. Store!Goes(j, x)
    BY <1>7
  <2> HIDE DEF x
  <2> QED
    BY <1>1, <1>2, <2>1, <2>2, GoesOnLooking
<1>8. CASE Store!Goes(j, Store!Done(b))
  BY <1>1, <1>2, <1>3, <1>8, DoneIs, Looks
<1>9. CASE Store!Goes(j, [b EXCEPT !.pc = "put", !.then = "end", !.e = e])
  <2> DEFINE x == [b EXCEPT !.pc = "put", !.then = "end", !.e = e]
  <2>1. x \in Store!Commands /\ Keeps(b, x) /\ Asks(x) /\ x.e = e
    BY <1>2, <1>5 DEF Store!Commands, Store!Steps, Keeps, Asks, Out
  <2>2. Store!Goes(j, x)
    BY <1>9
  <2> HIDE DEF x
  <2> QED
    BY <1>1, <1>2, <1>5, <2>1, <2>2, GoesOnLooking
<1> QED
  BY <1>4, <1>6, <1>7, <1>8, <1>9

-----------------------------------------------------------------------------
\* A row is stamped with the file there is.
LEMMA StampedIs ==
  ASSUME StoreInv, NEW p \in Files, NEW e \in Store!Entries
  PROVE  /\ Store!Stamped(p, e) \in Store!Rows /\ Store!Stamped(p, e).of = e.of
         /\ Store!Stamped(p, e).ident = file[p].stamp /\ file[p].stamp \in Nat
<1>1. file[p].stamp \in Nat
  BY DEF StoreInv, Store!TypeOK
<1> QED
  BY <1>1 DEF Store!Stamped, Store!Rows, Store!Entries

LEMMA PutKept ==
  ASSUME StoreInv, NEW j \in Jobs, Store!Put(j) PROVE StoreInv' /\ (TellsInv => TellsInv')
<1> DEFINE b == job[j]
           p == b.at
           x == IF b.then = "refresh" THEN [b EXCEPT !.pc = "refresh"] ELSE Store!Done(b)
<1>1. /\ b.pc = "put" /\ b.pc \in AtWork /\ UNCHANGED <<file, sidecar, index, lock, running>>
      /\ db' = [db EXCEPT ![p] = Store!Stamped(p, b.e)] /\ Store!Goes(j, x)
  BY DEF Store!Put, AtWork
<1>2. /\ b \in Store!Commands /\ Sound(b) /\ p \in Files /\ p # Nobody /\ b.e \in Store!Entries
      /\ running' \in BOOLEAN /\ db \in [Files -> Store!Rows \cup {Nobody}]
      /\ TellsInv => Tells(b) /\ Own(b.e.of, file[p].content)
  BY <1>1, AtIs DEF StoreInv, Store!TypeOK
<1> DEFINE w == Store!Stamped(p, b.e)
<1>3. w \in Store!Rows /\ w.of = b.e.of /\ w.ident = file[p].stamp /\ file[p].stamp \in Nat
  BY <1>2, StampedIs
<1>4. db' = [db EXCEPT ![p] = w]
  BY <1>1
<1> HIDE DEF w
<1>5. db' \in [Files -> Store!Rows \cup {Nobody}]
  BY <1>2, <1>3, <1>4, SMTT(60)
<1>6. TellsInv => \A q \in Files : RowTells(q)'
  BY <1>1, <1>2, <1>3, <1>4 DEF TellsInv, RowTells, Own
<1>7. Sound(x) /\ x.pc # "save" /\ (TellsInv => Tells(x))
  <2>1. CASE b.then = "refresh"
    <3> DEFINE y == [b EXCEPT !.pc = "refresh"]
    <3>1. y \in Store!Commands /\ Keeps(b, y) /\ Asks(y) /\ y.e = b.e
      BY <1>2 DEF Store!Commands, Store!Steps, Keeps, Asks, Out
    <3>2. x = y
      BY <2>1
    <3> HIDE DEF y
    <3> QED
      BY <1>1, <1>2, <3>1, <3>2, AsksSound
  <2>2. CASE b.then # "refresh"
    BY <1>2, <2>2, DoneIs
  <2> QED
    BY <2>1, <2>2
<1>8. Store!Goes(j, x) /\ b.pc # "save"
  BY <1>1
<1> HIDE DEF x
<1> QED
  BY <1>1, <1>2, <1>5, <1>6, <1>7, <1>8, Moves

LEMMA BatchKept ==
  ASSUME StoreInv, NEW j \in Jobs, Store!Batch(j) PROVE StoreInv' /\ (TellsInv => TellsInv')
<1> DEFINE b == job[j]
           a == IF b.dirty THEN b.batch \cup {[path |-> b.at, e |-> b.e]} ELSE b.batch
           y == [b EXCEPT !.batch = a]
<1>1. /\ b.pc = "batch" /\ b.pc \in AtWork /\ UNCHANGED <<file, sidecar, index, lock, db, running>>
      /\ Store!Goes(j, Store!Done(y))
  BY DEF Store!Batch, AtWork
<1>2. /\ b \in Store!Commands /\ Sound(b) /\ b.at \in Files /\ b.e \in Store!Entries
      /\ running' \in BOOLEAN
      /\ TellsInv => Tells(b) /\ Own(b.e.of, file[b.at].content)
  BY <1>1, AtIs DEF StoreInv, Store!TypeOK
<1>3. /\ a \in SUBSET [path : Files, e : Store!Entries]
      /\ Tells(b) /\ Own(b.e.of, file[b.at].content) => \A z \in a : Own(z.e.of, file[z.path].content)
  BY <1>2 DEF Store!Commands, Tells
<1> HIDE DEF a
<1>4. /\ y \in Store!Commands /\ y.batch = a /\ y.pc = b.pc /\ y.at = b.at /\ y.todo = b.todo
      /\ y.kind = b.kind /\ y.op = b.op /\ y.fp = b.fp /\ y.e = b.e
  BY <1>2, <1>3 DEF Store!Commands
<1> HIDE DEF y
<1>5. Sound(y)
  BY <1>2, <1>4 DEF Sound
<1>6. CASE b.kind \in {"scan", "warm"}
  <2>1. TellsInv => Tells(y)
    BY <1>1, <1>2, <1>3, <1>4, <1>6 DEF Tells
  <2> QED
    BY <1>1, <1>2, <1>5, <2>1, DoneIs, Looks
<1>7. CASE b.kind \notin {"scan", "warm"}
  <2>1. Store!Done(y) = Store!Idle
    BY <1>4, <1>7 DEF Store!Done
  <2> QED
    BY <1>1, <1>2, <2>1, IdleSound, Looks
<1> QED
  BY <1>6, <1>7

\* The rows of a directory are each of the file they are stored for.
LEMMA CommitKept ==
  ASSUME StoreInv, NEW j \in Jobs, Store!Commit(j) PROVE StoreInv' /\ (TellsInv => TellsInv')
<1> DEFINE b == job[j]
<1>1. /\ b.pc = "commit" /\ b.pc # "save" /\ UNCHANGED <<file, sidecar, index, lock, running>>
      /\ db' = Store!Batched(b.batch) \/ db' = db
      /\ Store!Goes(j, Store!Idle)
  BY SMTT(60) DEF Store!Commit
<1>2. /\ b.batch \in SUBSET [path : Files, e : Store!Entries] /\ running' \in BOOLEAN
      /\ db \in [Files -> Store!Rows \cup {Nobody}]
      /\ TellsInv => \A z \in b.batch : Own(z.e.of, file[z.path].content)
  BY <1>1 DEF StoreInv, Sound, Store!Commands, Store!TypeOK, TellsInv, Tells
<1>3. CASE db' = db
  <2>1. db' \in [Files -> Store!Rows \cup {Nobody}] /\ (TellsInv => \A p \in Files : RowTells(p)')
    BY <1>1, <1>2, <1>3 DEF TellsInv, RowTells, Own
  <2> QED
    BY <1>1, <1>2, <2>1, IdleSound, Moves, SMTT(60)
<1>4. CASE db' = Store!Batched(b.batch)
  <2> DEFINE has(p) == \E z \in b.batch : z.path = p
             one(p) == CHOOSE z \in b.batch : z.path = p
  <2>1. db' = [p \in Files |-> IF has(p) THEN Store!Stamped(p, one(p).e) ELSE db[p]]
    BY <1>4 DEF Store!Batched
  <2>2. ASSUME NEW p \in Files, has(p)
        PROVE  one(p) \in b.batch /\ one(p).path = p /\ one(p).e \in Store!Entries
    BY <1>2, <2>2
  <2> HIDE DEF has, one
  <2>3. ASSUME NEW p \in Files
        PROVE  /\ db'[p] \in Store!Rows \cup {Nobody}
               /\ TellsInv => RowTells(p)'
    <3>1. CASE has(p)
      <4>1. db'[p] = Store!Stamped(p, one(p).e)
        BY <2>1, <3>1
      <4>2. db'[p] \in Store!Rows /\ db'[p].of = one(p).e.of /\ db'[p].ident = file[p].stamp /\ file[p].stamp \in Nat
        BY <2>2, <3>1, <4>1, StampedIs
      <4>3. TellsInv => Own(one(p).e.of, file[p].content)
        BY <1>2, <2>2, <3>1
      <4> QED
        BY <1>1, <4>2, <4>3 DEF RowTells, Own
    <3>2. CASE ~has(p)
      <4>1. db'[p] = db[p]
        BY <2>1, <3>2
      <4> QED
        BY <1>1, <1>2, <4>1 DEF TellsInv, RowTells, Own
    <3> QED
      BY <3>1, <3>2
  <2>4. db' \in [Files -> Store!Rows \cup {Nobody}]
    BY <2>1, <2>3
  <2> QED
    BY <1>1, <1>2, <2>3, <2>4, IdleSound, Moves
<1> QED
  BY <1>1, <1>3, <1>4

LEMMA WorksKept ==
  ASSUME StoreInv, NEW j \in Jobs, Store!Works(j) PROVE StoreInv' /\ (TellsInv => TellsInv')
BY ArmKept, ListKept, NextFileKept, FinishKept, SkipKept, LookUpKept, FingerprintKept, LoadKept, SaveKept,
   ReadSidecarKept, FfprobeKept, RefreshKept, PutKept, BatchKept, CommitKept DEF Store!Works

\* PlayOut dies, and what is on the disks stays as it was.
LEMMA CrashKept ==
  ASSUME StoreInv, Store!Crash PROVE StoreInv' /\ (TellsInv => TellsInv')
<1>1. /\ UNCHANGED <<file, sidecar, index, db>> /\ lock' = Nobody /\ running' = FALSE
      /\ job' = [k \in Jobs |-> Store!Idle]
  BY DEF Store!Crash
<1>2. \A b : (Sound(b) <=> Sound(b)') /\ (Tells(b) <=> Tells(b)')
  BY <1>1 DEF Sound, Tells, Own, Store!Present
<1>3. Store!TypeOK'
  BY <1>1, IdleIs, IdleSound, StoreNames DEF StoreInv, Store!TypeOK
<1>4. StoreInv'
  BY <1>1, <1>2, <1>3, IdleSound DEF StoreInv
<1>5. ASSUME TellsInv PROVE TellsInv'
  <2>1. \A k \in Jobs : Tells(job[k])'
    BY <1>1, <1>2, IdleSound
  <2>2. /\ IndexTells(index)' /\ \A p \in Files : RowTells(p)'
        /\ \A p \in Files : sidecar'[p] # Nobody => sidecar'[p].of = file'[p].content
    BY <1>1, <1>5 DEF TellsInv, IndexTells, RowTells, Own
  <2> QED
    BY <1>4, <2>1, <2>2 DEF TellsInv
<1> QED
  BY <1>4, <1>5

-----------------------------------------------------------------------------
\* A file that no command works on may be replaced.
LEMMA CopyKept ==
  ASSUME StoreInv, NEW p \in Files, NEW c \in Contents, Store!Copy(p, c)
  PROVE  StoreInv' /\ ("midcopy" \notin Windows /\ "sidecar" \notin Windows /\ TellsInv => TellsInv')
<1>1. /\ file \in [Files -> [content : Contents \cup {Nobody}, stamp : Nat]]
      /\ file' = [file EXCEPT ![p] = [content |-> c, stamp |-> @.stamp + 1]]
      /\ sidecar \in [Files -> Store!Sidecars \cup {Nobody}]
      /\ UNCHANGED <<index, lock, db, job, running>> /\ c # Nobody
  BY StoreNames DEF Store!Copy, StoreInv, Store!TypeOK
<1>2. /\ file'[p].content = c /\ file'[p].stamp = file[p].stamp + 1 /\ file[p].stamp \in Nat
      /\ \A q \in Files \ {p} : file'[q] = file[q]
      /\ file' \in [Files -> [content : Contents \cup {Nobody}, stamp : Nat]]
  BY <1>1
<1>3. sidecar' = sidecar \/ sidecar' = [sidecar EXCEPT ![p] = Nobody]
  BY DEF Store!Copy
<1>4. StoreInv'
  <2>1. sidecar' \in [Files -> Store!Sidecars \cup {Nobody}]
    BY <1>1, <1>3
  <2>2. Store!TypeOK'
    BY <1>1, <1>2, <2>1 DEF StoreInv, Store!TypeOK
  <2>3. \A q \in Files : Store!Present(q) => Store!Present(q)'
    BY <1>1, <1>2 DEF Store!Present
  <2>4. ASSUME NEW k \in Jobs PROVE Sound(job[k])'
    <3>1. Sound(job[k]) /\ job[k].todo \subseteq Files
      BY DEF StoreInv, Sound, Store!Commands
    <3> QED
      BY <1>1, <2>3, <3>1 DEF Sound
  <2> QED
    BY <1>1, <2>2, <2>4 DEF StoreInv
<1>5. ASSUME "midcopy" \notin Windows, "sidecar" \notin Windows, TellsInv PROVE TellsInv'
  <2>1. \A k \in Jobs : job[k].kind \notin {"scan", "warm"} /\ job[k].at # p
    BY <1>5 DEF Store!Copy, Store!Busy
  <2>2. ASSUME NEW k \in Jobs PROVE Tells(job[k])'
    <3>1. Tells(job[k]) /\ job[k].batch = {} /\ job[k].todo = {} /\ job[k].at # p
      BY <1>5, <2>1, SMTT(60) DEF TellsInv, Tells
    <3>2. Sound(job[k]) /\ job[k].at \in Files \cup {Nobody}
      BY DEF StoreInv, Sound, Store!Commands
    <3> QED
      BY <1>1, <1>2, <3>1, <3>2, SMTT(60) DEF Tells, Own, Sound, AtWork
  <2>3. \A q \in Files : RowTells(q)'
    <3>1. \A q \in Files : db[q] # Nobody => db[q] \in Store!Rows
      BY DEF StoreInv, Store!TypeOK
    <3>2. RowTells(p)'
      <4>1. db[p] # Nobody => db[p].ident <= file[p].stamp /\ db[p].ident \in Nat
        BY <1>5, <3>1 DEF TellsInv, RowTells, Store!Rows
      <4> QED
        BY <1>1, <1>2, <4>1 DEF RowTells
    <3>3. ASSUME NEW q \in Files \ {p} PROVE RowTells(q)'
      BY <1>1, <1>2, <1>5 DEF TellsInv, RowTells, Own
    <3> QED
      BY <3>2, <3>3
  <2>4. \A q \in Files : sidecar'[q] # Nobody => sidecar'[q].of = file'[q].content
    <3>1. CASE c = file[p].content
      <4>1. sidecar' = sidecar
        BY <3>1 DEF Store!Copy
      <4> QED
        BY <1>2, <1>5, <3>1, <4>1 DEF TellsInv
    <3>2. CASE c # file[p].content
      <4>1. sidecar' = [sidecar EXCEPT ![p] = Nobody]
        BY <1>5, <3>2 DEF Store!Copy
      <4> QED
        BY <1>1, <1>2, <1>5, <4>1 DEF TellsInv
    <3> QED
      BY <3>1, <3>2
  <2>5. IndexTells(index)'
    BY <1>1, <1>5 DEF TellsInv, IndexTells, Own
  <2> QED
    BY <1>4, <2>2, <2>3, <2>4, <2>5 DEF TellsInv
<1> QED
  BY <1>4, <1>5

LEMMA WriteSidecarKept ==
  ASSUME StoreInv, NEW p \in Files, NEW t \in SidecarTrims, Store!WriteSidecar(p, t)
  PROVE  StoreInv' /\ (TellsInv => TellsInv')
<1> DEFINE s == [of |-> file[p].content, id |-> Store!Asset(p), trim |-> t]
<1>1. /\ UNCHANGED <<file, index, lock, db, job, running>> /\ Store!Present(p)
      /\ sidecar \in [Files -> Store!Sidecars \cup {Nobody}]
      /\ sidecar' = [sidecar EXCEPT ![p] = s]
  BY DEF Store!WriteSidecar, StoreInv, Store!TypeOK
<1>2. s \in Store!Sidecars /\ s.of = file[p].content
  <2>1. file[p].content \in Contents /\ Store!Asset(p) \in Store!Ids
    BY <1>1, PresentIs DEF Store!Ids
  <2> QED
    BY <2>1 DEF Store!Sidecars
<1> HIDE DEF s
<1>3. \A b : (Sound(b) <=> Sound(b)') /\ (Tells(b) <=> Tells(b)')
  BY <1>1 DEF Sound, Tells, Own, Store!Present
<1>4. StoreInv'
  <2>1. Store!TypeOK'
    BY <1>1, <1>2 DEF StoreInv, Store!TypeOK
  <2> QED
    BY <1>1, <1>3, <2>1 DEF StoreInv
<1>5. ASSUME TellsInv PROVE TellsInv'
  <2>1. \A k \in Jobs : Tells(job[k])'
    BY <1>1, <1>3, <1>5 DEF TellsInv
  <2>2. \A q \in Files : RowTells(q)' /\ (sidecar'[q] # Nobody => sidecar'[q].of = file'[q].content)
    BY <1>1, <1>2, <1>5 DEF TellsInv, RowTells, Own
  <2>3. IndexTells(index)'
    BY <1>1, <1>5 DEF TellsInv, IndexTells, Own
  <2> QED
    BY <1>4, <2>1, <2>2, <2>3 DEF TellsInv
<1> QED
  BY <1>4, <1>5

LEMMA StoreStays ==
  ASSUME UNCHANGED storeVars, StoreInv PROVE StoreInv' /\ (TellsInv => TellsInv')
<1>1. \A b : (Sound(b) <=> Sound(b)') /\ (Tells(b) <=> Tells(b)')
  BY DEF storeVars, Sound, Tells, Own, Store!Present
<1>2. StoreInv'
  BY <1>1 DEF storeVars, StoreInv, Store!TypeOK
<1>3. TellsInv => TellsInv'
  BY <1>1, <1>2 DEF storeVars, TellsInv, IndexTells, RowTells, Own
<1> QED
  BY <1>2, <1>3

LEMMA StoreKept ==
  ASSUME StoreInv, Store!Next
  PROVE  StoreInv' /\ ("midcopy" \notin Windows /\ "sidecar" \notin Windows /\ TellsInv => TellsInv')
BY CopyKept, WriteSidecarKept, CommandsStart, WorksKept, CrashKept DEF Store!Next

\* At first the index has one record of each content, under its fingerprint.
LEMMA StoreStarts == ASSUME Store!Init PROVE StoreInv /\ TellsInv
<1> DEFINE R == Store!Range(Stored)
           rec(c) == [fp |-> c, id |-> Store!Generated(c), of |-> c, trim |-> 0,
                      aliases |-> {p \in Files : Stored[p] = c}]
           S == {rec(c) : c \in R \ {Nobody}}
<1>1. R \subseteq Contents \cup {Nobody} /\ IsFiniteSet(R)
  <2>1. Stored \in [Files -> R] /\ R \subseteq Contents \cup {Nobody} /\ \A c \in R : \E p \in Files : Stored[p] = c
    BY StoreNames DEF Store!Range
  <2> HIDE DEF R
  <2>2. Stored \in Surjection(Files, R)
    BY <2>1 DEF Surjection
  <2> QED
    BY <2>1, <2>2, StoreNames, FS_Surjection
<1> HIDE DEF R
<1>2. \A c \in R \ {Nobody} : rec(c) \in Store!Records /\ rec(c).of = rec(c).fp
  BY <1>1, GeneratedIsAnId DEF Store!Records, Store!AnyTrim
<1>3. index \in Store!SetToSeqs(S)
  BY DEF Store!Init, R
<1> HIDE DEF rec
<1>4. IsFiniteSet(S) /\ \A r \in S : r \in Store!Records /\ r.of = r.fp
  <2>1. IsFiniteSet(R \ {Nobody})
    BY <1>1, FS_Subset
  <2> DEFINE g == [c \in R \ {Nobody} |-> rec(c)]
  <2>2. g \in Surjection(R \ {Nobody}, S)
    BY DEF Surjection
  <2> QED
    BY <1>2, <2>1, <2>2, FS_Surjection
<1> HIDE DEF S
<1>5. index \in [1..Cardinality(S) -> S] /\ Cardinality(S) \in Nat
  <2>1. Store!Cardinality(S) = Cardinality(S)
    BY Zenon DEF Store!Cardinality, Cardinality
  <2>2. Cardinality(S) \in Nat
    BY <1>4, FS_CardinalityType
  <2> QED
    BY <1>3, <2>1, <2>2 DEF Store!SetToSeqs
<1>6. index \in Seq(Store!Records) /\ IndexTells(index)
  <2>1. index \in Seq(S)
    BY <1>5, SeqDef
  <2>2. index \in Seq(Store!Records)
    BY <1>4, <2>1
  <2>3. \A i \in DOMAIN index : index[i] \in S
    BY <1>5
  <2> QED
    BY <1>4, <2>2, <2>3 DEF IndexTells, Own
<1>7. /\ file = [p \in Files |-> [content |-> Stored[p], stamp |-> 0]]
      /\ sidecar = [p \in Files |-> Nobody] /\ lock = Nobody /\ running = FALSE
      /\ db = [p \in Files |-> IF Stored[p] = Nobody THEN Nobody ELSE
                [of |-> Stored[p], id |-> Store!Generated(Stored[p]), trim |-> 0, ident |-> 0]]
      /\ job = [j \in Jobs |-> Store!Idle]
  BY DEF Store!Init
<1>8. /\ file \in [Files -> [content : Contents \cup {Nobody}, stamp : Nat]]
      /\ db \in [Files -> Store!Rows \cup {Nobody}]
      /\ \A p \in Files : RowTells(p)
  <2>1. file \in [Files -> [content : Contents \cup {Nobody}, stamp : Nat]]
    BY <1>7, StoreNames
  <2>2. ASSUME NEW p \in Files PROVE db[p] \in Store!Rows \cup {Nobody} /\ RowTells(p)
    <3>1. CASE Stored[p] = Nobody
      BY <1>7, <3>1 DEF RowTells
    <3>2. CASE Stored[p] # Nobody
      <4>1. Stored[p] \in Contents /\ Store!Generated(Stored[p]) \in Store!Ids
        BY <3>2, StoreNames, GeneratedIsAnId
      <4>2. db[p] = [of |-> Stored[p], id |-> Store!Generated(Stored[p]), trim |-> 0, ident |-> 0]
        BY <1>7, <3>2
      <4>3. db[p] \in Store!Rows
        BY <4>1, <4>2 DEF Store!Rows, Store!AnyTrim
      <4> QED
        BY <1>7, <4>2, <4>3 DEF RowTells, Own
    <3> QED
      BY <3>1, <3>2
  <2> QED
    BY <1>7, <2>1, <2>2
<1>9. \A j \in Jobs : job[j] = Store!Idle
  BY <1>7
<1>10. Store!TypeOK
  BY <1>6, <1>7, <1>8, <1>9, IdleIs, IdleSound, StoreNames DEF Store!TypeOK
<1>11. StoreInv
  BY <1>9, <1>10, IdleSound DEF StoreInv
<1> QED
  BY <1>6, <1>7, <1>8, <1>9, <1>11, IdleSound DEF TellsInv

\* A save of what was loaded, while it is still what is stored, loses nothing.
LEMMA TouchedKeeps ==
  ASSUME NEW b, b.idx = index, index \in Seq(Store!Records), Touches(b, index'),
         b.op = "profile" /\ b.e.trim = 0 => Store!Saved(0)
  PROVE  Store!Kept
<1>0. Len(index) \in Nat /\ DOMAIN index = 1..Len(index)
  OBVIOUS
<1>1. CASE index' = index
  BY <1>0, <1>1 DEF Store!Kept
<1>2. ASSUME NEW r \in Store!Records, index' = Append(index, r) PROVE Store!Kept
  <2>1. Len(index') = Len(index) + 1 /\ \A i \in DOMAIN index : index'[i] = index[i]
    BY <1>0, <1>2, AppendProperties
  <2> QED
    BY <1>0, <2>1 DEF Store!Kept
<1>3. ASSUME NEW i \in DOMAIN index, NEW r \in Store!Records, index' = [index EXCEPT ![i] = r],
             index[i].trim # 0 /\ r.trim = 0 => Store!Saved(0)
      PROVE  Store!Kept
  <2>1. Len(index') = Len(index) /\ index'[i] = r /\ \A k \in DOMAIN index \ {i} : index'[k] = index[k]
    BY <1>3, ExceptSeq
  <2> QED
    BY <1>0, <1>3, <2>1 DEF Store!Kept
<1> QED
  BY <1>1, <1>2, <1>3 DEF Touches

LEMMA NothingIsLost == ASSUME StoreInv, Store!Next \/ UNCHANGED storeVars PROVE Store!Kept
<1>0. index \in Seq(Store!Records)
  BY DEF StoreInv, Store!TypeOK
<1>1. ASSUME index' = index PROVE Store!Kept
  BY <1>0, <1>1 DEF Store!Kept
<1>2. ASSUME NEW j \in Jobs, Store!Save(j) PROVE Store!Kept
  <2>1. /\ job[j].pc = "save" /\ job[j].idx = index
        /\ index' = Store!Outcome(job[j]).idx \/ index' = index
    BY <1>2 DEF Store!Save, StoreInv
  <2>2. Touches(job[j], index') \/ index' = index
    BY <2>1, OutcomeIs
  <2>3. job[j].op = "profile" /\ job[j].e.trim = 0 => Store!Saved(0)
    BY <2>1 DEF Store!Saved
  <2> QED
    BY <1>0, <1>1, <2>1, <2>2, <2>3, TouchedKeeps
<1>3. ASSUME NEW j \in Jobs, Store!Works(j) PROVE index' = index \/ Store!Save(j)
  BY <1>3, ZenonT(60) DEF Store!Works, Store!Arm, Store!List, Store!NextFile, Store!Finish,
       Store!Skip, Store!LookUp, Store!Fingerprint, Store!Load, Store!ReadSidecar,
       Store!Ffprobe, Store!Refresh, Store!Put, Store!Batch, Store!Commit
<1>4. Store!Next => index' = index \/ \E j \in Jobs : Store!Save(j)
  BY <1>3 DEF Store!Next, Store!Copy, Store!WriteSidecar, Store!ScanMedia, Store!VerifyPlaybackReady,
       Store!SaveTrim, Store!ScanDirectory, Store!StartMediaProbe, Store!Starts, Store!Crash
<1> QED
  BY <1>1, <1>2, <1>4 DEF storeVars

\* Whatever the files, the commands, their failures and PlayOut's deaths, the row that
\* get_valid vouches for and the record found under a fingerprint tell of the file that
\* is there, as long as no file is replaced while a command works on it and an export
\* never finds the sidecar of the one before it.
THEOREM CacheIsOfTheFile ==
  ASSUME "midcopy" \notin Windows, "sidecar" \notin Windows
  PROVE  PartsSpec => []CacheTellsOfTheFile
<1> DEFINE Inv == part = "store" => StoreInv /\ TellsInv
<1>1. PartsInit => Inv
  BY StoreStarts DEF PartsInit
<1>2. Inv /\ [PartsNext]_serviceVars => Inv'
  <2> SUFFICES ASSUME Inv, [PartsNext]_serviceVars, part' = "store" PROVE (StoreInv /\ TellsInv)'
    OBVIOUS
  <2>1. part = "store" /\ (Store!Next \/ UNCHANGED storeVars)
    BY DEF PartsNext, serviceVars
  <2> QED
    BY <2>1, StoreKept, StoreStays
<1>3. Inv => CacheTellsOfTheFile
  <2> SUFFICES ASSUME StoreInv, TellsInv PROVE Store!CacheTellsOfTheFile
    BY DEF CacheTellsOfTheFile
  <2>1. ASSUME NEW p \in Files, Store!Valid(p), db[p].of # Nobody PROVE db[p].of = file[p].content
    BY <2>1 DEF TellsInv, RowTells, Store!Valid, Own
  <2>2. ASSUME NEW i \in DOMAIN index PROVE index[i].of \in {Nobody, index[i].fp}
    BY DEF TellsInv, IndexTells, Own
  <2> QED
    BY <2>1, <2>2 DEF Store!CacheTellsOfTheFile
<1> QED
  BY <1>1, <1>2, <1>3, PTL DEF PartsSpec

\* For any number of commands in any order, and files replaced at any time: a save of the
\* index, whichever operation makes it, adds one record or changes one of the index that
\* is stored, and takes a trim away only if the operator has asked for none.
THEOREM NoUpdateIsLost == PartsSpec => NoLostUpdate
<1> DEFINE Inv == part = "store" => StoreInv
<1>1. PartsInit => Inv
  BY StoreStarts DEF PartsInit
<1>2. Inv /\ [PartsNext]_serviceVars => Inv'
  <2> SUFFICES ASSUME Inv, [PartsNext]_serviceVars, part' = "store" PROVE StoreInv'
    OBVIOUS
  <2>1. part = "store" /\ (Store!Next \/ UNCHANGED storeVars)
    BY DEF PartsNext, serviceVars
  <2> QED
    BY <2>1, StoreKept, StoreStays
<1>3. Inv /\ [PartsNext]_serviceVars => [part = "store" => Store!Kept]_storeVars
  <2> SUFFICES ASSUME Inv, [PartsNext]_serviceVars, part = "store", ~UNCHANGED storeVars PROVE Store!Kept
    OBVIOUS
  <2>1. Store!Next \/ UNCHANGED storeVars
    BY DEF PartsNext, serviceVars
  <2> QED
    BY <2>1, NothingIsLost
<1> QED
  BY <1>1, <1>2, <1>3, PTL DEF PartsSpec, NoLostUpdate
=============================================================================
