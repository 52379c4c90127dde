--------------------------- MODULE IngestorProofs ---------------------------
(* Proofs about the client of the transcoding service: every command reports *)
(* what the service did, a listing over several pages and two generations of *)
(* routes holds every asset that stayed in the list, and the flag shown to   *)
(* the operator is the service's last verdict on the present token.          *)
EXTENDS Ingestor, FiniteSetTheorems, TLAPS

-----------------------------------------------------------------------------
\* The registry holds finitely many assets, and each has its place in a listing.
RegistryType == registry \in [Ids -> {"list", "bin", "none"}]
UpTo(a) == {b \in Listed : b <= a}

LEMMA PlacesOf ==
  ASSUME RegistryType
  PROVE  /\ IsFiniteSet(Listed) /\ Listed \subseteq Ids /\ Cardinality(Listed) \in Nat
         /\ \A a \in Listed : Place(a) \in 1..Cardinality(Listed)
         /\ \A a, b \in Listed : a < b => Place(a) < Place(b)
<1>1. IsFiniteSet(Ids) /\ Ids \subseteq Int
  BY FS_Interval, IngestorAssumption DEF Ids
<1>2. Listed \subseteq Ids
  BY DEF Listed
<1>3. IsFiniteSet(Listed) /\ Cardinality(Listed) \in Nat
  BY <1>1, <1>2, FS_Subset, FS_CardinalityType
<1>4. ASSUME NEW a \in Listed
      PROVE  IsFiniteSet(UpTo(a)) /\ Place(a) = Cardinality(UpTo(a)) /\ Place(a) \in 1..Cardinality(Listed)
  <2>1. UpTo(a) \subseteq Listed /\ a \in UpTo(a)
    BY <1>1, <1>2 DEF UpTo
  <2>2. IsFiniteSet(UpTo(a)) /\ Cardinality(UpTo(a)) <= Cardinality(Listed)
    BY <1>3, <2>1, FS_Subset
  <2>3. Cardinality(UpTo(a)) \in Nat /\ Cardinality(UpTo(a)) # 0
    BY <2>1, <2>2, FS_CardinalityType, FS_EmptySet
  <2>4. Place(a) = Cardinality(UpTo(a))
    BY DEF Place, UpTo
  <2> QED
    BY <1>3, <2>2, <2>3, <2>4
<1>5. ASSUME NEW a \in Listed, NEW b \in Listed, a < b PROVE Place(a) < Place(b)
  <2>1. UpTo(a) \subseteq UpTo(b) /\ b \in UpTo(b) /\ b \notin UpTo(a)
    <3>1. a \in Int /\ b \in Int /\ \A c \in Listed : c \in Int
      BY <1>1, <1>2
    <3>2. \A c \in Listed : c <= a => c <= b
      BY <1>5, <3>1
    <3>3. b <= b /\ ~(b <= a)
      BY <1>5, <3>1
    <3> QED
      BY <3>2, <3>3 DEF UpTo
  <2>2. Cardinality(UpTo(a)) <= Cardinality(UpTo(b)) /\ Cardinality(UpTo(a)) # Cardinality(UpTo(b))
    BY <1>4, <2>1, FS_Subset
  <2>3. Place(a) \in Nat /\ Place(b) \in Nat
    BY <1>3, <1>4
  <2> QED
    BY <1>4, <2>2, <2>3
<1> QED
  BY <1>2, <1>3, <1>4, <1>5

\* Every place up to that of a listed asset is taken.
LEMMA PlaceTaken ==
  ASSUME RegistryType, NEW n \in 1..Cardinality(Listed)
  PROVE  \E a \in Listed : Place(a) = n
<1> DEFINE p == [a \in Listed |-> Place(a)]
           m == Cardinality(Listed)
<1>1. /\ IsFiniteSet(Listed) /\ Listed \subseteq Ids /\ m \in Nat
      /\ \A a \in Listed : p[a] \in 1..m
      /\ \A a, b \in Listed : a < b => p[a] < p[b]
  BY PlacesOf
<1>2. p \in [Listed -> 1..m]
  BY <1>1
<1>3. ASSUME NEW a \in Listed, NEW b \in Listed, p[a] = p[b] PROVE a = b
  <2>1. a \in Int /\ b \in Int /\ p[a] \in Int
    BY <1>1, IngestorAssumption DEF Ids
  <2>2. ~(a < b) /\ ~(b < a)
    <3> HIDE DEF p
    <3> QED
      BY <1>1, <1>3, <2>1
  <2> QED
    BY <2>1, <2>2
<1>4. p \in Injection(Listed, 1..m)
  BY <1>2, <1>3 DEF Injection, IsInjective
<1>5. IsFiniteSet(1..m) /\ Cardinality(1..m) = m
  BY <1>1, FS_Interval
<1>6. p \in Surjection(Listed, 1..m)
  BY <1>4, <1>5, FS_Injection
<1> QED
  BY <1>6 DEF Surjection

\* A page that does not reach the end of the listing is full, and what stands
\* behind its offset is on it or stands behind it.
LEMMA PageOf ==
  ASSUME RegistryType, NEW from \in Nat, NEW limit \in Nat
  PROVE  LET page == {a \in Listed : Place(a) \in (from + 1)..(from + limit)} IN
         /\ page \subseteq Listed /\ Cardinality(page) \in Nat
         /\ \A a \in Listed \ page : Place(a) > from =>
              /\ Place(a) > from + Cardinality(page) /\ Cardinality(page) = limit
              /\ from + Cardinality(page) < Cardinality(Listed)
<1> DEFINE page == {a \in Listed : Place(a) \in (from + 1)..(from + limit)}
           places == (from + 1)..(from + limit)
           p == [a \in page |-> Place(a)]
<1>1. /\ IsFiniteSet(Listed) /\ Listed \subseteq Ids /\ Cardinality(Listed) \in Nat
      /\ \A a \in Listed : Place(a) \in 1..Cardinality(Listed)
      /\ \A a, b \in Listed : a < b => Place(a) < Place(b)
  BY PlacesOf
<1>2. IsFiniteSet(page) /\ Cardinality(page) \in Nat
  BY <1>1, FS_Subset, FS_CardinalityType
<1>3. IsFiniteSet(places) /\ Cardinality(places) = limit
  <2>1. from + 1 \in Int /\ from + limit \in Int
    OBVIOUS
  <2>2. IsFiniteSet(places) /\ Cardinality(places) =
          IF from + 1 > from + limit THEN 0 ELSE from + limit - (from + 1) + 1
    BY <2>1, FS_Interval
  <2> QED
    BY <2>2
<1>4. p \in Injection(page, places)
  <2>1. p \in [page -> places]
    OBVIOUS
  <2>2. ASSUME NEW a \in page, NEW b \in page, p[a] = p[b] PROVE a = b
    <3>1. a \in Int /\ b \in Int /\ Place(a) \in Int /\ Place(a) = Place(b) /\ a \in Listed /\ b \in Listed
      BY <1>1, <2>2, IngestorAssumption DEF Ids
    <3>2. ~(a < b) /\ ~(b < a)
      BY <1>1, <3>1
    <3> QED
      BY <3>1, <3>2
  <2> QED
    BY <2>1, <2>2 DEF Injection, IsInjective
<1>5. Cardinality(page) <= limit
  BY <1>3, <1>4, FS_Injection
<1>6. ASSUME NEW a \in Listed \ page, Place(a) > from
      PROVE  /\ Place(a) > from + Cardinality(page) /\ Cardinality(page) = limit
             /\ from + Cardinality(page) < Cardinality(Listed)
  <2>1. Place(a) > from + limit /\ Place(a) \in 1..Cardinality(Listed)
    BY <1>1, <1>6
  <2>2. ASSUME NEW n \in places PROVE \E b \in page : p[b] = n
    <3>1. n \in 1..Cardinality(Listed)
      BY <1>1, <2>1
    <3>2. PICK b \in Listed : Place(b) = n
      BY <3>1, PlaceTaken
    <3>3. b \in page
      BY <3>2
    <3> QED
      BY <3>2, <3>3
  <2>3. p \in Surjection(page, places)
    BY <1>4, <2>2 DEF Surjection, Injection
  <2>4. Cardinality(page) = limit
    BY <1>3, <1>4, <2>3, FS_Injection
  <2> HIDE DEF page
  <2> QED
    BY <1>1, <2>1, <2>4
<1> QED
  BY <1>2, <1>6

\* Assets that come to be listed move the others back.
LEMMA PlaceGrows ==
  ASSUME RegistryType, RegistryType', Listed \subseteq Listed', NEW a \in Listed
  PROVE  Place(a)' >= Place(a) /\ Place(a)' \in Nat /\ Place(a) \in Nat
<1>1. IsFiniteSet(Listed') /\ IsFiniteSet(Ids) /\ Listed' \subseteq Ids /\ Listed \subseteq Ids
  <2>1. IsFiniteSet(Ids)
    BY FS_Interval, IngestorAssumption DEF Ids
  <2>2. Listed' \subseteq Ids /\ Listed \subseteq Ids
    BY DEF Listed
  <2> QED
    BY <2>1, <2>2, FS_Subset
<1>2. UpTo(a) \subseteq {b \in Listed' : b <= a}
  BY DEF UpTo
<1>3. IsFiniteSet({b \in Listed' : b <= a})
  BY <1>1, FS_Subset
<1>4. IsFiniteSet(UpTo(a)) /\ Cardinality(UpTo(a)) <= Cardinality({b \in Listed' : b <= a})
  BY <1>2, <1>3, FS_Subset
<1>5. Place(a)' = Cardinality({b \in Listed' : b <= a}) /\ Place(a) = Cardinality(UpTo(a))
  BY DEF Place, UpTo
<1>6. Cardinality(UpTo(a)) \in Nat /\ Cardinality({b \in Listed' : b <= a}) \in Nat
  BY <1>3, <1>4, FS_CardinalityType
<1> QED
  BY <1>4, <1>5, <1>6

\* What the proofs need of a command: a write goes one way, a listing needs the
\* body of its answer.
Sane(c) ==
  /\ {"op", "a", "routes", "valid", "confirmed", "needsBody"} = DOMAIN c
  /\ c.op \in Writes => Len(c.routes) = 1
  /\ c.op = "list" => c.needsBody

\* Every command of ingestor_api.rs is of that kind.
LEMMA CommandsSane == \A c \in Commands : Sane(c)
<1>1. \A op, a, routes, valid, confirmed, needsBody :
        (op \in Writes => Len(routes) = 1) /\ (op = "list" => needsBody) =>
          Sane(Command(op, a, routes, valid, confirmed, needsBody))
  BY DEF Sane, Command
<1>2. \A op, a, valid : op # "list" => Sane(Edit(op, a, valid)) /\ Sane(Destroy(op, a, valid))
  BY <1>1 DEF Edit, Destroy
<1>3. \A op, a, routes, valid : op \notin Writes => Sane(Read(op, a, routes, valid))
  BY <1>1 DEF Read
<1>4. \A c \in CheckIngestorHealth : Sane(c)
  BY <1>1 DEF CheckIngestorHealth, Writes
<1>5. \A c \in ListIngestorAssets \cup ResolveIngestorAsset \cup ResolveIngestorAssetsBatch
                \cup ListIngestorRecycleBin \cup ListIngestorFolderColors \cup FetchMediaRoot : Sane(c)
  BY <1>3 DEF ListIngestorAssets, ResolveIngestorAsset, ResolveIngestorAssetsBatch,
              ListIngestorRecycleBin, ListIngestorFolderColors, FetchMediaRoot, Writes
<1>6. \A c \in UpdateIngestorTrim \cup UpdateIngestorRating \cup UpdateIngestorTp
                \cup MoveIngestorAsset \cup RenameIngestorAsset \cup TrashIngestorAsset
                \cup RestoreIngestorAsset \cup RestoreIngestorFolder \cup SetIngestorFolderColor : Sane(c)
  BY <1>2 DEF UpdateIngestorTrim, UpdateIngestorRating, UpdateIngestorTp, MoveIngestorAsset,
              RenameIngestorAsset, TrashIngestorAsset, RestoreIngestorAsset, RestoreIngestorFolder,
              SetIngestorFolderColor
<1>7. \A c \in PurgeIngestorAsset \cup TrashIngestorFolder \cup PurgeIngestorFolder
                \cup PurgeIngestorRecycleBin \cup AutoPurgeIngestorRecycleBin : Sane(c)
  BY <1>2 DEF PurgeIngestorAsset, TrashIngestorFolder, PurgeIngestorFolder, PurgeIngestorRecycleBin,
              AutoPurgeIngestorRecycleBin
<1>8. \A c \in CreateIngestorSubclip : Sane(c)
  <2>1. \A a, valid : Sane(Command("subclip", a, <<"subclip">>, valid, FALSE, TRUE))
    BY <1>1
  <2> QED
    BY <2>1 DEF CreateIngestorSubclip, Read
<1> QED
  BY <1>4, <1>5, <1>6, <1>7, <1>8 DEF Commands

Phases == {"idle", "sent", "served", "done"}
Verdicts == {"ok", "refused", "unknown", "rejected"}
InProgress ==
  [phase : {"sent", "served"}, command : Commands, leg : Nat \ {0}, offset : Nat, pages : Nat,
   got : SUBSET Ids, code : Int, page : SUBSET Ids, stayed : SUBSET Ids, times : Nat, total : Nat,
   auth : BOOLEAN, present : BOOLEAN]

\* A call under way: how often a write has been carried out so far; what a listing
\* has passed over, which is never an asset that stayed; and what the answer says
\* of the token.
WriteSoFar(k) ==
  k.command.op \in Writes =>
    /\ k.leg = 1
    /\ k.phase = "sent" => k.times = 0
    /\ k.phase = "served" => IF k.code \in {200} \cup Unusable THEN k.times = 1
                             ELSE IF k.code = NoAnswer THEN k.times <= 1 ELSE k.times = 0
ListSoFar(k) ==
  k.command.op = "list" =>
    /\ k.pages < MaxPages /\ k.stayed \subseteq Listed /\ (service.generation = "old" => k.offset = 0)
    /\ k.phase = "sent" => \A a \in k.stayed \ k.got : Place(a) > k.offset
    /\ k.phase = "served" /\ k.code = 200 =>
         /\ Cardinality(k.page) \in Nat
         /\ \A a \in k.stayed \ (k.got \cup k.page) :
              /\ Place(a) > k.offset + Cardinality(k.page) /\ Cardinality(k.page) >= service.limit
              /\ k.offset + Cardinality(k.page) < k.total /\ service.generation # "old"
TokenSoFar(k) ==
  /\ k.present => k.auth = accepted
  /\ k.phase = "served" => /\ k.code = 401 => ~k.auth
                           /\ Success(k) /\ ~IsAuthExemptPath(Route(k)) => k.auth
SoFar(k) == /\ k \in InProgress /\ WriteSoFar(k) /\ TokenSoFar(k)
            /\ "removed" \notin Windows => ListSoFar(k)

\* A call that is over.
ReportedTrue(k) ==
  k.op \in Writes => CASE k.result = "ok" -> k.times = 1
                       [] k.result = "unknown" -> k.times <= 1
                       [] OTHER -> k.times = 0
ListedWhole(k) == k.op = "list" /\ k.result = "ok" => k.stayed \subseteq k.got
Good(k) ==
  /\ k.phase \in Phases
  /\ k.phase \in {"sent", "served"} => SoFar(k)
  /\ k.phase = "done" => ReportedTrue(k) /\ ("removed" \notin Windows => ListedWhole(k))

ServiceType ==
  /\ service.generation \in {"v2", "v1", "old"} /\ service.limit \in Nat \ {0}
  /\ {"up", "generation", "limit"} \subseteq DOMAIN service
CallsGood == call = [s \in Slots |-> call[s]] /\ \A s \in Slots : Good(call[s])
IngestorInv ==
  /\ RegistryType /\ ServiceType /\ accepted \in BOOLEAN /\ authRejected \in BOOLEAN
  /\ judged \in BOOLEAN /\ CallsGood /\ VerdictTold

-----------------------------------------------------------------------------
\* What makes a call under way good, and one that is over.
LEMMA OpenIsGood ==
  ASSUME NEW k, k.phase \in {"sent", "served"}, k \in InProgress, WriteSoFar(k), TokenSoFar(k),
         "removed" \notin Windows => ListSoFar(k)
  PROVE  Good(k)
<1>1. k.phase \in Phases /\ k.phase # "done"
  BY DEF Phases
<1>2. SoFar(k)
  BY Zenon DEF SoFar
<1> QED
  BY <1>1, <1>2, Zenon DEF Good

LEMMA OverIsGood ==
  ASSUME NEW k, k.phase = "done", ReportedTrue(k), "removed" \notin Windows => ListedWhole(k)
  PROVE  Good(k)
<1>1. k.phase \in Phases /\ k.phase \notin {"sent", "served"}
  BY DEF Phases
<1> QED
  BY <1>1, Zenon DEF Good

\* A command begins.
LEMMA StartedIsGood ==
  ASSUME RegistryType, accepted \in BOOLEAN, NEW c \in Commands
  PROVE  Good(Started(c))
<1> DEFINE k == Started(c)
<1>1. /\ k.phase = "sent" /\ k.command = c /\ k.leg = 1 /\ k.offset = 0 /\ k.pages = 0 /\ k.got = {}
      /\ k.code = 0 /\ k.page = {} /\ k.times = 0 /\ k.total = 0 /\ k.auth = accepted /\ k.present
      /\ k.stayed = IF c.op = "list" THEN Listed ELSE {}
  BY DEF Started
<1>2. k \in InProgress
  BY DEF Started, InProgress, Listed
<1>3. \A a \in Listed : Place(a) > 0
  BY PlacesOf
<1>4. 0 < MaxPages
  BY IngestorAssumption
<1> HIDE DEF k
<1>5. WriteSoFar(k) /\ TokenSoFar(k)
  BY <1>1 DEF WriteSoFar, TokenSoFar
<1>6. ListSoFar(k)
  BY <1>1, <1>3, <1>4 DEF ListSoFar
<1> QED
  BY <1>1, <1>2, <1>5, <1>6, OpenIsGood DEF k

\* Input that does not pass the client's own checks sends nothing.
LEMMA RejectedIsGood ==
  ASSUME NEW c
  PROVE  Good(Ended(c, "rejected", 0, {}, {}))
BY DEF Good, Ended, ReportedTrue, ListedWhole, Phases

\* The command goes on to its next route: a write has none.
LEMMA NextRouteIsGood ==
  ASSUME RegistryType, NEW k, SoFar(k), FallsBack(k)
  PROVE  Good(NextRoute(k))
<1> DEFINE n == NextRoute(k)
<1>1. /\ n.phase = "sent" /\ n.command = k.command /\ n.leg = k.leg + 1 /\ n.offset = 0 /\ n.pages = 0
      /\ n.got = {} /\ n.stayed = k.stayed /\ n.auth = k.auth /\ n.present = k.present
      /\ n \in InProgress
  <2>1. k \in InProgress
    BY DEF SoFar
  <2>2. n \in InProgress
    <3>1. k.leg + 1 \in Nat \ {0}
      BY <2>1 DEF InProgress
    <3>2. DOMAIN n = DOMAIN k /\ n = [x \in DOMAIN n |-> n[x]]
      BY DEF NextRoute
    <3>3. /\ n.phase = "sent" /\ n.command = k.command /\ n.leg = k.leg + 1 /\ n.offset = 0
          /\ n.pages = 0 /\ n.got = {} /\ n.code = 0 /\ n.page = {} /\ n.stayed = k.stayed
          /\ n.times = k.times /\ n.total = k.total /\ n.auth = k.auth /\ n.present = k.present
      BY <2>1 DEF NextRoute, InProgress
    <3> HIDE DEF n
    <3> QED
      BY <2>1, <3>1, <3>2, <3>3 DEF InProgress
  <2> QED
    BY <2>1, <2>2 DEF NextRoute, InProgress
<1>2. k.command.op \notin Writes
  <2>1. k.leg \in Nat \ {0} /\ k.command \in Commands
    BY DEF SoFar, InProgress
  <2>2. k.leg < Len(k.command.routes)
    BY DEF FallsBack
  <2> QED
    <3>1. k.command.op \in Writes => Len(k.command.routes) = 1
      BY <2>1, CommandsSane DEF Sane
    <3>2. k.leg \in Nat /\ k.leg # 0
      BY <2>1
    <3>3. ~(k.leg < 1)
      BY <3>2
    <3> QED
      BY <2>2, <3>1, <3>3, Zenon
<1>3. \A a \in Listed : Place(a) > 0
  BY PlacesOf
<1>4. 0 < MaxPages
  BY IngestorAssumption
<1> HIDE DEF n
<1>5. WriteSoFar(n) /\ TokenSoFar(n)
  BY <1>1, <1>2 DEF WriteSoFar, TokenSoFar, SoFar
<1>6. "removed" \notin Windows => ListSoFar(n)
  BY <1>1, <1>3, <1>4 DEF ListSoFar, SoFar
<1> QED
  BY <1>1, <1>5, <1>6, OpenIsGood DEF n

\* The next page begins where this one ended.
LEMMA NextPageIsGood ==
  ASSUME RegistryType, ServiceType, NEW k, SoFar(k), k.phase = "served", k.command.op = "list",
         k.code = 200, NeedsNextPage(k), Cardinality(k.page) \in Nat
  PROVE  Good(NextPage(k))
<1> DEFINE n == NextPage(k)
<1>1. /\ n.phase = "sent" /\ n.command = k.command /\ n.leg = k.leg
      /\ n.offset = k.offset + Cardinality(k.page) /\ n.pages = k.pages + 1
      /\ n.got = k.got \cup k.page /\ n.stayed = k.stayed /\ n.auth = k.auth /\ n.present = k.present
  <2>1. k \in InProgress
    BY DEF SoFar
  <2> QED
    BY <2>1 DEF NextPage, NextOffset, InProgress
<1>2. n \in InProgress
  <2>1. k \in InProgress /\ k.offset + Cardinality(k.page) \in Nat /\ k.pages + 1 \in Nat
    BY DEF SoFar, InProgress
  <2>2. DOMAIN n = DOMAIN k /\ n = [x \in DOMAIN n |-> n[x]]
    BY DEF NextPage
  <2>3. n.code = 0 /\ n.page = {} /\ n.times = k.times /\ n.total = k.total
    BY <2>1 DEF NextPage, InProgress
  <2> HIDE DEF n
  <2> QED
    BY <1>1, <2>1, <2>2, <2>3 DEF InProgress
<1>3. service.generation # "old" /\ k.pages + 1 < MaxPages
  BY DEF NeedsNextPage
<1>4. k.command.op \notin Writes
  BY DEF Writes
<1> HIDE DEF n
<1>5. "removed" \notin Windows => ListSoFar(n)
  <2> SUFFICES ASSUME "removed" \notin Windows PROVE ListSoFar(n)
    OBVIOUS
  <2>1. ListSoFar(k)
    BY DEF SoFar
  <2> QED
    BY <1>1, <1>3, <2>1 DEF ListSoFar
<1>6. WriteSoFar(n) /\ TokenSoFar(n)
  BY <1>1, <1>4 DEF WriteSoFar, TokenSoFar, SoFar
<1> QED
  BY <1>1, <1>2, <1>5, <1>6, OpenIsGood DEF n

\* The command is over. A listing that needs no next page and has not come to the
\* cap on pages has passed over nothing that stayed.
LEMMA ResultIsGood ==
  ASSUME ServiceType, NEW k, SoFar(k), k.phase = "served",
         ~(k.command.op = "list" /\ k.code = 200 /\ NeedsNextPage(k))
  PROVE  Good(Result(k))
<1> DEFINE r == Result(k)
<1>1. /\ r.phase = "done" /\ r.op = k.command.op /\ r.result = Outcome(k) /\ r.times = k.times
      /\ r.got = k.got \cup k.page /\ r.stayed = IF AtTheCap(k) THEN {} ELSE k.stayed
  BY DEF Result, Ended
<1>2. Outcome(k) \in {"ok", "unknown", "refused"}
  BY DEF Outcome
<1>a. k \in InProgress /\ k.command \in Commands
  BY DEF SoFar, InProgress
<1>3. ReportedTrue(r)
  <2>1. CASE Outcome(k) = "ok"
    BY <2>1, <1>1 DEF Outcome, SoFar, WriteSoFar, ReportedTrue
  <2>2. CASE Outcome(k) = "unknown"
    <3>1. k.code \in {NoAnswer} \cup Unusable
      BY <2>2 DEF Outcome
    <3> QED
      BY <2>2, <3>1, <1>1 DEF SoFar, WriteSoFar, ReportedTrue
  <2>3. CASE Outcome(k) = "refused"
    <3>1. k.code \notin {200} \cup {NoAnswer} \cup Unusable
      BY <2>3 DEF Outcome
    <3> QED
      BY <2>3, <3>1, <1>1 DEF SoFar, WriteSoFar, ReportedTrue
  <2> QED
    BY <1>2, <2>1, <2>2, <2>3
<1>4. ASSUME "removed" \notin Windows, k.command.op = "list", Outcome(k) = "ok", ~AtTheCap(k)
      PROVE  k.stayed \subseteq k.got \cup k.page
  <2>1. k.code = 200
    BY <1>a, <1>4, CommandsSane DEF Outcome, Sane
  <2>2. ~NeedsNextPage(k)
    BY <1>4, <2>1
  <2>3. ListSoFar(k)
    BY <1>4 DEF SoFar
  <2> SUFFICES ASSUME NEW a \in k.stayed \ (k.got \cup k.page) PROVE FALSE
    OBVIOUS
  <2>4. /\ Cardinality(k.page) \in Nat /\ Cardinality(k.page) >= service.limit
        /\ k.offset + Cardinality(k.page) < k.total /\ service.generation # "old"
        /\ k.pages < MaxPages
    BY <1>4, <2>1, <2>3 DEF ListSoFar
  <2>5. k.page # {}
    BY <2>4, FS_EmptySet, SMTT(60) DEF ServiceType
  <2>6. k.pages + 1 # MaxPages
    BY <1>4, <2>4 DEF AtTheCap
  <2>7. k.pages + 1 < MaxPages
    BY <1>a, <2>4, <2>6, IngestorAssumption DEF InProgress
  <2> QED
    BY <2>2, <2>4, <2>5, <2>7 DEF NeedsNextPage
<1>5. "removed" \notin Windows => ListedWhole(r)
  BY <1>1, <1>4 DEF ListedWhole
<1>6. r.phase = "done"
  BY <1>1
<1> HIDE DEF r
<1> QED
  BY <1>3, <1>5, <1>6, OverIsGood DEF r

\* The fields an answer writes.
Noted(k, phase, code, times, page, total) ==
  [k EXCEPT !.phase = phase, !.code = code, !.times = times, !.page = page, !.total = total]

\* The service answers: a write is carried out with 200 and only then, a page
\* holds what stands behind the offset, and only a refused token is answered 401.
LEMMA AnsweredIsGood ==
  ASSUME RegistryType, ServiceType, NEW k, SoFar(k), k.phase = "sent", NEW code \in Codes(k)
  PROVE  Good(Answered(k, code))
<1> DEFINE n == Answered(k, code)
<1>1. k \in InProgress
  BY DEF SoFar
<1>2. /\ code \in Int /\ code \notin {NoAnswer} \cup Unusable
      /\ code = 401 => ~k.auth
      /\ code # 401 /\ ~IsAuthExemptPath(Route(k)) => k.auth
  BY DEF Codes, NoAnswer, Unusable, BrokenOff, Garbled
<1>3. /\ n.phase = "served" /\ n.command = k.command /\ n.leg = k.leg /\ n.offset = k.offset
      /\ n.pages = k.pages /\ n.got = k.got /\ n.code = code /\ n.stayed = k.stayed
      /\ n.auth = k.auth /\ n.present = k.present
      /\ n.times = IF code = 200 /\ k.command.op \in Writes THEN k.times + 1 ELSE k.times
      /\ n.page = IF k.command.op = "list" /\ code = 200 THEN Page(k) ELSE {}
      /\ n.total = IF k.command.op = "list" THEN Cardinality(Listed) ELSE 0
  <2>1. {"phase", "command", "leg", "offset", "pages", "got", "code", "page", "stayed", "times",
         "total", "auth", "present"} = DOMAIN k
    BY <1>1 DEF InProgress
  <2> QED
    BY <2>1, SMTT(30) DEF Answered
<1>4. DOMAIN n = DOMAIN k /\ n = [x \in DOMAIN n |-> n[x]]
  <2>1. \A p, c, t, g, o : DOMAIN Noted(k, p, c, t, g, o) = DOMAIN k
                         /\ Noted(k, p, c, t, g, o) = [x \in DOMAIN Noted(k, p, c, t, g, o) |-> Noted(k, p, c, t, g, o)[x]]
    <3> TAKE p, c, t, g, o
    <3> QED
      BY DEF Noted
  <2> QED
    BY <2>1, ZenonT(60) DEF Answered
<1>5. Page(k) \subseteq Ids /\ Listed \subseteq Ids /\ Cardinality(Listed) \in Nat
  BY PlacesOf DEF Page
<1>6. n \in InProgress
  <2>1. /\ n.times \in Nat /\ n.total \in Nat /\ n.page \in SUBSET Ids /\ n.code \in Int
    BY <1>1, <1>2, <1>3, <1>5 DEF InProgress
  <2> HIDE DEF n
  <2> QED
    BY <1>1, <1>3, <1>4, <2>1 DEF InProgress
<1> HIDE DEF n
<1>7. WriteSoFar(n)
  <2> SUFFICES ASSUME k.command.op \in Writes PROVE WriteSoFar(n)
    BY <1>3 DEF WriteSoFar
  <2>1. k.leg = 1 /\ k.times = 0
    BY DEF SoFar, WriteSoFar
  <2> QED
    BY <1>2, <1>3, <2>1 DEF WriteSoFar
<1>8. TokenSoFar(n)
  <2>1. Route(n) = Route(k)
    BY <1>3 DEF Route
  <2>2. Success(n) => code # 401
    BY <1>3 DEF Success, Unusable, BrokenOff, Garbled
  <2>3. k.present => k.auth = accepted
    BY DEF SoFar, TokenSoFar
  <2> QED
    BY <1>2, <1>3, <2>1, <2>2, <2>3 DEF TokenSoFar
<1>9. ASSUME "removed" \notin Windows, k.command.op = "list" PROVE ListSoFar(n)
  <2> DEFINE limit == IF service.generation = "old" THEN Cardinality(Listed) ELSE service.limit
  <2>1. /\ k.pages < MaxPages /\ k.stayed \subseteq Listed /\ (service.generation = "old" => k.offset = 0)
        /\ \A a \in k.stayed \ k.got : Place(a) > k.offset
    BY <1>9 DEF SoFar, ListSoFar
  <2>2. limit \in Nat /\ k.offset \in Nat
    BY <1>1, <1>5 DEF InProgress, ServiceType
  <2>3. Page(k) = {a \in Listed : Place(a) \in (k.offset + 1)..(k.offset + limit)}
    BY DEF Page
  <2> HIDE DEF limit
  <2>4. /\ Cardinality(Page(k)) \in Nat
        /\ \A a \in Listed \ Page(k) : Place(a) > k.offset =>
             /\ Place(a) > k.offset + Cardinality(Page(k)) /\ Cardinality(Page(k)) = limit
             /\ k.offset + Cardinality(Page(k)) < Cardinality(Listed)
    BY <2>2, <2>3, PageOf
  <2>5. ASSUME code = 200, NEW a \in k.stayed \ (k.got \cup Page(k))
        PROVE  /\ Place(a) > k.offset + Cardinality(Page(k)) /\ Cardinality(Page(k)) >= service.limit
               /\ k.offset + Cardinality(Page(k)) < Cardinality(Listed) /\ service.generation # "old"
    <3>1. a \in Listed \ Page(k) /\ Place(a) > k.offset
      BY <2>1, <2>5
    <3>2. /\ Place(a) > k.offset + Cardinality(Page(k)) /\ Cardinality(Page(k)) = limit
          /\ k.offset + Cardinality(Page(k)) < Cardinality(Listed)
      BY <2>4, <3>1
    <3>3. service.generation # "old"
      <4> SUFFICES ASSUME service.generation = "old" PROVE FALSE
        OBVIOUS
      <4>1. k.offset = 0 /\ limit = Cardinality(Listed)
        BY <2>1 DEF limit
      <4> QED
        BY <1>5, <3>2, <4>1
    <3>4. limit = service.limit
      BY <3>3 DEF limit
    <3> QED
      BY <2>2, <3>2, <3>3, <3>4
  <2> QED
    BY <1>3, <1>9, <2>1, <2>4, <2>5 DEF ListSoFar
<1>10. "removed" \notin Windows => ListSoFar(n)
  <2>1. k.command.op # "list" => ListSoFar(n)
    BY <1>3 DEF ListSoFar
  <2> QED
    BY <1>9, <2>1
<1> QED
  BY <1>3, <1>6, <1>7, <1>8, <1>10, OpenIsGood DEF n

\* The answer is lost, or its body.
LEMMA FailedIsGood ==
  ASSUME ServiceType, NEW k, SoFar(k), NEW code,
         \/ code = NoAnswer /\ (k.phase = "sent" \/ k.code \notin {NoAnswer} \cup Unusable)
         \/ code \in Unusable /\ k.phase = "served" /\ k.code = 200
  PROVE  Good(Failed(k, code))
<1> DEFINE n == Failed(k, code)
<1>1. k \in InProgress
  BY DEF SoFar
<1>2. code \in Int /\ code # 401 /\ code # 200 /\ NoAnswer \notin {200} \cup Unusable
  BY DEF NoAnswer, Unusable, BrokenOff, Garbled
<1>3. /\ n.phase = "served" /\ n.command = k.command /\ n.leg = k.leg /\ n.offset = k.offset
      /\ n.pages = k.pages /\ n.got = k.got /\ n.code = code /\ n.stayed = k.stayed
      /\ n.auth = k.auth /\ n.present = k.present /\ n.times = k.times /\ n.page = {}
      /\ n.total = k.total
  BY <1>1 DEF Failed, InProgress
<1>4. DOMAIN n = DOMAIN k /\ n = [x \in DOMAIN n |-> n[x]]
  BY DEF Failed
<1> HIDE DEF n
<1>6. n \in InProgress
  BY <1>1, <1>2, <1>3, <1>4 DEF InProgress
<1>a. k.phase \in {"sent", "served"} /\ k.times \in Nat
  BY <1>1 DEF InProgress
<1>7. WriteSoFar(n)
  <2> SUFFICES ASSUME k.command.op \in Writes PROVE WriteSoFar(n)
    BY <1>3 DEF WriteSoFar
  <2>1. k.leg = 1 /\ WriteSoFar(k)
    BY DEF SoFar, WriteSoFar
  <2>2. CASE code = NoAnswer
    <3>1. k.times \in {0, 1}
      BY <1>a, <2>1, <2>2, <1>2 DEF WriteSoFar
    <3> QED
      BY <1>2, <1>3, <2>1, <2>2, <3>1 DEF WriteSoFar
  <2>3. CASE code \in Unusable /\ k.phase = "served" /\ k.code = 200
    BY <1>3, <2>1, <2>3 DEF WriteSoFar
  <2> QED
    BY <2>2, <2>3
<1>8. TokenSoFar(n)
  <2>1. Route(n) = Route(k)
    BY <1>3 DEF Route
  <2>2. Success(n) => k.phase = "served" /\ Success(k)
    BY <1>2, <1>3 DEF Success
  <2>3. TokenSoFar(k)
    BY DEF SoFar
  <2> QED
    BY <1>2, <1>3, <2>1, <2>2, <2>3 DEF TokenSoFar
<1>9. "removed" \notin Windows => ListSoFar(n)
  <2> SUFFICES ASSUME "removed" \notin Windows PROVE ListSoFar(n)
    OBVIOUS
  <2>1. ListSoFar(k)
    BY DEF SoFar
  <2> QED
    BY <1>2, <1>3, <2>1 DEF ListSoFar
<1> QED
  BY <1>3, <1>6, <1>7, <1>8, <1>9, OpenIsGood DEF n

\* Assets that come to be listed take nothing from a listing under way.
LEMMA StaysGood ==
  ASSUME NEW k, NEW L, L = Listed', NEW n, n = Stays(k, L),
         Good(k), RegistryType, RegistryType', ServiceType, UNCHANGED <<service, accepted>>,
         k.phase \in {"sent", "served"} /\ k.command.op = "list" /\ "removed" \notin Windows =>
           Listed \subseteq Listed'
  PROVE  Good(n)'
<1>1. CASE k.phase \notin {"sent", "served"}
  BY <1>1 DEF Stays, Good, ReportedTrue, ListedWhole, Phases
<1>2. CASE k.phase \in {"sent", "served"}
  <2>1. SoFar(k) /\ k \in InProgress
    BY <1>2 DEF Good, SoFar
  <2>2. n = [k EXCEPT !.stayed = @ \cap L]
    BY <1>2 DEF Stays
  <2>3. /\ n.phase = k.phase /\ n.command = k.command /\ n.leg = k.leg /\ n.offset = k.offset
        /\ n.pages = k.pages /\ n.got = k.got /\ n.code = k.code /\ n.stayed = k.stayed \cap L
        /\ n.auth = k.auth /\ n.present = k.present /\ n.times = k.times /\ n.page = k.page
        /\ n.total = k.total
    BY <2>1, <2>2 DEF InProgress
  <2>4. DOMAIN n = DOMAIN k /\ n = [x \in DOMAIN n |-> n[x]]
    BY <2>2
  <2>5. n \in InProgress
    BY <2>1, <2>3, <2>4 DEF InProgress
  <2>6. WriteSoFar(n) /\ TokenSoFar(n)'
    <3>1. WriteSoFar(k) /\ TokenSoFar(k)
      BY <2>1 DEF SoFar
    <3>2. WriteSoFar(n)
      BY <2>3, <3>1 DEF WriteSoFar
    <3>3. Route(n) = Route(k) /\ (Success(n) <=> Success(k))
      BY <2>3 DEF Route, Success
    <3>4. TokenSoFar(n)'
      BY <2>3, <3>1, <3>3 DEF TokenSoFar, Route, Success
    <3> QED
      BY <3>2, <3>4
  <2>7. ASSUME "removed" \notin Windows, k.command.op = "list" PROVE ListSoFar(n)'
    <3>1. ListSoFar(k) /\ Listed \subseteq L
      BY <1>2, <2>1, <2>7 DEF SoFar
    <3>2. k.stayed \subseteq Listed /\ k.offset \in Nat
      BY <2>1, <2>7, <3>1 DEF ListSoFar, InProgress
    <3>3. \A a \in n.stayed : Place(a)' >= Place(a) /\ Place(a)' \in Nat /\ Place(a) \in Nat
      BY <2>3, <3>1, <3>2, PlaceGrows
    <3>4. n.phase = "sent" => \A a \in n.stayed \ n.got : Place(a)' > n.offset
      BY <2>3, <2>7, <3>1, <3>2, <3>3 DEF ListSoFar
    <3>5. n.phase = "served" /\ n.code = 200 =>
         /\ Cardinality(n.page) \in Nat
         /\ \A a \in n.stayed \ (n.got \cup n.page) :
              /\ Place(a)' > n.offset + Cardinality(n.page) /\ Cardinality(n.page) >= service.limit
              /\ n.offset + Cardinality(n.page) < n.total /\ service.generation # "old"
      <4> SUFFICES ASSUME n.phase = "served", n.code = 200
                   PROVE  /\ Cardinality(k.page) \in Nat
                          /\ \A a \in n.stayed \ (k.got \cup k.page) :
                               /\ Place(a)' > k.offset + Cardinality(k.page)
                               /\ Cardinality(k.page) >= service.limit
                               /\ k.offset + Cardinality(k.page) < k.total
                               /\ service.generation # "old"
        BY <2>3
      <4>1. /\ Cardinality(k.page) \in Nat
            /\ \A a \in k.stayed \ (k.got \cup k.page) :
                 /\ Place(a) > k.offset + Cardinality(k.page) /\ Cardinality(k.page) >= service.limit
                 /\ k.offset + Cardinality(k.page) < k.total /\ service.generation # "old"
        BY <2>3, <2>7, <3>1 DEF ListSoFar
      <4>2. \A a \in n.stayed : a \in k.stayed
        BY <2>3
      <4> QED
        BY <3>2, <3>3, <4>1, <4>2
    <3>6. n.pages < MaxPages /\ n.stayed \subseteq L /\ (service.generation = "old" => n.offset = 0)
      BY <2>3, <2>7, <3>1 DEF ListSoFar
    <3> QED
      BY <3>4, <3>5, <3>6 DEF ListSoFar
  <2>8. k.command.op # "list" => ListSoFar(n)'
    BY <2>3 DEF ListSoFar
  <2>9. SoFar(n)'
    BY <2>5, <2>6, <2>7, <2>8 DEF SoFar, WriteSoFar, InProgress
  <2> QED
    BY <1>2, <2>3, <2>9 DEF Good, Phases
<1> QED
  BY <1>1, <1>2

\* A call is as good as it was while the assets listed, the service's generation
\* and the token stay what they were.
LEMMA StillGood ==
  ASSUME NEW k, Good(k), registry' = registry, accepted' = accepted,
         service'.generation = service.generation, service'.limit = service.limit
  PROVE  Good(k)'
BY DEF Good, SoFar, WriteSoFar, ListSoFar, TokenSoFar, Success, Route, Listed, Place, ReportedTrue,
       ListedWhole, InProgress, Phases

\* Another token: what is under way holds the old one.
LEMMA OutdatedIsGood ==
  ASSUME NEW k, Good(k), k.phase \in {"sent", "served"}, UNCHANGED <<registry, service>>,
         NEW n, n = [k EXCEPT !.present = FALSE]
  PROVE  Good(n)'
<1>1. SoFar(k) /\ k \in InProgress
  BY DEF Good, SoFar
<1>2. /\ n.phase = k.phase /\ n.command = k.command /\ n.leg = k.leg /\ n.offset = k.offset
      /\ n.pages = k.pages /\ n.got = k.got /\ n.code = k.code /\ n.stayed = k.stayed
      /\ n.auth = k.auth /\ n.present = FALSE /\ n.times = k.times /\ n.page = k.page
      /\ n.total = k.total
  BY <1>1 DEF InProgress
<1>3. DOMAIN n = DOMAIN k /\ n = [x \in DOMAIN n |-> n[x]]
  OBVIOUS
<1>4. n \in InProgress
  BY <1>1, <1>2, <1>3 DEF InProgress
<1>5. WriteSoFar(n) /\ TokenSoFar(n)'
  BY <1>1, <1>2 DEF SoFar, WriteSoFar, TokenSoFar, Success, Route
<1>6. "removed" \notin Windows => ListSoFar(n)'
  BY <1>1, <1>2 DEF SoFar, ListSoFar, Listed, Place
<1>7. SoFar(n)'
  BY <1>4, <1>5, <1>6 DEF SoFar, WriteSoFar, InProgress
<1> QED
  BY <1>2, <1>7 DEF Good, Phases

\* One slot's call is replaced by a good one.
LEMMA OneCallGood ==
  ASSUME CallsGood, NEW s \in Slots, NEW n, Good(n), call' = [call EXCEPT ![s] = n],
         UNCHANGED <<registry, service, accepted>>
  PROVE  CallsGood'
<1>1. \A t \in Slots : Good(call'[t])
  BY DEF CallsGood
<1>2. \A k : Good(k) => Good(k)'
  BY StillGood
<1>3. \A t \in Slots : Good(call[t])'
  BY <1>1, <1>2
<1>4. call' = [t \in Slots |-> call'[t]]
  BY DEF CallsGood
<1> QED
  BY <1>3, <1>4 DEF CallsGood, Slots

\* One lemma for every action: it keeps the invariant.
LEMMA IssueStep ==
  ASSUME IngestorInv, NEW s \in Slots, NEW c \in Commands, Issue(s, c)
  PROVE  IngestorInv'
<1> DEFINE n == IF c.valid THEN Started(c) ELSE Ended(c, "rejected", 0, {}, {})
<1> USE DEF IngestorInv
<1>1. call' = [call EXCEPT ![s] = n]
      /\ UNCHANGED <<registry, service, accepted, authRejected, judged, shown>>
  BY DEF Issue
<1>2. Good(n)
  BY StartedIsGood, RejectedIsGood
<1> HIDE DEF n
<1>3. CallsGood'
  BY <1>1, <1>2, OneCallGood
<1> QED
  BY <1>1, <1>3 DEF RegistryType, ServiceType, VerdictTold, Ids

\* A request or an answer is lost: what is known of the call only gets less.
LEMMA FailStep ==
  ASSUME IngestorInv, NEW s \in Slots, FailCall(s)
  PROVE  IngestorInv'
<1> USE DEF IngestorInv
<1> DEFINE Fails(code) ==
             \/ code = NoAnswer /\ call[s].phase = "sent"
             \/ /\ code = NoAnswer /\ call[s].phase = "served"
                /\ call[s].code \notin {NoAnswer} \cup Unusable
             \/ code \in Unusable /\ call[s].phase = "served" /\ call[s].code = 200
           FailsNow(code) == Fails(code) /\ call' = [call EXCEPT ![s] = Failed(call[s], code)]
<1>1. UNCHANGED <<registry, service, accepted, authRejected, judged, shown>>
      /\ \E code : FailsNow(code)
  <2>1. CASE call[s].phase = "sent" /\ call' = [call EXCEPT ![s] = Failed(@, NoAnswer)]
    <3>1. FailsNow(NoAnswer)
      BY <2>1
    <3> QED
      BY <3>1 DEF FailCall
  <2>2. CASE \E code \in {NoAnswer} \cup (IF call[s].code = 200 THEN Unusable ELSE {}) :
               /\ call[s].phase = "served" /\ call[s].code \notin {NoAnswer} \cup Unusable
               /\ call' = [call EXCEPT ![s] = Failed(@, code)]
    <3>1. PICK code \in {NoAnswer} \cup (IF call[s].code = 200 THEN Unusable ELSE {}) :
               /\ call[s].phase = "served" /\ call[s].code \notin {NoAnswer} \cup Unusable
               /\ call' = [call EXCEPT ![s] = Failed(@, code)]
      BY <2>2
    <3>2. FailsNow(code)
      BY <3>1
    <3> QED
      BY <3>2 DEF FailCall
  <2> QED
    BY <2>1, <2>2 DEF FailCall
<1>2. PICK code : FailsNow(code)
  BY <1>1
<1>3. SoFar(call[s])
  BY <1>2, Zenon DEF CallsGood, Good
<1>4. Good(Failed(call[s], code))
  BY <1>2, <1>3, FailedIsGood
<1>5. CallsGood'
  BY <1>1, <1>2, <1>4, OneCallGood
<1> QED
  BY <1>1, <1>5 DEF RegistryType, ServiceType, VerdictTold, Ids

\* What the flag comes to say is the verdict of an answer to the present token.
LEMMA ReceiveStep ==
  ASSUME IngestorInv, NEW s \in Slots, Receive(s)
  PROVE  IngestorInv'
<1> DEFINE k == call[s]
           n == IF FallsBack(k) THEN NextRoute(k)
                ELSE IF k.command.op = "list" /\ k.code = 200 /\ NeedsNextPage(k) THEN NextPage(k)
                ELSE Result(k)
<1> USE DEF IngestorInv
<1>1. /\ k.phase = "served" /\ NoteAuthOutcome(k) /\ call' = [call EXCEPT ![s] = n]
      /\ UNCHANGED <<registry, service, accepted, shown>>
  BY DEF Receive
<1>2. SoFar(k)
  BY <1>1, Zenon DEF CallsGood, Good
<1>3. Good(n)
  <2>1. CASE FallsBack(k)
    BY <1>2, <2>1, NextRouteIsGood
  <2>2. CASE ~FallsBack(k) /\ k.command.op = "list" /\ k.code = 200 /\ NeedsNextPage(k)
    <3>1. Cardinality(k.page) \in Nat
      <4>1. k.page \subseteq Ids
        BY <1>2 DEF SoFar, InProgress
      <4>2. IsFiniteSet(Ids)
        BY FS_Interval, IngestorAssumption DEF Ids
      <4> QED
        BY <4>1, <4>2, FS_Subset, FS_CardinalityType
    <3> QED
      BY <1>1, <1>2, <2>2, <3>1, NextPageIsGood
  <2>3. CASE ~FallsBack(k) /\ ~(k.command.op = "list" /\ k.code = 200 /\ NeedsNextPage(k))
    BY <1>1, <1>2, <2>3, ResultIsGood
  <2> QED
    BY <2>1, <2>2, <2>3
<1>4. authRejected' \in BOOLEAN /\ judged' \in BOOLEAN /\ VerdictTold'
  <2>1. CASE UNCHANGED <<authRejected, judged>>
    BY <1>1, <2>1 DEF VerdictTold
  <2>2. CASE ~IsAuthExemptPath(Route(k)) /\ (Success(k) \/ k.code = 401)
             /\ authRejected' = (k.code = 401) /\ judged' = k.present
    <3>1. k.present \in BOOLEAN /\ k.auth \in BOOLEAN
      BY <1>2 DEF SoFar, InProgress
    <3>2. judged' => k.auth = accepted
      BY <1>2, <2>2 DEF SoFar, TokenSoFar
    <3>3. authRejected' <=> ~k.auth
      BY <1>1, <1>2, <2>2 DEF SoFar, TokenSoFar
    <3> QED
      BY <1>1, <2>2, <3>1, <3>2, <3>3 DEF VerdictTold
  <2> QED
    BY <1>1, <2>1, <2>2 DEF NoteAuthOutcome
<1> HIDE DEF k, n
<1>5. CallsGood'
  BY <1>1, <1>3, OneCallGood
<1> QED
  BY <1>1, <1>4, <1>5 DEF RegistryType, ServiceType, Ids

\* The service goes down or comes back with what it holds.
LEMMA UpOrDownStep == IngestorInv /\ UpOrDown => IngestorInv'
<1> SUFFICES ASSUME IngestorInv, UpOrDown PROVE IngestorInv'
  OBVIOUS
<1> USE DEF IngestorInv
<1>1. /\ UNCHANGED <<registry, accepted, call, authRejected, judged>>
      /\ service'.generation = service.generation /\ service'.limit = service.limit
      /\ DOMAIN service' = DOMAIN service
  BY DEF UpOrDown, ServiceType
<1>2. CallsGood'
  <2>1. \A k : Good(k) => Good(k)'
    BY <1>1, StillGood
  <2>2. \A t \in Slots : Good(call[t])'
    BY <1>1, <2>1 DEF CallsGood
  <2> QED
    BY <1>1, <2>2 DEF CallsGood, Slots
<1> QED
  BY <1>1, <1>2 DEF RegistryType, ServiceType, VerdictTold, Ids

\* With another token there is no verdict yet, and no call under way can give one.
LEMMA TokenStep == IngestorInv /\ TokenChanges => IngestorInv'
<1> SUFFICES ASSUME IngestorInv, TokenChanges PROVE IngestorInv'
  OBVIOUS
<1> USE DEF IngestorInv
<1>1. /\ UNCHANGED <<registry, service, authRejected>> /\ accepted' = ~accepted /\ judged' = FALSE
      /\ call' = [s \in Slots |-> IF call[s].phase \in {"sent", "served"}
                                  THEN [call[s] EXCEPT !.present = FALSE] ELSE call[s]]
  BY DEF TokenChanges
<1>2. ASSUME NEW s \in Slots PROVE Good(call[s])'
  <2>1. CASE call[s].phase \in {"sent", "served"}
    <3>1. \A n : n = [call[s] EXCEPT !.present = FALSE] => Good(n)'
      BY <1>1, <2>1, OutdatedIsGood DEF CallsGood
    <3>2. call'[s] = [call[s] EXCEPT !.present = FALSE]
      BY <1>1, <2>1
    <3> QED
      BY <3>1, <3>2
  <2>2. CASE call[s].phase \notin {"sent", "served"}
    <3>1. call'[s] = call[s] /\ Good(call[s])
      BY <1>1, <2>2 DEF CallsGood
    <3>2. \A n : n = call[s] => Good(n)'
      BY <2>2, <3>1 DEF Good, ReportedTrue, ListedWhole, Phases
    <3> QED
      BY <3>1, <3>2
  <2> QED
    BY <2>1, <2>2
<1>3. CallsGood'
  <2>1. call' = [s \in Slots |-> call'[s]]
    BY <1>1
  <2> QED
    BY <1>2, <2>1 DEF CallsGood, Slots
<1> QED
  BY <1>1, <1>3 DEF RegistryType, ServiceType, VerdictTold, Ids

\* The service carries out a request: only the registry and the calls under way change.
LEMMA ServeStep ==
  ASSUME IngestorInv, NEW s \in Slots, ServeCall(s)
  PROVE  IngestorInv'
<1> USE DEF IngestorInv
<1>1. /\ call[s].phase = "sent" /\ UNCHANGED <<service, accepted, authRejected, judged, shown>>
      /\ \E code \in Codes(call[s]) :
           IF code = 200
           THEN \E new \in Carried(call[s].command) :
                  /\ MayRemove(new) /\ registry' = new
                  /\ call' = [t \in Slots |-> Stays(IF t = s THEN Answered(call[s], 200) ELSE call[t],
                                                    {a \in Ids : new[a] = "list"})]
           ELSE call' = [call EXCEPT ![s] = Answered(@, code)] /\ UNCHANGED registry
  BY DEF ServeCall
<1>2. SoFar(call[s])
  BY <1>1, Zenon DEF CallsGood, Good
<1>3. \A code \in Codes(call[s]) : Good(Answered(call[s], code))
  BY <1>1, <1>2, AnsweredIsGood
<1>4. ASSUME NEW code \in Codes(call[s]), call' = [call EXCEPT ![s] = Answered(@, code)],
             UNCHANGED registry
      PROVE  RegistryType' /\ CallsGood'
  <2>1. Good(Answered(call[s], code)) /\ call' = [call EXCEPT ![s] = Answered(call[s], code)]
    BY <1>3, <1>4
  <2> QED
    BY <1>1, <1>4, <2>1, OneCallGood DEF RegistryType, Ids
<1>5. ASSUME 200 \in Codes(call[s]), NEW new \in Carried(call[s].command), MayRemove(new),
             registry' = new,
             call' = [t \in Slots |-> Stays(IF t = s THEN Answered(call[s], 200) ELSE call[t],
                                            {a \in Ids : new[a] = "list"})]
      PROVE  RegistryType' /\ CallsGood'
  <2>1. RegistryType'
    BY <1>5 DEF RegistryType, Carried, Move, Free, Ids
  <2>2. Listed' = {a \in Ids : new[a] = "list"}
    BY <1>5 DEF Listed, Ids
  <2>3. Answered(call[s], 200).phase = "served" /\ Answered(call[s], 200).command = call[s].command
    BY <1>2 DEF SoFar, InProgress, Answered
  <2>4. ASSUME NEW t \in Slots, call[t].phase \in {"sent", "served"}, call[t].command.op = "list",
               "removed" \notin Windows
        PROVE  Listed \subseteq Listed'
    BY <1>5, <2>2, <2>4 DEF MayRemove, Listed
  <2>5. ASSUME NEW t \in Slots
        PROVE  Good(call[t])'
    <3> DEFINE k == IF t = s THEN Answered(call[s], 200) ELSE call[t]
    <3>1. Good(k)
      BY <1>3, <1>5 DEF CallsGood
    <3>2. k.phase \in {"sent", "served"} /\ k.command.op = "list" /\ "removed" \notin Windows =>
            Listed \subseteq Listed'
      BY <1>1, <2>3, <2>4
    <3>3. call'[t] = Stays(k, {a \in Ids : new[a] = "list"})
      BY <1>5
    <3> HIDE DEF k
    <3>4. \A L, n : L = Listed' /\ n = Stays(k, L) => Good(n)'
      BY <1>1, <2>1, <3>1, <3>2, StaysGood
    <3> QED
      BY <2>2, <3>3, <3>4
  <2>6. call' = [t \in Slots |-> call'[t]]
    BY <1>5
  <2> QED
    BY <2>1, <2>5, <2>6 DEF CallsGood, Slots
<1>6. RegistryType' /\ CallsGood'
  BY <1>1, <1>4, <1>5
<1> QED
  BY <1>1, <1>6 DEF ServiceType, VerdictTold

-----------------------------------------------------------------------------
\* The inductive invariant holds in every reachable state.
LEMMA IngestorHolds == Spec => []IngestorInv
<1>1. Init => IngestorInv
  <2> SUFFICES ASSUME Init PROVE IngestorInv
    OBVIOUS
  <2>1. RegistryType /\ accepted \in BOOLEAN /\ authRejected \in BOOLEAN /\ judged \in BOOLEAN
    BY DEF Init, RegistryType
  <2>2. ServiceType
    BY IngestorAssumption DEF Init, ServiceType
  <2>3. CallsGood
    BY DEF Init, CallsGood, Idle, Good, Phases
  <2>4. VerdictTold
    BY DEF Init, VerdictTold
  <2> QED
    BY <2>1, <2>2, <2>3, <2>4 DEF IngestorInv
<1>2. IngestorInv /\ [Next]_vars => IngestorInv'
  <2> SUFFICES ASSUME IngestorInv, [Next]_vars PROVE IngestorInv'
    OBVIOUS
  <2>1. ASSUME NEW s \in Slots, NEW c \in Commands, Issue(s, c) PROVE IngestorInv'
    BY <2>1, IssueStep
  <2>2. ASSUME NEW s \in Slots, ServeCall(s) \/ FailCall(s) \/ Receive(s) PROVE IngestorInv'
    BY <2>2, ServeStep, FailStep, ReceiveStep
  <2>3. CASE Heartbeat \/ UNCHANGED vars
    <3>1. UNCHANGED <<registry, service, accepted, call, authRejected, judged>>
      BY <2>3 DEF Heartbeat, vars
    <3>2. \A k : Good(k) => Good(k)'
      BY <3>1, StillGood
    <3>3. CallsGood'
      BY <3>1, <3>2 DEF IngestorInv, CallsGood, Slots
    <3> QED
      BY <3>1, <3>3 DEF IngestorInv, RegistryType, ServiceType, VerdictTold, Ids
  <2>4. CASE UpOrDown \/ TokenChanges
    BY <2>4, UpOrDownStep, TokenStep
  <2> QED
    BY <2>1, <2>2, <2>3, <2>4 DEF Next
<1> QED
  BY <1>1, <1>2, PTL DEF Spec

\* While no row leaves the list a listing reads from, every command of
\* ingestor_api.rs reports what happened to it, and what list_ingestor_assets
\* collects over its pages (list_all_pages) holds all that stayed.
THEOREM AnswersTrue ==
  ASSUME "removed" \notin Windows
  PROVE  Spec => []AnswersAreTrue
<1>1. IngestorInv => AnswersAreTrue
  BY DEF IngestorInv, CallsGood, Good, ReportedTrue, ListedWhole, AnswersAreTrue, DoneAsReported, ListingIsWhole
<1> QED
  BY <1>1, IngestorHolds, PTL

\* Whatever leaves the list, a command reports a change exactly if the service made
\* it, and none is made twice: no retry and no second route repeats a write.
THEOREM ReportedAsDone == Spec => []DoneAsReported
<1>1. IngestorInv => DoneAsReported
  BY DEF IngestorInv, CallsGood, Good, ReportedTrue, DoneAsReported
<1> QED
  BY <1>1, IngestorHolds, PTL

\* AUTH_REJECTED (note_auth_outcome) tells the service's verdict on the present
\* token once an answer to it has been the last one noted.
THEOREM VerdictIsTold == Spec => []VerdictTold
<1>1. IngestorInv => VerdictTold
  BY DEF IngestorInv
<1> QED
  BY <1>1, IngestorHolds, PTL
=============================================================================
